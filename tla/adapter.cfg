CONSTANTS
  alice = alice
  bob = bob
  ogn = ogn
  Account = {alice, bob}
  Owner = alice
  Refusing = {}
  NullAddr = NullAddr
  Market = Market
  Eth = Eth
  Token = {ogn}
  OriginToken = {ogn}
  MaxListings = 1
  MaxOffers = 2
  MaxRecord = 3
  Amounts = {0}
  Managers = {alice}
  Whitelisted = {}
  Terms <- OneKind
  RelativeWindow = 2
  StartTime = 2
  MaxTime = 3
  Endowment <- Wealth
  Kept <- StatusEvents
  MaxLog = 4
  Asked <- AskedTerms
SPECIFICATION AdapterSpec
INVARIANTS LogTells StatusTimely NothingMissed OffersComplete
CHECK_DEADLOCK FALSE
