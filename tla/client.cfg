CONSTANTS
  alice = alice
  bob = bob
  ogn = ogn
  Account = {alice, bob}
  Owner = alice
  Refusing = {}
  NullAddr = NullAddr
  Market = Market
  Eth = Eth
  Token = {ogn}
  OriginToken = {ogn}
  MaxListings = 2
  MaxOffers = 1
  MaxRecord = 3
  Amounts = {0}
  Managers = {alice}
  Whitelisted = {}
  Terms <- TwoKinds
  RelativeWindow = 1
  StartTime = 3
  MaxTime = 3
  Endowment <- Wealth
  Kept <- ClientEvents
  MaxLog = 4
  Asked <- AskedTerms
  DeployedToken = ogn
  Arbitrators = {NullAddr, alice}
  Commission = 1
SPECIFICATION ClientSpec
INVARIANTS CreatedIsOwn AcceptedAsShown ReviewsOfDeals
CHECK_DEADLOCK FALSE
