CONSTANTS
  alice = alice
  bob = bob
  ogn = ogn
  ogn2 = ogn2
  dai = dai
  Account = {alice, bob}
  Owner = alice
  Refusing = {}
  NullAddr = NullAddr
  Market = Market
  Eth = Eth
  Token = {ogn, ogn2}
  OriginToken = {ogn, ogn2}
  MaxListings = 2
  MaxOffers = 1
  MaxRecord = 2
  Amounts = {1}
  Managers = {alice}
  Whitelisted = {bob}
  Terms <- MoneyTerms
  RelativeWindow = 2
  StartTime = 2
  MaxTime = 3
  Watched = Eth
  Endowment <- BothTokens
SPECIFICATION Spec
INVARIANTS TypeOK EscrowExact
PROPERTY BackingKept
CHECK_DEADLOCK FALSE
