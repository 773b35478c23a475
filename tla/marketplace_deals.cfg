CONSTANTS
  alice = alice
  bob = bob
  ogn = ogn
  ogn2 = ogn2
  dai = dai
  Account = {alice, bob}
  Owner = alice
  Refusing = {}
  NullAddr = NullAddr
  Market = Market
  Eth = Eth
  Token = {ogn, dai}
  OriginToken = {ogn}
  MaxListings = 1
  MaxOffers = 2
  MaxRecord = 3
  Amounts = {1}
  Managers = {alice}
  Whitelisted = {bob}
  Terms <- DealTerms
  RelativeWindow = 2
  StartTime = 2
  MaxTime = 5
  Watched = Eth
  Endowment <- SellerAndBuyer
SPECIFICATION FairSpec
INVARIANTS AgreedOffersSound Settleable
PROPERTIES ImplementsEscrow AcceptedSettles
CHECK_DEADLOCK FALSE
