CONSTANTS
  admin = admin
  shop = shop
  safe = safe
  NullAddr = NullAddr
  ogn = ogn
  Account = {admin, shop, safe, ogn}
  This = ogn
  Deployer = admin
  InitialSupply = 1
  Amounts = {1}
  Recipients = {admin, safe}
  Delegates = {shop}
  Owners = {safe}
  Transactors = {shop}
  Spenders = {shop}
  Expirations = {2, 3}
  Day = 1
  MaxSupply = 1
  StartTime = 1
  MaxTime = 2
  Operator = admin
  Wallet = safe
  Signers = {admin, shop}
  Required = 2
  CreditAmount = 1
  NewOwners = {safe, shop}
  ValidOwners = {shop}
  MaxTries = 2
SPECIFICATION ToolsSpec
INVARIANTS SupplyIsSum AnswersTrue EffectOnce
PROPERTIES TransfersGated WhitelistEnds
CHECK_DEADLOCK FALSE
