CONSTANTS
  admin = admin
  ann = ann
  bob = bob
  migration = migration
  NullAddr = NullAddr
  old = old
  new = new
  Account = {admin, ann, bob, migration, old, new}
  FromAddr = old
  ToAddr = new
  Migration = migration
  Admin = admin
  InitialSupply = 2
  Amounts = {1}
  Recipients = {admin, ann, bob}
  Delegates = {}
  Owners = {migration}
  Transactors = {}
  Spenders = {}
  Expirations = {}
  Day = 1
  MaxSupply = 2
  StartTime = 1
  MaxTime = 2
SPECIFICATION Spec
INVARIANT TotalsTellAll
PROPERTY FinishIsComplete
CHECK_DEADLOCK FALSE
