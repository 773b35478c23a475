CONSTANTS
  ann = ann
  bob = bob
  self = self
  origin = origin
  NullAddr = NullAddr
  NoContent = NoContent
  Outside = Outside
  NoCall = NoCall
  Account = {ann, bob, self}
  Self = self
  Contracts = {bob}
  Purpose = {1, 2, 3}
  Issuer = {NullAddr, origin}
  Topic = {10, 13}
  Content = {"signed"}
  Deployer = ann
  Keys = {bob}
  Batches <- SmallBatches
  Calls <- SmallCalls
  MaxExecutions = 2
  MaxDepth = 2
  MaxIndexed = 2
SPECIFICATION Spec
INVARIANTS IndexesAgree RunsOnce
PROPERTIES RequestsFixed OnlyKeyHoldersAct
CHECK_DEADLOCK FALSE
