CONSTANTS
  Profile = {p, q}
  NoProfile = NoProfile
  ClaimTopic = {phone}
  Data = {number}
  Caller = {c, d}
  NoIdentity = NoIdentity
  MaxTx = 3
  MaxIssued = 2
  MaxGiven = 1
SPECIFICATION UsersSpec
INVARIANTS GivenIsShown OneIdentity
SYMMETRY Symmetric
CHECK_DEADLOCK FALSE
