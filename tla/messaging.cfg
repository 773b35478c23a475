CONSTANTS
  Alice = Alice
  Bob = Bob
  a1 = a1
  b1 = b1
  Call = {a1, b1}
  Caller <- MCCaller
  Registered = {Bob}
  MaxEntries = 2
  MaxReloads = 1
SPECIFICATION FairSpec
INVARIANTS AllReadable KeysBefore
CHECK_DEADLOCK FALSE
PROPERTIES Delivered
