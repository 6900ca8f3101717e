SPECIFICATION Spec
CONSTANTS
  A = A  B = B  None = None  Absent = Absent
  a1 = a1  a2 = a2  b1 = b1
  Files = {a1, a2, b1}
  Names <- MCNames
  Unit <- MCUnit
  Name <- MCName
  Content <- MCContent
  Queue <- BothWays
  OnDisk <- HasA2
  Unsafe = {"b1"}
  BlockSize = 2
  VerifyLimit = 9
  InitialWindow = 1
  MaxWindow = 1
  HighWater = 9
  Lossy = {"D", "A", "N"}
  MaxLosses = 1
  MaxEarly = 1
  MaxReconnects = 1
INVARIANTS
  Delivered
  AckedIsStored
PROPERTY ReportedIsFinal
