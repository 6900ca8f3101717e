SPECIFICATION Spec
CONSTANTS
  A = A  B = B  None = None  Absent = Absent
  a1 = a1  a2 = a2  b1 = b1
  Files = {a1, a2, b1}
  Names <- MCNames
  Unit <- MCUnit
  Name <- MCName
  Content <- MCContent
  Queue <- BothWays
  OnDisk <- HasA2
  Unsafe = {"b1"}
  BlockSize = 2
  WindowSize = 1
  VerifyLimit = 9
  PipeSlots = 3
  Lossy = {"D", "A", "N"}
  MaxLosses = 1
  MaxEarly = 1
  MaxReconnects = 2
INVARIANT Delivered
PROPERTY ReportedIsFinal
