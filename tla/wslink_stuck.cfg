SPECIFICATION Spec
CONSTANTS
  A = A  B = B  None = None  Absent = Absent
  a1 = a1  a2 = a2  b1 = b1
  Files = {a1, a2, b1}
  Names <- MCNames
  Unit <- MCUnit
  Name <- MCName
  Content <- ThreeEach
  Queue <- OneEach
  OnDisk <- Nothing
  Unsafe = {}
  BlockSize = 2
  VerifyLimit = 9
  InitialWindow = 3
  MaxWindow = 3
  HighWater = 1
  Lossy = {}
  MaxLosses = 0
  MaxEarly = 0
  MaxReconnects = 0
INVARIANT NotStuck
