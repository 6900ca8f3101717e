SPECIFICATION FairSpec
CONSTANTS
  A = A  B = B  None = None  Absent = Absent
  a1 = a1  a2 = a2  b1 = b1
  Files = {a1, a2, b1}
  Names <- MCNames
  Unit <- MCUnit
  Name <- MCName
  Content <- MCContent
  Queue <- OneWay
  OnDisk <- Nothing
  Unsafe = {}
  BlockSize = 2
  VerifyLimit = 9
  InitialWindow = 2
  MaxWindow = 3
  HighWater = 2
  Lossy = {"D", "A", "N"}
  MaxLosses = 2
  MaxEarly = 2
  MaxReconnects = 0
INVARIANTS
  TypeOK
  Delivered
  AckedIsStored
  NoLostWakeup
  UnackedIsTimed
PROPERTIES
  AllReported
  ImplementsTransfer
