SPECIFICATION FairSpec
CONSTANTS
  A = A  B = B  None = None  Absent = Absent
  a1 = a1  a2 = a2  b1 = b1
  Files = {a1, a2, b1}
  Names <- MCNames
  Unit <- MCUnit
  Name <- MCName
  Content <- MCContent
  Queue <- BothWays
  OnDisk <- Nothing
  Unsafe = {}
  BlockSize = 2
  WindowSize = 2
  VerifyLimit = 9
  PipeSlots = 3
  Lossy = {"D", "A", "N"}
  MaxLosses = 2
  MaxEarly = 1
  MaxReconnects = 0
INVARIANTS
  TypeOK
  Delivered
  AckedIsStored
  ExpectedIsWritten
  GenuineFrames
  DoneMeansExchanged
PROPERTIES
  AllReported
  BothEnd
  ImplementsTransfer
