SPECIFICATION FairSpec
CONSTANTS
  None = None  Absent = Absent  Zero = 0
  f1 = f1  g1 = g1  bad = bad  lost = lost
  Files = {f1, g1, bad, lost}
  Unit <- MCUnit
  Content <- MCContent
  Queues <- OrRefused
  Overwrites = {FALSE, TRUE}
  Directories <- Partial
  Unsafe = {bad}
  Unreadable = {lost}
  MaxLaunches = 4
  MaxBreaks = 1
  Mishaps = {"pause", "ZRQINIT", "ZRINIT", "ZFILE", "info", "ZRPOS", "ZDATA", "chunk", "end",
             "ZEOF", "ZFIN", "ZCOMPL", "ZNAK", "OO", "CAN"}
  MaxFaults = 2
INVARIANTS
  TypeOK
  CleanCopies
  ReportedIsCounted
  OwnData
PROPERTIES
  InterruptEndsBoth
  Completes
