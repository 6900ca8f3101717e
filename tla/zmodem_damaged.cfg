SPECIFICATION FairSpec
CONSTANTS
  None = None  Absent = Absent  Zero = 0
  f1 = f1  g1 = g1  bad = bad  lost = lost
  Files = {f1, g1, bad, lost}
  Unit <- MCUnit
  Content <- MCContent
  Queues <- Plainly
  Overwrites = {FALSE}
  Directories <- Empty
  Unsafe = {bad}
  Unreadable = {lost}
  MaxLaunches = 2
  MaxBreaks = 0
  Mishaps = {"chunk"}
  MaxFaults = 1
INVARIANTS
  CountedIsWhole
