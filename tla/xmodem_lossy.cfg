SPECIFICATION FairSpec
CONSTANTS
  N = 6
  PacketSize = 3
  ShortSize = 1
  SeqMod = 5
  Retry = 4
  Values <- MCValues
  Blanks <- MCBlanks
  Dialects = {"XMODEM", "XMODEMCRC", "XMODEM1K"}
  Mishaps = {"noise", "CAN", "drop", "pause"}
  MaxFaults = 3
INVARIANTS
  TypeOK
  StoredInOrder
  AcksAreBacked
  OutcomeIsTrue
PROPERTIES
  BothReturn
  CleanCompletes
  ImplementsTransfer
