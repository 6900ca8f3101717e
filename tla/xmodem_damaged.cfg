SPECIFICATION FairSpec
CONSTANTS
  N = 4
  PacketSize = 2
  ShortSize = 1
  SeqMod = 5
  Retry = 4
  Values <- MCValues
  Blanks <- NoBlanks
  Dialects = {"XMODEM"}
  Mishaps = {"contents"}
  MaxFaults = 1
PROPERTIES
  Recovers
