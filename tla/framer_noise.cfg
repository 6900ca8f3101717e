SPECIFICATION Spec
CONSTANTS
  Packets <- MCPackets
  CrcSize = 3
  N = 3
  NoiseBytes <- MCNoise
  MaxRead = 2
  MaxFaults = 2
INVARIANTS
  TypeOK
  NothingForged
  FaultCostsOnePacket
