SPECIFICATION Spec
CONSTANTS
  Base = 2
  MaxLengthBytes = 3
  BufSize = 5
  Remaining <- Lengths
  Packets = 3
  MaxFails = 2
INVARIANTS TypeOK Aligned
PROPERTY ReadsPackets
