CONSTANTS
  HeaderSize = 2
  MaxPayload = 2
  DefaultSize = 4
  MaxSize = 8
  MaxCommand = 2
  MaxStream = 14
SPECIFICATION Spec
CHECK_DEADLOCK FALSE
INVARIANTS
  WithinAllocation BytesInOrder GrowthBounded
PROPERTY
  PacketsArrive PacketStream
