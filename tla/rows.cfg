CONSTANTS
  Columns = 2
  MaxRows = 3
  Sizes = {0, 2}
  FixedColumns = {2}
  FixedSize = 2
  MaxPayload = 100
  GrowSize = 2
  Formats = {"text", "binary"}
  NonBlocking = TRUE
  BufferLate = TRUE
  Null = Null
  Junk = Junk
SPECIFICATION Spec
CHECK_DEADLOCK FALSE
INVARIANTS
  FieldsAsSent PacketUsedUp EndMeansAllRows BufferedRowsAsSent ShownAsSent
