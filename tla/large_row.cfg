CONSTANTS
  Columns = 1
  MaxRows = 1
  Sizes = {1, 5}
  FixedColumns = {}
  FixedSize = 1
  MaxPayload = 4
  GrowSize = 1
  Formats = {"text"}
  NonBlocking = FALSE
  BufferLate = FALSE
  Null = Null
  Junk = Junk
SPECIFICATION Spec
CHECK_DEADLOCK FALSE
INVARIANTS
  PartsMakeProgress
