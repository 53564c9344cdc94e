CONSTANTS
  Base = 18
  SqlStateSize = 2
  MaxLength = 3
  Fields <- SomeFields
  ParamCount = 2
  Numbers = {0, 1, 2, 3}
  Bindable <- SomeBindable
  MaxExecutes = 2
  Bits <- SomeBits
  ColumnLists <- SomeColumnLists
  RowValues <- SomeRowValues
SPECIFICATION Spec
INVARIANTS
  UnpackedAsPacked PacketAccounted ParamsArrive RequestFits
  FetchedAsSent TextsFit DecimalsShown
CHECK_DEADLOCK FALSE
