SPECIFICATION Spec
CONSTANTS
  Ids = {"x", "y"}
  Chunks = {"c", "d"}
  Values = {"short", "long"}
  FieldType = "Id"
  SizeOf <- MCSizeOf
  BlockSize = 5
  HeaderSize = 2
  MaxTime = 4
  MaxStored = 4
INVARIANTS  AnswersAreCurrent
