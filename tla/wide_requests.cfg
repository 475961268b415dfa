\* Every accepted request, were the labels those the ORM binds.
CONSTANTS
  Payloads <- AllPayloads
  NameMax = 3
  PrefixLen = 1
  IntMax = 1
  BigMax = 2
  MaxChunkSize = 1
  Schemas <- Repaired
SPECIFICATION Spec
CHECK_DEADLOCK FALSE
INVARIANT
  AcceptedIsStored
