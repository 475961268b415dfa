\* The schema the migration creates.
CONSTANTS
  Payloads <- AllPayloads
  NameMax = 3
  PrefixLen = 1
  IntMax = 1
  BigMax = 2
  MaxChunkSize = 1
  Schemas <- Migrated
SPECIFICATION Spec
CHECK_DEADLOCK FALSE
INVARIANT
  FittingIsStored
