\* Every small request, on the migrated schema and on one with the labels the ORM binds.
CONSTANTS
  Payloads <- AllPayloads
  NameMax = 3
  PrefixLen = 1
  IntMax = 1
  BigMax = 2
  MaxChunkSize = 1
  Schemas <- MigratedOrRepaired
SPECIFICATION Spec
CHECK_DEADLOCK FALSE
INVARIANTS
  TypeOK
  NoHalfUpload
  NamesAreClean
