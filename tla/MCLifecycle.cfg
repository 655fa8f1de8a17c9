CONSTANT Drivers <- AllDrivers
CONSTANT Table <- AllTables
SPECIFICATION Spec
INVARIANTS
  BoundIsReady
  NothingLeft
  ReleaseInOrder
  CallbacksReady
  FilesReady
CHECK_DEADLOCK FALSE
