CONSTANT Drivers <- OnlyMem
CONSTANT Table <- AllTables
SPECIFICATION Spec
INVARIANT ExitFreesAll
CHECK_DEADLOCK FALSE
