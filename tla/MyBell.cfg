SPECIFICATION FairSpec
CONSTANT MaxU32 = 4
INVARIANTS EventsCounted NoStorm ThreadSeesItsEvent HandlersHaveDev
PROPERTIES EventHandled RemoveFinishes
