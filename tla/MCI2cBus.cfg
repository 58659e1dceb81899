SPECIFICATION Spec
CONSTANTS
    t1 = t1
    t2 = t2
    t3 = t3
    Threads <- MCThreads
    Kind <- MCKind
    Room = 2
    Message = 2
INVARIANTS TypeOK OneTransaction PrintsOffBus
PROPERTIES BusComesFree SensorsGoOn
