\* A heap for one shell and three sensor threads, with one unit to spare.
CONSTANTS
    HeapSize <- MCHeapSize
    ShellSize <- MCShellSize
    SensorSize <- MCSensorSize
SPECIFICATION Spec
INVARIANTS
    TypeOK
    ShellFits
PROPERTIES
    ShellComesBack
    BootsWhenAsked
