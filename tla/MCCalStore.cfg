SPECIFICATION Spec
CONSTANTS
    MaxCals = 2
    MaxBoots = 2
    SensorInTime = TRUE
INVARIANT TypeOK
INVARIANT FlashWhole
INVARIANT AckedIsDurable
INVARIANT UsedWhole
PROPERTY KeepsMemory
