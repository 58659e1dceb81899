\* A unit of 10 ms.  90 ms is the longest sample, in whole units, that fits
\* twice into a sleep.
CONSTANTS
    SleepTime = 20
    SampleMax = 9
SPECIFICATION Spec
INVARIANTS
    TypeOK
    SensorInTime
    CalibratedIfWaited
PROPERTIES
    KeyEndsCal
    CalibrationEnds
