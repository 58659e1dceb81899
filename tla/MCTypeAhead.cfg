\* A key that is there before the sensor thread has looked at the switch.
CONSTANTS
    SleepTime = 20
    SampleMax = 9
SPECIFICATION Spec
INVARIANT
    CompleteMeansCalibrated
