\* A calibration started while prevent_wraparound has shifted the idle frame.
SPECIFICATION Spec
CONSTANTS
    Arcs <- MCFewArcs
    Moves <- MCFewMoves
    Unit <- MCUnit
    NanCast <- MCNanCast
    MaxCals = 1
INVARIANT
    AnyCalibrationReachesEnds
