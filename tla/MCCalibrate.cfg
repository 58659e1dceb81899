\* Up to two calibrations of a stick with a mechanical range of up to 145.5 units.
SPECIFICATION Spec
CONSTANTS
    Arcs <- MCArcs
    Moves <- MCMoves
    Unit <- MCUnit
    NanCast <- MCNanCast
    MaxCals = 2
INVARIANTS
    TypeOK
    ExtremesTracked
    AxisReachesEnds
PROPERTY
    AxisFollowsStick
