\* Two sensor threads without round robin (chconf.h:97), four samples.
CONSTANTS
    s1 = s1
    s2 = s2
    Sensors = {s1, s2}
    TimeQuantum = 0
    MaxSamples = 4
SYMMETRY Symmetry
SPECIFICATION Spec
INVARIANTS
    TypeOK
    ReportWhole
    FreshReport
PROPERTY
    ReportsInOrder
