SPECIFICATION FilterSpec
CONSTANT Byte = 8
INVARIANTS FilterTypeOK SampleIsField
PROPERTIES NoOvershoot Settles
