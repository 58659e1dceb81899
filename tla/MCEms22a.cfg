\* The two devices of EMS22A_CHAIN_LEN.
CONSTANTS
    ChainLen = 2
    Streams <- MCStreams
SPECIFICATION Spec
INVARIANTS
    TypeOK
    FramesCut
    IntactOnesReported
