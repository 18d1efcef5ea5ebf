CONSTANTS
    s1 = s1
    s2 = s2
    Ssrcs <- MC_Ssrcs
    SeqBits = 3
    TsBits = 3
    MaxGap = 2
    MaxTsGap = 1
    MaxStep = 2
    MaxPackets = 4

SPECIFICATION Spec

INVARIANT TypeOK

PROPERTY RewriteContinuity

CHECK_DEADLOCK FALSE
