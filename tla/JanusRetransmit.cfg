CONSTANTS
    NackQueue = 2
    SeqBits = 2
    RtxBits = 2
    Window = 1
    BlpBits = 2
    Threshold = 2
    MaxPackets = 4
    MaxNacks = 3
    MaxTime = 4
SPECIFICATION Spec
INVARIANT TypeOK
INVARIANT RtxConsecutive
INVARIANT SlowLinkJustified
PROPERTY RetransmitFaithful
\* The lane itself never stops; the only states without a successor are
\* those where the bounds on packets, NACKs and ticks are all used up.
CHECK_DEADLOCK FALSE
