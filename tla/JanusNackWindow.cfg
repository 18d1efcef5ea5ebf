CONSTANTS
    MaxLen = 3
    SeqBits = 3
    Reorder = 1
    Rtt = 1
    GiveUp = 2
    MaxPackets = 9
    MaxRtx = 1
    NoMediaTimer = 2
    MaxTime = 4
SPECIFICATION Spec
INVARIANT TypeOK
INVARIANT LossDetected
INVARIANT SlotsTruthful
PROPERTY NackOnce
PROPERTY LossNacked
INVARIANT NoMediaTruthful
PROPERTY NoMediaReported
\* The peer stops sending and time is bounded: the only states without a
\* successor are those where every packet has arrived or been lost and the
\* clock bound is reached.
CHECK_DEADLOCK FALSE
