CONSTANTS
    c1 = c1
    c2 = c2
    eoc = eoc
    stopPkt = stopPkt
    Candidates <- MC_Candidates
    EOC <- eoc
    StopPkt <- stopPkt
    MaxPackets <- MC_MaxPackets
    Grace <- MC_Grace

SPECIFICATION Spec

INVARIANT NoSetupAfterHangup

CHECK_DEADLOCK FALSE
