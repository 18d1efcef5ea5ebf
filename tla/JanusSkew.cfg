\* 48 kHz audio in 20 ms packets against the real 40 ms threshold; the
\* 15 s warm-up is scaled to 400 ms (20 packets) so that a switch can fall
\* both inside and after it.  TLC integers are 32-bit, so timestamps are
\* 24-bit here; no timestamp of the run comes near the wrap.
CONSTANTS
    Rate = 48
    PacketMs = 20
    Threshold = 40
    Warmup = 400
    Smooth = 32
    Drifts <- MCDrifts
    SpikeMs = 100
    TsBits = 24
    TsBase <- MCTsBase
    MaxSwitches = 1
    SwitchBy = 30
    MaxPackets = 180
SPECIFICATION Spec
\* The run ends when the sender has sent MaxPackets packets.
CHECK_DEADLOCK FALSE
INVARIANT TypeOK
INVARIANT WarmupSilent
INVARIANT OutputAccountsForJumps
PROPERTY DriftCompensated
