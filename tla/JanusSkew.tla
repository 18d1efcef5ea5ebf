------------------------------ MODULE JanusSkew ------------------------------
(***************************************************************************)
(* The skew compensator of one lane of a janus_rtp_switching_context       *)
(* (src/rtp.h), as janus_rtp_skew_compensate_audio/_video run it on every  *)
(* packet a plugin relays, and the relaying caller that acts on its result *)
(* (spec 4.3).  The compensator keeps the arrival time of the first packet *)
(* of the current source (start_time); after the warm-up it captures the   *)
(* reference pair (reference_time, start_ts) = (t0, ts0), and then for     *)
(* each packet computes delay = now - (t0 + (ts - ts0) / rate), smooths it *)
(* into prev_delay and compares the smoothed delay against active_delay,   *)
(* the delay already compensated.  Beyond +threshold it bumps seq_offset   *)
(* by N and returns N; below -threshold it lowers seq_offset by N and      *)
(* returns -N, and the caller must drop N packets.  A new SSRC (new_ssrc,  *)
(* set by janus_rtp_header_update) restarts the warm-up.  The sender sends *)
(* a packet every PacketMs of its own clock, which runs Drift ms per       *)
(* packet slow (> 0) or fast (< 0) against ours; a packet may also be held *)
(* up once by a jitter spike.  Times are in ms, timestamps in clock ticks. *)
(***************************************************************************)
EXTENDS Integers

CONSTANTS
    Rate,        \* clock rate in ticks per ms (48 for 48 kHz audio)
    PacketMs,    \* packetization interval of the sender, in ms
    Threshold,   \* RTP_AUDIO_SKEW_TH_MS / RTP_VIDEO_SKEW_TH_MS
    Warmup,      \* SKEW_DETECTION_WAIT_TIME_SECS, in ms
    Smooth,      \* weight of the exponential smoothing of the delay
    Drifts,      \* the per-packet drifts the sender's clock may have, in ms
    SpikeMs,     \* how late a jitter spike delivers a packet, in ms
    TsBits,      \* width of the RTP timestamp (32 in rtp_header)
    TsBase,      \* the RTP timestamp of packet 0 of each source
    MaxSwitches, \* bound on SSRC changes
    SwitchBy,    \* SSRC changes and spikes happen by this packet
    MaxPackets   \* bound on the packets relayed

ASSUME Rate > 0 /\ PacketMs > 0 /\ Smooth > 0
TsSpace == 2^TsBits
ASSUME \A s \in DOMAIN TsBase : TsBase[s] \in 0..(TsSpace - 1)

NoTime == -1   \* start_time / reference_time not set yet

(* C integer division, which truncates towards zero.                       *)
CDiv(a, b) == IF a >= 0 THEN a \div b ELSE -((-a) \div b)

VARIABLES
    ctx,          \* the compensator's fields of the lane's context
    k,            \* packets the sender has sent (the inbound sequence number)
    src,          \* the current source, an index into TsBase
    drift,        \* the drift of the sender's clock, fixed for a run
    now,          \* arrival time of the last packet
    switches,     \* SSRC changes so far
    spiked,       \* a jitter spike has happened
    result,       \* what the compensator returned for the last packet
    credit,       \* packets the caller still has to drop
    lastOut,      \* outbound sequence number of the last packet relayed
    relayed,      \* packets relayed (not dropped)
    jumped,       \* history: sum of the positive results
    fresh,        \* history: the next packet is the first of its source
    sourceStart   \* history: arrival time of the first packet of the source

vars == <<ctx, k, src, drift, now, switches, spiked, result, credit,
          lastOut, relayed, jumped, fresh, sourceStart>>
-----------------------------------------------------------------------------
(* The skew fields of janus_rtp_switching_context after                    *)
(* janus_rtp_switching_context_reset.                                      *)
SkewContextReset ==
    [new_ssrc |-> FALSE, start_time |-> NoTime, reference_time |-> NoTime,
     start_ts |-> 0, prev_ts |-> 0, prev_delay |-> 0, active_delay |-> 0,
     seq_offset |-> 0]

Init ==
    /\ ctx = SkewContextReset
    /\ k = 0
    /\ src = CHOOSE s \in DOMAIN TsBase : TRUE
    /\ drift \in Drifts
    /\ now = 0
    /\ switches = 0
    /\ spiked = FALSE
    /\ result = 0
    /\ credit = 0
    /\ lastOut = 0
    /\ relayed = 0
    /\ jumped = 0
    /\ fresh = TRUE
    /\ sourceStart = 0

(* Variant that forgets the timestamp step is in clock ticks, not in ms.   *)
PacketsMsUnits(d, step) == CDiv(d, step)

(* The compensation for a smoothed delay d past what is compensated: the   *)
(* number of packets of the sender's own interval (step ticks) it spans.   *)
Packets(d, step) == CDiv(d * Rate, step)

(* Variant that compares the raw delay of the packet, unsmoothed.          *)
SmoothedRaw(prev, delay) == delay

(* The exponentially smoothed delay, in C integer arithmetic.              *)
Smoothed(prev, delay) == CDiv((Smooth - 1) * prev + delay, Smooth)

(* Variant that restarts the warm-up for the first source only.            *)
RestartsFirstOnly(c) == c.start_time = NoTime

(* The warm-up starts over at the first packet and at every new SSRC.      *)
Restarts(c) == c.new_ssrc \/ c.start_time = NoTime

(* janus_rtp_skew_compensate_audio/_video for a packet with timestamp ts   *)
(* arriving at t: the updated context and the value returned.              *)
Compensate(c, ts, t) ==
    LET warm     == t - c.start_time < Warmup
        capture  == c.reference_time = NoTime
        expected == c.reference_time + ((ts - c.start_ts) % TsSpace) \div Rate
        est      == Smoothed(c.prev_delay, t - expected)
        off      == est - c.active_delay
        step     == (ts - c.prev_ts) % TsSpace
        n        == IF off > Threshold \/ off < -Threshold
                    THEN Packets(off, step) ELSE 0
    IN  CASE Restarts(c) ->
               [ctx |-> [c EXCEPT !.new_ssrc = FALSE, !.start_time = t,
                                  !.reference_time = NoTime, !.prev_ts = ts,
                                  !.prev_delay = 0, !.active_delay = 0],
                res |-> 0]
          [] warm ->
               [ctx |-> [c EXCEPT !.prev_ts = ts], res |-> 0]
          [] capture ->
               [ctx |-> [c EXCEPT !.reference_time = t, !.start_ts = ts,
                                  !.prev_ts = ts],
                res |-> 0]
          [] OTHER ->
               [ctx |-> [c EXCEPT !.prev_ts = ts, !.prev_delay = est,
                           !.active_delay = @ + CDiv(n * step, Rate),
                           !.seq_offset = @ + n],
                res |-> n]

(* Variant of the caller that takes the -N it is told with its sign.       *)
DropCreditSigned(owed, res, drop) ==
    owed + (IF res < 0 THEN res ELSE 0) - (IF drop THEN 1 ELSE 0)

(* Variant of the caller that drops the packet it is told about only.      *)
DropCreditThisOnly(owed, res, drop) ==
    IF res < 0 THEN 0 ELSE owed - (IF drop THEN 1 ELSE 0)

(* After a result of -N the caller drops N packets, this one first.        *)
DropCredit(owed, res, drop) ==
    owed + (IF res < 0 THEN -res ELSE 0) - (IF drop THEN 1 ELSE 0)

(* The next packet of the sender reaches the plugin, late by a spike or    *)
(* not, never before the one ahead of it, and is relayed or dropped.       *)
Relay(spike) ==
    LET k1   == k + 1
        t0   == k1 * (PacketMs + drift) + (IF spike THEN SpikeMs ELSE 0)
        t    == IF t0 < now THEN now ELSE t0
        ts   == (TsBase[src] + k1 * PacketMs * Rate) % TsSpace
        out  == Compensate(ctx, ts, t)
        drop == out.res < 0 \/ credit > 0
    IN  /\ k < MaxPackets
        /\ spike => ~spiked /\ k < SwitchBy
        /\ k' = k1
        /\ now' = t
        /\ spiked' = (spiked \/ spike)
        /\ ctx' = out.ctx
        /\ result' = out.res
        /\ credit' = DropCredit(credit, out.res, drop)
        /\ lastOut' = IF drop THEN lastOut ELSE (k1 + out.ctx.seq_offset) % 2^16
        /\ relayed' = IF drop THEN relayed ELSE relayed + 1
        /\ jumped' = IF out.res > 0 THEN jumped + out.res ELSE jumped
        /\ fresh' = FALSE
        /\ sourceStart' = IF fresh THEN t ELSE sourceStart
        /\ UNCHANGED <<src, drift, switches>>

(* The plugin switches the lane to another source: janus_rtp_header_update *)
(* sees the new SSRC and sets new_ssrc.                                    *)
SwitchSource(s) ==
    /\ switches < MaxSwitches
    /\ 0 < k /\ k < SwitchBy
    /\ s # src
    /\ src' = s
    /\ ctx' = [ctx EXCEPT !.new_ssrc = TRUE]
    /\ switches' = switches + 1
    /\ fresh' = TRUE
    /\ UNCHANGED <<k, drift, now, spiked, result, credit, lastOut, relayed,
                   jumped, sourceStart>>

Next ==
    \/ \E spike \in BOOLEAN : Relay(spike)
    \/ \E s \in DOMAIN TsBase : SwitchSource(s)

(* The sender keeps sending: packets reach the plugin as long as it does.  *)
Spec == Init /\ [][Next]_vars /\ WF_vars(Relay(FALSE))
-----------------------------------------------------------------------------
TypeOK ==
    /\ k \in 0..MaxPackets
    /\ credit \in 0..MaxPackets
    /\ relayed \in 0..k
    /\ lastOut \in 0..(2^16 - 1)
    /\ ctx.seq_offset \in -(2^15)..(2^15 - 1)

(* I4: for the warm-up after the first packet of a source, the first one  *)
(* and every one the plugin switches to, the compensator returns 0, so a   *)
(* switch after the warm-up of the previous source has ended starts a new  *)
(* one (rtp.h:183).                                                        *)
WarmupSilent == result # 0 => now - sourceStart >= Warmup

(* Downstream the sequence numbers the caller relays advance by one per    *)
(* packet plus every N the compensator jumped, and by nothing for a       *)
(* packet it drops: the N of a -N and the drops the caller makes agree.    *)
OutputAccountsForJumps ==
    relayed > 0 => lastOut = (relayed + jumped) % 2^16

(* A sender whose clock runs at ours, held up at most once by a jitter     *)
(* spike, is never compensated.                                            *)
NoFalsePositive == drift = 0 => result = 0

(* Spec 8, scenario 4: a sender whose clock drifts late is eventually      *)
(* compensated with a jump, one that drifts early with a drop.             *)
DriftCompensated ==
    /\ drift > 0 => <>(result > 0)
    /\ drift < 0 => <>(result < 0)
=============================================================================
