-------------------------- MODULE JanusRtpSwitching --------------------------
(***************************************************************************)
(* One media lane of a janus_rtp_switching_context (src/rtp.h) and the     *)
(* rewrite janus_rtp_header_update applies to every packet relayed on it.  *)
(* Upstream, a plugin relays packets from several sources (SSRCs) and may  *)
(* switch between them at any packet; a source may also restart its       *)
(* sequence numbers, which the plugin signals with seq_reset.  Downstream, *)
(* the receiver must see one continuous stream: sequence numbers that      *)
(* advance modulo 2^SeqBits and timestamps that never go back modulo       *)
(* 2^TsBits (spec section 4.2, invariant I1).  The audio a_ and video v_    *)
(* fields of the context run the same code on separate fields; one   *)
(* lane stands for either.                                                 *)
(***************************************************************************)
EXTENDS Naturals, Sequences

CONSTANTS
    Ssrcs,       \* upstream sources the plugin switches between (model values)
    SeqBits,     \* width of seq_number (16 in rtp_header)
    TsBits,      \* width of timestamp (32 in rtp_header)
    MaxGap,      \* largest seq advance between two packets of one source
    MaxTsGap,    \* largest timestamp advance between two packets of one source
    MaxStep,     \* largest timestamp jump inserted at an SSRC change
    MaxPackets   \* bound on the packets relayed

ASSUME SeqBits \in Nat \ {0} /\ TsBits \in Nat \ {0}
ASSUME MaxGap \in 1..(2^(SeqBits - 1) - 1)
ASSUME MaxTsGap \in Nat /\ MaxStep \in 1..(2^(TsBits - 1) - 1)
ASSUME MaxTsGap < 2^(TsBits - 1)

SeqMod == 2^SeqBits
TsMod  == 2^TsBits
SeqVals == 0..(SeqMod - 1)
TsVals  == 0..(TsMod - 1)

(* a is ahead of b by d, 0 <= d < mod, in modular arithmetic.              *)
Dist(a, b, mod) == (a - b + mod) % mod

VARIABLES
    ctx,       \* the lane's half of janus_rtp_switching_context
    upstream,  \* per source: seq and ts of the last packet it produced
    relayed,   \* packets relayed so far
    lastFresh  \* history: rewritten <<seq, ts>> of the last fresh packet, or <<>>

vars == <<ctx, upstream, relayed, lastFresh>>
-----------------------------------------------------------------------------
(* janus_rtp_switching_context_reset: every field zero.  last_time = 0     *)
(* means no packet has been rewritten yet, so the first one passes through *)
(* unchanged (spec section 8, scenario 2).                                 *)
SwitchingContextReset ==
    [last_ssrc |-> "none", last_seq |-> 0, last_ts |-> 0,
     seq_offset |-> 0, ts_offset |-> 0, seq_reset |-> FALSE,
     new_ssrc |-> FALSE, started |-> FALSE]

(* Mutant of HeaderUpdate: at an SSRC change the new seq offset makes the  *)
(* packet come out as last_seq instead of last_seq + 1.                    *)
HeaderUpdateSameSeq(c, ssrc, seq, ts, step) ==
    LET switched == c.started /\ ssrc # c.last_ssrc
        seqOff == IF switched \/ (c.started /\ c.seq_reset)
                  THEN Dist(c.last_seq, seq, SeqMod) ELSE c.seq_offset
        tsOff  == IF switched THEN Dist(c.last_ts + step, ts, TsMod)
                  ELSE c.ts_offset
    IN  [last_ssrc |-> ssrc, last_seq |-> (seq + seqOff) % SeqMod,
         last_ts |-> (ts + tsOff) % TsMod, seq_offset |-> seqOff,
         ts_offset |-> tsOff, seq_reset |-> FALSE,
         new_ssrc |-> c.new_ssrc \/ ssrc # c.last_ssrc, started |-> TRUE]

(* Mutant of HeaderUpdate: the rewritten seq is computed in a wider int    *)
(* and stored without truncation to the field's width.                     *)
HeaderUpdateNoWrap(c, ssrc, seq, ts, step) ==
    LET switched == c.started /\ ssrc # c.last_ssrc
        seqOff == IF switched \/ (c.started /\ c.seq_reset)
                  THEN Dist(c.last_seq + 1, seq, SeqMod) ELSE c.seq_offset
        tsOff  == IF switched THEN Dist(c.last_ts + step, ts, TsMod)
                  ELSE c.ts_offset
    IN  [last_ssrc |-> ssrc, last_seq |-> seq + seqOff,
         last_ts |-> (ts + tsOff) % TsMod, seq_offset |-> seqOff,
         ts_offset |-> tsOff, seq_reset |-> FALSE,
         new_ssrc |-> c.new_ssrc \/ ssrc # c.last_ssrc, started |-> TRUE]

(* janus_rtp_header_update on a packet (ssrc, seq, ts).  On an SSRC change *)
(* (after the first packet) new offsets make the packet come out as        *)
(* last_seq + 1 and last_ts + step; on seq_reset only the seq offset is    *)
(* recomputed; otherwise the current offsets apply.  The rewritten values  *)
(* become last_seq and last_ts.                                            *)
HeaderUpdate(c, ssrc, seq, ts, step) ==
    LET switched == c.started /\ ssrc # c.last_ssrc
        seqOff == IF switched \/ (c.started /\ c.seq_reset)
                  THEN Dist(c.last_seq + 1, seq, SeqMod)
                  ELSE c.seq_offset
        tsOff  == IF switched THEN Dist(c.last_ts + step, ts, TsMod)
                  ELSE c.ts_offset
        outSeq == (seq + seqOff) % SeqMod
        outTs  == (ts + tsOff) % TsMod
    IN  [last_ssrc |-> ssrc, last_seq |-> outSeq, last_ts |-> outTs,
         seq_offset |-> seqOff, ts_offset |-> tsOff, seq_reset |-> FALSE,
         new_ssrc |-> c.new_ssrc \/ ssrc # c.last_ssrc, started |-> TRUE]
-----------------------------------------------------------------------------
(* Sources start from a common position anywhere in the number space: a   *)
(* second source's own position is absorbed by the offsets computed when   *)
(* the context switches to it, and the sources drift apart as they run.    *)
Init ==
    /\ ctx = SwitchingContextReset
    /\ \E v \in [seq : SeqVals, ts : TsVals] : upstream = [s \in Ssrcs |-> v]
    /\ relayed = 0
    /\ lastFresh = <<>>

(* The plugin relays the next packet of source s (the one it currently     *)
(* forwards, possibly a different one than last time): the source's seq    *)
(* advances by 1..MaxGap (gaps are losses upstream) and its timestamp by   *)
(* 0..MaxTsGap; the core rewrites it before queueing it.                   *)
RelayPacket(s) ==
    /\ relayed < MaxPackets
    /\ relayed' = relayed + 1
    /\ \E g \in 1..MaxGap, dt \in 0..MaxTsGap, step \in 1..MaxStep :
         LET seq == (upstream[s].seq + g) % SeqMod
             ts  == (upstream[s].ts + dt) % TsMod
             out == HeaderUpdate(ctx, s, seq, ts, step)
         IN  /\ upstream' = [upstream EXCEPT ![s] = [seq |-> seq, ts |-> ts]]
             /\ ctx' = out
             /\ lastFresh' = <<out.last_seq, out.last_ts>>

(* The source being forwarded restarts its sequence numbers without       *)
(* changing SSRC; the plugin that forwards it sets seq_reset on the        *)
(* context before relaying its next packet.                                *)
SourceSeqRestart(s) ==
    /\ ctx.started /\ ctx.last_ssrc = s /\ ~ctx.seq_reset
    /\ \E seq \in SeqVals :
         upstream' = [upstream EXCEPT ![s].seq = seq]
    /\ ctx' = [ctx EXCEPT !.seq_reset = TRUE]
    /\ UNCHANGED <<relayed, lastFresh>>

(* A retransmission of an earlier packet of the source being forwarded,  *)
(* one relayed before or one lost upstream that a NACK asked for, sent by  *)
(* the peer as rtx, reaches the plugin once the OSN is stripped and it is  *)
(* re-presented under the base SSRC (spec 4.8): d packets and up to e ts   *)
(* ticks behind the last one the source produced.  The core rewrites it    *)
(* with the offsets in force, like any packet.                             *)
RelayCopy ==
    /\ ctx.started
    /\ relayed < MaxPackets
    /\ relayed' = relayed + 1
    /\ \E d \in 1..MaxGap, e \in 0..MaxTsGap, step \in 1..MaxStep :
         LET s == ctx.last_ssrc
         IN  ctx' = HeaderUpdate(ctx, s, (upstream[s].seq - d) % SeqMod,
                                 (upstream[s].ts - e) % TsMod, step)
    /\ UNCHANGED <<upstream, lastFresh>>

Next ==
    \/ \E s \in Ssrcs : RelayPacket(s)
    \/ \E s \in Ssrcs : SourceSeqRestart(s)

NextWithCopies ==
    \/ Next
    \/ RelayCopy

Spec == Init /\ [][Next]_vars

SpecWithCopies == Init /\ [][NextWithCopies]_vars
-----------------------------------------------------------------------------
TypeOK ==
    /\ ctx.last_ssrc \in Ssrcs \cup {"none"}
    /\ ctx.last_seq \in SeqVals /\ ctx.seq_offset \in SeqVals
    /\ ctx.last_ts \in TsVals /\ ctx.ts_offset \in TsVals
    /\ ctx.seq_reset \in BOOLEAN /\ ctx.new_ssrc \in BOOLEAN
    /\ ctx.started \in BOOLEAN
    /\ upstream \in [Ssrcs -> [seq : SeqVals, ts : TsVals]]
    /\ relayed \in 0..MaxPackets
    /\ lastFresh \in (SeqVals \X TsVals) \cup {<<>>}

(* Invariant I1 across source switches, sequence restarts and            *)
(* retransmitted copies (rtp.h:179): each fresh packet the receiver gets   *)
(* after the first has a sequence number strictly ahead of the previous    *)
(* fresh one's (by less than half the sequence space) and a timestamp not  *)
(* behind it (by less than half the timestamp space).  A fresh packet is   *)
(* one relayed as the source produces it, not an rtx copy.                 *)
Forward(o, o2) ==
    /\ Dist(o2[1], o[1], SeqMod) \in 1..(SeqMod \div 2 - 1)
    /\ Dist(o2[2], o[2], TsMod) \in 0..(TsMod \div 2 - 1)

RewriteContinuity ==
    [][relayed' = relayed + 1 /\ upstream' # upstream /\ lastFresh # <<>> =>
         Forward(lastFresh, lastFresh')]_vars
=============================================================================
