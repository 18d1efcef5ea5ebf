----------------------------- MODULE JanusRetransmit -----------------------------
(***************************************************************************)
(* The outbound retransmission machinery of one video lane of a            *)
(* janus_ice_component (src/ice.h) and the slow-link statistics            *)
(* (janus_ice_stats): the send path keeps the last NackQueue packets sent  *)
(* in video_retransmit_buffer (a FIFO) and video_retransmit_seqs (a hash   *)
(* from sequence number to packet); an incoming RTCP NACK for a sequence   *)
(* number is answered from the hash, at most once per 10 ms per packet    *)
(* (janus_rtp_packet.last_retransmit), either unchanged or, under RFC      *)
(* 4588, as an rtx packet numbered by rtx_seq_number and carrying the      *)
(* original sequence number (OSN); every NACK also counts towards         *)
(* slow-link detection, which calls the plugin's slow_link at most once    *)
(* per second (spec 4.4, 4.9).                                             *)
(* Both the send path and the RTCP path run under the component mutex,     *)
(* so each is one step.  Time is counted in ticks of the 10 ms dedup       *)
(* period; the one-second slow-link window is Window ticks.                *)
(***************************************************************************)
EXTENDS Integers, Sequences, SequencesExt

CONSTANTS
    NackQueue,     \* nack_queue: packets kept for retransmission
    SeqBits,       \* width of the RTP sequence number (16)
    RtxBits,       \* width of rtx_seq_number (16)
    Window,        \* one second, in ticks
    BlpBits,       \* bits of the NACK bitmask used (16)
    Threshold,     \* NACKs within a window that make the link slow
    MaxPackets,    \* bound on packets sent
    MaxNacks,      \* bound on NACK packets received
    MaxTime        \* bound on ticks

SeqSpace == 2^SeqBits
RtxSpace == 2^RtxBits
SeqVals == 0..(SeqSpace - 1)

(* With fewer packets kept than sequence numbers, each kept packet has its *)
(* own sequence number.                                                    *)
ASSUME NackQueue \in 1..(SeqSpace - 1)

NoPacket == 0
Never == -1

VARIABLES
    rfc4588,       \* RFC 4588 rtx negotiated for this lane
    buffer,        \* video_retransmit_buffer: Seq([seq, pkt]), oldest first
    seqs,          \* video_retransmit_seqs: seq -> pkt, or NoPacket
    sentCount,     \* packets sent so far; packet i has sequence i % 2^SeqBits
    rtxSeq,        \* rtx_seq_number
    lastRetransmit, \* janus_rtp_packet.last_retransmit: pkt -> tick, or Never
    now,           \* monotonic time, in ticks
    slPeriod,      \* out_stats.sl_nack_period_ts
    slCount,       \* out_stats.sl_nack_recent_cnt
    lastSlowLink,  \* out_stats.last_slowlink_time
    nackLog,       \* history: NACKs received, [at, n] with n packets asked for
    wire,          \* history: retransmissions sent, [osn, pkt, at, rtx]
    slowCalls      \* history: the NACKs (indices in nackLog) that called slow_link

vars == <<rfc4588, buffer, seqs, sentCount, rtxSeq, lastRetransmit, now,
          slPeriod, slCount, lastSlowLink, nackLog, wire, slowCalls>>
-----------------------------------------------------------------------------
(* The component as janus_ice_component_create leaves it, with the rtx     *)
(* numbering starting anywhere in its space.  The stats timestamps start   *)
(* at 0 while the monotonic clock counts from boot, so the component is    *)
(* created either within the first second or later.                        *)
Init ==
    /\ rfc4588 \in BOOLEAN
    /\ buffer = <<>>
    /\ seqs = [s \in SeqVals |-> NoPacket]
    /\ sentCount = 0
    /\ rtxSeq \in 0..(RtxSpace - 1)
    /\ lastRetransmit = [p \in 1..MaxPackets |-> Never]
    /\ now \in {0, Window + 1}
    /\ slPeriod = 0
    /\ slCount = 0
    /\ lastSlowLink = 0
    /\ nackLog = <<>>
    /\ wire = <<>>
    /\ slowCalls = <<>>

(* Variant of the trim that drops the oldest packet from the FIFO but      *)
(* leaves its entry in the hash.                                           *)
StorePacketNoUnmap(p) ==
    LET s == p % SeqSpace
        b == Append(buffer, [seq |-> s, pkt |-> p])
    IN  /\ buffer' = IF Len(b) > NackQueue THEN Tail(b) ELSE b
        /\ seqs' = [seqs EXCEPT ![s] = p]

(* Variant whose trim lets the FIFO grow one past nack_queue.             *)
StorePacketOffByOne(p) ==
    LET s == p % SeqSpace
        b == Append(buffer, [seq |-> s, pkt |-> p])
    IN  IF Len(b) > NackQueue + 1
        THEN /\ buffer' = Tail(b)
             /\ seqs' = [seqs EXCEPT ![Head(b).seq] = NoPacket, ![s] = p]
        ELSE /\ buffer' = b
             /\ seqs' = [seqs EXCEPT ![s] = p]

(* The send path keeps packet p: it is appended to the FIFO and mapped by  *)
(* its sequence number; when the FIFO is over nack_queue its oldest packet *)
(* is dropped and unmapped.                                                *)
StorePacket(p) ==
    LET s == p % SeqSpace
        b == Append(buffer, [seq |-> s, pkt |-> p])
        old == Head(b)
    IN  IF Len(b) > NackQueue
        THEN /\ buffer' = Tail(b)
             /\ seqs' = [seqs EXCEPT ![old.seq] = NoPacket, ![s] = p]
        ELSE /\ buffer' = b
             /\ seqs' = [seqs EXCEPT ![s] = p]

SendPacket ==
    /\ sentCount < MaxPackets
    /\ sentCount' = sentCount + 1
    /\ StorePacket(sentCount + 1)
    /\ UNCHANGED <<rfc4588, rtxSeq, lastRetransmit, now, slPeriod, slCount,
                   lastSlowLink, nackLog, wire, slowCalls>>

(* Variant that keeps counting NACKs from a window that is over instead   *)
(* of restarting the count.                                                *)
SlowLinkUpdateNoRestart(n) ==
    LET fresh == now - slPeriod <= Window
        cnt   == slCount + n
        start == IF fresh THEN slPeriod ELSE now
        fire  == cnt >= Threshold /\ now - lastSlowLink > Window
    IN  /\ slCount' = IF fire THEN 0 ELSE cnt
        /\ slPeriod' = IF fire THEN now ELSE start
        /\ lastSlowLink' = IF fire THEN now ELSE lastSlowLink
        /\ slowCalls' = IF fire THEN Append(slowCalls, Len(nackLog) + 1)
                                ELSE slowCalls

(* Slow-link accounting for a NACK of n packets: counts older than the    *)
(* window are dropped first; once Threshold NACKed packets are counted and *)
(* slow_link was last called more than a window ago, it is called and the *)
(* count restarts.                                                         *)
SlowLinkUpdate(n) ==
    LET fresh == now - slPeriod <= Window
        cnt   == (IF fresh THEN slCount ELSE 0) + n
        start == IF fresh THEN slPeriod ELSE now
        fire  == cnt >= Threshold /\ now - lastSlowLink > Window
    IN  /\ slCount' = IF fire THEN 0 ELSE cnt
        /\ slPeriod' = IF fire THEN now ELSE start
        /\ lastSlowLink' = IF fire THEN now ELSE lastSlowLink
        /\ slowCalls' = IF fire THEN Append(slowCalls, Len(nackLog) + 1)
                                ELSE slowCalls

(* Variant that numbers the rtx packet before deciding whether a           *)
(* retransmission is due.                                                  *)
AnswerEarlyNumber(st, s) ==
    LET p == seqs[s]
        due == p # NoPacket /\ (st.last[p] = Never \/ now - st.last[p] >= 1)
        rtx == IF rfc4588 THEN (st.rtxSeq + 1) % RtxSpace ELSE st.rtxSeq
    IN  [rtxSeq |-> rtx,
         last |-> IF due THEN [st.last EXCEPT ![p] = now] ELSE st.last,
         wire |-> IF due
                  THEN Append(st.wire, [osn |-> s, pkt |-> p, at |-> now,
                                        rtx |-> IF rfc4588 THEN rtx ELSE Never])
                  ELSE st.wire]

(* The answer to one requested sequence number s: nothing if s is no       *)
(* longer kept or its packet was resent in this 10 ms period; otherwise   *)
(* the kept packet is resent, under RFC 4588 as the next rtx packet with   *)
(* OSN s.                                                                  *)
Answer(st, s) ==
    LET p == seqs[s]
        due == p # NoPacket /\ (st.last[p] = Never \/ now - st.last[p] >= 1)
        rtx == (st.rtxSeq + 1) % RtxSpace
    IN  IF ~due THEN st
        ELSE [rtxSeq |-> IF rfc4588 THEN rtx ELSE st.rtxSeq,
              last |-> [st.last EXCEPT ![p] = now],
              wire |-> Append(st.wire, [osn |-> s, pkt |-> p, at |-> now,
                                        rtx |-> IF rfc4588 THEN rtx ELSE Never])]

(* The sequence numbers a NACK (PID, BLP) asks for: PID, then PID+i+1 for  *)
(* each bit i set in the bitmask, modulo 2^16.                             *)
Requested(pid, blp) ==
    LET bits == SelectSeq([i \in 1..BlpBits |-> i],
                          LAMBDA i : (blp \div 2^(i - 1)) % 2 = 1)
    IN  <<pid>> \o [k \in 1..Len(bits) |-> (pid + bits[k]) % SeqSpace]

(* RTCP path: a NACK from the peer: it counts towards slow-link detection  *)
(* and each sequence number it asks for is answered in turn.               *)
ReceiveNack(pid, blp) ==
    LET req == Requested(pid, blp)
        st == FoldLeft(Answer, [rtxSeq |-> rtxSeq, last |-> lastRetransmit,
                                wire |-> wire], req)
    IN  /\ Len(nackLog) < MaxNacks
        /\ nackLog' = Append(nackLog, [at |-> now, n |-> Len(req)])
        /\ SlowLinkUpdate(Len(req))
        /\ rtxSeq' = st.rtxSeq
        /\ lastRetransmit' = st.last
        /\ wire' = st.wire
        /\ UNCHANGED <<rfc4588, buffer, seqs, sentCount, now>>

Tick ==
    /\ now < MaxTime
    /\ now' = now + 1
    /\ UNCHANGED <<rfc4588, buffer, seqs, sentCount, rtxSeq, lastRetransmit,
                   slPeriod, slCount, lastSlowLink, nackLog, wire, slowCalls>>

Next ==
    \/ SendPacket
    \/ \E pid \in SeqVals, blp \in 0..(2^BlpBits - 1) : ReceiveNack(pid, blp)
    \/ Tick

Spec == Init /\ [][Next]_vars
-----------------------------------------------------------------------------
Kept == [seq : SeqVals, pkt : 1..MaxPackets]

TypeOK ==
    /\ rfc4588 \in BOOLEAN
    /\ buffer \in Seq(Kept) /\ Len(buffer) <= NackQueue
    /\ seqs \in [SeqVals -> 0..MaxPackets]
    /\ rtxSeq \in 0..(RtxSpace - 1)
    /\ lastRetransmit \in [1..MaxPackets -> {Never} \cup 0..MaxTime]
    /\ slCount \in 0..(MaxNacks * (BlpBits + 1))
    /\ wire \in Seq([osn : SeqVals, pkt : 1..MaxPackets, at : 0..MaxTime,
                     rtx : {Never} \cup 0..(RtxSpace - 1)])

(* I2: a NACK for s is only ever answered with the packet that was sent as *)
(* s and is still kept: trimming the FIFO past nack_queue must unmap the   *)
(* dropped packet, or a later NACK reads a freed packet from the hash.     *)
RetransmitFaithful ==
    [][Len(wire') > Len(wire) =>
         \E i \in 1..Len(buffer) :
             buffer[i] = [seq |-> wire'[Len(wire')].osn,
                          pkt |-> wire'[Len(wire')].pkt]]_vars

(* RFC 4588: the rtx packets of a lane are numbered consecutively modulo   *)
(* 2^16 across every answered NACK, whatever NACKs were skipped as too old *)
(* or duplicate in between and however rtx_seq_number wraps.              *)
RtxConsecutive ==
    \A i \in 1..(Len(wire) - 1) :
        wire[i].rtx # Never =>
            wire[i + 1].rtx = (wire[i].rtx + 1) % RtxSpace

(* Spec 4.9: slow_link is called only when the NACKs that arrived since   *)
(* the previous call and within the last second asked for at least         *)
(* Threshold packets: NACKs of a window that is over, or counted before    *)
(* the previous call, never make a link slow, however the counting window  *)
(* restarts across idle seconds.                                           *)
SlowLinkJustified ==
    \A c \in 1..Len(slowCalls) :
        LET k    == slowCalls[c]
            prev == IF c = 1 THEN 0 ELSE slowCalls[c - 1]
            recent == SelectSeq(SubSeq(nackLog, prev + 1, k),
                                LAMBDA e : e.at >= nackLog[k].at - Window)
        IN  FoldLeft(LAMBDA acc, e : acc + e.n, 0, recent) >= Threshold
=============================================================================
