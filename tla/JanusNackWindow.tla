----------------------------- MODULE JanusNackWindow -----------------------------
(***************************************************************************)
(* NACK generation for one inbound media lane of a janus_ice_component     *)
(* (src/ice.h): last_seqs_video is a doubly linked list of janus_seq_info *)
(* slots (ts, seq, state), one per sequence number from the oldest kept to *)
(* the last seen, at most LAST_SEQS_MAX_LEN long.  A packet ahead of the   *)
(* last seen sequence number L appends a MISSING slot for each of L+1..S-1 *)
(* and a RECVED one for S; a packet behind it marks its slot RECVED.  A    *)
(* periodic check sends a NACK for each slot MISSING for an RTT, marking  *)
(* it NACKED, and gives up on a slot NACKED for longer than the maximum    *)
(* (spec 4.4).  The list is kept under the component mutex, so a packet   *)
(* and a check are each one step.  The sender side is modelled too:       *)
(* packet i carries sequence number i mod 2^SeqBits, and each slot         *)
(* carries, as a ghost field the code does not have, the packet it stands  *)
(* for.  With RFC 4588 the peer answers a NACK with an rtx packet on its  *)
(* rtx SSRC (video_ssrc_peer_rtx) and rtx payload type, numbered by its    *)
(* own rtx counter and carrying the original sequence number (OSN) in its  *)
(* first two payload bytes; the receive path strips the OSN and presents   *)
(* the packet under the base SSRC (spec 4.8).  The rtx path may lose,      *)
(* duplicate and delay what it carries.  The lane's janus_ice_stats_info  *)
(* keeps the time of the last packet (updated) and whether the handle was  *)
(* told that media stopped (notified_lastsec): a periodic check tells it   *)
(* once no packet came for no_media_timer, and the next packet tells it   *)
(* media is flowing again; a missing lane never hangs up (spec 3, 5).     *)
(***************************************************************************)
EXTENDS Naturals, Sequences, FiniteSets

CONSTANTS
    MaxLen,      \* LAST_SEQS_MAX_LEN (160)
    SeqBits,     \* width of the RTP sequence number (16)
    Reorder,     \* how far behind the newest a packet may arrive
    Rtt,         \* the RTT estimate, in ticks
    GiveUp,      \* the maximum time a slot stays NACKED, in ticks
    MaxPackets,  \* bound on packets the peer sends
    MaxRtx,      \* bound on retransmissions the peer sends
    MaxTime,     \* bound on ticks
    NoMediaTimer \* no_media_timer, in ticks

SeqSpace == 2^SeqBits
SeqVals == 0..(SeqSpace - 1)

(* A packet is never so late that its sequence number looks ahead; nor     *)
(* does the peer lose half the sequence space in a row (Receive).          *)
ASSUME Reorder < SeqSpace \div 2

(* The enum of janus_seq_info.state.                                       *)
SEQ_MISSING == 0
SEQ_NACKED == 1
SEQ_GIVEUP == 2
SEQ_RECVED == 3

VARIABLES
    window,    \* last_seqs_video: Seq([ts, seq, state, pkt]), oldest first
    now,       \* monotonic time, in ticks
    arrived,   \* the packets that reached the component
    checked,   \* the periodic check has run in this tick
    nacks,     \* history: the packets NACKed, in order
    rtxSent,   \* the packets the peer has retransmitted over rtx
    rtxNet,    \* the rtx packets in flight: [osn, rseq, pkt]
    lastMedia, \* in_stats.updated: when the last packet arrived
    notified   \* in_stats.notified_lastsec

vars == <<window, now, arrived, checked, nacks, rtxSent, rtxNet,
          lastMedia, notified>>

Slot(t, s, st, p) == [ts |-> t, seq |-> s, state |-> st, pkt |-> p]

Newest == IF arrived = {} THEN 0
          ELSE CHOOSE p \in arrived : \A q \in arrived : q <= p
-----------------------------------------------------------------------------
Init ==
    /\ window = <<>>
    /\ now = 0
    /\ arrived = {}
    /\ checked = FALSE
    /\ nacks = <<>>
    /\ rtxSent = {}
    /\ rtxNet = {}
    /\ lastMedia = 0
    /\ notified = FALSE

(* S is ahead of L when it is at most half the sequence space beyond it.   *)
Ahead(s, l) == (s + SeqSpace - l) % SeqSpace \in 1..(SeqSpace \div 2 - 1)

(* Variant that recycles a slot only once the list is two over its length. *)
TrimOffByOne(w) ==
    IF Len(w) > MaxLen + 1 THEN SubSeq(w, Len(w) - MaxLen, Len(w)) ELSE w

(* Keep the newest MaxLen slots: the oldest ones are recycled.             *)
Trim(w) == IF Len(w) > MaxLen THEN SubSeq(w, Len(w) - MaxLen + 1, Len(w)) ELSE w

(* Variant that records a late packet only in a slot still MISSING.        *)
RecordLateMissingOnly(w, s) ==
    [i \in 1..Len(w) |->
        IF w[i].seq = s /\ w[i].state = SEQ_MISSING
        THEN [w[i] EXCEPT !.state = SEQ_RECVED] ELSE w[i]]

(* A late packet turns its slot RECVED, whether it was NACKed already or   *)
(* given up on; a packet older than every slot is ignored.                 *)
RecordLate(w, s) ==
    [i \in 1..Len(w) |->
        IF w[i].seq = s THEN [w[i] EXCEPT !.state = SEQ_RECVED] ELSE w[i]]

(* Variant that appends only the received slot, leaving no slot for the   *)
(* packets skipped over.                                                   *)
ExtendNoGap(w, d) ==
    LET last == w[Len(w)]
    IN  Append(w, Slot(now, (last.seq + d) % SeqSpace, SEQ_RECVED, last.pkt + d))

(* The slots for a packet d ahead of the last slot: d - 1 missing ones and *)
(* the received one.                                                       *)
Extend(w, d) ==
    LET last == w[Len(w)]
    IN  w \o [k \in 1..d |->
                 Slot(now, (last.seq + k) % SeqSpace,
                      IF k = d THEN SEQ_RECVED ELSE SEQ_MISSING, last.pkt + k)]

(* The NACK-list update for a packet with sequence number s (packet p).   *)
Update(w, s, p) ==
    IF w = <<>> THEN <<Slot(now, s, SEQ_RECVED, p)>>
    ELSE LET l == w[Len(w)].seq
         IN  IF Ahead(s, l)
             THEN Trim(Extend(w, (s + SeqSpace - l) % SeqSpace))
             ELSE RecordLate(w, s)

(* Variant of the stats update that records the time but does not clear   *)
(* notified_lastsec, so the handle is never told media is back.            *)
MediaArrivedNoReset == lastMedia' = now /\ UNCHANGED notified

(* The stats update of the receive path: the time of the packet, and if   *)
(* the handle was told media stopped (or this is the first packet) it is   *)
(* told media is flowing, clearing notified_lastsec.                       *)
MediaArrived == lastMedia' = now /\ notified' = FALSE

(* The receive path for packet p of the peer on the base SSRC.             *)
Receive(p) ==
    /\ p \in 1..MaxPackets \ arrived
    /\ Newest <= p + Reorder
    /\ p < Newest + SeqSpace \div 2
    /\ arrived' = arrived \cup {p}
    /\ window' = Update(window, p % SeqSpace, p)
    /\ MediaArrived
    /\ UNCHANGED <<now, checked, nacks, rtxSent, rtxNet>>

(* The peer answers the NACK for packet p once with an rtx packet: its     *)
(* rtx sequence number is the next of its rtx counter, its payload starts  *)
(* with the OSN.                                                           *)
PeerRetransmit(p) ==
    /\ \E k \in 1..Len(nacks) : nacks[k] = p
    /\ p \notin rtxSent
    /\ Cardinality(rtxSent) < MaxRtx
    /\ rtxSent' = rtxSent \cup {p}
    /\ rtxNet' = rtxNet \cup
         {[osn |-> p % SeqSpace, rseq |-> Cardinality(rtxSent) % SeqSpace,
           pkt |-> p]}
    /\ UNCHANGED <<window, now, arrived, checked, nacks, lastMedia, notified>>

(* Variant that takes the rtx packet's own sequence number for the media   *)
(* one, as when a packet on the rtx SSRC is not classified as rtx.         *)
UnwrapRtxSeq(r) == r.rseq

(* The sequence number the rtx packet is presented under: the OSN.         *)
Unwrap(r) == r.osn

(* The receive path for an rtx packet r: classified by its SSRC and        *)
(* payload type, unwrapped, and then handled as a media packet.  The       *)
(* network may deliver it again later (dup), and it may arrive late, but   *)
(* not half the sequence space late.                                       *)
ReceiveRtx(r) ==
    /\ r \in rtxNet
    /\ Newest < r.pkt + SeqSpace \div 2
    /\ arrived' = arrived \cup {r.pkt}
    /\ window' = Update(window, Unwrap(r), r.pkt)
    /\ \E dup \in BOOLEAN : rtxNet' = IF dup THEN rtxNet ELSE rtxNet \ {r}
    /\ MediaArrived
    /\ UNCHANGED <<now, checked, nacks, rtxSent>>

(* Variant that NACKs a slot again at every check until it gives up.       *)
NackCheckRepeat ==
    LET due(x) == x.state \in {SEQ_MISSING, SEQ_NACKED} /\ now - x.ts >= Rtt
        out(x) == x.state = SEQ_NACKED /\ now - x.ts > GiveUp
        idx == SelectSeq([i \in 1..Len(window) |-> i],
                         LAMBDA i : due(window[i]) /\ ~out(window[i]))
    IN  /\ ~checked
        /\ checked' = TRUE
        /\ window' = [i \in 1..Len(window) |->
                        CASE out(window[i]) ->
                               [window[i] EXCEPT !.state = SEQ_GIVEUP]
                          [] due(window[i]) ->
                               [window[i] EXCEPT !.state = SEQ_NACKED]
                          [] OTHER -> window[i]]
        /\ nacks' = nacks \o [k \in 1..Len(idx) |-> window[idx[k]].pkt]
        /\ UNCHANGED <<now, arrived, rtxSent, rtxNet, lastMedia, notified>>

(* Variant that builds the NACK list from the slots after marking them,   *)
(* when none of them is MISSING any more.                                  *)
NackCheckListAfterMark ==
    LET due(x) == x.state = SEQ_MISSING /\ now - x.ts >= Rtt
        out(x) == x.state = SEQ_NACKED /\ now - x.ts > GiveUp
        marked == [i \in 1..Len(window) |->
                     CASE due(window[i]) ->
                            [window[i] EXCEPT !.state = SEQ_NACKED]
                       [] out(window[i]) ->
                            [window[i] EXCEPT !.state = SEQ_GIVEUP]
                       [] OTHER -> window[i]]
        idx == SelectSeq([i \in 1..Len(marked) |-> i],
                         LAMBDA i : due(marked[i]))
    IN  /\ ~checked
        /\ checked' = TRUE
        /\ window' = marked
        /\ nacks' = nacks \o [k \in 1..Len(idx) |-> marked[idx[k]].pkt]
        /\ UNCHANGED <<now, arrived, rtxSent, rtxNet, lastMedia, notified>>

(* The periodic check, once per tick: a slot MISSING for an RTT is NACKed  *)
(* (its ts is not reset), a slot NACKED for longer than GiveUp is given up *)
(* on.                                                                     *)
NackCheck ==
    LET due(x) == x.state = SEQ_MISSING /\ now - x.ts >= Rtt
        out(x) == x.state = SEQ_NACKED /\ now - x.ts > GiveUp
        idx == SelectSeq([i \in 1..Len(window) |-> i],
                         LAMBDA i : due(window[i]))
    IN  /\ ~checked
        /\ checked' = TRUE
        /\ window' = [i \in 1..Len(window) |->
                        CASE due(window[i]) ->
                               [window[i] EXCEPT !.state = SEQ_NACKED]
                          [] out(window[i]) ->
                               [window[i] EXCEPT !.state = SEQ_GIVEUP]
                          [] OTHER -> window[i]]
        /\ nacks' = nacks \o [k \in 1..Len(idx) |-> window[idx[k]].pkt]
        /\ UNCHANGED <<now, arrived, rtxSent, rtxNet, lastMedia, notified>>

(* Variant that notifies only once the silence exceeds the timer.          *)
NoMediaCheckLate ==
    /\ arrived # {}
    /\ ~notified
    /\ now - lastMedia > NoMediaTimer
    /\ notified' = TRUE
    /\ UNCHANGED <<window, now, arrived, checked, nacks, rtxSent, rtxNet, lastMedia>>

(* The periodic no-media check of the ICE loop: once media has arrived,   *)
(* if none came for no_media_timer and the handle was not told yet, it is  *)
(* told media stopped (janus_ice_notify_media), and notified_lastsec set.  *)
NoMediaCheck ==
    /\ arrived # {}
    /\ ~notified
    /\ now - lastMedia >= NoMediaTimer
    /\ notified' = TRUE
    /\ UNCHANGED <<window, now, arrived, checked, nacks, rtxSent, rtxNet, lastMedia>>

Tick ==
    /\ now < MaxTime
    /\ now' = now + 1
    /\ checked' = FALSE
    /\ UNCHANGED <<window, arrived, nacks, rtxSent, rtxNet, lastMedia, notified>>

Next ==
    \/ \E p \in 1..MaxPackets : Receive(p)
    \/ \E p \in 1..MaxPackets : PeerRetransmit(p)
    \/ \E r \in rtxNet : ReceiveRtx(r)
    \/ NackCheck
    \/ NoMediaCheck
    \/ Tick

(* Both checks run on timers of the ICE loop; the peer may stop *)
(* sending and time is bounded, so neither Receive nor Tick is fair.       *)
Spec == Init /\ [][Next]_vars /\ WF_vars(NackCheck) /\ WF_vars(NoMediaCheck)
-----------------------------------------------------------------------------
TypeOK ==
    /\ window \in Seq([ts : 0..MaxTime, seq : SeqVals,
                       state : {SEQ_MISSING, SEQ_NACKED, SEQ_GIVEUP, SEQ_RECVED},
                       pkt : 1..MaxPackets])
    /\ Len(window) <= MaxLen
    /\ arrived \subseteq 1..MaxPackets
    /\ nacks \in Seq(1..MaxPackets)
    /\ rtxSent \subseteq 1..MaxPackets
    /\ rtxNet \subseteq [osn : SeqVals, rseq : SeqVals, pkt : rtxSent]
    /\ lastMedia \in 0..now
    /\ notified \in BOOLEAN

(* Every packet lost between the oldest slot and the newest packet has a   *)
(* slot under its own sequence number, however the packets were reordered  *)
(* and the sequence numbers wrapped: the list is the only place a loss is  *)
(* noticed, so a packet without a slot is never NACKed.                    *)
LossDetected ==
    window # <<>> =>
        /\ window[Len(window)].pkt = Newest
        /\ \A i \in 1..Len(window) :
              /\ window[i].pkt = Newest - Len(window) + i
              /\ window[i].seq = window[i].pkt % SeqSpace

(* A slot is RECVED exactly when its packet has arrived: a packet arriving *)
(* late, after it was NACKed or given up on, is recorded, and no slot is   *)
(* marked received for a packet that never came.                           *)
SlotsTruthful ==
    \A i \in 1..Len(window) :
        window[i].state = SEQ_RECVED <=> window[i].pkt \in arrived

(* Spec 4.4: each lost packet is NACKed once, on its way from MISSING to   *)
(* NACKED, and never for a packet that has already arrived.                *)
NackOnce ==
    /\ [](\A i, j \in 1..Len(nacks) : i < j => nacks[i] # nacks[j])
    /\ [][\A k \in (Len(nacks) + 1)..Len(nacks') : nacks'[k] \notin arrived]_vars

(* Spec 4.4: a packet lost upstream whose slot has been MISSING for an RTT *)
(* is eventually NACKed by the periodic check, unless it arrives first or  *)
(* its slot is recycled: no loss the list noticed goes unreported.         *)
LossNacked ==
    \A p \in 1..MaxPackets :
        (\E i \in 1..Len(window) :
            /\ window[i].pkt = p /\ window[i].state = SEQ_MISSING
            /\ now - window[i].ts >= Rtt)
        ~> \/ \E k \in 1..Len(nacks) : nacks[k] = p
           \/ p \in arrived
           \/ \A i \in 1..Len(window) : window[i].pkt # p

(* The handle is told media stopped only while it really has: some packet *)
(* came, and none (media or rtx) for no_media_timer since; a packet        *)
(* arriving after the notification, over either SSRC, withdraws it.        *)
NoMediaTruthful ==
    notified => arrived # {} /\ now - lastMedia >= NoMediaTimer

(* Spec 3: a lane silent for no_media_timer is eventually reported, unless *)
(* media comes back first.                                                 *)
NoMediaReported ==
    (arrived # {} /\ now - lastMedia >= NoMediaTimer)
        ~> (notified \/ now - lastMedia < NoMediaTimer)
=============================================================================
