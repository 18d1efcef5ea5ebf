------------------------- MODULE JanusPeerConnection -------------------------
(***************************************************************************)
(* What a handle promises its plugin and its peer about one PeerConnection *)
(* (spec sections 4.10 and 5), with threads, queues and flags abstracted   *)
(* away: it is negotiated, may come up, is hung up at most once from any   *)
(* state before that, and is then freed; media reaches the wire only while *)
(* it is up, in the order the plugin relayed it, and never twice.          *)
(***************************************************************************)
EXTENDS Naturals, Sequences

CONSTANT Packets   \* relayed packets, numbered in relay order

VARIABLES
    pc,     \* "idle", "negotiating", "up", "closing" or "freed"
    wire    \* packets written to the peer, in order

vars == <<pc, wire>>

Live == {"idle", "negotiating", "up"}

Init ==
    /\ pc = "idle"
    /\ wire = <<>>

Negotiate ==
    /\ pc = "idle"
    /\ pc' = "negotiating"
    /\ UNCHANGED wire

Connect ==
    /\ pc = "negotiating"
    /\ pc' = "up"
    /\ UNCHANGED wire

Hangup ==
    /\ pc \in Live
    /\ pc' = "closing"
    /\ UNCHANGED wire

Free ==
    /\ pc = "closing"
    /\ pc' = "freed"
    /\ UNCHANGED wire

(* A packet later in relay order than everything already on the wire.      *)
Transmit(p) ==
    /\ pc = "up"
    /\ \A i \in DOMAIN wire : wire[i] < p
    /\ wire' = Append(wire, p)
    /\ UNCHANGED pc

Next ==
    \/ Negotiate
    \/ Connect
    \/ Hangup
    \/ Free
    \/ \E p \in Packets : Transmit(p)

(* A hung-up PeerConnection is eventually freed.                           *)
Spec == Init /\ [][Next]_vars /\ WF_vars(Free)
=============================================================================
