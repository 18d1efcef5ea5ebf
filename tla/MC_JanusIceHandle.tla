------------------------- MODULE MC_JanusIceHandle -------------------------
(* Model-checking instance of JanusIceHandle: two candidates, so that one  *)
(* can be queued and one applied directly; two relayed packets, so that    *)
(* one can be in the send worker's hands while another waits in the queue; *)
(* a grace period of one watchdog tick, as spec section 8 scenario 6 says. *)
EXTENDS JanusIceHandle

CONSTANTS c1, c2, eoc, stopPkt

MC_Candidates == {c1, c2}
MC_MaxPackets == 2
MC_Grace == 1
=============================================================================
