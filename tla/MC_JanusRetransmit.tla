--------------------------- MODULE MC_JanusRetransmit ---------------------------
(***************************************************************************)
(* One lane with 2-bit sequence numbers and 2-bit rtx numbers, so that the *)
(* FIFO trims, sequence numbers wrap and rtx_seq_number wraps within a few *)
(* steps; values in JanusRetransmit.cfg.                                   *)
(***************************************************************************)
EXTENDS JanusRetransmit
=============================================================================
