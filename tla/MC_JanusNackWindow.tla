--------------------------- MODULE MC_JanusNackWindow ---------------------------
(***************************************************************************)
(* One inbound lane with 3-bit sequence numbers and a window of three      *)
(* slots, so that gaps, late packets, recycling and wrap all happen within *)
(* nine packets; values in JanusNackWindow.cfg.                             *)
(***************************************************************************)
EXTENDS JanusNackWindow
=============================================================================
