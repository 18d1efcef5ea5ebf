------------------------ MODULE MC_JanusRtpSwitching ------------------------
(* Two sources, 3-bit sequence numbers and timestamps so that both wrap    *)
(* within a few packets, gaps of up to 2 upstream and a jump of up to 2 at *)
(* a switch.                                                               *)
EXTENDS JanusRtpSwitching

CONSTANTS s1, s2

MC_Ssrcs == {s1, s2}
=============================================================================
