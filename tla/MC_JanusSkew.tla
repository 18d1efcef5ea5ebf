---------------------------- MODULE MC_JanusSkew ----------------------------
(* JanusSkew for TLC: two sources whose timestamps start far apart.         *)
EXTENDS JanusSkew

MCTsBase == <<0, 3000000>>

(* Sender clocks 2 ms per packet late, on time, and 2 ms per packet early. *)
MCDrifts == {-2, 0, 2}
=============================================================================
