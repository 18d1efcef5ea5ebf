------------------------ MODULE MC_JanusPluginSession ------------------------
(* Three client transactions: one request can be in flight while another  *)
(* is answered and a third is owed an event when the handle is torn down.  *)
EXTENDS JanusPluginSession

CONSTANTS t1, t2, t3

MC_Txns == {t1, t2, t3}
=============================================================================
