----------------------------- MODULE MC_JanusAuth -----------------------------
(* Two tokens and two plugins: enough for a token allowed one plugin and   *)
(* not the other, for a second token, and for a token removed and added    *)
(* again.  In signed mode k1 carries a valid core signature naming p1, k2 *)
(* a valid signature for p1's realm naming p2, and k3 none.                *)
EXTENDS JanusAuth

CONSTANTS k1, k2, k3, p1, p2, null, janus

MC_Tokens == {k1, k2, k3}
MC_Plugins == {p1, p2}
MC_SignedTokens == {k1, k2}
MC_SignedGrants == [t \in MC_Tokens |->
                        CASE t = k1 -> {p1} [] t = k2 -> {p2} [] OTHER -> {}]
MC_SignedRealm == [t \in MC_SignedTokens |-> IF t = k1 THEN janus ELSE p1]
=============================================================================
