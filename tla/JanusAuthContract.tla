-------------------------- MODULE JanusAuthContract --------------------------
(***************************************************************************)
(* What the token authentication API promises its callers: a set of live   *)
(* tokens and a set of (token, plugin) grants, a grant existing only for a *)
(* live token, and the signed tokens honoured in each realm: the core's   *)
(* and, for the callbacks a plugin uses, the plugin's own.  Every step is one API call, recorded in call with its      *)
(* result, and the result of a check is read off the contract's state.     *)
(***************************************************************************)
CONSTANTS Tokens, Plugins, None, SignedTokens, SignedGrants, Modes,
          CoreRealm, SignedRealm

VARIABLES mode, live, grants, valid, call

vars == <<mode, live, grants, valid, call>>

CallDesc(op, t, p, d, r) ==
    [op |-> op, token |-> t, plugin |-> p, desc |-> d, result |-> r]

Call(op, t, p, r) == CallDesc(op, t, p, None, r)

CoreSigned == {t \in SignedTokens : SignedRealm[t] = CoreRealm}

Init ==
    /\ mode \in Modes
    /\ live = IF mode = "signed" THEN CoreSigned ELSE {}
    /\ grants = IF mode = "signed"
                THEN {<<t, p>> \in CoreSigned \X Plugins : p \in SignedGrants[t]}
                ELSE {}
    /\ valid = IF mode = "signed"
               THEN {<<t, SignedRealm[t]>> : t \in SignedTokens} ELSE {}
    /\ call = Call("init", None, None, TRUE)

(* In stored mode a token becomes live with no grants.                     *)
Add(t) ==
    /\ call' = Call("add_token", t, None, mode = "stored")
    /\ live' = IF mode = "stored" THEN live \cup {t} ELSE live
    /\ UNCHANGED <<mode, grants, valid>>

(* A token that goes takes its grants with it.                             *)
Remove(t) ==
    LET ok == mode = "stored" /\ t \in live
    IN  /\ call' = Call("remove_token", t, None, ok)
        /\ live' = IF ok THEN live \ {t} ELSE live
        /\ grants' = IF ok THEN {g \in grants : g[1] # t} ELSE grants
        /\ UNCHANGED <<mode, valid>>

Allow(t, p) ==
    LET ok == mode = "stored" /\ t \in live
    IN  /\ call' = Call("allow_plugin", t, p, ok)
        /\ grants' = IF ok THEN grants \cup {<<t, p>>} ELSE grants
        /\ UNCHANGED <<mode, live, valid>>

Disallow(t, p) ==
    LET ok == mode = "stored" /\ t \in live
    IN  /\ call' = Call("disallow_plugin", t, p, ok)
        /\ grants' = IF ok THEN grants \ {<<t, p>>} ELSE grants
        /\ UNCHANGED <<mode, live, valid>>

(* A signed token stops being valid when it expires.                       *)
Expire(t) ==
    /\ mode = "signed" /\ \E g \in valid : g[1] = t
    /\ call' = Call("expire", t, None, TRUE)
    /\ live' = live \ {t}
    /\ grants' = {g \in grants : g[1] # t}
    /\ valid' = {g \in valid : g[1] # t}
    /\ UNCHANGED mode

CheckToken(t) ==
    /\ call' = Call("check_token", t, None, t \in live)
    /\ UNCHANGED <<mode, live, grants, valid>>

CheckPlugin(t, p) ==
    /\ call' = Call("check_plugin", t, p, <<t, p>> \in grants)
    /\ UNCHANGED <<mode, live, grants, valid>>

(* A plugin accepts a signed token only if it was signed for its realm.    *)
PluginValid(p, t) ==
    /\ call' = Call("plugin_signature_valid", t, p, <<t, p>> \in valid)
    /\ UNCHANGED <<mode, live, grants, valid>>

PluginContains(p, t, d) ==
    /\ call' = CallDesc("plugin_signature_contains", t, p, d,
                        <<t, p>> \in valid /\ d \in SignedGrants[t])
    /\ UNCHANGED <<mode, live, grants, valid>>

Deinit ==
    /\ call' = Call("deinit", None, None, TRUE)
    /\ mode' = "disabled"
    /\ live' = {}
    /\ grants' = {}
    /\ valid' = {}

Next ==
    \/ Deinit
    \/ \E t \in Tokens :
          \/ Add(t) \/ Remove(t) \/ Expire(t) \/ CheckToken(t)
          \/ \E p \in Plugins :
                \/ Allow(t, p) \/ Disallow(t, p) \/ CheckPlugin(t, p)
                \/ PluginValid(p, t)
                \/ \E d \in Plugins : PluginContains(p, t, d)

Spec == Init /\ [][Next]_vars
=============================================================================
