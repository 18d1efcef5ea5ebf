------------------------------ MODULE JanusAuth ------------------------------
(***************************************************************************)
(* The token authentication store of auth.h (src/unnamed/part_001).  At    *)
(* startup janus_auth_init chooses a mode: disabled, stored tokens (no     *)
(* secret) or signed tokens (a secret).  In stored mode the admin API adds *)
(* and removes tokens and allows or disallows plugins per token, kept in   *)
(* two process-wide tables (the tokens and, per token, the allowed         *)
(* plugins) under one mutex; signaling threads ask check_token and         *)
(* check_plugin.  In signed mode a token carries its own signature,        *)
(* expiry and descriptors (the plugins it may use), and only the checks    *)
(* apply.  A signature is made for a realm: the core checks tokens of its  *)
(* own realm, and a plugin, through the auth_is_signature_valid and        *)
(* auth_signature_contains callbacks (src/rtp.h), only tokens whose realm  *)
(* is its own identifier.  Each call holds the mutex throughout, so each   *)
(* is one step.                                                            *)
(***************************************************************************)
EXTENDS FiniteSets

CONSTANTS
    Tokens,        \* token strings (model values)
    Plugins,       \* janus_plugin instances (model values)
    None,          \* a NULL argument
    SignedTokens,  \* the tokens that carry a valid signature for the secret
    SignedGrants,  \* per signed token, the descriptors it carries
    CoreRealm,     \* the realm of the tokens the core itself checks
    SignedRealm    \* per signed token, the realm it was signed for

ASSUME SignedTokens \subseteq Tokens
ASSUME SignedGrants \in [Tokens -> SUBSET Plugins]
ASSUME SignedRealm \in [SignedTokens -> {CoreRealm} \cup Plugins]

Modes == {"disabled", "stored", "signed"}

VARIABLES
    mode,      \* auth_enabled and whether a secret was given
    tokens,    \* the stored tokens table
    allowed,   \* the allowed-plugins table: per token, its plugins
    expired,   \* signed tokens whose expiry time has passed
    lastCall   \* history: the API call the last step made, with its result

vars == <<mode, tokens, allowed, expired, lastCall>>

CallDesc(op, t, p, d, r) ==
    [op |-> op, token |-> t, plugin |-> p, desc |-> d, result |-> r]

CallOf(op, t, p, r) == CallDesc(op, t, p, None, r)

NoPlugins == [t \in Tokens |-> {}]

(* janus_auth_check_signature(token, realm): the token carries a valid     *)
(* signature for realm and has not expired.                                *)
SignatureValid(t, realm) ==
    mode = "signed" /\ t \in SignedTokens \ expired /\ SignedRealm[t] = realm

(* A stored-mode call on an existing token.                                *)
StoredToken(t) == mode = "stored" /\ t \in tokens
-----------------------------------------------------------------------------
(* janus_auth_init(enabled, secret), then no call yet.                     *)
Init ==
    /\ mode \in Modes
    /\ tokens = {}
    /\ allowed = NoPlugins
    /\ expired = {}
    /\ lastCall = CallOf("init", None, None, TRUE)

(* janus_auth_add_token: only in stored mode.                              *)
AddToken(t) ==
    /\ tokens' = IF mode = "stored" THEN tokens \cup {t} ELSE tokens
    /\ lastCall' = CallOf("add_token", t, None, mode = "stored")
    /\ UNCHANGED <<mode, allowed, expired>>

(* Variant that removes the token's key from the allowed-plugins table      *)
(* instead of emptying its entry, so that later lookups find no list.     *)
RemoveTokenDropEntry(t) ==
    /\ tokens' = IF StoredToken(t) THEN tokens \ {t} ELSE tokens
    /\ allowed' = IF StoredToken(t)
                  THEN [x \in DOMAIN allowed \ {t} |-> allowed[x]]
                  ELSE allowed
    /\ lastCall' = CallOf("remove_token", t, None, StoredToken(t))
    /\ UNCHANGED <<mode, expired>>

(* Variant that removes the token but leaves its allowed plugins behind.   *)
RemoveTokenKeepPlugins(t) ==
    /\ tokens' = IF StoredToken(t) THEN tokens \ {t} ELSE tokens
    /\ lastCall' = CallOf("remove_token", t, None, StoredToken(t))
    /\ UNCHANGED <<mode, allowed, expired>>

(* janus_auth_remove_token: the token is invalidated and its plugin        *)
(* permissions are dropped with it; FALSE if there is no such token.       *)
RemoveToken(t) ==
    /\ tokens' = IF StoredToken(t) THEN tokens \ {t} ELSE tokens
    /\ allowed' = IF StoredToken(t) THEN [allowed EXCEPT ![t] = {}]
                  ELSE allowed
    /\ lastCall' = CallOf("remove_token", t, None, StoredToken(t))
    /\ UNCHANGED <<mode, expired>>

(* janus_auth_allow_plugin: FALSE unless the token exists.                 *)
AllowPlugin(t, p) ==
    /\ allowed' = IF StoredToken(t) THEN [allowed EXCEPT ![t] = @ \cup {p}]
                  ELSE allowed
    /\ lastCall' = CallOf("allow_plugin", t, p, StoredToken(t))
    /\ UNCHANGED <<mode, tokens, expired>>

(* janus_auth_disallow_plugin                                              *)
DisallowPlugin(t, p) ==
    /\ allowed' = IF StoredToken(t) THEN [allowed EXCEPT ![t] = @ \ {p}]
                  ELSE allowed
    /\ lastCall' = CallOf("disallow_plugin", t, p, StoredToken(t))
    /\ UNCHANGED <<mode, tokens, expired>>

(* janus_auth_check_token: against the signature or the stored tokens.     *)
CheckToken(t) ==
    /\ lastCall' = CallOf("check_token", t, None,
                          SignatureValid(t, CoreRealm) \/ StoredToken(t))
    /\ UNCHANGED <<mode, tokens, allowed, expired>>

(* janus_auth_check_plugin: a signed token must name the plugin in its     *)
(* descriptors (check_signature_contains); a stored one must have it in    *)
(* its allowed plugins.                                                    *)
CheckPlugin(t, p) ==
    /\ lastCall' = CallOf("check_plugin", t, p,
                          \/ SignatureValid(t, CoreRealm) /\ p \in SignedGrants[t]
                          \/ StoredToken(t) /\ p \in allowed[t])
    /\ UNCHANGED <<mode, tokens, allowed, expired>>

(* janus_callbacks.auth_is_signature_valid(plugin, token): the signature   *)
(* check for the plugin's own realm.                                       *)
PluginSignatureValid(p, t) ==
    /\ lastCall' = CallOf("plugin_signature_valid", t, p, SignatureValid(t, p))
    /\ UNCHANGED <<mode, tokens, allowed, expired>>

(* janus_callbacks.auth_signature_contains(plugin, token, descriptor):     *)
(* janus_auth_check_signature_contains for the plugin's own realm.         *)
PluginSignatureContains(p, t, d) ==
    /\ lastCall' = CallDesc("plugin_signature_contains", t, p, d,
                            SignatureValid(t, p) /\ d \in SignedGrants[t])
    /\ UNCHANGED <<mode, tokens, allowed, expired>>

(* Time passes the expiry a signed token carries.                          *)
SignatureExpires(t) ==
    /\ mode = "signed" /\ t \in SignedTokens \ expired
    /\ expired' = expired \cup {t}
    /\ lastCall' = CallOf("expire", t, None, TRUE)
    /\ UNCHANGED <<mode, tokens, allowed>>

(* janus_auth_deinit: the tables are destroyed and the mechanism is off.   *)
Deinit ==
    /\ mode' = "disabled"
    /\ tokens' = {}
    /\ allowed' = NoPlugins
    /\ lastCall' = CallOf("deinit", None, None, TRUE)
    /\ UNCHANGED expired

Next ==
    \/ Deinit
    \/ \E t \in Tokens :
          \/ AddToken(t) \/ RemoveToken(t) \/ SignatureExpires(t)
          \/ CheckToken(t)
          \/ \E p \in Plugins :
                \/ AllowPlugin(t, p) \/ DisallowPlugin(t, p) \/ CheckPlugin(t, p)
                \/ PluginSignatureValid(p, t)
                \/ \E d \in Plugins : PluginSignatureContains(p, t, d)

Spec == Init /\ [][Next]_vars
-----------------------------------------------------------------------------
TypeOK ==
    /\ mode \in Modes
    /\ tokens \subseteq Tokens
    /\ allowed \in [Tokens -> SUBSET Plugins]
    /\ expired \subseteq SignedTokens
    /\ lastCall.result \in BOOLEAN

Contract == INSTANCE JanusAuthContract
    WITH live <- IF mode = "signed"
                 THEN {t \in SignedTokens \ expired : SignedRealm[t] = CoreRealm}
                 ELSE tokens,
         grants <- IF mode = "signed"
                   THEN {<<t, p>> \in (SignedTokens \ expired) \X Plugins :
                             SignedRealm[t] = CoreRealm /\ p \in SignedGrants[t]}
                   ELSE {<<t, p>> \in tokens \X Plugins : p \in allowed[t]},
         valid <- IF mode = "signed"
                  THEN {<<t, SignedRealm[t]>> : t \in SignedTokens \ expired}
                  ELSE {},
         call <- lastCall

(* Every answer of check_token and check_plugin is the one the contract    *)
(* gives: a token may use a plugin only if it was allowed since the token  *)
(* was last added and not disallowed since; a removed token that is added  *)
(* again starts with no plugins; an expired signed token is refused; and a *)
(* signature made for one realm is honoured in no other: a plugin's token  *)
(* opens nothing in the core or in another plugin, and a core token       *)
(* nothing in a plugin.                                                    *)
AuthRefinement == Contract!Spec
=============================================================================
