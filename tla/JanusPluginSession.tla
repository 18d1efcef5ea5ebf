------------------------- MODULE JanusPluginSession -------------------------
(***************************************************************************)
(* The signaling side of one handle attached to a plugin (src/rtp.h, the   *)
(* plugin.h part, and transport.h in src/unnamed/part_001): client         *)
(* The handle is created in the session without a plugin and then bound  *)
(* to one by janus_ice_handle_attach_plugin, which has the plugin's        *)
(* create_session make the janus_plugin_session.  Client                  *)
(* requests reach the plugin through handle_message on a signaling thread, *)
(* whose janus_plugin_result is turned into a reply (success, ack or       *)
(* error) sent back through the transport; OK_WAIT requests are answered   *)
(* later by the plugin's own worker with push_event.  The handle is torn   *)
(* down by whichever comes first of the client's detach, the plugin's      *)
(* end_session, the transport going away (transport_gone) and the session *)
(* being reaped by the watchdog; each ends in destroy_session.             *)
(***************************************************************************)
EXTENDS Naturals, Sequences, FiniteSets

CONSTANTS
    Txns    \* transaction identifiers of client requests (model values)

(* janus_plugin_result_type                                                *)
Results == {"OK", "OK_WAIT", "ERROR"}

(* What the client receives through send_message.                          *)
Replies == {"success", "ack", "error", "event", "detached"}

ReplyTo == [OK |-> "success", OK_WAIT |-> "ack", ERROR |-> "error"]

VARIABLES
    sessionAlive,  \* the Janus session still exists
    transportUp,   \* the transport session has not gone away
    attached,      \* the handle is in the session's table of handles
    app,           \* janus_ice_handle.app_handle: "unset", "set" or "failed"
    created,       \* history: plugin sessions create_session made
    stopped,       \* janus_plugin_session.stopped
    destroyCalls,  \* history: destroy_session invocations on this handle
    endRequested,  \* end_session called, not yet acted on by the core
    sig,           \* per transaction: signaling thread progress
    owed,          \* OK_WAIT transactions the plugin's worker will push_event
    pushing,       \* events push_event accepted, not yet sent to the transport
    toClient       \* history: messages delivered to the client, in order

vars == <<sessionAlive, transportUp, attached, app, created, stopped,
          destroyCalls, endRequested, sig, owed, pushing, toClient>>

Msg(kind, t) == [kind |-> kind, txn |-> t]

(* The core's detach notification carries no transaction.                  *)
NoTxn == "none"

(* Deliver m if the transport is still there; send_message is not         *)
(* attempted on a transport that is gone.                                  *)
Deliver(m) ==
    toClient' = IF transportUp THEN Append(toClient, m) ELSE toClient
-----------------------------------------------------------------------------
(* Variant that destroys the plugin session without asking whether another *)
(* path already removed the handle.                                        *)
DestroyHandleUnchecked ==
    /\ attached' = FALSE
    /\ stopped' = TRUE
    /\ destroyCalls' = destroyCalls + 1

(* Variant that invokes destroy_session whether or not a plugin session   *)
(* was ever bound to the handle.                                           *)
DestroyHandleAnyApp ==
    IF attached
    THEN /\ attached' = FALSE
         /\ stopped' = TRUE
         /\ destroyCalls' = destroyCalls + 1
    ELSE UNCHANGED <<attached, stopped, destroyCalls>>

(* janus_ice_handle_destroy, under the session mutex: if the handle is     *)
(* still in the session's table, remove it; if a plugin session is bound   *)
(* to it, mark that stopped and invoke destroy_session.  A no-op if        *)
(* another path already removed the handle.                                *)
DestroyHandle ==
    IF attached
    THEN /\ attached' = FALSE
         /\ IF app = "set"
            THEN /\ stopped' = TRUE
                 /\ destroyCalls' = destroyCalls + 1
            ELSE UNCHANGED <<stopped, destroyCalls>>
    ELSE UNCHANGED <<attached, stopped, destroyCalls>>
-----------------------------------------------------------------------------
(* janus_ice_handle_create: the handle is in the session, no plugin yet.  *)
Init ==
    /\ sessionAlive = TRUE
    /\ transportUp = TRUE
    /\ attached = TRUE
    /\ app = "unset"
    /\ created = 0
    /\ stopped = FALSE
    /\ destroyCalls = 0
    /\ endRequested = FALSE
    /\ sig = [t \in Txns |-> "none"]
    /\ owed = {}
    /\ pushing = {}
    /\ toClient = <<>>

(* Signaling thread: the client's "attach" request.                       *)
(* janus_ice_handle_attach_plugin finds the handle in the session, fails   *)
(* if it already has a plugin, and has the plugin's create_session make    *)
(* the janus_plugin_session; create_session reports an error (the plugin   *)
(* refuses the session) or the session is bound to the handle.             *)
AttachPlugin ==
    /\ app = "unset"
    /\ sessionAlive /\ transportUp
    /\ attached
    /\ \E ok \in BOOLEAN :
         /\ app' = IF ok THEN "set" ELSE "failed"
         /\ created' = IF ok THEN created + 1 ELSE created
    /\ UNCHANGED <<sessionAlive, transportUp, attached, stopped, destroyCalls,
                   endRequested, sig, owed, pushing, toClient>>

(* Signaling thread: incoming_request carrying a "message" for the handle. *)
(* If the handle is gone the core answers with an error itself; otherwise  *)
(* the plugin's handle_message returns a result.  After OK_WAIT its       *)
(* worker owes an event for the transaction; after OK it may still send    *)
(* one ("notifications related to the transaction may occur later on even  *)
(* for synchronous requests").                                             *)
IncomingRequest(t) ==
    /\ sig[t] = "none"
    /\ app = "set"
    /\ sessionAlive /\ transportUp
    /\ IF attached /\ ~stopped
       THEN \E r \in Results, later \in BOOLEAN :
              /\ sig' = [sig EXCEPT ![t] = r]
              /\ owed' = IF r = "OK_WAIT" \/ (r = "OK" /\ later)
                         THEN owed \cup {t} ELSE owed
       ELSE /\ sig' = [sig EXCEPT ![t] = "ERROR"]
            /\ UNCHANGED owed
    /\ UNCHANGED <<app, created, sessionAlive, transportUp, attached, stopped, destroyCalls,
                   endRequested, pushing, toClient>>

(* Signaling thread, after handle_message returned: the result becomes    *)
(* the reply (janus_plugin_result_destroy frees it).                       *)
SendReply(t) ==
    /\ sig[t] \in Results
    /\ sig' = [sig EXCEPT ![t] = "done"]
    /\ Deliver(Msg(ReplyTo[sig[t]], t))
    /\ UNCHANGED <<app, created, sessionAlive, transportUp, attached, stopped, destroyCalls,
                   endRequested, owed, pushing>>

(* Plugin worker: push_event for an OK_WAIT transaction.  The core        *)
(* refuses it (returns an error) unless the plugin session is alive and    *)
(* not stopped; an accepted event is sent to the client in a later step.   *)
PushEvent(t) ==
    /\ t \in owed
    /\ owed' = owed \ {t}
    /\ pushing' = IF attached /\ ~stopped THEN pushing \cup {t} ELSE pushing
    /\ UNCHANGED <<app, created, sessionAlive, transportUp, attached, stopped, destroyCalls,
                   endRequested, sig, toClient>>

(* The accepted event goes to the client through the transport's          *)
(* send_message, with no new check of the plugin session.                  *)
NotifyEvent(t) ==
    /\ t \in pushing
    /\ pushing' = pushing \ {t}
    /\ Deliver(Msg("event", t))
    /\ UNCHANGED <<app, created, sessionAlive, transportUp, attached, stopped, destroyCalls,
                   endRequested, sig, owed>>

(* Plugin worker: end_session on a session it still uses; the core acts on *)
(* it later.                                                               *)
EndSession ==
    /\ app = "set" /\ ~stopped /\ ~endRequested
    /\ endRequested' = TRUE
    /\ UNCHANGED <<app, created, sessionAlive, transportUp, attached, stopped, destroyCalls,
                   sig, owed, pushing, toClient>>

(* Variant that gives up on end_session while a request of the same        *)
(* handle is still being answered.                                         *)
ProcessEndSessionIfIdle ==
    /\ endRequested
    /\ endRequested' = FALSE
    /\ IF \A t \in Txns : sig[t] \in {"none", "done"}
       THEN /\ DestroyHandle
            /\ Deliver(Msg("detached", NoTxn))
       ELSE UNCHANGED <<attached, stopped, destroyCalls, toClient>>
    /\ UNCHANGED <<app, created, sessionAlive, transportUp, sig, owed, pushing>>

(* Core: the end_session request is acted on; the handle is destroyed and *)
(* the client told it was detached.                                        *)
ProcessEndSession ==
    /\ endRequested
    /\ endRequested' = FALSE
    /\ DestroyHandle
    /\ IF attached THEN Deliver(Msg("detached", NoTxn))
                   ELSE UNCHANGED toClient
    /\ UNCHANGED <<app, created, sessionAlive, transportUp, sig, owed, pushing>>

(* Signaling thread: the client's "detach" request for the handle.         *)
ClientDetach ==
    /\ app = "set"
    /\ sessionAlive /\ transportUp
    /\ DestroyHandle
    /\ IF attached THEN Deliver(Msg("detached", NoTxn))
                   ELSE UNCHANGED toClient
    /\ UNCHANGED <<app, created, sessionAlive, transportUp, endRequested, sig, owed, pushing>>

(* Transport: transport_gone; the core destroys the session it carried and *)
(* with it the handle.                                                     *)
TransportGone ==
    /\ transportUp
    /\ transportUp' = FALSE
    /\ sessionAlive' = FALSE
    /\ DestroyHandle
    /\ UNCHANGED <<app, created, endRequested, sig, owed, pushing, toClient>>

(* Watchdog: the idle session is reaped (session_over with timeout); its   *)
(* handle is destroyed.                                                    *)
SessionTimeout ==
    /\ sessionAlive
    /\ \A t \in Txns : sig[t] \in {"none", "done"}
    /\ sessionAlive' = FALSE
    /\ DestroyHandle
    /\ UNCHANGED <<app, created, transportUp, endRequested, sig, owed, pushing, toClient>>
-----------------------------------------------------------------------------
Next ==
    \/ AttachPlugin
    \/ \E t \in Txns : IncomingRequest(t) \/ SendReply(t)
                       \/ PushEvent(t) \/ NotifyEvent(t)
    \/ EndSession
    \/ ProcessEndSession
    \/ ClientDetach
    \/ TransportGone
    \/ SessionTimeout

(* The core's own threads are fair: a signaling thread finishing the      *)
(* request it is handling, and the handling of end_session.  The client,   *)
(* the transport and the plugin's worker may stop at any time.             *)
Fairness ==
    /\ \A t \in Txns : WF_vars(SendReply(t))
    /\ WF_vars(ProcessEndSession)

Spec == Init /\ [][Next]_vars /\ Fairness
-----------------------------------------------------------------------------
TypeOK ==
    /\ sessionAlive \in BOOLEAN /\ transportUp \in BOOLEAN
    /\ attached \in BOOLEAN /\ stopped \in BOOLEAN
    /\ app \in {"unset", "set", "failed"} /\ created \in 0..2
    /\ destroyCalls \in 0..2
    /\ endRequested \in BOOLEAN
    /\ sig \in [Txns -> Results \cup {"none", "done"}]
    /\ owed \subseteq Txns
    /\ pushing \subseteq Txns
    /\ toClient \in Seq([kind : Replies, txn : Txns \cup {NoTxn}])

(* The handle's teardown paths (detach, end_session, transport_gone, the   *)
(* session reaper) race each other and, when the session or transport goes *)
(* first, the attach.  destroy_session runs for a plugin session only if   *)
(* create_session made it, at most once, and by the time the handle has    *)
(* left the session it has run for every one made; a handle is bound to   *)
(* one plugin session at most in its lifetime (spec 3, invariant (a)).     *)
DestroySessionMatchesCreate ==
    /\ created <= 1
    /\ destroyCalls <= created
    /\ ~attached => destroyCalls = created

(* end_session is always honoured: once the plugin asks for it, the       *)
(* handle is eventually gone from the session, whatever requests are in    *)
(* flight.                                                                 *)
EndSessionHonoured == endRequested ~> ~attached
=============================================================================
