--------------------------- MODULE JanusIceHandle ---------------------------
(***************************************************************************)
(* One janus_ice_handle (src/ice.h) from the remote offer to the second    *)
(* phase of its teardown, as the threads that touch it see it:             *)
(*   - a signaling thread: the remote offer, trickle requests, and the     *)
(*     client's destroy (janus_ice_handle_destroy);                        *)
(*   - the plugin's thread: the answer pushed back with push_event,        *)
(*     relay_rtp and close_pc;                                             *)
(*   - the ICE/DTLS loop of the handle: libnice state changes, the DTLS    *)
(*     handshake and its alerts, the ice-failed timer;                     *)
(*   - the send worker (janus_ice_send_thread) draining queued_packets;    *)
(*   - the watchdog, which frees the WebRTC resources a grace period       *)
(*     after the hangup (janus_ice_webrtc_free).                           *)
(* The handle mutex guards flag mutations (spec section 5), so each        *)
(* action that tests and sets flags is one atomic step.  Only answerer    *)
(* mode is modelled: the browser sends the offer.                          *)
(***************************************************************************)
EXTENDS Naturals, Sequences, FiniteSets, SequencesExt

CONSTANTS
    Candidates,   \* remote ICE candidates the client may trickle (model values)
    EOC,          \* the end-of-candidates trickle ("completed": true)
    StopPkt,      \* the sentinel pushed on queued_packets at hangup
    MaxPackets,   \* bound on the RTP packets the plugin relays
    Grace         \* watchdog ticks between hangup and janus_ice_webrtc_free

ASSUME EOC \notin Candidates
ASSUME MaxPackets \in Nat /\ Grace \in Nat \ {0}

(* The JANUS_ICE_HANDLE_WEBRTC_* bits this model sets or tests.            *)
WebRTCFlags ==
    {"PROCESSING_OFFER", "START", "READY", "STOP", "ALERT", "TRICKLE",
     "ALL_TRICKLES", "CLEANING", "GOT_OFFER", "GOT_ANSWER", "HAS_AGENT"}

(* libnice component states, plus "none" once the agent is freed.          *)
IceStates == {"none", "gathering", "connected", "ready", "failed"}

(* The plugin callbacks whose order the properties are about.              *)
Callbacks == {"setup_media", "hangup_media", "destroy_session"}

Packets == 1..MaxPackets

VARIABLES
    flags,        \* handle->webrtc_flags
    received,     \* history: trickles in the order the client sent them
    pending,      \* handle->pending_trickles
    remote,       \* trickles handed to the agent (component->remote_candidates)
    iceState,     \* component->state
    setupPending, \* setup_media: "no", "ask" (is_alive next), "call"
    hangupNotify, \* hangup_media: "no", "ask" (is_alive next), "call"
    stopped,      \* handle->app_handle->stopped
    destroyed,    \* janus_ice_handle_destroy has run
    pluginLog,    \* history: plugin callbacks in the order they were invoked
    relayed,      \* packets the plugin has passed to relay_rtp
    queue,        \* handle->queued_packets
    sendPc,       \* send worker: "idle", "busy" or "exited"
    sendPkt,      \* the packet the send worker holds while "busy"
    sent,         \* history: packets written to the socket
    ticks,        \* watchdog ticks since the hangup (capped at Grace)
    freed         \* janus_ice_webrtc_free has run

vars == <<flags, received, pending, remote, iceState, setupPending,
          hangupNotify, stopped, destroyed, pluginLog, relayed, queue,
          sendPc, sendPkt, sent, ticks, freed>>

trickleVars == <<received, pending, remote>>
sendVars    == <<relayed, queue, sendPc, sendPkt, sent>>
-----------------------------------------------------------------------------
(* Handing trickles to the agent: the end-of-candidates marker sets        *)
(* ALL_TRICKLES when it is applied, not when it is received.               *)
ApplyTrickles(f, ts) ==
    IF EOC \in ToSet(ts) THEN f \cup {"ALL_TRICKLES"} ELSE f

(* A trickle must wait while there is no agent or an offer is still being  *)
(* processed.                                                              *)
MustQueueTrickle(f) ==
    "HAS_AGENT" \notin f \/ "PROCESSING_OFFER" \in f

(* Variant without the ALERT test-and-set: every caller runs phase one.    *)
WebrtcHangupUnchecked ==
    /\ flags' = flags \cup {"ALERT", "STOP", "CLEANING"}
    /\ queue' = Append(queue, StopPkt)
    /\ hangupNotify' = "ask"

(* Phase one of janus_ice_webrtc_hangup, under the handle mutex: a no-op   *)
(* if ALERT is already set; otherwise mark STOP+ALERT+CLEANING, wake the   *)
(* send worker with the stop sentinel, and leave hangup_media to invoke.   *)
WebrtcHangup ==
    IF "ALERT" \in flags
    THEN UNCHANGED <<flags, queue, hangupNotify>>
    ELSE /\ flags' = flags \cup {"ALERT", "STOP", "CLEANING"}
         /\ queue' = Append(queue, StopPkt)
         /\ hangupNotify' = "ask"
-----------------------------------------------------------------------------
Init ==
    /\ flags = {}
    /\ received = <<>>
    /\ pending = <<>>
    /\ remote = <<>>
    /\ iceState = "none"
    /\ setupPending = "no"
    /\ hangupNotify = "no"
    /\ stopped = FALSE
    /\ destroyed = FALSE
    /\ pluginLog = <<>>
    /\ relayed = 0
    /\ queue = <<>>
    /\ sendPc = "idle"
    /\ sendPkt = 0
    /\ sent = <<>>
    /\ ticks = 0
    /\ freed = FALSE

(* Signaling thread: a "message" request carrying a JSEP offer.  The       *)
(* offer is parsed and handed to the plugin; the agent is created only     *)
(* when the plugin answers.                                                *)
RemoteOffer ==
    /\ "GOT_OFFER" \notin flags
    /\ "ALERT" \notin flags
    /\ flags' = flags \cup {"GOT_OFFER", "PROCESSING_OFFER"}
    /\ UNCHANGED <<trickleVars, iceState, setupPending, hangupNotify, stopped,
                   destroyed, pluginLog, sendVars, ticks, freed>>

(* Variant that sets ALL_TRICKLES when the marker is received, queued or  *)
(* not.                                                                    *)
TrickleEocOnReceipt(c) ==
    /\ c \notin ToSet(received)
    /\ "ALERT" \notin flags
    /\ received' = Append(received, c)
    /\ IF MustQueueTrickle(flags)
       THEN /\ pending' = Append(pending, c)
            /\ flags' = ApplyTrickles(flags \cup {"TRICKLE"}, <<c>>)
            /\ UNCHANGED remote
       ELSE /\ remote' = Append(remote, c)
            /\ flags' = ApplyTrickles(flags \cup {"TRICKLE"}, <<c>>)
            /\ UNCHANGED pending
    /\ UNCHANGED <<iceState, setupPending, hangupNotify, stopped, destroyed,
                   pluginLog, sendVars, ticks, freed>>

(* Signaling thread: a "trickle" request (janus_ice_trickle_new and        *)
(* janus_ice_trickle_parse).  Queued while the agent cannot take it,       *)
(* handed to the agent otherwise.  Rejected once the handle is cleaning.   *)
Trickle(c) ==
    /\ c \notin ToSet(received)
    /\ "ALERT" \notin flags
    /\ received' = Append(received, c)
    /\ IF MustQueueTrickle(flags)
       THEN /\ pending' = Append(pending, c)
            /\ flags' = flags \cup {"TRICKLE"}
            /\ UNCHANGED remote
       ELSE /\ remote' = Append(remote, c)
            /\ flags' = ApplyTrickles(flags \cup {"TRICKLE"}, <<c>>)
            /\ UNCHANGED pending
    /\ UNCHANGED <<iceState, setupPending, hangupNotify, stopped, destroyed,
                   pluginLog, sendVars, ticks, freed>>

(* Variant that creates the agent but leaves the pending trickles queued.  *)
PluginAnswerNoDrain ==
    /\ "PROCESSING_OFFER" \in flags
    /\ "ALERT" \notin flags
    /\ ~stopped
    /\ flags' = (flags \cup {"GOT_ANSWER", "HAS_AGENT", "START"})
                  \ {"PROCESSING_OFFER"}
    /\ iceState' = "gathering"
    /\ UNCHANGED <<trickleVars, setupPending, hangupNotify, stopped, destroyed,
                   pluginLog, sendVars, ticks, freed>>

(* Plugin thread: push_event with the JSEP answer.  The core creates the   *)
(* agent (janus_ice_setup_local), starts gathering, drains the pending     *)
(* trickles in receipt order and clears PROCESSING_OFFER, all under the    *)
(* handle mutex.                                                           *)
PluginAnswer ==
    /\ "PROCESSING_OFFER" \in flags
    /\ "ALERT" \notin flags
    /\ ~stopped
    /\ remote' = remote \o pending
    /\ pending' = <<>>
    /\ flags' = ApplyTrickles((flags \cup {"GOT_ANSWER", "HAS_AGENT", "START"})
                                \ {"PROCESSING_OFFER"}, pending)
    /\ iceState' = "gathering"
    /\ UNCHANGED <<received, setupPending, hangupNotify, stopped, destroyed,
                   pluginLog, sendVars, ticks, freed>>

(* ICE loop: libnice reports the component connected; connectivity checks *)
(* need at least one remote candidate.                                     *)
IceConnected ==
    /\ iceState = "gathering"
    /\ "ALERT" \notin flags
    /\ ToSet(remote) \cap Candidates # {}
    /\ iceState' = "connected"
    /\ UNCHANGED <<flags, trickleVars, setupPending, hangupNotify, stopped,
                   destroyed, pluginLog, sendVars, ticks, freed>>

(* ICE loop: libnice reports the component failed.                         *)
IceFailed ==
    /\ iceState \in {"gathering", "connected"}
    /\ "ALERT" \notin flags
    /\ iceState' = "failed"
    /\ UNCHANGED <<flags, trickleVars, setupPending, hangupNotify, stopped,
                   destroyed, pluginLog, sendVars, ticks, freed>>

(* ICE loop: the ice-failed timer (icestate_source) fires on a component   *)
(* still failed and hangs up with reason "ice-failed".                     *)
IceFailedTimer ==
    /\ iceState = "failed"
    /\ "ALERT" \notin flags
    /\ WebrtcHangup
    /\ UNCHANGED <<trickleVars, iceState, setupPending, stopped, destroyed,
                   pluginLog, relayed, sendPc, sendPkt, sent, ticks, freed>>

(* ICE loop: janus_ice_dtls_handshake_done sets READY under the mutex; the *)
(* plugin's setup_media is invoked next, outside it.                       *)
DtlsHandshakeDone ==
    /\ iceState = "connected"
    /\ "READY" \notin flags
    /\ "ALERT" \notin flags
    /\ flags' = flags \cup {"READY"}
    /\ iceState' = "ready"
    /\ setupPending' = "ask"
    /\ UNCHANGED <<trickleVars, hangupNotify, stopped, destroyed, pluginLog,
                   sendVars, ticks, freed>>

(* ICE loop: ask janus_plugin_session_is_alive before setup_media; a dead *)
(* plugin session is not notified.                                         *)
SetupMediaAlive ==
    /\ setupPending = "ask"
    /\ setupPending' = IF stopped THEN "no" ELSE "call"
    /\ UNCHANGED <<flags, trickleVars, iceState, hangupNotify, stopped,
                   destroyed, pluginLog, sendVars, ticks, freed>>

(* ICE loop: invoke setup_media, in a later step than the is_alive check,  *)
(* so a destroy from signaling may fall between the two.                   *)
SetupMedia ==
    /\ setupPending = "call"
    /\ setupPending' = "no"
    /\ pluginLog' = Append(pluginLog, "setup_media")
    /\ UNCHANGED <<flags, trickleVars, iceState, hangupNotify, stopped,
                   destroyed, sendVars, ticks, freed>>

(* ICE loop: a DTLS alert on a ready PeerConnection hangs up with reason   *)
(* "dtls-alert".                                                           *)
DtlsAlert ==
    /\ "READY" \in flags
    /\ setupPending = "no"
    /\ "ALERT" \notin flags
    /\ WebrtcHangup
    /\ UNCHANGED <<trickleVars, iceState, setupPending, stopped, destroyed,
                   pluginLog, relayed, sendPc, sendPkt, sent, ticks, freed>>

(* Plugin thread: close_pc, which the core answers with hangup_media.      *)
ClosePc ==
    /\ ~stopped
    /\ WebrtcHangup
    /\ UNCHANGED <<trickleVars, iceState, setupPending, stopped, destroyed,
                   pluginLog, relayed, sendPc, sendPkt, sent, ticks, freed>>

(* Variant that waits for the plugin session to be alive instead of      *)
(* finishing the hangup without hangup_media.                              *)
HangupMediaAliveOnly ==
    /\ hangupNotify = "ask"
    /\ ~stopped
    /\ hangupNotify' = "call"
    /\ UNCHANGED <<flags, trickleVars, iceState, setupPending, stopped,
                   destroyed, pluginLog, sendVars, ticks, freed>>

(* The hanging-up thread, after releasing the mutex: ask                  *)
(* janus_plugin_session_is_alive; a dead plugin session gets no            *)
(* hangup_media and the hangup is dealt with.                              *)
HangupMediaAlive ==
    /\ hangupNotify = "ask"
    /\ hangupNotify' = IF stopped THEN "no" ELSE "call"
    /\ UNCHANGED <<flags, trickleVars, iceState, setupPending, stopped,
                   destroyed, pluginLog, sendVars, ticks, freed>>

(* The hanging-up thread: invoke hangup_media, in a later step than the    *)
(* is_alive check.                                                         *)
HangupMedia ==
    /\ hangupNotify = "call"
    /\ hangupNotify' = "no"
    /\ pluginLog' = Append(pluginLog, "hangup_media")
    /\ UNCHANGED <<flags, trickleVars, iceState, setupPending, stopped,
                   destroyed, sendVars, ticks, freed>>

(* Signaling thread: janus_ice_handle_destroy.  The plugin session is      *)
(* marked stopped first, the plugin's destroy_session is invoked, then the *)
(* PeerConnection is hung up with reason "Detach".                         *)
HandleDestroy ==
    /\ ~destroyed
    /\ destroyed' = TRUE
    /\ stopped' = TRUE
    /\ pluginLog' = Append(pluginLog, "destroy_session")
    /\ WebrtcHangup
    /\ UNCHANGED <<trickleVars, iceState, setupPending, relayed, sendPc,
                   sendPkt, sent, ticks, freed>>

(* Plugin thread: janus_ice_relay_rtp.  The packet is queued for the send  *)
(* worker only on a ready, not hung-up PeerConnection; dropped otherwise.  *)
RelayRtp ==
    /\ ~stopped
    /\ relayed < MaxPackets
    /\ relayed' = relayed + 1
    /\ queue' = IF "READY" \in flags /\ "ALERT" \notin flags
                THEN Append(queue, relayed + 1)
                ELSE queue
    /\ UNCHANGED <<flags, trickleVars, iceState, setupPending, hangupNotify,
                   stopped, destroyed, pluginLog, sendPc, sendPkt, sent,
                   ticks, freed>>

(* Variant that hands the stop sentinel on as if it were a packet.         *)
SendPopNoSentinel ==
    /\ sendPc = "idle"
    /\ queue # <<>>
    /\ queue' = Tail(queue)
    /\ sendPc' = "busy"
    /\ sendPkt' = Head(queue)
    /\ UNCHANGED <<flags, trickleVars, iceState, setupPending, hangupNotify,
                   stopped, destroyed, pluginLog, relayed, sent, ticks, freed>>

(* Send worker: pop queued_packets.  The stop sentinel ends the thread; so *)
(* does an empty queue once STOP is set (the pop returns at once).         *)
SendPop ==
    /\ sendPc = "idle"
    /\ \/ /\ queue # <<>>
          /\ queue' = Tail(queue)
          /\ IF Head(queue) = StopPkt
             THEN /\ sendPc' = "exited"
                  /\ UNCHANGED sendPkt
             ELSE /\ sendPc' = "busy"
                  /\ sendPkt' = Head(queue)
       \/ /\ queue = <<>>
          /\ "STOP" \in flags
          /\ sendPc' = "exited"
          /\ UNCHANGED <<queue, sendPkt>>
    /\ UNCHANGED <<flags, trickleVars, iceState, setupPending, hangupNotify,
                   stopped, destroyed, pluginLog, relayed, sent, ticks, freed>>

(* Variant that writes whatever it popped without asking whether the      *)
(* PeerConnection is still up.                                             *)
SendWriteUnchecked ==
    /\ sendPc = "busy"
    /\ sendPc' = "idle"
    /\ sent' = Append(sent, sendPkt)
    /\ UNCHANGED <<flags, trickleVars, iceState, setupPending, hangupNotify,
                   stopped, destroyed, pluginLog, relayed, queue, sendPkt,
                   ticks, freed>>

(* Send worker: SRTP-protect and write the packet, or drop it when DTLS is *)
(* torn down or the component is gone.                                     *)
SendWrite ==
    /\ sendPc = "busy"
    /\ sendPc' = "idle"
    /\ sent' = IF "READY" \in flags /\ "ALERT" \notin flags /\ ~freed
               THEN Append(sent, sendPkt)
               ELSE sent
    /\ UNCHANGED <<flags, trickleVars, iceState, setupPending, hangupNotify,
                   stopped, destroyed, pluginLog, relayed, queue, sendPkt,
                   ticks, freed>>

(* Watchdog: one period elapses on a hung-up handle.                       *)
WatchdogTick ==
    /\ "ALERT" \in flags
    /\ ~freed
    /\ ticks < Grace
    /\ ticks' = ticks + 1
    /\ UNCHANGED <<flags, trickleVars, iceState, setupPending, hangupNotify,
                   stopped, destroyed, pluginLog, sendVars, freed>>

(* Watchdog: janus_ice_webrtc_free, phase two, once hangup_media has been  *)
(* dealt with and the grace period is over: agent, stream, component,      *)
(* DTLS-SRTP and the pending trickles are released.                        *)
WebrtcFree ==
    /\ "ALERT" \in flags
    /\ hangupNotify = "no"
    /\ ticks >= Grace
    /\ ~freed
    /\ freed' = TRUE
    /\ flags' = flags \ {"HAS_AGENT"}
    /\ iceState' = "none"
    /\ pending' = <<>>
    /\ remote' = <<>>
    /\ UNCHANGED <<received, setupPending, hangupNotify, stopped, destroyed,
                   pluginLog, sendVars, ticks>>
-----------------------------------------------------------------------------
Next ==
    \/ RemoteOffer
    \/ \E c \in Candidates \cup {EOC} : Trickle(c)
    \/ PluginAnswer
    \/ IceConnected
    \/ IceFailed
    \/ IceFailedTimer
    \/ DtlsHandshakeDone
    \/ SetupMediaAlive
    \/ SetupMedia
    \/ DtlsAlert
    \/ ClosePc
    \/ HangupMediaAlive
    \/ HangupMedia
    \/ HandleDestroy
    \/ RelayRtp
    \/ SendPop
    \/ SendWrite
    \/ WatchdogTick
    \/ WebrtcFree

(* Only the core's own threads are fair: the ICE loop finishing a handler  *)
(* it started, the send worker, and the watchdog timer.  The client, the   *)
(* plugin and the network may stop at any time.                            *)
Fairness ==
    /\ WF_vars(SetupMediaAlive)
    /\ WF_vars(SetupMedia)
    /\ WF_vars(HangupMediaAlive)
    /\ WF_vars(HangupMedia)
    /\ WF_vars(SendPop)
    /\ WF_vars(SendWrite)
    /\ WF_vars(WatchdogTick)
    /\ WF_vars(WebrtcFree)

Spec == Init /\ [][Next]_vars /\ Fairness
-----------------------------------------------------------------------------
TypeOK ==
    /\ flags \subseteq WebRTCFlags
    /\ received \in Seq(Candidates \cup {EOC})
    /\ pending \in Seq(Candidates \cup {EOC})
    /\ remote \in Seq(Candidates \cup {EOC})
    /\ iceState \in IceStates
    /\ setupPending \in {"no", "ask", "call"}
    /\ hangupNotify \in {"no", "ask", "call"}
    /\ stopped \in BOOLEAN
    /\ destroyed \in BOOLEAN
    /\ pluginLog \in Seq(Callbacks)
    /\ relayed \in 0..MaxPackets
    /\ queue \in Seq(Packets \cup {StopPkt})
    /\ sendPc \in {"idle", "busy", "exited"}
    /\ sendPkt \in 0..MaxPackets
    /\ sent \in Seq(Packets)
    /\ ticks \in 0..Grace
    /\ freed \in BOOLEAN

CallCount(cb) == Cardinality({i \in DOMAIN pluginLog : pluginLog[i] = cb})

(* Trickle requests racing the offer/answer (signaling thread vs. plugin   *)
(* thread): until the agent is freed, every candidate the client sent is   *)
(* either applied or still pending, none twice, and applied ones precede   *)
(* pending ones in receipt order; and once the agent exists and the offer  *)
(* is processed nothing is left pending.                                   *)
TrickleDelivery ==
    /\ ~freed => remote \o pending = received
    /\ ("HAS_AGENT" \in flags /\ "PROCESSING_OFFER" \notin flags)
           => pending = <<>>

(* ALL_TRICKLES (end-of-candidates seen) is never set while a candidate   *)
(* the client sent before the end-of-candidates marker has not reached the *)
(* agent.                                                                  *)
AllTricklesComplete ==
    ("ALL_TRICKLES" \in flags /\ ~freed) =>
        \A i \in DOMAIN received :
            received[i] = EOC =>
                \A j \in 1..i : received[j] \in ToSet(remote)

(* janus_ice_webrtc_hangup may be entered from the ICE loop (DTLS alert,   *)
(* ice-failed), the plugin (close_pc) and signaling (destroy); the plugin  *)
(* receives hangup_media at most once.                                     *)
HangupMediaOnce == CallCount("hangup_media") <= 1

(* The plugin is never told the PeerConnection is ready after it was told  *)
(* it is gone (hangup_media, "the PeerConnection is not valid any more").  *)
NoSetupAfterHangup ==
    \A i, j \in DOMAIN pluginLog :
        (pluginLog[i] = "hangup_media" /\ pluginLog[j] = "setup_media") => j < i

(* The abstract PeerConnection the flags stand for: freed once phase two  *)
(* ran, closing from the first hangup on, up once DTLS completed, being    *)
(* negotiated from the offer on.                                           *)
PcState ==
    IF freed THEN "freed"
    ELSE IF "ALERT" \in flags THEN "closing"
    ELSE IF "READY" \in flags THEN "up"
    ELSE IF "GOT_OFFER" \in flags THEN "negotiating"
    ELSE "idle"

PC == INSTANCE JanusPeerConnection WITH pc <- PcState, wire <- sent

(* The handle implements the PeerConnection lifecycle: hung up once from   *)
(* any live state and then freed, with the send worker writing media only *)
(* while it is up, in relay order and never twice, whatever the ICE loop, *)
(* the plugin, signaling and the watchdog interleave.                      *)
PeerConnectionRefinement == PC!Spec

(* Every hangup completes: hangup_media is dealt with, the send worker     *)
(* reaches the stop sentinel and exits, and the watchdog frees the WebRTC  *)
(* resources.                                                              *)
HangupCompletes ==
    ("ALERT" \in flags) ~> (freed /\ sendPc = "exited" /\ hangupNotify = "no")
=============================================================================
