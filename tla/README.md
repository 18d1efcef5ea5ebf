# TLA+ models of the Janus core media engine

These modules model the per-handle media engine of the Janus WebRTC gateway, as
declared in `src/ice.h`, `src/rtp.h` (which also carries `plugin.h`) and the
collaborator headers in `src/unnamed/` (config, auth, transport), and as
specified in `spec.md`. The repository ships headers only. Each definition is
translated from the contract a header states: its struct fields, flag bits and
doc comments. Where the behaviour lives only in the spec (libnice and DTLS
events, the watchdog), the definition is marked `spec_modelled` in
`PROJECT.json`.

## The system and how its parts interact

| Part | Source | State | Operations | Interacts with |
|---|---|---|---|---|
| ICE handle | `ice.h` `janus_ice_handle`, stream, component | `webrtc_flags` bitset, `pending_trickles`, `queued_packets`, component state, remote candidates | trickle, setup_local / setup_remote_candidates, dtls_handshake_done, webrtc_hangup, webrtc_free, relay_rtp, send thread | signaling (offer, trickle, destroy), plugin (answer, relay, close_pc), ICE/DTLS loop, send worker, watchdog |
| Plugin session | `rtp.h` (`plugin.h`) `janus_plugin_session`, `janus_plugin`, `janus_callbacks` | `stopped` bit | create_session, handle_message (OK / OK_WAIT / ERROR), setup_media, hangup_media, destroy_session; push_event, relay_*, close_pc, end_session | the handle and the signaling layer |
| RTP switching context | `rtp.h` `janus_rtp_switching_context` | per lane: last SSRC, last seq/ts, offsets, seq_reset, new_ssrc | reset, header_update, skew_compensate | the plugin relaying packets from several sources |
| Retransmit buffers, NACK window | `ice.h` component and stream | retransmit queue and seq table, `last_seqs_*`, `rtx_seq_number`, peer rtx SSRC and payload type | NACK lookup, rtx wrap, rtx unwrap (OSN) on receive | send and receive paths |
| Slow link and stats | `ice.h` `janus_ice_stats`, `janus_ice_stats_info` | NACK count per second, `last_slowlink_time`, `updated`, `notified_lastsec` | slow_link at most once a second, no-media notification | plugin, handle events |
| Auth store | `part_001` `auth.h` | tokens, per-token plugin permissions | add/remove token, allow/disallow plugin, check | signaling |
| Config container | `part_000` `config.h` | categories of items | add/remove category and item | startup |
| Transport | `part_001` `transport.h` | transport sessions | incoming_request, send_message, session_over | signaling |

The hard behaviours are in the handle. Five threads touch one handle:

- signaling;
- the plugin;
- the ICE/DTLS loop;
- the send worker;
- the watchdog.

The handle mutex makes each flag test-and-set atomic. Plugin callbacks are
invoked outside the mutex, so they can interleave with a hangup. The teardown
has two phases:

1. The hangup sets ALERT, STOP and CLEANING, queues the stop sentinel and invokes
   hangup_media.
2. The free runs a grace period later.

## Modules

- `JanusIceHandle`: one handle in answerer mode, with one action per handler.
  - The state is `webrtc_flags` as a set of flag names, `pending_trickles`, the
    candidates handed to the agent, the component state, `queued_packets` and
    the send worker's program counter.
  - It also keeps history variables for properties: the trickles received, the
    plugin callbacks invoked and the packets written.
  - `WebrtcHangup` is the shared first phase, which every hangup path calls.
  - setup_media and hangup_media are each two steps: `SetupMediaAlive` and
    `HangupMediaAlive` ask `janus_plugin_session_is_alive` (a stopped session
    gets no callback), and `SetupMedia` and `HangupMedia` invoke the callback
    later. A `janus_ice_handle_destroy` can fall between the two.
  - `PcState` maps the flags onto the abstract lifecycle.
- `JanusPeerConnection`: the abstract specification of what a handle promises.
  - A PeerConnection goes idle → negotiating → up. From any of these it is hung
    up, and then it is freed.
  - Media reaches the wire only while it is up, in relay order and never twice.
  - `JanusIceHandle` instantiates it with `pc <- PcState, wire <- sent` and
    checks it as the property `PeerConnectionRefinement`.
- `JanusRtpSwitching`: one lane of the switching context.
  - `HeaderUpdate` is `janus_rtp_header_update`, with seq and ts modulo
    `2^SeqBits` and `2^TsBits`.
  - Upstream, each source advances by gaps of 1..MaxGap.
  - The plugin may switch sources at any packet, and the forwarded source may
    restart its numbering (`seq_reset`).
  - `RelayCopy` is an rtx retransmission of an earlier packet of the forwarded
    source, re-presented under its base SSRC (spec 4.8). It may be a packet
    relayed before, or one lost upstream and asked for by a NACK. The core
    rewrites it like any packet. It is only in `SpecWithCopies`.
  - The ghost `lastFresh` holds the rewritten seq and ts of the last fresh
    packet, meaning one relayed as its source produced it.
- `JanusPluginSession`: the signaling side of one handle attached to a plugin.
  - The state is the session and transport being alive, the handle being in the
    session's table (`attached`), its `app_handle` (unset, set, or failed
    when create_session refused), `janus_plugin_session.stopped`, a pending
    `end_session`, per transaction the signaling thread's progress, the
    transactions the plugin's worker still owes an event, and history variables
    for the plugin sessions `create_session` made, the `destroy_session` calls
    and the messages the client received.
  - `Init` is the handle just made by `janus_ice_handle_create`.
    `AttachPlugin` is `janus_ice_handle_attach_plugin`. It runs
    `create_session`, which may refuse the session. The client knows the
    handle only once the attach succeeded, so its requests and its detach come
    after that. The transport and the session reaper can come before.
  - `IncomingRequest` is `handle_message` returning OK, OK_WAIT or ERROR (ERROR
    from the core itself once the handle is gone); `SendReply` turns the result
    into success, ack or error. `PushEvent` is the worker's `push_event`: the
    core accepts the event only for a live, not stopped plugin session.
    `NotifyEvent` later sends an accepted event through the transport, with no
    new check.
  - `DestroyHandle` is the shared teardown, a no-op if another path already
    removed the handle. It invokes `destroy_session` only when a plugin session
    is bound; `ClientDetach`, `ProcessEndSession`, `TransportGone`
    and `SessionTimeout` (session_over) all call it.
- `JanusConfig`: the INI configuration container of `config.h`.
  - The state is the uncategorized item list and the category list, kept as
    sequences in GList order, and a history variable `lastCall` naming the API
    call the last step made.
  - One action per call that changes the container: `AddCategory`,
    `RemoveCategory`, `AddItem` (creating the category, overwriting an item of
    the same name) and `RemoveItem`. The getters are first-match operators.
- `JanusConfigMap`: the abstract specification of the container, a map from
  category and name to a value, in which each step is tied to the call it
  stands for. `JanusConfig` instantiates it with the categories that exist and
  what `get_item_drilldown` returns for every pair, and checks it as
  `ConfigRefinement`.
- `JanusAuth`: the token authentication store of `auth.h`.
  - The state is the mode chosen by `janus_auth_init` (disabled, stored
    tokens, signed tokens), the stored tokens table, the allowed-plugins table,
    the signed tokens whose expiry has passed, and a history variable
    `lastCall` with the result of the last call.
  - One action per call: add/remove token, allow/disallow plugin, the two
    checks, deinit, and the expiry of a signed token. Two more actions are the
    plugin-facing callbacks `auth_is_signature_valid` and
    `auth_signature_contains` of `janus_callbacks`, which check a signature in
    the plugin's own realm. Each call holds the auth
    mutex throughout, so each is one step.
  - Signatures are abstracted to a fixed set of validly signed tokens, the
    realm each was signed for (`CoreRealm` or a plugin), and the descriptors
    it carries.
- `JanusAuthContract`: what the auth API promises, a set of live tokens, of
  (token, plugin) grants and of signed (token, realm) pairs, where each check
  answers from them. `JanusAuth`
  instantiates it and checks it as `AuthRefinement`.
- `JanusRtpCodec`: the RTP header, payload and header-extension parsers of
  `rtp.h`, as pure operators over byte sequences.
  - `ParseHeader` reads the fixed header with shifts and masks; `RtpPayload`
    skips the CSRCs and the extension block and drops padding, returning
    nothing when a length runs past the packet.
  - `FindExtension` selects the one-byte (0xBEDE) or two-byte (0x100x) form.
    The element walks (`FindOneByte`, `FindTwoByte`) follow RFC 5285 as the
    spec describes, because their code is in `rtp.c`, which is not in the
    repository.
  - `ParseAudioLevel`, `ParseVideoOrientation`, `ParsePlayoutDelay` and
    `ParseTransportWideCC` decode one element each.
  - `ParseRtpStreamId` copies the rtp-stream-id element into the caller's
    `sdes_item` buffer of `sdes_len` bytes and NUL-terminates it. An id that
    does not fit is cut to `sdes_len - 1` bytes.
  - A reference encoder (`Encode`) builds packets from small descriptions. The
    only variable is the packet chosen at Init.
- `JanusRetransmit`: the outbound retransmission side of one video lane of a
  component, and its slow-link statistics.
  - The state is the fields `ice.h` declares:
    - `video_retransmit_buffer` (FIFO) and `video_retransmit_seqs` (seq to
      packet);
    - `rtx_seq_number`, and each kept packet's `last_retransmit`
      (`janus_rtp_packet`, `rtp.h`), the 10 ms dedup;
    - `sl_nack_period_ts`, `sl_nack_recent_cnt` and `last_slowlink_time` of
      the outgoing stats.
  - Three history variables record the NACKs received (time and number of
    packets asked for), the retransmissions on the wire and the NACKs on which
    slow_link was called.
  - `SendPacket` keeps each sent packet, trimming to `nack_queue`.
    `ReceiveNack(pid, blp)` is one RTCP NACK. It counts towards slow link, then
    answers each requested sequence number in order (a fold of `Answer`).
  - The handlers are in `ice.c`, which is not in the repository, so their
    behaviour follows spec 4.4 and 4.9. Time counts in ticks of the 10 ms dedup
    period.
- `JanusNackWindow`: NACK generation for one inbound lane, over the
  `janus_seq_info` slot list `last_seqs_video`.
  - Each slot has `ts`, `seq` and `state` (`SEQ_MISSING`, `SEQ_NACKED`,
    `SEQ_GIVEUP`, `SEQ_RECVED`), plus a ghost field naming the peer's packet it
    stands for.
  - `Receive(p)` handles one packet. If it is ahead of the last slot modulo
    2^16, it fills the gap with MISSING slots (`Extend`) and recycles the oldest
    slots beyond `LAST_SEQS_MAX_LEN` (`Trim`). Otherwise it marks its slot
    RECVED (`RecordLate`).
  - `NackCheck` is the periodic check, once per tick. It NACKs slots MISSING for
    an RTT and gives up on slots NACKED for longer than the maximum.
  - The peer's packets may be lost or arrive up to `Reorder` late.
  - `PeerRetransmit(p)` is the peer answering a NACK under RFC 4588. It sends
    an rtx packet numbered by its own rtx counter that carries the OSN.
  - `ReceiveRtx(r)` is the receive path for an rtx packet: it is classified by
    `video_ssrc_peer_rtx` and the rtx payload type, and `Unwrap` presents it
    under its OSN (spec 4.8). Then it goes through the same `Update` as a media
    packet. The rtx path may lose, duplicate or delay its packets, but never
    by half the sequence space.
  - The stats update (`MediaArrived`) of either path records the packet's
    time (`updated`) and clears `notified_lastsec`, which tells the handle
    that media is flowing.
  - `NoMediaCheck` is the periodic no-media check. Once media has arrived, if
    none came for `no_media_timer`, it tells the handle once that media
    stopped. It never hangs up (spec 3).
  - As with the retransmit side, the handlers are in `ice.c`, so they follow
    spec 4.4 and 4.8.
- `JanusSkew`: the skew compensator of one lane of the switching context
  (`janus_rtp_skew_compensate_audio/_video`) and the plugin that relays
  through it.
  - The state is the context's skew fields (`new_ssrc`, `start_time`,
    `reference_time`, `start_ts`, `prev_ts`, `prev_delay`, `active_delay`,
    `seq_offset`), the sender's packet count, clock drift and current source,
    and the caller's count of packets still to drop.
  - `Compensate` is one call: it restarts the warm-up on the first packet and
    on a new SSRC (`Restarts`), returns 0 until the warm-up is over, captures
    the reference pair on the next packet, and from then on smooths
    `now - (t0 + (ts - ts0) / rate)` into `prev_delay` (`Smoothed`). When the
    smoothed delay is more than the threshold past `active_delay`, it jumps or
    drops N packets' worth (`Packets`, N from the timestamp step).
  - `Relay(spike)` is one packet reaching the plugin: compensate, then drop it
    if told to or still owing drops (`DropCredit`), else relay it with
    `seq + seq_offset`. `SwitchSource` is the plugin moving the lane to another
    source, which sets `new_ssrc`.
  - Arithmetic is C's: integer division truncates towards zero (`CDiv`), and
    timestamp differences are taken modulo the timestamp width.
  - `rtp.c` is not in the repository, so the algorithm follows spec 4.3 over the
    fields, thresholds and return contract `rtp.h` declares. The smoothing weight
    is not given anywhere, so it is a constant (`Smooth`).
- The `MC_` modules give the constants model values for TLC.

## Runs

| Run | Checks | Shows |
|---|---|---|
| `ice_handle` (`JanusIceHandle.cfg`) | `TypeOK`, `TrickleDelivery`, `AllTricklesComplete`, `HangupMediaOnce`, `HangupCompletes`, `PeerConnectionRefinement` | See below. |
| `ice_setup_after_hangup` (`JanusIceHandle_setup.cfg`) | `NoSetupAfterHangup` | **Violated.** Scenario below. |
| `rtp_rewrite` (`JanusRtpSwitching.cfg`) | `TypeOK`, `RewriteContinuity` | See below. |
| `rtp_rewrite_rtx_then_switch` (`JanusRtpSwitching_rtx.cfg`) | `RewriteContinuity` | **Violated.** Scenario below. |
| `plugin_session` (`JanusPluginSession.cfg`) | `TypeOK`, `DestroySessionMatchesCreate`, `EndSessionHonoured` | See below. |
| `auth` (`JanusAuth.cfg`) | `TypeOK`, `AuthRefinement` | See below. |
| `config` (`JanusConfig.cfg`) | `TypeOK`, `UniqueNames`, `ConfigRefinement` | See below. |
| `rtp_codec` (`JanusRtpCodec.cfg`) | `TypeOK`, `PayloadLocation`, `ExtensionRoundTrip`, `RidFits` | See below. |
| `nack_window` (`JanusNackWindow.cfg`) | `TypeOK`, `LossDetected`, `SlotsTruthful`, `NackOnce`, `LossNacked`, `NoMediaTruthful`, `NoMediaReported` | See below. |
| `skew` (`JanusSkew.cfg`) | `TypeOK`, `WarmupSilent`, `OutputAccountsForJumps`, `DriftCompensated` | See below. |
| `skew_spike_at_capture` (`JanusSkew_spike.cfg`) | `NoFalsePositive` | **Violated.** Scenario below. |
| `retransmit` (`JanusRetransmit.cfg`) | `TypeOK`, `RtxConsecutive`, `SlowLinkJustified`, `RetransmitFaithful` | See below. |

The `ice_handle` run shows that, across all interleavings:

- trickles racing the offer are neither lost nor reordered;
- ALL_TRICKLES never runs ahead of a candidate still pending;
- hangup_media is invoked once, whichever thread hangs up;
- every hangup ends with hangup_media dealt with, the send worker exited and the
  resources freed;
- the handle refines the abstract PeerConnection.

In `ice_setup_after_hangup`, DTLS completes, the plugin calls close_pc, and
hangup_media is delivered before setup_media. `janus_plugin_session_is_alive` is
the only gate, and it is still true at that point.

The `rtp_rewrite` run shows that switching between two sources and restarting
sequences never make the rewritten seq step back or repeat, nor the ts go back,
across the wrap.

`rtp_rewrite_rtx_then_switch` runs the same model with rtx copies
(`SpecWithCopies`). TLC finds a three-step trace:

1. source s1's packet goes out as seq 1;
2. an rtx copy of its predecessor goes out as seq 0, and `last_seq` is now 0;
3. the plugin switches to s2, whose first packet is given `last_seq + 1`, so it
   goes out as seq 1 a second time.

Spec 4.2 records `last_seq` for every packet rewritten and bases the switch
offset on it. Nothing in the spec or `rtp.h` says copies leave it alone, so a
receiver can get the same sequence number for two different packets.

The `plugin_session` run shows that, whichever of the client's detach, the
plugin's end_session, transport_gone and the session reaper comes first, with
requests in flight, and before or after the attach, `destroy_session` runs only
for a plugin session `create_session` made, at most once, and by the time the
handle has left the session it has run for it; and that end_session is always
honoured.

The `auth` run shows that, whatever the mode and the order of admin calls,
every check answers as the contract says: a token that is removed and added
again starts with no plugins, an expired signed token is refused, and a
signature made for one realm opens nothing in another: not in the core, and not
in another plugin.

The `config` run shows that no sequence of calls creates two categories, or two
items in one list, of the same name, and that the container implements the
abstract map: after `add_item(c, n, v)` the lookup returns v, after a removal it
returns NULL, and no call changes another lookup.

The `rtp_codec` run checks every packet of the bounded set. Packets cover
CSRCs, padding, truncation, both extension forms, padding bytes between
elements, repeated ids and the id-15 terminator. For each one the parser reads
back what the encoder wrote (spec I3): the payload starts and ends where the
encoder put it, and each extension parser returns the first element of its id,
or fails when none is reachable. The rtp-stream-id helper leaves a
NUL-terminated id in the caller's buffer, never longer than the buffer: the
whole id if it fits, otherwise its longest prefix that does.

The `retransmit` run checks sends past `nack_queue`, sequence numbers and
`rtx_seq_number` wrapping, and NACK bitmasks that repeat requests within one
period and across periods. It shows three things:

- every retransmission is the packet sent under the requested sequence number
  and still kept (spec I2);
- under RFC 4588 the rtx packets are numbered consecutively modulo 2^16, with
  no gap left by a skipped request;
- slow_link is called only when the NACKs received since the previous call and
  within the last second asked for at least the threshold of packets: the
  count restarts when a window is over, however long the lane was idle.

The `nack_window` run covers losses, late packets, sequence-number wrap, slot
recycling, and rtx retransmissions that are lost, duplicated, or arrive after
the original or after their slot was given up on. It shows six things:

- every packet lost between the oldest slot and the newest packet has a slot
  under its own sequence number;
- a slot is RECVED exactly when its packet arrived, including a packet that
  arrives after its NACK, directly or as an rtx packet unwrapped to its OSN;
- each lost packet is NACKed at most once, and never after it has arrived;
- a slot MISSING for an RTT is eventually NACKed, unless its packet arrives
  first or the slot is recycled;
- the handle is told media stopped only while no packet (media or rtx) has
  come for `no_media_timer`, and a packet after the notification withdraws it;
- a lane silent for `no_media_timer` is eventually reported.

The `skew` run covers senders whose clocks run 2 ms per packet late, on time or
early, one jitter spike, and one SSRC switch during or after the warm-up. It
shows three things:

- the compensator returns 0 for the warm-up of every source, including a source
  switched to after the previous one's warm-up ended (spec I4);
- the relayed sequence numbers advance by one per relayed packet plus every N
  the compensator jumped: the N of a -N and the packets the caller drops agree;
- a late sender is eventually compensated with a jump and an early one with a
  drop (spec scenario 4).

In `skew_spike_at_capture`, the sender's clock runs exactly at ours, but the
packet that becomes the reference pair at the end of the warm-up is held up
100 ms, and the packets behind it arrive bunched. Every later packet then looks
100 ms early. The smoothed delay passes -40 ms within a few dozen packets, and
the compensator returns -2, so the caller drops packets of a perfect sender.
Spec 4.3 says the warm-up prevents false positives, but nothing re-validates the
one-packet reference.

Every property of a passing run has a mutant in `PROJECT.json`: a variant of one
mapped action, as a plausible bug would write it, that TLC finds breaking that
property.

## Bounds and why they suffice

- `JanusIceHandle`:
  - Two candidates plus the end-of-candidates marker. This gives the cases where
    EOC arrives before or after a candidate and before or after the answer.
  - Two relayed packets. One packet can be in flight when the hangup comes while
    another is queued behind it.
  - A grace of one tick. More ticks only add stutter steps.
  - All actions fire. The state space is about 53 thousand states.
- `JanusRtpSwitching`:
  - 3-bit seq and ts, so that a wrap happens within a few packets from any start.
  - Two sources. A switch can go back to a source that advanced while another
    was forwarded.
  - Gaps of 1 or 2, timestamp steps of 0 or 1, a switch jump of 1 or 2, and four
    relayed packets.
  - The sources start from a common arbitrary position. Offsets absorb the
    difference, and the sources drift apart as they run.
  - About 4 million states, in about two minutes.
  - With copies, a copy is 1 or 2 packets and 0 or 1 ticks behind the source's
    last packet.

- `JanusPluginSession`: three transactions. One request can be acked while
  another is in flight and a third is owed an event when the teardown comes.
  All ten actions fire, in about 1.7 million states.
- `JanusAuth`: three tokens and two plugins. One token is signed for the core
  and names p1, one is signed for p1's realm, and one is unsigned. Every mode
  is an initial state. There are about 5 thousand states, covering a
  token removed and re-added, with the allow calls before and after.
- `JanusConfig`: two categories, two item names and two values. These cover an
  overwrite, the same name in two lists, and a category removed and added again.
  The state space is finite because names stay unique: about 38 thousand
  states, in under two minutes because of the refinement mapping.

- `JanusRtpCodec`: extension ids 1, 3, 4, 5 and 6 and up to three elements
  per block, in either form, with and without CSRCs, padding and truncation.
  The rtp-stream-id is two bytes long and is read into buffers of one, two
  and three bytes: it is cut to nothing, cut to one byte, and fits exactly.
  It appears only in one-byte blocks, where browsers send it. There are
  about 20 thousand packets. Three elements are enough for a duplicate id
  behind another element and for padding between elements. The
  transport-wide sequence number takes one value, 258, whose two bytes
  differ; the byte-order check needs no more.
- `JanusRetransmit`:
  - 2-bit sequence and rtx numbers, and a FIFO of two. The third packet trims
    the first, the fourth is sent as sequence number 0 after the wrap, and
    rtx numbering wraps from any start.
  - NACK bitmasks of two bits, so that one NACK asks for up to three packets.
  - Three NACKs over five ticks, with a one-tick window and a threshold of two.
    This gives two slow_link calls a window apart, a count that goes stale
    over an idle tick, and repeated NACKs within and across ticks.
  - The clock starts before or after the first second, as the stats
    timestamps start at 0.
  - About 2.7 million states, in under a minute.

- `JanusNackWindow`:
  - 3-bit sequence numbers and nine packets, so the sequence numbers wrap.
  - A window of three slots, so that a gap fill recycles slots.
  - Packets up to one position late.
  - An RTT of one tick and a give-up time of two. A NACKED slot survives one
    more check before it is given up on.
  - Four ticks, so that a slot can be NACKed and then given up on.
  - One rtx retransmission, which the network may deliver twice. Its rtx
    sequence number is 0, which is the OSN only of packet 8, so a receive
    path that skipped the unwrap would mark the wrong slot.
  - A `no_media_timer` of two ticks, so silence is reported inside the
    bound.
  - About 520 thousand states, in under two minutes.

- `JanusSkew`:
  - 48 kHz audio in 20 ms packets against the real 40 ms threshold.
  - The 15 s warm-up is scaled to 400 ms (20 packets), so that a switch by
    packet 30 falls both inside and after it.
  - A smoothing weight of 32, and a 100 ms spike, enough to bias a reference.
  - 180 packets, enough for the slowest case (a switch at packet 29, then a
    spike at the capture) to converge. With fewer, `DriftCompensated` fails
    only because the run ends first.
  - Timestamps are 24-bit because TLC's integers are 32-bit; no timestamp of
    the run comes near the wrap, which the rewrite run covers.
  - About 87 thousand states, in under a minute.

## Fairness

Weak fairness is assumed only for the core's own threads:

- the ICE loop and the hanging-up thread finishing a notification they
  started (`SetupMediaAlive`, `SetupMedia`, `HangupMediaAlive`,
  `HangupMedia`);
- the send worker (`SendPop`, `SendWrite`);
- the watchdog (`WatchdogTick`, `WebrtcFree`).

No fairness is assumed for the client, the plugin or the network, which may stop
at any time. For the same reason the handle runs use `CHECK_DEADLOCK FALSE`: a
handle whose client stops talking, or whose resources have been freed,
legitimately takes no more steps. The rewrite has no liveness property.

In `JanusPluginSession`, weak fairness is on the signaling thread sending the
reply of the request it handles (`SendReply`) and on the core acting on
end_session (`ProcessEndSession`). The client, the transport and the plugin's
worker get none. Deadlock is not checked because a torn-down handle takes no
more steps. `JanusAuth` needs no fairness: each call is atomic under its mutex, and the
properties are safety. `JanusConfig` is a single-threaded container with no liveness
property, and every call is always enabled. `JanusRtpCodec` has no steps.
`JanusRetransmit` states only safety properties. Its lane never stops; the only
states without a successor are those where the packet, NACK and tick bounds are
used up, so its cfg turns off the deadlock check. The same holds for
`JanusNackWindow`, whose peer may stop sending at any time. There, weak
fairness is assumed only for `NackCheck` and `NoMediaCheck`, the periodic
checks that timers of the ICE loop run. They are what `LossNacked` and
`NoMediaReported` rely on. A slot becomes due only after a tick, and a tick
re-enables the check, so the clock bound never hides a due slot from it. The
peer's retransmissions and the rtx network get no fairness: they may be lost.

`JanusSkew` assumes weak fairness of `Relay(FALSE)`: the scenario is a sender
that keeps sending, and `DriftCompensated` is about such a sender. Switches and
spikes get no fairness. The run ends when the sender has sent its packets, so
deadlock is not checked.

## Not modelled

- What a callback after destroy, or an event after the detach, does:
  - the models take each `janus_plugin_session_is_alive` check and the call
    it guards as two steps, so TLC reaches setup_media or hangup_media after
    destroy_session, and an event accepted by push_event reaching the client
    after the detached notice;
  - whether either is harmful depends on how `ice.c`, `janus.c` and each
    plugin keep the plugin session referenced and which locks they hold,
    none of which is in the repository, so no run claims either outcome.
- ICE restart and the resending of trickles (`janus_ice_restart`,
  `janus_ice_resend_trickles`, the `ICE_RESTART` and `RESEND_TRICKLES` flags):
  - they are only declared in `ice.h`, and spec 4.6 gives them one sentence;
  - neither says which local candidates the new SDP carries and which are
    trickled again, which is what a property would be about.

  Offerer mode and renegotiation are left out with them.
- Transport-wide CC sequence cycles:
  - `ice.h` holds only the counters;
  - the rule that detects a wrap is in `ice.c`, and the spec does not state it.
- The audio and simulcast copies of the NACK structures, which run the
  modelled code on other fields.
- A transport's own sessions, the admin API and the API secret checks.
- The SDP extmap helpers (`janus_rtp_header_extension_get_id` and
  `_get_from_id`). They are a substring search over SDP text, in `rtp.c`,
  which is not in the repository.
- The global ICE settings (`janus_ice_init`, the STUN/TURN setters, the
  enforce and ignore lists, `nack_queue` and the timers). Each setter only
  stores its argument, and the modules take these values as constants.
- The logger:
  - `log.c` is not in the repository, and the spec treats the logger as an
    external collaborator;
  - `log.h` only says that output is buffered in reused buffers and printed by
    a thread to stdout and/or a file, so a model would be a design of our own.
- The order between the ack of an OK_WAIT request and the plugin's
  push_event for it:
  - the headers give only handle_message's result type and push_event's
    signature;
  - the core's sending of the ack is in `janus.c` and the client's handling of
    the order is in the client library, and neither is in the repository.
  - `JanusPluginSession` delivers both to the client but no run checks their
    order.

Config file parsing and saving are file I/O around the container's calls.
`Makefile.am` has no behaviour. SDP, JSON and SRTP are data handled by
libraries and are abstracted to model values.
