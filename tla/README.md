# TLA+ models of the xCloud client for the RG353PS

This directory specifies the parts of the client whose correctness depends on
the order in which packets, threads, timers, presses and failures happen. TLC
checks the specifications on small instances; TLAPS proves the most important
safety properties for every value of the constants. `PROJECT.json` lists the
runs, the mutants that show each property can fail, the source lines behind
every definition, the hazards and the theorems.

Running them: `tlc -config jitter.cfg MCVideoJitter.tla`, and likewise for each
run of `PROJECT.json`; `tlapm VideoJitterProofs.tla`, and likewise for each
`*Proofs` module (`ClientProofs` takes about twenty minutes, the others a few). Sequences, sets and functions come from the community modules
`SequencesExt`, `FiniteSetsExt` and `Functions`.

## 1. The system

A handheld plays a game that runs on a remote console. It signs in, allocates a
session over HTTPS (GSSV), signals a WebRTC peer (libpeer, vendored), receives
H.264 and Opus over RTP, decodes and shows them, and sends the pad over a data
channel. The program's own code is `src/src/` (about 14,700 lines of
implementation).

| Part (source below `src/src/`) | State it keeps | Operations | Interacts with |
|---|---|---|---|
| Video jitter buffer `media/video_jitter` | pending frames by timestamp, last timestamp consumed, keyframe gate, sequence tracking, statistics | `receive`, `reset`, `report_stats` | called by the engine's worker from libpeer's video callback; emits access units and NACKs |
| Engine session worker `net/engine` | engine state, attempt, resume window, watchdog stamps, peer | `start`, `stop`, `worker`, `run_peer`, `rearm_for_resume`, `note_decoded_frame`, channel callbacks | HTTP client, GSSV session, libpeer, presenter, keepalive thread |
| Engine video queue and keyframe requests `net/engine` | bounded queue of access units, request throttle | `on_video`, `take_access_unit`, `request_keyframe_locked` | jitter buffer, decode thread |
| Engine input channel `net/engine`, `gnx/xcloud_protocol` | latest pad, back-off, input sequence number | `set_pad`, `send_gamepad`, handshake | input thread, worker, data channel |
| Congestion estimate (REMB) `net/engine` | advertised rate, loss and clean timers | once a second in `run_peer` | jitter and audio statistics |
| Video pipeline, decoder `media/video_pipeline`, `decoder.c` | decoded frames, wake generation, reserve | `start`, `stop`, `notify`, decode thread, `pick` | engine queue, presenter |
| Audio `media/audio_jitter`, `audio_player` | inbox, reorder buffer, ring, servo | `submit`, `resync`, `thread_main`, `init`, `shutdown` | worker, ALSA |
| Recorder `media/au_recorder` | bounded queue | `push`, `close` | worker, writer thread |
| Presenter `app/stream`, `present` | video mode, pacing | `run_session`, `present_tick`, input thread | engine state, pipeline, display, pad, overlay |
| Display output `video/drm_output` | buffers, commit sequence, pending flip, fit of the picture | commit, `wait_for_flip`, flip handler, `set_source`, `letterbox` | kernel |
| GSSV client `gnx/session` | session path, server state | start, poll, connect, SDP, ICE, keepalive, stop, clean-up | worker, keepalive thread |
| Sign-in `gnx/auth`, `app/ui` | refresh token in memory and on disk | device code, credential chain, log out | main thread, session, background refresh |
| Options `app/options` | settings on disk, in the menu, staged and in force | load, flags, capture, page, overlay, commit, save | main thread, input thread |
| Names and art `app/library_data`, `thumbs` | job queues, caches | request, worker, destructor | library screen |
| Pad `input/evdev_pad` | buttons, latched presses, auto-repeat, script | poll, take press, repeat | input thread, menus |
| Library and menus `app/library`, `main`, `ui` | list, rows, focus, scroll, filters, search | one turn after the other | caches, catalogue refresh |
| Text, screen, NV12, Wi-Fi tuning, shims | none that lasts | pure data or pure I/O | |

What makes it hard:

- **The network** loses, repeats and reorders; sequence numbers and timestamps
  wrap; a retransmit may arrive after its frame was given up.
- **One worker thread** pumps the sockets and runs every callback, while the
  presenter, the decode thread, the audio thread, the input thread and the
  keepalive thread read and write the same atomics, mostly as test-then-set.
- **Timers** guard each other: hold, repeat NACK, dead path, negotiation,
  silence, frozen picture, stalled pump, keyframe back-off.
- **Transports die under a living session.** The worker resumes on the same
  session, retries with a fresh one, wakes a console, or gives up, and what one
  transport left behind must not be used to judge the next.
- **Bounded buffers** everywhere: frames, queued units, decoded frames, inbox,
  jobs; each has its own policy when it is full.
- **Power cuts** while tokens, options and caches are rewritten.

What makes each part correct, in one line each: the jitter buffer feeds the
decoder in order and never past a loss without an IDR; the session worker holds
at most one session and one peer, judges a transport only by its own stamps,
always ends with a verdict and always ends when told to; the delivery queue
never feeds a P-frame whose reference it dropped, without a request for an IDR
pending; input sequence numbers have no gap; audio leaves the reorder buffer in
order and a loss is declared once; background threads can always be joined; a
flip is credited to its own commit; a stored token is always the old or the new.

## 2. The modules

| Module | What it is |
|---|---|
| `KeyframeGate` | abstract: what the decoder may be fed |
| `VideoJitter` | the jitter buffer; implements `KeyframeGate` |
| `EngineSession` | worker, keepalive thread and presenter of one stream after the other |
| `VideoDelivery` | queue of access units, keyframe requests, decode thread |
| `FramePicker` | which decoded frame a refresh shows |
| `PictureFit` | crop, pan and destination of the picture |
| `DrmOutput` | framebuffers, commits, flip events and change of size |
| `InputChannel` | the pad on its way to the server |
| `AudioPath` | inbox, reorder buffer, ring and card of the sound |
| `SignIn` | device code, credential chains, `tokens.json`, log out |
| `NameCache` | names and genres: request, worker, cache file, loading screen |
| `ArtCache` | box art: request, worker, memory budget, files |
| `Ordering` | sets as sequences, and parts of sequences, in an order; used by the next two |
| `LibraryScreen` | the list, its filters, the cursor and what arrives under it |
| `Options` | the settings in the file, the menus and in force |
| `PadOverlay` | buttons, latches and layouts under the menus and the in-stream overlay |
| `PadScript` | scripted presses and auto-repeat |
| `MCVideoJitter`, `MCEngineSession` | a stream of packets and limits for TLC |
| `MCStream` | composes `InputChannel`, `FramePicker`, `PictureFit`, `DrmOutput` |
| `MCClient` | composes `SignIn`, `AudioPath`, `NameCache`, `ArtCache`, `LibraryScreen`, `Options`, `PadOverlay`, `PadScript` |
| `*Proofs` | theorems about `VideoJitter`, `EngineSession`, `VideoDelivery`, `DrmOutput`, `AudioPath`, `LibraryScreen`; `StreamProofs` and `ClientProofs` about the composites and the rest of their parts |

The two composites put parts side by side that do not interact with each other
while they run, and an initial state picks the part that moves (`part`). They
save a configuration per part; they show nothing about an interaction. What one
part does to another is in the part that suffers it, as an action of the other:
the jitter buffer's gate in `VideoDelivery`, the presenter's lock in
`InputChannel`, a change of layout in `PadOverlay`, the session's use of the
account in `SignIn`, the workers' results in `LibraryScreen`.

Throughout, a stamp of the code is an age that saturates past the limit it is
compared with, or the time left to a deadline; the network, the user, the kernel
and the card are actions that may happen at any time unless a sentence below
says otherwise; a write to disk succeeds, fails, or fails unnoticed at close;
history variables are marked as such and read by properties only.

### VideoJitter

| Model | Code (`media/video_jitter.cpp`) |
|---|---|
| `frames`, `lastTs`, `waitingKeyframe` | `frames_`, `last_ts_`, `waiting_keyframe_` |
| `IgnorePacket`, `OpenFrame`, `JoinFrame` | the three ways through lines 280-290, `find_or_create()` included |
| `EmitFront`, `DiscardFront`, `RenackFront`, `GiveUpFront`, `EndDrain` | one iteration of the drain loop each (292-370) |
| `Reset` | `reset()` |
| `Tick` | time between two calls |
| `emitted`, `skipped`, `orderly` | history, read by properties only |

`pc = "drain"` keeps everything else out while the loop runs, as the single
network thread does. Arrival times become ages, saturated just past the longer
of the two limits they are compared with. The network is an environment action:
any packet of the stream, at any time, any number of times, or never. Packets
keep sequence number, timestamp, partition head, marker, IDR and padding; their
bytes, and the two-megabyte limit on an access unit, are left out.

Three assumptions are stated as such. `ConstantsAssumption` types the constants.
`NumbersAssumption` says that the packets of one frame, padding aside, have different
sequence numbers: a frame of 65,536 packets does not exist.
`StampsAssumption` says that the timestamps alive at one time lie within half the
serial-number circle (6.6 hours of a 90 kHz clock), where RFC 1982 comparison is
a strict linear order.

`KeyframeGate` says what the header promises: units go out in strictly ascending
timestamp order, and after any loss nothing passes until an IDR. The mapping is
`last = lastTs`, `open = ~waitingKeyframe`, `fed` = the emitted units without
their packets.

### EngineSession

| Model | Code |
|---|---|
| `worker` | where `worker()` and `run_peer()` are: sign-in, request, poll, peer, signal, pump, returned, retry, error, timeout, back-off, done |
| `state`, `quit`, `resuming`, `reconnectRequested`, `serverEnded`, `gotFrame`, `handshakeDone`, `link`, `channels` | the engine's atomics (`channels` also remembers that the greeting was sent) |
| `attempt`, `session`, `polls`, `resumes`, `window`, `iceAge`, `negotiation`, `stallReported` | locals of `worker()`, `run_peer()` and the keepalive thread |
| `media`, `decode`, `tick` | `last_media_ticks_`, `last_decode_ticks_`, `worker_tick_` as an age and a history bit: was it taken on the present transport? |
| `piped` | decoded frames the presenter has not shown, by transport |
| `ui` | `run_session()`, with two stops inside `note_decoded_frame()` |
| `owed`, `peers` | history: sessions never asked to stop, peers never destroyed |

`Verdict` is the order of tests in one turn of the pump; `Turn`, `PumpFails`,
`PumpEnds`, `PumpGivesUp` and `PumpQuits` are the ways a turn can go on.
libpeer's callbacks are actions of the pump, since they run inside it.
`note_decoded_frame()` is three steps, because the worker runs in between.
`rearm_for_resume()` is one step: whatever the presenter could do between two of
its stores has the same outcome as doing it before the first or after the last.

Left out: status texts; `connect()` (its success changes nothing the client
keeps, its failure is `WorkerThrows`); the five-second decode resync (it resets
the jitter buffer, and no session state); the suspend guard of the keepalive
watch; what the callbacks do to video, audio and input.
Environment assumptions: a session does not go back to an earlier state while
it is being polled, and no RTP arrives before the SCTP association is up.

### VideoDelivery and FramePicker

| Model | Code (`net/engine.cpp`, `media/video_pipeline.cpp`) |
|---|---|
| `queue`, `Emit`, `Enqueue` | `video_queue_`, `on_video()` with its overflow |
| `waiting`, `sinceReq`, `backoff`, `RequestKeyframe` | the gate of the jitter buffer, `last_keyframe_req_`, `pli_backoff_ms_`, `request_keyframe_locked()` |
| `PumpAsks`, `DecodeStalled`, `PresenterAsks`, `Rearm` | who asks, and what a resume clears |
| `BumpGeneration`, `NotifyOne`; `DecodeLoopTop` to `WaitTimesOut` | `notify()`; the loop's reading of `wake_gen_`, `take_access_unit()`, the test under the mutex, the wait |
| `SendAccepted`, `SendAgain`, `SendRefused`, `Receive`, `Drained` | `decoder_send()`, `decoder_receive()` and EAGAIN |
| `Stop` | `stop()`: `quit_` and a notification, neither under the mutex |
| `FramePicker!Pick`, `Refresh`, `Flush` | `pick()`, one call per refresh, with what was decoded meanwhile |

The worker stands at four places in `on_video()` and the decode thread at six of
its loop, since the lost wake-up and the overflow both live between two of them.
The jitter buffer appears as its abstract self. A unit is a number, an IDR flag
and whether an overflow dropped its predecessor. The wait is bounded in
the code (`wait_for` with 4 ms), so a lost wake-up would cost latency and never a
hang; `NoSleepOnUnit` says there is none.

### DrmOutput and PictureFit

`DrmOutput` has the presenter at each point of `drm_out_flip()`, `wait_for_flip()`,
`drm_out_recommit()` and `drm_out_set_source()`, and the kernel as actions: it
latches a commit, answers with an event, delays or never delivers it, or refuses
the commit. A commit's `commit_seq` is kept as one bit: is it the one waited
for? `gaveUp` remembers that a wait ended without its flip; until an own flip is
seen again the code itself draws with no guarantee, and so do the properties.
`PictureFit` is `prepare_frame()`, `drm_out_fit()` and `letterbox()` as functions of
frame size, fill and pan, in C's integers.

### InputChannel

The worker's turn is `pump`, `pad`, `stats`. `PadSkipped`, `PadDropped`, `PadSent`
and `PadRefused` are the ends of `send_gamepad()`; `SecondOver` and `ChannelDead` are
the once-a-second detector; `Rearm` is what a resume resets and, more to the
point, what it does not: the serialiser, the last pad and the back-off survive.
`HandshakeAck` takes a number for `client_metadata` whether or not SCTP takes the
packet. The presenter's hold of `peer_mutex_` is the eight-millisecond `try_lock_for`.

### AudioPath

`inbox` is bounded and drops its oldest packet; `pending`, a set since the code
keeps it sorted by number, and `next` are
`AudioJitterBuffer`, in numbers modulo `Serial`; a turn of `thread_main()` is split
between its take from the inbox and the rest, since `resync()` and `submit()` fall
in between. `skew` counts packets of sound made (decoded, concealed, dropped) less
numbers passed. The card plays, runs dry, is lost and may come back. Opus, the
rate servo and the volume are left out.

### SignIn

A chain is what `XboxAuth` does on behalf of one thread: the token request, the
write of the temporary file, the rename, the rest. Every step may fail; the
process may be killed between any two. The main thread is on one screen at a
time and the refresh thread runs beside the library only.

### NameCache and ArtCache

Both keep the worker's states (checked, blocked, fetching, recording, saving) and
the main thread's calls, over several launches: what survives is the file. In
`NameCache` the worker's predicate and its sleep are separate steps with the mutex
held, `request()` queues under the mutex and counts after it (`owed`), and quitting
sets its flag without the mutex. A day is a step, an age saturates at the longer of the two limits.
`ArtCache` counts memory in pictures and idle time in repaints.

### LibraryScreen

The rows are a function of model and view (`BuiltRows`); the code keeps them as a
separate vector that each handler has to rebuild, and so does the model. A turn
takes what the workers have and then handles one button, two in the search
picker, where the pair matters. Titles are three, with a raw and a Store name
that sort differently. `loose` names the two places where the code itself lets
rows and cursor disagree, each with its line. Drawing, the cells of the picker
and the screens of the tools are left out.

A fresh catalogue may be shorter than the list it replaces, or empty. `pump_refresh()`
swaps it in (`library.cpp:1002`) before `resort()` looks up the cursor's title through
`selected()`, which indexes the new vector with a row of the old one (745-751): past
its end that is undefined. The model lets it come out as any title of the fresh list,
as none (`TitlesRead`), or as the end of the process, since a `std::string` is copied
from there (`RefreshCrashes`, `LaunchCrashes`; `pc = "crashed"`). Nothing is claimed of a crashed
screen but that it stays so.

### Options, PadOverlay and PadScript

`Options` is the flow of one setting through its four copies; the rows kept are a
constant. `PadOverlay` is `pad_poll()` with its layout, latches and repeat, under the
thread that owns the pad: the menus, or the input thread with the overlay open or
closed. The kernel's events between two polls are a sequence of up to `QueueCap`, of
which the kernel may have dropped the first ones because nobody polled: evdev then
says `SYN_DROPPED`, which the read loop passes over (`EventDropped`). `stuck` remembers
the functions left down without their button, by a dropped release or a change of layout.
`PadScript` is the scripted presses and `pad_repeat()` against the clock. How late a
turn of the loop may be is a bound (`Lateness`) and no assumption: it may exceed the gap
between two taps, and `away` remembers whether it did.

## 3. The runs

| Run | Property | What it shows |
|---|---|---|
| `jitter` | `TypeOK` | types and the capacity `kMaxFrames` |
| | `BufferOrdered` | the deque stays sorted and newer than anything consumed, for every arrival order |
| | `GateAfterLoss` | between a frame consumed without being emitted and any later emitted one lies an emitted IDR |
| | `EmittedWhole` | an emitted unit is all that was sent of its frame from one of its partition heads to its marker, in a stream with a frame of one partition, of three (SPS, PPS, IDR) and of fragments |
| | `NoCompleteFrameWaits` | no complete frame is left at the front when a call returns, early returns included |
| | `NoBrokenReference` | as long as each frame reached the buffer before a later one did, a P-frame follows its own predecessor |
| | `GateSpec` | refinement of `KeyframeGate` |
| `engine` | `TypeOK` | types; at most one session owed and one peer alive |
| | `OneOfEach` | a session is requested, and a peer created, only when the last one was given back, over restarts as well |
| | `StampsOfThisTransport` | the media and pump watchdogs never use a stamp of a replaced transport |
| | `WorkerLeavesVerdict` | every return of the worker other than on quit leaves `Failed` or `Stopped` |
| | `StopReturns` | `stop()` ends from every point of the worker |
| | `DeadLinkEndsStream` | if no transport comes up any more, the stream ends by itself |
| `delivery` | `TypeOK` | the queue stays within its capacity, the throttle within its limits |
| | `NoSleepOnUnit` | the decode thread never sleeps on a unit nobody is about to announce |
| | `ChainKept` | only an overflow or a refusal by libavcodec leaves a unit without its reference |
| | `KeyframeWanted` | a closed gate asks again, at the latest after the longest back-off |
| | `DecoderStops` | `stop()` can join the decode thread from every point of its loop |
| `stream` | `PartsTypeOK` | types of the four parts |
| | `NoGapButHandshake` | the numbers SCTP accepts are consecutive over refusals, drops, resumes and the wrap, but for refused handshake sends |
| | `PadArrives` | a pad state the player holds reaches the server, in spite of idle suppression and back-off |
| | `DeadChannelNoticed` | an association that drains nothing any more is replaced |
| | `CatchUp` | a refresh that drops frames shows one, leaves less than a stall's worth, and is late only with nothing to drop |
| | `PictureFits` | the plane reads inside its source and paints inside the panel, for every size and pan; a halved frame is shown dot for dot |
| | `NoTear` | the buffer being filled is neither on screen nor on its way there |
| | `PlaneSteps` | the plane is not left empty by a change of size, and a held refresh repeats the picture on screen |
| `client` | `PartsTypeOK` | types of the eight parts |
| | `SoundKept` | one packet of sound for every number passed; bounded latency |
| | `NewStreamHeard` | no packet of an old RTP source makes the reorder buffer turn the new one away |
| | `LookupsAccounted` | the loading counter is what is queued and in flight; nothing is looked up twice |
| | `ArtAccounted` | a picture asked for is in one place; `bytes_` is the memory in use |
| | `KeptSignedIn` | a stored token stays over failures, kills and relaunches |
| | `AuthNotShared` | no two threads are ever inside the unlocked `XboxAuth` |
| | `CursorSound` | rows, cursor and scroll agree whichever lists arrive under them, wherever reading past a shorter one does not end the process |
| | `CursorSteps` | names that re-sort the list keep the cursor's title; an empty search returns to its row |
| | `FileIsWhole` | a kill never leaves a torn options file |
| | `MenuShowsForceOrRewritten` | the menu shows what is in force, but for fields a launch could not read back |
| | `DiscardedStaysDiscarded` | no commit applies what an earlier menu staged and left |
| | `PressesSound` | no function is down without its button but those a layout change or a dropped event left; no press from before the overlay changes a setting; a scripted tap is one tick unless the loop was away for the gap; no burst of repeats after a late turn |
| `jitter_missing_frame` | `MissingFrameClosesGate` | violated: finding 1 |
| `jitter_full_buffer` | `FreshPacketEndsHold` | violated: finding 2 |
| `engine_resume_timeout` | `LiveStreamNotExpired` | violated: finding 3 |
| `engine_stale_decode` | `NotFrozenByOldFrames` | violated: finding 4 |
| `delivery_overflow` | `OverflowResyncs` | violated: finding 5 |
| `logout` | `LoggedOutStays` | violated: finding 6 |
| `names_unasked` | `NextLaunchAsks` | violated: finding 7 |

Bounds, and why they are enough:

- `jitter`: an access unit of SPS with PPS and an IDR of two fragments, a P-frame of
  two packets, a padding probe, a P-frame of one packet and an IDR of two; timestamps
  modulo 8 starting at 6 and sequence numbers modulo 16 starting at 14, so that both
  wrap inside the stream; a re-NACK age of 1 and a hold of 2; room for one frame less
  than the stream has (`jitter_full_buffer`: two frames). It is the smallest stream with
  a loss before, inside and after a run of dependent frames and an IDR that recovers,
  and the capacity is reached. 23,028 states.
- `engine`: two attempts as in the code, one resume per window, poll caps of one
  (two in the queue), and time in ticks of about ten seconds: a stamp not renewed
  since the last tick is stale, negotiation and the resume window last two. One
  resume reaches every difference between a first, a resumed and a fresh
  transport, the second exceeds the limit; restarts are unlimited. About 550,000
  states.
- `delivery`: a queue of two and a decoder of one, so that overflow and EAGAIN are
  two steps away from everything; back-off from 1 to 2, so that it doubles once and
  saturates; unit numbers modulo 2, enough to tell "the next" from "not the next".
- `stream`: `Serial` 3, `Room` 1 (every second send may be refused), back-off 2,
  heartbeat 1, a second of 2 ticks, two dead seconds; a reserve of one and a surplus
  of three frames with bursts of up to three; the real panel, and frame sizes below,
  at and above it, odd and extreme; two stream sizes and two unread events, which is
  a stale one beside the one waited for. 72,792 states.
- `client`: audio numbers modulo 6 with sources starting at 0 and 4 (the second
  wraps), one packet of reordering, an inbox of two and one resync, a card of three
  packets and a latency limit of two (the code's card is deeper than its limit, too); two titles in
  batches of one with ages up to 2; three pictures for one place in the queue and
  one in memory; three games, catalogues of three, one and none of them, two genres,
  one console; one option row of three values; four buttons, one held at a time, two
  events between polls, of which the kernel drops what leaves one function astray;
  a script of taps, a wait and a hold, with a loop up to 3 late and a gap of 2; two
  ticks of a device code. 703,487 states.

The violation runs use the configuration of their passing run, smaller where a
shorter counterexample results.

No run stops checking for deadlock. Where a part may really stop for good (the
decode thread joined, a screen left, a script ended) its module has the step
that stays there.

**Fairness.** `VideoJitter` has none: it makes no progress of its own, and all its
properties are safety properties; nor have the parts of `MCClient`.

- `EngineSession`: threads are scheduled (`WF` of the worker, of its exit on quit, of
  the presenter and of its look at `state_`), HTTP requests end (libcurl is given
  timeouts, and an error is one of the outcomes), time passes. A pump that never
  returns from libpeer is excluded from the liveness properties; the keepalive
  thread's watch on it is a safety matter and is modelled.
- `VideoDelivery`: `WF` of the decode thread, of the worker's way from `receive()` to
  `notify()`, of the pump's turn and of time. The network promises nothing.
- `InputChannel`: `WF` of the worker's loop (`Send`, `Pumped`, `Stats`) and of a live
  association's draining; `SF` of the clock and of the transport's coming up, since
  both are only enabled at one place of the worker's loop; `SF` of the presenter's
  unlocking, and of the worker's reaching the pad with the mutex free and no
  back-off. The last is the one assumption about luck: the presenter's
  `request_keyframe()`, which a test option calls on a timer of seconds, holds
  `peer_mutex_` for a moment, an attempt to send is made every 8 ms, and the one is
  assumed not to meet every one of the others.

`DeadLinkEndsStream` excepts one interleaving: a failure between the presenter's
test of `state_` and its store of `Streaming` (`engine.cpp:333-334`) is overwritten,
and the presenter then waits for a verdict that was lost. `PadArrives` excepts a
transport that dies or closes; `NoGapButHandshake` excepts what its name says.

## 4. What is proved

All theorems hold for every value of the constants that satisfies the
assumptions they cite, which are as weak as the code allows: sizes and periods
are positive, one limit is at most the other, "none" is none of the values it is
told apart from. Parts with no configuration of their own state their assumption
as an operator (`AudioAssumption`, `ArtAssumption`, `DrmAssumption` and so on) and
their theorems begin with `ASSUME` it; `PartsAssumption` of the composite assumes
them all, and TLC evaluates it in the run. These go beyond sizes:

- the sets of pictures and of titles, and every catalogue, are finite;
- `Absent` is no entry of the name cache, `Torn` is no content of a file;
- the table of live rows is a sequence of strings that has the layout row;
- of the library: what `Model::sort()` compares differs between two titles (it ends in
  the id), and so does the place of two genres among those with as many titles
  (a `std::map` lists them by name); a query is reached letter by letter (`Front`);
  the letter strip is no taller than the list.

**VideoJitterProofs.** Assumed: `ConstantsAssumption`, and `StampsAssumption`, under which
RFC 1982 comparison is a strict linear order on the stream. Proved: `TypeCorrect`,
`BufferAlwaysOrdered`, `AlwaysInDecodeOrder`, `AlwaysGateAfterLoss`, `ImplementsGate`,
`NeverKeepsCompleteFrame`, `NeverBreaksReference`, and, from `NumbersAssumption` too, `EmitsWholeFrames`.

`TypeOK /\ BufferOrdered` is inductive: the only step that can disturb the order is
`OpenFrame`, and there the insertion point has every earlier frame older and, by
linearity, every later one newer. `DecodeOrder` and `GateAfterLoss` are not
inductive alone: an emitted frame is newer than all earlier output only because
the front of a sorted buffer is newer than `lastTs`, and emitting through an open
gate is safe only because of what the open gate remembers. `EmissionInv` adds
`GateInv`: everything emitted or skipped is at or before `lastTs`, and while the gate is
open each skipped timestamp has an emitted IDR after it. The refinement uses the
same invariants: `EmitFront` maps to `Feed`, `DiscardFront` and `GiveUpFront` to `Lose`,
`Reset` to `Restart`, everything else to a stutter. `NoBrokenReference` needs
`ReferenceInv`: with the gate open the last frame emitted is the last one consumed
(`LastInv`), and while arrivals were orderly every frame of the stream older than a
buffered one was seen (`OrderlyInv`). `NoCompleteFrameWaits` is inductive with `TypeOK`.

`EmitsWholeFrames` is about every stream, frames of several partitions included.
`try_assemble()` tests that a run of consecutive numbers from a head to the marker is
present and that its first packet is a head, and the proof is that such a run is
everything that was sent between the two (`AssembledIsWhole`), given that no padding
probe is in the buffer (`NoPaddingHeld`) and that frames hold packets of their own
timestamp only. That the head is the frame's first is not proved, because it need not
be: a frame that lost whole leading partitions looks complete (section 5).

**EngineSessionProofs.** For every number of attempts and resumes, all poll caps and
time limits: `SessionTypeCorrect`, `AlwaysOneOfEach`, `AlwaysStampsOfThisTransport`,
`WorkerAlwaysLeavesVerdict`. The bound on `owed` and `peers` holds because of what the
worker holds at each point of its way (`Holding`); `TypeOK /\ Holding` is inductive.
`StampsOfThisTransport` needs `StampInv`: there is no media stamp from the request of a
transport until its channels are open, and a pump that returns without asking
for a resume never had channels, so a dead path leaves nothing for the fresh
session to inherit, although `RetryTransport`, unlike `Rearm`, does not clear the stamps.

**VideoDeliveryProofs.** For every capacity and pair of back-offs: `TypeCorrect`;
`NeverSleepsOnUnit`, from `SleepInv`, which adds `AnnouncedInTime`: when the decode thread
is about to sleep on a queued unit and the generation is still the one it read,
the worker has yet to bump it; `ReferencesKept`, from `ChainInv`: the unit in
hand, then the queue, then the unit the worker would emit next form one chain
from what the decoder expects, broken only at a marked gap or an IDR, or the
gate is closed.

**DrmOutputProofs.** For every set of sizes and number of unread events: `TypeCorrect`,
`NeverTears`, `PlaneIsKept`, `HeldRepeatsShown`. `TearInv` says where the presenter may be
with what pending (`Places`),
that the commit waited for is in the queue or on screen, and no unread event but
one is its own (`OneAwaited`), that only the old pair is in use until the new one has
been shown (`OldPairInUse`), and that the back buffer is clear except while a flip
away from it is awaited, which nobody leaves without waiting (`BackClear`). The two
action properties rest on it: `PlaneIsKept` with `Replacing`, that the old pair is
freed only with a picture of the new one on the plane; `HeldRepeatsShown` because, with
the back buffer clear, the other buffer of the pair is the one on screen or about to be.

**LibraryScreenProofs.** For every set of catalogues, names, genres, letters and queries
and all heights of rows, strips and list: `TypeCorrect`, `CursorStaysSound`,
`NamesLeaveCursor`, `EmptySearchReturns`. The rows come from sorted lists of titles, so
the module first shows that a finite set has an order when its pairs have
(`OrderExists`, by `Induction` over the size of the set), that `Ordered` then lists each
member once and in that order (`OrderedIs`), and that `Picked` keeps exactly what
it should of a sequence (`PickedIs`). `LibraryInv` has four parts: `ModelOK`, in which the letter
that is filtered by is one of the titles' (`LetterPresent`), so that a turn of the letter
strip starts from a letter the strip has; `ListOK`, the three parts of `CursorSound` and
the types of list, cursor and scroll; `ScreenOK` and `WorkOK`. Every handler that
changes the list ends in `Rebuild` or `VisibleFrom`, and most of the work is about
these: `KeptCursor` finds an entry in any list that has one, and `VisibleFrom` scrolls it
into sight for any heights.

**AudioPathProofs.** For every width of the number, wait, gap, inbox, card and latency:
`TypeCorrect`, `BufferStaysOrderly`, `SoundStays`, `NewSourceHeard`. A turn pushes a batch and
pops until nothing is due, both loops over data, and the prover has no induction
principle with an operator as parameter. The module opens with one about a set
(`Induction`: a set with 0 and the successor of each member holds every number),
proved from `WellFoundedInduction`, and with what a recursive function on `0 .. n`
computes (`Recursion`, `StaysWithin`); the later lemmas are one step of a loop each
(`PushStep`, `PopStep`), lifted by these. The argument of `SoundStays` is
bookkeeping on the circle: popped plus concealed
is the distance `next` has come, and what is left lies ahead within half
a round, so that a wrap is never taken for a step back. For the latency it is
`CardKept`: the card never holds more than the limit, and a card at least as large as
the limit leaves whole packets in the ring, which is why the trim, in whole
packets, gets below it. `NewSourceHeard` needs `SourceKept`: between a resync that did
not race and the turn that sees it, what the inbox holds behind that turn is
the new source's; afterwards everything is.

**StreamProofs.** `PartsRunApart`: a stream is a run of the input channel, the frame
picker, the fitted picture and the display output, side by side. Every step of
the composition is a step of one part and a stutter of the others, whatever the
parts do, so what is proved of a part holds in the composition. The parts'
theorems: `TypeCorrect`, `NumbersHaveNoGap` (inductive as it stands; the work is in
modular arithmetic: `RollbackUndoes` `Succ` over the wrap), `AlwaysCatchesUp` (for every
reserve, surplus, period and burst), `PictureAlwaysFits` (for every frame and panel;
C's division is brought down to `Division`, `Products` and `Monotone`, which is
as much non-linear arithmetic as the solver takes in one step). The stream's:
`StreamTypesCorrect`, `StreamCatchesUp`, `StreamPictureFits`, `StreamNeverTears`, `StreamPlaneSteps`.
`DrmOutputProofs` is about another instance of `DrmOutput` than the composition's; the two
are shown to be equal definition by definition (`SameOutput`), and the theorems carry over.

**ClientProofs.** `PartsRunApart` of the client, and the parts that have no proof module
of their own:

- *Account*: `TypeCorrect`, `SignInIsKept`, `OneThreadAtATime`. `AccountInv` adds `TurnsTaken`: the
  main thread is inside `XboxAuth` only on the code, profile and stream screens,
  and the refresh thread runs on none of these, because the library joins it
  before it leaves.
- *Names*: `LookupsAlwaysAccounted`, `NamesTypeCorrect`. `LookupInv` adds to the property that
  `asked_` covers everything queued or in flight (so no title is queued twice), that a
  batch is in hand only between taking and recording it, and that nobody queues while
  `owed` is not yet counted. For the types it is joined by `EntryTypes`: an entry keeps its
  age within `MaxAge` while it grows older and while an old file is read, and only
  titles with an entry are stale.
- *Pictures*: `PicturesAccounted`. `ArtInv` says the three places a picture asked for can
  be in share nothing and cover what is wanted (`OnePlace`), that nothing wanted is
  cached (`NothingYet`), and that the byte count is what is held (`Paid`). The work is in
  the queue's drop of its oldest job and in a pump that takes all results at once.
- *Options*: `OptionsFileIsWhole`, `MenuShowsForce`, `LeftMenuStaysDiscarded`, `MenuTypeCorrect`. `MenuInv` adds that the
  temporary file is torn after a close only if a full disk took the body (`FileInv`), and where
  something staged can have been left behind at all (`NoneAbandoned`). That every value is a choice
  of its row (`ValuesOK`) needs that `ReadBack` and a turn of a row in either direction
  give a choice; that the cursor stays on the page (`CursorsOK`) needs that a group
  and the live rows are no longer than the table they are picked from (`PartOfTable`).
- *Pad under the overlay*: `PadTypeCorrect`, `NoPhantomPress`. What a poll reads from the
  kernel's queue keeps "what is down and not stuck is held" event by event
  (`EventKeeps`, and `DropKeeps` for a dropped one, lifted over the queue by `StaysWithin`). That a press latched before
  the overlay was opened changes no setting rests on `StagedIsInForce`: such an A waits only until
  the overlay's first turn, and until then what is staged is what is in force.
- *Script*: `TapTicksOnce`, `HeldTicksAreSpaced`, for every script and every lateness of
  the loop, the gap and more included. In `TapInv` the wait after a press outlasts its
  hold by the gap, so a loop that is back within the gap runs no step of the script
  while the button is down (`HoldThenGap`); one that is not releases and presses in one poll
  (`MergedTurn`); the first repeat is further off than the release
  (`TappedOnce`); and the time to the next repeat and the time since the last tick
  make up an interval (`RepeatsApart`).

The client's theorems, one for each property of the run, are these and those of
`AudioPathProofs` and `LibraryScreenProofs`, carried over as in `StreamProofs`:
`ClientTypesCorrect`, `ClientSoundKept`, `ClientNewStreamHeard`, `ClientLookupsAccounted`,
`ClientArtAccounted`, `ClientSignIn`, `ClientCursorSound`, `ClientCursorSteps`, `ClientFileIsWhole`,
`ClientMenuShowsForce`, `ClientDiscards`, `ClientPressesSound`.

**Only model-checked.** Every invariant and every action property that a passing run
checks is also a theorem. Two things are left to TLC:

- Every liveness property (`StopReturns`, `DeadLinkEndsStream`, `KeyframeWanted`, `DecoderStops`,
  `PadArrives`, `DeadChannelNoticed`): liveness under fairness is out of the prover's reach.
- The violations of section 5, which are counterexamples.

## 5. Findings

1. *A frame of which no packet arrives does not close the gate*
   (`video_jitter.cpp:298`, against `video_jitter.hpp:24-26`). The buffer knows
   only frames it saw a packet of; the next P-frame passes.
2. *A full buffer defeats the hold* (`video_jitter.cpp:283`, against
   `video_jitter.hpp:22`). Behind an incomplete front and `kMaxFrames` frames,
   new frames return before the drain loop that would give the front up.
3. *`resuming_` is never cleared* (`engine.cpp:1469`, against 1482-1488). A
   stream that resumed successfully is failed as "Connection timed out" when the
   45-second negotiation limit of its pump passes. The same flag also leaves a
   fresh session after a failed resume with 30 polls instead of 2570 in the queue.
4. *Old frames restore the stamps a resume clears* (`engine.cpp:1116`, against
   1114-1115). The presenter shows a frame of the dead transport just after
   `rearm_for_resume()`; fifteen seconds later the fresh transport is failed as
   frozen, even while it negotiates.
5. *An overflow does not resync* (`engine.cpp:433`, against 387-393). The queue is
   cleared, and the unit that overflowed it, and the P-frames after it, are queued
   although their references were just dropped.
6. *A log out can be undone* (`library.cpp:1474`, against 1470-1472 and
   `docs/INSTALL.md:120`). A credential request of the background refresh that is in
   flight stores its rotated token over the deleted file.
7. *A batch that threw is not asked again at the next launch*
   (`library_data.cpp:569`, against 543-545). Its titles are cached as misses,
   which no launch asks for until `kMissRetryDays` have passed.

Observations met while modelling that no run is about:

- Video: a frame of several NALUs that lost its first ones (the SPS and PPS in front of an
  IDR, or slices) is emitted without them, although `video_jitter.cpp:204` speaks of all
  its packets, and it opens the gate if it still has its IDR;
  with packets further apart than the difference of the two ages, the repeat NACK
  leaves in the same call as the give-up; after the handshake and before the
  first frame no watchdog runs.
- Input: `client_metadata` keeps its number when it is refused (`engine.cpp:732`);
  nothing calls `revive_input()` with a dead channel any more (`engine.cpp:1076`).
- Audio: a packet queued between a turn's take and its look at `resync_requested_`
  survives the resync; on a card that stays lost `feed()` returns before the trim
  and the ring grows (the model caps it at `RingBound`).
- Names: an abort in the middle of a batch, by quitting too, can overwrite a named
  entry with a miss; entries from before genres that were not asked for lose their
  mark at the first save. Deleting the caches races their writers in the same way
  as finding 6.
- Options: `options_capture()` clears the pan row (`options.cpp:562`), so a saved pan is
  lost at the next commit; a close that fails is not noticed, and the rename
  publishes what was written.
- Overlay and pad: an overlay open when a stream ends is open in the next; the B
  that closes it reaches the game in the same turn (`stream.cpp:79-91`); a B latched
  earlier skips the "Stream failed" screen (`stream.cpp:136`); a change of layout while
  a button is held leaves its function down; after `SYN_DROPPED` (`evdev_pad.c:558-594`
  does not look for it) a released button may stay down until it is pressed again.
- Script: a menu loop that is away for the gap of 60 ms or more (a blocking request, the
  join of a refresh) releases and presses again in one `script_step()` (`evdev_pad.c:416-446`),
  and a second tap of the same direction is then no edge for `pad_repeat()`, against the
  comment at 236-238 that the gap keeps the two apart.
- Library: a refreshed catalogue that is shorter than the old one is read past its end
  (`library.cpp:1002-1003`, 929-936, 745-751: undefined), also when the answer parses to no
  title at all (`library_data.cpp:251-257` posts it); where it is long enough, the
  cursor goes to whatever title stands at the old one's index (it is sorted only
  afterwards). Consoles that arrive rebuild the rows without moving cursor and scroll
  (`library.cpp:967`); an unchanged
  catalogue drops `changed` (978); a letter typed in the turn that closes the search
  leaves the rows stale (2263).
- Display: a hard-right pan may stop two pixels short; a first commit refused at a
  new size leaves the plane empty.
- Workers: `quit_` is set without the mutex in `thumbs.cpp:301`, `library_data.cpp:333` and
  `au_recorder.cpp:70`, so a worker between its predicate and its wait misses the
  notification and the join does not return. The models contain this state
  (`NameCache` in `checked`), and no property claims that the join returns.

## 6. Not modelled

- The congestion estimate (REMB): one number steered from measured loss; being
  right is a matter of tuning, and no other part's state depends on it.
- The recorder and the replay engine: debugging aids. HTTP, JSON, SDP and the
  layout of packets: conversions, modelled where they are called as success or
  failure. The receiver report and the first NACK of the jitter buffer, the
  statistics of `run_peer()`.
- Drawing and text, pixel conversion, image scaling, mode setting, the host
  simulators, the volume and the rate servo, sticks and triggers, the tools'
  screens, the launches from the command line, the catalogue's own cache file,
  Wi-Fi tuning, build scripts; and the vendored libraries (libpeer, libavcodec,
  Opus, ALSA, the kernel), which appear as environments where they are called.
- Hazards without a property (`PROJECT.json`), for the reasons in their notes: the repeat
  NACK that leaves with the give-up, a frame whose first partitions are missing, the
  missing watchdog before the first frame, the verdict that `note_decoded_frame()`
  overwrites, the lost wake-ups of the destructors, a forced option that the menu
  rewrites, and functions left down by a change of layout or a dropped event. All are
  behaviours of the models; what is claimed names them as exceptions or does not
  reach them.
