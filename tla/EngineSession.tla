--------------------------- MODULE EngineSession ---------------------------
(***************************************************************************)
(* One stream from "start" to "back in the menu"                           *)
(* (src/src/net/engine.cpp, src/src/app/stream.cpp).  Three threads share  *)
(* the engine's atomics:                                                   *)
(*   - the worker signs in, allocates a session, polls it until it is      *)
(*     provisioned, signals a peer, pumps it, and resumes or retries when  *)
(*     the transport dies;                                                 *)
(*   - the keepalive thread, alive while the pump is, watches the worker;  *)
(*   - the presenter (run_session) shows frames, tells the engine of each  *)
(*     (note_decoded_frame), and stops the engine when it ends.            *)
(*                                                                         *)
(* A tick stamp of the code becomes its age, which saturates just past the *)
(* limit it is compared with, and carries a history bit: does it date from *)
(* the present transport?  The server answers polls as it likes, except    *)
(* that a session never goes back to an earlier state while it is polled.  *)
(***************************************************************************)
EXTENDS Integers

CONSTANTS
    Attempts,          \* session requests per start (2)
    MaxResumes,        \* resumes per window (3)
    ResumeCap,         \* polls in one state while resuming (30)
    StateCap,          \* polls in one state (300)
    QueueCap,          \* polls in WaitingForResources (2570)
    IceLimit,          \* ICE up and no channels: dead media path (12 s)
    NegotiationLimit,  \* 45 s
    MediaLimit,        \* no RTP (10 s)
    DecodeLimit,       \* nothing decoded (15 s)
    TickLimit,         \* the pump does not turn (10 s)
    ResumeWindow,      \* 120 s
    None

Limits == {IceLimit, NegotiationLimit, MediaLimit, DecodeLimit, TickLimit, ResumeWindow}

ASSUME ConstantsAssumption ==
    /\ Attempts \in Nat \ {0} /\ MaxResumes \in Nat
    /\ ResumeCap \in Nat \ {0} /\ StateCap \in Nat \ {0} /\ QueueCap \in Nat \ {0}
    /\ Limits \subseteq Nat
    /\ \A l \in Limits : None \notin 0 .. l + 1

VARIABLES
    ui,          \* run_session: "menu", "run", two points inside
                 \* note_decoded_frame ("stamped", "promote"), or "stopping"
    quit,        \* quit_
    piped,       \* decoded frames not yet presented, by transport
    state,       \* state_
    worker,      \* where the worker is
    attempt, session, polls,                          \* locals of worker()
    resuming, reconnectRequested, resumes, window,    \* resuming_, ...
    link,        \* peer_state_
    channels,    \* channels_open_, then the handshake sent
    handshakeDone, serverEnded,
    iceAge, negotiation,                              \* locals of run_peer()
    gotFrame, media, decode, tick,                    \* the watchdogs' stamps
    stallReported,                                    \* local of the keepalive thread
    owed,        \* history: sessions requested and never asked to stop
    peers        \* history: peer connections created and not destroyed

appVars == <<ui, quit, piped>>
pollVars == <<attempt, session, polls>>
resumeVars == <<resuming, reconnectRequested, resumes, window>>
linkVars == <<link, channels, handshakeDone, serverEnded, iceAge, negotiation>>
watchVars == <<gotFrame, media, decode, tick, stallReported>>
ownVars == <<owed, peers>>

vars == <<appVars, state, worker, pollVars, resumeVars, linkVars, watchVars, ownVars>>

EngineState == {"Idle", "StartingSession", "Negotiating", "WaitingForVideo",
                "Streaming", "Stopped", "Failed"}

(* The states of a session in the order a session goes through them. *)
SessionState == {"New", "WaitingForResources", "Provisioning", "ReadyToConnect",
                 "Provisioned", "Failed"}
Rank == [New |-> 0, WaitingForResources |-> 1, Provisioning |-> 2,
         ReadyToConnect |-> 3, Provisioned |-> 4, Failed |-> 4]

Ages(limit) == {None} \cup 0 .. limit + 1
Stamps(limit) == {None} \cup [age : 0 .. limit + 1, mine : BOOLEAN]
Now == [age |-> 0, mine |-> TRUE]
Inherited(stamp) == IF stamp = None THEN None ELSE [stamp EXCEPT !.mine = FALSE]
Stale(stamp, limit) == stamp # None /\ stamp.age > limit

Cap(s) == IF resuming THEN ResumeCap
          ELSE IF s = "WaitingForResources" THEN QueueCap ELSE StateCap

Init ==
    /\ ui = "menu" /\ quit = TRUE /\ piped = {}
    /\ state = "Idle" /\ worker = "none"
    /\ attempt = 1 /\ session = "New" /\ polls = 0
    /\ resuming = FALSE /\ reconnectRequested = FALSE /\ resumes = 0 /\ window = None
    /\ link = "new" /\ channels = "closed" /\ handshakeDone = FALSE
    /\ serverEnded = FALSE /\ iceAge = None /\ negotiation = None
    /\ gotFrame = FALSE /\ media = None /\ decode = None /\ tick = None
    /\ stallReported = FALSE
    /\ owed = 0 /\ peers = 0

-----------------------------------------------------------------------------
(* The presenter. *)

Start ==
    /\ ui = "menu"
    /\ ui' = "run" /\ quit' = FALSE /\ piped' = {}
    /\ state' = "StartingSession" /\ worker' = "signin"
    /\ attempt' = 1 /\ session' = "New" /\ polls' = 0
    /\ resuming' = FALSE /\ reconnectRequested' = FALSE /\ resumes' = 0 /\ window' = None
    /\ link' = "new" /\ channels' = "closed" /\ handshakeDone' = FALSE
    /\ serverEnded' = FALSE /\ iceAge' = None /\ negotiation' = None
    /\ gotFrame' = FALSE /\ media' = None /\ decode' = None /\ tick' = None
    /\ stallReported' = FALSE
    /\ UNCHANGED ownVars

Ended == state \in {"Failed", "Stopped"}

(* A turn of run_session() looks for the end first.  When it has committed  *)
(* a frame, note_decoded_frame(): stamp, first-frame flag, a test of state_ *)
(* ...                                                                      *)
Oldest == IF "old" \in piped THEN "old" ELSE "this"

StampDecoded ==
    /\ ui = "run" /\ ~Ended /\ piped # {}
    /\ ui' = "stamped"
    /\ decode' = [age |-> 0, mine |-> Oldest = "this"]
    /\ piped' \in {piped, piped \ {Oldest}}
    /\ UNCHANGED <<quit, state, worker, pollVars, resumeVars, linkVars, gotFrame,
                   media, tick, stallReported, ownVars>>

NoteFirstFrame ==
    /\ ui = "stamped"
    /\ gotFrame' = TRUE
    /\ ui' = IF state = "WaitingForVideo" THEN "promote" ELSE "run"
    /\ UNCHANGED <<quit, piped, state, worker, pollVars, resumeVars, linkVars, media,
                   decode, tick, stallReported, ownVars>>

(* ... then a store the test no longer protects. *)
Promote ==
    /\ ui = "promote"
    /\ ui' = "run"
    /\ state' = "Streaming"
    /\ UNCHANGED <<quit, piped, worker, pollVars, resumeVars, linkVars, watchVars, ownVars>>

BeginStop ==
    /\ ui = "run"
    /\ ui' = "stopping" /\ quit' = TRUE
    /\ UNCHANGED <<piped, state, worker, pollVars, resumeVars, linkVars, watchVars, ownVars>>

SeeEnd == Ended /\ BeginStop
UserLeaves == ~Ended /\ BeginStop

(* stop(): join the worker, destroy the peer. *)
Joined ==
    /\ ui = "stopping" /\ worker = "done"
    /\ ui' = "menu" /\ piped' = {}
    /\ worker' = "none" /\ peers' = 0
    /\ UNCHANGED <<quit, state, pollVars, resumeVars, linkVars, watchVars, owed>>

-----------------------------------------------------------------------------
(* The worker up to the peer. *)

FailAndReturn == state' = "Failed" /\ worker' = "done"
StopSession == owed' = owed - 1

(* Mutant: the previous run's session is not cleaned up. *)
SignInWithoutCleanup ==
    /\ worker = "signin"
    /\ \/ worker' = "request" /\ UNCHANGED state
       \/ FailAndReturn
    /\ UNCHANGED <<appVars, pollVars, resumeVars, linkVars, watchVars, ownVars>>

SignIn ==
    /\ worker = "signin"
    /\ \/ /\ worker' = "request"  \* after cleanup_stale_sessions()
          /\ owed' = 0
          /\ UNCHANGED state
       \/ /\ FailAndReturn        \* no offering for this account
          /\ UNCHANGED owed
    /\ UNCHANGED <<appVars, pollVars, resumeVars, linkVars, watchVars, peers>>

RequestSession ==
    /\ worker = "request"
    /\ worker' = "poll"
    /\ session' = "New" /\ polls' = 0
    /\ owed' = owed + 1
    /\ UNCHANGED <<appVars, state, attempt, resumeVars, linkVars, watchVars, peers>>

(* An HTTP error outside run_peer(): the catch at the end of worker(). *)
WorkerThrows ==
    /\ worker \in {"signin", "request", "poll"}
    /\ FailAndReturn
    /\ UNCHANGED <<appVars, pollVars, resumeVars, linkVars, watchVars, ownVars>>

PollsIn(s) == IF s = session THEN polls + 1 ELSE 1

PollWaits(s) ==
    /\ worker = "poll" /\ ~quit
    /\ Rank[s] >= Rank[session]
    /\ s \notin {"Provisioned", "Failed"}
    /\ session' = s /\ polls' = PollsIn(s)
    /\ worker' = IF PollsIn(s) < Cap(s) THEN "poll"
                 ELSE IF resuming THEN "retry" ELSE "timeout"
    /\ UNCHANGED <<appVars, state, attempt, resumeVars, linkVars, watchVars, ownVars>>

PollProvisioned ==
    /\ worker = "poll" /\ ~quit
    /\ session' = "Provisioned" /\ polls' = 0
    /\ worker' = "peer"
    /\ UNCHANGED <<appVars, state, attempt, resumeVars, linkVars, watchVars, ownVars>>

PollFailed ==
    /\ worker = "poll" /\ ~quit
    /\ session' = "Failed" /\ polls' = 0
    /\ worker' = IF resuming THEN "retry" ELSE "error"
    /\ UNCHANGED <<appVars, state, attempt, resumeVars, linkVars, watchVars, ownVars>>

PollQuits ==
    /\ worker = "poll" /\ quit
    /\ worker' = "done"
    /\ StopSession
    /\ UNCHANGED <<appVars, state, pollVars, resumeVars, linkVars, watchVars, peers>>

-----------------------------------------------------------------------------
(* run_peer() up to its loop. *)

CreatePeer ==
    /\ worker = "peer"
    /\ state' = IF resuming THEN state ELSE "Negotiating"
    /\ worker' = "signal"
    /\ peers' = peers + 1
    /\ UNCHANGED <<appVars, pollVars, resumeVars, linkVars, watchVars, owed>>

(* Mutant: worker_tick_ is not zeroed before the keepalive thread starts. *)
SignalledWithOldTick ==
    /\ worker = "signal"
    /\ worker' = "pump"
    /\ negotiation' = 0 /\ iceAge' = None /\ stallReported' = FALSE
    /\ UNCHANGED <<appVars, state, pollVars, resumeVars, link, channels, handshakeDone,
                   serverEnded, gotFrame, media, decode, tick, ownVars>>

(* The answer and the server's candidates are in: the pump and the          *)
(* keepalive thread start.                                                  *)
Signalled ==
    /\ worker = "signal"
    /\ worker' = "pump"
    /\ negotiation' = 0 /\ iceAge' = None
    /\ tick' = None /\ stallReported' = FALSE
    /\ UNCHANGED <<appVars, state, pollVars, resumeVars, link, channels, handshakeDone,
                   serverEnded, gotFrame, media, decode, ownVars>>

(* No offer, or no candidates: a failure the user is told of. *)
SignallingFails ==
    /\ worker = "signal"
    /\ FailAndReturn
    /\ StopSession
    /\ UNCHANGED <<appVars, pollVars, resumeVars, linkVars, watchVars, peers>>

(* An HTTP error: fatal for a first transport, a refused re-signal for a    *)
(* resumed one.                                                             *)
SignallingThrows ==
    /\ worker = "signal"
    /\ IF resuming THEN worker' = "retry" /\ UNCHANGED state ELSE FailAndReturn
    /\ UNCHANGED <<appVars, pollVars, resumeVars, linkVars, watchVars, ownVars>>

-----------------------------------------------------------------------------
(* libpeer's callbacks, on the worker's thread, inside the pump. *)

IceChanges ==
    /\ worker = "pump"
    /\ \/ link = "new" /\ link' \in {"up", "failed"}
       \/ link = "up" /\ link' \in {"gone", "failed"}
    /\ UNCHANGED <<appVars, state, worker, pollVars, resumeVars, channels,
                   handshakeDone, serverEnded, iceAge, negotiation, watchVars, ownVars>>

ChannelsOpen ==
    /\ worker = "pump" /\ link = "up" /\ channels = "closed"
    /\ channels' = "open"
    /\ UNCHANGED <<appVars, state, worker, pollVars, resumeVars, link,
                   handshakeDone, serverEnded, iceAge, negotiation, watchVars, ownVars>>

HandshakeAcked ==
    /\ worker = "pump" /\ link = "up" /\ channels = "greeted" /\ ~handshakeDone
    /\ handshakeDone' = TRUE
    /\ state' = IF state = "Negotiating" THEN "WaitingForVideo" ELSE state
    /\ UNCHANGED <<appVars, worker, pollVars, resumeVars, link, channels,
                   serverEnded, iceAge, negotiation, watchVars, ownVars>>

ServerEnds ==
    /\ worker = "pump" /\ channels = "greeted"
    /\ serverEnded' = TRUE
    /\ UNCHANGED <<appVars, state, worker, pollVars, resumeVars, link, channels,
                   handshakeDone, iceAge, negotiation, watchVars, ownVars>>

(* RTP; a video packet may complete a frame that the decoder then shows.    *)
(* The server sends none before the SCTP association is up.                 *)
MediaArrives ==
    /\ worker = "pump" /\ link = "up" /\ channels # "closed"
    /\ media' = Now
    /\ piped' \in {piped, piped \cup {"this"}}
    /\ UNCHANGED <<ui, quit, state, worker, pollVars, resumeVars, linkVars,
                   gotFrame, decode, tick, stallReported, ownVars>>

-----------------------------------------------------------------------------
(* The rest of one turn of the pump, in the order of its tests. *)

DeadPath == iceAge # None /\ iceAge > IceLimit /\ channels = "closed"

(* Mutant: a resumed transport never times out. *)
NegotiationExpiredUnlessResumed ==
    state = "Negotiating" /\ negotiation # None /\ negotiation > NegotiationLimit

NegotiationExpired ==
    /\ state = "Negotiating" \/ resuming
    /\ negotiation # None /\ negotiation > NegotiationLimit

ConsentLost == iceAge # None /\ link = "gone"

Verdict ==
    IF link = "failed" THEN "failed"
    ELSE IF serverEnded THEN "ended"
    ELSE IF DeadPath THEN "dead"
    ELSE IF NegotiationExpired THEN "expired"
    ELSE IF ConsentLost THEN "lost"
    ELSE IF gotFrame /\ Stale(media, MediaLimit) THEN "silent"
    ELSE IF gotFrame /\ Stale(decode, DecodeLimit) THEN "frozen"
    ELSE "fine"

Turn ==
    /\ worker = "pump" /\ Verdict = "fine"
    /\ tick' = Now
    /\ iceAge' = IF iceAge = None /\ link = "up" THEN 0 ELSE iceAge
    /\ channels' = IF channels = "open" THEN "greeted" ELSE channels
    /\ UNCHANGED <<appVars, state, worker, pollVars, resumeVars, link, handshakeDone,
                   serverEnded, negotiation, gotFrame, media, decode,
                   stallReported, ownVars>>

(* run_peer() returns true: the session is stopped and worker() returns. *)
PumpFails ==
    /\ worker = "pump" /\ Verdict \in {"failed", "expired", "silent", "frozen"}
    /\ FailAndReturn
    /\ StopSession
    /\ UNCHANGED <<appVars, pollVars, resumeVars, linkVars, watchVars, peers>>

PumpEnds ==
    /\ worker = "pump" /\ Verdict = "ended"
    /\ state' = "Stopped" /\ worker' = "done"
    /\ StopSession
    /\ UNCHANGED <<appVars, pollVars, resumeVars, linkVars, watchVars, peers>>

PumpQuits ==
    /\ worker = "pump" /\ quit
    /\ worker' = "done"
    /\ StopSession
    /\ UNCHANGED <<appVars, state, pollVars, resumeVars, linkVars, watchVars, peers>>

(* run_peer() returns false: a dead media path, lost consent, or an input   *)
(* channel that refused everything for three seconds.                       *)
PumpGivesUp ==
    /\ worker = "pump"
    /\ \/ Verdict = "dead" /\ UNCHANGED reconnectRequested
       \/ Verdict = "lost" /\ reconnectRequested' = TRUE
       \/ Verdict = "fine" /\ handshakeDone /\ reconnectRequested' = TRUE
    /\ worker' = "returned"
    /\ UNCHANGED <<appVars, state, pollVars, resuming, resumes, window, linkVars,
                   watchVars, ownVars>>

(* The keepalive thread's watch on the pump. *)
KeepaliveStall ==
    /\ worker = "pump"
    /\ ~stallReported /\ Stale(tick, TickLimit)
    /\ stallReported' = TRUE
    /\ state' = "Failed"
    /\ UNCHANGED <<appVars, worker, pollVars, resumeVars, linkVars, gotFrame, media,
                   decode, tick, ownVars>>

-----------------------------------------------------------------------------
(* After a transport died. *)

NewWindow == window = None \/ window > ResumeWindow
ResumesNow == IF NewWindow THEN 1 ELSE resumes + 1

TooManyResumes ==
    /\ worker = "returned" /\ reconnectRequested /\ ResumesNow > MaxResumes
    /\ reconnectRequested' = FALSE
    /\ FailAndReturn
    /\ StopSession
    /\ UNCHANGED <<appVars, pollVars, resuming, resumes, window, linkVars, watchVars, peers>>

(* Mutant: the dead peer is forgotten, not destroyed. *)
RearmKeepsPeer ==
    /\ gotFrame' = FALSE /\ media' = None /\ decode' = None
    /\ link' = "new" /\ channels' = "closed" /\ handshakeDone' = FALSE
    /\ piped' \in {{}, IF piped = {} THEN {} ELSE {"old"}}
    /\ UNCHANGED peers

(* The peer is destroyed and everything that described it forgotten; frames *)
(* already with the decoder are not.  One step: whatever the presenter does *)
(* between two of these stores it can also do just before or just after.    *)
Rearm ==
    /\ peers' = 0
    /\ gotFrame' = FALSE /\ media' = None /\ decode' = None
    /\ link' = "new" /\ channels' = "closed" /\ handshakeDone' = FALSE
    /\ piped' \in {{}, IF piped = {} THEN {} ELSE {"old"}}

Resume ==
    /\ worker = "returned" /\ reconnectRequested /\ ResumesNow <= MaxResumes
    /\ reconnectRequested' = FALSE
    /\ resuming' = TRUE
    /\ resumes' = ResumesNow
    /\ window' = IF NewWindow THEN 0 ELSE window
    /\ worker' = "poll"
    /\ session' = "New" /\ polls' = 0
    /\ Rearm
    /\ iceAge' = None /\ negotiation' = None
    /\ tick' = Inherited(tick)
    /\ UNCHANGED <<ui, quit, state, attempt, serverEnded, stallReported, owed>>

NoResumeAsked ==
    /\ worker = "returned" /\ ~reconnectRequested
    /\ worker' = "retry"
    /\ UNCHANGED <<appVars, state, pollVars, resumeVars, linkVars, watchVars, ownVars>>

(* A fresh session, if an attempt is left. *)
RetryTransport ==
    /\ worker = "retry" /\ ~quit /\ attempt < Attempts
    /\ StopSession
    /\ reconnectRequested' = FALSE
    /\ peers' = 0
    /\ link' = "new" /\ channels' = "closed" /\ handshakeDone' = FALSE
    /\ state' = IF resuming THEN state ELSE "StartingSession"
    /\ attempt' = attempt + 1
    /\ worker' = "backoff"
    /\ iceAge' = None /\ negotiation' = None
    /\ media' = Inherited(media) /\ decode' = Inherited(decode) /\ tick' = Inherited(tick)
    /\ piped' = IF piped = {} THEN {} ELSE {"old"}
    /\ UNCHANGED <<ui, quit, session, polls, resuming, resumes, window,
                   serverEnded, gotFrame, stallReported>>

(* A console that was asleep: the same again, with no transport to forget. *)
WakeConsole ==
    /\ worker = "error" /\ ~quit /\ attempt < Attempts
    /\ StopSession
    /\ attempt' = attempt + 1
    /\ worker' = "backoff"
    /\ UNCHANGED <<appVars, state, session, polls, resumeVars, linkVars,
                   watchVars, peers>>

(* Mutant: the last attempt falls out of the loop without a word. *)
NoAttemptLeftSilent ==
    /\ \/ worker = "retry" /\ attempt = Attempts
       \/ worker \in {"error", "timeout"}
    /\ ~quit
    /\ StopSession
    /\ worker' = "done"
    /\ UNCHANGED <<appVars, state, pollVars, resumeVars, linkVars, watchVars, peers>>

NoAttemptLeft ==
    /\ \/ worker = "retry" /\ attempt = Attempts
       \/ worker \in {"error", "timeout"}
    /\ ~quit
    /\ StopSession
    /\ FailAndReturn
    /\ UNCHANGED <<appVars, pollVars, resumeVars, linkVars, watchVars, peers>>

QuitBetween ==
    /\ worker \in {"retry", "error", "timeout"} /\ quit
    /\ StopSession
    /\ worker' = "done"
    /\ UNCHANGED <<appVars, state, pollVars, resumeVars, linkVars, watchVars, peers>>

(* Mutant: the wait before a retry does not look at quit_, and starts over. *)
BackoffEndsUnquit ==
    /\ worker = "backoff" /\ ~quit
    /\ worker' = "request"
    /\ UNCHANGED <<appVars, state, pollVars, resumeVars, linkVars, watchVars, ownVars>>

BackoffEnds ==
    /\ worker = "backoff"
    /\ worker' = IF quit THEN "done" ELSE "request"
    /\ UNCHANGED <<appVars, state, pollVars, resumeVars, linkVars, watchVars, ownVars>>

-----------------------------------------------------------------------------
Older(age, limit) == IF age # None /\ age <= limit THEN age + 1 ELSE age
OlderStamp(stamp, limit) ==
    IF stamp = None THEN None ELSE [stamp EXCEPT !.age = Older(@, limit)]

Tick ==
    /\ worker \notin {"none", "done"}
    /\ window' = Older(window, ResumeWindow)
    /\ iceAge' = Older(iceAge, IceLimit)
    /\ negotiation' = Older(negotiation, NegotiationLimit)
    /\ media' = OlderStamp(media, MediaLimit)
    /\ decode' = OlderStamp(decode, DecodeLimit)
    /\ tick' = OlderStamp(tick, TickLimit)
    /\ UNCHANGED <<appVars, state, worker, pollVars, resuming, reconnectRequested,
                   resumes, link, channels, handshakeDone, serverEnded, gotFrame,
                   stallReported, ownVars>>

Presenter == StampDecoded \/ NoteFirstFrame \/ Promote \/ SeeEnd \/ Joined

Poll ==
    \/ \E s \in SessionState : PollWaits(s)
    \/ PollProvisioned
    \/ PollFailed
    \/ PollQuits

Signal == CreatePeer \/ Signalled \/ SignallingFails \/ SignallingThrows

Pump == Turn \/ PumpFails \/ PumpEnds \/ PumpQuits \/ PumpGivesUp

Revive ==
    \/ TooManyResumes \/ Resume \/ NoResumeAsked \/ RetryTransport \/ WakeConsole
    \/ NoAttemptLeft \/ QuitBetween \/ BackoffEnds

Worker == SignIn \/ RequestSession \/ WorkerThrows \/ Poll \/ Signal \/ Pump \/ Revive

Callbacks == IceChanges \/ ChannelsOpen \/ HandshakeAcked \/ ServerEnds \/ MediaArrives

Next == Start \/ UserLeaves \/ Presenter \/ Worker \/ Callbacks \/ KeepaliveStall \/ Tick

Spec == Init /\ [][Next]_vars

(* Threads run, requests end (libcurl's timeouts), time passes.  Nothing is *)
(* assumed of the user, the server or the network.                          *)
Fairness ==
    /\ WF_vars(Worker) /\ WF_vars(PumpQuits) /\ WF_vars(Presenter)
    /\ WF_vars(Joined) /\ WF_vars(SeeEnd) /\ WF_vars(Tick)

LiveSpec == Spec /\ Fairness
-----------------------------------------------------------------------------
AppOK ==
    /\ ui \in {"menu", "run", "stamped", "promote", "stopping"}
    /\ quit \in BOOLEAN /\ piped \subseteq {"old", "this"}
    /\ state \in EngineState

WorkerOK ==
    /\ worker \in {"none", "signin", "request", "poll", "peer", "signal", "pump",
                   "returned", "retry", "error", "timeout", "backoff", "done"}
    /\ attempt \in 1 .. Attempts /\ session \in SessionState /\ polls \in Nat
    /\ owed \in 0 .. 1 /\ peers \in 0 .. 1

ResumeOK ==
    /\ resuming \in BOOLEAN /\ reconnectRequested \in BOOLEAN
    /\ resumes \in 0 .. MaxResumes /\ window \in Ages(ResumeWindow)

LinkOK ==
    /\ link \in {"new", "up", "gone", "failed"}
    /\ channels \in {"closed", "open", "greeted"}
    /\ handshakeDone \in BOOLEAN /\ serverEnded \in BOOLEAN
    /\ iceAge \in Ages(IceLimit) /\ negotiation \in Ages(NegotiationLimit)

WatchOK ==
    /\ gotFrame \in BOOLEAN /\ stallReported \in BOOLEAN
    /\ media \in Stamps(MediaLimit) /\ decode \in Stamps(DecodeLimit)
    /\ tick \in Stamps(TickLimit)

(* Type invariant; among it, that the account never holds two sessions of   *)
(* this client and the process never two peers.                             *)
TypeOK == AppOK /\ WorkerOK /\ ResumeOK /\ LinkOK /\ WatchOK

(* "Closes any stale sessions left on the account (server allows only one)" *)
(* (session.hpp:88): whatever way a transport, an attempt or an earlier run *)
(* ended, a session is requested only when every earlier one was asked to   *)
(* stop, and a peer created only when the last one was destroyed.           *)
OneOfEach ==
    /\ worker = "request" => owed = 0
    /\ worker = "peer" => peers = 0
    /\ ui = "menu" => peers = 0

(* The media and pump watchdogs judge a transport on stamps it made itself, *)
(* never on those of the one it replaced (engine.cpp:1114-1115, 1320).      *)
StampsOfThisTransport ==
    worker = "pump" =>
        /\ media # None => media.mine
        /\ tick # None => tick.mine

(* The worker never returns of its own accord without a verdict for the     *)
(* presenter, which waits for Failed or Stopped and nothing else.           *)
WorkerLeavesVerdict ==
    [][worker' = "done" /\ worker # "done" /\ ~quit => state' \in {"Failed", "Stopped"}]_vars

(* stop() returns: every wait of the worker ends once quit_ is set. *)
StopReturns == ui = "stopping" ~> ui = "menu"

(* "a genuinely dead link still ends the stream" (engine.cpp:1490-1492): if *)
(* from some time on no transport comes up, the stream ends by itself --    *)
(* unless the verdict fell between the presenter's test of state_ and the   *)
(* store that follows, which loses it for good.                             *)
DeadLinkEndsStream ==
    /\ <>[](link # "up")
    /\ [](~(ui = "promote" /\ Ended))
    => []<>(ui = "menu")

(* Losing consent or the input channel is "not a dead session"; the worker  *)
(* is to "keep the session and re-signal into it" (engine.cpp:1482-1488).   *)
(* A stream whose present transport has shaken hands and delivers frames is *)
(* not failed for taking too long to negotiate.                             *)
LiveStreamNotExpired ==
    worker = "pump" /\ handshakeDone /\ gotFrame /\ decode = Now => Verdict # "expired"

(* "Stale tick state would let the watchdogs misread the old stream's       *)
(* timestamps and kill the fresh transport while it negotiates"             *)
(* (engine.cpp:1114-1115), so rearm_for_resume() clears it: a transport is  *)
(* never failed as frozen for the age of a frame of the one before.         *)
NotFrozenByOldFrames ==
    worker = "pump" /\ Verdict = "frozen" => decode.mine

=============================================================================
