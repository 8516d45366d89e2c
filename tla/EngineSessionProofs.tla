------------------------ MODULE EngineSessionProofs ------------------------
(* Theorems about EngineSession, for every choice of its limits and caps.   *)
EXTENDS EngineSession, TLAPS

(* What the worker holds at each point of its way. *)
Holding ==
    /\ worker = "none" <=> ui = "menu"
    /\ worker \in {"none", "signin", "request", "poll", "peer", "error", "timeout", "backoff"}
          => peers = 0
    /\ worker \in {"request", "backoff"} => owed = 0
    /\ worker \in {"poll", "peer", "signal", "pump", "returned", "retry", "error", "timeout"}
          => owed = 1

SessionInv == TypeOK /\ Holding

LEMMA ConstantsAreNumbers ==
    /\ Attempts \in Nat /\ 1 \in 1 .. Attempts /\ MaxResumes \in Nat
    /\ 0 \in 0 .. MaxResumes
    /\ IceLimit \in Nat /\ NegotiationLimit \in Nat /\ MediaLimit \in Nat
    /\ DecodeLimit \in Nat /\ TickLimit \in Nat /\ ResumeWindow \in Nat
  BY ConstantsAssumption DEF Limits

LEMMA InitHolds == Init => SessionInv
<1> SUFFICES ASSUME Init PROVE SessionInv
  OBVIOUS
<1>1. AppOK
  BY DEF Init, AppOK, EngineState
<1>2. WorkerOK
  BY ConstantsAreNumbers DEF Init, WorkerOK, SessionState
<1>3. ResumeOK
  BY ConstantsAreNumbers DEF Init, ResumeOK, Ages
<1>4. LinkOK
  BY DEF Init, LinkOK, Ages
<1>5. WatchOK
  BY DEF Init, WatchOK, Stamps
<1>6. Holding
  BY DEF Init, Holding
<1> QED
  BY <1>1, <1>2, <1>3, <1>4, <1>5, <1>6 DEF SessionInv, TypeOK

LEMMA NextHolds == SessionInv /\ [Next]_vars => SessionInv'
<1> SUFFICES ASSUME SessionInv, [Next]_vars PROVE SessionInv'
  OBVIOUS
<1> USE ConstantsAreNumbers DEF SessionInv, TypeOK, AppOK, WorkerOK, ResumeOK, LinkOK,
        WatchOK, Holding, EngineState, SessionState, Ages, Stamps,
        appVars, pollVars, resumeVars, linkVars, watchVars, ownVars
<1>1. CASE Start
  <2>1. AppOK'
    BY <1>1 DEF Start
  <2>2. WorkerOK'
    BY <1>1 DEF Start
  <2>3. ResumeOK'
    BY <1>1 DEF Start
  <2>4. LinkOK'
    BY <1>1 DEF Start
  <2>5. WatchOK'
    BY <1>1 DEF Start
  <2>6. Holding'
    BY <1>1 DEF Start
  <2> QED
    BY <2>1, <2>2, <2>3, <2>4, <2>5, <2>6
<1>2. CASE StampDecoded
  BY <1>2 DEF StampDecoded, Oldest
<1>3. CASE NoteFirstFrame
  BY <1>3 DEF NoteFirstFrame
<1>4. CASE Promote
  BY <1>4 DEF Promote
<1>5. CASE SeeEnd
  BY <1>5 DEF SeeEnd, BeginStop
<1>6. CASE UserLeaves
  BY <1>6 DEF UserLeaves, BeginStop
<1>7. CASE Joined
  BY <1>7 DEF Joined
<1>8. CASE SignIn
  BY <1>8 DEF SignIn, FailAndReturn
<1>9. CASE RequestSession
  BY <1>9 DEF RequestSession
<1>10. CASE WorkerThrows
  BY <1>10 DEF WorkerThrows, FailAndReturn
<1>11. CASE PollProvisioned
  BY <1>11 DEF PollProvisioned
<1>12. CASE PollFailed
  BY <1>12 DEF PollFailed
<1>13. CASE PollQuits
  BY <1>13 DEF PollQuits, StopSession
<1>14. CASE CreatePeer
  BY <1>14 DEF CreatePeer
<1>15. CASE Signalled
  <2>1. AppOK'
    BY <1>15 DEF Signalled
  <2>2. WorkerOK'
    BY <1>15 DEF Signalled
  <2>3. ResumeOK'
    BY <1>15 DEF Signalled
  <2>4. LinkOK'
    BY <1>15 DEF Signalled
  <2>5. WatchOK'
    BY <1>15 DEF Signalled
  <2>6. Holding'
    BY <1>15 DEF Signalled
  <2> QED
    BY <2>1, <2>2, <2>3, <2>4, <2>5, <2>6
<1>16. CASE SignallingFails
  BY <1>16 DEF SignallingFails, FailAndReturn, StopSession
<1>17. CASE SignallingThrows
  BY <1>17 DEF SignallingThrows, FailAndReturn
<1>18. CASE Turn
  BY <1>18 DEF Turn, Now
<1>19. CASE PumpFails
  BY <1>19 DEF PumpFails, FailAndReturn, StopSession
<1>20. CASE PumpEnds
  BY <1>20 DEF PumpEnds, StopSession
<1>21. CASE PumpQuits
  BY <1>21 DEF PumpQuits, StopSession
<1>22. CASE PumpGivesUp
  <2>1. AppOK'
    BY <1>22 DEF PumpGivesUp
  <2>2. WorkerOK'
    BY <1>22 DEF PumpGivesUp
  <2>3. ResumeOK'
    BY <1>22 DEF PumpGivesUp
  <2>4. LinkOK'
    BY <1>22 DEF PumpGivesUp
  <2>5. WatchOK'
    BY <1>22 DEF PumpGivesUp
  <2>6. Holding'
    BY <1>22 DEF PumpGivesUp
  <2> QED
    BY <2>1, <2>2, <2>3, <2>4, <2>5, <2>6
<1>23. CASE TooManyResumes
  <2>1. AppOK'
    BY <1>23 DEF TooManyResumes, FailAndReturn, StopSession
  <2>2. WorkerOK'
    BY <1>23 DEF TooManyResumes, FailAndReturn, StopSession
  <2>3. ResumeOK'
    BY <1>23 DEF TooManyResumes, FailAndReturn, StopSession
  <2>4. LinkOK'
    BY <1>23 DEF TooManyResumes, FailAndReturn, StopSession
  <2>5. WatchOK'
    BY <1>23 DEF TooManyResumes, FailAndReturn, StopSession
  <2>6. Holding'
    BY <1>23 DEF TooManyResumes, FailAndReturn, StopSession
  <2> QED
    BY <2>1, <2>2, <2>3, <2>4, <2>5, <2>6
<1>24. CASE Resume
  <2>1. AppOK'
    BY <1>24 DEF Resume, Rearm, ResumesNow, NewWindow, Inherited
  <2>2. WorkerOK'
    BY <1>24 DEF Resume, Rearm, ResumesNow, NewWindow, Inherited
  <2>3. ResumeOK'
    <3>1. resumes' \in 0 .. MaxResumes
      BY <1>24 DEF Resume, ResumesNow
    <3>2. window' \in Ages(ResumeWindow)
      BY <1>24 DEF Resume
    <3> QED
      BY <1>24, <3>1, <3>2 DEF Resume
  <2>4. LinkOK'
    BY <1>24 DEF Resume, Rearm, ResumesNow, NewWindow, Inherited
  <2>5. WatchOK'
    BY <1>24 DEF Resume, Rearm, ResumesNow, NewWindow, Inherited
  <2>6. Holding'
    BY <1>24 DEF Resume, Rearm, ResumesNow, NewWindow, Inherited
  <2> QED
    BY <2>1, <2>2, <2>3, <2>4, <2>5, <2>6
<1>25. CASE NoResumeAsked
  BY <1>25 DEF NoResumeAsked
<1>26. CASE RetryTransport
  <2>1. AppOK'
    BY <1>26 DEF RetryTransport, StopSession, Inherited
  <2>2. WorkerOK'
    BY <1>26 DEF RetryTransport, StopSession, Inherited
  <2>3. ResumeOK'
    BY <1>26 DEF RetryTransport, StopSession, Inherited
  <2>4. LinkOK'
    BY <1>26 DEF RetryTransport, StopSession, Inherited
  <2>5. WatchOK'
    BY <1>26 DEF RetryTransport, StopSession, Inherited
  <2>6. Holding'
    BY <1>26 DEF RetryTransport, StopSession, Inherited
  <2> QED
    BY <2>1, <2>2, <2>3, <2>4, <2>5, <2>6
<1>27. CASE WakeConsole
  BY <1>27 DEF WakeConsole, StopSession
<1>28. CASE NoAttemptLeft
  BY <1>28 DEF NoAttemptLeft, FailAndReturn, StopSession
<1>29. CASE QuitBetween
  BY <1>29 DEF QuitBetween, StopSession
<1>30. CASE BackoffEnds
  BY <1>30 DEF BackoffEnds
<1>31. CASE IceChanges
  BY <1>31 DEF IceChanges
<1>32. CASE ChannelsOpen
  BY <1>32 DEF ChannelsOpen
<1>33. CASE HandshakeAcked
  BY <1>33 DEF HandshakeAcked
<1>34. CASE ServerEnds
  BY <1>34 DEF ServerEnds
<1>35. CASE MediaArrives
  BY <1>35 DEF MediaArrives, Now
<1>36. CASE KeepaliveStall
  BY <1>36 DEF KeepaliveStall
<1>37. CASE Tick
  BY <1>37 DEF Tick, Older, OlderStamp
<1>38. ASSUME NEW s \in SessionState, PollWaits(s) PROVE SessionInv'
  BY <1>38 DEF PollWaits, PollsIn, Cap
<1>39. CASE UNCHANGED vars
  BY <1>39 DEF vars
<1> QED
  BY <1>1, <1>2, <1>3, <1>4, <1>5, <1>6, <1>7, <1>8, <1>9, <1>10, <1>11,
     <1>12, <1>13, <1>14, <1>15, <1>16, <1>17, <1>18, <1>19, <1>20, <1>21,
     <1>22, <1>23, <1>24, <1>25, <1>26, <1>27, <1>28, <1>29, <1>30, <1>31,
     <1>32, <1>33, <1>34, <1>35, <1>36, <1>37, <1>38, <1>39 DEF Next,
     Presenter, Worker, Poll, Signal, Pump, Revive, Callbacks

(* Type correctness; in particular never two sessions of this client on the *)
(* account (worker(), engine.cpp:812-1070) and never two peers.             *)
THEOREM SessionTypeCorrect == Spec => []TypeOK
<1>1. Init => SessionInv
  BY InitHolds
<1>2. SessionInv /\ [Next]_vars => SessionInv'
  BY NextHolds
<1>3. SessionInv => TypeOK
  BY DEF SessionInv
<1> QED
  BY <1>1, <1>2, <1>3, PTL DEF Spec

(* Every transport, attempt and run ends by giving back what it held, or    *)
(* leaves it to the clean-up of the next start (engine.cpp:807-834, 1102,   *)
(* 996-1001, 242-260), so nothing is requested or created twice.            *)
THEOREM AlwaysOneOfEach == Spec => []OneOfEach
<1>1. SessionInv => OneOfEach
  BY DEF SessionInv, Holding, OneOfEach
<1> QED
  BY InitHolds, NextHolds, <1>1, PTL DEF Spec

-----------------------------------------------------------------------------
(* There is no media stamp from the moment a transport is asked for until   *)
(* it has channels, so none can be inherited.                               *)
StampInv ==
    /\ worker \in {"signin", "request", "poll", "peer", "signal", "retry", "error",
                   "timeout", "backoff"} => media = None
    /\ worker = "pump" /\ channels = "closed" => media = None
    /\ worker = "returned" /\ ~reconnectRequested => media = None
    /\ StampsOfThisTransport

LEMMA StampInvHolds == TypeOK /\ StampInv /\ [Next]_vars => StampInv'
<1> SUFFICES ASSUME TypeOK, StampInv, [Next]_vars PROVE StampInv'
  OBVIOUS
<1> USE DEF StampInv, StampsOfThisTransport, appVars, pollVars, resumeVars, linkVars,
        watchVars, ownVars
<1>1. CASE Start
  BY <1>1 DEF Start
<1>2. CASE StampDecoded
  BY <1>2 DEF StampDecoded, Oldest
<1>3. CASE NoteFirstFrame
  BY <1>3 DEF NoteFirstFrame
<1>4. CASE Promote
  BY <1>4 DEF Promote
<1>5. CASE SeeEnd
  BY <1>5 DEF SeeEnd, BeginStop
<1>6. CASE UserLeaves
  BY <1>6 DEF UserLeaves, BeginStop
<1>7. CASE Joined
  BY <1>7 DEF Joined
<1>8. CASE SignIn
  BY <1>8 DEF SignIn, FailAndReturn
<1>9. CASE RequestSession
  BY <1>9 DEF RequestSession
<1>10. CASE WorkerThrows
  BY <1>10 DEF WorkerThrows, FailAndReturn
<1>11. CASE PollProvisioned
  BY <1>11 DEF PollProvisioned
<1>12. CASE PollFailed
  BY <1>12 DEF PollFailed
<1>13. CASE PollQuits
  BY <1>13 DEF PollQuits, StopSession
<1>14. CASE CreatePeer
  BY <1>14 DEF CreatePeer
<1>15. CASE Signalled
  BY <1>15 DEF Signalled
<1>16. CASE SignallingFails
  BY <1>16 DEF SignallingFails, FailAndReturn, StopSession
<1>17. CASE SignallingThrows
  BY <1>17 DEF SignallingThrows, FailAndReturn
<1>18. CASE Turn
  BY <1>18 DEF Turn, Now
<1>19. CASE PumpFails
  BY <1>19 DEF PumpFails, FailAndReturn, StopSession
<1>20. CASE PumpEnds
  BY <1>20 DEF PumpEnds, StopSession
<1>21. CASE PumpQuits
  BY <1>21 DEF PumpQuits, StopSession
<1>22. CASE PumpGivesUp
  BY <1>22 DEF PumpGivesUp, Verdict, DeadPath
<1>23. CASE TooManyResumes
  BY <1>23 DEF TooManyResumes, FailAndReturn, StopSession
<1>24. CASE Resume
  BY <1>24 DEF Resume, Rearm, ResumesNow, NewWindow, Inherited
<1>25. CASE NoResumeAsked
  BY <1>25 DEF NoResumeAsked
<1>26. CASE RetryTransport
  BY <1>26 DEF RetryTransport, StopSession, Inherited
<1>27. CASE WakeConsole
  BY <1>27 DEF WakeConsole, StopSession
<1>28. CASE NoAttemptLeft
  BY <1>28 DEF NoAttemptLeft, FailAndReturn, StopSession
<1>29. CASE QuitBetween
  BY <1>29 DEF QuitBetween, StopSession
<1>30. CASE BackoffEnds
  BY <1>30 DEF BackoffEnds
<1>31. CASE IceChanges
  BY <1>31 DEF IceChanges
<1>32. CASE ChannelsOpen
  BY <1>32 DEF ChannelsOpen
<1>33. CASE HandshakeAcked
  BY <1>33 DEF HandshakeAcked
<1>34. CASE ServerEnds
  BY <1>34 DEF ServerEnds
<1>35. CASE MediaArrives
  BY <1>35 DEF MediaArrives, Now
<1>36. CASE KeepaliveStall
  BY <1>36 DEF KeepaliveStall
<1>37. CASE Tick
  BY <1>37 DEF Tick, Older, OlderStamp, TypeOK, WatchOK, Stamps
<1>38. ASSUME NEW s \in SessionState, PollWaits(s) PROVE StampInv'
  BY <1>38 DEF PollWaits
<1>39. CASE UNCHANGED vars
  BY <1>39 DEF vars
<1> QED
  BY <1>1, <1>2, <1>3, <1>4, <1>5, <1>6, <1>7, <1>8, <1>9, <1>10, <1>11,
     <1>12, <1>13, <1>14, <1>15, <1>16, <1>17, <1>18, <1>19, <1>20, <1>21,
     <1>22, <1>23, <1>24, <1>25, <1>26, <1>27, <1>28, <1>29, <1>30, <1>31,
     <1>32, <1>33, <1>34, <1>35, <1>36, <1>37, <1>38, <1>39 DEF Next,
     Presenter, Worker, Poll, Signal, Pump, Revive, Callbacks

(* The stamps of the media and pump watchdogs (engine.cpp:1320-1342,        *)
(* 1507-1516) always date from the transport they judge.                    *)
THEOREM AlwaysStampsOfThisTransport == Spec => []StampsOfThisTransport
<1>1. Init => StampInv
  BY DEF Init, StampInv, StampsOfThisTransport
<1>2. StampInv => StampsOfThisTransport
  BY DEF StampInv
<1> QED
  BY SessionTypeCorrect, <1>1, <1>2, StampInvHolds, PTL DEF Spec
-----------------------------------------------------------------------------
(* However the worker returns (engine.cpp:764-1074), the presenter finds    *)
(* Failed or Stopped, unless it asked for the end itself.                   *)
THEOREM WorkerAlwaysLeavesVerdict == Spec => WorkerLeavesVerdict
<1> DEFINE Told == worker' = "done" /\ worker # "done" /\ ~quit
                  => state' \in {"Failed", "Stopped"}
<1>1. [Next]_vars => [Told]_vars
  <2> SUFFICES ASSUME [Next]_vars, worker' = "done", worker # "done", ~quit
               PROVE  state' \in {"Failed", "Stopped"}
    BY DEF vars
  <2> USE DEF FailAndReturn
  <2>1. CASE Start \/ UserLeaves \/ Presenter
    BY <2>1 DEF Start, UserLeaves, Presenter, StampDecoded, NoteFirstFrame, Promote, SeeEnd,
       BeginStop, Joined
  <2>2. CASE SignIn \/ RequestSession \/ WorkerThrows
    BY <2>2 DEF SignIn, RequestSession, WorkerThrows
  <2>3. CASE Poll
    BY <2>3 DEF Poll, PollWaits, PollProvisioned, PollFailed, PollQuits
  <2>4. CASE Signal
    BY <2>4 DEF Signal, CreatePeer, Signalled, SignallingFails, SignallingThrows
  <2>5. CASE Pump
    BY <2>5 DEF Pump, Turn, PumpFails, PumpEnds, PumpQuits, PumpGivesUp
  <2>6. CASE Revive
    BY <2>6 DEF Revive, TooManyResumes, Resume, NoResumeAsked, RetryTransport, WakeConsole,
       NoAttemptLeft, QuitBetween, BackoffEnds
  <2>7. CASE Callbacks \/ KeepaliveStall \/ Tick
    BY <2>7 DEF Callbacks, IceChanges, ChannelsOpen, HandshakeAcked, ServerEnds, MediaArrives,
       KeepaliveStall, Tick
  <2>8. CASE UNCHANGED vars
    BY <2>8 DEF vars
  <2> QED
    BY <2>1, <2>2, <2>3, <2>4, <2>5, <2>6, <2>7, <2>8 DEF Next, Worker
<1> QED
  BY <1>1, PTL DEF Spec, WorkerLeavesVerdict

=============================================================================
