------------------------------ MODULE MCStream ------------------------------
(* What a stream keeps going beside the video itself: the input channel,    *)
(* the choice of the frame a refresh shows, how it is fitted to the panel,  *)
(* and the display output.  The parts share no variable, so one run checks  *)
(* them side by side: an initial state picks a part and the others stay     *)
(* where they start.                                                        *)
EXTENDS InputChannel

CONSTANTS
    Reserve, Surplus, PeriodTicks, MaxBurst,
    PanelW, PanelH, Widths, Heights,
    UiSize, VideoSizes, MaxEvents

VARIABLES
    part,
    frames, flushing, shown, dropped, lag,
    frameW, frameH, fill, pan, halve, srcW, srcH, crop, dst,
    atomic, size, gen, back, alloc, pending, flipped, scan, queued, events, mode,
    target, presenting, gaveUp

Picker == INSTANCE FramePicker
Picture == INSTANCE PictureFit
Output == INSTANCE DrmOutput WITH pc <- presenting

ASSUME PartsAssumption ==
    Picker!PickerAssumption /\ Picture!FitAssumption /\ Output!DrmAssumption

pickerVars == <<frames, flushing, shown, dropped, lag>>
pictureVars == <<frameW, frameH, fill, pan, halve, srcW, srcH, crop, dst>>
outputVars == <<atomic, size, gen, back, alloc, pending, flipped, scan, queued, events, mode,
                target, presenting, gaveUp>>
streamVars == <<part, vars, pickerVars, pictureVars, outputVars>>

StreamInit ==
    /\ part \in {"input", "picker", "picture", "output"}
    /\ Init /\ Picker!Init /\ Picture!Init /\ Output!Init
    /\ part # "output" => atomic

Input(A) == part = "input" /\ A /\ UNCHANGED <<part, pickerVars, pictureVars, outputVars>>

StreamNext ==
    \/ Input(Next)
    \/ /\ part = "picker" /\ Picker!Next
       /\ UNCHANGED <<part, vars, pictureVars, outputVars>>
    \/ /\ part = "picture" /\ Picture!Next
       /\ UNCHANGED <<part, vars, pickerVars, outputVars>>
    \/ /\ part = "output" /\ Output!Next
       /\ UNCHANGED <<part, vars, pickerVars, pictureVars>>

(* InputChannel's fairness. *)
StreamFairness ==
    /\ WF_streamVars(Input(Send)) /\ WF_streamVars(Input(Pumped)) /\ WF_streamVars(Input(Stats))
    /\ SF_streamVars(Input(Tick)) /\ WF_streamVars(Input(Drain))
    /\ SF_streamVars(Input(PresenterUnlocks))
    /\ SF_streamVars(Input(Pumped /\ ~presenter /\ backoff = 0))
    /\ SF_streamVars(Input(Connect)) /\ SF_streamVars(Input(HandshakeAck))

StreamSpec == StreamInit /\ [][StreamNext]_streamVars /\ StreamFairness

-----------------------------------------------------------------------------
(* The properties of the parts; the input channel's own come with it.       *)

(* Every variable of every part keeps its type.                             *)
PartsTypeOK == TypeOK /\ Picker!TypeOK /\ Picture!TypeOK /\ Output!TypeOK

(* Catching up with a backlog (VideoPipeline::pick()): a refresh that drops *)
(* frames shows one, no refresh leaves a stall's worth behind, and a frame  *)
(* is shown late only while there is nothing left to drop.                  *)
CatchUp == Picker!CatchUp

(* letterbox() and prepare_frame(): whatever the server sends and the menu  *)
(* says, the plane reads inside its source and paints inside the panel, and *)
(* what the CPU halved is left nothing to scale.                            *)
PictureFits == Picture!PlaneInside /\ Picture!HalvedExactly

(* The buffer being filled is neither on screen nor on its way there, stale *)
(* flip events and waits that gave up included (wait_for_flip()).           *)
NoTear == Output!NoTear

(* The plane is not left empty by a change of size (drm_out_set_source()),  *)
(* and a refresh without a frame repeats the picture that is on screen      *)
(* (drm_out_recommit()).                                                    *)
PlaneSteps == Output!PlaneKept /\ Output!HeldRepeats
=============================================================================
