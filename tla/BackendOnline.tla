---------------------------- MODULE BackendOnline ---------------------------
(***************************************************************************)
(* The online windowed bundle adjustment (backend/BackendSystem.cpp) and   *)
(* the driver's loop around it (run_euroc_sqrt.cpp).  The filter's thread  *)
(* records a keyframe before a frame's update and its pose after it, and   *)
(* polls for refined poses to feed back.  A worker thread solves the       *)
(* newest window of keyframes, without the recording lock, publishes the   *)
(* refined poses under a second mutex and writes them back into the        *)
(* keyframes.                                                              *)
(*                                                                         *)
(* A section under one mutex is one step.  What a pose is worth is only    *)
(* who computed it: nobody, the filter, or the n-th publication.           *)
(***************************************************************************)
EXTENDS Integers, Sequences, FiniteSets

CONSTANTS
  KeyframeStride,     \* keyframe_stride
  WindowSize,         \* window_size
  SolveStride,        \* window_solve_stride
  LastFrame           \* bound: frames the driver processes; frame t has time t

ASSUMPTION BackendAssumption ==
  /\ {KeyframeStride, WindowSize, SolveStride} \subseteq Nat \ {0}
  /\ LastFrame \in Nat

Unposed       == 0
FilterPose    == 1
SolvedPose(n) == n + 1  \* refined by the n-th publication
NeverPolled   == -1

VARIABLES
  frame,          \* frames processed so far (record_count_)
  keyframes,      \* keyframes_
  pending,        \* keyframe_pending_pose_
  calibrated,     \* calib_ready_
  stop,           \* worker_stop_
  solvedThrough,  \* solved_through_keyframe_
  worker,         \* where the worker thread is
  used,           \* times of the keyframes of the solve in progress
  refined,        \* refined_poses_, by keyframe time; Unposed: no entry
  published,      \* publications so far
  solveCount,     \* online_solve_count_
  filter,         \* where the filter's thread is
  polled,         \* last_backend_solve_count
  applied         \* the newest publication fed back to the filter

recordVars == <<keyframes, pending, calibrated>>
solveVars  == <<used, refined, published, solveCount>>
filterVars == <<frame, filter, polled, applied>>
vars == <<recordVars, stop, solvedThrough, worker, solveVars, filterVars>>

WorkerAt == {"check", "blocked", "solve", "publish", "warm_start", "count", "exited"}
FilterAt == {"idle", "process", "notify", "poll", "fetch",
             "stop_notify", "join", "offline", "done"}

Keyframe == [time : 1 .. LastFrame, pose : 0 .. LastFrame + 1, tracked : BOOLEAN]

Init ==
  /\ frame = 0 /\ keyframes = <<>> /\ pending = FALSE /\ calibrated = FALSE
  /\ stop = FALSE /\ solvedThrough = 0 /\ worker = "check"
  /\ used = {} /\ refined = [t \in 1 .. LastFrame |-> Unposed]
  /\ published = 0 /\ solveCount = 0
  /\ filter = "idle" /\ polled = NeverPolled /\ applied = 0

-----------------------------------------------------------------------------
(* The filter's thread *)

(* record_observations: only every KeyframeStride-th frame is a keyframe,   *)
(* and it may have no observation.                                          *)
RecordObservations ==
  /\ filter = "idle" /\ frame < LastFrame
  /\ frame' = frame + 1
  /\ IF frame % KeyframeStride = 0
       THEN /\ \E tracked \in BOOLEAN :
                 keyframes' = Append(keyframes, [time |-> frame', pose |-> Unposed,
                                                 tracked |-> tracked])
            /\ pending' = TRUE
       ELSE UNCHANGED <<keyframes, pending>>
  /\ filter' = "process"
  /\ UNCHANGED <<calibrated, stop, solvedThrough, worker, solveVars, polled, applied>>

(* process_frame and record_pose.  The pose is attached if the newest clone *)
(* has the frame's time, that is if the frame has moved the filter.         *)
RecordPose ==
  /\ filter = "process"
  /\ calibrated' = TRUE
  /\ pending' = FALSE
  /\ \/ /\ pending
        /\ keyframes' = [keyframes EXCEPT ![Len(keyframes)].pose = FilterPose]
        /\ filter' = "notify"
     \/ UNCHANGED keyframes /\ filter' = "poll"
  /\ UNCHANGED <<stop, solvedThrough, worker, solveVars, frame, polled, applied>>

(* Mutated form: the complete keyframe is announced to nobody. *)
NotifyNobody ==
  /\ filter = "notify"
  /\ filter' = "poll"
  /\ UNCHANGED <<recordVars, stop, solvedThrough, worker, solveVars, frame, polled, applied>>

NotifyKeyframe ==
  /\ filter = "notify"
  /\ worker' = IF worker = "blocked" THEN "check" ELSE worker
  /\ filter' = "poll"
  /\ UNCHANGED <<recordVars, stop, solvedThrough, solveVars, frame, polled, applied>>

(* The driver reads the atomic counter first ... *)
PollSolveCount ==
  /\ filter = "poll"
  /\ polled' = solveCount
  /\ filter' = IF solveCount # polled THEN "fetch" ELSE "idle"
  /\ UNCHANGED <<recordVars, stop, solvedThrough, worker, solveVars, frame, applied>>

(* ... and then the poses, if the count has changed. *)
ApplyRefinedPoses ==
  /\ filter = "fetch"
  /\ applied' = published
  /\ filter' = "idle"
  /\ UNCHANGED <<recordVars, stop, solvedThrough, worker, solveVars, frame, polled>>

(* run_offline_ba and the destructor begin alike. *)
Stop ==
  /\ filter = "idle"
  /\ stop' = TRUE
  /\ filter' = "stop_notify"
  /\ UNCHANGED <<recordVars, solvedThrough, worker, solveVars, frame, polled, applied>>

(* Mutated form: the worker is told to stop, but not woken up. *)
StopSilently ==
  /\ filter = "stop_notify"
  /\ filter' = "join"
  /\ UNCHANGED <<recordVars, stop, solvedThrough, worker, solveVars, frame, polled, applied>>

StopNotifies ==
  /\ filter = "stop_notify"
  /\ worker' = IF worker = "blocked" THEN "check" ELSE worker
  /\ filter' = "join"
  /\ UNCHANGED <<recordVars, stop, solvedThrough, solveVars, frame, polled, applied>>

(* Mutated form: the recorded data is read while the worker may still run. *)
SkipJoin ==
  /\ filter = "join"
  /\ filter' = "offline"
  /\ UNCHANGED <<recordVars, stop, solvedThrough, worker, solveVars, frame, polled, applied>>

Join ==
  /\ filter = "join" /\ worker = "exited"
  /\ filter' = "offline"
  /\ UNCHANGED <<recordVars, stop, solvedThrough, worker, solveVars, frame, polled, applied>>

(* The offline adjustment reads keyframes_ and takes no lock. *)
SolveOffline ==
  /\ filter = "offline"
  /\ filter' = "done"
  /\ UNCHANGED <<recordVars, stop, solvedThrough, worker, solveVars, frame, polled, applied>>

-----------------------------------------------------------------------------
(* The worker thread *)

(* Mutated form: any window of keyframes is due, solved already or not. *)
SolveDueAgain ==
  /\ calibrated
  /\ Len(keyframes) >= WindowSize

(* The predicate of the wait, apart from worker_stop_ *)
SolveDue ==
  /\ calibrated
  /\ Len(keyframes) >= WindowSize
  /\ Len(keyframes) >= solvedThrough + SolveStride

Window == SubSeq(keyframes, Len(keyframes) - WindowSize + 1, Len(keyframes))

(* Mutated form: keyframes without a pose enter the solve. *)
UsablePosedOrNot(kf) == kf.tracked

(* build_reconstruction drops the others. *)
Usable(kf) == kf.pose # Unposed /\ kf.tracked

(* The wait's predicate and, in the same critical section, the snapshot *)
WorkerChecks ==
  /\ worker = "check"
  /\ IF ~stop /\ SolveDue
       THEN /\ solvedThrough' = Len(keyframes)
            /\ used' = {Window[i].time : i \in {j \in DOMAIN Window : Usable(Window[j])}}
            /\ worker' = "solve"
       ELSE /\ worker' = IF stop THEN "exited" ELSE "blocked"
            /\ UNCHANGED <<solvedThrough, used>>
  /\ UNCHANGED <<recordVars, stop, refined, published, solveCount, filterVars>>

(* solve_and_export refuses fewer than two frames; too little to solve and  *)
(* an unusable solution come to the same.                                   *)
Solvable == Cardinality(used) >= 2

Solve ==
  /\ worker = "solve"
  /\ \/ Solvable /\ worker' = "publish"
     \/ worker' = "count"
  /\ UNCHANGED <<recordVars, stop, solvedThrough, solveVars, filterVars>>

Publish ==
  /\ worker = "publish"
  /\ published' = published + 1
  /\ refined' = [t \in DOMAIN refined |->
                   IF t \in used THEN SolvedPose(published') ELSE refined[t]]
  /\ worker' = "warm_start"
  /\ UNCHANGED <<recordVars, stop, solvedThrough, used, solveCount, filterVars>>

(* Mutated form: the window is taken to be the end of the list still. *)
WarmStartAtEnd ==
  /\ worker = "warm_start"
  /\ keyframes' = [i \in DOMAIN keyframes |->
                     IF i > Len(keyframes) - Cardinality(used)
                       THEN [keyframes[i] EXCEPT !.pose = SolvedPose(published)]
                       ELSE keyframes[i]]
  /\ worker' = "count"
  /\ UNCHANGED <<pending, calibrated, stop, solvedThrough, solveVars, filterVars>>

(* The keyframes are found again by their times. *)
WarmStart ==
  /\ worker = "warm_start"
  /\ keyframes' = [i \in DOMAIN keyframes |->
                     IF keyframes[i].time \in used
                       THEN [keyframes[i] EXCEPT !.pose = refined[keyframes[i].time]]
                       ELSE keyframes[i]]
  /\ worker' = "count"
  /\ UNCHANGED <<pending, calibrated, stop, solvedThrough, solveVars, filterVars>>

(* The counter moves whether or not anything was published. *)
CountSolve ==
  /\ worker = "count"
  /\ solveCount' = solveCount + 1
  /\ worker' = "check"
  /\ UNCHANGED <<recordVars, stop, solvedThrough, used, refined, published, filterVars>>

SpuriousWakeUp ==
  /\ worker = "blocked"
  /\ worker' = "check"
  /\ UNCHANGED <<recordVars, stop, solvedThrough, solveVars, filterVars>>

-----------------------------------------------------------------------------
(* Mutated form: the solve is counted before its poses are published. *)
SolveCounted ==
  /\ worker = "solve"
  /\ solveCount' = solveCount + 1
  /\ \/ Solvable /\ worker' = "publish"
     \/ worker' = "count"
  /\ UNCHANGED <<recordVars, stop, solvedThrough, used, refined, published, filterVars>>

WaitAgain ==
  /\ worker = "count"
  /\ worker' = "check"
  /\ UNCHANGED <<recordVars, stop, solvedThrough, solveVars, filterVars>>

WorkerStepCountingFirst ==
  WorkerChecks \/ SolveCounted \/ Publish \/ WarmStart \/ WaitAgain

WorkerStep == WorkerChecks \/ Solve \/ Publish \/ WarmStart \/ CountSolve

(* What the filter's thread does once it has begun a frame or a shutdown *)
FilterStep ==
  \/ RecordPose \/ NotifyKeyframe \/ PollSolveCount \/ ApplyRefinedPoses
  \/ StopNotifies \/ Join \/ SolveOffline

Finished == filter = "done" /\ UNCHANGED vars

Next == WorkerStep \/ SpuriousWakeUp \/ RecordObservations \/ FilterStep \/ Stop \/ Finished

Spec == Init /\ [][Next]_vars

(* Both threads are scheduled; a frame need not come, nor a shutdown. *)
FairSpec == Spec /\ WF_vars(WorkerStep) /\ WF_vars(FilterStep)

-----------------------------------------------------------------------------
TypeOK ==
  /\ frame \in 0 .. LastFrame
  /\ keyframes \in Seq(Keyframe)
  /\ {pending, calibrated, stop} \subseteq BOOLEAN
  /\ solvedThrough \in 0 .. Len(keyframes)
  /\ worker \in WorkerAt
  /\ used \subseteq {keyframes[i].time : i \in DOMAIN keyframes}
  /\ refined \in [1 .. LastFrame -> 0 .. LastFrame + 1]
  /\ published \in 0 .. LastFrame /\ solveCount \in 0 .. LastFrame
  /\ filter \in FilterAt
  /\ polled \in {NeverPolled} \cup (0 .. solveCount)
  /\ applied \in 0 .. published

(* The next window starts from the published solution: outside of the gap   *)
(* between publication and warm start, a keyframe with a refined pose holds *)
(* exactly that pose, however many keyframes were recorded meanwhile.       *)
WarmStartAgrees ==
  worker # "warm_start" =>
    \A i \in DOMAIN keyframes :
      LET t == keyframes[i].time IN
      refined[t] # Unposed => keyframes[i].pose = refined[t]

(* The filter never believes to have seen a publication it has not seen:    *)
(* once its poll has found the counter unchanged, only a publication that   *)
(* is still to be counted can be missing.                                   *)
NoPublicationMissed ==
  filter = "idle" /\ polled = solveCount /\ applied < published
    => worker \in {"warm_start", "count"} /\ applied + 1 = published

(* run_offline_ba reads keyframes and poses with no lock: whatever the      *)
(* worker was doing when it was told to stop, nothing it still had to write *)
(* is written once the offline adjustment has begun.                        *)
OfflineUndisturbed ==
  [][(filter \in {"offline", "done"}) => UNCHANGED <<keyframes, refined>>]_vars

(* No keyframe's pose is replaced by an older one, and none is reordered:   *)
(* the filter's late record_pose never overwrites what a solve wrote.       *)
PosesNeverRegress ==
  [][\A i \in DOMAIN keyframes :
       /\ keyframes'[i].time = keyframes[i].time
       /\ keyframes'[i].pose >= keyframes[i].pose]_vars

(* A due solve is not slept over once its newest keyframe is complete.      *)
DueSolveStarts ==
  SolveDue /\ keyframes[Len(keyframes)].pose # Unposed ~> worker = "solve" \/ stop

(* Shutting down ends, wherever the worker was. *)
StopReturns == filter = "stop_notify" ~> filter = "done"

(* BackendSystem.h:168: a change of the counter announces a publication the *)
(* filter has not fed back before.                                          *)
EveryFeedbackIsFresh ==
  [][ApplyRefinedPoses /\ published > 0 => published > applied]_vars
=============================================================================
