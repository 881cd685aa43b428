----------------------------- MODULE InitRunner -----------------------------
(***************************************************************************)
(* Asynchronous initialisation (core/InitRunner.cpp with init_async).  The *)
(* main thread, once per camera frame, buffers and trims IMU data and      *)
(* calls try_initialize.  The dynamic solve runs on a background thread    *)
(* over snapshots; its outcome is polled, and a good one is committed: the *)
(* shadow state becomes the state and the frames seen since the launch are *)
(* replayed into its window of clones.                                     *)
(*                                                                         *)
(* Time is counted in frame intervals of 0.05 s: the rolling IMU floor of  *)
(* SqrtEstimator.cpp:100 lies two of them before the window, the pinned    *)
(* floor of InitRunner.cpp:160 one (the window offset rounds to zero).     *)
(***************************************************************************)
EXTENDS Integers, Sequences, FiniteSets

CONSTANTS
  MaxClone,      \* options.max_clone_size
  WindowTime,    \* init_window_time, in frames
  WaitForJerk,   \* zero velocity updates are off
  StartTime,     \* time of the first frame; see StartAssumption
  LastTime       \* bound: time of the last frame before initialisation

ASSUMPTION InitAssumption ==
  /\ {MaxClone, WindowTime} \subseteq Nat \ {0}
  /\ WaitForJerk \in BOOLEAN
  /\ LastTime \in Nat

(* The stream does not begin within 0.05 s of the clock's zero: the pin     *)
(* would be negative, and SqrtEstimator.cpp:104 takes that for no pin.      *)
ASSUMPTION StartAssumption == StartTime \in Nat \ {0}

NoPin == -1

VARIABLES
  now,           \* time of the newest camera frame
  imuFrom,       \* oldest IMU reading in the propagator's buffer
  pin,           \* trim_floor_pin_
  solve,         \* none (solve_pending_ is false), running, solved or failed
  launchTime,    \* newest camera time in the latest snapshot
  pendingTimes,  \* pending_cam_times_
  wasStatic,     \* is_static_prev_
  unfinished,    \* method choices whose finish_attempt is still to come
  still,         \* last_is_still_
  stateTime, clones,  \* of the live state
  pc

vars == <<now, imuFrom, pin, solve, launchTime, pendingTimes, wasStatic,
          unfinished, still, stateTime, clones, pc>>

bufferVars == <<now, imuFrom>>
solveVars  == <<solve, launchTime, pendingTimes, pin>>
jerkVars   == <<wasStatic, unfinished, still>>
stateVars  == <<stateTime, clones>>

Init ==
  /\ now = StartTime /\ imuFrom = StartTime /\ pin = NoPin
  /\ solve = "none" /\ launchTime = StartTime /\ pendingTimes = <<>>
  /\ wasStatic = FALSE /\ unfinished = 0 /\ still = FALSE
  /\ stateTime = 0 /\ clones = {}
  /\ pc = "idle"

Greater(a, b) == IF a > b THEN a ELSE b
Lesser(a, b)  == IF a < b THEN a ELSE b
-----------------------------------------------------------------------------
RollingFloor == now' - WindowTime - 2

(* Mutated form: an ordinary trim, whatever is in flight. *)
TrimFloorUnpinned == RollingFloor

TrimFloor == IF pin >= 0 THEN Lesser(RollingFloor, pin) ELSE RollingFloor

(* The IMU readings up to the next frame arrive, then its images. *)
NextFrame ==
  /\ pc = "idle" /\ now < LastTime
  /\ now' = now + 1
  /\ imuFrom' = IF TrimFloor > 0 THEN Greater(imuFrom, TrimFloor) ELSE imuFrom
  /\ pc' = "try"
  /\ UNCHANGED <<solveVars, jerkVars, stateVars>>

(* choose_method: the window is long enough and the images can be compared *)
Ready == pc = "try" /\ solve = "none" /\ now - StartTime >= WindowTime

NotReady ==
  /\ pc = "try" /\ solve = "none"
  /\ pc' = "idle"
  /\ UNCHANGED <<bufferVars, solveVars, jerkVars, stateVars>>

UseStatic(s)  == IF s THEN ~WaitForJerk ELSE wasStatic /\ WaitForJerk
UseDynamic(s) == ~s /\ ~UseStatic(s)

(* Mutated form: an attempt that chose no method does not count. *)
NoMethodUnfinished ==
  /\ Ready
  /\ still' = TRUE
  /\ ~UseStatic(TRUE)
  /\ unfinished' = unfinished + 1
  /\ pc' = "idle"
  /\ UNCHANGED <<wasStatic, bufferVars, solveVars, stateVars>>

(* A platform at rest is not initialised if a jerk has to come first. *)
NoMethod ==
  /\ Ready
  /\ still' = TRUE
  /\ ~UseStatic(TRUE)
  /\ wasStatic' = TRUE
  /\ pc' = "idle"
  /\ UNCHANGED <<unfinished, bufferVars, solveVars, stateVars>>

(* The static initialiser runs at once; a good outcome leaves no clone.    *)
TryStatic ==
  /\ Ready
  /\ \E s \in BOOLEAN : UseStatic(s) /\ still' = s /\ wasStatic' = s
  /\ \/ pc' = "initialized" /\ stateTime' \in imuFrom .. now
     \/ pc' = "idle" /\ UNCHANGED stateTime
  /\ UNCHANGED <<unfinished, clones, bufferVars, solveVars>>

(* launch_shadow_solve *)
LaunchSolve ==
  /\ Ready
  /\ UseDynamic(FALSE)
  /\ still' = FALSE /\ unfinished' = unfinished + 1
  /\ pin' = now - WindowTime - 1
  /\ solve' = "running"
  /\ launchTime' = now
  /\ pendingTimes' = Append(pendingTimes, now)
  /\ pc' = "idle"
  /\ UNCHANGED <<wasStatic, bufferVars, stateVars>>

(* The background thread touches nothing but its future and its snapshots. *)
FinishSolve ==
  /\ solve = "running"
  /\ solve' \in {"solved", "failed"}
  /\ UNCHANGED <<launchTime, pendingTimes, pin, bufferVars, jerkVars, stateVars, pc>>

StillRunning ==
  /\ pc = "try" /\ solve = "running"
  /\ pendingTimes' = Append(pendingTimes, now)
  /\ pc' = "idle"
  /\ UNCHANGED <<solve, launchTime, pin, bufferVars, jerkVars, stateVars>>

(* Mutated form: the outcome is taken without finish_attempt. *)
ResolveUnfinished(outcome) ==
  /\ pc = "try" /\ solve = outcome
  /\ solve' = "none"
  /\ pin' = NoPin
  /\ UNCHANGED <<launchTime, bufferVars, jerkVars>>

(* The attempt is resolved: finish_attempt, then the pin is released. *)
Resolve(outcome) ==
  /\ pc = "try" /\ solve = outcome
  /\ solve' = "none"
  /\ wasStatic' = still /\ unfinished' = unfinished - 1
  /\ pin' = NoPin
  /\ UNCHANGED <<launchTime, still, bufferVars>>

(* Mutated form: only a commit releases the pin. *)
RetryKeepingPin ==
  /\ pc = "try" /\ solve = "failed"
  /\ solve' = "none"
  /\ wasStatic' = still /\ unfinished' = unfinished - 1
  /\ pendingTimes' = <<>>
  /\ pc' = "idle"
  /\ UNCHANGED <<launchTime, pin, still, bufferVars, stateVars>>

(* Mutated form: the frames of a failed attempt stay recorded. *)
RetryKeepingTimes ==
  /\ Resolve("failed")
  /\ pendingTimes' = Append(pendingTimes, now)
  /\ pc' = "idle"
  /\ UNCHANGED stateVars

Retry ==
  /\ Resolve("failed")
  /\ pendingTimes' = <<>>
  /\ pc' = "idle"
  /\ UNCHANGED stateVars

(* Mutated form: the frame that finds the outcome is not recorded. *)
SwapStateForgettingFrame ==
  /\ Resolve("solved")
  /\ stateTime' = launchTime /\ clones' = {launchTime}
  /\ pc' = "replay"
  /\ UNCHANGED pendingTimes

(* commit_shadow_state begins: the shadow state ends at the snapshot's      *)
(* newest frame, with one clone there.                                      *)
SwapState ==
  /\ Resolve("solved")
  /\ pendingTimes' = Append(pendingTimes, now)
  /\ stateTime' = launchTime /\ clones' = {launchTime}
  /\ pc' = "replay"

(* One iteration of the catch-up loop; nothing is marginalised on the way. *)
Replay ==
  /\ pc = "replay" /\ pendingTimes # <<>>
  /\ IF Head(pendingTimes) > stateTime
       THEN stateTime' = Head(pendingTimes) /\ clones' = clones \cup {stateTime'}
       ELSE UNCHANGED stateVars
  /\ pendingTimes' = Tail(pendingTimes)
  /\ UNCHANGED <<solve, launchTime, pin, bufferVars, jerkVars, pc>>

FinalizeInitialization ==
  /\ pc = "replay" /\ pendingTimes = <<>>
  /\ pc' = "initialized"
  /\ UNCHANGED <<bufferVars, solveVars, jerkVars, stateVars>>

(* ~InitRunner waits for the future. *)
Destroy ==
  /\ pc \in {"idle", "initialized"} /\ solve # "running"
  /\ pc' = "destroyed"
  /\ UNCHANGED <<bufferVars, solveVars, jerkVars, stateVars>>

Finished == pc = "destroyed" /\ UNCHANGED vars

TryInitialize ==
  \/ NotReady \/ NoMethod \/ TryStatic \/ LaunchSolve
  \/ StillRunning \/ Retry \/ SwapState \/ Replay \/ FinalizeInitialization

Next == NextFrame \/ TryInitialize \/ FinishSolve \/ Destroy \/ Finished

Spec == Init /\ [][Next]_vars

-----------------------------------------------------------------------------
TypeOK ==
  /\ now \in StartTime .. Greater(StartTime, LastTime)
  /\ imuFrom \in StartTime .. now
  /\ pin \in {NoPin} \cup (0 .. now)
  /\ solve \in {"none", "running", "solved", "failed"}
  /\ launchTime \in StartTime .. now
  /\ pendingTimes \in Seq(StartTime .. now)
  /\ {wasStatic, still} \subseteq BOOLEAN
  /\ unfinished \in 0 .. 1
  /\ stateTime \in 0 .. now
  /\ clones \subseteq StartTime .. now
  /\ pc \in {"idle", "try", "replay", "initialized", "destroyed"}

(* The IMU buffer is pinned exactly while a solve is in flight: it never    *)
(* trims what a commit needs, and never grows for ever after a failure.     *)
PinnedWhileSolving == (pin # NoPin) <=> (solve # "none")

(* InitRunner.cpp:114: the jerk bookkeeping advances exactly once per       *)
(* attempt, so between two frames only the attempt in flight is unfinished. *)
AttemptsFinished == unfinished = IF solve = "none" THEN 0 ELSE 1

(* The recorded frames are exactly those since the launch of the solve in   *)
(* flight; a failed attempt leaves none behind for the next.                *)
PendingSinceLaunch ==
  pc \in {"idle", "initialized"} =>
    pendingTimes = IF solve = "none" THEN <<>>
                   ELSE [i \in 1 .. now - launchTime + 1 |-> launchTime + i - 1]

(* SqrtEstimator.h:148: "so the post-commit catch-up propagation never      *)
(* starves": the IMU data from the committed state's time on is all there.  *)
CatchUpNeverStarves == pc = "replay" => imuFrom <= stateTime

(* A committed filter has caught up with the frame that commits it, and has *)
(* a clone at each frame tracked since the launch.                          *)
WindowRebuilt ==
  pc = "initialized" /\ clones # {} =>
    stateTime = now /\ clones = launchTime .. now

(* StateOptions.h:60: the sliding window has a maximal size.  Between two   *)
(* frames the filter keeps at most one clone more than that.                *)
WindowWithinOptions == pc = "initialized" => Cardinality(clones) <= MaxClone + 1
=============================================================================
