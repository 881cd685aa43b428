---------------------------- MODULE DynamicInit ----------------------------
(***************************************************************************)
(* The synchronous dynamic initialisation (the default): before there is a *)
(* state, each frame may start an attempt on the images of the last        *)
(* seconds.  DynamicInitializer picks key frames, Solver propagates the    *)
(* live State object through them, iterates, keeps SLAM landmarks, and     *)
(* either hands the State over to the filter or gives it back to the next  *)
(* attempt.  What the numeric parts decide (is there motion, does a        *)
(* landmark triangulate, has the solve converged) is a free choice.  One   *)
(* camera.                                                                 *)
(***************************************************************************)
EXTENDS Integers, FiniteSetsExt, FeatureDatabase
LOCAL INSTANCE Functions

CONSTANTS
  Feats,         \* feature ids
  MaxClone,      \* max_clone_size
  NumPose,       \* init_dyn_num_pose
  WindowTime,    \* init_window_time, in frames
  WindowOffset,  \* init_window_offset, in frames
  MaxFeat,       \* init_max_feat
  MinFeat,       \* init_min_feat
  MaxInitSlam,   \* init_max_slam
  MaxIter,       \* init_dyn_mle_max_iter
  Disparities,   \* values of average disparity between two images
  LastTime       \* frames that arrive (bound)

Images == 1 .. LastTime

(* Mutated form: a slot for every clone the window may end with.            *)
RingSizeAtRest == MaxClone + 1

RingSize == MaxClone + 2

(* The pose ring, two longer than the window, must outlast an attempt and   *)
(* what the failed attempts before it left behind.  Nothing in the code     *)
(* says so.                                                                 *)
ASSUMPTION DynamicAssumption ==
  /\ IsFiniteSet(Feats)
  /\ {MaxClone, WindowTime, WindowOffset, MaxFeat, MinFeat, MaxInitSlam, MaxIter,
      LastTime} \subseteq Nat
  /\ MinFeat > 0
  /\ NumPose \in 2 .. LastTime
  /\ MaxClone >= 2 * (NumPose - 2)
  /\ Disparities \subseteq Nat /\ IsFiniteSet(Disparities)

NoTime == -1     \* the state's time after a failed solve

VARIABLES
  frame, db,       \* frames so far; the tracker's feature database
  images, disp, keyframes, maxTime, remaining,   \* the key frame selection
  timestamp, clones, poses,   \* State: time, clones, pose ring
  slam, msckf,     \* State: landmarks, with the clones they are anchored at
  delta,           \* State: xk_minus_x0_, "zero" or a solve's "step"
  options,         \* State: do_fej and feat_rep_msckf, as configured or not
  isInit,          \* State: is_initialized
  backup,          \* do_fej_backup, feat_rep_msckf_backup
  vec,             \* features_vec_: ids of the features solved for
  iter,            \* iterations done
  pc               \* the next step of the attempt; "frame" if there is none

KF  == INSTANCE Keyframing
Buf == INSTANCE CameraPoseBuffer WITH Capacity <- RingSize

trackVars  == <<frame, db>>
selectVars == <<images, disp, keyframes, maxTime, remaining>>
stateVars  == <<timestamp, clones, poses, slam, msckf, isInit>>
solveVars  == <<delta, options, backup, vec, iter>>
vars == <<trackVars, selectVars, stateVars, solveVars, pc>>

Nothing == [x \in {} |-> 0]

Init ==
  /\ frame = 0 /\ db = EmptyDatabase
  /\ images = {} /\ disp = Nothing /\ keyframes = {} /\ maxTime = 0 /\ remaining = 0
  /\ timestamp = NoTime /\ clones = {} /\ poses = Buf!EmptyBuffer
  /\ slam = Nothing /\ msckf = Nothing /\ isInit = FALSE
  /\ delta = "zero" /\ options = "configured" /\ backup = "configured"
  /\ vec = {} /\ iter = 0
  /\ pc = "frame"

-----------------------------------------------------------------------------
(* A frame extends tracks that were seen in the frame before and starts new *)
(* ones; a lost track's id does not come back.                              *)
Frame ==
  /\ pc = "frame" /\ ~isInit /\ frame < LastTime
  /\ frame' = frame + 1
  /\ \E S \in SUBSET Feats :
       /\ \A f \in S \cap DOMAIN db : frame \in db[f]
       /\ db' = UpdateFeatures(db, S, frame')
  /\ pc' = "choose"
  /\ UNCHANGED <<selectVars, stateVars, solveVars>>

(* Back to the driver without a state                                       *)
Leave ==
  /\ pc' = "frame"
  /\ images' = {} /\ disp' = Nothing /\ keyframes' = {} /\ maxTime' = 0 /\ remaining' = 0

WindowStart == Max(Measured(db)) - WindowTime - WindowOffset

WindowReached ==
  /\ Measured(db) # {}
  /\ Max(Measured(db)) - Min(Measured(db)) >= WindowTime
  /\ WindowStart >= 0

(* choose_method: once the window is long enough, what lies before it is    *)
(* dropped.  Then the disparities may not suffice, or call for no           *)
(* initialisation or for a static one, whose failure leaves nothing behind. *)
ChooseMethod ==
  /\ pc = "choose"
  /\ db' = IF WindowReached THEN CleanupMeasurements(db, WindowStart) ELSE db
  /\ \/ Leave
     \/ WindowReached /\ pc' = "window" /\ UNCHANGED selectVars
  /\ UNCHANGED <<frame, stateVars, solveVars>>

EnoughImages ==
  /\ Max(Measured(db)) - Min(Measured(db)) + WindowOffset >= WindowTime
  /\ Cardinality(Measured(db)) >= NumPose

CheckWindow ==
  /\ pc = "window"
  /\ IF EnoughImages THEN KF!Begin(Measured(db)) /\ pc' = "keyframes" ELSE Leave
  /\ UNCHANGED <<trackVars, stateVars, solveVars>>

AddKeyframe ==
  /\ pc = "keyframes"
  /\ KF!AddKeyframe
  /\ UNCHANGED <<trackVars, stateVars, solveVars, pc>>

(* The rotation, the preintegration, the linear system or the refinement of *)
(* gravity fails; the State object has not been touched yet.                *)
Refuse ==
  /\ pc = "keyframes" /\ remaining = 0
  /\ Leave
  /\ UNCHANGED <<trackVars, stateVars, solveVars>>

-----------------------------------------------------------------------------
(* StateHelper::initialize_state.  Neither the pose ring nor xk_minus_x0_   *)
(* nor the options start again.                                             *)
InitializeState(t) ==
  /\ timestamp' = t
  /\ poses' = Buf!AddTimestamp(poses, t)
  /\ clones' = {} /\ slam' = Nothing /\ msckf' = Nothing /\ isInit' = FALSE

KeyMeasurements(f) == Cardinality(db[f] \cap keyframes)

(* The MaxFeat inliers with most measurements in key frames; sort is not    *)
(* stable, so ties go either way.                                           *)
Ranked(inliers) ==
  {V \in SUBSET inliers :
     /\ Cardinality(V) = Min({MaxFeat, Cardinality(inliers)})
     /\ \A f \in V, g \in inliers \ V : KeyMeasurements(f) >= KeyMeasurements(g)}

BeginSolve ==
  /\ pc = "keyframes" /\ remaining = 0 /\ Cardinality(keyframes) >= NumPose
  /\ InitializeState(Min(keyframes))
  /\ backup' = options /\ options' = "solver"
  /\ \E inliers \in SUBSET DOMAIN db : vec' \in Ranked(inliers)
  /\ iter' = 0
  /\ pc' = "propagate"
  /\ images' = {} /\ disp' = Nothing /\ maxTime' = 0
  /\ UNCHANGED <<trackVars, keyframes, remaining, delta>>

Ahead == {t \in keyframes : t > timestamp}

(* Every key frame but the first, where the state starts, becomes a clone.  *)
CloneKeyframe ==
  /\ pc = "propagate" /\ Ahead # {}
  /\ timestamp' = Min(Ahead)
  /\ poses' = Buf!AddTimestamp(poses, timestamp')
  /\ clones' = clones \cup {timestamp'}
  /\ UNCHANGED <<trackVars, selectVars, slam, msckf, isInit, solveVars, pc>>

(* resize_U_to_square keeps the entries xk_minus_x0_ has.                   *)
StartIterations ==
  /\ pc = "propagate" /\ Ahead = {}
  /\ pc' = IF MaxIter = 0 THEN "conclude" ELSE "iterate"
  /\ UNCHANGED <<trackVars, selectVars, stateVars, solveVars>>

Countable == {f \in vec : Cardinality(db[f] \cap clones) >= 2}

(* Triangulation anchors a feature at the newest of its measurements.       *)
Anchor(f) == Max(db[f] \cap clones)

(* UpdaterMSCKF::update, iterative: the features that triangulate and have  *)
(* small residuals and a Jacobian; one in the state may fail and come again.*)
LinearSystems == {[f \in D |-> Anchor(f)] : D \in SUBSET Countable}

(* iterative_update_llt moves the variables by a solve's step instead of by *)
(* the last one, which it downdates first.                                  *)
IterativeUpdate == delta' = "step"

Enough(n) == n >= MinFeat

(* Two ways out of solve() return at once: nothing is triangulated, or the  *)
(* state is not a number any more.                                          *)
Iterate ==
  /\ pc = "iterate"
  /\ msckf' \in LinearSystems
  /\ IF msckf' = Nothing
     THEN pc' = "failed" /\ UNCHANGED delta
     ELSE /\ IterativeUpdate
          /\ pc' \in {"failed", "iterate", "landmarks"}
          /\ pc' = "iterate" => iter + 1 < MaxIter
          /\ pc' = "landmarks" =>
               iter + 1 = MaxIter \/ Enough(Cardinality(DOMAIN msckf'))
  /\ iter' = iter + 1
  /\ UNCHANGED <<trackVars, selectVars, timestamp, clones, poses, slam, isInit, options,
                 backup, vec>>

-----------------------------------------------------------------------------
(* Every landmark found in the newest image is moved there, chosen or not.  *)
AnchorsMoved(inView) ==
  [f \in DOMAIN msckf |-> IF f \in inView THEN timestamp ELSE msckf[f]]

(* select_slam_features: all landmarks in view when they fit, else one per  *)
(* grid cell and round.  The limit ends only the inner of the two loops, so *)
(* every round after the limit adds one more.                               *)
Selections(inView) ==
  IF Cardinality(inView) <= MaxInitSlam THEN {inView}
  ELSE {C \in SUBSET inView : Cardinality(C) >= MaxInitSlam}

(* With a limit of zero the selection returns before it looks for any.      *)
InViews ==
  IF MaxInitSlam = 0 THEN {{}} ELSE SUBSET {f \in DOMAIN msckf : timestamp \in db[f]}

(* delayed_init_from_MSCKF: the chosen landmarks with a Jacobian            *)
DelayedInit(chosen, moved) == {Restrict(moved, L) : L \in SUBSET chosen}

(* The covariance update.  Landmarks that were not chosen may fail in the   *)
(* MSCKF update that follows and go.                                        *)
SelectLandmarks ==
  /\ pc = "landmarks"
  /\ IF Enough(Cardinality(DOMAIN msckf))
     THEN \E inView \in InViews : \E chosen \in Selections(inView) :
            /\ slam' \in DelayedInit(chosen, AnchorsMoved(inView))
            /\ \E gone \in SUBSET (DOMAIN msckf \ chosen) :
                 msckf' = Restrict(AnchorsMoved(inView), DOMAIN msckf \ gone)
     ELSE UNCHANGED <<slam, msckf>>
  /\ pc' = "conclude"
  /\ UNCHANGED <<trackVars, selectVars, timestamp, clones, poses, isInit, solveVars>>

(* A SLAM landmark counts twice: its MSCKF entry is still there.            *)
TotalGoodFeat == Cardinality(DOMAIN msckf) + Cardinality(DOMAIN slam)

Conclude ==
  /\ pc = "conclude"
  /\ options' = backup
  /\ IF Enough(TotalGoodFeat) \/ MaxIter = 0
     THEN pc' = "solved" /\ msckf' = Nothing
     ELSE pc' = "failed" /\ UNCHANGED msckf
  /\ UNCHANGED <<trackVars, selectVars, timestamp, clones, poses, slam, isInit, delta,
                 backup, vec, iter>>

(* The Solver object goes out of scope.                                     *)
EndSolve == backup' = "configured" /\ vec' = {} /\ iter' = 0

Fail ==
  /\ pc = "failed"
  /\ InitializeState(NoTime)
  /\ EndSolve /\ Leave
  /\ UNCHANGED <<trackVars, delta, options>>

(* Mutated form: the measurements at the state's own time stay.             *)
DropBefore == Retain(db, {u \in Measured(db) : u >= timestamp})

(* finalize_initialization: "from before the initialization time"           *)
DropUsed == CleanupMeasurements(db, timestamp)

(* The tail of initialize(), and finalize_initialization behind it          *)
Succeed ==
  /\ pc = "solved"
  /\ clones' = clones \cap {timestamp}
  /\ poses' = [poses EXCEPT !.slotOf = Restrict(@, DOMAIN @ \ (clones \ {timestamp}))]
  /\ isInit' = TRUE
  /\ db' = DropUsed
  /\ EndSolve /\ Leave
  /\ UNCHANGED <<frame, timestamp, slam, msckf, delta, options>>

(* The filter has its state, or the stream has ended.                       *)
Finished == pc = "frame" /\ (isInit \/ frame = LastTime) /\ UNCHANGED vars

Solve ==
  \/ BeginSolve \/ CloneKeyframe \/ StartIterations \/ Iterate
  \/ SelectLandmarks \/ Conclude \/ Fail \/ Succeed

Next ==
  \/ Frame \/ ChooseMethod \/ CheckWindow \/ AddKeyframe \/ Refuse
  \/ Solve
  \/ Finished

Spec == Init /\ [][Next]_vars

-----------------------------------------------------------------------------
Times == Images \cup {NoTime}

TypeOK ==
  /\ frame \in 0 .. LastTime
  /\ \A f \in DOMAIN db : f \in Feats /\ db[f] # {} /\ db[f] \subseteq 1 .. frame
  /\ pc = "keyframes" => KF!TypeOK
  /\ timestamp \in Times /\ clones \subseteq Images
  /\ DOMAIN poses.slotOf \subseteq Times /\ poses.next \in Buf!Slots
  /\ \A t \in DOMAIN poses.slotOf : poses.slotOf[t] \in Buf!Slots
  /\ DOMAIN slam \subseteq Feats /\ DOMAIN msckf \subseteq Feats
  /\ delta \in {"zero", "step"} /\ {options, backup} \subseteq {"configured", "solver"}
  /\ isInit \in BOOLEAN /\ vec \subseteq DOMAIN db /\ iter \in 0 .. MaxIter

(* keyframing returns as many distinct images as initialize() then demands  *)
(* (DynamicInitializer.cpp:117), whatever images the window is left with.   *)
EnoughKeyframes == pc = "keyframes" => KF!EnoughKeyframes

(* calculate_clone_poses and the Jacobians read the ring without a look:    *)
(* through retries that leave their entries behind and images that are key  *)
(* frames again, every clone has a slot of its own, and every landmark is   *)
(* anchored at a clone (State::get_clone_pose returns null otherwise).      *)
PosesFound ==
  /\ \A t \in clones : Buf!Cached(poses, t)
  /\ Buf!OwnSlot(poses, clones)
  /\ \A f \in DOMAIN slam : slam[f] \in clones
  /\ \A f \in DOMAIN msckf : msckf[f] \in clones

(* What the filter starts with (SlidingWindow's InitDynamic): one clone, at *)
(* the newest image; every landmark seen there and anchored there; a slot   *)
(* of the pose ring that is among the last two handed out; no measurement   *)
(* the solve has used left for the filter to use again.                     *)
HandsOver ==
  isInit =>
    /\ clones = {timestamp}
    /\ \A f \in DOMAIN slam : slam[f] = timestamp
    /\ \E age \in {1, 2} : poses.next = (poses.slotOf[timestamp] + age) % RingSize
    /\ Measured(db) = {}

(* DynamicInitializer.cpp:363: "initialize_state() already performs a full  *)
(* reset of the state object", so that the next attempt starts from         *)
(* nothing.                                                                 *)
FullReset ==
  pc = "frame" /\ ~isInit =>
    /\ delta = "zero"
    /\ options = "configured"
    /\ DOMAIN poses.slotOf \subseteq {timestamp}
=============================================================================
