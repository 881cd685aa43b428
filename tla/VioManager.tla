----------------------------- MODULE VioManager -----------------------------
(***************************************************************************)
(* ov_msckf's VioManager, the estimator the square-root filter is compared *)
(* with: the frame loop of the driver's thread, the initialisation thread  *)
(* it launches and hands the state back, and what both share: the state's  *)
(* window of clones and SLAM landmarks with their places in the            *)
(* covariance, the feature database, the queue of frames that arrived      *)
(* during the initialisation, and the propagator's IMU history.            *)
(*                                                                         *)
(* Time is counted in camera frames; every time is a camera time.  The     *)
(* driver feeds the IMU readings up to a frame before the frame.           *)
(***************************************************************************)
EXTENDS Integers, Sequences, FiniteSets, Functions, FeatureDatabase

CONSTANTS
  MaxClone,      \* max_clone_size
  GateClones,    \* the 5 of VioManager.cpp:357
  MargClones,    \* the 5 of VioManager.cpp:383
  MaxSlam,       \* max_slam_features
  MaxMsckf,      \* max_msckf_in_update
  MaxSlamBatch,  \* max_slam_in_update
  SlamDelay,     \* dt_slam_delay, in frames
  CoreSize,      \* IMU and calibration, in rows of the covariance
  Feats,         \* feature ids
  CamOf,         \* the camera that sees a feature
  InitWindow,    \* init_window_time with its 0.2 s of slack, in frames
  InitLag,       \* how far an initialisation's time lies behind, at most
  TryZupt,       \* try_zupt
  ZuptOnlyAtBeginning,
  LastTime       \* frames that arrive (bound)

Cams  == {CamOf[f] : f \in Feats}
Times == 1 .. LastTime

ASSUMPTION VioAssumption ==
  /\ {MaxClone, GateClones, MargClones} \subseteq Nat \ {0}
  /\ MaxSlam \in Nat /\ MaxMsckf \in Nat /\ SlamDelay \in Nat
  /\ MaxSlamBatch \in Nat \ {0}
  /\ CoreSize \in Nat \ {0}
  /\ IsFiniteSet(Feats) /\ CamOf \in [Feats -> Nat]
  /\ InitWindow \in Nat /\ InitLag \in 0 .. InitWindow
  /\ TryZupt \in BOOLEAN /\ ZuptOnlyAtBeginning \in BOOLEAN
  /\ LastTime \in Nat

PoseSize == 6
FeatSize == 3

VARIABLES
  timestamp, clones, slam, fails, ids, rows,   \* the State object
  db, tracked,                  \* the tracker: its database, last tracks
  imuFrom,                      \* oldest time the IMU history covers
  frame, pc,                    \* the frame in work (with the cameras seen at
                                \* its time so far), the driver's next call
  isInit, hasMoved, didZupt,    \* is_initialized_vio and the like
  startup,                      \* startup_time
  zuptTime, zuptCount,          \* last_zupt_state_timestamp, last_zupt_count
  msckf, slamUpd, slamNew,      \* featsup_MSCKF, feats_slam_UPDATE, _DELAYED
  deleted,                      \* features marked to_delete
  used,                         \* measurements an update has used (history)
  running, success,             \* thread_init_running, thread_init_success
  queue,                        \* camera_queue_init
  tpc, solveTime, todo, rate    \* the thread's next step and its locals

stateVars == <<timestamp, clones, slam, fails, ids, rows>>
trackVars == <<db, tracked>>
frameVars == <<frame, isInit, hasMoved, didZupt, startup, zuptTime, zuptCount>>
updVars   == <<msckf, slamUpd, slamNew, deleted, used>>
initVars  == <<running, success, queue, tpc, solveTime, todo, rate>>
vars == <<stateVars, trackVars, imuFrom, frameVars, pc, updVars, initVars>>

-----------------------------------------------------------------------------
(* The covariance: every clone and landmark has a block of rows behind the  *)
(* calibration.  New blocks go to the end.                                  *)
CloneVar(t) == <<"clone", t>>
SlamVar(f)  == <<"slam", f>>
Size(v)     == IF v[1] = "clone" THEN PoseSize ELSE FeatSize

SizeOf(V) ==
  PoseSize * Cardinality({v \in V : v[1] = "clone"})
  + FeatSize * Cardinality({v \in V : v[1] = "slam"})

Appended(v) == [w \in DOMAIN ids \cup {v} |-> IF w = v THEN rows ELSE ids[w]]

(* Mutated form: the block right behind a removed one is not moved. *)
MarginalizedKeepingNext(gone) ==
  [v \in DOMAIN ids \ gone |->
     ids[v] - SizeOf({g \in gone : ids[g] + Size(g) < ids[v]})]

Marginalized(gone) ==
  [v \in DOMAIN ids \ gone |-> ids[v] - SizeOf({g \in gone : ids[g] < ids[v]})]

Oldest      == CHOOSE t \in clones : \A u \in clones : t <= u
Largest(S)  == CHOOSE u \in S : \A w \in S : w <= u
Smaller(a, b) == IF a <= b THEN a ELSE b
Larger(a, b)  == IF a >= b THEN a ELSE b
Overfull    == Cardinality(clones) > MaxClone
-----------------------------------------------------------------------------
InitCommon ==
  /\ clones = {} /\ slam = [f \in {} |-> 0] /\ fails = [f \in {} |-> 0]
  /\ ids = [v \in {} |-> 0] /\ rows = CoreSize
  /\ db = EmptyDatabase /\ tracked = {}
  /\ imuFrom = 0
  /\ frame = [time |-> 0, cams |-> {}, seen |-> {}] /\ pc = "idle"
  /\ hasMoved = FALSE /\ didZupt = FALSE
  /\ zuptTime = 0 /\ zuptCount = 0
  /\ msckf = {} /\ slamUpd = {} /\ slamNew = {} /\ deleted = {} /\ used = {}
  /\ running = FALSE /\ success = FALSE /\ queue = <<>>
  /\ tpc = "none" /\ solveTime = 0 /\ todo = <<>> /\ rate = 1

(* Nothing known yet; the state's time is before every frame.               *)
InitUnknown == isInit = FALSE /\ timestamp = 0 /\ startup = 0

(* initialize_with_gt, before any frame arrived                             *)
InitGroundTruth == isInit = TRUE /\ timestamp = 1 /\ startup = 1

Init == InitCommon /\ (InitUnknown \/ InitGroundTruth)

-----------------------------------------------------------------------------
(* feed_measurement_imu for the readings up to a frame at t: without an      *)
(* initialisation one window is kept, then all back to the oldest clone.    *)
(* Mutated form: with no clone, whose oldest time then is infinite, nothing  *)
(* before the frame is kept.                                                *)
ImuKeptUnchecked(t) ==
  IF ~isInit THEN Larger(imuFrom, t - InitWindow)
  ELSE IF clones = {} THEN t
  ELSE Larger(imuFrom, Oldest)

ImuKept(t) ==
  IF ~isInit THEN Larger(imuFrom, t - InitWindow)
  ELSE IF clones = {} THEN imuFrom
  ELSE Larger(imuFrom, Oldest)

(* A frame arrives one period after the last or, once there is a state, at  *)
(* the same time from other cameras.                                        *)
Arrives(t, cams) ==
  /\ t >= timestamp
  /\ t > frame.time \/ (isInit /\ t = frame.time /\ cams \cap frame.seen = {})

ZuptAllowed == isInit /\ TryZupt /\ (~ZuptOnlyAtBeginning \/ ~hasMoved)

(* An id that is neither tracked, stored nor in the state stands for a new  *)
(* feature; a lost track never comes back under its id.                     *)
Seen(cams) == {f \in Feats : CamOf[f] \in cams}
FreshIds   == Feats \ (tracked \cup DOMAIN db \cup DOMAIN slam)

(* IMU readings, then the frame: of the tracks in its cameras some survive, *)
(* new features are found, all of them get a measurement.                   *)
Frame(t, cams, survive, found) ==
  /\ pc = "idle"
  /\ Arrives(t, cams)
  /\ survive \subseteq tracked \cap Seen(cams)
  /\ found \subseteq FreshIds \cap Seen(cams)
  /\ tracked' = (tracked \ Seen(cams)) \cup survive \cup found
  /\ db' = UpdateFeatures(db, survive \cup found, t)
  /\ imuFrom' = ImuKept(t)
  /\ frame' = [time |-> t, cams |-> cams,
                seen |-> cams \cup (IF t = frame.time THEN frame.seen ELSE {})]
  /\ pc' = IF ZuptAllowed THEN "zupt" ELSE IF isInit THEN "propagate" ELSE "init"
  /\ UNCHANGED <<stateVars, isInit, hasMoved, didZupt, startup, zuptTime,
                 zuptCount, updVars, initVars>>

(* The state is at the frame's time already: the last decision holds.       *)
RepeatZupt ==
  /\ pc = "zupt" /\ timestamp = frame.time
  /\ pc' = IF didZupt THEN "idle" ELSE "propagate"
  /\ imuFrom' = IF didZupt THEN frame.time ELSE imuFrom
  /\ UNCHANGED <<stateVars, trackVars, frameVars, updVars, initVars>>

(* try_update refuses: too few readings (the count stays), or motion.       *)
RefuseZupt ==
  /\ pc = "zupt" /\ timestamp # frame.time
  /\ didZupt' = FALSE /\ zuptTime' = 0
  /\ zuptCount' \in {0, zuptCount}
  /\ pc' = "propagate"
  /\ UNCHANGED <<stateVars, trackVars, imuFrom, frame, isInit, hasMoved, startup,
                 updVars, initVars>>

(* The state moves to the frame's time without a clone there; from the      *)
(* third acceptance on, the measurements at the last such time are dropped. *)
AcceptZupt ==
  /\ pc = "zupt" /\ timestamp # frame.time
  /\ db' = IF zuptCount >= 2 THEN CleanupMeasurementsExact(db, zuptTime) ELSE db
  /\ didZupt' = TRUE /\ zuptTime' = frame.time
  /\ zuptCount' = Smaller(zuptCount + 1, 2)
  /\ timestamp' = frame.time
  /\ imuFrom' = frame.time
  /\ pc' = "idle"
  /\ UNCHANGED <<clones, slam, fails, ids, rows, tracked, frame, isInit, hasMoved,
                 startup, updVars, initVars>>

-----------------------------------------------------------------------------
(* try_to_initialize reads the thread's flags one after the other and then  *)
(* takes the queue's lock.  The thread holds it while it replays the queue. *)
QueueLocked == tpc \in {"replay", "shrink"}

SeeRunning ==
  /\ pc = "init" /\ running
  /\ pc' = "enqueue"
  /\ UNCHANGED <<stateVars, trackVars, imuFrom, frameVars, updVars, initVars>>

Enqueue ==
  /\ pc = "enqueue" /\ ~QueueLocked
  /\ queue' = Append(queue, frame.time)
  /\ pc' = "idle"
  /\ UNCHANGED <<stateVars, trackVars, imuFrom, frameVars, updVars, running,
                 success, tpc, solveTime, todo, rate>>

(* Mutated form: the success flag is looked at before the running flag. *)
SeeStoppedOrSuccess ==
  /\ pc = "init" /\ (success \/ ~running)
  /\ pc' = "stopped"
  /\ UNCHANGED <<stateVars, trackVars, imuFrom, frameVars, updVars, initVars>>

SeeStopped ==
  /\ pc = "init" /\ ~running
  /\ pc' = "stopped"
  /\ UNCHANGED <<stateVars, trackVars, imuFrom, frameVars, updVars, initVars>>

TakeOver ==
  /\ pc = "stopped" /\ success
  /\ isInit' = TRUE
  /\ pc' = "propagate"
  /\ UNCHANGED <<stateVars, trackVars, imuFrom, frame, hasMoved, didZupt, startup,
                 zuptTime, zuptCount, updVars, initVars>>

Launch ==
  /\ pc = "stopped" /\ ~success
  /\ running' = TRUE
  /\ tpc' = "begin"
  /\ pc' = "idle"
  /\ UNCHANGED <<stateVars, trackVars, imuFrom, frameVars, updVars, success, queue,
                 solveTime, todo, rate>>

-----------------------------------------------------------------------------
(* The thread: InertialInitializer drops what is older than its window and  *)
(* settles the time it solves for, that of the newest measurement or, when  *)
(* static, one up to half a window older; it has IMU readings up to there.  *)
BeginSolve ==
  /\ tpc = "begin" /\ db # EmptyDatabase
  /\ LET newest == Largest(Measured(db))
     IN  /\ db' = CleanupMeasurements(db, newest - InitWindow - 1)
         /\ solveTime' \in Larger(newest - InitLag, Larger(imuFrom, 1)) .. newest
  /\ tpc' = "solve"
  /\ UNCHANGED <<stateVars, tracked, imuFrom, frameVars, pc, updVars, running,
                 success, queue, todo, rate>>

SolveFails ==
  /\ tpc \in {"begin", "solve"}
  /\ tpc' = "clear"
  /\ success' = FALSE
  /\ solveTime' = 0
  /\ UNCHANGED <<stateVars, trackVars, imuFrom, frameVars, pc, updVars, running,
                 queue, todo, rate>>

ClearQueue ==
  /\ tpc = "clear"
  /\ queue' = <<>>
  /\ tpc' = "exit"
  /\ UNCHANGED <<stateVars, trackVars, imuFrom, frameVars, pc, updVars, running,
                 success, solveTime, todo, rate>>

SolveSucceeds ==
  /\ tpc = "solve"
  /\ timestamp' = solveTime /\ startup' = solveTime
  /\ db' = CleanupMeasurements(db, solveTime)
  /\ hasMoved' \in BOOLEAN
  /\ tpc' = "lock"
  /\ solveTime' = 0
  /\ UNCHANGED <<clones, slam, fails, ids, rows, tracked, imuFrom, frame, isInit,
                 didZupt, zuptTime, zuptCount, pc, updVars, running, success,
                 queue, todo, rate>>

(* With the queue locked: what of it is later than the solve's time (a tail,  *)
(* the times in it increase), of which every clone_rate-th is replayed.       *)
CloneRate(n) == n \div MaxClone + 1

(* Mutated form: the time of the initial state itself is replayed. *)
NotBefore(q, t) ==
  SubSeq(q, Cardinality({i \in DOMAIN q : q[i] < t}) + 1, Len(q))

LaterThan(q, t) ==
  SubSeq(q, Cardinality({i \in DOMAIN q : q[i] <= t}) + 1, Len(q))

StartReplay ==
  /\ tpc = "lock"
  /\ todo' = LaterThan(queue, startup)
  /\ rate' = CloneRate(Len(todo'))
  /\ tpc' = "replay"
  /\ UNCHANGED <<stateVars, trackVars, imuFrom, frameVars, pc, updVars, running,
                 success, queue, solveTime>>

(* Propagator::propagate_and_clone                                          *)
PropagateAndClone(t) ==
  /\ timestamp' = t
  /\ clones' = clones \cup {t}
  /\ ids' = Appended(CloneVar(t))
  /\ rows' = rows + PoseSize
  /\ UNCHANGED <<slam, fails>>

ReplayFrame ==
  /\ tpc = "replay" /\ todo # <<>>
  /\ PropagateAndClone(Head(todo))
  /\ todo' = SubSeq(todo, rate + 1, Len(todo))
  /\ tpc' = "shrink"
  /\ UNCHANGED <<trackVars, imuFrom, frameVars, pc, updVars, running, success,
                 queue, solveTime, rate>>

(* StateHelper::marginalize_old_clone                                       *)
MarginalizeOldClone ==
  IF Overfull
  THEN /\ clones' = clones \ {Oldest}
       /\ ids' = Marginalized({CloneVar(Oldest)})
       /\ rows' = rows - PoseSize
  ELSE UNCHANGED <<clones, ids, rows>>

ShrinkWindow ==
  /\ tpc = "shrink"
  /\ MarginalizeOldClone
  /\ tpc' = "replay"
  /\ UNCHANGED <<timestamp, slam, fails, trackVars, imuFrom, frameVars, pc, updVars,
                 running, success, queue, solveTime, todo, rate>>

Publish ==
  /\ tpc = "replay" /\ todo = <<>>
  /\ success' = TRUE
  /\ queue' = <<>> /\ rate' = 1
  /\ tpc' = "exit"
  /\ UNCHANGED <<stateVars, trackVars, imuFrom, frameVars, pc, updVars, running,
                 solveTime, todo>>

ThreadExit ==
  /\ tpc = "exit"
  /\ running' = FALSE
  /\ tpc' = "none"
  /\ UNCHANGED <<stateVars, trackVars, imuFrom, frameVars, pc, updVars, success,
                 queue, solveTime, todo, rate>>

-----------------------------------------------------------------------------
(* do_feature_propagate_update: a frame older than the state is dropped     *)
Propagate ==
  /\ pc = "propagate"
  /\ IF timestamp < frame.time THEN PropagateAndClone(frame.time)
     ELSE UNCHANGED stateVars
  /\ IF timestamp > frame.time \/ Cardinality(clones') < Smaller(MaxClone, GateClones)
     THEN pc' = "idle" /\ UNCHANGED hasMoved
     ELSE pc' = "select" /\ hasMoved' = TRUE
  /\ UNCHANGED <<trackVars, imuFrom, frame, isInit, didZupt, startup, zuptTime,
                 zuptCount, updVars, initVars>>

FeatsMarg ==
  IF Overfull \/ Cardinality(clones) > MargClones
  THEN FeaturesContaining(db, Oldest) ELSE {}

(* Mutated form: lost features of the oldest clone are in both lists. *)
FeatsLostAll == FeaturesNotContainingNewer(db, timestamp) \cap Seen(frame.cams)

FeatsLost ==
  (FeaturesNotContainingNewer(db, timestamp) \cap Seen(frame.cams)) \ FeatsMarg

MaxTracks == {f \in FeatsMarg : Cardinality(db[f]) > MaxClone}

(* The max tracks that become landmarks, some as many as there is room for  *)
Promoted ==
  LET room == IF frame.time - startup >= SlamDelay
              THEN Larger(MaxSlam - Cardinality(DOMAIN slam), 0) ELSE 0
  IN  {P \in SUBSET MaxTracks :
         Cardinality(P) = Smaller(room, Cardinality(MaxTracks))}

ShouldMarg ==
  {f \in DOMAIN slam : fails[f] > 1 \/ (f \notin DOMAIN db /\ CamOf[f] \in frame.cams)}

(* Of the rest the MSCKF update takes the longest tracks, up to its limit   *)
LongestTracks(S) ==
  {K \in SUBSET S :
     /\ Cardinality(K) = Smaller(MaxMsckf, Cardinality(S))
     /\ \A f \in K, g \in S \ K : Cardinality(db[f]) >= Cardinality(db[g])}

(* Feature selection, ended by marginalize_slam                             *)
Select ==
  /\ pc = "select"
  /\ slam' = Restrict(slam, DOMAIN slam \ ShouldMarg)
  /\ fails' = Restrict(fails, DOMAIN fails \ ShouldMarg)
  /\ LET gone == {SlamVar(f) : f \in ShouldMarg}
     IN  ids' = Marginalized(gone) /\ rows' = rows - SizeOf(gone)
  /\ \E P \in Promoted :
       LET feats == P \cup (DOMAIN slam \cap DOMAIN db)
       IN  /\ slamUpd' = feats \cap DOMAIN slam'
           /\ slamNew' = feats \ DOMAIN slam'
           /\ msckf' \in LongestTracks(FeatsLost \cup (FeatsMarg \ P))
  /\ pc' = "msckf"
  /\ UNCHANGED <<timestamp, clones, trackVars, imuFrom, frameVars, deleted, used,
                 initVars>>

(* Only measurements at clone times count (clean_old_measurements).         *)
Usable(f)   == db[f] \cap clones
Uses(S)     == UNION {{<<f, u>> : u \in Usable(f)} : f \in S}

(* Two measurements, a triangulation and a chi-square test decide; what was *)
(* tried is to be deleted either way.                                       *)
MsckfUpdate ==
  /\ pc = "msckf"
  /\ \E good \in SUBSET {f \in msckf : Cardinality(Usable(f)) >= 2} :
       used' = used \cup Uses(good)
  /\ deleted' = deleted \cup msckf
  /\ msckf' = {}
  /\ pc' = "slam"
  /\ UNCHANGED <<stateVars, trackVars, imuFrom, frameVars, slamUpd, slamNew,
                 initVars>>

(* The landmarks' measurements, max_slam_in_update features at a time; one  *)
(* that fails its chi-square test is counted.                               *)
SlamUpdate ==
  /\ pc = "slam" /\ slamUpd # {}
  /\ \E batch \in SUBSET slamUpd :
       /\ Cardinality(batch) = Smaller(MaxSlamBatch, Cardinality(slamUpd))
       /\ \E failed \in SUBSET {f \in batch : Usable(f) # {}} :
            /\ fails' = [f \in DOMAIN fails |->
                           IF f \in failed THEN Smaller(fails[f] + 1, 2) ELSE fails[f]]
            /\ used' = used \cup Uses(batch \ failed)
       /\ deleted' = deleted \cup batch
       /\ slamUpd' = slamUpd \ batch
  /\ UNCHANGED <<timestamp, clones, slam, ids, rows, trackVars, imuFrom, frameVars,
                 pc, msckf, slamNew, initVars>>

(* delayed_init, one feature after the other: a landmark anchored at its    *)
(* newest measurement, or nothing.                                          *)
DelayedInit(f) ==
  /\ pc = "slam" /\ slamUpd = {} /\ f \in slamNew
  /\ \/ /\ Cardinality(Usable(f)) >= 2
        /\ slam' = [g \in DOMAIN slam \cup {f} |->
                     IF g = f THEN Largest(Usable(f)) ELSE slam[g]]
        /\ fails' = [g \in DOMAIN fails \cup {f} |-> IF g = f THEN 0 ELSE fails[g]]
        /\ ids' = Appended(SlamVar(f))
        /\ rows' = rows + FeatSize
        /\ used' = used \cup Uses({f})
     \/ UNCHANGED <<slam, fails, ids, rows, used>>
  /\ deleted' = deleted \cup {f}
  /\ slamNew' = slamNew \ {f}
  /\ UNCHANGED <<timestamp, clones, trackVars, imuFrom, frameVars, pc, msckf, slamUpd,
                 initVars>>

(* Mutated form: the anchors stay when their clone goes. *)
AnchorsKept == slam

(* The end of the frame: what was tried leaves the database, landmarks of   *)
(* the oldest clone are anchored at the newest, the measurements up to the  *)
(* oldest clone are dropped, and so is that clone.                          *)
ChangeAnchors ==
  [f \in DOMAIN slam |->
     IF Overfull /\ slam[f] = Oldest THEN timestamp ELSE slam[f]]

Finish ==
  /\ pc = "slam" /\ slamUpd = {} /\ slamNew = {}
  /\ LET kept == Cleanup(db, deleted)
     IN  db' = IF Overfull THEN CleanupMeasurements(kept, Oldest) ELSE kept
  /\ slam' = ChangeAnchors
  /\ MarginalizeOldClone
  /\ deleted' = {}
  /\ used' = {m \in used : m[2] \in clones'}
  /\ pc' = "idle"
  /\ UNCHANGED <<timestamp, fails, tracked, imuFrom, frameVars, msckf, slamUpd,
                 slamNew, initVars>>

-----------------------------------------------------------------------------
Zupt == RepeatZupt \/ RefuseZupt \/ AcceptZupt

TryToInitialize == SeeRunning \/ Enqueue \/ SeeStopped \/ TakeOver \/ Launch

InitThread ==
  \/ BeginSolve \/ SolveFails \/ ClearQueue \/ SolveSucceeds
  \/ StartReplay \/ ReplayFrame \/ ShrinkWindow \/ Publish \/ ThreadExit

PropagateUpdate ==
  \/ Propagate \/ Select \/ MsckfUpdate \/ SlamUpdate \/ Finish
  \/ \E f \in Feats : DelayedInit(f)

Next ==
  \/ \E t \in {frame.time, frame.time + 1} \cap Times, cams \in (SUBSET Cams) \ {{}} :
       \E survive \in SUBSET (tracked \cap Seen(cams)),
          found \in SUBSET (FreshIds \cap Seen(cams)) :
            Frame(t, cams, survive, found)
  \/ Zupt \/ TryToInitialize \/ InitThread \/ PropagateUpdate

Spec == Init /\ [][Next]_vars
-----------------------------------------------------------------------------
(* Every variable has the values the code can give it.                      *)
TypeOK ==
  /\ timestamp \in Nat /\ clones \in SUBSET Nat /\ IsFiniteSet(clones)
  /\ DOMAIN slam \subseteq Feats /\ slam \in [DOMAIN slam -> Nat]
  /\ fails \in [DOMAIN slam -> 0 .. 2]
  /\ ids \in [DOMAIN ids -> Nat] /\ rows \in Nat
  /\ DOMAIN db \subseteq Feats /\ db \in [DOMAIN db -> (SUBSET Times) \ {{}}]
  /\ tracked \subseteq Feats /\ imuFrom \in Nat
  /\ frame \in [time : Nat, cams : SUBSET Cams, seen : SUBSET Cams]
  /\ pc \in {"idle", "zupt", "init", "enqueue", "stopped", "propagate", "select",
             "msckf", "slam"}
  /\ isInit \in BOOLEAN /\ hasMoved \in BOOLEAN /\ didZupt \in BOOLEAN
  /\ startup \in Nat /\ zuptTime \in Nat /\ zuptCount \in 0 .. 2
  /\ msckf \subseteq Feats /\ slamUpd \subseteq Feats /\ slamNew \subseteq Feats
  /\ deleted \subseteq Feats /\ used \subseteq Feats \X Nat
  /\ running \in BOOLEAN /\ success \in BOOLEAN
  /\ tpc \in {"none", "begin", "solve", "clear", "lock", "replay", "shrink", "exit"}
  /\ solveTime \in Nat /\ queue \in Seq(Nat) /\ todo \in Seq(Nat)
  /\ rate \in Nat \ {0}

(* The clones and landmarks of the state are exactly the blocks of the      *)
(* covariance, and these tile its rows behind the calibration without a gap *)
(* or an overlap, however updates, initialisations and marginalisations     *)
(* interleave.                                                              *)
LayoutDense ==
  /\ DOMAIN ids = {CloneVar(t) : t \in clones} \cup {SlamVar(f) : f \in DOMAIN slam}
  /\ rows = CoreSize + SizeOf(DOMAIN ids)
  /\ \A v \in DOMAIN ids :
       ids[v] = CoreSize + SizeOf({w \in DOMAIN ids : ids[w] < ids[v]})
  /\ \A v, w \in DOMAIN ids : v # w => ids[v] # ids[w]

(* A landmark is anchored at a clone of the window: change_anchors moves it *)
(* before its clone is marginalised.                                        *)
AnchorsInWindow == \A f \in DOMAIN slam : slam[f] \in clones

(* The calls that end the program are never made: a propagation never goes  *)
(* back or stays (Propagator.cpp:40, :49) and never clones a time twice     *)
(* (StateHelper.cpp augment_clone), also while the queue, whose times        *)
(* increase, is replayed; no frame is found older than the state and        *)
(* dropped; the updates run on a state at the frame's time with a clone     *)
(* there, where change_anchors and the retriangulation look for it.         *)
NoFatalCall ==
  /\ pc = "propagate" => timestamp <= frame.time
  /\ pc = "propagate" /\ timestamp # frame.time => frame.time \notin clones
  /\ \A i, j \in DOMAIN queue : i < j => queue[i] < queue[j]
  /\ tpc = "replay" /\ todo # <<>> => Head(todo) > timestamp /\ Head(todo) \notin clones
  /\ pc \in {"select", "msckf", "slam"} => timestamp = frame.time /\ timestamp \in clones

(* The state has no lock of its own: once the driver's thread uses it, for a *)
(* zero velocity or a feature update, the initialisation thread is gone.    *)
OneOwner ==
  isInit \/ pc \in {"zupt", "propagate", "select", "msckf", "slam"}
    => tpc = "none" /\ ~running

(* No measurement enters two updates, be it as an MSCKF feature, a landmark *)
(* or a new landmark: what the pending updates would use is unused so far   *)
(* ("we don't want to reuse information").                                  *)
NoReuse ==
  \A f \in msckf \cup slamUpd \cup slamNew : \A u \in Usable(f) : <<f, u>> \notin used

(* A propagation is due: the driver's next call, or the replay's. *)
Propagates == pc = "propagate" \/ (tpc = "replay" /\ todo # <<>>)

(* The readings a propagation needs can only be missing while the newest    *)
(* frame is more than init_window_time ahead of the state, after a solve    *)
(* that slow.  No other trim takes them away: neither the one at every      *)
(* reading, which follows the message's time, then nothing, then the oldest *)
(* clone, nor the one after a zero velocity update.                         *)
ShortOnlyAfterLateSolve ==
  Propagates /\ imuFrom > timestamp => frame.time - timestamp > InitWindow

(* Propagator.cpp:103 asserts that the readings of a propagation cover it   *)
(* from the state's time on.                                                *)
PropagationCovered == Propagates => imuFrom <= timestamp
=============================================================================
