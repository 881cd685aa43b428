--------------------------- MODULE SlidingWindow ----------------------------
(***************************************************************************)
(* The square-root filter's bookkeeping over one camera frame after        *)
(* another: the sliding window of cloned poses, the SLAM landmarks         *)
(* anchored in it, the layout of both in the square-root covariance U_,    *)
(* the shape of U_ (it is factorised lazily), and the ring buffer of       *)
(* camera poses.  Numbers in matrices are abstracted; every change of the  *)
(* window, the landmarks, the ids, the shape and the ring is kept.         *)
(*                                                                         *)
(* One camera frame is a fixed sequence of calls on one thread; pc says    *)
(* which call is next, so that the state between two calls is visible.     *)
(***************************************************************************)
EXTENDS Integers, FiniteSets, Functions

CONSTANTS
  MaxClone,              \* options.max_clone_size
  MaxSlam,               \* options.max_slam_features
  CoreSize,              \* kCloneStartId: IMU and calibration, in columns
  GateClones,            \* the 5 of Pipeline.cpp:63
  MargClones,            \* the 5 of Frontend.cpp:118
  Feats,                 \* feature ids the tracker can produce
  MarginalOffset,        \* the 50 spare columns of State.cpp:52
  TryZupt,               \* updaterZUPT # nullptr
  ZuptOnlyAtBeginning,   \* params.zupt_only_at_beginning
  InitRetried,           \* an initialisation may follow one that failed at its own time
  Times                  \* camera timestamps that can arrive

ASSUMPTION WindowAssumption ==
  /\ MaxClone \in Nat \ {0}
  /\ MaxSlam \in Nat
  /\ CoreSize \in Nat /\ CoreSize >= 15
  /\ GateClones \in Nat \ {0}
  /\ MargClones \in Nat /\ MarginalOffset \in Nat
  /\ TryZupt \in BOOLEAN /\ ZuptOnlyAtBeginning \in BOOLEAN
  /\ InitRetried \in BOOLEAN
  /\ Times \subseteq Nat \ {0}
  /\ IsFiniteSet(Feats)

(* The spare columns hold at least the transient clone. *)
ASSUMPTION MarginalAssumption == MarginalOffset >= 6

ImuSize   == 15
PoseSize  == 6
FeatSize  == 3

(* State.cpp:52-62; the calibration term of the code is at least CoreSize-15 *)
MaxStateSize   ==
  MaxSlam * FeatSize + MaxClone * PoseSize + CoreSize + MarginalOffset

RingSize == MaxClone + 2

Buf == INSTANCE CameraPoseBuffer WITH Capacity <- RingSize

VARIABLES
  timestamp,    \* state->timestamp
  clones,       \* keys of state->clones_IMU
  poses,        \* state->cam_pose_buffer (the fej buffer moves with it)
  slam,         \* state->features_SLAM: landmark |-> anchor_clone_timestamp
  shouldMarg,   \* landmarks whose should_marg flag is set
  toMarg,       \* state->state_to_marg_
  ids,          \* id() of every clone and landmark in state->variables_
  rows, cols,   \* shape of state->U_
  featsSlam,    \* the features selection hands to the SLAM updater
  hasMoved,     \* has_moved_since_zupt_
  pc            \* the next call of the frame

vars == <<timestamp, clones, poses, slam, shouldMarg, toMarg, ids, rows, cols,
          featsSlam, hasMoved, pc>>

Phases == {"idle", "clone", "select", "marg_slam", "anchors", "marg", "init"}

(* Variables of the state vector behind the IMU and calibration block *)
CloneVar(t) == <<"clone", t>>
SlamVar(f)  == <<"slam", f>>
Size(v)     == IF v[1] = "clone" THEN PoseSize ELSE FeatSize
Variables   == DOMAIN ids
Landmarks   == DOMAIN slam

SizeOf(V) ==
  PoseSize * Cardinality({v \in V : v[1] = "clone"})
  + FeatSize * Cardinality({v \in V : v[1] = "slam"})

IsOldest(t)  == t \in clones /\ \A u \in clones : t <= u

(* Mutated form: one more clone is tolerated. *)
OverFullByTwo == Cardinality(clones) > MaxClone + 2

OverFull     == Cardinality(clones) > MaxClone + 1
Lesser(a, b) == IF a < b THEN a ELSE b
-----------------------------------------------------------------------------
(* Landmarks are appended behind everything else, in some order *)
Orders(S) == Bijection(1 .. Cardinality(S), S)

Appended(base, order) ==
  [v \in {SlamVar(order[k]) : k \in DOMAIN order} |->
     base + FeatSize * ((CHOOSE k \in DOMAIN order : SlamVar(order[k]) = v) - 1)]

Merge(f, g) ==
  [v \in DOMAIN f \cup DOMAIN g |-> IF v \in DOMAIN f THEN f[v] ELSE g[v]]

InitIdle ==
  /\ timestamp = 0
  /\ shouldMarg = {} /\ toMarg = {} /\ featsSlam = {}
  /\ rows = cols
  /\ pc = "idle"

(* A static initialisation leaves the window empty; the state time has a    *)
(* pose slot but no clone.                                                  *)
InitStatic ==
  /\ clones = {} /\ slam = [f \in {} |-> 0] /\ ids = [v \in {} |-> 0]
  /\ poses = Buf!AddTimestamp(Buf!EmptyBuffer, 0)
  /\ cols = CoreSize
  /\ hasMoved = FALSE

(* A dynamic initialisation keeps the clone at the state time and the       *)
(* landmarks it selected, all anchored there (DynamicInit, HandsOver).  How *)
(* far the ring had turned depends on the number of key frames and of       *)
(* failed attempts; the clone's slot is the last one handed out, or the one *)
(* before if an attempt on the same newest image had failed, which leaves   *)
(* its slots behind and takes one more.  Assumed: init_max_feat <=          *)
(* init_max_slam <= MaxSlam, so that the selection's limit holds.           *)
InitDynamic ==
  /\ clones = {0}
  /\ \E L \in SUBSET Feats : \E order \in Orders(L) :
       /\ Cardinality(L) <= MaxSlam
       /\ slam = [f \in L |-> 0]
       /\ ids = Merge([v \in {CloneVar(0)} |-> CoreSize],
                      Appended(CoreSize + PoseSize, order))
       /\ cols = CoreSize + PoseSize + FeatSize * Cardinality(L)
  /\ \E s \in Buf!Slots : \E age \in {1} \cup (IF InitRetried THEN {2} ELSE {}) :
       poses = [slotOf |-> [t \in {0} |-> s], next |-> (s + age) % RingSize]
  /\ hasMoved \in BOOLEAN

Init == (InitStatic \/ InitDynamic) /\ InitIdle

-----------------------------------------------------------------------------
(* process_frame after the propagation: leave unless there are enough       *)
(* clones (or landmarks), else note the motion and go on to the update.     *)
Gate(c) ==
  IF Cardinality(c) < Lesser(MaxClone, GateClones) /\ Landmarks = {}
  THEN pc' = "idle" /\ UNCHANGED hasMoved
  ELSE pc' = "select" /\ hasMoved' = TRUE

OutOfOrderFrame(t) ==
  /\ pc = "idle"
  /\ t < timestamp
  /\ UNCHANGED vars

(* A second frame at the state's own time is not propagated to: it goes     *)
(* straight to the gate.                                                    *)
RepeatedFrame(t) ==
  /\ pc = "idle"
  /\ t = timestamp
  /\ Gate(clones)
  /\ UNCHANGED <<timestamp, clones, poses, slam, shouldMarg, toMarg, ids,
                 rows, cols, featsSlam>>

(* Propagator::propagate: fifteen noise rows go on top of U_; they are      *)
(* folded in at once only while the window is still filling.                *)
PropagateThen(newRows, t) ==
  /\ pc = "idle"
  /\ t > timestamp
  /\ rows' = newRows
  /\ timestamp' = t
  /\ poses' = Buf!AddTimestamp(poses, t)
  /\ pc' = "clone"
  /\ UNCHANGED <<clones, slam, shouldMarg, toMarg, ids, cols, featsSlam, hasMoved>>

(* Mutated form: the noise is still folded in when the window is full. *)
PropagateFactorisingFull(t) ==
  PropagateThen(IF Cardinality(clones) <= MaxClone + 1 THEN cols
                ELSE rows + ImuSize, t)

Propagate(t) ==
  PropagateThen(IF Cardinality(clones) < MaxClone + 1 THEN cols
                ELSE rows + ImuSize, t)

(* StateHelper::clone puts the new pose in front of the window; everything  *)
(* from there on moves back by one pose.                                    *)
InsertedAt(loc, moved) ==
  [v \in Variables \cup {CloneVar(timestamp)} |->
     IF v = CloneVar(timestamp) THEN loc
     ELSE IF v \in moved THEN ids[v] + PoseSize ELSE ids[v]]

(* Mutated form: the pose that was in front stays where it is. *)
CloneIdsOverlapping == InsertedAt(CoreSize, {v \in Variables : ids[v] > CoreSize})

(* Mutated form: the new pose goes behind everything else. *)
CloneIdsAtEnd == InsertedAt(cols, {})

CloneIds == InsertedAt(CoreSize, {v \in Variables : ids[v] >= CoreSize})

Clone ==
  /\ pc = "clone"
  /\ ids' = CloneIds
  /\ cols' = cols + PoseSize
  /\ clones' = clones \cup {timestamp}
  /\ Gate(clones')
  /\ UNCHANGED <<timestamp, poses, slam, shouldMarg, toMarg, rows, featsSlam>>

(* The row from which propagate_timeoffset and the anchor change read U_    *)
StartRow == IF OverFull THEN ImuSize ELSE 0

(* Frontend::process_measurements_rules: some landmarks are flagged, some   *)
(* are still tracked, and new features are promoted into the free places.   *)
PromotionWindow ==
  Cardinality(clones) = MaxClone + 1 \/ Cardinality(clones) > MargClones

SelectUpTo(budget) ==
  /\ pc = "select"
  /\ \E flagged \in SUBSET Landmarks, tracked \in SUBSET Landmarks,
        new \in SUBSET (Feats \ Landmarks) :
       /\ new # {} => PromotionWindow
       /\ Cardinality(new) <= budget
       /\ shouldMarg' = shouldMarg \cup flagged
       /\ featsSlam' = new \cup tracked
  /\ pc' = "marg_slam"
  /\ UNCHANGED <<timestamp, clones, poses, slam, toMarg, ids, rows, cols, hasMoved>>

(* Mutated form: the places of the landmarks already there are given away. *)
SelectIgnoringPresent == SelectUpTo(MaxSlam)

Select == SelectUpTo(MaxSlam - Cardinality(Landmarks))

-----------------------------------------------------------------------------
(* handle_marginalization *)
MarginalizeSlam ==
  /\ pc = "marg_slam"
  /\ toMarg' = toMarg \cup {SlamVar(f) : f \in shouldMarg}
  /\ slam' = Restrict(slam, Landmarks \ shouldMarg)
  /\ shouldMarg' = {}
  /\ pc' = "anchors"
  /\ UNCHANGED <<timestamp, clones, poses, ids, rows, cols, featsSlam, hasMoved>>

ChangeAnchorsIf(full) ==
  /\ pc = "anchors"
  /\ slam' = IF full
             THEN [f \in Landmarks |-> IF IsOldest(slam[f]) THEN timestamp ELSE slam[f]]
             ELSE slam
  /\ pc' = "marg"
  /\ UNCHANGED <<timestamp, clones, poses, shouldMarg, toMarg, ids, rows, cols,
                 featsSlam, hasMoved>>

(* Mutated forms: the early return is off by one, or missing. *)
ChangeAnchorsLate   == ChangeAnchorsIf(Cardinality(clones) > MaxClone + 2)
ChangeAnchorsAlways == ChangeAnchorsIf(TRUE)

ChangeAnchors == ChangeAnchorsIf(OverFull)

(* StateHelper::marginalize, on the variables in G: drop their columns,     *)
(* move the kept ones up in id order, factorise, and cut U_ to a square.    *)
CompactedIds(G) ==
  [v \in Variables \ G |->
     IF ids[v] < CoreSize THEN ids[v]
     ELSE CoreSize + SizeOf({w \in Variables \ G : ids[w] < ids[v]})]

(* Mutated form: U_ is not cut to a square. *)
MarginalizeColumnsOnly(G) ==
  /\ ids' = CompactedIds(G)
  /\ cols' = cols - SizeOf(G)
  /\ toMarg' = {}
  /\ UNCHANGED rows

MarginalizeVariables(G) ==
  /\ ids' = CompactedIds(G)
  /\ cols' = cols - SizeOf(G)
  /\ rows' = cols'
  /\ toMarg' = {}

(* marginalize_old_clone followed by marginalize *)
Marginalize ==
  /\ pc = "marg"
  /\ \/ /\ OverFull
        /\ \E t \in clones :
             /\ IsOldest(t)
             /\ clones' = clones \ {t}
             /\ poses' = Buf!RemoveTimestamp(poses, t)
             /\ MarginalizeVariables(toMarg \cup {CloneVar(t)})
     \/ /\ ~OverFull
        /\ UNCHANGED <<clones, poses>>
        /\ MarginalizeVariables(toMarg)
  /\ pc' = "init"
  /\ UNCHANGED <<timestamp, slam, shouldMarg, featsSlam, hasMoved>>

(* UpdaterSLAM::delayed_init on the selected features that are not (or no   *)
(* longer) landmarks, then initialize_slam_in_U and update_llt.             *)
DelayedInit ==
  /\ pc = "init"
  /\ \E new \in SUBSET (featsSlam \ Landmarks) :
     \E anchor \in [new -> clones], order \in Orders(new) :
       /\ slam' = Merge(slam, anchor)
       /\ ids' = Merge(ids, Appended(cols, order))
       /\ cols' = cols + FeatSize * Cardinality(new)
       /\ rows' = IF new = {} THEN rows ELSE cols'
  /\ featsSlam' = {}
  /\ pc' = "idle"
  /\ UNCHANGED <<timestamp, clones, poses, shouldMarg, toMarg, hasMoved>>

(* SqrtEstimator::try_zupt, accepted: the state moves to time t without a   *)
(* clone, but t takes a slot of the pose buffer.                            *)
ZeroVelocityUpdate(t) ==
  /\ pc = "idle"
  /\ TryZupt
  /\ ~(ZuptOnlyAtBeginning /\ hasMoved)
  /\ Landmarks = {}
  /\ t > timestamp
  /\ rows' = cols
  /\ timestamp' = t
  /\ poses' = Buf!AddTimestamp(poses, t)
  /\ UNCHANGED <<clones, slam, shouldMarg, toMarg, ids, cols, featsSlam, hasMoved, pc>>

Frame == \E t \in Times : \/ OutOfOrderFrame(t)
                          \/ RepeatedFrame(t)
                          \/ Propagate(t)
                          \/ ZeroVelocityUpdate(t)

Update == Select \/ MarginalizeSlam \/ ChangeAnchors \/ Marginalize \/ DelayedInit

Next == Frame \/ Clone \/ Update

Spec == Init /\ [][Next]_vars

-----------------------------------------------------------------------------
TypeOK ==
  /\ timestamp \in Nat
  /\ clones \subseteq Nat
  /\ poses.slotOf \in [DOMAIN poses.slotOf -> Buf!Slots]
  /\ poses.next \in Buf!Slots
  /\ slam \in [Landmarks -> Nat] /\ Landmarks \subseteq Feats
  /\ shouldMarg \subseteq Landmarks
  /\ toMarg \subseteq Variables
  /\ ids \in [Variables -> Nat]
  /\ rows \in Nat /\ cols \in Nat
  /\ featsSlam \subseteq Feats
  /\ hasMoved \in BOOLEAN
  /\ pc \in Phases

(* The window never holds more clones than the ring buffer has slots, and   *)
(* between two frames it is back to the size that leaves room for one more. *)
WindowBounded ==
  /\ Cardinality(clones) <= MaxClone + 2
  /\ pc = "idle" => Cardinality(clones) <= MaxClone + 1

(* An anchored landmark is never left hanging from a clone that has been    *)
(* marginalised, whatever was flagged, promoted or repeated around it       *)
(* (change_anchors runs before marginalize_old_clone).                      *)
AnchorsLive == \A f \in Landmarks : slam[f] \in clones

(* Every live clone has an entry in the pose buffer, so the unchecked       *)
(* get_buffer_unsafe never indexes with -1.                                 *)
ClonesCached == \A t \in clones : Buf!Cached(poses, t)

(* No two live clones share a pose slot, although the ring hands slots out  *)
(* without looking whether they are free (CameraPoseBuffer.cpp:51).         *)
ClonesOwnSlot == Buf!OwnSlot(poses, clones)

(* The clones and landmarks tile the columns of U_ behind the core: no gap, *)
(* no overlap, newest clone first, landmarks last.                          *)
LayoutTiles ==
  /\ \A v \in Variables :
       ids[v] = CoreSize + SizeOf({w \in Variables : ids[w] < ids[v]})
  /\ cols = CoreSize + SizeOf(Variables)
  /\ \A v, w \in Variables : ids[v] = ids[w] => v = w
  /\ \A t, u \in clones : t < u => ids[CloneVar(u)] < ids[CloneVar(t)]
  /\ \A t \in clones, f \in Landmarks : ids[CloneVar(t)] < ids[SlamVar(f)]

(* Whoever reads U_ between the propagation and the next factorisation      *)
(* recomputes from the window size whether propagate has factorised         *)
(* (StateHelper.cpp:232, 829): after clone the noise rows are on top        *)
(* exactly when the reader skips them.                                      *)
StartRowAgrees ==
  pc \in {"select", "marg_slam", "anchors", "marg"} =>
    /\ StartRow = ImuSize => rows = cols - PoseSize + ImuSize
    /\ StartRow = 0 => rows <= cols

(* Changing an anchor reads fifteen rows down plus all rows of each variable *)
(* minus the new clone (StateHelper.cpp:896): they exist, and the clone it   *)
(* anchors to is the one in front.                                           *)
AnchorChangeFits ==
  pc = "anchors" /\ OverFull =>
    /\ CloneVar(timestamp) \in Variables /\ ids[CloneVar(timestamp)] = CoreSize
    /\ \A v \in Variables : ImuSize + ids[v] + Size(v) - PoseSize <= rows

(* Between two frames U_ has no row below the diagonal, or propagate would   *)
(* drop information (it copies only the rows above the IMU's end), and the   *)
(* six rows a zero velocity update adds make it at least square.             *)
FactorReady == pc = "idle" => rows <= cols /\ rows + 6 >= cols

(* Landmarks never exceed their budget although features are selected       *)
(* before landmarks are dropped and dropped ones can come back in the same  *)
(* update, and the update's matrices fit their preallocated buffers         *)
(* (set_size would fail silently).                                          *)
BudgetsHold ==
  /\ Cardinality(Landmarks) <= MaxSlam
  /\ pc \in {"idle", "init"} => cols <= MaxStateSize

(* A landmark that outlives a step keeps its anchor or gets a younger one   *)
(* that is still in the window: the anchor change never turns back, and     *)
(* never picks a state time that has no clone (after a zero velocity        *)
(* update, or in a window that is about to lose it).                        *)
AnchorsMoveForward ==
  [][\A f \in Landmarks \cap Landmarks' :
       slam[f] # slam'[f] => slam[f] < slam'[f] /\ slam'[f] \in clones']_vars
=============================================================================
