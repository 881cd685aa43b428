-------------------------- MODULE VioManagerProofs --------------------------
(***************************************************************************)
(* Theorems about the baseline estimator for every window size, feature    *)
(* budget, assignment of features to cameras and length of the stream.     *)
(***************************************************************************)
EXTENDS VioManager, FiniteSetTheorems, SequenceTheorems, WellFoundedInduction, TLAPS

-----------------------------------------------------------------------------
(* Lemmas about the ends of a set of times *)

(* A set of numbers has a least one. *)
LEMMA LeastExists ==
  ASSUME NEW S \in SUBSET Nat, S # {}
  PROVE  \E x \in S : \A y \in S : x <= y
<1>1. \E x \in S : \A y \in S : ~ (<<y, x>> \in OpToRel(<, Nat))
  BY NatLessThanWellFounded, WFMin
<1>2. PICK x \in S : \A y \in S : ~ (<<y, x>> \in OpToRel(<, Nat))
  BY <1>1
<1>3. \A y \in S : ~ (y < x)
  BY <1>2 DEF OpToRel
<1> QED
  BY <1>3

LEMMA OldestIs ==
  ASSUME clones \subseteq Nat, clones # {}
  PROVE  Oldest \in clones /\ \A u \in clones : Oldest <= u
BY LeastExists DEF Oldest

(* A bounded set of numbers has a greatest one. *)
LEMMA LargestIs ==
  ASSUME NEW S \in SUBSET Nat, S # {}, NEW n \in Nat, \A u \in S : u <= n
  PROVE  Largest(S) \in S /\ \A w \in S : w <= Largest(S)
<1> DEFINE T == {x \in Nat : \E u \in S : x = n - u}
<1>0. \A u \in S : n - u \in Nat /\ n - u \in T
  OBVIOUS
<1>1. T # {} /\ T \in SUBSET Nat
  BY <1>0
<1>2. PICK x \in T : \A y \in T : x <= y
  BY <1>1, LeastExists
<1>3. PICK u \in S : x = n - u
  BY <1>2
<1> HIDE DEF T
<1>5. \A w \in S : w <= u
  BY <1>0, <1>2, <1>3
<1> QED
  BY <1>5 DEF Largest

(* More than one clone: the newest is not the oldest. *)
LEMMA NewestIsNotOldest ==
  ASSUME clones \subseteq Nat, IsFiniteSet(clones), timestamp \in clones,
         \A c \in clones : c <= timestamp, Cardinality(clones) > 1
  PROVE  Oldest \in clones /\ Oldest < timestamp
<1>1. clones # {timestamp}
  BY FS_Singleton
<1>2. PICK c \in clones : c # timestamp
  BY <1>1
<1>3. Oldest \in clones /\ Oldest <= c
  BY <1>2, OldestIs
<1>4. c < timestamp
  BY <1>2
<1> HIDE DEF Oldest
<1> QED
  BY <1>2, <1>3, <1>4

(* What stays of a list of increasing times after those up to t is its tail. *)
LEMMA LaterThanGives ==
  ASSUME NEW q \in Seq(Nat), NEW t \in Nat,
         \A i, j \in DOMAIN q : i < j => q[i] < q[j]
  PROVE  LET s == LaterThan(q, t)
         IN  /\ s \in Seq(Nat)
             /\ \A i \in DOMAIN s : s[i] > t /\ \E k \in DOMAIN q : s[i] = q[k]
             /\ \A i, j \in DOMAIN s : i < j => s[i] < s[j]
<1> DEFINE early == {i \in DOMAIN q : q[i] <= t}
           late == DOMAIN q \ early
<1>1. Len(q) \in Nat /\ DOMAIN q = 1 .. Len(q) /\ \A i \in DOMAIN q : q[i] \in Nat
  OBVIOUS
<1>2. \E m \in 0 .. Len(q) : early = 1 .. m
  <2>1. CASE late = {}
    <3>1. early = 1 .. Len(q)
      BY <1>1, <2>1
    <3> QED
      BY <1>1, <3>1
  <2>2. CASE late # {}
    <3>1. late \in SUBSET Nat
      BY <1>1
    <3>2. PICK x \in late : \A y \in late : x <= y
      BY <2>2, <3>1, LeastExists
    <3>3. x \in 1 .. Len(q) /\ q[x] > t
      BY <1>1, <3>2
    <3>4. \A i \in 1 .. Len(q) : i < x => i \in early
      BY <1>1, <3>2, <3>3
    <3>5. \A i \in 1 .. Len(q) : i >= x => q[i] > t
      BY <1>1, <3>3
    <3>6. early = 1 .. (x - 1)
      BY <1>1, <3>3, <3>4, <3>5
    <3>7. x - 1 \in 0 .. Len(q)
      BY <1>1, <3>3
    <3> QED
      BY <3>6, <3>7
  <2> HIDE DEF early, late
  <2> QED
    BY <2>1, <2>2
<1>3. PICK m \in 0 .. Len(q) : early = 1 .. m
  BY <1>2
<1>4. Cardinality(early) = m
  <2>1. Cardinality(1 .. m) = IF 1 > m THEN 0 ELSE m - 1 + 1
    BY <1>3, FS_Interval
  <2> HIDE DEF early
  <2> QED
    BY <1>3, <2>1
<1> DEFINE s == SubSeq(q, m + 1, Len(q))
<1>5. LaterThan(q, t) = s
  BY <1>4 DEF LaterThan
<1>6. \A i \in (m + 1) .. Len(q) : q[i] \in Nat /\ q[i] > t
  BY <1>1, <1>3
<1>7. /\ s \in Seq(Nat)
      /\ Len(s) = IF m + 1 <= Len(q) THEN Len(q) - (m + 1) + 1 ELSE 0
      /\ \A i \in 1 .. Len(q) - (m + 1) + 1 : s[i] = q[m + 1 + i - 1]
  BY <1>1, <1>3, <1>6, SubSeqProperties
<1> HIDE DEF s, early, late
<1>8. DOMAIN s = 1 .. (Len(q) - m) /\ \A i \in DOMAIN s : s[i] = q[m + i]
  <2>1. m \in Nat /\ m <= Len(q)
    BY <1>1, <1>3
  <2>2. Len(s) = Len(q) - m
    <3>1. \A a, b \in Nat : b <= a => (IF b + 1 <= a THEN a - (b + 1) + 1 ELSE 0) = a - b
      OBVIOUS
    <3>2. Len(s) = IF m + 1 <= Len(q) THEN Len(q) - (m + 1) + 1 ELSE 0
      BY <1>7
    <3> QED
      BY <1>1, <2>1, <3>1, <3>2
  <2>3. DOMAIN s = 1 .. Len(s)
    BY <1>7
  <2>4. \A i \in 1 .. Len(q) - m : s[i] = q[m + i]
    <3>1. \A a, b \in Nat : a - (b + 1) + 1 = a - b
      OBVIOUS
    <3>2. \A b, i \in Nat : b + 1 + i - 1 = b + i
      OBVIOUS
    <3>3. \A i \in 1 .. Len(q) - m : i \in Nat
      OBVIOUS
    <3>4. \A i \in 1 .. Len(q) - m : s[i] = q[m + 1 + i - 1]
      BY <1>1, <1>7, <2>1, <3>1
    <3> QED
      BY <2>1, <3>2, <3>3, <3>4
  <2> QED
    BY <2>2, <2>3, <2>4
<1>9. \A i \in DOMAIN s : m + i \in (m + 1) .. Len(q) /\ m + i \in DOMAIN q
  BY <1>1, <1>3, <1>8
<1>10. \A i, j \in DOMAIN s : i < j => s[i] < s[j]
  BY <1>1, <1>8, <1>9
<1> QED
  BY <1>5, <1>6, <1>7, <1>8, <1>9, <1>10

-----------------------------------------------------------------------------
(* Lemmas about the feature database *)

IsDatabase(d) == DOMAIN d \subseteq Feats /\ d \in [DOMAIN d -> (SUBSET Times) \ {{}}]

(* d holds no feature and no measurement that e does not hold. *)
Within(d, e) == DOMAIN d \subseteq DOMAIN e /\ \A f \in DOMAIN d : d[f] \subseteq e[f]

LEMMA RetainGives ==
  ASSUME NEW d, IsDatabase(d), NEW T
  PROVE  IsDatabase(Retain(d, T)) /\ Within(Retain(d, T), d)
<1> DEFINE D == {g \in DOMAIN d : d[g] \cap T # {}}
<1>1. Retain(d, T) = [f \in D |-> d[f] \cap T]
  BY DEF Retain
<1>2. D \subseteq DOMAIN d /\ \A f \in D : d[f] \cap T \in (SUBSET Times) \ {{}}
  BY DEF IsDatabase
<1> HIDE DEF D
<1> QED
  BY <1>1, <1>2 DEF IsDatabase, Within

LEMMA CleanupsGive ==
  ASSUME NEW d, IsDatabase(d), NEW t, NEW D
  PROVE  /\ IsDatabase(CleanupMeasurements(d, t)) /\ Within(CleanupMeasurements(d, t), d)
         /\ IsDatabase(CleanupMeasurementsExact(d, t))
         /\ Within(CleanupMeasurementsExact(d, t), d)
         /\ IsDatabase(Cleanup(d, D)) /\ Within(Cleanup(d, D), d)
         /\ DOMAIN Cleanup(d, D) = DOMAIN d \ D
<1>1. IsDatabase(Cleanup(d, D)) /\ Within(Cleanup(d, D), d)
      /\ DOMAIN Cleanup(d, D) = DOMAIN d \ D
  BY DEF Cleanup, Restrict, IsDatabase, Within
<1> QED
  BY <1>1, RetainGives DEF CleanupMeasurements, CleanupMeasurementsExact

LEMMA UpdateGives ==
  ASSUME NEW d, IsDatabase(d), NEW S \in SUBSET Feats, NEW t \in Times
  PROVE  LET u == UpdateFeatures(d, S, t)
         IN  /\ IsDatabase(u) /\ DOMAIN u = DOMAIN d \cup S
             /\ \A f \in DOMAIN u : \A x \in u[f] :
                  (f \in DOMAIN d /\ x \in d[f]) \/ (f \in S /\ x = t)
<1> DEFINE u == UpdateFeatures(d, S, t)
<1>1. DOMAIN u = DOMAIN d \cup S
  BY DEF UpdateFeatures
<1>2. \A f \in DOMAIN u :
        u[f] = (IF f \in DOMAIN d THEN d[f] ELSE {}) \cup (IF f \in S THEN {t} ELSE {})
  BY DEF UpdateFeatures
<1>3. u = [f \in DOMAIN u |-> u[f]]
  BY DEF UpdateFeatures
<1> HIDE DEF u
<1>4. \A f \in DOMAIN u : u[f] \in (SUBSET Times) \ {{}}
  <2> TAKE f \in DOMAIN u
  <2>1. f \in DOMAIN d => d[f] \subseteq Times /\ d[f] # {}
    BY DEF IsDatabase
  <2>2. f \in DOMAIN d \/ f \in S
    BY <1>1
  <2>3. u[f] \subseteq Times
    BY <1>2, <2>1
  <2>4. u[f] # {}
    BY <1>2, <2>1, <2>2
  <2> QED
    BY <2>3, <2>4
<1>5. IsDatabase(u)
  BY <1>1, <1>3, <1>4 DEF IsDatabase
<1> QED
  BY <1>1, <1>2, <1>5 DEF u

(* The newest measurement of a database that is not empty. *)
LEMMA NewestMeasurement ==
  ASSUME IsDatabase(db), db # EmptyDatabase
  PROVE  Largest(Measured(db)) \in Measured(db) /\ Measured(db) \subseteq Times
<1>1. Measured(db) \in SUBSET Times
  BY DEF Measured, IsDatabase
<1>2. DOMAIN db # {}
  BY DEF IsDatabase, EmptyDatabase
<1>3. Measured(db) # {}
  <2>1. PICK f \in DOMAIN db : TRUE
    BY <1>2
  <2>2. db[f] # {}
    BY DEF IsDatabase
  <2>3. PICK x \in db[f] : TRUE
    BY <2>2
  <2> QED
    BY <2>3 DEF Measured
<1>4. LastTime \in Nat /\ Measured(db) \in SUBSET Nat /\ \A u \in Measured(db) : u <= LastTime
  BY <1>1, VioAssumption DEF Times
<1> QED
  BY <1>1, <1>3, <1>4, LargestIs

-----------------------------------------------------------------------------
(* What the variables are.  The places in the covariance follow with its    *)
(* layout, below.                                                           *)
StateTypes ==
  /\ timestamp \in Nat /\ clones \in SUBSET Nat /\ IsFiniteSet(clones)
  /\ \E n \in Nat : \A c \in clones : c <= n
  /\ DOMAIN slam \subseteq Feats /\ slam \in [DOMAIN slam -> Nat]
  /\ fails \in [DOMAIN slam -> 0 .. 2]

TrackTypes == IsDatabase(db) /\ tracked \subseteq Feats

FrameTypes ==
  /\ imuFrom \in Nat
  /\ frame \in [time : Nat, cams : SUBSET Cams, seen : SUBSET Cams]
  /\ pc \in {"idle", "zupt", "init", "enqueue", "stopped", "propagate", "select",
             "msckf", "slam"}
  /\ isInit \in BOOLEAN /\ hasMoved \in BOOLEAN /\ didZupt \in BOOLEAN
  /\ startup \in Nat /\ zuptTime \in Nat /\ zuptCount \in 0 .. 2

UpdTypes ==
  /\ msckf \subseteq Feats /\ slamUpd \subseteq Feats /\ slamNew \subseteq Feats
  /\ deleted \subseteq Feats /\ used \subseteq Feats \X Nat

InitTypes ==
  /\ running \in BOOLEAN /\ success \in BOOLEAN
  /\ tpc \in {"none", "begin", "solve", "clear", "lock", "replay", "shrink", "exit"}
  /\ solveTime \in Nat /\ queue \in Seq(Nat) /\ todo \in Seq(Nat)
  /\ rate \in Nat \ {0}

Types == StateTypes /\ TrackTypes /\ FrameTypes /\ UpdTypes /\ InitTypes

(* What a landmark is anchored at first: a clone it was measured at. *)
LEMMA AnchorIsClone ==
  ASSUME StateTypes, NEW f, Usable(f) # {}
  PROVE  Largest(Usable(f)) \in clones
<1>1. PICK n \in Nat : \A c \in clones : c <= n
  BY DEF StateTypes
<1>2. Usable(f) \subseteq clones /\ Usable(f) \in SUBSET Nat
  BY DEF Usable, StateTypes
<1> HIDE DEF Usable
<1>3. Largest(Usable(f)) \in Usable(f)
  BY <1>1, <1>2, LargestIs
<1> QED
  BY <1>2, <1>3

LEMMA TypesInit == Init => Types
<1> SUFFICES ASSUME Init PROVE Types
  OBVIOUS
<1> USE VioAssumption DEF Init, InitCommon, InitUnknown, InitGroundTruth
<1>1. StateTypes
  <2>1. IsFiniteSet(clones)
    BY FS_EmptySet
  <2> QED
    BY <2>1 DEF StateTypes
<1>2. TrackTypes
  BY DEF TrackTypes, IsDatabase, EmptyDatabase
<1>3. FrameTypes
  <2>1. isInit \in BOOLEAN /\ hasMoved \in BOOLEAN /\ didZupt \in BOOLEAN
    BY Zenon
  <2>2. imuFrom \in Nat /\ startup \in Nat /\ zuptTime \in Nat /\ zuptCount \in 0 .. 2
    OBVIOUS
  <2>3. frame \in [time : Nat, cams : SUBSET Cams, seen : SUBSET Cams]
    OBVIOUS
  <2> QED
    BY <2>1, <2>2, <2>3 DEF FrameTypes
<1>4. UpdTypes
  BY DEF UpdTypes
<1>5. InitTypes
  <2>1. running \in BOOLEAN /\ success \in BOOLEAN
    BY Zenon
  <2>2. queue \in Seq(Nat) /\ todo \in Seq(Nat)
    OBVIOUS
  <2> QED
    BY <2>1, <2>2 DEF InitTypes
<1> QED
  BY <1>1, <1>2, <1>3, <1>4, <1>5 DEF Types

(* Groups of variables that do not change keep their types. *)
LEMMA TypesKept ==
  /\ UNCHANGED stateVars /\ StateTypes => StateTypes'
  /\ UNCHANGED trackVars /\ TrackTypes => TrackTypes'
  /\ UNCHANGED updVars /\ UpdTypes => UpdTypes'
  /\ UNCHANGED initVars /\ InitTypes => InitTypes'
  /\ UNCHANGED <<imuFrom, frameVars, pc>> /\ FrameTypes => FrameTypes'
  /\ UNCHANGED <<imuFrom, frameVars>> /\ FrameTypes
       /\ pc' \in {"idle", "enqueue", "stopped", "propagate", "msckf", "slam"} => FrameTypes'
<1>1. UNCHANGED stateVars /\ StateTypes => StateTypes'
  BY DEF stateVars, StateTypes
<1>2. UNCHANGED trackVars /\ TrackTypes => TrackTypes'
  BY DEF trackVars, TrackTypes, IsDatabase
<1>3. UNCHANGED updVars /\ UpdTypes => UpdTypes'
  BY DEF updVars, UpdTypes
<1>4. UNCHANGED initVars /\ InitTypes => InitTypes'
  BY DEF initVars, InitTypes
<1>5. UNCHANGED <<imuFrom, frameVars, pc>> /\ FrameTypes => FrameTypes'
  BY DEF frameVars, FrameTypes
<1>6. UNCHANGED <<imuFrom, frameVars>> /\ FrameTypes
        /\ pc' \in {"idle", "enqueue", "stopped", "propagate", "msckf", "slam"} => FrameTypes'
  BY DEF frameVars, FrameTypes
<1> QED
  BY <1>1, <1>2, <1>3, <1>4, <1>5, <1>6

LEMMA ImuKeptType ==
  ASSUME Types, NEW t \in Nat
  PROVE  ImuKept(t) \in Nat
<1>1. imuFrom \in Nat /\ InitWindow \in Nat
  BY VioAssumption DEF Types, FrameTypes
<1>2. clones # {} => Oldest \in Nat
  BY OldestIs DEF Types, StateTypes
<1> HIDE DEF Oldest
<1>3. Larger(imuFrom, t - InitWindow) \in Nat
  BY <1>1 DEF Larger
<1>4. clones # {} => Larger(imuFrom, Oldest) \in Nat
  BY <1>1, <1>2 DEF Larger
<1> HIDE DEF Larger
<1> QED
  BY <1>1, <1>3, <1>4 DEF ImuKept

LEMMA FrameTypesStep ==
  ASSUME Types, NEW t \in Times, NEW cams \in SUBSET Cams,
         NEW survive \in SUBSET (tracked \cap Seen(cams)),
         NEW found \in SUBSET (FreshIds \cap Seen(cams)),
         Frame(t, cams, survive, found)
  PROVE  Types'
<1>1. UNCHANGED <<stateVars, updVars, initVars>>
  BY DEF Frame
<1>2. t \in Nat
  BY VioAssumption DEF Times
<1>3. TrackTypes'
  <2>1. survive \cup found \in SUBSET Feats
    BY DEF Types, TrackTypes, FreshIds
  <2>2. IsDatabase(UpdateFeatures(db, survive \cup found, t))
    BY <2>1, UpdateGives DEF Types, TrackTypes
  <2>3. db' = UpdateFeatures(db, survive \cup found, t)
        /\ tracked' = (tracked \ Seen(cams)) \cup survive \cup found
    BY DEF Frame
  <2>4. IsDatabase(db')
    BY <2>2, <2>3
  <2> QED
    BY <2>1, <2>3, <2>4 DEF Types, TrackTypes
<1>4. FrameTypes'
  <2>1. imuFrom' \in Nat
    BY <1>2, ImuKeptType DEF Frame
  <2>2. frame' \in [time : Nat, cams : SUBSET Cams, seen : SUBSET Cams]
    BY <1>2 DEF Frame, Types, FrameTypes
  <2>3. /\ pc' \in {"zupt", "propagate", "init"}
        /\ UNCHANGED <<isInit, hasMoved, didZupt, startup, zuptTime, zuptCount>>
    BY DEF Frame
  <2> QED
    BY <2>1, <2>2, <2>3 DEF Types, FrameTypes
<1> QED
  BY <1>1, <1>3, <1>4, TypesKept DEF Types

(* A landmark's clone, the clones' count and what marginalisation leaves.   *)
LEMMA MarginalizeTypes ==
  ASSUME StateTypes, MarginalizeOldClone
  PROVE  clones' \in SUBSET Nat /\ IsFiniteSet(clones') /\ clones' \subseteq clones
<1>1. clones' = clones \/ clones' = clones \ {Oldest}
  BY DEF MarginalizeOldClone
<1> HIDE DEF Oldest
<1>2. IsFiniteSet(clones \ {Oldest})
  BY FS_RemoveElement DEF StateTypes
<1> QED
  BY <1>1, <1>2 DEF StateTypes

LEMMA PropagateTypes ==
  ASSUME StateTypes, NEW t \in Nat, PropagateAndClone(t)
  PROVE  StateTypes'
<1>1. IsFiniteSet(clones \cup {t})
  BY FS_AddElement DEF StateTypes
<1>2. PICK n \in Nat : \A c \in clones : c <= n
  BY DEF StateTypes
<1>3. \A c \in clones \cup {t} : c <= n + t
  BY <1>2 DEF StateTypes
<1>4. \E k \in Nat : \A c \in clones \cup {t} : c <= k
  BY <1>2, <1>3
<1> QED
  BY <1>1, <1>4 DEF StateTypes, PropagateAndClone

LEMMA ZuptTypesStep == ASSUME Types, Zupt PROVE Types'
<1>1. CASE RepeatZupt
  <2>1. UNCHANGED <<stateVars, trackVars, frameVars, updVars, initVars>>
        /\ pc' \in {"idle", "propagate"} /\ imuFrom' \in {frame.time, imuFrom}
    BY <1>1 DEF RepeatZupt
  <2>2. FrameTypes'
    BY <2>1 DEF Types, FrameTypes, frameVars
  <2> QED
    BY <2>1, <2>2, TypesKept DEF Types
<1>2. CASE RefuseZupt
  <2>1. UNCHANGED <<stateVars, trackVars, imuFrom, frame, isInit, hasMoved, startup,
                    updVars, initVars>>
        /\ pc' = "propagate" /\ didZupt' = FALSE /\ zuptTime' = 0
        /\ zuptCount' \in {0, zuptCount}
    BY <1>2 DEF RefuseZupt
  <2>2. didZupt' \in BOOLEAN
    BY <2>1, Zenon
  <2>3. zuptCount' \in 0 .. 2
    BY <2>1 DEF Types, FrameTypes
  <2>4. FrameTypes'
    BY <2>1, <2>2, <2>3 DEF Types, FrameTypes
  <2> QED
    BY <2>1, <2>4, TypesKept DEF Types
<1>3. CASE AcceptZupt
  <2>1. UNCHANGED <<clones, slam, fails, tracked, frame, isInit, hasMoved, startup,
                    updVars, initVars>>
        /\ pc' = "idle" /\ didZupt' = TRUE /\ zuptTime' = frame.time
        /\ zuptCount' = Smaller(zuptCount + 1, 2)
        /\ timestamp' = frame.time /\ imuFrom' = frame.time
        /\ db' \in {CleanupMeasurementsExact(db, zuptTime), db}
    BY <1>3 DEF AcceptZupt
  <2>2. frame.time \in Nat
    BY DEF Types, FrameTypes
  <2>3. FrameTypes'
    BY <2>1, <2>2 DEF Types, FrameTypes, Smaller
  <2>4. IsDatabase(db')
    <3>1. IsDatabase(db)
      BY DEF Types, TrackTypes
    <3>2. IsDatabase(CleanupMeasurementsExact(db, zuptTime))
      BY <3>1, CleanupsGive
    <3> QED
      BY <2>1, <3>1, <3>2
  <2>5. TrackTypes'
    BY <2>1, <2>4 DEF Types, TrackTypes
  <2>6. StateTypes'
    BY <2>1, <2>2 DEF Types, StateTypes
  <2> QED
    BY <2>1, <2>3, <2>5, <2>6, TypesKept DEF Types
<1> QED
  BY <1>1, <1>2, <1>3 DEF Zupt

LEMMA TryToInitializeTypesStep == ASSUME Types, TryToInitialize PROVE Types'
<1>1. UNCHANGED <<stateVars, trackVars, updVars>>
  BY DEF TryToInitialize, SeeRunning, Enqueue, SeeStopped, TakeOver, Launch
<1>2. FrameTypes'
  <2>1. UNCHANGED <<imuFrom, frame, hasMoved, didZupt, startup, zuptTime, zuptCount>>
        /\ pc' \in {"idle", "enqueue", "stopped", "propagate"}
    BY DEF TryToInitialize, SeeRunning, Enqueue, SeeStopped, TakeOver, Launch, frameVars
  <2>2. isInit' \in BOOLEAN
    <3>1. isInit' = isInit \/ isInit' = TRUE
      BY DEF TryToInitialize, SeeRunning, Enqueue, SeeStopped, TakeOver, Launch, frameVars
    <3> QED
      BY <3>1, Zenon DEF Types, FrameTypes
  <2> QED
    BY <2>1, <2>2 DEF Types, FrameTypes
<1>3. InitTypes'
  <2>1. CASE Enqueue
    <3>1. queue' = Append(queue, frame.time)
          /\ UNCHANGED <<running, success, tpc, solveTime, todo, rate>>
      BY <2>1 DEF Enqueue
    <3>2. queue' \in Seq(Nat)
      BY <3>1, AppendProperties DEF Types, InitTypes, FrameTypes
    <3> QED
      BY <3>1, <3>2 DEF Types, InitTypes
  <2>2. CASE Launch
    BY <2>2 DEF Launch, Types, InitTypes
  <2>3. CASE SeeRunning \/ SeeStopped \/ TakeOver
    <3>1. UNCHANGED initVars
      BY <2>3 DEF SeeRunning, SeeStopped, TakeOver
    <3> QED
      BY <3>1, TypesKept DEF Types
  <2> QED
    BY <2>1, <2>2, <2>3 DEF TryToInitialize
<1> QED
  BY <1>1, <1>2, <1>3, TypesKept DEF Types

LEMMA InitThreadTypesStep == ASSUME Types, InitThread PROVE Types'
<1>1. CASE BeginSolve
  <2>1. UNCHANGED <<stateVars, tracked, imuFrom, frameVars, pc, updVars, running, success,
                    queue, todo, rate>>
        /\ tpc' = "solve" /\ db # EmptyDatabase
        /\ db' = CleanupMeasurements(db, Largest(Measured(db)) - InitWindow - 1)
        /\ solveTime' \in Larger(Largest(Measured(db)) - InitLag, Larger(imuFrom, 1))
                          .. Largest(Measured(db))
    BY <1>1 DEF BeginSolve
  <2>2. IsDatabase(db)
    BY DEF Types, TrackTypes
  <2>3. IsDatabase(db')
    BY <2>1, <2>2, CleanupsGive
  <2>4. Largest(Measured(db)) \in Nat /\ InitLag \in Nat /\ imuFrom \in Nat
    BY <2>1, <2>2, NewestMeasurement, VioAssumption DEF Times, Types, FrameTypes
  <2>5. solveTime' \in Nat
    <3> HIDE DEF Largest
    <3> QED
      BY <2>1, <2>4 DEF Larger
  <2>6. InitTypes'
    BY <2>1, <2>5 DEF Types, InitTypes
  <2>7. TrackTypes'
    BY <2>1, <2>3 DEF Types, TrackTypes
  <2> QED
    BY <2>1, <2>6, <2>7, TypesKept DEF Types
<1>2. CASE SolveFails \/ ClearQueue \/ StartReplay \/ Publish \/ ThreadExit
  <2>1. UNCHANGED <<stateVars, trackVars, imuFrom, frameVars, pc, updVars>>
    BY <1>2 DEF SolveFails, ClearQueue, StartReplay, Publish, ThreadExit
  <2>2. InitTypes'
    <3>1. /\ queue' \in {queue, <<>>} /\ solveTime' \in {solveTime, 0}
          /\ tpc' \in {"clear", "exit", "replay", "none"}
      BY <1>2 DEF SolveFails, ClearQueue, StartReplay, Publish, ThreadExit
    <3>2. /\ success' = success \/ success' = TRUE \/ success' = FALSE
          /\ running' = running \/ running' = FALSE
      BY <1>2 DEF SolveFails, ClearQueue, StartReplay, Publish, ThreadExit
    <3>3. success' \in BOOLEAN /\ running' \in BOOLEAN
      BY <3>2, Zenon DEF Types, InitTypes
    <3>4. todo' \in Seq(Nat) /\ rate' \in Nat \ {0}
      <4>1. CASE StartReplay
        <5>1. todo' = LaterThan(queue, startup) /\ rate' = Len(todo') \div MaxClone + 1
          BY <4>1 DEF StartReplay, CloneRate
        <5>2. todo' \in Seq(Nat)
          <6>1. queue \in Seq(Nat) /\ startup \in Nat
            BY DEF Types, InitTypes, FrameTypes
          <6>2. Cardinality({i \in DOMAIN queue : queue[i] <= startup}) \in Nat
            <7>1. IsFiniteSet(1 .. Len(queue)) /\ DOMAIN queue = 1 .. Len(queue)
              BY <6>1, FS_Interval
            <7>2. IsFiniteSet({i \in DOMAIN queue : queue[i] <= startup})
              BY <7>1, FS_Subset
            <7> QED
              BY <7>2, FS_CardinalityType
          <6> DEFINE n == Cardinality({i \in DOMAIN queue : queue[i] <= startup})
          <6>3. \A i \in (n + 1) .. Len(queue) : queue[i] \in Nat
            <7> HIDE DEF n
            <7>1. n \in Nat
              BY <6>2 DEF n
            <7> QED
              BY <6>1, <7>1
          <6>4. SubSeq(queue, n + 1, Len(queue)) \in Seq(Nat)
            <7> HIDE DEF n
            <7>1. n + 1 \in Int /\ Len(queue) \in Int
              BY <6>1, <6>2 DEF n
            <7> QED
              BY <6>3, <7>1, SubSeqProperties
          <6> QED
            BY <5>1, <6>4 DEF LaterThan
        <5>3. Len(todo') \in Nat /\ MaxClone \in Nat \ {0}
          BY <5>2, VioAssumption
        <5>4. \A a, b \in Nat : b # 0 => a \div b \in Nat
          OBVIOUS
        <5>5. Len(todo') \div MaxClone \in Nat
          BY <5>3, <5>4
        <5> QED
          BY <5>1, <5>2, <5>5
      <4>2. CASE Publish
        BY <4>2 DEF Publish, Types, InitTypes
      <4>3. CASE SolveFails \/ ClearQueue \/ ThreadExit
        BY <4>3 DEF SolveFails, ClearQueue, ThreadExit, Types, InitTypes
      <4> QED
        BY <1>2, <4>1, <4>2, <4>3
    <3>5. queue' \in Seq(Nat)
      <4>1. queue \in Seq(Nat)
        BY DEF Types, InitTypes
      <4>2. <<>> \in Seq(Nat)
        OBVIOUS
      <4>3. queue' = queue \/ queue' = <<>>
        BY <3>1, Zenon
      <4> QED
        BY <4>1, <4>2, <4>3, Zenon
    <3>6. solveTime' \in Nat
      BY <3>1 DEF Types, InitTypes
    <3> QED
      BY <3>1, <3>3, <3>4, <3>5, <3>6 DEF InitTypes
  <2> QED
    BY <2>1, <2>2, TypesKept DEF Types
<1>3. CASE SolveSucceeds
  <2>1. UNCHANGED <<clones, slam, fails, tracked, imuFrom, frame, isInit, didZupt,
                    zuptTime, zuptCount, pc, updVars, running, success, queue, todo, rate>>
        /\ timestamp' = solveTime /\ startup' = solveTime
        /\ db' = CleanupMeasurements(db, solveTime)
        /\ hasMoved' \in BOOLEAN /\ tpc' = "lock" /\ solveTime' = 0
    BY <1>3 DEF SolveSucceeds
  <2>2. IsDatabase(db')
    BY <2>1, CleanupsGive DEF Types, TrackTypes
  <2>3. solveTime \in Nat
    BY DEF Types, InitTypes
  <2>4. StateTypes' /\ TrackTypes'
    BY <2>1, <2>2, <2>3 DEF Types, StateTypes, TrackTypes
  <2>5. FrameTypes'
    BY <2>1, <2>3 DEF Types, FrameTypes
  <2>6. InitTypes'
    BY <2>1 DEF Types, InitTypes
  <2> QED
    BY <2>1, <2>4, <2>5, <2>6, TypesKept DEF Types
<1>4. CASE ReplayFrame
  <2>1. UNCHANGED <<trackVars, imuFrom, frameVars, pc, updVars, running, success, queue,
                    solveTime, rate>>
        /\ todo # <<>> /\ tpc' = "shrink"
        /\ PropagateAndClone(Head(todo)) /\ todo' = SubSeq(todo, rate + 1, Len(todo))
    BY <1>4 DEF ReplayFrame
  <2>2. todo \in Seq(Nat) /\ rate \in Nat
    BY DEF Types, InitTypes
  <2>3. StateTypes'
    <3>1. Head(todo) \in Nat
      BY <2>1, <2>2, HeadTailProperties
    <3> QED
      BY <2>1, <3>1, PropagateTypes DEF Types
  <2>4. todo' \in Seq(Nat)
    <3>1. \A i \in (rate + 1) .. Len(todo) : todo[i] \in Nat
      BY <2>2
    <3>2. rate + 1 \in Int /\ Len(todo) \in Int
      BY <2>2
    <3> QED
      BY <2>1, <3>1, <3>2, SubSeqProperties
  <2>5. InitTypes'
    BY <2>1, <2>4 DEF Types, InitTypes
  <2> QED
    BY <2>1, <2>3, <2>5, TypesKept DEF Types
<1>5. CASE ShrinkWindow
  <2>1. UNCHANGED <<timestamp, slam, fails, trackVars, imuFrom, frameVars, pc, updVars,
                    running, success, queue, solveTime, todo, rate>>
        /\ MarginalizeOldClone /\ tpc' = "replay"
    BY <1>5 DEF ShrinkWindow
  <2>2. StateTypes'
    BY <2>1, MarginalizeTypes DEF Types, StateTypes
  <2>3. InitTypes'
    BY <2>1 DEF Types, InitTypes
  <2> QED
    BY <2>1, <2>2, <2>3, TypesKept DEF Types
<1> QED
  BY <1>1, <1>2, <1>3, <1>4, <1>5 DEF InitThread

LEMMA PropagateUpdateTypesStep == ASSUME Types, PropagateUpdate PROVE Types'
<1>1. CASE Propagate
  <2>1. UNCHANGED <<trackVars, updVars, initVars>>
    BY <1>1 DEF Propagate
  <2>2. StateTypes'
    <3>1. CASE timestamp < frame.time
      <4>1. PropagateAndClone(frame.time)
        BY <1>1, <3>1 DEF Propagate
      <4>2. frame.time \in Nat
        BY DEF Types, FrameTypes
      <4> QED
        BY <4>1, <4>2, PropagateTypes DEF Types
    <3>2. CASE ~(timestamp < frame.time)
      <4>1. UNCHANGED stateVars
        BY <1>1, <3>2 DEF Propagate
      <4> QED
        BY <4>1, TypesKept DEF Types
    <3> QED
      BY <3>1, <3>2
  <2>3. FrameTypes'
    <3>1. UNCHANGED <<imuFrom, frame, isInit, didZupt, startup, zuptTime, zuptCount>>
          /\ pc' \in {"idle", "select"} /\ (hasMoved' = hasMoved \/ hasMoved' = TRUE)
      BY <1>1 DEF Propagate
    <3>2. hasMoved' \in BOOLEAN
      BY <3>1, Zenon DEF Types, FrameTypes
    <3> QED
      BY <3>1, <3>2 DEF Types, FrameTypes
  <2> QED
    BY <2>1, <2>2, <2>3, TypesKept DEF Types
<1>2. CASE Select
  <2>1. UNCHANGED <<timestamp, clones, trackVars, imuFrom, frameVars, deleted, used, initVars>>
        /\ pc' = "msckf"
        /\ slam' = Restrict(slam, DOMAIN slam \ ShouldMarg)
        /\ fails' = Restrict(fails, DOMAIN fails \ ShouldMarg)
    BY <1>2 DEF Select
  <2>2. StateTypes'
    BY <2>1 DEF Types, StateTypes, Restrict
  <2>3. UpdTypes'
    <3>1. PICK P \in Promoted :
            /\ slamUpd' = (P \cup (DOMAIN slam \cap DOMAIN db)) \cap DOMAIN slam'
            /\ slamNew' = (P \cup (DOMAIN slam \cap DOMAIN db)) \ DOMAIN slam'
            /\ msckf' \in LongestTracks(FeatsLost \cup (FeatsMarg \ P))
      BY <1>2 DEF Select
    <3>2. P \subseteq Feats
      BY DEF Promoted, MaxTracks, FeatsMarg, FeaturesContaining, Types, TrackTypes, IsDatabase
    <3>3. FeatsLost \cup (FeatsMarg \ P) \subseteq Feats
      BY DEF FeatsLost, FeatsMarg, FeaturesContaining, FeaturesNotContainingNewer,
             Types, TrackTypes, IsDatabase
    <3>4. msckf' \subseteq Feats
      BY <3>1, <3>3 DEF LongestTracks
    <3> QED
      BY <2>1, <3>1, <3>2, <3>4 DEF Types, UpdTypes, TrackTypes, IsDatabase
  <2> QED
    BY <2>1, <2>2, <2>3, TypesKept DEF Types
<1> USE DEF Uses, Usable
<1>3. CASE MsckfUpdate
  <2>1. UNCHANGED <<stateVars, trackVars, imuFrom, frameVars, slamUpd, slamNew, initVars>>
        /\ pc' = "slam" /\ deleted' = deleted \cup msckf /\ msckf' = {}
        /\ \E good \in SUBSET msckf : used' = used \cup Uses(good)
    BY <1>3 DEF MsckfUpdate
  <2>2. \A S \in SUBSET Feats : Uses(S) \subseteq Feats \X Nat
    BY DEF Types, StateTypes
  <2>3. UpdTypes'
    BY <2>1, <2>2 DEF Types, UpdTypes
  <2> QED
    BY <2>1, <2>3, TypesKept DEF Types
<1>4. CASE SlamUpdate
  <2>1. UNCHANGED <<timestamp, clones, slam, trackVars, imuFrom, frameVars, pc, msckf,
                    slamNew, initVars>>
    BY <1>4 DEF SlamUpdate
  <2>2. PICK batch \in SUBSET slamUpd :
          /\ deleted' = deleted \cup batch /\ slamUpd' = slamUpd \ batch
          /\ \E failed \in SUBSET batch :
               /\ fails' = [f \in DOMAIN fails |->
                              IF f \in failed THEN Smaller(fails[f] + 1, 2) ELSE fails[f]]
               /\ used' = used \cup Uses(batch \ failed)
    BY <1>4 DEF SlamUpdate
  <2>3. PICK failed \in SUBSET batch :
          /\ fails' = [f \in DOMAIN fails |->
                         IF f \in failed THEN Smaller(fails[f] + 1, 2) ELSE fails[f]]
          /\ used' = used \cup Uses(batch \ failed)
    BY <2>2
  <2>4. \A S \in SUBSET Feats : Uses(S) \subseteq Feats \X Nat
    BY DEF Types, StateTypes
  <2>5. UpdTypes'
    <3>1. batch \ failed \in SUBSET Feats /\ batch \subseteq Feats
      BY DEF Types, UpdTypes
    <3> HIDE DEF Uses
    <3>2. used' \subseteq Feats \X Nat
      BY <2>3, <2>4, <3>1 DEF Types, UpdTypes
    <3> QED
      BY <2>1, <2>2, <3>1, <3>2 DEF Types, UpdTypes
  <2>6. StateTypes'
    <3>1. \A n \in 0 .. 2 : Smaller(n + 1, 2) \in 0 .. 2
      BY DEF Smaller
    <3>2. fails' \in [DOMAIN slam -> 0 .. 2]
      <4> HIDE DEF Smaller
      <4> QED
        BY <2>3, <3>1 DEF Types, StateTypes
    <3> QED
      BY <2>1, <3>2 DEF Types, StateTypes
  <2> QED
    BY <2>1, <2>5, <2>6, TypesKept DEF Types
<1>5. CASE Finish
  <2>1. UNCHANGED <<timestamp, fails, tracked, imuFrom, frameVars, msckf, slamUpd, slamNew,
                    initVars>>
        /\ slam' = ChangeAnchors /\ MarginalizeOldClone /\ pc' = "idle" /\ deleted' = {}
        /\ used' = {m \in used : m[2] \in clones'}
        /\ db' \in {CleanupMeasurements(Cleanup(db, deleted), Oldest), Cleanup(db, deleted)}
    BY <1>5 DEF Finish
  <2>2. IsDatabase(db')
    <3>1. IsDatabase(Cleanup(db, deleted))
      BY CleanupsGive DEF Types, TrackTypes
    <3>2. IsDatabase(CleanupMeasurements(Cleanup(db, deleted), Oldest))
      BY <3>1, CleanupsGive
    <3> QED
      BY <2>1, <3>1, <3>2
  <2>3. ChangeAnchors \in [DOMAIN slam -> Nat]
    BY DEF ChangeAnchors, Types, StateTypes
  <2>4. clones' \in SUBSET Nat /\ IsFiniteSet(clones') /\ clones' \subseteq clones
    BY <2>1, MarginalizeTypes DEF Types
  <2>5. StateTypes'
    <3>1. \E n \in Nat : \A c \in clones' : c <= n
      BY <2>4 DEF Types, StateTypes
    <3> QED
      BY <2>1, <2>3, <2>4, <3>1 DEF Types, StateTypes
  <2>6. UpdTypes' /\ TrackTypes'
    BY <2>1, <2>2 DEF Types, UpdTypes, TrackTypes
  <2> QED
    BY <2>1, <2>5, <2>6, TypesKept DEF Types
<1>6. ASSUME NEW f \in Feats, DelayedInit(f) PROVE Types'
  <2>1. UNCHANGED <<timestamp, clones, trackVars, imuFrom, frameVars, pc, msckf, slamUpd,
                    initVars>>
        /\ deleted' = deleted \cup {f} /\ slamNew' = slamNew \ {f}
    BY <1>6 DEF DelayedInit
  <2>2. CASE UNCHANGED <<slam, fails, ids, rows, used>>
    BY <2>1, <2>2, TypesKept DEF Types, StateTypes, UpdTypes
  <2>3. CASE /\ Cardinality(Usable(f)) >= 2
             /\ slam' = [g \in DOMAIN slam \cup {f} |->
                          IF g = f THEN Largest(Usable(f)) ELSE slam[g]]
             /\ fails' = [g \in DOMAIN fails \cup {f} |-> IF g = f THEN 0 ELSE fails[g]]
             /\ used' = used \cup Uses({f})
    <3>1. Usable(f) # {}
      BY <2>3, FS_EmptySet
    <3>2. Usable(f) \subseteq Nat /\ Largest(Usable(f)) \in Nat
      BY <3>1, AnchorIsClone DEF Types, StateTypes
    <3>3. StateTypes'
      <4> HIDE DEF Largest, Usable
      <4> QED
        BY <2>1, <2>3, <3>2 DEF Types, StateTypes
    <3>4. Uses({f}) \subseteq Feats \X Nat
      BY DEF Types, StateTypes
    <3>5. UpdTypes'
      BY <2>1, <2>3, <3>4 DEF Types, UpdTypes
    <3> QED
      BY <2>1, <3>3, <3>5, TypesKept DEF Types
  <2> QED
    BY <1>6, <2>2, <2>3 DEF DelayedInit
<1> QED
  BY <1>1, <1>2, <1>3, <1>4, <1>5, <1>6 DEF PropagateUpdate

LEMMA TypesStep == Types /\ [Next]_vars => Types'
<1> SUFFICES ASSUME Types, [Next]_vars PROVE Types'
  OBVIOUS
<1>1. CASE UNCHANGED vars
  <2>1. UNCHANGED <<stateVars, trackVars, imuFrom, frameVars, pc, updVars, initVars>>
    BY <1>1 DEF vars
  <2> QED
    BY <2>1, TypesKept DEF Types
<1>2. CASE Next
  BY <1>2, FrameTypesStep, ZuptTypesStep, TryToInitializeTypesStep, InitThreadTypesStep,
     PropagateUpdateTypesStep DEF Next
<1> QED
  BY <1>1, <1>2

-----------------------------------------------------------------------------
(* Who works on the state: the two flags, the thread's and the driver's     *)
(* positions.                                                               *)
Owner ==
  /\ running <=> tpc # "none"
  /\ success => tpc \in {"exit", "none"}
  /\ isInit => tpc = "none"
  /\ pc \in {"zupt", "propagate", "select", "msckf", "slam"} => isInit
  /\ pc \in {"init", "enqueue", "stopped"} => ~isInit
  /\ pc = "stopped" => tpc = "none"

LEMMA OwnerInit == Init => Owner
BY DEF Init, InitCommon, InitUnknown, InitGroundTruth, Owner

LEMMA OwnerStep == Types /\ Owner /\ [Next]_vars => Owner'
<1> SUFFICES ASSUME Types, Owner, [Next]_vars PROVE Owner'
  OBVIOUS
<1> USE DEF Owner
<1>1. CASE UNCHANGED vars
  BY <1>1 DEF vars, frameVars, initVars
<1>2. ASSUME NEW t, NEW cams, NEW survive, NEW found, Frame(t, cams, survive, found)
      PROVE  Owner'
  BY <1>2 DEF Frame, initVars, ZuptAllowed
<1>3. CASE Zupt
  BY <1>3 DEF Zupt, RepeatZupt, RefuseZupt, AcceptZupt, frameVars, initVars
<1>4. CASE TryToInitialize
  BY <1>4 DEF TryToInitialize, SeeRunning, Enqueue, SeeStopped, TakeOver, Launch,
              frameVars, initVars
<1>5. CASE InitThread
  BY <1>5 DEF InitThread, BeginSolve, SolveFails, ClearQueue, SolveSucceeds, StartReplay,
              ReplayFrame, ShrinkWindow, Publish, ThreadExit, frameVars
<1>6. CASE PropagateUpdate
  <2>1. UNCHANGED <<running, success, tpc, isInit>>
        /\ pc \in {"propagate", "select", "msckf", "slam"}
        /\ pc' \in {"idle", "select", "msckf", "slam"}
    BY <1>6 DEF PropagateUpdate, Propagate, Select, MsckfUpdate, SlamUpdate, DelayedInit,
                Finish, frameVars, initVars
  <2> QED
    BY <2>1
<1> QED
  BY <1>1, <1>2, <1>3, <1>4, <1>5, <1>6 DEF Next

-----------------------------------------------------------------------------
(* Nothing measured, queued or solved for lies after the newest frame.      *)
Ascends(q) == \A i, j \in DOMAIN q : i < j => q[i] < q[j]

Past ==
  /\ \A f \in DOMAIN db : \A u \in db[f] : u <= frame.time
  /\ tpc = "solve" => solveTime <= frame.time

QueueOrder ==
  /\ Ascends(queue)
  /\ \A i \in DOMAIN queue : queue[i] <= frame.time
  /\ pc \in {"init", "enqueue"} => \A i \in DOMAIN queue : queue[i] < frame.time

LEMMA PastInit == Init => Past /\ QueueOrder
BY DEF Init, InitCommon, Past, QueueOrder, Ascends, EmptyDatabase

LEMMA PastStep == Types /\ Owner /\ Past /\ [Next]_vars => Past'
<1> SUFFICES ASSUME Types, Owner, Past, [Next]_vars PROVE Past'
  OBVIOUS
<1>1. frame.time \in Nat /\ IsDatabase(db)
  BY DEF Types, FrameTypes, TrackTypes
<1>2. ASSUME Within(db', db), frame' = frame, tpc' = "solve" => UNCHANGED <<tpc, solveTime>>
      PROVE  Past'
  BY <1>2 DEF Within, Past
<1>3. CASE UNCHANGED <<db, frame, tpc, solveTime>>
  BY <1>3 DEF Past
<1>4. ASSUME NEW t \in {frame.time, frame.time + 1} \cap Times, NEW cams \in SUBSET Cams,
             NEW survive \in SUBSET (tracked \cap Seen(cams)),
             NEW found \in SUBSET (FreshIds \cap Seen(cams)),
             Frame(t, cams, survive, found)
      PROVE  Past'
  <2>1. db' = UpdateFeatures(db, survive \cup found, t) /\ frame'.time = t
        /\ UNCHANGED <<tpc, solveTime>>
    BY <1>4 DEF Frame, initVars
  <2>2. survive \cup found \in SUBSET Feats
    BY DEF Types, TrackTypes, FreshIds
  <2>3. \A f \in DOMAIN db' : \A x \in db'[f] : (f \in DOMAIN db /\ x \in db[f]) \/ x = t
    <3>1. t \in Times
      OBVIOUS
    <3> DEFINE S == survive \cup found
    <3>2. \A f \in DOMAIN UpdateFeatures(db, S, t) : \A x \in UpdateFeatures(db, S, t)[f] :
            (f \in DOMAIN db /\ x \in db[f]) \/ (f \in S /\ x = t)
      <4> HIDE DEF S
      <4>1. S \in SUBSET Feats
        BY <2>2 DEF S
      <4> QED
        BY <1>1, <3>1, <4>1, UpdateGives
    <3> HIDE DEF S
    <3>3. db' = UpdateFeatures(db, S, t)
      BY <2>1 DEF S
    <3> QED
      BY <3>2, <3>3
  <2>4. t >= frame.time /\ t \in Nat
    BY <1>1
  <2>5. \A f \in DOMAIN db : \A u \in db[f] : u \in Nat
    BY <1>1, VioAssumption DEF IsDatabase, Times
  <2>6. \A f \in DOMAIN db' : \A x \in db'[f] : x <= t
    BY <1>1, <2>3, <2>4, <2>5 DEF Past
  <2>7. tpc = "solve" => solveTime <= t
    BY <1>1, <2>4 DEF Past, Types, InitTypes
  <2> QED
    BY <2>1, <2>6, <2>7 DEF Past
<1>5. CASE AcceptZupt
  BY <1>1, <1>2, <1>5, CleanupsGive DEF AcceptZupt, Within, initVars
<1>6. CASE BeginSolve
  <2>1. db' = CleanupMeasurements(db, Largest(Measured(db)) - InitWindow - 1)
        /\ UNCHANGED frame /\ db # EmptyDatabase
        /\ solveTime' \in Larger(Largest(Measured(db)) - InitLag, Larger(imuFrom, 1))
                          .. Largest(Measured(db))
    BY <1>6 DEF BeginSolve, frameVars
  <2>2. Within(db', db)
    BY <1>1, <2>1, CleanupsGive
  <2>3. Largest(Measured(db)) \in Measured(db) /\ Measured(db) \subseteq Times
    BY <1>1, <2>1, NewestMeasurement
  <2>4. Largest(Measured(db)) \in Nat /\ Largest(Measured(db)) <= frame.time
    BY <2>3, VioAssumption DEF Measured, Past, Times
  <2>5. Larger(Largest(Measured(db)) - InitLag, Larger(imuFrom, 1)) \in Int
    <3> HIDE DEF Largest
    <3> QED
      BY <2>4, VioAssumption DEF Larger, Types, FrameTypes
  <2>6. solveTime' <= frame.time
    <3> HIDE DEF Largest, Larger
    <3> QED
      BY <1>1, <2>1, <2>4, <2>5
  <2> QED
    BY <2>1, <2>2, <2>6 DEF Past, Within
<1>7. CASE SolveSucceeds
  BY <1>1, <1>2, <1>7, CleanupsGive DEF SolveSucceeds
<1>8. CASE Finish
  <2>1. IsDatabase(Cleanup(db, deleted)) /\ Within(Cleanup(db, deleted), db)
    BY <1>1, CleanupsGive
  <2>2. Within(CleanupMeasurements(Cleanup(db, deleted), Oldest), Cleanup(db, deleted))
    BY <2>1, CleanupsGive
  <2>3. db' \in {CleanupMeasurements(Cleanup(db, deleted), Oldest), Cleanup(db, deleted)}
        /\ UNCHANGED <<frame, tpc, solveTime>>
    BY <1>8 DEF Finish, frameVars, initVars
  <2>4. Within(db', db)
    BY <2>1, <2>2, <2>3 DEF Within
  <2> QED
    BY <1>2, <2>3, <2>4
<1>9. CASE UNCHANGED vars \/ RepeatZupt \/ RefuseZupt \/ TryToInitialize
  <2>1. UNCHANGED <<db, frame>> /\ (tpc' = "solve" => UNCHANGED <<tpc, solveTime>>)
    BY <1>9 DEF vars, RepeatZupt, RefuseZupt, TryToInitialize, SeeRunning, Enqueue, SeeStopped,
                TakeOver, Launch, trackVars, frameVars, initVars
  <2> QED
    BY <2>1 DEF Past
<1>10. CASE SolveFails \/ ClearQueue \/ StartReplay \/ ReplayFrame \/ ShrinkWindow
            \/ Publish \/ ThreadExit
  <2>1. UNCHANGED <<db, frame>> /\ tpc' # "solve"
    BY <1>10 DEF SolveFails, ClearQueue, StartReplay, ReplayFrame, ShrinkWindow, Publish,
                 ThreadExit, trackVars, frameVars
  <2> QED
    BY <2>1 DEF Past
<1>11. CASE Propagate \/ Select \/ MsckfUpdate \/ SlamUpdate \/ \E f \in Feats : DelayedInit(f)
  <2>1. UNCHANGED <<db, frame, tpc, solveTime>>
    BY <1>11 DEF Propagate, Select, MsckfUpdate, SlamUpdate, DelayedInit, trackVars, frameVars,
                 initVars
  <2> QED
    BY <1>3, <2>1
<1> QED
  BY <1>4, <1>5, <1>6, <1>7, <1>8, <1>9, <1>10, <1>11
     DEF Next, Zupt, InitThread, PropagateUpdate

LEMMA QueueOrderStep == Types /\ Owner /\ QueueOrder /\ [Next]_vars => QueueOrder'
<1> SUFFICES ASSUME Types, Owner, QueueOrder, [Next]_vars PROVE QueueOrder'
  OBVIOUS
<1>1. frame.time \in Nat /\ queue \in Seq(Nat) /\ \A i \in DOMAIN queue : queue[i] \in Nat
  BY DEF Types, FrameTypes, InitTypes
<1>2. CASE UNCHANGED <<queue, frame>> /\ (pc' \in {"init", "enqueue"} => pc \in {"init", "enqueue"})
  BY <1>2 DEF QueueOrder, Ascends
<1>3. ASSUME NEW t \in {frame.time, frame.time + 1} \cap Times, NEW cams \in SUBSET Cams,
             NEW survive, NEW found, Frame(t, cams, survive, found)
      PROVE  QueueOrder'
  <2>1. UNCHANGED queue /\ frame'.time = t /\ (pc' \in {"init", "enqueue"} => ~isInit)
    BY <1>3 DEF Frame, initVars
  <2>2. t >= frame.time /\ (~isInit => t > frame.time) /\ t \in Nat
    BY <1>1, <1>3 DEF Frame, Arrives
  <2> QED
    BY <1>1, <2>1, <2>2 DEF QueueOrder, Ascends
<1>4. CASE Enqueue
  <2>1. queue' = Append(queue, frame.time) /\ UNCHANGED frame /\ pc = "enqueue" /\ pc' = "idle"
    BY <1>4 DEF Enqueue, frameVars
  <2>2. DOMAIN queue' = 1 .. Len(queue) + 1 /\ DOMAIN queue = 1 .. Len(queue) /\ Len(queue) \in Nat
        /\ (\A i \in 1 .. Len(queue) : queue'[i] = queue[i])
        /\ queue'[Len(queue) + 1] = frame.time
    BY <1>1, <2>1
  <2>3. \A i \in DOMAIN queue' : i \in DOMAIN queue \/ i = Len(queue) + 1
    BY <2>2
  <2>4. \A i \in DOMAIN queue' : queue'[i] <= frame.time
    BY <1>1, <2>2, <2>3 DEF QueueOrder
  <2>5. Ascends(queue')
    BY <1>1, <2>1, <2>2, <2>3 DEF QueueOrder, Ascends
  <2> QED
    BY <2>1, <2>4, <2>5 DEF QueueOrder
<1>5. CASE queue' = <<>>
  BY <1>5 DEF QueueOrder, Ascends
<1>6. CASE UNCHANGED vars \/ Zupt \/ SeeRunning \/ SeeStopped \/ TakeOver \/ Launch
  BY <1>2, <1>6 DEF vars, Zupt, RepeatZupt, RefuseZupt, AcceptZupt, SeeRunning, SeeStopped,
     TakeOver, Launch, frameVars, initVars
<1>7. CASE InitThread
  BY <1>2, <1>5, <1>7 DEF InitThread, BeginSolve, SolveFails, ClearQueue, SolveSucceeds,
     StartReplay, ReplayFrame, ShrinkWindow, Publish, ThreadExit, frameVars
<1>8. CASE PropagateUpdate
  BY <1>2, <1>8 DEF PropagateUpdate, Propagate, Select, MsckfUpdate, SlamUpdate, DelayedInit,
     Finish, frameVars, initVars
<1> QED
  BY <1>3, <1>4, <1>6, <1>7, <1>8 DEF Next, TryToInitialize

-----------------------------------------------------------------------------
(* The state's time against the frame's, and the clones against it: the     *)
(* newest clone is the state's but after a zero velocity update.            *)
Replay ==
  tpc \in {"replay", "shrink"} =>
    Ascends(todo) /\ \A i \in DOMAIN todo : timestamp < todo[i] /\ todo[i] <= frame.time

StatePast ==
  /\ ~isInit \/ pc # "idle" => timestamp <= frame.time
  /\ tpc = "lock" => timestamp = startup
  /\ tpc \in {"replay", "shrink"} \/ (success /\ ~isInit) => startup <= timestamp

NewestClone ==
  /\ \A c \in clones : c <= timestamp
  /\ ~isInit /\ ~success /\ tpc \notin {"replay", "shrink"} => clones = {}
  /\ clones # {} /\ ~didZupt =>
       timestamp \in clones \/ (pc = "propagate" /\ timestamp < frame.time)
  /\ pc \in {"select", "msckf", "slam"} => timestamp = frame.time /\ timestamp \in clones

Standing ==
  /\ pc = "zupt" => ZuptAllowed
  /\ didZupt => ZuptAllowed /\ \A c \in clones : c < timestamp
  /\ pc \in {"propagate", "select", "msckf", "slam"} => ~didZupt

Timeline == Past /\ QueueOrder /\ Replay /\ StatePast /\ NewestClone /\ Standing

LEMMA TimelineInit == Init => Timeline
<1> SUFFICES ASSUME Init PROVE Timeline
  OBVIOUS
<1>1. Past /\ QueueOrder
  BY PastInit
<1>2. Replay /\ StatePast /\ NewestClone /\ Standing
  BY DEF Init, InitCommon, InitUnknown, InitGroundTruth, Replay, StatePast, NewestClone, Standing
<1> QED
  BY <1>1, <1>2 DEF Timeline

LEMMA OverfullMeans ==
  ASSUME StateTypes, Overfull, timestamp \in clones, \A c \in clones : c <= timestamp
  PROVE  Oldest \in clones /\ Oldest < timestamp
<1>1. Cardinality(clones) \in Nat /\ MaxClone \in Nat \ {0}
  BY FS_CardinalityType, VioAssumption DEF StateTypes
<1>2. Cardinality(clones) > 1
  BY <1>1 DEF Overfull
<1> QED
  BY <1>2, NewestIsNotOldest DEF StateTypes

LEMMA EmptyIsNotOverfull == clones = {} => ~Overfull
BY FS_EmptySet, VioAssumption DEF Overfull

LEMMA ReplayStep == Types /\ Owner /\ Timeline /\ [Next]_vars => Replay'
<1> SUFFICES ASSUME Types, Owner, Timeline, [Next]_vars PROVE Replay'
  OBVIOUS
<1>1. frame.time \in Nat /\ timestamp \in Nat /\ queue \in Seq(Nat) /\ todo \in Seq(Nat)
      /\ startup \in Nat /\ rate \in Nat \ {0}
  BY DEF Types, StateTypes, FrameTypes, InitTypes
<1>2. ASSUME tpc' \in {"replay", "shrink"} => UNCHANGED <<tpc, todo, timestamp, frame>>
      PROVE  Replay'
  BY <1>2 DEF Replay, Timeline, Ascends
<1>3. CASE StartReplay
  <2>1. todo' = LaterThan(queue, startup) /\ UNCHANGED <<timestamp, frame>> /\ timestamp = startup
    BY <1>3 DEF StartReplay, stateVars, frameVars, Timeline, StatePast
  <2>2. \A i, j \in DOMAIN queue : i < j => queue[i] < queue[j]
    BY DEF Timeline, QueueOrder, Ascends
  <2>3. /\ \A i \in DOMAIN todo' : todo'[i] > startup /\ \E k \in DOMAIN queue : todo'[i] = queue[k]
        /\ \A i, j \in DOMAIN todo' : i < j => todo'[i] < todo'[j]
    <3>1. /\ \A i \in DOMAIN LaterThan(queue, startup) :
               /\ LaterThan(queue, startup)[i] > startup
               /\ \E k \in DOMAIN queue : LaterThan(queue, startup)[i] = queue[k]
          /\ \A i, j \in DOMAIN LaterThan(queue, startup) :
               i < j => LaterThan(queue, startup)[i] < LaterThan(queue, startup)[j]
      BY <1>1, <2>2, LaterThanGives
    <3> QED
      BY <2>1, <3>1
  <2>4. \A i \in DOMAIN todo' : todo'[i] <= frame.time
    BY <2>3 DEF Timeline, QueueOrder
  <2>5. Ascends(todo')
    BY <2>3 DEF Ascends
  <2>6. \A i \in DOMAIN todo' : timestamp < todo'[i]
    <3> TAKE i \in DOMAIN todo'
    <3>1. PICK k \in DOMAIN queue : todo'[i] = queue[k]
      BY <2>3
    <3>2. queue[k] \in Nat
      BY <1>1
    <3> QED
      BY <1>1, <2>1, <2>3, <3>1, <3>2
  <2> QED
    BY <2>1, <2>4, <2>5, <2>6 DEF Replay
<1>4. CASE ReplayFrame
  <2>1. todo' = SubSeq(todo, rate + 1, Len(todo)) /\ timestamp' = Head(todo) /\ todo # <<>>
        /\ UNCHANGED frame /\ tpc = "replay"
    BY <1>4 DEF ReplayFrame, PropagateAndClone, frameVars
  <2>2. \A i \in DOMAIN todo : todo[i] \in Nat /\ todo[i] <= frame.time
    BY <1>1, <2>1 DEF Timeline, Replay
  <2>3. Len(todo) \in Nat /\ Len(todo) > 0 /\ DOMAIN todo = 1 .. Len(todo) /\ Head(todo) = todo[1]
    BY <1>1, <2>1
  <2>4. \A i \in (rate + 1) .. Len(todo) : todo[i] \in Nat
    BY <1>1, <2>3
  <2>5. /\ todo' \in Seq(Nat)
        /\ Len(todo') = IF rate + 1 <= Len(todo) THEN Len(todo) - (rate + 1) + 1 ELSE 0
        /\ \A i \in 1 .. Len(todo) - (rate + 1) + 1 : todo'[i] = todo[rate + 1 + i - 1]
    <3>1. rate + 1 \in Int /\ Len(todo) \in Int
      BY <1>1, <2>3
    <3> QED
      BY <2>1, <2>4, <3>1, SubSeqProperties
  <2>6. \A i \in DOMAIN todo' : rate + i \in DOMAIN todo /\ todo'[i] = todo[rate + i] /\ i > 0
    <3> TAKE i \in DOMAIN todo'
    <3>1. DOMAIN todo' = 1 .. Len(todo')
      BY <2>5
    <3>2. i \in Nat /\ i > 0 /\ i <= Len(todo')
      BY <2>5, <3>1
    <3>3. Len(todo') # 0
      BY <2>5, <3>2
    <3>4. rate + 1 <= Len(todo) /\ Len(todo') = Len(todo) - (rate + 1) + 1
      BY <2>5, <3>3
    <3>5. i \in 1 .. Len(todo) - (rate + 1) + 1 /\ rate + i \in 1 .. Len(todo)
      BY <1>1, <2>3, <3>2, <3>4
    <3>6. todo'[i] = todo[rate + 1 + i - 1]
      BY <2>5, <3>5
    <3>7. rate + 1 + i - 1 = rate + i
      BY <1>1, <3>2
    <3> QED
      BY <2>3, <3>2, <3>5, <3>6, <3>7
  <2>7. \A i, j \in DOMAIN todo : i < j => todo[i] < todo[j]
    BY <2>1 DEF Timeline, Replay, Ascends
  <2>8. \A i \in DOMAIN todo' : i \in Nat
    BY <2>5
  <2>9. Ascends(todo')
    <3> SUFFICES ASSUME NEW i \in DOMAIN todo', NEW j \in DOMAIN todo', i < j
                 PROVE  todo'[i] < todo'[j]
      BY DEF Ascends
    <3>1. rate + i < rate + j
      BY <1>1, <2>8
    <3> QED
      BY <2>6, <2>7, <3>1
  <2>10. \A i \in DOMAIN todo' : timestamp' < todo'[i] /\ todo'[i] <= frame.time
    <3> TAKE i \in DOMAIN todo'
    <3>1. 1 \in DOMAIN todo /\ 1 < rate + i
      BY <1>1, <2>3, <2>6, <2>8
    <3> QED
      BY <2>1, <2>2, <2>3, <2>6, <2>7, <3>1
  <2> QED
    BY <2>1, <2>9, <2>10 DEF Replay
<1>5. CASE ShrinkWindow
  BY <1>5 DEF ShrinkWindow, Replay, Timeline, frameVars, Ascends
<1>6. CASE BeginSolve \/ SolveFails \/ ClearQueue \/ SolveSucceeds \/ Publish \/ ThreadExit
  BY <1>2, <1>6 DEF BeginSolve, SolveFails, ClearQueue, SolveSucceeds, Publish, ThreadExit
<1>7. CASE UNCHANGED vars \/ TryToInitialize
  BY <1>2, <1>7 DEF vars, TryToInitialize, SeeRunning, Enqueue, SeeStopped, TakeOver, Launch,
     stateVars, frameVars, initVars
<1>8. CASE Zupt \/ PropagateUpdate
  <2>1. isInit /\ UNCHANGED tpc
    BY <1>8 DEF Owner, Zupt, RepeatZupt, RefuseZupt, AcceptZupt, PropagateUpdate, Propagate,
       Select, MsckfUpdate, SlamUpdate, DelayedInit, Finish, initVars
  <2> QED
    BY <1>2, <2>1 DEF Owner
<1>9. ASSUME NEW t \in {frame.time, frame.time + 1} \cap Times, NEW cams, NEW survive, NEW found,
             Frame(t, cams, survive, found)
      PROVE  Replay'
  <2>1. UNCHANGED <<tpc, todo, timestamp>> /\ frame'.time = t /\ t >= frame.time /\ t \in Nat
    BY <1>1, <1>9 DEF Frame, stateVars, initVars
  <2>2. \A i \in DOMAIN todo : todo[i] \in Nat
    BY <1>1
  <2> QED
    BY <1>1, <2>1, <2>2 DEF Replay, Timeline, Ascends
<1> QED
  BY <1>3, <1>4, <1>5, <1>6, <1>7, <1>8, <1>9 DEF Next, InitThread

StateTime == StatePast /\ NewestClone /\ Standing

(* What marginalising the oldest clone does while the newest is the state's. *)
LEMMA MarginalizeKeeps ==
  ASSUME StateTypes, MarginalizeOldClone, clones # {} => timestamp \in clones,
         \A c \in clones : c <= timestamp
  PROVE  clones' \subseteq clones /\ (timestamp \in clones => timestamp \in clones')
<1>1. CASE Overfull
  <2>1. Oldest < timestamp
    BY <1>1, OverfullMeans, EmptyIsNotOverfull
  <2>2. Oldest # timestamp
    <3>1. timestamp \in Nat
      BY DEF StateTypes
    <3> HIDE DEF Oldest
    <3> QED
      BY <2>1, <3>1
  <2> QED
    BY <1>1, <2>2 DEF MarginalizeOldClone
<1>2. CASE ~Overfull
  BY <1>2 DEF MarginalizeOldClone
<1> QED
  BY <1>1, <1>2

LEMMA ThreadStateTimeStep ==
  ASSUME Types, Owner, Timeline, InitThread
  PROVE  StateTime'
<1> USE DEF StateTime, StatePast, NewestClone, Standing
<1>1. frame.time \in Nat /\ timestamp \in Nat /\ startup \in Nat /\ solveTime \in Nat
      /\ clones \subseteq Nat
  BY DEF Types, StateTypes, FrameTypes, InitTypes
<1>2. ~isInit /\ ~didZupt /\ pc \in {"idle", "init", "enqueue", "stopped"}
      /\ UNCHANGED <<frame, pc, isInit, didZupt>>
  <2>1. ~isInit
    BY DEF Owner, InitThread, BeginSolve, SolveFails, ClearQueue, SolveSucceeds, StartReplay,
           ReplayFrame, ShrinkWindow, Publish, ThreadExit
  <2>2. ~didZupt
    BY <2>1 DEF Timeline, ZuptAllowed
  <2>3. pc \in {"idle", "init", "enqueue", "stopped"}
    BY <2>1 DEF Owner, Types, FrameTypes
  <2>4. UNCHANGED <<frame, pc, isInit, didZupt>>
    BY DEF InitThread, BeginSolve, SolveFails, ClearQueue, SolveSucceeds, StartReplay,
           ReplayFrame, ShrinkWindow, Publish, ThreadExit, frameVars
  <2> QED
    BY <2>1, <2>2, <2>3, <2>4
<1>3. timestamp <= frame.time /\ (clones # {} => timestamp \in clones)
      /\ \A c \in clones : c <= timestamp
  BY <1>2 DEF Timeline
<1>4. ASSUME /\ timestamp' <= frame.time
             /\ tpc' = "lock" => timestamp' = startup'
             /\ tpc' \in {"replay", "shrink"} \/ success' => startup' <= timestamp'
             /\ \A c \in clones' : c <= timestamp'
             /\ ~success' /\ tpc' \notin {"replay", "shrink"} => clones' = {}
             /\ clones' # {} => timestamp' \in clones'
      PROVE  StateTime'
  BY <1>2, <1>4 DEF ZuptAllowed
<1>5. CASE BeginSolve \/ SolveFails \/ ClearQueue \/ Publish \/ ThreadExit
  <2>1. UNCHANGED <<timestamp, clones, startup>> /\ tpc' \in {"solve", "clear", "exit", "none"}
    BY <1>5 DEF BeginSolve, SolveFails, ClearQueue, Publish, ThreadExit, stateVars, frameVars
  <2>2. success' => startup <= timestamp
    BY <1>2, <1>5 DEF BeginSolve, SolveFails, ClearQueue, Publish, ThreadExit, Timeline
  <2>3. ~success' => clones = {}
    <3>1. ~success' => ~success /\ tpc \notin {"replay", "shrink"}
      BY <1>5 DEF BeginSolve, SolveFails, ClearQueue, Publish, ThreadExit, Owner
    <3> QED
      BY <1>2, <3>1 DEF Timeline
  <2> QED
    BY <1>3, <1>4, <2>1, <2>2, <2>3
<1>6. CASE SolveSucceeds
  <2>1. timestamp' = solveTime /\ startup' = solveTime /\ UNCHANGED <<clones, success>>
        /\ tpc = "solve" /\ tpc' = "lock"
    BY <1>6 DEF SolveSucceeds
  <2>2. clones = {} /\ ~success /\ solveTime <= frame.time
    BY <1>2, <2>1 DEF Owner, Timeline, Past
  <2> QED
    BY <1>1, <1>4, <2>1, <2>2
<1>7. CASE StartReplay
  <2>1. UNCHANGED <<timestamp, clones, startup, success>> /\ tpc = "lock" /\ tpc' = "replay"
    BY <1>7 DEF StartReplay, stateVars, frameVars
  <2>2. startup <= timestamp
    BY <1>1, <2>1 DEF Timeline
  <2> QED
    BY <1>3, <1>4, <2>1, <2>2
<1>8. CASE ReplayFrame
  <2>1. UNCHANGED <<startup, success>> /\ tpc = "replay" /\ tpc' = "shrink" /\ todo # <<>>
        /\ timestamp' = Head(todo) /\ clones' = clones \cup {Head(todo)}
    BY <1>8 DEF ReplayFrame, PropagateAndClone, frameVars
  <2>2. Head(todo) = todo[1] /\ 1 \in DOMAIN todo /\ todo[1] \in Nat
    BY <2>1 DEF Types, InitTypes
  <2>3. timestamp < Head(todo) /\ Head(todo) <= frame.time
    BY <2>1, <2>2 DEF Timeline, Replay
  <2>4. startup <= timestamp
    BY <2>1 DEF Timeline
  <2> QED
    BY <1>1, <1>3, <1>4, <2>1, <2>2, <2>3, <2>4
<1>9. CASE ShrinkWindow
  <2>1. UNCHANGED <<startup, success, timestamp>> /\ tpc = "shrink" /\ tpc' = "replay"
        /\ MarginalizeOldClone
    BY <1>9 DEF ShrinkWindow, frameVars
  <2>2. startup <= timestamp
    BY <2>1 DEF Timeline
  <2>3. clones' \subseteq clones /\ (timestamp \in clones => timestamp \in clones')
    BY <1>3, <2>1, MarginalizeKeeps DEF Types
  <2> QED
    BY <1>3, <1>4, <2>1, <2>2, <2>3
<1> QED
  BY <1>5, <1>6, <1>7, <1>8, <1>9 DEF InitThread

LEMMA DriverStateTimeStep ==
  ASSUME Types, Owner, Timeline,
         Zupt \/ TryToInitialize \/ PropagateUpdate
  PROVE  StateTime'
<1> USE DEF StateTime, StatePast, NewestClone, Standing
<1>1. frame.time \in Nat /\ timestamp \in Nat /\ clones \subseteq Nat
  BY DEF Types, StateTypes, FrameTypes
<1>2. pc # "idle"
  BY DEF Zupt, RepeatZupt, RefuseZupt, AcceptZupt, TryToInitialize, SeeRunning, Enqueue,
         SeeStopped, TakeOver, Launch, PropagateUpdate, Propagate, Select, MsckfUpdate,
         SlamUpdate, DelayedInit, Finish
<1>3. timestamp <= frame.time
  BY <1>2 DEF Timeline
<1>4. CASE Zupt
  <2>1. isInit /\ isInit' /\ tpc' = "none" /\ ZuptAllowed /\ ZuptAllowed' /\ UNCHANGED frame
        /\ pc = "zupt"
    BY <1>4 DEF Zupt, RepeatZupt, RefuseZupt, AcceptZupt, frameVars, initVars, Owner, Timeline,
                ZuptAllowed
  <2>2. CASE RepeatZupt
    BY <1>3, <2>1, <2>2 DEF RepeatZupt, stateVars, frameVars, Timeline
  <2>3. CASE RefuseZupt
    <3>1. timestamp < frame.time
      BY <1>1, <1>3, <2>3 DEF RefuseZupt
    <3> QED
      BY <2>1, <2>3, <3>1 DEF RefuseZupt, stateVars, Timeline
  <2>4. CASE AcceptZupt
    <3>1. timestamp < frame.time
      BY <1>1, <1>3, <2>4 DEF AcceptZupt
    <3>2. UNCHANGED clones /\ timestamp' = frame.time /\ didZupt' = TRUE /\ pc' = "idle"
      BY <2>4 DEF AcceptZupt
    <3>3. \A c \in clones : c < frame.time
      BY <1>1, <3>1 DEF Timeline
    <3> QED
      BY <1>1, <2>1, <3>2, <3>3
  <2> QED
    BY <1>4, <2>2, <2>3, <2>4 DEF Zupt
<1>5. CASE TryToInitialize
  <2>1. ~isInit /\ ~didZupt /\ pc \in {"init", "enqueue", "stopped"}
        /\ pc' \in {"idle", "enqueue", "stopped", "propagate"} /\ (pc' = "propagate" <=> isInit')
        /\ UNCHANGED <<timestamp, clones, frame, didZupt, startup, success>>
        /\ (tpc' \in {"lock", "replay", "shrink"} <=> tpc \in {"lock", "replay", "shrink"})
        /\ (tpc' = "lock" <=> tpc = "lock")
    BY <1>5 DEF TryToInitialize, SeeRunning, Enqueue, SeeStopped, TakeOver, Launch, stateVars,
                frameVars, initVars, Owner, Timeline, ZuptAllowed
  <2>2. tpc' \in {"replay", "shrink"} <=> tpc \in {"replay", "shrink"}
    BY <1>5 DEF TryToInitialize, SeeRunning, Enqueue, SeeStopped, TakeOver, Launch, initVars, Owner
  <2> QED
    BY <1>3, <2>1, <2>2 DEF Timeline
<1>6. CASE Propagate
  <2>1. isInit /\ isInit' /\ tpc' = "none" /\ ~didZupt /\ ~didZupt' /\ UNCHANGED frame
        /\ pc = "propagate" /\ pc' \in {"idle", "select"}
        /\ (pc' = "select" => ~(Cardinality(clones') < Smaller(MaxClone, GateClones)))
    BY <1>6 DEF Propagate, Owner, initVars, Timeline
  <2>2. CASE timestamp < frame.time
    <3>1. timestamp' = frame.time /\ clones' = clones \cup {frame.time}
      BY <1>6, <2>2 DEF Propagate, PropagateAndClone
    <3> QED
      BY <1>1, <2>1, <2>2, <3>1 DEF Timeline
  <2>3. CASE ~(timestamp < frame.time)
    <3>1. UNCHANGED <<timestamp, clones>> /\ timestamp = frame.time
      BY <1>1, <1>3, <1>6, <2>3 DEF Propagate, stateVars
    <3>2. pc' = "select" => clones # {}
      <4>1. Smaller(MaxClone, GateClones) \in Nat \ {0}
        BY VioAssumption DEF Smaller
      <4> QED
        BY <2>1, <3>1, <4>1, FS_EmptySet
    <3> QED
      BY <1>1, <2>1, <2>3, <3>1, <3>2 DEF Timeline
  <2> QED
    BY <2>2, <2>3
<1>7. ASSUME UNCHANGED <<timestamp, clones, frame, isInit, didZupt, tpc>>,
             pc \in {"select", "msckf", "slam"}, pc' \in {"select", "msckf", "slam"}
      PROVE  StateTime'
  <2>1. isInit /\ tpc = "none" /\ ~didZupt
    BY <1>7 DEF Owner, Timeline
  <2> QED
    BY <1>3, <1>7, <2>1 DEF Timeline
<1>8. CASE Select \/ MsckfUpdate \/ SlamUpdate \/ \E f \in Feats : DelayedInit(f)
  BY <1>7, <1>8 DEF Select, MsckfUpdate, SlamUpdate, DelayedInit, stateVars, frameVars, initVars
<1>9. CASE Finish
  <2>1. UNCHANGED <<timestamp, frame, isInit, didZupt, tpc>> /\ pc = "slam" /\ pc' = "idle"
        /\ MarginalizeOldClone
    BY <1>9 DEF Finish, frameVars, initVars
  <2>2. isInit /\ tpc = "none" /\ ~didZupt /\ timestamp = frame.time /\ timestamp \in clones
        /\ \A c \in clones : c <= timestamp
    BY <2>1 DEF Owner, Timeline
  <2>3. clones' \subseteq clones /\ timestamp \in clones'
    BY <2>1, <2>2, MarginalizeKeeps DEF Types
  <2> QED
    BY <1>3, <2>1, <2>2, <2>3
<1> QED
  BY <1>4, <1>5, <1>6, <1>8, <1>9 DEF PropagateUpdate

LEMMA FrameStateTimeStep ==
  ASSUME Types, Owner, Timeline, NEW t \in {frame.time, frame.time + 1} \cap Times,
         NEW cams, NEW survive, NEW found, Frame(t, cams, survive, found)
  PROVE  StateTime'
<1>1. UNCHANGED <<timestamp, clones, isInit, hasMoved, didZupt, startup, success, tpc>>
      /\ frame'.time = t /\ t >= timestamp /\ pc = "idle"
      /\ pc' = IF ZuptAllowed THEN "zupt" ELSE IF isInit THEN "propagate" ELSE "init"
  BY DEF Frame, Arrives, stateVars, initVars
<1>2. timestamp \in Nat /\ t \in Nat
  BY VioAssumption DEF Types, StateTypes, Times
<1>3. ZuptAllowed' = ZuptAllowed
  BY <1>1 DEF ZuptAllowed
<1>4. StatePast'
  BY <1>1, <1>2 DEF Timeline, StatePast
<1>5. NewestClone'
  BY <1>1, <1>2 DEF Timeline, NewestClone
<1>6. Standing'
  BY <1>1, <1>3 DEF Timeline, Standing, ZuptAllowed
<1> QED
  BY <1>4, <1>5, <1>6 DEF StateTime

LEMMA TimelineStep == Types /\ Owner /\ Timeline /\ [Next]_vars => Timeline'
<1> SUFFICES ASSUME Types, Owner, Timeline, [Next]_vars PROVE Timeline'
  OBVIOUS
<1>1. Past' /\ QueueOrder' /\ Replay'
  BY PastStep, QueueOrderStep, ReplayStep DEF Timeline
<1>2. StateTime'
  <2>1. CASE UNCHANGED vars
    BY <2>1 DEF vars, stateVars, frameVars, initVars, Timeline, StateTime, StatePast, NewestClone,
                Standing, ZuptAllowed
  <2>2. CASE Next
    BY <2>2, FrameStateTimeStep, DriverStateTimeStep, ThreadStateTimeStep DEF Next
  <2> QED
    BY <2>1, <2>2
<1> QED
  BY <1>1, <1>2 DEF Timeline, StateTime

-----------------------------------------------------------------------------
(* Landmarks exist once there is a state, anchored in the window; what is to *)
(* be initialised is no landmark yet.                                        *)
Anchored ==
  /\ AnchorsInWindow
  /\ ~isInit => DOMAIN slam = {}
  /\ slamNew \cap DOMAIN slam = {}

LEMMA AnchoredInit == Init => Anchored
BY DEF Init, InitCommon, Anchored, AnchorsInWindow

LEMMA AnchoredStep == Types /\ Owner /\ Timeline /\ Anchored /\ [Next]_vars => Anchored'
<1> SUFFICES ASSUME Types, Owner, Timeline, Anchored, [Next]_vars PROVE Anchored'
  OBVIOUS
<1> USE DEF Anchored, AnchorsInWindow
<1>1. CASE UNCHANGED <<slam, slamNew>> /\ clones \subseteq clones' /\ (isInit => isInit')
  BY <1>1
<1>2. CASE UNCHANGED vars
  BY <1>1, <1>2 DEF vars, stateVars, frameVars, updVars
<1>3. ASSUME NEW t, NEW cams, NEW survive, NEW found, Frame(t, cams, survive, found)
      PROVE  Anchored'
  BY <1>1, <1>3 DEF Frame, stateVars, updVars
<1>4. CASE Zupt \/ TryToInitialize
  BY <1>1, <1>4 DEF Zupt, RepeatZupt, RefuseZupt, AcceptZupt, TryToInitialize, SeeRunning,
     Enqueue, SeeStopped, TakeOver, Launch, stateVars, frameVars, updVars
<1>5. CASE InitThread
  <2>1. ~isInit
    BY <1>5 DEF Owner, InitThread, BeginSolve, SolveFails, ClearQueue, SolveSucceeds, StartReplay,
                ReplayFrame, ShrinkWindow, Publish, ThreadExit
  <2>2. UNCHANGED <<slam, slamNew, isInit>>
    BY <1>5 DEF InitThread, BeginSolve, SolveFails, ClearQueue, SolveSucceeds, StartReplay,
                ReplayFrame, ShrinkWindow, Publish, ThreadExit, PropagateAndClone, stateVars,
                frameVars, updVars
  <2> QED
    BY <2>1, <2>2
<1>6. CASE Propagate
  BY <1>1, <1>6 DEF Propagate, PropagateAndClone, stateVars, updVars
<1>7. CASE Select
  <2>1. UNCHANGED <<clones, isInit>> /\ slam' = Restrict(slam, DOMAIN slam \ ShouldMarg)
    BY <1>7 DEF Select, frameVars
  <2>2. DOMAIN slam' = DOMAIN slam \ ShouldMarg /\ \A f \in DOMAIN slam' : slam'[f] = slam[f]
    BY <2>1 DEF Restrict
  <2>3. slamNew' \cap DOMAIN slam' = {}
    BY <1>7 DEF Select
  <2> QED
    BY <2>1, <2>2, <2>3
<1>8. CASE MsckfUpdate \/ SlamUpdate
  BY <1>1, <1>8 DEF MsckfUpdate, SlamUpdate, stateVars, frameVars
<1>9. ASSUME NEW f \in Feats, DelayedInit(f) PROVE Anchored'
  <2>1. UNCHANGED <<clones, isInit>> /\ slamNew' = slamNew \ {f} /\ pc = "slam"
    BY <1>9 DEF DelayedInit, frameVars
  <2>2. isInit
    BY <2>1 DEF Owner
  <2>3. CASE UNCHANGED slam
    BY <2>1, <2>3
  <2>4. CASE /\ Cardinality(Usable(f)) >= 2
             /\ slam' = [g \in DOMAIN slam \cup {f} |->
                          IF g = f THEN Largest(Usable(f)) ELSE slam[g]]
    <3>1. Largest(Usable(f)) \in clones
      <4>1. Usable(f) # {}
        <5>1. Cardinality(Usable(f)) >= 2
          BY <2>4
        <5> HIDE DEF Usable
        <5>2. Usable(f) = {} => Cardinality(Usable(f)) = 0
          BY FS_EmptySet, Zenon
        <5> QED
          BY <5>1, <5>2
      <4> QED
        BY <4>1, AnchorIsClone DEF Types
    <3> HIDE DEF Largest, Usable
    <3> QED
      BY <2>1, <2>2, <2>4, <3>1
  <2> QED
    BY <1>9, <2>3, <2>4 DEF DelayedInit
<1>10. CASE Finish
  <2>1. UNCHANGED <<isInit, slamNew, timestamp>> /\ slam' = ChangeAnchors /\ MarginalizeOldClone
        /\ pc = "slam"
    BY <1>10 DEF Finish, frameVars
  <2>2. timestamp \in clones /\ \A c \in clones : c <= timestamp
    BY <2>1 DEF Timeline, NewestClone
  <2>3. timestamp \in clones'
    BY <2>1, <2>2, MarginalizeKeeps DEF Types
  <2>4. DOMAIN slam' = DOMAIN slam
    BY <2>1 DEF ChangeAnchors
  <2>5. \A f \in DOMAIN slam : slam'[f] \in clones'
    <3> TAKE f \in DOMAIN slam
    <3>1. CASE Overfull /\ slam[f] = Oldest
      BY <2>1, <2>3, <3>1 DEF ChangeAnchors
    <3>2. CASE ~(Overfull /\ slam[f] = Oldest)
      BY <2>1, <3>2 DEF ChangeAnchors, MarginalizeOldClone
    <3> QED
      BY <3>1, <3>2
  <2> QED
    BY <2>1, <2>4, <2>5
<1> QED
  BY <1>2, <1>3, <1>4, <1>5, <1>6, <1>7, <1>8, <1>9, <1>10 DEF Next, PropagateUpdate

-----------------------------------------------------------------------------
(* Before there is a state the IMU history is cut one window before the     *)
(* newest frame; afterwards it reaches back to the state, unless the state  *)
(* is one that was taken over more than that window late.                   *)
Covered ==
  /\ imuFrom <= frame.time
  /\ ~isInit => imuFrom = 0 \/ imuFrom <= frame.time - InitWindow
  /\ isInit => \/ imuFrom <= timestamp
               \/ pc = "propagate" /\ frame.time - timestamp > InitWindow

LEMMA CoveredInit == Init => Covered
BY DEF Init, InitCommon, InitUnknown, InitGroundTruth, Covered

LEMMA CoveredStep == Types /\ Owner /\ Timeline /\ Covered /\ [Next]_vars => Covered'
<1> SUFFICES ASSUME Types, Owner, Timeline, Covered, [Next]_vars PROVE Covered'
  OBVIOUS
<1> USE DEF Covered
<1>1. frame.time \in Nat /\ timestamp \in Nat /\ imuFrom \in Nat
      /\ clones \subseteq Nat /\ InitWindow \in Nat
  BY VioAssumption DEF Types, StateTypes, FrameTypes
<1>2. CASE UNCHANGED vars
  BY <1>2 DEF vars, stateVars, frameVars
<1>3. ASSUME NEW t \in {frame.time, frame.time + 1} \cap Times, NEW cams, NEW survive, NEW found,
             Frame(t, cams, survive, found)
      PROVE  Covered'
  <2>1. UNCHANGED <<isInit, timestamp>> /\ imuFrom' = ImuKept(t) /\ pc = "idle"
        /\ frame'.time = t /\ t \in Nat /\ frame.time <= t /\ timestamp <= t
    BY <1>1, <1>3, VioAssumption DEF Frame, Arrives, stateVars, Times
  <2>2. CASE isInit
    <3>1. clones # {} => Oldest \in Nat /\ Oldest <= timestamp
      BY <1>1, OldestIs DEF Timeline, NewestClone
    <3>2. imuFrom' = IF clones = {} THEN imuFrom ELSE Larger(imuFrom, Oldest)
      BY <2>1, <2>2 DEF ImuKept
    <3> HIDE DEF Oldest
    <3>3. imuFrom' <= timestamp
      BY <1>1, <2>1, <2>2, <3>1, <3>2 DEF Larger
    <3>4. imuFrom' \in Nat
      BY <1>1, <3>1, <3>2 DEF Larger
    <3> QED
      BY <1>1, <2>1, <2>2, <3>3, <3>4
  <2>3. CASE ~isInit
    <3>1. imuFrom' = Larger(imuFrom, t - InitWindow)
      BY <2>1, <2>3 DEF ImuKept
    <3> QED
      BY <1>1, <2>1, <2>3, <3>1 DEF Larger
  <2> QED
    BY <2>2, <2>3
<1>4. CASE Zupt
  <2>1. isInit /\ pc = "zupt" /\ UNCHANGED <<isInit, frame>>
    BY <1>4 DEF Zupt, RepeatZupt, RefuseZupt, AcceptZupt, Owner, frameVars
  <2>2. imuFrom' <= timestamp' /\ imuFrom' <= frame.time
    BY <1>1, <1>4, <2>1 DEF Zupt, RepeatZupt, RefuseZupt, AcceptZupt, stateVars
  <2> QED
    BY <2>1, <2>2
<1>5. CASE TakeOver
  <2>1. ~isInit /\ isInit' /\ pc' = "propagate" /\ UNCHANGED <<imuFrom, timestamp, frame>>
    BY <1>5 DEF TakeOver, stateVars, Owner
  <2> QED
    BY <1>1, <2>1
<1>6. CASE SeeRunning \/ Enqueue \/ SeeStopped \/ Launch
  BY <1>6 DEF SeeRunning, Enqueue, SeeStopped, Launch, Owner, stateVars, frameVars
<1>7. CASE InitThread
  <2>1. ~isInit /\ UNCHANGED <<isInit, imuFrom, frame>>
    BY <1>7 DEF Owner, InitThread, BeginSolve, SolveFails, ClearQueue, SolveSucceeds, StartReplay,
                ReplayFrame, ShrinkWindow, Publish, ThreadExit, frameVars
  <2> QED
    BY <2>1
<1>8. CASE PropagateUpdate
  <2>1. isInit /\ UNCHANGED <<isInit, imuFrom, frame>>
    BY <1>8 DEF PropagateUpdate, Propagate, Select, MsckfUpdate, SlamUpdate, DelayedInit, Finish,
                Owner, frameVars
  <2>2. CASE Propagate
    <3>1. timestamp' = IF timestamp < frame.time THEN frame.time ELSE timestamp
      BY <2>2 DEF Propagate, PropagateAndClone, stateVars
    <3> QED
      BY <1>1, <2>1, <3>1
  <2>3. CASE Select \/ MsckfUpdate \/ SlamUpdate \/ Finish \/ \E f \in Feats : DelayedInit(f)
    <3>1. UNCHANGED timestamp /\ pc # "propagate"
      BY <2>3 DEF Select, MsckfUpdate, SlamUpdate, DelayedInit, Finish, stateVars
    <3> QED
      BY <2>1, <3>1
  <2> QED
    BY <1>8, <2>2, <2>3 DEF PropagateUpdate
<1> QED
  BY <1>2, <1>3, <1>4, <1>5, <1>6, <1>7, <1>8 DEF Next, TryToInitialize

-----------------------------------------------------------------------------
IInv == Types /\ Owner /\ Timeline /\ Anchored /\ Covered

(* The inductive invariant of the two threads and what they share: types,    *)
(* who owns the state, the order of all times, anchors in the window, how    *)
(* far the IMU history goes back.                                            *)
THEOREM Invariance == Spec => []IInv
<1>1. Init => IInv
  BY TypesInit, OwnerInit, TimelineInit, AnchoredInit, CoveredInit DEF IInv
<1>2. IInv /\ [Next]_vars => IInv'
  BY TypesStep, OwnerStep, TimelineStep, AnchoredStep, CoveredStep DEF IInv
<1> QED
  BY <1>1, <1>2, PTL DEF Spec

(* Once the driver's thread works on the state, the initialisation thread    *)
(* is gone (try_to_initialize's flags).                                      *)
THEOREM StateHasOneOwner == Spec => []OneOwner
<1>1. IInv => OneOwner
  BY DEF IInv, Owner, OneOwner
<1> QED
  BY <1>1, Invariance, PTL

(* A landmark is anchored at a clone of the window.                          *)
THEOREM AnchorsStayLive == Spec => []AnchorsInWindow
<1>1. IInv => AnchorsInWindow
  BY DEF IInv, Anchored
<1> QED
  BY <1>1, Invariance, PTL

(* No call of the propagator or of augment_clone ends the program.           *)
THEOREM NoCallIsFatal == Spec => []NoFatalCall
<1>1. IInv => NoFatalCall
  <2> SUFFICES ASSUME IInv PROVE NoFatalCall
    OBVIOUS
  <2>1. frame.time \in Nat /\ timestamp \in Nat /\ clones \subseteq Nat
    BY DEF IInv, Types, StateTypes, FrameTypes
  <2>2. \A c \in clones : c <= timestamp
    BY DEF IInv, Timeline, NewestClone
  <2>3. pc = "propagate" => timestamp <= frame.time
    BY DEF IInv, Timeline, StatePast
  <2>4. pc = "propagate" /\ timestamp # frame.time => frame.time \notin clones
    BY <2>1, <2>2, <2>3
  <2>5. \A i, j \in DOMAIN queue : i < j => queue[i] < queue[j]
    BY DEF IInv, Timeline, QueueOrder, Ascends
  <2>6. tpc = "replay" /\ todo # <<>> => Head(todo) > timestamp /\ Head(todo) \notin clones
    <3> SUFFICES ASSUME tpc = "replay", todo # <<>>
                 PROVE  Head(todo) > timestamp /\ Head(todo) \notin clones
      OBVIOUS
    <3>1. todo \in Seq(Nat)
      BY DEF IInv, Types, InitTypes
    <3>2. Head(todo) = todo[1] /\ 1 \in DOMAIN todo /\ todo[1] \in Nat
      BY <3>1
    <3>3. timestamp < Head(todo)
      BY <3>2 DEF IInv, Timeline, Replay
    <3> QED
      BY <2>1, <2>2, <3>2, <3>3
  <2>7. pc \in {"select", "msckf", "slam"} => timestamp = frame.time /\ timestamp \in clones
    BY DEF IInv, Timeline, NewestClone
  <2> QED
    BY <2>3, <2>4, <2>5, <2>6, <2>7 DEF NoFatalCall
<1> QED
  BY <1>1, Invariance, PTL

(* Readings are missing for a propagation only after a solve that took       *)
(* longer than the window kept for it.                                       *)
THEOREM OnlyLateSolvesStarve == Spec => []ShortOnlyAfterLateSolve
<1>1. IInv => ShortOnlyAfterLateSolve
  <2> SUFFICES ASSUME IInv, Propagates, imuFrom > timestamp
               PROVE  frame.time - timestamp > InitWindow
    BY DEF ShortOnlyAfterLateSolve
  <2>1. imuFrom \in Nat /\ timestamp \in Nat /\ frame.time \in Nat /\ InitWindow \in Nat
    BY VioAssumption DEF IInv, Types, StateTypes, FrameTypes
  <2>2. CASE isInit
    BY <2>1, <2>2 DEF IInv, Covered
  <2>3. CASE ~isInit
    BY <2>1, <2>3 DEF IInv, Covered
  <2> QED
    BY <2>2, <2>3
<1> QED
  BY <1>1, Invariance, PTL

-----------------------------------------------------------------------------
(* Which measurements the updates have used, and may still use.              *)

(* Landmarks and updates only exist in a window that is full enough. *)
Filled ==
  DOMAIN slam # {} \/ pc \in {"select", "msckf", "slam"}
    => Cardinality(clones) >= Smaller(MaxClone, GateClones)

(* What waits for its update is in the database, in one list only; but for a *)
(* landmark that is lost, which has no measurement left to use.              *)
Pending ==
  /\ pc # "msckf" => msckf = {}
  /\ pc \notin {"msckf", "slam"} => slamUpd = {} /\ slamNew = {}
  /\ pc # "slam" => deleted = {}
  /\ slamUpd \cap slamNew = {}
  /\ msckf \cup slamUpd \cup slamNew \subseteq DOMAIN db
  /\ \A f \in msckf \cap (slamUpd \cup slamNew) : Usable(f) = {}

(* Used measurements are of live clones; at the frame's time they, and those *)
(* stored, are of cameras already seen.  What is stored is unused but for    *)
(* the features that leave at the frame's end.                               *)
UsedOnce ==
  /\ ~isInit => used = {}
  /\ \A m \in used : m[2] \in clones /\ m[2] <= frame.time
  /\ \A m \in used : m[2] = frame.time => CamOf[m[1]] \in frame.seen
  /\ \A f \in DOMAIN db : frame.time \in db[f] => CamOf[f] \in frame.seen
  /\ \A f \in DOMAIN db \ deleted : \A u \in db[f] : <<f, u>> \notin used

(* Between frames no landmark has a measurement to use; in a frame only the  *)
(* frame's own, which the frame uses up.                                     *)
Landmarks ==
  \A f \in DOMAIN slam \cap DOMAIN db :
     IF pc \in {"msckf", "slam"} THEN f \in slamUpd \cup slamNew \cup deleted
     ELSE \A u \in Usable(f) : pc # "idle" /\ u = frame.time

Reuse == Filled /\ Pending /\ UsedOnce /\ Landmarks

LEMMA ReuseInit == Init => Reuse
BY DEF Init, InitCommon, EmptyDatabase, Reuse, Filled, Pending, UsedOnce, Landmarks

(* Until there is a state, nothing is used and there are no landmarks. *)
LEMMA ReuseBefore ==
  ASSUME Reuse, Anchored, UNCHANGED <<slam, updVars>>, ~isInit,
         pc' \notin {"select", "msckf", "slam"}, pc \notin {"select", "msckf", "slam"},
         \A f \in DOMAIN db' : frame.time' \in db'[f] => CamOf[f] \in frame'.seen
  PROVE  Reuse'
<1>1. DOMAIN slam = {} /\ used = {}
  BY DEF Anchored, Reuse, UsedOnce
<1>2. msckf = {} /\ slamUpd = {} /\ slamNew = {} /\ deleted = {}
  BY DEF Reuse, Pending
<1>3. DOMAIN slam' = {} /\ used' = {} /\ msckf' = {} /\ slamUpd' = {} /\ slamNew' = {}
      /\ deleted' = {}
  BY <1>1, <1>2 DEF updVars
<1> QED
  BY <1>3 DEF Reuse, Filled, Pending, UsedOnce, Landmarks

(* A frame's measurements are of cameras not seen at its time, or of a later *)
(* time than any that was used.                                              *)
LEMMA FrameReuseStep ==
  ASSUME Types, Owner, Timeline, Anchored, Reuse,
         NEW t \in {frame.time, frame.time + 1} \cap Times, NEW cams \in SUBSET Cams,
         NEW survive \in SUBSET (tracked \cap Seen(cams)),
         NEW found \in SUBSET (FreshIds \cap Seen(cams)),
         Frame(t, cams, survive, found)
  PROVE  Reuse'
<1> DEFINE S == survive \cup found
<1>1. UNCHANGED <<stateVars, isInit, updVars>>
      /\ pc = "idle" /\ pc' \in {"zupt", "propagate", "init"}
  BY DEF Frame
<1>2. frame' = [time |-> t, cams |-> cams,
                seen |-> cams \cup (IF t = frame.time THEN frame.seen ELSE {})]
  BY DEF Frame
<1>3. frame'.time = t /\ cams \subseteq frame'.seen
      /\ (t = frame.time => frame'.seen = cams \cup frame.seen)
  BY <1>2
<1>4. S \in SUBSET Feats /\ \A f \in S : CamOf[f] \in cams
  BY DEF Seen, Types, TrackTypes
<1>5. /\ DOMAIN db' = DOMAIN db \cup S
      /\ \A f \in DOMAIN db' : \A x \in db'[f] :
           (f \in DOMAIN db /\ x \in db[f]) \/ (f \in S /\ x = t)
  <2>1. db' = UpdateFeatures(db, S, t)
    BY DEF Frame
  <2> HIDE DEF S
  <2> QED
    BY <1>4, <2>1, UpdateGives DEF Types, TrackTypes
<1>6. t > frame.time \/ (t = frame.time /\ cams \cap frame.seen = {})
  BY DEF Frame, Arrives
<1>7. frame.time \in Nat /\ t \in Nat /\ frame.time <= t
  BY VioAssumption DEF Types, FrameTypes, Times
<1> HIDE DEF S
<1>8. \A f \in DOMAIN db : t \in db[f] => t = frame.time /\ CamOf[f] \in frame.seen
  <2> TAKE f \in DOMAIN db
  <2>1. HAVE t \in db[f]
  <2>2. t <= frame.time
    BY <2>1 DEF Timeline, Past
  <2>3. t = frame.time
    BY <1>7, <2>2
  <2> QED
    BY <2>1, <2>3 DEF Reuse, UsedOnce
<1>9. \A f \in DOMAIN db' : t \in db'[f] => CamOf[f] \in frame'.seen
  BY <1>3, <1>4, <1>5, <1>8
<1>10. \A f \in S : <<f, t>> \notin used
  <2> SUFFICES ASSUME NEW f \in S, <<f, t>> \in used PROVE FALSE
    OBVIOUS
  <2>1. <<f, t>>[1] = f /\ <<f, t>>[2] = t
    OBVIOUS
  <2>2. t <= frame.time /\ (t = frame.time => CamOf[f] \in frame.seen)
    BY <2>1 DEF Reuse, UsedOnce
  <2> QED
    BY <1>4, <1>6, <1>7, <2>2
<1>11. Filled' /\ Pending'
  <2>1. \A f \in msckf' \cap (slamUpd' \cup slamNew') : FALSE
    BY <1>1 DEF Reuse, Pending, updVars
  <2> QED
    BY <1>1, <1>5, <2>1 DEF Reuse, Filled, Pending, stateVars, updVars
<1>12. UsedOnce'
  <2>1. UNCHANGED <<used, clones, isInit, deleted>>
    BY <1>1 DEF updVars, stateVars
  <2>2. \A m \in used : m[2] <= t
    <3> TAKE m \in used
    <3>1. m[2] \in Nat /\ m[2] <= frame.time
      BY DEF Reuse, UsedOnce, Types, UpdTypes
    <3> QED
      BY <1>7, <3>1
  <2>3. \A m \in used : m[2] = t => CamOf[m[1]] \in frame'.seen
    <3> TAKE m \in used
    <3>1. HAVE m[2] = t
    <3>2. m[2] <= frame.time
      BY DEF Reuse, UsedOnce
    <3>3. t = frame.time
      BY <1>7, <3>1, <3>2
    <3> QED
      BY <1>3, <3>1, <3>3 DEF Reuse, UsedOnce
  <2>4. \A f \in DOMAIN db' \ deleted : \A u \in db'[f] : <<f, u>> \notin used
    BY <1>5, <1>10 DEF Reuse, UsedOnce
  <2> QED
    BY <1>3, <1>9, <2>1, <2>2, <2>3, <2>4 DEF Reuse, UsedOnce
<1>13. Landmarks'
  <2>1. UNCHANGED <<slam, clones>>
    BY <1>1 DEF stateVars
  <2>2. \A f \in DOMAIN slam \cap DOMAIN db : \A u \in db[f] : u \notin clones
    BY <1>1 DEF Reuse, Landmarks, Usable
  <2>3. \A f \in DOMAIN slam \cap DOMAIN db' : \A u \in db'[f] \cap clones : u = t
    BY <1>5, <2>2
  <2> QED
    BY <1>1, <1>3, <2>1, <2>3 DEF Landmarks, Usable
<1> QED
  BY <1>11, <1>12, <1>13 DEF Reuse

LEMMA ZuptReuseStep ==
  ASSUME Types, Owner, Timeline, Anchored, Reuse, Zupt
  PROVE  Reuse'
<1>1. /\ UNCHANGED <<clones, slam, frame, isInit, updVars>> /\ Within(db', db)
      /\ pc = "zupt" /\ pc' \in {"idle", "propagate"}
      /\ pc' = "idle" => frame.time \notin clones
  <2>1. CASE RepeatZupt
    <3>1. UNCHANGED <<clones, slam, frame, isInit, updVars, db>> /\ pc = "zupt"
          /\ pc' = (IF didZupt THEN "idle" ELSE "propagate") /\ timestamp = frame.time
      BY <2>1 DEF RepeatZupt, stateVars, trackVars, frameVars
    <3>2. didZupt => frame.time \notin clones
      BY <3>1 DEF Timeline, Standing, Types, StateTypes
    <3> QED
      BY <3>1, <3>2 DEF Within
  <2>2. CASE RefuseZupt
    BY <2>2 DEF RefuseZupt, stateVars, trackVars, Within
  <2>3. CASE AcceptZupt
    <3>1. UNCHANGED <<clones, slam, frame, isInit, updVars>> /\ pc = "zupt" /\ pc' = "idle"
          /\ timestamp # frame.time
          /\ (db' = db \/ db' = CleanupMeasurementsExact(db, zuptTime))
      BY <2>3 DEF AcceptZupt
    <3>2. Within(db', db)
      BY <3>1, CleanupsGive DEF Types, TrackTypes, Within
    <3>3. timestamp <= frame.time /\ \A c \in clones : c <= timestamp
      BY <3>1 DEF Timeline, StatePast, NewestClone
    <3>4. timestamp \in Nat /\ frame.time \in Nat
      BY DEF Types, StateTypes, FrameTypes
    <3>5. frame.time \notin clones
      BY <3>1, <3>3, <3>4
    <3> QED
      BY <3>1, <3>2, <3>5
  <2> QED
    BY <2>1, <2>2, <2>3 DEF Zupt
<1>2. DOMAIN db' \subseteq DOMAIN db /\ \A f \in DOMAIN db' : db'[f] \subseteq db[f]
  BY <1>1 DEF Within
<1>3. Filled' /\ Pending'
  <2>1. msckf' = {} /\ slamUpd' = {} /\ slamNew' = {} /\ deleted' = {}
    BY <1>1 DEF Reuse, Pending, updVars
  <2> QED
    BY <1>1, <2>1 DEF Reuse, Filled, Pending
<1>4. UsedOnce'
  BY <1>1, <1>2 DEF Reuse, UsedOnce, updVars
<1>5. Landmarks'
  <2>1. \A f \in DOMAIN slam \cap DOMAIN db : \A u \in db[f] \cap clones : u = frame.time
    BY <1>1 DEF Reuse, Landmarks, Usable
  <2>2. \A f \in DOMAIN slam \cap DOMAIN db' :
          \A u \in db'[f] \cap clones : pc' # "idle" /\ u = frame.time
    BY <1>1, <1>2, <2>1
  <2> QED
    BY <1>1, <2>2 DEF Landmarks, Usable
<1> QED
  BY <1>3, <1>4, <1>5 DEF Reuse

(* A landmark measured before is in a window too full to leave the frame. *)
LEMMA PropagateReuseStep ==
  ASSUME Types, Owner, Timeline, Anchored, Reuse, Propagate
  PROVE  Reuse'
<1>1. /\ UNCHANGED <<slam, db, frame, isInit, updVars>> /\ pc = "propagate"
      /\ (UNCHANGED clones \/ clones' = clones \cup {frame.time})
      /\ \/ pc' = "idle" /\ (\/ timestamp > frame.time
                             \/ Cardinality(clones') < Smaller(MaxClone, GateClones))
         \/ pc' = "select" /\ Cardinality(clones') >= Smaller(MaxClone, GateClones)
  <2>1. UNCHANGED <<slam, db, frame, isInit, updVars>> /\ pc = "propagate"
        /\ (UNCHANGED clones \/ clones' = clones \cup {frame.time})
    BY DEF Propagate, PropagateAndClone, stateVars, trackVars
  <2>2. IsFiniteSet(clones) /\ IsFiniteSet(clones')
    BY <2>1, FS_AddElement DEF Types, StateTypes
  <2>3. Cardinality(clones') \in Nat /\ Smaller(MaxClone, GateClones) \in Nat
    BY <2>2, FS_CardinalityType, VioAssumption DEF Smaller
  <2>4. IF timestamp > frame.time \/ Cardinality(clones') < Smaller(MaxClone, GateClones)
        THEN pc' = "idle" ELSE pc' = "select"
    BY DEF Propagate
  <2> QED
    BY <2>1, <2>3, <2>4
<1>2. ~(timestamp > frame.time)
  BY <1>1 DEF Timeline, StatePast, Types, StateTypes, FrameTypes
<1>3. clones \subseteq clones'
  BY <1>1
<1>4. pc' = "idle" => DOMAIN slam = {}
  <2> SUFFICES ASSUME pc' = "idle", DOMAIN slam # {} PROVE FALSE
    OBVIOUS
  <2>1. Cardinality(clones') < Smaller(MaxClone, GateClones)
    BY <1>1, <1>2
  <2>2. Cardinality(clones) >= Smaller(MaxClone, GateClones)
    BY DEF Reuse, Filled
  <2>3. IsFiniteSet(clones')
    BY <1>1, FS_AddElement DEF Types, StateTypes
  <2>4. Cardinality(clones) <= Cardinality(clones')
        /\ Cardinality(clones) \in Nat /\ Cardinality(clones') \in Nat
    BY <1>3, <2>3, FS_Subset, FS_CardinalityType
  <2>5. Smaller(MaxClone, GateClones) \in Nat
    BY VioAssumption DEF Smaller
  <2> QED
    BY <2>1, <2>2, <2>4, <2>5
<1>5. Filled'
  BY <1>1, <1>4 DEF Filled
<1>6. Pending'
  <2>1. msckf' = {} /\ slamUpd' = {} /\ slamNew' = {} /\ deleted' = {}
    BY <1>1 DEF Reuse, Pending, updVars
  <2> QED
    BY <2>1 DEF Pending
<1>7. UsedOnce'
  BY <1>1, <1>3 DEF Reuse, UsedOnce, updVars
<1>8. Landmarks'
  <2>1. \A f \in DOMAIN slam \cap DOMAIN db : \A u \in db[f] \cap clones : u = frame.time
    BY <1>1 DEF Reuse, Landmarks, Usable
  <2>2. \A f \in DOMAIN slam \cap DOMAIN db : \A u \in db[f] \cap clones' : u = frame.time
    BY <1>1, <2>1
  <2> QED
    BY <1>1, <1>4, <2>2 DEF Landmarks, Usable
<1> QED
  BY <1>5, <1>6, <1>7, <1>8 DEF Reuse

(* The lists of a frame: a landmark that is in the MSCKF list, lost or of    *)
(* the oldest clone, has nothing left to use.                                *)
LEMMA SelectReuseStep ==
  ASSUME Types, Owner, Timeline, Anchored, Reuse, Select
  PROVE  Reuse'
<1>1. UNCHANGED <<clones, db, frame, isInit, deleted, used>> /\ pc = "select" /\ pc' = "msckf"
      /\ deleted = {} /\ slam' = Restrict(slam, DOMAIN slam \ ShouldMarg)
  BY DEF Select, trackVars, frameVars, Reuse, Pending
<1>2. DOMAIN slam' \subseteq DOMAIN slam
  BY <1>1 DEF Restrict
<1>3. PICK P \in Promoted :
        /\ slamUpd' = (P \cup (DOMAIN slam \cap DOMAIN db)) \cap DOMAIN slam'
        /\ slamNew' = (P \cup (DOMAIN slam \cap DOMAIN db)) \ DOMAIN slam'
        /\ msckf' \in LongestTracks(FeatsLost \cup (FeatsMarg \ P))
  BY DEF Select
<1>4. FeatsMarg \subseteq DOMAIN db /\ \A f \in FeatsMarg : Oldest \in db[f]
  BY DEF FeatsMarg, FeaturesContaining
<1>5. FeatsMarg # {} => Oldest \in clones /\ Oldest # timestamp
  <2> SUFFICES ASSUME FeatsMarg # {} PROVE Oldest \in clones /\ Oldest # timestamp
    OBVIOUS
  <2>1. Overfull \/ Cardinality(clones) > MargClones
    BY DEF FeatsMarg
  <2>2. timestamp \in clones /\ \A c \in clones : c <= timestamp
    BY <1>1 DEF Timeline, NewestClone
  <2>3. clones \subseteq Nat /\ IsFiniteSet(clones) /\ timestamp \in Nat
    BY DEF Types, StateTypes
  <2>4. Cardinality(clones) > 1
    BY <2>1, <2>3, FS_CardinalityType, VioAssumption DEF Overfull
  <2>5. Oldest \in clones /\ Oldest < timestamp
    BY <2>2, <2>3, <2>4, NewestIsNotOldest
  <2> HIDE DEF Oldest
  <2> QED
    BY <2>3, <2>5
<1>6. FeatsLost \subseteq DOMAIN db \ FeatsMarg /\ \A f \in FeatsLost : \A u \in db[f] : u < timestamp
  BY DEF FeatsLost, FeaturesNotContainingNewer
<1>7. timestamp = frame.time /\ timestamp \in Nat
  BY <1>1 DEF Timeline, NewestClone, Types, StateTypes
<1>8. P \subseteq FeatsMarg
  BY DEF Promoted, MaxTracks
<1>9. msckf' \subseteq FeatsLost \cup (FeatsMarg \ P)
  BY <1>3 DEF LongestTracks
<1>10. \A f \in DOMAIN slam \cap DOMAIN db : \A u \in db[f] \cap clones : u = timestamp
  BY <1>1, <1>7 DEF Reuse, Landmarks, Usable
<1> HIDE DEF FeatsMarg, FeatsLost, Oldest, Promoted, ShouldMarg
<1>11. \A f \in msckf' \cap (slamUpd' \cup slamNew') : Usable(f) = {}
  <2> SUFFICES ASSUME NEW f \in msckf' \cap (slamUpd' \cup slamNew'), NEW u \in db[f] \cap clones
               PROVE  FALSE
    BY DEF Usable
  <2>1. f \in P \cup (DOMAIN slam \cap DOMAIN db)
    BY <1>3
  <2>2. f \notin P
    BY <1>6, <1>8, <1>9
  <2>3. \A w \in db[f] \cap clones : w = timestamp
    BY <1>10, <2>1, <2>2
  <2>4. CASE f \in FeatsLost
    <3>1. u < timestamp /\ u = timestamp
      BY <1>6, <2>3, <2>4
    <3> QED
      BY <1>7, <3>1
  <2>5. CASE f \in FeatsMarg
    BY <1>4, <1>5, <2>3, <2>5
  <2> QED
    BY <1>9, <2>4, <2>5
<1>12. msckf' \cup slamUpd' \cup slamNew' \subseteq DOMAIN db
  BY <1>3, <1>4, <1>6, <1>8, <1>9
<1>13. slamUpd' \cap slamNew' = {}
  BY <1>3
<1>14. Filled'
  BY <1>1 DEF Reuse, Filled
<1>15. Pending'
  BY <1>1, <1>11, <1>12, <1>13 DEF Pending, Usable
<1>16. UsedOnce'
  BY <1>1 DEF Reuse, UsedOnce
<1>17. Landmarks'
  BY <1>1, <1>2, <1>3 DEF Landmarks
<1> QED
  BY <1>14, <1>15, <1>16, <1>17 DEF Reuse

(* What an update uses, of the features done, which leave with the frame. *)
OnlyUses(done) ==
  /\ \A m \in used' : m[2] \in clones /\ m[2] <= frame.time
  /\ \A m \in used' : m[2] = frame.time => CamOf[m[1]] \in frame.seen
  /\ \A f \in DOMAIN db \ deleted' : \A u \in db[f] : <<f, u>> \notin used'
  /\ \A f \in DOMAIN db \ done :
       \A u \in db[f] : <<f, u>> \notin used => <<f, u>> \notin used'

LEMMA UpdateUses ==
  ASSUME Types, Timeline, Reuse, NEW done \in SUBSET DOMAIN db, done \subseteq deleted',
         deleted \subseteq deleted', used' \subseteq used \cup Uses(done)
  PROVE  OnlyUses(done)
<1>1. \A m \in Uses(done) : \E f \in done : \E u \in db[f] \cap clones : m = <<f, u>>
  BY DEF Uses, Usable
<1>2. ASSUME NEW m \in used'
      PROVE  m[2] \in clones /\ m[2] <= frame.time
             /\ (m[2] = frame.time => CamOf[m[1]] \in frame.seen)
  <2>1. CASE m \in used
    BY <2>1 DEF Reuse, UsedOnce
  <2>2. CASE m \in Uses(done)
    <3>0. PICK f \in done : \E u \in db[f] \cap clones : m = <<f, u>>
      BY <1>1, <2>2
    <3>1. PICK u \in db[f] \cap clones : m = <<f, u>>
      BY <3>0
    <3>2. u <= frame.time
      BY DEF Timeline, Past
    <3> QED
      BY <3>1, <3>2 DEF Reuse, UsedOnce
  <2> QED
    BY <1>2, <2>1, <2>2
<1>3. ASSUME NEW f, f \notin done, NEW u
      PROVE  <<f, u>> \notin Uses(done)
  BY <1>1, <1>3
<1>4. \A f \in DOMAIN db \ deleted' : \A u \in db[f] : <<f, u>> \notin used
  BY DEF Reuse, UsedOnce
<1> QED
  BY <1>2, <1>3, <1>4 DEF OnlyUses

LEMMA MsckfReuseStep ==
  ASSUME Types, Owner, Timeline, Anchored, Reuse, MsckfUpdate, NoReuse
  PROVE  Reuse' /\ NoReuse'
<1>1. UNCHANGED <<clones, slam, db, frame, isInit, slamUpd, slamNew>>
      /\ pc = "msckf" /\ pc' = "slam" /\ deleted' = deleted \cup msckf /\ msckf' = {} /\ isInit
  BY DEF MsckfUpdate, stateVars, trackVars, frameVars, Owner
<1>2. PICK good \in SUBSET {f \in msckf : Cardinality(Usable(f)) >= 2} :
        used' = used \cup Uses(good)
  BY DEF MsckfUpdate
<1>3. good \subseteq msckf /\ msckf \subseteq DOMAIN db
  BY DEF Reuse, Pending
<1>4. Uses(good) \subseteq Uses(msckf)
  BY <1>3 DEF Uses
<1>5. OnlyUses(msckf)
  BY <1>1, <1>2, <1>3, <1>4, UpdateUses
<1>6. Filled' /\ Pending' /\ Landmarks'
  BY <1>1 DEF Reuse, Filled, Pending, Landmarks, Usable
<1>7. UsedOnce'
  BY <1>1, <1>5 DEF Reuse, UsedOnce, OnlyUses
<1>8. NoReuse'
  <2> SUFFICES ASSUME NEW f \in slamUpd \cup slamNew, NEW u \in db[f] \cap clones
               PROVE  <<f, u>> \notin used'
    BY <1>1 DEF NoReuse, Usable
  <2>1. f \notin msckf
    BY DEF Reuse, Pending, Usable
  <2>2. <<f, u>> \notin used /\ f \in DOMAIN db
    BY DEF NoReuse, Usable, Reuse, Pending
  <2> QED
    BY <1>5, <2>1, <2>2 DEF OnlyUses
<1> QED
  BY <1>6, <1>7, <1>8 DEF Reuse

LEMMA SlamReuseStep ==
  ASSUME Types, Owner, Timeline, Anchored, Reuse, SlamUpdate, NoReuse
  PROVE  Reuse' /\ NoReuse'
<1>1. UNCHANGED <<clones, slam, db, frame, isInit, msckf, slamNew, pc>>
      /\ pc = "slam" /\ isInit /\ msckf = {}
  BY DEF SlamUpdate, stateVars, trackVars, frameVars, Owner, Reuse, Pending
<1>2. PICK batch \in SUBSET slamUpd :
        /\ \E failed \in SUBSET {f \in batch : Usable(f) # {}} :
             used' = used \cup Uses(batch \ failed)
        /\ deleted' = deleted \cup batch
        /\ slamUpd' = slamUpd \ batch
  BY DEF SlamUpdate
<1>3. batch \subseteq DOMAIN db /\ used' \subseteq used \cup Uses(batch)
  BY <1>2 DEF Reuse, Pending, Uses
<1>4. OnlyUses(batch)
  BY <1>1, <1>2, <1>3, UpdateUses
<1>5. Filled' /\ Pending' /\ Landmarks'
  BY <1>1, <1>2 DEF Reuse, Filled, Pending, Landmarks, Usable
<1>6. UsedOnce'
  BY <1>1, <1>4 DEF Reuse, UsedOnce, OnlyUses
<1>7. NoReuse'
  <2> SUFFICES ASSUME NEW f \in slamUpd' \cup slamNew, NEW u \in db[f] \cap clones
               PROVE  <<f, u>> \notin used'
    BY <1>1 DEF NoReuse, Usable
  <2>1. f \notin batch
    BY <1>2 DEF Reuse, Pending
  <2>2. <<f, u>> \notin used /\ f \in DOMAIN db
    BY <1>2 DEF NoReuse, Usable, Reuse, Pending
  <2> QED
    BY <1>4, <2>1, <2>2 DEF OnlyUses
<1> QED
  BY <1>5, <1>6, <1>7 DEF Reuse

LEMMA DelayedReuseStep ==
  ASSUME Types, Owner, Timeline, Anchored, Reuse, NEW f \in Feats, DelayedInit(f), NoReuse
  PROVE  Reuse' /\ NoReuse'
<1>1. UNCHANGED <<clones, db, frame, isInit, msckf, slamUpd, pc>>
      /\ pc = "slam" /\ isInit /\ msckf = {} /\ slamUpd = {} /\ f \in slamNew
      /\ deleted' = deleted \cup {f} /\ slamNew' = slamNew \ {f}
  BY DEF DelayedInit, trackVars, frameVars, Owner, Reuse, Pending
<1>2. used' \subseteq used \cup Uses({f}) /\ DOMAIN slam' \subseteq DOMAIN slam \cup {f}
  BY DEF DelayedInit
<1>3. {f} \subseteq DOMAIN db
  BY <1>1 DEF Reuse, Pending
<1>4. OnlyUses({f})
  BY <1>1, <1>2, <1>3, UpdateUses
<1>5. Filled' /\ Pending' /\ Landmarks'
  BY <1>1, <1>2 DEF Reuse, Filled, Pending, Landmarks, Usable
<1>6. UsedOnce'
  BY <1>1, <1>4 DEF Reuse, UsedOnce, OnlyUses
<1>7. NoReuse'
  <2> SUFFICES ASSUME NEW g \in slamNew', NEW u \in db[g] \cap clones
               PROVE  <<g, u>> \notin used'
    BY <1>1 DEF NoReuse, Usable
  <2>1. g # f /\ g \in slamNew
    BY <1>1
  <2>2. <<g, u>> \notin used /\ g \in DOMAIN db
    BY <2>1 DEF NoReuse, Usable, Reuse, Pending
  <2> QED
    BY <1>4, <2>1, <2>2 DEF OnlyUses
<1> QED
  BY <1>5, <1>6, <1>7 DEF Reuse

LEMMA FinishReuseStep ==
  ASSUME Types, Owner, Timeline, Anchored, Reuse, Finish
  PROVE  Reuse'
<1>1. UNCHANGED <<frame, isInit, msckf, slamUpd, slamNew>> /\ isInit
      /\ pc = "slam" /\ pc' = "idle" /\ msckf = {} /\ slamUpd = {} /\ slamNew = {}
      /\ deleted' = {} /\ slam' = ChangeAnchors /\ MarginalizeOldClone
      /\ used' = {m \in used : m[2] \in clones'}
  BY DEF Finish, frameVars, Owner, Reuse, Pending
<1>2. Within(db', db) /\ DOMAIN db' \cap deleted = {}
  <2> DEFINE kept == Cleanup(db, deleted)
  <2>1. IsDatabase(kept) /\ Within(kept, db) /\ DOMAIN kept = DOMAIN db \ deleted
    BY CleanupsGive DEF Types, TrackTypes
  <2>2. db' = IF Overfull THEN CleanupMeasurements(kept, Oldest) ELSE kept
    BY DEF Finish
  <2> HIDE DEF kept
  <2>3. Within(CleanupMeasurements(kept, Oldest), kept)
    BY <2>1, CleanupsGive
  <2> QED
    BY <2>1, <2>2, <2>3 DEF Within
<1>3. DOMAIN slam' = DOMAIN slam
  BY <1>1 DEF ChangeAnchors
<1>4. Filled'
  <2>1. Cardinality(clones) >= Smaller(MaxClone, GateClones) /\ IsFiniteSet(clones)
    BY <1>1 DEF Reuse, Filled, Types, StateTypes
  <2>2. Smaller(MaxClone, GateClones) \in Nat /\ MaxClone \in Nat
        /\ Smaller(MaxClone, GateClones) <= MaxClone
    BY VioAssumption DEF Smaller
  <2>3. CASE Overfull
    <3>1. clones' = clones \ {Oldest}
      BY <1>1, <2>3 DEF MarginalizeOldClone
    <3>2. IsFiniteSet(clones \ {Oldest})
          /\ Cardinality(clones \ {Oldest}) =
               IF Oldest \in clones THEN Cardinality(clones) - 1 ELSE Cardinality(clones)
      BY <2>1, FS_RemoveElement
    <3>3. Cardinality(clones) > MaxClone
      BY <2>3 DEF Overfull
    <3>4. Cardinality(clones) \in Nat
      BY <2>1, FS_CardinalityType
    <3>5. Cardinality(clones') >= Smaller(MaxClone, GateClones)
      <4> HIDE DEF Oldest
      <4> QED
        BY <2>2, <3>1, <3>2, <3>3, <3>4
    <3> QED
      BY <1>1, <3>5 DEF Filled
  <2>4. CASE ~Overfull
    BY <1>1, <2>1, <2>4 DEF MarginalizeOldClone, Filled
  <2> QED
    BY <2>3, <2>4
<1>5. Pending'
  BY <1>1 DEF Pending
<1>6. UsedOnce'
  BY <1>1, <1>2 DEF Reuse, UsedOnce, Within
<1>7. Landmarks'
  BY <1>1, <1>2, <1>3 DEF Reuse, Landmarks, Within
<1> QED
  BY <1>4, <1>5, <1>6, <1>7 DEF Reuse

(* Where nothing waits for its update, nothing can be used again; where it   *)
(* has just been selected, it is unused like all that is stored.             *)
LEMMA UnusedWhenSelected == Reuse /\ pc # "slam" => NoReuse
BY DEF Reuse, Pending, UsedOnce, NoReuse, Usable

LEMMA ReuseStep ==
  Types /\ Owner /\ Timeline /\ Anchored /\ Reuse /\ NoReuse /\ [Next]_vars => Reuse' /\ NoReuse'
<1> SUFFICES ASSUME Types, Owner, Timeline, Anchored, Reuse, NoReuse, [Next]_vars
             PROVE  Reuse' /\ NoReuse'
  OBVIOUS
<1>1. Reuse' /\ pc' # "slam" => NoReuse'
  BY DEF Reuse, Pending, UsedOnce, NoReuse, Usable
<1>2. CASE UNCHANGED vars
  BY <1>2 DEF vars, stateVars, trackVars, frameVars, updVars, Reuse, Filled, Pending, UsedOnce,
              Landmarks, NoReuse, Usable
<1>3. ASSUME NEW t \in {frame.time, frame.time + 1} \cap Times,
             NEW cams \in (SUBSET Cams) \ {{}},
             NEW survive \in SUBSET (tracked \cap Seen(cams)),
             NEW found \in SUBSET (FreshIds \cap Seen(cams)),
             Frame(t, cams, survive, found)
      PROVE  Reuse' /\ NoReuse'
  <2>1. Reuse'
    BY <1>3, FrameReuseStep
  <2>2. pc' # "slam"
    BY <1>3 DEF Frame
  <2> QED
    BY <1>1, <2>1, <2>2
<1>4. CASE Zupt
  <2>1. pc' # "slam"
    BY <1>4 DEF Zupt, RepeatZupt, RefuseZupt, AcceptZupt
  <2> QED
    BY <1>1, <1>4, <2>1, ZuptReuseStep
<1>5. CASE TryToInitialize
  <2>1. /\ UNCHANGED <<slam, db, frame, updVars>> /\ ~isInit
        /\ pc \notin {"select", "msckf", "slam"} /\ pc' \notin {"select", "msckf", "slam"}
    BY <1>5 DEF TryToInitialize, SeeRunning, Enqueue, SeeStopped, TakeOver, Launch, stateVars,
                trackVars, frameVars, Owner
  <2>2. Reuse'
    BY <2>1, ReuseBefore DEF Reuse, UsedOnce
  <2> QED
    BY <1>1, <2>1, <2>2
<1>6. CASE InitThread
  <2>1. UNCHANGED <<slam, frame, updVars, pc, isInit>>
        /\ (UNCHANGED db \/ \E t : db' = CleanupMeasurements(db, t)) /\ tpc # "none"
    BY <1>6 DEF InitThread, BeginSolve, SolveFails, ClearQueue, SolveSucceeds, StartReplay,
                ReplayFrame, ShrinkWindow, Publish, ThreadExit, PropagateAndClone, stateVars,
                trackVars, frameVars
  <2>2. ~isInit /\ pc \notin {"select", "msckf", "slam"}
    BY <2>1 DEF Owner
  <2>3. Within(db', db)
    BY <2>1, CleanupsGive DEF Types, TrackTypes, Within
  <2>4. Reuse'
    BY <2>1, <2>2, <2>3, ReuseBefore DEF Reuse, UsedOnce, Within
  <2> QED
    BY <1>1, <2>1, <2>2, <2>4
<1>7. CASE Propagate
  <2>1. pc' # "slam"
    BY <1>7 DEF Propagate
  <2> QED
    BY <1>1, <1>7, <2>1, PropagateReuseStep
<1>8. CASE Select
  <2>1. pc' # "slam"
    BY <1>8 DEF Select
  <2> QED
    BY <1>1, <1>8, <2>1, SelectReuseStep
<1>9. CASE MsckfUpdate \/ SlamUpdate
  BY <1>9, MsckfReuseStep, SlamReuseStep
<1>10. ASSUME NEW f \in Feats, DelayedInit(f) PROVE Reuse' /\ NoReuse'
  BY <1>10, DelayedReuseStep
<1>11. CASE Finish
  <2>1. pc' # "slam"
    BY <1>11 DEF Finish
  <2> QED
    BY <1>1, <1>11, <2>1, FinishReuseStep
<1> QED
  BY <1>2, <1>3, <1>4, <1>5, <1>6, <1>7, <1>8, <1>9, <1>10, <1>11 DEF Next, PropagateUpdate

(* No measurement enters two updates.                                        *)
THEOREM NothingIsReused == Spec => []NoReuse
<1>1. Init => Reuse /\ NoReuse
  BY ReuseInit, UnusedWhenSelected DEF Init, InitCommon
<1>2. IInv /\ Reuse /\ NoReuse /\ [Next]_vars => Reuse' /\ NoReuse'
  BY ReuseStep DEF IInv
<1> QED
  BY <1>1, <1>2, Invariance, PTL DEF Spec
=============================================================================
