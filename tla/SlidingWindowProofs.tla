------------------------- MODULE SlidingWindowProofs -------------------------
(***************************************************************************)
(* Theorems about the sliding window for every window size, landmark       *)
(* budget, core size and set of timestamps.                                *)
(***************************************************************************)
EXTENDS SlidingWindow, FiniteSetTheorems, TLAPS

CloneVars(T) == {CloneVar(t) : t \in T}
SlamVars(L)  == {SlamVar(f) : f \in L}

-----------------------------------------------------------------------------
(* Lemmas about the space a set of variables takes *)

(* The space a finite set of variables takes is a number of columns. *)
LEMMA SizeOfType ==
  ASSUME NEW V, IsFiniteSet(V)
  PROVE  SizeOf(V) \in Nat
<1>1. /\ IsFiniteSet({v \in V : v[1] = "clone"})
      /\ IsFiniteSet({v \in V : v[1] = "slam"})
  BY FS_Subset
<1> QED
  BY <1>1, FS_CardinalityType DEF SizeOf, PoseSize, FeatSize

(* Variables that leave take exactly their own columns with them. *)
LEMMA SizeOfMinus ==
  ASSUME NEW V, IsFiniteSet(V), NEW G, G \subseteq V
  PROVE  SizeOf(V \ G) = SizeOf(V) - SizeOf(G)
<1> DEFINE Kind(S, k) == {v \in S : v[1] = k}
<1>1. ASSUME NEW k
      PROVE  /\ Cardinality(Kind(V, k)) = Cardinality(Kind(V \ G, k)) + Cardinality(Kind(G, k))
             /\ Cardinality(Kind(V \ G, k)) \in Nat
             /\ Cardinality(Kind(G, k)) \in Nat
  <2>1. IsFiniteSet(Kind(V \ G, k)) /\ IsFiniteSet(Kind(G, k))
    BY FS_Subset
  <2>2. Kind(V, k) = Kind(V \ G, k) \cup Kind(G, k)
    OBVIOUS
  <2>3. Kind(V \ G, k) \cap Kind(G, k) = {}
    OBVIOUS
  <2> HIDE DEF Kind
  <2>4. Cardinality(Kind(V \ G, k) \cap Kind(G, k)) = 0
    BY <2>3, FS_EmptySet
  <2>5. Cardinality(Kind(V \ G, k)) \in Nat /\ Cardinality(Kind(G, k)) \in Nat
    BY <2>1, FS_CardinalityType
  <2>6. Cardinality(Kind(V \ G, k) \cup Kind(G, k))
          = Cardinality(Kind(V \ G, k)) + Cardinality(Kind(G, k))
            - Cardinality(Kind(V \ G, k) \cap Kind(G, k))
    BY <2>1, FS_Union
  <2> QED
    BY <2>2, <2>4, <2>5, <2>6
<1>2. \A S : SizeOf(S) = 6 * Cardinality(Kind(S, "clone")) + 3 * Cardinality(Kind(S, "slam"))
  BY DEF SizeOf, PoseSize, FeatSize
<1> HIDE DEF Kind
<1>3. SizeOf(V) = 6 * Cardinality(Kind(V, "clone")) + 3 * Cardinality(Kind(V, "slam"))
  BY <1>2
<1>4. SizeOf(G) = 6 * Cardinality(Kind(G, "clone")) + 3 * Cardinality(Kind(G, "slam"))
  BY <1>2
<1>5. SizeOf(V \ G) = 6 * Cardinality(Kind(V \ G, "clone"))
                      + 3 * Cardinality(Kind(V \ G, "slam"))
  BY <1>2
<1>6. Cardinality(Kind(V, "clone"))
        = Cardinality(Kind(V \ G, "clone")) + Cardinality(Kind(G, "clone"))
      /\ Cardinality(Kind(V \ G, "clone")) \in Nat /\ Cardinality(Kind(G, "clone")) \in Nat
  BY <1>1
<1>7. Cardinality(Kind(V, "slam"))
        = Cardinality(Kind(V \ G, "slam")) + Cardinality(Kind(G, "slam"))
      /\ Cardinality(Kind(V \ G, "slam")) \in Nat /\ Cardinality(Kind(G, "slam")) \in Nat
  BY <1>1
<1> QED
  BY <1>3, <1>4, <1>5, <1>6, <1>7

(* Variables that arrive add exactly their own columns. *)
LEMMA SizeOfPlus ==
  ASSUME NEW V, IsFiniteSet(V), NEW W, IsFiniteSet(W), V \cap W = {}
  PROVE  SizeOf(V \cup W) = SizeOf(V) + SizeOf(W)
<1>1. IsFiniteSet(V \cup W)
  BY FS_Union
<1>2. SizeOf((V \cup W) \ W) = SizeOf(V \cup W) - SizeOf(W)
  BY <1>1, SizeOfMinus
<1>3. (V \cup W) \ W = V
  OBVIOUS
<1>4. SizeOf(V \cup W) \in Nat /\ SizeOf(V) \in Nat /\ SizeOf(W) \in Nat
  BY <1>1, SizeOfType
<1>5. SizeOf(V) = SizeOf(V \cup W) - SizeOf(W)
  BY <1>2, <1>3
<1> QED
  BY <1>4, <1>5

(* One clone takes six columns, a landmark three. *)
LEMMA SizeOfClone == \A t : SizeOf({CloneVar(t)}) = PoseSize
<1> TAKE t
<1>1. /\ {v \in {CloneVar(t)} : v[1] = "clone"} = {CloneVar(t)}
      /\ {v \in {CloneVar(t)} : v[1] = "slam"} = {}
  BY DEF CloneVar
<1> QED
  BY <1>1, FS_Singleton, FS_EmptySet DEF SizeOf, PoseSize, FeatSize

LEMMA SlamVarsFinite ==
  ASSUME NEW L, IsFiniteSet(L)
  PROVE  IsFiniteSet(SlamVars(L)) /\ Cardinality(SlamVars(L)) = Cardinality(L)
<1> DEFINE f == [x \in L |-> SlamVar(x)]
<1>1. f \in Bijection(L, SlamVars(L))
  BY DEF Bijection, Injection, Surjection, IsInjective, SlamVars, SlamVar
<1> QED
  BY <1>1, FS_Bijection DEF ExistsBijection

LEMMA SizeOfSlam ==
  ASSUME NEW L, IsFiniteSet(L)
  PROVE  SizeOf(SlamVars(L)) = FeatSize * Cardinality(L)
<1>1. /\ {v \in SlamVars(L) : v[1] = "clone"} = {}
      /\ {v \in SlamVars(L) : v[1] = "slam"} = SlamVars(L)
  BY DEF SlamVars, SlamVar
<1>2. Cardinality(SlamVars(L)) = Cardinality(L) /\ Cardinality(L) \in Nat
  BY SlamVarsFinite, FS_CardinalityType
<1>3. SizeOf(SlamVars(L)) = PoseSize * Cardinality({}) + FeatSize * Cardinality(SlamVars(L))
  BY <1>1 DEF SizeOf
<1> QED
  BY <1>2, <1>3, FS_EmptySet DEF PoseSize, FeatSize

-----------------------------------------------------------------------------
(* Lemmas about the operators of the two modules *)

(* Landmarks appended behind a base get ids, one per landmark. *)
LEMMA AppendedType ==
  ASSUME NEW L, IsFiniteSet(L), NEW base \in Nat, NEW order \in Orders(L)
  PROVE  Appended(base, order) \in [SlamVars(L) -> Nat]
<1> DEFINE N == Cardinality(L)
<1>1. order \in [1 .. N -> L] /\ \A f \in L : \E k \in 1 .. N : order[k] = f
  BY DEF Orders, Bijection, Injection, Surjection
<1>2. DOMAIN order = 1 .. N
  BY <1>1
<1>3. {SlamVar(order[k]) : k \in DOMAIN order} = SlamVars(L)
  BY <1>1, <1>2 DEF SlamVars
<1>4. ASSUME NEW v \in SlamVars(L)
      PROVE  base + FeatSize * ((CHOOSE k \in DOMAIN order : SlamVar(order[k]) = v) - 1) \in Nat
  <2> DEFINE c == CHOOSE k \in DOMAIN order : SlamVar(order[k]) = v
  <2>1. \E k \in DOMAIN order : SlamVar(order[k]) = v
    BY <1>3
  <2>2. c \in DOMAIN order
    BY <2>1
  <2>3. N \in Nat
    BY FS_CardinalityType
  <2> HIDE DEF c
  <2>4. c \in 1 .. N
    BY <1>2, <2>2
  <2> HIDE DEF N
  <2>5. c \in Int /\ c >= 1
    BY <2>3, <2>4
  <2>6. base + FeatSize * (c - 1) \in Nat
    BY <2>5 DEF FeatSize
  <2> QED
    BY <2>6 DEF c
<1> HIDE DEF N
<1> QED
  BY <1>3, <1>4 DEF Appended

LEMMA MergeType ==
  ASSUME NEW S, NEW T, NEW f \in [S -> Nat], NEW g \in [T -> Nat]
  PROVE  Merge(f, g) \in [S \cup T -> Nat]
BY DEF Merge

(* What the ring buffer always is, whichever timestamps it holds. *)
IsRing(b) ==
  /\ b = [slotOf |-> b.slotOf, next |-> b.next]
  /\ b.slotOf \in [DOMAIN b.slotOf -> Buf!Slots]
  /\ b.next \in Buf!Slots

LEMMA SlotWraps ==
  ASSUME NEW s \in Buf!Slots, NEW k \in Nat
  PROVE  (s + k) % RingSize \in Buf!Slots
<1>1. RingSize \in Nat /\ RingSize > 0
  BY WindowAssumption DEF RingSize
<1>2. s \in Int /\ Buf!Slots = 0 .. RingSize - 1
  BY <1>1 DEF Buf!Slots
<1> HIDE DEF RingSize
<1>3. \A a, n \in Int : n > 0 => a % n \in 0 .. n - 1
  OBVIOUS
<1> QED
  BY <1>1, <1>2, <1>3

(* Adding a timestamp keeps the ring a ring and every entry in it ... *)
LEMMA RingAdd ==
  ASSUME NEW b, IsRing(b), NEW t
  PROVE  /\ IsRing(Buf!AddTimestamp(b, t))
         /\ DOMAIN Buf!AddTimestamp(b, t).slotOf = DOMAIN b.slotOf \cup {t}
<1>1. CASE t \in DOMAIN b.slotOf
  <2>1. Buf!AddTimestamp(b, t) = b
    BY <1>1 DEF Buf!AddTimestamp
  <2> QED
    BY <1>1, <2>1
<1>2. CASE t \notin DOMAIN b.slotOf
  <2> DEFINE s == [x \in DOMAIN b.slotOf \cup {t} |->
                     IF x = t THEN b.next ELSE b.slotOf[x]]
             n == (b.next + 1) % RingSize
  <2>1. Buf!AddTimestamp(b, t) = [slotOf |-> s, next |-> n]
    BY <1>2 DEF Buf!AddTimestamp
  <2>2. s \in [DOMAIN b.slotOf \cup {t} -> Buf!Slots]
    BY DEF IsRing
  <2>3. n \in Buf!Slots
    BY SlotWraps DEF IsRing
  <2> HIDE DEF s, n
  <2> QED
    BY <2>1, <2>2, <2>3 DEF IsRing
<1> QED
  BY <1>1, <1>2

(* ... and removing one removes that entry only. *)
LEMMA RingRemove ==
  ASSUME NEW b, IsRing(b), NEW t
  PROVE  /\ IsRing(Buf!RemoveTimestamp(b, t))
         /\ DOMAIN Buf!RemoveTimestamp(b, t).slotOf = DOMAIN b.slotOf \ {t}
<1> DEFINE s == Buf!Restrict(b.slotOf, DOMAIN b.slotOf \ {t})
<1>1. s \in [DOMAIN b.slotOf \ {t} -> Buf!Slots]
  BY DEF IsRing, Buf!Restrict
<1>2. Buf!RemoveTimestamp(b, t) = [slotOf |-> s, next |-> b.next]
  BY DEF IsRing, Buf!RemoveTimestamp
<1> HIDE DEF s
<1> QED
  BY <1>1, <1>2 DEF IsRing

-----------------------------------------------------------------------------
(* The inductive invariant *)

Filling == Cardinality(clones) < MaxClone + 1

(* What every variable is, in a form the steps preserve. *)
Types ==
  /\ timestamp \in Nat
  /\ clones \subseteq Nat /\ IsFiniteSet(clones)
  /\ IsRing(poses)
  /\ slam \in [Landmarks -> Nat] /\ Landmarks \subseteq Feats
  /\ shouldMarg \subseteq Landmarks
  /\ ids \in [Variables -> Nat] /\ IsFiniteSet(Variables)
  /\ featsSlam \subseteq Feats
  /\ hasMoved \in BOOLEAN
  /\ pc \in Phases

(* The columns belong to the live clones and landmarks, and, within one     *)
(* call of handle_marginalization, to the landmarks about to be dropped.    *)
Columns ==
  /\ Variables = CloneVars(clones) \cup SlamVars(Landmarks) \cup toMarg
  /\ toMarg \subseteq SlamVars(Feats \ Landmarks)
  /\ toMarg # {} => pc \in {"anchors", "marg"}
  /\ cols = CoreSize + SizeOf(Variables)

(* The window is over-full only with the newest clone in it, so that there  *)
(* is a younger clone to move the anchors of the oldest one to.             *)
WindowOrdered ==
  /\ pc \in {"idle", "clone", "init"} => ~OverFull
  /\ Cardinality(clones) <= MaxClone + 2
  /\ \A t \in clones : t <= timestamp
  /\ pc = "clone" => timestamp \notin clones /\ Buf!Cached(poses, timestamp)
  /\ OverFull => timestamp \in clones
  /\ pc = "marg" /\ OverFull => \A f \in Landmarks : ~IsOldest(slam[f])

(* U_ is square but for the rows of a clone added while the window fills    *)
(* and the noise of a propagation into a full window.                       *)
Shape ==
  /\ pc = "idle" => rows = cols \/ (rows = cols - PoseSize /\ Filling)
  /\ pc = "clone" => rows = IF Filling THEN cols ELSE cols + ImuSize
  /\ pc = "init" => rows = cols
  /\ pc \in {"select", "marg_slam", "anchors", "marg"} =>
       IF OverFull THEN rows = cols - PoseSize + ImuSize
                   ELSE rows \in {cols, cols - PoseSize}

IInv == Types /\ Columns /\ WindowOrdered /\ AnchorsLive /\ ClonesCached /\ Shape

-----------------------------------------------------------------------------
(* The invariant contains the properties it was made for. *)
LEMMA Consequences ==
  IInv => /\ TypeOK /\ WindowBounded /\ AnchorsLive /\ ClonesCached
          /\ StartRowAgrees /\ FactorReady
<1> SUFFICES ASSUME IInv
             PROVE  /\ TypeOK /\ WindowBounded /\ AnchorsLive /\ ClonesCached
                    /\ StartRowAgrees /\ FactorReady
  OBVIOUS
<1> USE WindowAssumption DEF IInv
<1>1. Cardinality(clones) \in Nat
  BY FS_CardinalityType DEF Types
<1>2. cols \in Nat /\ cols >= 15
  BY SizeOfType DEF Types, Columns
<1>3. rows \in Nat
  BY <1>2 DEF Types, Phases, Shape, PoseSize, ImuSize
<1>4. WindowBounded
  BY <1>1 DEF WindowOrdered, WindowBounded, OverFull
<1>5. StartRowAgrees /\ FactorReady
  BY <1>1, <1>2 DEF Shape, StartRowAgrees, StartRow, FactorReady, PoseSize, ImuSize
<1>6. TypeOK
  <2>1. toMarg \subseteq Variables
    BY DEF Columns
  <2> QED
    BY <1>2, <1>3, <2>1 DEF Types, TypeOK, IsRing
<1> QED
  BY <1>4, <1>5, <1>6

LEMMA InitEstablishes == Init => IInv
<1> SUFFICES ASSUME Init PROVE IInv
  OBVIOUS
<1> USE WindowAssumption
<1>1. Buf!Slots \subseteq Nat /\ 0 \in Buf!Slots
  BY DEF Buf!Slots, RingSize
<1>2. IsRing(Buf!EmptyBuffer) /\ DOMAIN Buf!EmptyBuffer.slotOf = {}
  BY <1>1 DEF Buf!EmptyBuffer, IsRing
<1>3. CASE InitStatic
  <2>1. /\ timestamp = 0 /\ shouldMarg = {} /\ toMarg = {} /\ featsSlam = {}
        /\ rows = cols /\ pc = "idle"
        /\ clones = {} /\ Landmarks = {} /\ slam \in [{} -> Nat]
        /\ Variables = {} /\ ids \in [{} -> Nat]
        /\ poses = Buf!AddTimestamp(Buf!EmptyBuffer, 0)
        /\ cols = CoreSize /\ hasMoved = FALSE
    BY <1>3 DEF Init, InitStatic, InitIdle, Landmarks, Variables
  <2>2. IsFiniteSet({}) /\ Cardinality({}) = 0
    BY FS_EmptySet
  <2>3. IsRing(poses)
    BY <1>2, <2>1, RingAdd
  <2>4. SizeOf(Variables) = 0
    BY <2>1, <2>2 DEF SizeOf, PoseSize, FeatSize
  <2>5. Types
    BY <2>1, <2>2, <2>3 DEF Types, Phases
  <2>6. Columns
    BY <2>1, <2>4 DEF Columns, CloneVars, SlamVars
  <2>7. WindowOrdered /\ AnchorsLive /\ ClonesCached /\ Shape
    BY <2>1, <2>2 DEF WindowOrdered, AnchorsLive, ClonesCached, Shape, OverFull
  <2> QED
    BY <2>5, <2>6, <2>7 DEF IInv
<1>4. CASE InitDynamic
  <2> DEFINE Holds(L, order) ==
               /\ slam = [f \in L |-> 0]
               /\ ids = Merge([v \in {CloneVar(0)} |-> CoreSize],
                              Appended(CoreSize + PoseSize, order))
               /\ cols = CoreSize + PoseSize + FeatSize * Cardinality(L)
  <2>1. PICK L \in SUBSET Feats : \E order \in Orders(L) : Holds(L, order)
    BY <1>4 DEF InitDynamic
  <2>2. PICK order \in Orders(L) : Holds(L, order)
    BY <2>1
  <2>3. PICK s \in Buf!Slots, age \in {1, 2} :
          poses = [slotOf |-> [t \in {0} |-> s], next |-> (s + age) % RingSize]
    BY <1>4 DEF InitDynamic
  <2>4. /\ timestamp = 0 /\ shouldMarg = {} /\ toMarg = {} /\ featsSlam = {}
        /\ rows = cols /\ pc = "idle" /\ clones = {0} /\ hasMoved \in BOOLEAN
    BY <1>4 DEF Init, InitDynamic, InitIdle
  <2>5. IsFiniteSet({0}) /\ Cardinality({0}) = 1
    BY FS_Singleton
  <2>6. IsFiniteSet(L) /\ Cardinality(L) \in Nat
    BY FS_Subset, FS_CardinalityType
  <2>7. Landmarks = L /\ slam \in [L -> Nat] /\ \A f \in L : slam[f] = 0
    BY <2>2 DEF Landmarks
  <2>8. ids \in [{CloneVar(0)} \cup SlamVars(L) -> Nat]
    <3>1. CoreSize + PoseSize \in Nat
      BY DEF PoseSize
    <3>2. Appended(CoreSize + PoseSize, order) \in [SlamVars(L) -> Nat]
      BY <2>6, <3>1, AppendedType
    <3>3. [v \in {CloneVar(0)} |-> CoreSize] \in [{CloneVar(0)} -> Nat]
      OBVIOUS
    <3> QED
      BY <2>2, <3>2, <3>3, MergeType
  <2>9. Variables = {CloneVar(0)} \cup SlamVars(L)
    BY <2>8 DEF Variables
  <2>10. /\ IsFiniteSet(Variables)
         /\ SizeOf(Variables) = PoseSize + FeatSize * Cardinality(L)
    <3>1. IsFiniteSet(SlamVars(L)) /\ IsFiniteSet({CloneVar(0)})
      BY <2>6, SlamVarsFinite, FS_Singleton
    <3>2. {CloneVar(0)} \cap SlamVars(L) = {}
      BY DEF CloneVar, SlamVar, SlamVars
    <3>3. SizeOf({CloneVar(0)} \cup SlamVars(L))
            = SizeOf({CloneVar(0)}) + SizeOf(SlamVars(L))
      BY <3>1, <3>2, SizeOfPlus
    <3>4. /\ SizeOf({CloneVar(0)}) = PoseSize
          /\ SizeOf(SlamVars(L)) = FeatSize * Cardinality(L)
      BY <2>6, SizeOfClone, SizeOfSlam
    <3> QED
      BY <2>9, <3>1, <3>3, <3>4, FS_Union
  <2>11. IsRing(poses) /\ DOMAIN poses.slotOf = {0}
    <3>1. (s + age) % RingSize \in Buf!Slots
      BY SlotWraps
    <3> QED
      BY <2>3, <3>1 DEF IsRing
  <2>12. Types
    BY <2>4, <2>5, <2>7, <2>8, <2>9, <2>10, <2>11 DEF Types, Phases
  <2>13. Columns
    <3>1. CloneVars({0}) = {CloneVar(0)}
      BY DEF CloneVars
    <3>2. cols = CoreSize + SizeOf(Variables)
      BY <2>2, <2>6, <2>10 DEF PoseSize, FeatSize
    <3> QED
      BY <2>4, <2>7, <2>9, <3>1, <3>2 DEF Columns
  <2>14. WindowOrdered /\ AnchorsLive /\ ClonesCached /\ Shape
    BY <2>4, <2>5, <2>7, <2>11
    DEF WindowOrdered, AnchorsLive, ClonesCached, Shape, OverFull, Buf!Cached
  <2> QED
    BY <2>12, <2>13, <2>14 DEF IInv
<1> QED
  BY <1>3, <1>4 DEF Init

-----------------------------------------------------------------------------
(* One lemma per action *)

LEMMA RepeatedFrameKeeps ==
  ASSUME IInv, NEW t \in Times, RepeatedFrame(t)
  PROVE  IInv'
<1> USE DEF RepeatedFrame, Gate, IInv, Landmarks, Variables
<1>1. Types'
  BY DEF Types, Phases
<1>2. Columns'
  BY DEF Columns
<1>3. WindowOrdered'
  BY DEF WindowOrdered, OverFull
<1>4. AnchorsLive' /\ ClonesCached'
  BY DEF AnchorsLive, ClonesCached
<1>5. Shape'
  BY DEF Shape, WindowOrdered, OverFull, Filling
<1> QED
  BY <1>1, <1>2, <1>3, <1>4, <1>5

LEMMA PropagateKeeps ==
  ASSUME IInv, NEW t \in Times, Propagate(t)
  PROVE  IInv'
<1> USE DEF Propagate, PropagateThen, IInv
<1>1. t \in Nat /\ timestamp \in Nat /\ t > timestamp
  BY WindowAssumption DEF Types
<1>2. IsRing(poses') /\ DOMAIN poses'.slotOf = DOMAIN poses.slotOf \cup {t}
  BY RingAdd DEF Types
<1>3. Types'
  BY <1>1, <1>2 DEF Types, Phases, Landmarks, Variables
<1>4. Columns'
  BY DEF Columns, Landmarks, Variables
<1>5. WindowOrdered'
  <2>1. \A u \in clones : u \in Nat /\ u <= timestamp
    BY DEF Types, WindowOrdered
  <2>2. (\A u \in clones : u <= t) /\ t \notin clones
    BY <1>1, <2>1
  <2>3. ~OverFull /\ ~OverFull'
    BY DEF WindowOrdered, OverFull
  <2> QED
    BY <1>2, <2>2, <2>3 DEF WindowOrdered, Buf!Cached
<1>6. AnchorsLive'
  BY DEF AnchorsLive, Landmarks
<1>7. ClonesCached'
  BY <1>2 DEF ClonesCached, Buf!Cached
<1>8. Shape'
  <2>1. Filling' = Filling
    BY DEF Filling
  <2>2. Filling => rows' = cols
    BY DEF Filling
  <2>3. ~Filling => rows' = cols + ImuSize
    BY DEF Filling, Shape
  <2> QED
    BY <2>1, <2>2, <2>3 DEF Shape
<1> QED
  BY <1>3, <1>4, <1>5, <1>6, <1>7, <1>8

LEMMA CloneKeeps ==
  ASSUME IInv, Clone
  PROVE  IInv'
<1> USE DEF Clone, Gate, IInv
<1>1. /\ timestamp \in Nat /\ timestamp \notin clones
      /\ clones' = clones \cup {timestamp} /\ UNCHANGED timestamp
  BY DEF Types, WindowOrdered
<1>2. /\ Cardinality(clones) \in Nat /\ IsFiniteSet(clones')
      /\ Cardinality(clones') = Cardinality(clones) + 1
  BY <1>1, FS_CardinalityType, FS_AddElement DEF Types
<1>3. pc' \in {"idle", "select"} /\ (pc' = "idle" => Cardinality(clones') < MaxClone)
  BY <1>2, WindowAssumption DEF Lesser
<1>4. ids' \in [Variables \cup {CloneVar(timestamp)} -> Nat]
  BY WindowAssumption DEF CloneIds, InsertedAt, Types, Variables, PoseSize
<1>5. Variables' = Variables \cup {CloneVar(timestamp)}
  BY <1>4 DEF Variables
<1>6. CloneVar(timestamp) \notin Variables
  <2>1. CloneVar(timestamp) \notin CloneVars(clones)
    BY <1>1 DEF CloneVars, CloneVar
  <2>2. \A L : CloneVar(timestamp) \notin SlamVars(L)
    BY DEF SlamVars, SlamVar, CloneVar
  <2> QED
    BY <2>1, <2>2 DEF Columns
<1>7. /\ IsFiniteSet(Variables')
      /\ SizeOf(Variables') = SizeOf(Variables) + PoseSize
  <2>1. IsFiniteSet({CloneVar(timestamp)}) /\ Variables \cap {CloneVar(timestamp)} = {}
    BY <1>6, FS_Singleton
  <2>2. SizeOf(Variables \cup {CloneVar(timestamp)})
          = SizeOf(Variables) + SizeOf({CloneVar(timestamp)})
    BY <2>1, SizeOfPlus DEF Types
  <2> QED
    BY <1>5, <2>1, <2>2, FS_Union, SizeOfClone DEF Types
<1>8. Types'
  BY <1>1, <1>2, <1>3, <1>4, <1>5, <1>7 DEF Types, Phases, Landmarks
<1>9. Columns'
  <2>1. CloneVars(clones') = CloneVars(clones) \cup {CloneVar(timestamp)}
    BY <1>1 DEF CloneVars
  <2>2. cols' = CoreSize + SizeOf(Variables')
    BY <1>7, SizeOfType, WindowAssumption DEF Columns, Types, PoseSize
  <2>3. Landmarks' = Landmarks /\ toMarg' = toMarg /\ toMarg = {}
    BY DEF Landmarks, Columns
  <2> QED
    BY <1>5, <2>1, <2>2, <2>3 DEF Columns
<1>10. WindowOrdered'
  <2>1. Cardinality(clones) <= MaxClone + 1
    BY <1>2, WindowAssumption DEF WindowOrdered, OverFull
  <2>2. pc' = "idle" => ~OverFull'
    BY <1>2, <1>3, WindowAssumption DEF OverFull
  <2>3. \A u \in clones' : u <= timestamp
    BY <1>1 DEF WindowOrdered
  <2> QED
    BY <1>1, <1>2, <1>3, <2>1, <2>2, <2>3, WindowAssumption DEF WindowOrdered
<1>11. AnchorsLive' /\ ClonesCached'
  BY <1>1 DEF AnchorsLive, ClonesCached, WindowOrdered, Landmarks, Buf!Cached
<1>12. Shape'
  <2>1. cols \in Nat /\ cols' = cols + PoseSize /\ UNCHANGED rows
    BY SizeOfType, WindowAssumption DEF Columns, Types
  <2>2. rows = IF Filling THEN cols ELSE cols + ImuSize
    BY DEF Shape
  <2>3. Filling <=> ~OverFull'
    BY <1>2, WindowAssumption DEF Filling, OverFull, WindowOrdered
  <2>4. pc' = "idle" => Filling /\ Filling'
    BY <1>2, <1>3, WindowAssumption DEF Filling
  <2> QED
    BY <1>3, <2>1, <2>2, <2>3, <2>4 DEF Shape, PoseSize, ImuSize
<1> QED
  BY <1>8, <1>9, <1>10, <1>11, <1>12

LEMMA SelectKeeps ==
  ASSUME IInv, Select
  PROVE  IInv'
<1> USE DEF Select, SelectUpTo, IInv, Landmarks, Variables
<1>1. Types'
  BY DEF Types, Phases
<1>2. Columns' /\ AnchorsLive' /\ ClonesCached'
  BY DEF Columns, AnchorsLive, ClonesCached
<1>3. WindowOrdered' /\ Shape'
  BY DEF WindowOrdered, OverFull, Shape
<1> QED
  BY <1>1, <1>2, <1>3

LEMMA MarginalizeSlamKeeps ==
  ASSUME IInv, MarginalizeSlam
  PROVE  IInv'
<1> USE DEF MarginalizeSlam, IInv
<1>1. /\ Landmarks' = Landmarks \ shouldMarg
      /\ slam' \in [Landmarks' -> Nat]
      /\ \A f \in Landmarks' : f \in Landmarks /\ slam'[f] = slam[f]
  BY DEF Types, Landmarks, Restrict
<1>2. toMarg = {} /\ toMarg' = SlamVars(shouldMarg)
  BY DEF Columns, SlamVars
<1>3. Types'
  BY <1>1 DEF Types, Phases, Variables
<1>4. Columns'
  <2>1. SlamVars(Landmarks) = SlamVars(Landmarks') \cup SlamVars(shouldMarg)
    BY <1>1 DEF SlamVars, Types
  <2>2. SlamVars(shouldMarg) \subseteq SlamVars(Feats \ Landmarks')
    BY <1>1 DEF SlamVars, Types
  <2> QED
    BY <1>2, <2>1, <2>2 DEF Columns, Variables
<1>5. WindowOrdered' /\ AnchorsLive' /\ ClonesCached' /\ Shape'
  BY <1>1 DEF WindowOrdered, OverFull, AnchorsLive, ClonesCached, Shape
<1> QED
  BY <1>3, <1>4, <1>5

(* An over-full window has a clone other than its newest, so that the       *)
(* newest, to which anchors move, is not the one about to be marginalised.  *)
LEMMA NewestIsNotOldest ==
  ASSUME IInv, OverFull
  PROVE  timestamp \in clones /\ ~IsOldest(timestamp)
<1>1. timestamp \in clones /\ IsFiniteSet(clones) /\ clones \subseteq Nat
      /\ \A t \in clones : t <= timestamp
  BY DEF IInv, WindowOrdered, Types
<1>2. SUFFICES ASSUME IsOldest(timestamp) PROVE FALSE
  BY <1>1
<1>a. \A t \in clones : t \in Nat /\ timestamp \in Nat /\ timestamp <= t /\ t <= timestamp
  BY <1>1, <1>2 DEF IsOldest
<1>b. \A t \in clones : t = timestamp
  BY <1>a
<1>3. clones = {timestamp}
  BY <1>1, <1>b
<1>4. Cardinality(clones) = 1
  BY <1>3, FS_Singleton
<1> QED
  BY <1>4, WindowAssumption DEF OverFull

LEMMA ChangeAnchorsKeeps ==
  ASSUME IInv, ChangeAnchors
  PROVE  IInv'
<1> USE DEF ChangeAnchors, ChangeAnchorsIf, IInv
<1>1. CASE OverFull
  <2>1. slam' = [f \in Landmarks |-> IF IsOldest(slam[f]) THEN timestamp ELSE slam[f]]
    BY <1>1
  <2>2. timestamp \in clones /\ ~IsOldest(timestamp)
    BY <1>1, NewestIsNotOldest
  <2>3. /\ Landmarks' = Landmarks
        /\ \A f \in Landmarks : slam'[f] \in clones /\ ~IsOldest(slam'[f])
    BY <2>1, <2>2 DEF AnchorsLive, Landmarks
  <2>4. slam' \in [Landmarks' -> Nat]
    BY <2>1, <2>3 DEF Types
  <2>5. Types' /\ Columns'
    BY <2>3, <2>4 DEF Types, Phases, Columns, Variables
  <2>6. WindowOrdered'
    BY <2>3 DEF WindowOrdered, OverFull, IsOldest
  <2>7. AnchorsLive' /\ ClonesCached' /\ Shape'
    BY <2>3 DEF AnchorsLive, ClonesCached, Shape, OverFull
  <2> QED
    BY <2>5, <2>6, <2>7
<1>2. CASE ~OverFull
  <2>1. UNCHANGED <<slam, clones, ids, rows, cols, toMarg>>
    BY <1>2
  <2>2. Types' /\ Columns'
    BY <2>1 DEF Types, Phases, Columns, Variables, Landmarks
  <2>3. WindowOrdered' /\ AnchorsLive' /\ ClonesCached' /\ Shape'
    BY <1>2, <2>1 DEF WindowOrdered, OverFull, AnchorsLive, ClonesCached, Shape, Landmarks
  <2> QED
    BY <2>2, <2>3
<1> QED
  BY <1>1, <1>2

(* Dropping variables leaves the others with ids, and U_ square. *)
LEMMA MarginalizeVariablesGives ==
  ASSUME IInv, NEW G, G \subseteq Variables, MarginalizeVariables(G)
  PROVE  /\ ids' \in [Variables' -> Nat]
         /\ Variables' = Variables \ G
         /\ IsFiniteSet(Variables')
         /\ cols' = CoreSize + SizeOf(Variables')
         /\ rows' = cols' /\ toMarg' = {}
<1> USE DEF MarginalizeVariables
<1>1. IsFiniteSet(Variables) /\ ids \in [Variables -> Nat]
  BY DEF IInv, Types
<1>2. \A W \in SUBSET Variables : CoreSize + SizeOf(W) \in Nat
  BY <1>1, FS_Subset, SizeOfType, WindowAssumption
<1>3. ids' \in [Variables \ G -> Nat]
  <2>1. \A v \in Variables \ G :
          CoreSize + SizeOf({w \in Variables \ G : ids[w] < ids[v]}) \in Nat
    BY <1>2
  <2> QED
    BY <1>1, <2>1 DEF CompactedIds
<1>4. Variables' = Variables \ G
  BY <1>3 DEF Variables
<1>5. SizeOf(Variables \ G) = SizeOf(Variables) - SizeOf(G)
  BY <1>1, SizeOfMinus
<1>6. IsFiniteSet(G) /\ IsFiniteSet(Variables \ G)
  BY <1>1, FS_Subset
<1>7. /\ SizeOf(Variables) \in Nat /\ SizeOf(G) \in Nat
      /\ cols = CoreSize + SizeOf(Variables) /\ cols' = cols - SizeOf(G)
  BY <1>1, <1>6, SizeOfType DEF IInv, Columns
<1>8. cols' = CoreSize + SizeOf(Variables \ G)
  BY <1>5, <1>7, WindowAssumption
<1> QED
  BY <1>3, <1>4, <1>6, <1>8

LEMMA MarginalizeKeeps ==
  ASSUME IInv, Marginalize
  PROVE  IInv'
<1>0. /\ pc = "marg" /\ pc' = "init"
      /\ UNCHANGED <<timestamp, slam, shouldMarg, featsSlam, hasMoved>>
      /\ Landmarks' = Landmarks
  BY DEF Marginalize, Landmarks
<1>1. ASSUME NEW t \in clones, OverFull, IsOldest(t),
             clones' = clones \ {t}, poses' = Buf!RemoveTimestamp(poses, t),
             MarginalizeVariables(toMarg \cup {CloneVar(t)})
      PROVE  IInv'
  <2> DEFINE G == toMarg \cup {CloneVar(t)}
  <2>1. G \subseteq Variables
    BY DEF IInv, Columns, CloneVars
  <2>2. /\ ids' \in [Variables' -> Nat]
        /\ Variables' = Variables \ G
        /\ IsFiniteSet(Variables')
        /\ cols' = CoreSize + SizeOf(Variables')
        /\ rows' = cols' /\ toMarg' = {}
    BY <1>1, <2>1, MarginalizeVariablesGives
  <2>3. /\ IsFiniteSet(clones') /\ Cardinality(clones) \in Nat
        /\ Cardinality(clones') = Cardinality(clones) - 1
    BY <1>1, FS_RemoveElement, FS_CardinalityType DEF IInv, Types
  <2>4. IsRing(poses') /\ DOMAIN poses'.slotOf = DOMAIN poses.slotOf \ {t}
    BY <1>1, RingRemove DEF IInv, Types
  <2>5. Types'
    BY <1>0, <1>1, <2>2, <2>3, <2>4 DEF IInv, Types, Phases
  <2>6. Columns'
    <3>1. CloneVars(clones') = CloneVars(clones) \ {CloneVar(t)}
      BY <1>1 DEF CloneVars, CloneVar
    <3>2. CloneVars(clones) \cap SlamVars(Feats) = {}
      BY DEF CloneVars, CloneVar, SlamVars, SlamVar
    <3>3. /\ SlamVars(Landmarks) \cap toMarg = {}
          /\ SlamVars(Landmarks) \subseteq SlamVars(Feats) /\ toMarg \subseteq SlamVars(Feats)
      BY DEF IInv, Columns, Types, SlamVars, SlamVar
    <3>4. CloneVar(t) \in CloneVars(clones)
      BY DEF CloneVars
    <3>5. Variables' = CloneVars(clones') \cup SlamVars(Landmarks)
      BY <2>2, <3>1, <3>2, <3>3, <3>4 DEF IInv, Columns
    <3> QED
      BY <1>0, <2>2, <3>5 DEF Columns
  <2>7. WindowOrdered'
    BY <1>0, <1>1, <2>3, WindowAssumption DEF IInv, WindowOrdered, OverFull
  <2>8. AnchorsLive'
    BY <1>0, <1>1 DEF IInv, WindowOrdered, AnchorsLive
  <2>9. ClonesCached'
    BY <1>1, <2>4 DEF IInv, ClonesCached, Buf!Cached
  <2>10. Shape'
    BY <1>0, <2>2 DEF Shape
  <2> QED
    BY <2>5, <2>6, <2>7, <2>8, <2>9, <2>10 DEF IInv
<1>2. ASSUME ~OverFull, UNCHANGED <<clones, poses>>, MarginalizeVariables(toMarg)
      PROVE  IInv'
  <2>1. toMarg \subseteq Variables
    BY DEF IInv, Columns
  <2>2. /\ ids' \in [Variables' -> Nat]
        /\ Variables' = Variables \ toMarg
        /\ IsFiniteSet(Variables')
        /\ cols' = CoreSize + SizeOf(Variables')
        /\ rows' = cols' /\ toMarg' = {}
    BY <1>2, <2>1, MarginalizeVariablesGives
  <2>3. Types'
    BY <1>0, <1>2, <2>2 DEF IInv, Types, Phases
  <2>4. Columns'
    <3>1. CloneVars(clones) \cap SlamVars(Feats) = {}
      BY DEF CloneVars, CloneVar, SlamVars, SlamVar
    <3>2. /\ SlamVars(Landmarks) \cap toMarg = {}
          /\ toMarg \subseteq SlamVars(Feats)
      BY DEF IInv, Columns, Types, SlamVars, SlamVar
    <3>3. Variables' = CloneVars(clones) \cup SlamVars(Landmarks)
      BY <2>2, <3>1, <3>2 DEF IInv, Columns
    <3> QED
      BY <1>0, <1>2, <2>2, <3>3 DEF Columns
  <2>5. WindowOrdered' /\ AnchorsLive' /\ ClonesCached' /\ Shape'
    BY <1>0, <1>2, <2>2
    DEF IInv, WindowOrdered, OverFull, AnchorsLive, ClonesCached, Shape
  <2> QED
    BY <2>3, <2>4, <2>5 DEF IInv
<1> QED
  BY <1>1, <1>2 DEF Marginalize

LEMMA DelayedInitKeeps ==
  ASSUME IInv, DelayedInit
  PROVE  IInv'
<1> DEFINE Holds(new, anchor, order) ==
             /\ slam' = Merge(slam, anchor)
             /\ ids' = Merge(ids, Appended(cols, order))
             /\ cols' = cols + FeatSize * Cardinality(new)
             /\ rows' = IF new = {} THEN rows ELSE cols'
<1>1. PICK new \in SUBSET (featsSlam \ Landmarks) :
        \E anchor \in [new -> clones] : \E order \in Orders(new) : Holds(new, anchor, order)
  BY DEF DelayedInit
<1>2. PICK anchor \in [new -> clones] :
        \E order \in Orders(new) : Holds(new, anchor, order)
  BY <1>1
<1>3. PICK order \in Orders(new) : Holds(new, anchor, order)
  BY <1>2
<1>4. /\ pc = "init" /\ pc' = "idle" /\ featsSlam' = {}
      /\ UNCHANGED <<timestamp, clones, poses, shouldMarg, toMarg, hasMoved>>
      /\ toMarg = {}
  BY DEF DelayedInit, IInv, Columns
<1>5. /\ new \subseteq Feats /\ new \cap Landmarks = {}
      /\ IsFiniteSet(new) /\ Cardinality(new) \in Nat
  BY FS_Subset, FS_CardinalityType, WindowAssumption DEF IInv, Types
<1>6. cols \in Nat
  BY SizeOfType, WindowAssumption DEF IInv, Types, Columns
<1>7. /\ slam' \in [Landmarks \cup new -> Nat]
      /\ \A f \in Landmarks \cup new : slam'[f] \in clones
  BY <1>3 DEF Merge, IInv, Types, AnchorsLive, Landmarks
<1>8. Landmarks' = Landmarks \cup new
  BY <1>7 DEF Landmarks
<1>9. ids' \in [Variables \cup SlamVars(new) -> Nat]
  <2>1. Appended(cols, order) \in [SlamVars(new) -> Nat]
    BY <1>5, <1>6, AppendedType
  <2> QED
    BY <1>3, <2>1, MergeType DEF IInv, Types
<1>10. Variables' = Variables \cup SlamVars(new)
  BY <1>9 DEF Variables
<1>11. Variables \cap SlamVars(new) = {}
  <2>1. CloneVars(clones) \cap SlamVars(new) = {}
    BY DEF CloneVars, CloneVar, SlamVars, SlamVar
  <2>2. SlamVars(Landmarks) \cap SlamVars(new) = {}
    BY <1>5 DEF SlamVars, SlamVar
  <2> QED
    BY <1>4, <2>1, <2>2 DEF IInv, Columns
<1>12. /\ IsFiniteSet(Variables')
       /\ SizeOf(Variables') = SizeOf(Variables) + FeatSize * Cardinality(new)
  <2>1. IsFiniteSet(Variables) /\ IsFiniteSet(SlamVars(new))
    BY <1>5, SlamVarsFinite DEF IInv, Types
  <2>2. SizeOf(Variables \cup SlamVars(new)) = SizeOf(Variables) + SizeOf(SlamVars(new))
    BY <1>11, <2>1, SizeOfPlus
  <2>3. SizeOf(SlamVars(new)) = FeatSize * Cardinality(new)
    BY <1>5, SizeOfSlam
  <2> QED
    BY <1>10, <2>1, <2>2, <2>3, FS_Union
<1>13. Types'
  BY <1>4, <1>5, <1>7, <1>8, <1>9, <1>10, <1>12 DEF IInv, Types, Phases
<1>14. Columns'
  <2>1. SlamVars(Landmarks') = SlamVars(Landmarks) \cup SlamVars(new)
    BY <1>8 DEF SlamVars
  <2>2. cols' = CoreSize + SizeOf(Variables')
    <3>1. SizeOf(Variables) \in Nat /\ cols = CoreSize + SizeOf(Variables)
      BY SizeOfType DEF IInv, Types, Columns
    <3> QED
      BY <1>3, <1>5, <1>12, <3>1, WindowAssumption DEF FeatSize
  <2> QED
    BY <1>4, <1>10, <2>1, <2>2 DEF IInv, Columns
<1>15. WindowOrdered' /\ ClonesCached'
  BY <1>4 DEF IInv, WindowOrdered, OverFull, ClonesCached
<1>16. AnchorsLive'
  BY <1>4, <1>7, <1>8 DEF AnchorsLive
<1>17. Shape'
  <2>1. rows = cols
    BY <1>4 DEF IInv, Shape
  <2>2. new = {} => cols' = cols
    BY <1>3, <1>6, FS_EmptySet DEF FeatSize
  <2> QED
    BY <1>3, <1>4, <2>1, <2>2 DEF Shape
<1> QED
  BY <1>13, <1>14, <1>15, <1>16, <1>17 DEF IInv

LEMMA ZeroVelocityUpdateKeeps ==
  ASSUME IInv, NEW t \in Times, ZeroVelocityUpdate(t)
  PROVE  IInv'
<1> USE DEF ZeroVelocityUpdate, IInv
<1>1. t \in Nat /\ timestamp \in Nat /\ t > timestamp
  BY WindowAssumption DEF Types
<1>2. IsRing(poses') /\ DOMAIN poses'.slotOf = DOMAIN poses.slotOf \cup {t}
  BY RingAdd DEF Types
<1>3. Types'
  BY <1>1, <1>2 DEF Types, Phases, Landmarks, Variables
<1>4. Columns'
  BY DEF Columns, Landmarks, Variables
<1>5. WindowOrdered'
  <2>1. \A u \in clones : u \in Nat /\ u <= timestamp
    BY DEF Types, WindowOrdered
  <2>2. \A u \in clones : u <= t
    BY <1>1, <2>1
  <2> QED
    BY <2>2 DEF WindowOrdered, OverFull
<1>6. AnchorsLive' /\ ClonesCached' /\ Shape'
  BY <1>2 DEF AnchorsLive, ClonesCached, Shape, Landmarks, Buf!Cached
<1> QED
  BY <1>3, <1>4, <1>5, <1>6

-----------------------------------------------------------------------------
(* The invariant of window, columns, anchors, ring and shape is inductive. *)
THEOREM Invariance == Spec => []IInv
<1>1. IInv /\ [Next]_vars => IInv'
  <2> SUFFICES ASSUME IInv, [Next]_vars PROVE IInv'
    OBVIOUS
  <2>2. ASSUME NEW t \in Times, RepeatedFrame(t) \/ Propagate(t) \/ ZeroVelocityUpdate(t)
        PROVE  IInv'
    BY <2>2, RepeatedFrameKeeps, PropagateKeeps, ZeroVelocityUpdateKeeps
  <2>3. CASE Clone
    BY <2>3, CloneKeeps
  <2>4. CASE Update
    BY <2>4, SelectKeeps, MarginalizeSlamKeeps, ChangeAnchorsKeeps,
       MarginalizeKeeps, DelayedInitKeeps DEF Update
  <2>5. ASSUME UNCHANGED vars
        PROVE  IInv'
    <3> USE DEF vars, Landmarks, Variables
    <3>0. Types'
      BY <2>5 DEF IInv, Types
    <3>1. Columns'
      BY <2>5 DEF IInv, Columns
    <3>2. WindowOrdered'
      BY <2>5 DEF IInv, WindowOrdered, OverFull, IsOldest, Buf!Cached
    <3>3. AnchorsLive' /\ ClonesCached' /\ Shape'
      BY <2>5 DEF IInv, AnchorsLive, ClonesCached, Shape, Filling, OverFull, Buf!Cached
    <3> QED
      BY <3>0, <3>1, <3>2, <3>3 DEF IInv
  <2> QED
    BY <2>2, <2>3, <2>4, <2>5 DEF Next, Frame, OutOfOrderFrame
<1> QED
  BY <1>1, InitEstablishes, PTL DEF Spec

(* Every variable keeps its type; in particular no id and no shape of U_    *)
(* becomes negative when columns are dropped.                               *)
THEOREM TypeCorrect == Spec => []TypeOK
BY Invariance, Consequences, PTL

(* However frames, landmarks and zero velocity updates interleave, the      *)
(* window never outgrows the ring, and has room for a clone between frames. *)
THEOREM WindowStaysBounded == Spec => []WindowBounded
BY Invariance, Consequences, PTL

(* No landmark is left anchored in a clone that has been marginalised:      *)
(* change_anchors moves it first, to a clone that is not the oldest.        *)
THEOREM AnchorsStayLive == Spec => []AnchorsLive
BY Invariance, Consequences, PTL

(* get_buffer_unsafe finds an entry for every live clone.                   *)
THEOREM ClonesStayCached == Spec => []ClonesCached
BY Invariance, Consequences, PTL

(* propagate, propagate_timeoffset and the anchor change always agree on    *)
(* whether the noise rows are on top of U_, although each works it out from *)
(* the window's size for itself.                                            *)
THEOREM StartRowsAgree == Spec => []StartRowAgrees
BY Invariance, Consequences, PTL

(* A frame never begins with more rows in U_ than propagate copies.         *)
THEOREM FactorStaysReady == Spec => []FactorReady
BY Invariance, Consequences, PTL

(* An anchor moves only to a younger clone, which is in the window still    *)
(* after the step.                                                          *)
THEOREM AnchorsOnlyMoveForward == Spec => AnchorsMoveForward
<1> DEFINE Forward == \A f \in Landmarks \cap Landmarks' :
                        slam[f] # slam'[f] => slam[f] < slam'[f] /\ slam'[f] \in clones'
<1>1. ASSUME IInv, [Next]_vars PROVE [Forward]_vars
  <2>1. CASE UNCHANGED slam
    BY <2>1
  <2>2. CASE MarginalizeSlam
    <3>1. \A f \in Landmarks' : slam'[f] = slam[f]
      BY <2>2 DEF MarginalizeSlam, Restrict, Landmarks
    <3> QED
      BY <3>1
  <2>3. CASE ChangeAnchors
    <3>1. CASE OverFull
      <4>1. slam' = [f \in Landmarks |-> IF IsOldest(slam[f]) THEN timestamp ELSE slam[f]]
        BY <2>3, <3>1 DEF ChangeAnchors, ChangeAnchorsIf
      <4>2. timestamp \in clones /\ ~IsOldest(timestamp) /\ clones' = clones
        BY <1>1, <2>3, <3>1, NewestIsNotOldest DEF ChangeAnchors, ChangeAnchorsIf
      <4>3. \A f \in Landmarks : slam[f] \in clones
        BY <1>1 DEF IInv, AnchorsLive
      <4>4. \A t \in clones : t \in Nat /\ timestamp \in Nat /\ t <= timestamp
        BY <1>1 DEF IInv, WindowOrdered, Types
      <4>5. \A f \in Landmarks : IsOldest(slam[f]) => slam[f] < timestamp
        BY <4>2, <4>3, <4>4
      <4> QED
        BY <4>1, <4>2, <4>5 DEF Landmarks
    <3>2. CASE ~OverFull
      BY <2>1, <2>3, <3>2 DEF ChangeAnchors, ChangeAnchorsIf
    <3> QED
      BY <3>1, <3>2
  <2>4. CASE DelayedInit
    <3>1. \E g : slam' = Merge(slam, g)
      BY <2>4 DEF DelayedInit
    <3>2. \A f \in Landmarks : slam'[f] = slam[f]
      BY <3>1 DEF Merge, Landmarks
    <3> QED
      BY <3>2
  <2>5. CASE UNCHANGED vars
    BY <2>1, <2>5 DEF vars
  <2>6. ASSUME NEW t \in Times,
               OutOfOrderFrame(t) \/ RepeatedFrame(t) \/ Propagate(t) \/ ZeroVelocityUpdate(t)
        PROVE  [Forward]_vars
    BY <2>1, <2>6 DEF OutOfOrderFrame, RepeatedFrame, Propagate, PropagateThen,
                      ZeroVelocityUpdate, vars
  <2>7. CASE Clone \/ Select \/ Marginalize
    BY <2>1, <2>7 DEF Clone, Select, SelectUpTo, Marginalize
  <2> QED
    BY <1>1, <2>2, <2>3, <2>4, <2>5, <2>6, <2>7 DEF Next, Frame, Update
<1> QED
  BY <1>1, Invariance, PTL DEF Spec, AnchorsMoveForward

-----------------------------------------------------------------------------
(* The landmark budget *)

(* What is a landmark and what may become one in this frame share the       *)
(* budget, so that a landmark dropped and promoted again counts once.       *)
Budget == Cardinality(Landmarks \cup featsSlam) <= MaxSlam

LEMMA BudgetInit == Init => Budget
<1> SUFFICES ASSUME Init PROVE Budget
  OBVIOUS
<1>1. featsSlam = {}
  BY DEF Init, InitIdle
<1>2. CASE InitStatic
  <2>1. Landmarks = {}
    BY <1>2 DEF InitStatic, Landmarks
  <2> QED
    BY <1>1, <2>1, FS_EmptySet, WindowAssumption DEF Budget
<1>3. CASE InitDynamic
  <2>1. PICK L \in SUBSET Feats : Cardinality(L) <= MaxSlam /\ slam = [f \in L |-> 0]
    BY <1>3 DEF InitDynamic
  <2>2. Landmarks \cup featsSlam = L
    BY <1>1, <2>1 DEF Landmarks
  <2> QED
    BY <2>1, <2>2 DEF Budget
<1> QED
  BY <1>2, <1>3 DEF Init

LEMMA BudgetStep ==
  ASSUME IInv, Budget, [Next]_vars
  PROVE  Budget'
<1>1. /\ IsFiniteSet(Landmarks \cup featsSlam)
      /\ Cardinality(Landmarks \cup featsSlam) \in Nat
  BY FS_Subset, FS_CardinalityType, WindowAssumption DEF IInv, Types
<1>2. ASSUME Landmarks' \cup featsSlam' \subseteq Landmarks \cup featsSlam
      PROVE  Budget'
  <2>1. /\ IsFiniteSet(Landmarks' \cup featsSlam')
        /\ Cardinality(Landmarks' \cup featsSlam') <= Cardinality(Landmarks \cup featsSlam)
    BY <1>1, <1>2, FS_Subset
  <2>2. Cardinality(Landmarks' \cup featsSlam') \in Nat
    BY <2>1, FS_CardinalityType
  <2> QED
    BY <1>1, <2>1, <2>2, WindowAssumption DEF Budget
<1>3. CASE UNCHANGED <<slam, featsSlam>>
  BY <1>2, <1>3 DEF Landmarks
<1>4. CASE Select
  <2> DEFINE Chosen(new, tracked) ==
               /\ Cardinality(new) <= MaxSlam - Cardinality(Landmarks)
               /\ featsSlam' = new \cup tracked
  <2>1. PICK new \in SUBSET (Feats \ Landmarks) :
          \E tracked \in SUBSET Landmarks : Chosen(new, tracked)
    BY <1>4 DEF Select, SelectUpTo
  <2>2. PICK tracked \in SUBSET Landmarks : Chosen(new, tracked)
    BY <2>1
  <2>3. Landmarks' = Landmarks
    BY <1>4 DEF Select, SelectUpTo, Landmarks
  <2>4. Landmarks' \cup featsSlam' = Landmarks \cup new
    BY <2>2, <2>3
  <2>5. IsFiniteSet(Landmarks) /\ IsFiniteSet(new) /\ Landmarks \cap new = {}
    BY FS_Subset, WindowAssumption DEF IInv, Types
  <2>6. Cardinality(Landmarks) \in Nat /\ Cardinality(new) \in Nat
    BY <2>5, FS_CardinalityType
  <2>7. Cardinality(Landmarks \cup new)
          = Cardinality(Landmarks) + Cardinality(new) - Cardinality(Landmarks \cap new)
    BY <2>5, FS_Union
  <2>8. Cardinality(Landmarks \cap new) = 0
    BY <2>5, FS_EmptySet
  <2>9. Cardinality(Landmarks \cup new) = Cardinality(Landmarks) + Cardinality(new)
    BY <2>6, <2>7, <2>8
  <2> QED
    <3>1. Cardinality(new) <= MaxSlam - Cardinality(Landmarks) /\ MaxSlam \in Nat
      BY <2>2, WindowAssumption
    <3>2. Cardinality(Landmarks) + Cardinality(new) <= MaxSlam
      BY <2>6, <3>1
    <3> QED
      BY <2>4, <2>9, <3>2 DEF Budget
<1>5. CASE MarginalizeSlam
  <2>1. Landmarks' \subseteq Landmarks /\ featsSlam' = featsSlam
    BY <1>5 DEF MarginalizeSlam, Restrict, Landmarks
  <2> QED
    BY <1>2, <2>1
<1>6. CASE ChangeAnchors
  <2>1. Landmarks' = Landmarks /\ featsSlam' = featsSlam
    BY <1>6 DEF ChangeAnchors, ChangeAnchorsIf, Landmarks
  <2> QED
    BY <1>2, <2>1
<1>7. CASE DelayedInit
  <2>1. PICK new \in SUBSET (featsSlam \ Landmarks) :
          \E anchor \in [new -> clones] : slam' = Merge(slam, anchor)
    BY <1>7 DEF DelayedInit
  <2>2. Landmarks' = Landmarks \cup new
    BY <2>1 DEF Merge, Landmarks
  <2>3. featsSlam' = {}
    BY <1>7 DEF DelayedInit
  <2> QED
    BY <1>2, <2>2, <2>3
<1>8. CASE UNCHANGED vars
  BY <1>3, <1>8 DEF vars
<1>9. ASSUME NEW t \in Times,
             OutOfOrderFrame(t) \/ RepeatedFrame(t) \/ Propagate(t) \/ ZeroVelocityUpdate(t)
      PROVE  Budget'
  BY <1>3, <1>9 DEF OutOfOrderFrame, RepeatedFrame, Propagate, PropagateThen,
                    ZeroVelocityUpdate, vars
<1>10. CASE Clone \/ Marginalize
  BY <1>3, <1>10 DEF Clone, Marginalize
<1> QED
  BY <1>4, <1>5, <1>6, <1>7, <1>8, <1>9, <1>10 DEF Next, Frame, Update

LEMMA SizeOfClones ==
  ASSUME NEW T, IsFiniteSet(T)
  PROVE  IsFiniteSet(CloneVars(T)) /\ SizeOf(CloneVars(T)) = PoseSize * Cardinality(T)
<1> DEFINE f == [x \in T |-> CloneVar(x)]
<1>1. f \in Bijection(T, CloneVars(T))
  BY DEF Bijection, Injection, Surjection, IsInjective, CloneVars, CloneVar
<1>2. IsFiniteSet(CloneVars(T)) /\ Cardinality(CloneVars(T)) = Cardinality(T)
  BY <1>1, FS_Bijection DEF ExistsBijection
<1>3. /\ {v \in CloneVars(T) : v[1] = "slam"} = {}
      /\ {v \in CloneVars(T) : v[1] = "clone"} = CloneVars(T)
  BY DEF CloneVars, CloneVar
<1>4. SizeOf(CloneVars(T)) = PoseSize * Cardinality(CloneVars(T)) + FeatSize * Cardinality({})
  BY <1>3 DEF SizeOf
<1>5. Cardinality(T) \in Nat
  BY FS_CardinalityType
<1> QED
  BY <1>2, <1>4, <1>5, FS_EmptySet DEF PoseSize, FeatSize

LEMMA BudgetSuffices ==
  ASSUME IInv, Budget
  PROVE  BudgetsHold
<1>1. IsFiniteSet(clones) /\ IsFiniteSet(Landmarks)
  BY FS_Subset, WindowAssumption DEF IInv, Types
<1>2. Cardinality(clones) \in Nat /\ Cardinality(Landmarks) \in Nat
  BY <1>1, FS_CardinalityType
<1>3. Cardinality(Landmarks) <= MaxSlam
  <2>1. IsFiniteSet(Landmarks \cup featsSlam)
    BY FS_Subset, WindowAssumption DEF IInv, Types
  <2>2. Cardinality(Landmarks) <= Cardinality(Landmarks \cup featsSlam)
    BY <2>1, FS_Subset
  <2>3. Cardinality(Landmarks \cup featsSlam) \in Nat
    BY <2>1, FS_CardinalityType
  <2> QED
    BY <1>2, <2>2, <2>3, WindowAssumption DEF Budget
<1>4. ASSUME pc \in {"idle", "init"} PROVE cols <= MaxStateSize
  <2>1. Variables = CloneVars(clones) \cup SlamVars(Landmarks)
    BY <1>4 DEF IInv, Columns
  <2>2. CloneVars(clones) \cap SlamVars(Landmarks) = {}
    BY DEF CloneVars, CloneVar, SlamVars, SlamVar
  <2>3. /\ IsFiniteSet(CloneVars(clones)) /\ IsFiniteSet(SlamVars(Landmarks))
        /\ SizeOf(CloneVars(clones)) = PoseSize * Cardinality(clones)
        /\ SizeOf(SlamVars(Landmarks)) = FeatSize * Cardinality(Landmarks)
    BY <1>1, SizeOfClones, SlamVarsFinite, SizeOfSlam
  <2>4. SizeOf(CloneVars(clones) \cup SlamVars(Landmarks))
          = SizeOf(CloneVars(clones)) + SizeOf(SlamVars(Landmarks))
    BY <2>2, <2>3, SizeOfPlus
  <2>5. cols = CoreSize + 6 * Cardinality(clones) + 3 * Cardinality(Landmarks)
    <3>1. cols = CoreSize + SizeOf(Variables)
      BY DEF IInv, Columns
    <3>2. SizeOf(Variables) = 6 * Cardinality(clones) + 3 * Cardinality(Landmarks)
      BY <2>1, <2>3, <2>4 DEF PoseSize, FeatSize
    <3> QED
      BY <1>2, <3>1, <3>2, WindowAssumption
  <2>6. Cardinality(clones) <= MaxClone + 1
    BY <1>2, <1>4, WindowAssumption DEF IInv, WindowOrdered, OverFull
  <2>7. CoreSize \in Nat /\ MaxSlam \in Nat /\ MaxClone \in Nat /\ MarginalOffset \in Nat
    BY WindowAssumption
  <2>8. MaxStateSize = MaxSlam * 3 + MaxClone * 6 + CoreSize + MarginalOffset
    BY DEF MaxStateSize, PoseSize, FeatSize
  <2> QED
    <3>1. 6 * Cardinality(clones) <= 6 * MaxClone + 6
      BY <1>2, <2>6, <2>7
    <3>2. 3 * Cardinality(Landmarks) <= MaxSlam * 3
      BY <1>2, <1>3, <2>7
    <3>3. /\ 6 * Cardinality(clones) \in Nat /\ 3 * Cardinality(Landmarks) \in Nat
          /\ 6 * MaxClone \in Nat /\ MaxSlam * 3 \in Nat /\ MaxClone * 6 = 6 * MaxClone
      BY <1>2, <2>7
    <3> HIDE DEF MaxStateSize
    <3> QED
      BY <2>5, <2>7, <2>8, <3>1, <3>2, <3>3, MarginalAssumption
<1> QED
  BY <1>3, <1>4 DEF BudgetsHold

(* The landmarks keep to their budget and the columns of U_ to the          *)
(* preallocated size, although features are selected before landmarks are   *)
(* dropped and a dropped one can be promoted again in the same frame.       *)
THEOREM BudgetsAreKept == Spec => []BudgetsHold
<1>1. Spec => []Budget
  <2>1. Budget /\ IInv /\ [Next]_vars => Budget'
    BY BudgetStep
  <2> QED
    BY <2>1, BudgetInit, Invariance, PTL DEF Spec
<1>2. IInv /\ Budget => BudgetsHold
  BY BudgetSuffices
<1> QED
  BY <1>1, <1>2, Invariance, PTL
=============================================================================
