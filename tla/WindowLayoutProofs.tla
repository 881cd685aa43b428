------------------------- MODULE WindowLayoutProofs -------------------------
(***************************************************************************)
(* Where the window keeps its variables: the columns of the square-root    *)
(* factor, which the clones and landmarks tile in a fixed order, and the   *)
(* slots of the pose ring, which no two live clones share.                 *)
(***************************************************************************)
EXTENDS SlidingWindowProofs

-----------------------------------------------------------------------------
(* Lemmas about the columns a set of variables takes *)

LEMMA SizeOfMonotone ==
  ASSUME NEW V, IsFiniteSet(V), NEW G, G \subseteq V
  PROVE  SizeOf(G) <= SizeOf(V)
<1>1. IsFiniteSet(G) /\ IsFiniteSet(V \ G)
  BY FS_Subset
<1>2. SizeOf(V \ G) \in Nat /\ SizeOf(G) \in Nat /\ SizeOf(V) \in Nat
  BY <1>1, SizeOfType
<1>3. SizeOf(V \ G) = SizeOf(V) - SizeOf(G)
  BY SizeOfMinus
<1> QED
  BY <1>2, <1>3

LEMMA SizeOfOne ==
  ASSUME NEW v, v[1] \in {"clone", "slam"}
  PROVE  SizeOf({v}) = Size(v) /\ Size(v) \in Nat /\ Size(v) > 0
<1>1. Cardinality({v}) = 1 /\ Cardinality({}) = 0
  BY FS_Singleton, FS_EmptySet
<1>2. CASE v[1] = "clone"
  <2>1. {w \in {v} : w[1] = "clone"} = {v} /\ {w \in {v} : w[1] = "slam"} = {}
    BY <1>2
  <2>2. SizeOf({v}) = PoseSize * Cardinality({v}) + FeatSize * Cardinality({})
    BY <2>1 DEF SizeOf
  <2>3. Size(v) = PoseSize
    BY <1>2 DEF Size
  <2> QED
    BY <1>1, <2>2, <2>3 DEF PoseSize, FeatSize
<1>3. CASE v[1] = "slam"
  <2>1. {w \in {v} : w[1] = "clone"} = {} /\ {w \in {v} : w[1] = "slam"} = {v}
    BY <1>3
  <2>2. SizeOf({v}) = PoseSize * Cardinality({}) + FeatSize * Cardinality({v})
    BY <2>1 DEF SizeOf
  <2>3. Size(v) = FeatSize
    BY <1>3 DEF Size
  <2> QED
    BY <1>1, <2>2, <2>3 DEF PoseSize, FeatSize
<1> QED
  BY <1>2, <1>3

LEMMA SizeOfWith ==
  ASSUME NEW V, IsFiniteSet(V), NEW v, v \notin V, v[1] \in {"clone", "slam"}
  PROVE  SizeOf(V \cup {v}) = SizeOf(V) + Size(v)
<1>1. IsFiniteSet({v}) /\ V \cap {v} = {}
  BY FS_Singleton
<1>2. SizeOf(V \cup {v}) = SizeOf(V) + SizeOf({v})
  BY <1>1, SizeOfPlus
<1> QED
  BY <1>2, SizeOfOne

(* A variable is a clone or a landmark, and of one time or feature only. *)
LEMMA Kinds ==
  /\ \A t : CloneVar(t)[1] = "clone" /\ Size(CloneVar(t)) = PoseSize
  /\ \A f : SlamVar(f)[1] = "slam" /\ Size(SlamVar(f)) = FeatSize
  /\ \A t, f : CloneVar(t) # SlamVar(f)
  /\ \A t, u : CloneVar(t) = CloneVar(u) => t = u
  /\ \A f, g : SlamVar(f) = SlamVar(g) => f = g
<1>1. /\ \A t : CloneVar(t)[1] = "clone"
      /\ \A f : SlamVar(f)[1] = "slam"
  BY DEF CloneVar, SlamVar
<1>2. /\ \A t : Size(CloneVar(t)) = PoseSize
      /\ \A f : Size(SlamVar(f)) = FeatSize
  BY <1>1 DEF Size
<1>3. \A t, f : CloneVar(t) # SlamVar(f)
  BY DEF CloneVar, SlamVar
<1>4. /\ \A t, u : CloneVar(t) = CloneVar(u) => t = u
      /\ \A f, g : SlamVar(f) = SlamVar(g) => f = g
  BY DEF CloneVar, SlamVar
<1> QED
  BY <1>1, <1>2, <1>3, <1>4

-----------------------------------------------------------------------------
(* Maps from variables to first columns without a gap or an overlap *)

Before(m, v) == {w \in DOMAIN m : m[w] < m[v]}

Tiled(m, n) ==
  /\ IsFiniteSet(DOMAIN m) /\ \A v \in DOMAIN m : v[1] \in {"clone", "slam"}
  /\ n = CoreSize + SizeOf(DOMAIN m)
  /\ \A v \in DOMAIN m : m[v] = CoreSize + SizeOf(Before(m, v))
  /\ \A v, w \in DOMAIN m : v # w => m[v] # m[w]

(* Every variable lies between the core and the end, in full. *)
LEMMA TiledGives ==
  ASSUME NEW m, NEW n, Tiled(m, n)
  PROVE  /\ n \in Nat
         /\ \A v \in DOMAIN m : /\ m[v] \in Nat /\ m[v] >= CoreSize
                                /\ m[v] + Size(v) <= n /\ m[v] < n
         /\ \A v, w \in DOMAIN m : v # w => m[v] < m[w] \/ m[w] < m[v]
<1>1. CoreSize \in Nat /\ SizeOf(DOMAIN m) \in Nat
  BY WindowAssumption, SizeOfType DEF Tiled
<1>2. n \in Nat
  BY <1>1 DEF Tiled
<1>3. ASSUME NEW v \in DOMAIN m
      PROVE  m[v] \in Nat /\ m[v] >= CoreSize /\ m[v] + Size(v) <= n /\ m[v] < n
  <2>1. Before(m, v) \subseteq DOMAIN m /\ IsFiniteSet(Before(m, v))
    BY FS_Subset DEF Before, Tiled
  <2>2. SizeOf(Before(m, v)) \in Nat /\ m[v] = CoreSize + SizeOf(Before(m, v))
    BY <2>1, SizeOfType DEF Tiled
  <2>3. m[v] \in Nat /\ m[v] >= CoreSize
    BY <1>1, <2>2
  <2>4. v \notin Before(m, v) /\ v[1] \in {"clone", "slam"}
    BY <2>3 DEF Before, Tiled
  <2>5. SizeOf(Before(m, v) \cup {v}) = SizeOf(Before(m, v)) + Size(v)
    BY <2>1, <2>4, SizeOfWith
  <2>6. SizeOf(Before(m, v) \cup {v}) <= SizeOf(DOMAIN m)
    BY <2>1, SizeOfMonotone DEF Tiled
  <2>7. SizeOf({v}) = Size(v) /\ Size(v) \in Nat /\ Size(v) > 0
    BY <2>4, SizeOfOne
  <2>8. n = CoreSize + SizeOf(DOMAIN m)
    BY DEF Tiled
  <2>9. SizeOf(Before(m, v)) + Size(v) <= SizeOf(DOMAIN m)
    BY <2>5, <2>6
  <2> QED
    BY <1>1, <2>2, <2>3, <2>7, <2>8, <2>9
<1>4. \A v, w \in DOMAIN m : v # w => m[v] < m[w] \/ m[w] < m[v]
  BY <1>3 DEF Tiled
<1> QED
  BY <1>2, <1>3, <1>4

(* StateHelper::clone puts the pose in front, everything else moves back. *)
LEMMA TiledCloned ==
  ASSUME Tiled(ids, cols), CloneVar(timestamp) \notin Variables
  PROVE  /\ Tiled(CloneIds, cols + PoseSize)
         /\ DOMAIN CloneIds = Variables \cup {CloneVar(timestamp)}
         /\ CloneIds[CloneVar(timestamp)] = CoreSize
         /\ \A v \in Variables : CloneIds[v] = ids[v] + PoseSize
<1> DEFINE c == CloneVar(timestamp)
           m == CloneIds
<1>1. CoreSize \in Nat /\ PoseSize \in Nat /\ PoseSize > 0
  BY WindowAssumption DEF PoseSize
<1>2. \A v \in Variables : ids[v] \in Nat /\ ids[v] >= CoreSize
  BY TiledGives DEF Variables
<1>3. DOMAIN m = Variables \cup {c} /\ m[c] = CoreSize
      /\ \A v \in Variables : m[v] = ids[v] + PoseSize
  BY <1>2 DEF CloneIds, InsertedAt
<1>4. c[1] \in {"clone", "slam"} /\ Size(c) = PoseSize
  BY Kinds
<1> HIDE DEF m, c
<1>5. c \notin Variables
  BY DEF c
<1>6. Before(m, c) = {}
  BY <1>1, <1>2, <1>3 DEF Before
<1>7. ASSUME NEW v \in Variables PROVE Before(m, v) = Before(ids, v) \cup {c}
  <2>1. \A w \in Variables : m[w] < m[v] <=> ids[w] < ids[v]
    BY <1>1, <1>2, <1>3
  <2>2. m[c] < m[v]
    BY <1>1, <1>2, <1>3
  <2> QED
    BY <1>3, <2>1, <2>2 DEF Before, Variables
<1>8. SizeOf({}) = 0
  BY FS_EmptySet DEF SizeOf, PoseSize, FeatSize
<1>9. ASSUME NEW v \in DOMAIN m PROVE m[v] = CoreSize + SizeOf(Before(m, v))
  <2>1. CASE v = c
    BY <1>1, <1>3, <1>6, <1>8, <2>1
  <2>2. CASE v \in Variables
    <3>1. IsFiniteSet(Before(ids, v)) /\ c \notin Before(ids, v)
      BY <1>5, FS_Subset DEF Before, Tiled, Variables
    <3>2. SizeOf(Before(ids, v) \cup {c}) = SizeOf(Before(ids, v)) + PoseSize
      BY <1>4, <3>1, SizeOfWith
    <3>3. SizeOf(Before(ids, v)) \in Nat /\ ids[v] = CoreSize + SizeOf(Before(ids, v))
      BY <2>2, <3>1, SizeOfType DEF Tiled, Variables
    <3> QED
      <4>1. m[v] = CoreSize + SizeOf(Before(ids, v)) + PoseSize
        BY <1>3, <2>2, <3>3
      <4>2. SizeOf(Before(m, v)) = SizeOf(Before(ids, v)) + PoseSize
        BY <1>7, <2>2, <3>2
      <4> QED
        BY <1>1, <3>3, <4>1, <4>2
  <2> QED
    BY <1>3, <2>1, <2>2
<1>10. ASSUME NEW v \in DOMAIN m, NEW w \in DOMAIN m, v # w PROVE m[v] # m[w]
  <2>1. CASE v \in Variables /\ w \in Variables
    BY <1>1, <1>2, <1>3, <1>10, <2>1 DEF Tiled, Variables
  <2>2. CASE v = c \/ w = c
    BY <1>1, <1>2, <1>3, <1>10, <2>2
  <2> QED
    BY <1>3, <2>1, <2>2
<1>11. IsFiniteSet(DOMAIN m) /\ \A v \in DOMAIN m : v[1] \in {"clone", "slam"}
  BY <1>3, <1>4, FS_AddElement DEF Tiled, Variables
<1>12. cols + PoseSize = CoreSize + SizeOf(DOMAIN m)
  <2>1. SizeOf(DOMAIN m) = SizeOf(Variables) + PoseSize
    BY <1>3, <1>4, <1>5, SizeOfWith DEF Tiled, Variables
  <2>2. cols = CoreSize + SizeOf(Variables) /\ SizeOf(Variables) \in Nat
    BY SizeOfType DEF Tiled, Variables
  <2> QED
    BY <1>1, <2>1, <2>2
<1>13. Tiled(m, cols + PoseSize)
  BY <1>9, <1>10, <1>11, <1>12 DEF Tiled
<1> QED
  BY <1>3, <1>13 DEF m, c

(* UpdaterSLAM appends the new landmarks behind everything else. *)
LEMMA TiledAppended ==
  ASSUME NEW m, NEW n, Tiled(m, n), NEW L, IsFiniteSet(L), NEW order \in Orders(L),
         DOMAIN m \cap SlamVars(L) = {}
  PROVE  LET a == Merge(m, Appended(n, order))
         IN  /\ Tiled(a, n + FeatSize * Cardinality(L))
             /\ DOMAIN a = DOMAIN m \cup SlamVars(L)
             /\ \A v \in DOMAIN m : a[v] = m[v]
             /\ \A f \in L : a[SlamVar(f)] >= n
<1> DEFINE a == Merge(m, Appended(n, order))
           N == Cardinality(L)
           First(k) == {SlamVar(order[j]) : j \in 1 .. k}
<1>1. n \in Nat /\ N \in Nat /\ CoreSize \in Nat
      /\ \A v \in DOMAIN m : m[v] \in Nat /\ m[v] < n
  BY TiledGives, FS_CardinalityType, WindowAssumption
<1>2. /\ order \in [1 .. N -> L] /\ DOMAIN order = 1 .. N
      /\ \A f \in L : \E k \in 1 .. N : order[k] = f
      /\ \A j, k \in 1 .. N : order[j] = order[k] => j = k
  BY DEF Orders, Bijection, Injection, Surjection, IsInjective
<1>3. \A j, k \in 1 .. N : SlamVar(order[j]) = SlamVar(order[k]) => j = k
  BY <1>2, Kinds
<1>4. SlamVars(L) = {SlamVar(order[k]) : k \in DOMAIN order}
  BY <1>2 DEF SlamVars
<1>5. DOMAIN a = DOMAIN m \cup SlamVars(L) /\ \A v \in DOMAIN m : a[v] = m[v]
  BY <1>4 DEF Merge, Appended
<1>6. ASSUME NEW k \in 1 .. N PROVE a[SlamVar(order[k])] = n + FeatSize * (k - 1)
  <2>1. SlamVar(order[k]) \in SlamVars(L) /\ SlamVar(order[k]) \notin DOMAIN m
    BY <1>2, <1>4
  <2>2. (CHOOSE j \in DOMAIN order : SlamVar(order[j]) = SlamVar(order[k])) = k
    BY <1>2, <1>3
  <2>3. Appended(n, order)[SlamVar(order[k])]
          = n + FeatSize
              * ((CHOOSE j \in DOMAIN order : SlamVar(order[j]) = SlamVar(order[k])) - 1)
    BY <1>4, <2>1 DEF Appended
  <2>4. Appended(n, order)[SlamVar(order[k])] = n + FeatSize * (k - 1)
    BY <2>2, <2>3
  <2>5. a[SlamVar(order[k])] = Appended(n, order)[SlamVar(order[k])]
    BY <1>4, <2>1 DEF Merge, Appended
  <2> QED
    BY <2>4, <2>5
<1> HIDE DEF a
<1>7. ASSUME NEW k \in 0 .. N
      PROVE  /\ IsFiniteSet(First(k)) /\ SizeOf(First(k)) = FeatSize * k
             /\ First(k) \subseteq SlamVars(L)
  <2> DEFINE T == {order[j] : j \in 1 .. k}
             g == [j \in 1 .. k |-> order[j]]
  <2>0. k \in Nat /\ 1 .. k \subseteq 1 .. N
    BY <1>1
  <2>1. g \in Bijection(1 .. k, T)
    BY <1>2, <2>0 DEF Bijection, Injection, Surjection, IsInjective
  <2>2. IsFiniteSet(1 .. k) /\ Cardinality(1 .. k) = k
    <3>1. Cardinality(1 .. k) = IF 1 > k THEN 0 ELSE k - 1 + 1
      BY <2>0, FS_Interval
    <3> QED
      BY <2>0, <3>1, FS_Interval
  <2>3. IsFiniteSet(T) /\ Cardinality(T) = k
    BY <2>1, <2>2, FS_Bijection DEF ExistsBijection
  <2>4. First(k) = SlamVars(T) /\ T \subseteq L
    BY <1>2, <2>0 DEF SlamVars
  <2> HIDE DEF T, First
  <2> QED
    BY <2>3, <2>4, SizeOfSlam, SlamVarsFinite DEF SlamVars
<1>8. First(N) = SlamVars(L)
  BY <1>2, <1>4
<1>9. ASSUME NEW k \in 1 .. N
      PROVE  Before(a, SlamVar(order[k])) = DOMAIN m \cup First(k - 1)
  <2>1. \A v \in DOMAIN m : a[v] < a[SlamVar(order[k])]
    BY <1>1, <1>5, <1>6 DEF FeatSize
  <2>2. \A j \in 1 .. N : a[SlamVar(order[j])] < a[SlamVar(order[k])] <=> j <= k - 1
    BY <1>1, <1>6 DEF FeatSize
  <2>3. \A j \in 1 .. k - 1 : j \in 1 .. N
    BY <1>1
  <2>4. Before(a, SlamVar(order[k]))
          = DOMAIN m \cup {v \in SlamVars(L) : a[v] < a[SlamVar(order[k])]}
    BY <1>5, <2>1 DEF Before
  <2>5. {v \in SlamVars(L) : a[v] < a[SlamVar(order[k])]} = First(k - 1)
    BY <1>1, <1>2, <1>4, <2>2, <2>3
  <2> QED
    BY <2>4, <2>5
<1>10. ASSUME NEW v \in DOMAIN m PROVE Before(a, v) = Before(m, v)
  <2>1. \A k \in 1 .. N : ~(a[SlamVar(order[k])] < a[v])
    BY <1>1, <1>5, <1>6 DEF FeatSize
  <2>2. \A w \in SlamVars(L) : ~(a[w] < a[v])
    BY <1>2, <1>4, <2>1
  <2> QED
    BY <1>5, <2>2 DEF Before
<1>11. ASSUME NEW v \in DOMAIN a PROVE a[v] = CoreSize + SizeOf(Before(a, v))
  <2>1. CASE v \in DOMAIN m
    BY <1>5, <1>10, <2>1 DEF Tiled
  <2>2. CASE v \in SlamVars(L)
    <3>1. PICK k \in 1 .. N : v = SlamVar(order[k])
      BY <1>2, <1>4, <2>2
    <3>2. k - 1 \in 0 .. N
      BY <1>1
    <3>3. IsFiniteSet(First(k - 1)) /\ SizeOf(First(k - 1)) = FeatSize * (k - 1)
          /\ First(k - 1) \subseteq SlamVars(L)
      BY <1>7, <3>2
    <3> HIDE DEF First
    <3>4. SizeOf(DOMAIN m \cup First(k - 1)) = SizeOf(DOMAIN m) + FeatSize * (k - 1)
      <4>1. DOMAIN m \cap First(k - 1) = {}
        BY <3>3
      <4> QED
        BY <3>3, <4>1, SizeOfPlus DEF Tiled
    <3>5. SizeOf(DOMAIN m) \in Nat /\ n = CoreSize + SizeOf(DOMAIN m)
      BY SizeOfType DEF Tiled
    <3>6. a[v] = n + FeatSize * (k - 1)
          /\ SizeOf(Before(a, v)) = SizeOf(DOMAIN m) + FeatSize * (k - 1)
      BY <1>6, <1>9, <3>1, <3>4
    <3> QED
      BY <1>1, <3>5, <3>6 DEF FeatSize
  <2> QED
    BY <1>5, <2>1, <2>2
<1>12. ASSUME NEW v \in DOMAIN a, NEW w \in DOMAIN a, v # w PROVE a[v] # a[w]
  <2>1. CASE v \in DOMAIN m /\ w \in DOMAIN m
    BY <1>5, <1>12, <2>1 DEF Tiled
  <2>2. CASE v \in DOMAIN m /\ w \in SlamVars(L)
    BY <1>1, <1>2, <1>4, <1>5, <1>6, <2>2 DEF FeatSize
  <2>3. CASE w \in DOMAIN m /\ v \in SlamVars(L)
    BY <1>1, <1>2, <1>4, <1>5, <1>6, <2>3 DEF FeatSize
  <2>4. CASE v \in SlamVars(L) /\ w \in SlamVars(L)
    <3>1. PICK j \in 1 .. N : v = SlamVar(order[j])
      BY <1>2, <1>4, <2>4
    <3>2. PICK k \in 1 .. N : w = SlamVar(order[k])
      BY <1>2, <1>4, <2>4
    <3>3. j # k
      BY <1>12, <3>1, <3>2
    <3>4. a[v] = n + FeatSize * (j - 1) /\ a[w] = n + FeatSize * (k - 1)
      BY <1>6, <3>1, <3>2
    <3> QED
      BY <1>1, <3>3, <3>4 DEF FeatSize
  <2> QED
    BY <1>5, <2>1, <2>2, <2>3, <2>4
<1>13. IsFiniteSet(DOMAIN a) /\ \A v \in DOMAIN a : v[1] \in {"clone", "slam"}
  <2>1. \A v \in SlamVars(L) : v[1] = "slam"
    BY Kinds DEF SlamVars
  <2>2. IsFiniteSet(SlamVars(L)) /\ IsFiniteSet(DOMAIN m)
    BY SlamVarsFinite DEF Tiled
  <2>3. IsFiniteSet(DOMAIN m \cup SlamVars(L))
    BY <2>2, FS_Union
  <2> QED
    BY <1>5, <2>1, <2>3 DEF Tiled
<1>14. n + FeatSize * N = CoreSize + SizeOf(DOMAIN a)
  <2>1. SizeOf(DOMAIN a) = SizeOf(DOMAIN m) + FeatSize * N
    <3>1. IsFiniteSet(SlamVars(L)) /\ SizeOf(SlamVars(L)) = FeatSize * N
      BY SlamVarsFinite, SizeOfSlam
    <3> QED
      BY <1>5, <3>1, SizeOfPlus DEF Tiled
  <2>2. SizeOf(DOMAIN m) \in Nat /\ n = CoreSize + SizeOf(DOMAIN m)
    BY SizeOfType DEF Tiled
  <2> HIDE DEF N
  <2> QED
    BY <1>1, <2>1, <2>2 DEF FeatSize
<1>15. \A f \in L : a[SlamVar(f)] >= n
  <2> TAKE f \in L
  <2>1. PICK k \in 1 .. N : order[k] = f
    BY <1>2
  <2>2. a[SlamVar(f)] = n + FeatSize * (k - 1)
    BY <1>6, <2>1
  <2> QED
    BY <1>1, <2>2 DEF FeatSize
<1>16. Tiled(a, n + FeatSize * N)
  BY <1>11, <1>12, <1>13, <1>14 DEF Tiled
<1> QED
  BY <1>5, <1>15, <1>16 DEF a

(* StateHelper::marginalize closes up the columns and keeps their order. *)
LEMMA TiledCompacted ==
  ASSUME Tiled(ids, cols), NEW G, G \subseteq Variables
  PROVE  /\ Tiled(CompactedIds(G), cols - SizeOf(G))
         /\ DOMAIN CompactedIds(G) = Variables \ G
         /\ \A v, w \in Variables \ G :
              CompactedIds(G)[w] < CompactedIds(G)[v] <=> ids[w] < ids[v]
<1> DEFINE m == CompactedIds(G)
           D == Variables \ G
           Kept(v) == {w \in D : ids[w] < ids[v]}
<1>1. /\ CoreSize \in Nat /\ IsFiniteSet(Variables) /\ IsFiniteSet(D)
      /\ \A v \in Variables : ids[v] \in Nat /\ ids[v] >= CoreSize
      /\ \A v, w \in Variables : v # w => ids[v] < ids[w] \/ ids[w] < ids[v]
      /\ \A v \in Variables : v[1] \in {"clone", "slam"}
  <2>1. IsFiniteSet(Variables) /\ \A v \in Variables : v[1] \in {"clone", "slam"}
    BY DEF Tiled, Variables
  <2>2. IsFiniteSet(D)
    BY <2>1, FS_Subset
  <2> QED
    BY <2>1, <2>2, WindowAssumption, TiledGives DEF Variables
<1>2. DOMAIN m = D
  BY DEF CompactedIds
<1>3. ASSUME NEW v \in D
      PROVE  /\ m[v] = CoreSize + SizeOf(Kept(v)) /\ SizeOf(Kept(v)) \in Nat
             /\ IsFiniteSet(Kept(v))
  <2>1. m[v] = IF ids[v] < CoreSize THEN ids[v] ELSE CoreSize + SizeOf(Kept(v))
    BY DEF CompactedIds
  <2>2. IsFiniteSet(Kept(v))
    BY <1>1, FS_Subset
  <2>3. ~(ids[v] < CoreSize)
    BY <1>1
  <2> HIDE DEF Kept, m
  <2> QED
    BY <2>1, <2>2, <2>3, SizeOfType
<1>4. ASSUME NEW v \in D, NEW w \in D, ids[w] < ids[v]
      PROVE  m[w] < m[v]
  <2>1. w \notin Kept(w) /\ Kept(w) \cup {w} \subseteq Kept(v)
    BY <1>1, <1>4
  <2>2. /\ m[v] = CoreSize + SizeOf(Kept(v)) /\ m[w] = CoreSize + SizeOf(Kept(w))
        /\ SizeOf(Kept(v)) \in Nat /\ SizeOf(Kept(w)) \in Nat
        /\ IsFiniteSet(Kept(v)) /\ IsFiniteSet(Kept(w))
    BY <1>3
  <2>3. w[1] \in {"clone", "slam"}
    BY <1>1
  <2> HIDE DEF Kept, m
  <2>4. SizeOf(Kept(w) \cup {w}) = SizeOf(Kept(w)) + Size(w)
    BY <2>1, <2>2, <2>3, SizeOfWith
  <2>5. SizeOf(Kept(w) \cup {w}) <= SizeOf(Kept(v))
    BY <2>1, <2>2, SizeOfMonotone
  <2>6. SizeOf({w}) = Size(w) /\ Size(w) \in Nat /\ Size(w) > 0
    BY <2>3, SizeOfOne
  <2> QED
    BY <1>1, <2>2, <2>4, <2>5, <2>6
<1>5. \A v \in D : m[v] \in Nat
  <2> TAKE v \in D
  <2>1. m[v] = CoreSize + SizeOf(Kept(v)) /\ SizeOf(Kept(v)) \in Nat
    BY <1>3
  <2> HIDE DEF Kept, m
  <2> QED
    BY <1>1, <2>1
<1> HIDE DEF m
<1>6. \A v, w \in D : m[w] < m[v] <=> ids[w] < ids[v]
  <2> TAKE v, w \in D
  <2>1. CASE v = w
    BY <1>1, <1>5, <2>1
  <2>2. CASE v # w
    BY <1>1, <1>4, <1>5, <2>2
  <2> QED
    BY <2>1, <2>2
<1>7. \A v, w \in D : v # w => m[v] # m[w]
  BY <1>1, <1>4, <1>5
<1>8. \A v \in D : m[v] = CoreSize + SizeOf(Before(m, v))
  <2> TAKE v \in D
  <2>1. Before(m, v) = Kept(v)
    BY <1>2, <1>6 DEF Before
  <2> QED
    BY <1>3, <2>1
<1>9. cols - SizeOf(G) = CoreSize + SizeOf(D)
  <2>1. SizeOf(D) = SizeOf(Variables) - SizeOf(G)
    BY <1>1, SizeOfMinus
  <2>2. IsFiniteSet(G)
    BY <1>1, FS_Subset
  <2>3. SizeOf(D) \in Nat /\ SizeOf(G) \in Nat /\ SizeOf(Variables) \in Nat
    BY <1>1, <2>2, SizeOfType
  <2>4. cols = CoreSize + SizeOf(Variables)
    BY DEF Tiled, Variables
  <2> HIDE DEF D
  <2> QED
    BY <1>1, <2>1, <2>3, <2>4
<1>10. Tiled(m, cols - SizeOf(G))
  BY <1>1, <1>2, <1>7, <1>8, <1>9 DEF Tiled
<1> QED
  BY <1>2, <1>6, <1>10 DEF m

-----------------------------------------------------------------------------
(* The order of the columns: newest clone first, landmarks last, those about *)
(* to be dropped included.                                                   *)
InOrder(m, C) ==
  /\ \A t, u \in C : t < u => m[CloneVar(u)] < m[CloneVar(t)]
  /\ \A t \in C : \A v \in DOMAIN m : v[1] = "slam" => m[CloneVar(t)] < m[v]

Layout == Tiled(ids, cols) /\ InOrder(ids, clones)

LEMMA LayoutInit == Init => Layout
<1> SUFFICES ASSUME Init PROVE Layout
  OBVIOUS
<1>1. SizeOf({}) = 0
  BY FS_EmptySet DEF SizeOf, PoseSize, FeatSize
<1>2. CoreSize \in Nat /\ PoseSize \in Nat
  BY WindowAssumption DEF PoseSize
<1>3. CASE InitStatic
  <2>1. DOMAIN ids = {} /\ clones = {} /\ cols = CoreSize
    BY <1>3 DEF InitStatic
  <2>2. cols = CoreSize + SizeOf({})
    BY <1>1, <1>2, <2>1
  <2> QED
    BY <2>1, <2>2, FS_EmptySet DEF Layout, Tiled, InOrder
<1>4. CASE InitDynamic
  <2> DEFINE m == [v \in {CloneVar(0)} |-> CoreSize]
             Holds(L, order) ==
               /\ ids = Merge(m, Appended(CoreSize + PoseSize, order))
               /\ cols = CoreSize + PoseSize + FeatSize * Cardinality(L)
  <2>1. PICK L \in SUBSET Feats : \E order \in Orders(L) : Holds(L, order)
    BY <1>4 DEF InitDynamic
  <2>2. PICK order \in Orders(L) : Holds(L, order)
    BY <2>1
  <2>3. clones = {0} /\ IsFiniteSet(L)
    BY <1>4, FS_Subset, WindowAssumption DEF InitDynamic
  <2>4. DOMAIN m = {CloneVar(0)} /\ m[CloneVar(0)] = CoreSize
    OBVIOUS
  <2> HIDE DEF m
  <2>5. Tiled(m, CoreSize + PoseSize)
    <3>1. Before(m, CloneVar(0)) = {}
      BY <1>2, <2>4 DEF Before
    <3>2. SizeOf({CloneVar(0)}) = PoseSize
      BY SizeOfClone
    <3>3. CloneVar(0)[1] = "clone" /\ IsFiniteSet({CloneVar(0)})
      BY Kinds, FS_Singleton
    <3>4. CoreSize = CoreSize + SizeOf(Before(m, CloneVar(0)))
      BY <1>1, <1>2, <3>1
    <3> QED
      BY <2>4, <3>2, <3>3, <3>4 DEF Tiled
  <2>6. DOMAIN m \cap SlamVars(L) = {}
    BY <2>4, Kinds DEF SlamVars
  <2>7. /\ Tiled(ids, cols) /\ DOMAIN ids = DOMAIN m \cup SlamVars(L)
        /\ \A v \in DOMAIN m : ids[v] = m[v]
        /\ \A f \in L : ids[SlamVar(f)] >= CoreSize + PoseSize
    <3>1. LET a == Merge(m, Appended(CoreSize + PoseSize, order))
          IN  /\ Tiled(a, CoreSize + PoseSize + FeatSize * Cardinality(L))
              /\ DOMAIN a = DOMAIN m \cup SlamVars(L)
              /\ \A v \in DOMAIN m : a[v] = m[v]
              /\ \A f \in L : a[SlamVar(f)] >= CoreSize + PoseSize
      BY <2>3, <2>5, <2>6, TiledAppended
    <3> QED
      BY <2>2, <3>1
  <2>8. \A v \in DOMAIN ids : v[1] = "slam" => v \in SlamVars(L)
    BY <2>4, <2>7, Kinds
  <2>9. \A v \in SlamVars(L) : ids[CloneVar(0)] < ids[v]
    <3> TAKE v \in SlamVars(L)
    <3>1. PICK f \in L : v = SlamVar(f)
      BY DEF SlamVars
    <3>2. ids[v] \in Nat
      BY <2>7, TiledGives
    <3> QED
      BY <1>2, <2>4, <2>7, <3>1, <3>2 DEF PoseSize
  <2> QED
    BY <2>3, <2>7, <2>8, <2>9 DEF Layout, InOrder
<1> QED
  BY <1>3, <1>4 DEF Init

LEMMA CloneKeepsLayout == ASSUME IInv, Layout, Clone PROVE Layout'
<1>1. /\ ids' = CloneIds /\ cols' = cols + PoseSize /\ pc = "clone"
      /\ clones' = clones \cup {timestamp}
  BY DEF Clone
<1>2. timestamp \in Nat /\ clones \subseteq Nat /\ timestamp \notin clones
      /\ \A t \in clones : t <= timestamp
  BY <1>1 DEF IInv, Types, WindowOrdered
<1>3. CloneVar(timestamp) \notin Variables
  <2>1. Variables = CloneVars(clones) \cup SlamVars(Landmarks) \cup toMarg
        /\ toMarg \subseteq SlamVars(Feats \ Landmarks)
    BY DEF IInv, Columns
  <2> QED
    BY <1>2, <2>1, Kinds DEF CloneVars, SlamVars
<1>4. /\ Tiled(ids', cols')
      /\ DOMAIN ids' = Variables \cup {CloneVar(timestamp)}
      /\ ids'[CloneVar(timestamp)] = CoreSize
      /\ \A v \in Variables : ids'[v] = ids[v] + PoseSize
  BY <1>1, <1>3, TiledCloned DEF Layout
<1>5. \A v \in Variables : ids[v] \in Nat /\ ids[v] >= CoreSize
  BY TiledGives DEF Layout, Variables
<1>6. \A t \in clones : CloneVar(t) \in Variables
  BY DEF IInv, Columns, CloneVars
<1>7. CoreSize \in Nat
  BY WindowAssumption
<1>8. ASSUME NEW t \in clones', NEW u \in clones', t < u
      PROVE  ids'[CloneVar(u)] < ids'[CloneVar(t)]
  <2>1. t \in clones
    BY <1>1, <1>2, <1>8
  <2>2. CASE u = timestamp
    BY <1>4, <1>5, <1>6, <1>7, <2>1, <2>2 DEF PoseSize
  <2>3. CASE u \in clones
    <3>1. ids[CloneVar(u)] < ids[CloneVar(t)]
      BY <1>8, <2>1, <2>3 DEF Layout, InOrder
    <3> QED
      BY <1>4, <1>5, <1>6, <2>1, <2>3, <3>1 DEF PoseSize
  <2> QED
    BY <1>1, <2>2, <2>3
<1>9. ASSUME NEW t \in clones', NEW v \in DOMAIN ids', v[1] = "slam"
      PROVE  ids'[CloneVar(t)] < ids'[v]
  <2>1. v \in Variables
    BY <1>4, <1>9, Kinds
  <2>2. CASE t = timestamp
    BY <1>4, <1>5, <1>7, <2>1, <2>2 DEF PoseSize
  <2>3. CASE t \in clones
    <3>1. ids[CloneVar(t)] < ids[v]
      BY <1>9, <2>1, <2>3 DEF Layout, InOrder, Variables
    <3> QED
      BY <1>4, <1>5, <1>6, <2>1, <2>3, <3>1 DEF PoseSize
  <2> QED
    BY <1>1, <2>2, <2>3
<1> QED
  BY <1>4, <1>8, <1>9 DEF Layout, InOrder

LEMMA MarginalizeKeepsLayout == ASSUME IInv, Layout, Marginalize PROVE Layout'
<1>1. ASSUME NEW G, G \subseteq Variables, MarginalizeVariables(G), clones' \subseteq clones,
             \A t \in clones' : CloneVar(t) \notin G
      PROVE  Layout'
  <2>1. ids' = CompactedIds(G) /\ cols' = cols - SizeOf(G)
    BY <1>1 DEF MarginalizeVariables
  <2>2. /\ Tiled(ids', cols') /\ DOMAIN ids' = Variables \ G
        /\ \A v, w \in Variables \ G : ids'[w] < ids'[v] <=> ids[w] < ids[v]
    BY <1>1, <2>1, TiledCompacted DEF Layout
  <2>3. \A t \in clones' : CloneVar(t) \in Variables \ G /\ t \in clones
    BY <1>1 DEF IInv, Columns, CloneVars
  <2>4. InOrder(ids', clones')
    BY <2>2, <2>3 DEF Layout, InOrder, Variables
  <2> QED
    BY <2>2, <2>4 DEF Layout
<1>2. toMarg \subseteq Variables /\ \A t : CloneVar(t) \notin toMarg
  BY Kinds DEF IInv, Columns, SlamVars
<1>3. ASSUME NEW t \in clones, clones' = clones \ {t},
             MarginalizeVariables(toMarg \cup {CloneVar(t)})
      PROVE  Layout'
  <2>1. toMarg \cup {CloneVar(t)} \subseteq Variables
    BY <1>2 DEF IInv, Columns, CloneVars
  <2>2. \A u \in clones' : CloneVar(u) \notin toMarg \cup {CloneVar(t)}
    BY <1>2, <1>3, Kinds
  <2> QED
    BY <1>1, <1>3, <2>1, <2>2
<1>4. ASSUME clones' = clones, MarginalizeVariables(toMarg)
      PROVE  Layout'
  BY <1>1, <1>2, <1>4
<1> QED
  BY <1>3, <1>4 DEF Marginalize

LEMMA DelayedInitKeepsLayout == ASSUME IInv, Layout, DelayedInit PROVE Layout'
<1> DEFINE Holds(new, order) ==
             /\ ids' = Merge(ids, Appended(cols, order))
             /\ cols' = cols + FeatSize * Cardinality(new)
<1>1. PICK new \in SUBSET (featsSlam \ Landmarks) : \E order \in Orders(new) : Holds(new, order)
  BY DEF DelayedInit
<1>2. PICK order \in Orders(new) : Holds(new, order)
  BY <1>1
<1>3. clones' = clones /\ pc = "init"
  BY DEF DelayedInit
<1>4. IsFiniteSet(new)
  BY FS_Subset, WindowAssumption DEF IInv, Types
<1>5. Variables = CloneVars(clones) \cup SlamVars(Landmarks)
  BY <1>3 DEF IInv, Columns
<1>6. DOMAIN ids \cap SlamVars(new) = {}
  BY <1>5, Kinds DEF CloneVars, SlamVars, Variables
<1>7. /\ Tiled(ids', cols') /\ DOMAIN ids' = DOMAIN ids \cup SlamVars(new)
      /\ \A v \in DOMAIN ids : ids'[v] = ids[v]
      /\ \A f \in new : ids'[SlamVar(f)] >= cols
  <2>1. LET a == Merge(ids, Appended(cols, order))
        IN  /\ Tiled(a, cols + FeatSize * Cardinality(new))
            /\ DOMAIN a = DOMAIN ids \cup SlamVars(new)
            /\ \A v \in DOMAIN ids : a[v] = ids[v]
            /\ \A f \in new : a[SlamVar(f)] >= cols
    BY <1>4, <1>6, TiledAppended DEF Layout
  <2> QED
    BY <1>2, <2>1
<1>8. /\ cols \in Nat /\ \A v \in DOMAIN ids : ids[v] \in Nat /\ ids[v] < cols
      /\ \A v \in DOMAIN ids' : ids'[v] \in Nat
  BY <1>7, TiledGives DEF Layout
<1>9. \A t \in clones : CloneVar(t) \in DOMAIN ids
  BY <1>5 DEF CloneVars, Variables
<1>10. \A t, u \in clones : t < u => ids'[CloneVar(u)] < ids'[CloneVar(t)]
  BY <1>7, <1>9 DEF Layout, InOrder
<1>11. ASSUME NEW t \in clones, NEW v \in DOMAIN ids', v[1] = "slam"
       PROVE  ids'[CloneVar(t)] < ids'[v]
  <2>1. CASE v \in DOMAIN ids
    BY <1>7, <1>9, <1>11, <2>1 DEF Layout, InOrder
  <2>2. CASE v \in SlamVars(new)
    <3>1. PICK f \in new : v = SlamVar(f)
      BY <2>2 DEF SlamVars
    <3>2. ids'[v] >= cols
      BY <1>7, <3>1
    <3> QED
      BY <1>7, <1>8, <1>9, <3>2
  <2> QED
    BY <1>7, <2>1, <2>2
<1> QED
  BY <1>3, <1>7, <1>10, <1>11 DEF Layout, InOrder

LEMMA LayoutStep == IInv /\ Layout /\ [Next]_vars => Layout'
<1> SUFFICES ASSUME IInv, Layout, [Next]_vars PROVE Layout'
  OBVIOUS
<1>1. CASE UNCHANGED <<ids, cols, clones>>
  BY <1>1 DEF Layout, Tiled, InOrder
<1>2. CASE UNCHANGED vars
  BY <1>1, <1>2 DEF vars
<1>3. ASSUME NEW t \in Times,
             OutOfOrderFrame(t) \/ RepeatedFrame(t) \/ Propagate(t) \/ ZeroVelocityUpdate(t)
      PROVE  Layout'
  BY <1>1, <1>3 DEF OutOfOrderFrame, RepeatedFrame, Propagate, PropagateThen,
                    ZeroVelocityUpdate, vars
<1>4. CASE Select \/ MarginalizeSlam \/ ChangeAnchors
  BY <1>1, <1>4 DEF Select, SelectUpTo, MarginalizeSlam, ChangeAnchors, ChangeAnchorsIf
<1> QED
  BY <1>2, <1>3, <1>4, CloneKeepsLayout, MarginalizeKeepsLayout, DelayedInitKeepsLayout
  DEF Next, Frame, Update

LEMMA LayoutInvariance == Spec => []Layout
<1>1. Layout /\ IInv /\ [Next]_vars => Layout'
  BY LayoutStep
<1> QED
  BY <1>1, LayoutInit, Invariance, PTL DEF Spec

(* The clones and landmarks tile U_ behind the core, newest clone first and *)
(* landmarks last, after any sequence of clones, marginalisations and       *)
(* delayed initialisations (StateHelper::clone, marginalize,                *)
(* initialize_slam_in_U).                                                   *)
THEOREM LayoutStaysTiled == Spec => []LayoutTiles
<1>1. IInv /\ Layout => LayoutTiles
  <2> SUFFICES ASSUME IInv, Layout PROVE LayoutTiles
    OBVIOUS
  <2>1. \A t \in clones, f \in Landmarks : ids[CloneVar(t)] < ids[SlamVar(f)]
    <3> TAKE t \in clones, f \in Landmarks
    <3>1. SlamVar(f) \in DOMAIN ids /\ SlamVar(f)[1] = "slam"
      BY Kinds DEF IInv, Columns, SlamVars, Variables
    <3> QED
      BY <3>1 DEF Layout, InOrder
  <2> QED
    BY <2>1 DEF Layout, Tiled, Before, InOrder, LayoutTiles, Variables
<1> QED
  BY <1>1, LayoutInvariance, Invariance, PTL

(* The anchor change of an over-full window finds the clone it anchors to   *)
(* in front, and reads no row of U_ that is not there.                      *)
THEOREM AnchorChangesFit == Spec => []AnchorChangeFits
<1>1. IInv /\ Layout => AnchorChangeFits
  <2> SUFFICES ASSUME IInv, Layout, pc = "anchors", OverFull
               PROVE  /\ CloneVar(timestamp) \in Variables
                      /\ ids[CloneVar(timestamp)] = CoreSize
                      /\ \A v \in Variables : ImuSize + ids[v] + Size(v) - PoseSize <= rows
    BY DEF AnchorChangeFits
  <2>1. rows = cols - PoseSize + ImuSize
    BY DEF IInv, Shape
  <2>2. timestamp \in clones /\ timestamp \in Nat /\ clones \subseteq Nat
        /\ \A t \in clones : t <= timestamp
    BY DEF IInv, WindowOrdered, Types
  <2>3. CloneVar(timestamp) \in Variables
    BY <2>2 DEF IInv, Columns, CloneVars
  <2>4. ASSUME NEW v \in Variables PROVE ~(ids[v] < ids[CloneVar(timestamp)])
    <3>1. ids[v] \in Nat /\ ids[CloneVar(timestamp)] \in Nat
      BY <2>3, TiledGives DEF Layout, Variables
    <3>2. CASE v[1] = "slam"
      BY <2>2, <3>1, <3>2 DEF Layout, InOrder, Variables
    <3>3. CASE v[1] # "slam"
      <4>1. PICK t \in clones : v = CloneVar(t)
        BY <3>3, Kinds DEF IInv, Columns, CloneVars, SlamVars
      <4>2. t = timestamp \/ t < timestamp
        BY <2>2
      <4>3. t < timestamp => ids[CloneVar(timestamp)] < ids[v]
        BY <2>2, <4>1 DEF Layout, InOrder
      <4> QED
        BY <3>1, <4>1, <4>2, <4>3
    <3> QED
      BY <3>2, <3>3
  <2>5. ids[CloneVar(timestamp)] = CoreSize
    <3>1. Before(ids, CloneVar(timestamp)) = {}
      BY <2>4 DEF Before, Variables
    <3>2. SizeOf({}) = 0
      BY FS_EmptySet DEF SizeOf, PoseSize, FeatSize
    <3>3. ids[CloneVar(timestamp)] = CoreSize + SizeOf({})
      BY <2>3, <3>1 DEF Layout, Tiled, Variables
    <3> QED
      BY <3>2, <3>3, WindowAssumption
  <2>6. ASSUME NEW v \in Variables
        PROVE  ImuSize + ids[v] + Size(v) - PoseSize <= rows
    <3>1. ids[v] \in Nat /\ ids[v] + Size(v) <= cols /\ cols \in Nat
      BY TiledGives DEF Layout, Variables
    <3>2. Size(v) \in Nat
      BY DEF Size, PoseSize, FeatSize
    <3> QED
      BY <2>1, <3>1, <3>2 DEF PoseSize, ImuSize
  <2> QED
    BY <2>3, <2>5, <2>6
<1> QED
  BY <1>1, LayoutInvariance, Invariance, PTL

-----------------------------------------------------------------------------
(***************************************************************************)
(* The ring of camera poses: without zero velocity updates, which take a   *)
(* slot for a time that never becomes a clone, two live clones never share *)
(* a slot, for every window size.  The argument is the age of a slot: how  *)
(* many slots were handed out since, the youngest having age one.          *)
(***************************************************************************)

(* Ages of the slots, when next is the one handed out next *)
Age(next, s) == IF next > s THEN next - s ELSE next - s + RingSize

(* The clones, and the time that is about to become one *)
Window == clones \cup (IF pc = "clone" THEN {timestamp} ELSE {})

SlotAge(t) == Age(poses.next, poses.slotOf[t])

(* In the window a younger time has a younger slot, and no slot is older    *)
(* than there are times in the window; no entry is younger than the state.  *)
Ring ==
  /\ \A t \in DOMAIN poses.slotOf : t \in Nat /\ t <= timestamp
  /\ \A t \in Window : SlotAge(t) <= Cardinality(Window)
  /\ \A t, u \in Window : t < u => SlotAge(u) < SlotAge(t)

-----------------------------------------------------------------------------
(* Lemmas about ages *)

LEMMA SlotsAre == RingSize \in Nat /\ RingSize >= 3 /\ Buf!Slots = 0 .. RingSize - 1
BY WindowAssumption DEF RingSize, Buf!Slots

(* The slot just handed out has age one ... *)
LEMMA AgeOfNewest ==
  ASSUME NEW n \in Buf!Slots
  PROVE  Age((n + 1) % RingSize, n) = 1
<1>1. n \in Int /\ 0 <= n /\ n <= RingSize - 1 /\ RingSize \in Nat /\ RingSize >= 3
  BY SlotsAre
<1> HIDE DEF RingSize
<1>2. CASE n = RingSize - 1
  <2>1. (n + 1) % RingSize = 0
    BY <1>1, <1>2
  <2> QED
    BY <1>1, <1>2, <2>1 DEF Age
<1>3. CASE n < RingSize - 1
  <2>1. (n + 1) % RingSize = n + 1
    BY <1>1, <1>3
  <2> QED
    BY <1>1, <2>1 DEF Age
<1> QED
  BY <1>1, <1>2, <1>3

(* ... and every other one is older by one, until its turn comes again. *)
LEMMA AgeGrows ==
  ASSUME NEW n \in Buf!Slots, NEW s \in Buf!Slots, Age(n, s) < RingSize
  PROVE  Age((n + 1) % RingSize, s) = Age(n, s) + 1
<1>1. /\ n \in Int /\ 0 <= n /\ n <= RingSize - 1
      /\ s \in Int /\ 0 <= s /\ s <= RingSize - 1
      /\ RingSize \in Nat /\ RingSize >= 3
  BY SlotsAre
<1> HIDE DEF RingSize
<1>2. n # s
  BY <1>1 DEF Age
<1>3. CASE n = RingSize - 1
  <2>1. (n + 1) % RingSize = 0
    BY <1>1, <1>3
  <2> QED
    BY <1>1, <1>2, <1>3, <2>1 DEF Age
<1>4. CASE n < RingSize - 1
  <2>1. (n + 1) % RingSize = n + 1
    BY <1>1, <1>4
  <2> QED
    BY <1>1, <1>2, <1>4, <2>1 DEF Age
<1> QED
  BY <1>1, <1>3, <1>4

LEMMA AgeType ==
  ASSUME NEW n \in Buf!Slots, NEW s \in Buf!Slots
  PROVE  Age(n, s) \in 1 .. RingSize
<1>1. /\ n \in Int /\ 0 <= n /\ n <= RingSize - 1
      /\ s \in Int /\ 0 <= s /\ s <= RingSize - 1 /\ RingSize \in Nat
  BY SlotsAre
<1> HIDE DEF RingSize
<1> QED
  BY <1>1 DEF Age

-----------------------------------------------------------------------------
(* The window is finite, cached, of natural times, and smaller than the ring *)
LEMMA WindowFits ==
  ASSUME IInv
  PROVE  /\ IsFiniteSet(Window) /\ Cardinality(Window) \in Nat
         /\ Window \subseteq DOMAIN poses.slotOf /\ Window \subseteq Nat
         /\ pc = "idle" => Window = clones /\ Cardinality(Window) < RingSize
<1>1. /\ timestamp \in Nat /\ clones \subseteq Nat /\ IsFiniteSet(clones)
  BY DEF IInv, Types
<1>2. IsFiniteSet(Window)
  <2>1. IsFiniteSet({timestamp}) /\ IsFiniteSet({})
    BY FS_Singleton, FS_EmptySet
  <2> QED
    BY <1>1, <2>1, FS_Union DEF Window
<1>3. Window \subseteq DOMAIN poses.slotOf
  BY DEF IInv, ClonesCached, WindowOrdered, Buf!Cached, Window
<1>4. ASSUME pc = "idle"
      PROVE  Window = clones /\ Cardinality(Window) < RingSize
  <2>1. Window = clones /\ ~OverFull
    BY <1>4 DEF IInv, WindowOrdered, Window
  <2>2. Cardinality(clones) \in Nat
    BY <1>1, FS_CardinalityType
  <2> QED
    BY <2>1, <2>2, WindowAssumption DEF OverFull, RingSize
<1> QED
  BY <1>1, <1>2, <1>3, <1>4, FS_CardinalityType DEF Window

LEMMA RingImpliesOwnSlot ==
  ASSUME IInv, Ring
  PROVE  ClonesOwnSlot
<1> SUFFICES ASSUME NEW t \in clones, NEW u \in clones,
                    poses.slotOf[t] = poses.slotOf[u], t # u
             PROVE  FALSE
  BY DEF ClonesOwnSlot, Buf!OwnSlot
<1>1. t \in Window /\ u \in Window /\ t \in Nat /\ u \in Nat
  BY WindowFits DEF Window
<1>2. SlotAge(t) = SlotAge(u)
  BY DEF SlotAge
<1>3. SlotAge(t) \in 1 .. RingSize
  <2>1. poses.slotOf[t] \in Buf!Slots /\ poses.next \in Buf!Slots
    BY <1>1, WindowFits DEF IInv, Types, IsRing
  <2> QED
    BY <2>1, AgeType DEF SlotAge
<1>4. t < u \/ u < t
  BY <1>1
<1> QED
  BY <1>1, <1>2, <1>3, <1>4, SlotsAre DEF Ring

-----------------------------------------------------------------------------
LEMMA RingInit ==
  ASSUME InitRetried = FALSE
  PROVE  Init => Ring
<1> SUFFICES ASSUME Init PROVE Ring
  OBVIOUS
<1>1. IInv /\ timestamp = 0 /\ pc = "idle" /\ Window = clones
  BY InitEstablishes DEF Init, InitIdle, Window
<1>2. CASE InitStatic
  <2>1. clones = {} /\ poses = Buf!AddTimestamp(Buf!EmptyBuffer, 0)
    BY <1>2 DEF InitStatic
  <2>2. IsRing(Buf!EmptyBuffer) /\ DOMAIN Buf!EmptyBuffer.slotOf = {}
    BY SlotsAre DEF Buf!EmptyBuffer, IsRing
  <2>3. DOMAIN poses.slotOf = {0}
    BY <2>1, <2>2, RingAdd
  <2> QED
    BY <1>1, <2>1, <2>3 DEF Ring
<1>3. CASE InitDynamic
  <2>1. clones = {0}
    BY <1>3 DEF InitDynamic
  <2>2. PICK s \in Buf!Slots :
          poses = [slotOf |-> [t \in {0} |-> s], next |-> (s + 1) % RingSize]
    BY <1>3 DEF InitDynamic
  <2>3. /\ poses.next = (s + 1) % RingSize /\ DOMAIN poses.slotOf = {0}
        /\ poses.slotOf[0] = s
    BY <2>2
  <2>4. Age(poses.next, s) = 1
    BY <2>3, AgeOfNewest
  <2>5. SlotAge(0) = 1
    BY <2>3, <2>4 DEF SlotAge
  <2>6. Cardinality(Window) = 1
    BY <1>1, <2>1, FS_Singleton
  <2> QED
    BY <1>1, <2>1, <2>3, <2>5, <2>6 DEF Ring
<1> QED
  BY <1>2, <1>3 DEF Init

LEMMA RingUnchanged ==
  ASSUME Ring, UNCHANGED <<poses, timestamp>>, Window' = Window
  PROVE  Ring'
BY DEF Ring, SlotAge

(* A new time takes the next slot; everything in the window is a turn older. *)
LEMMA PropagateKeepsRing ==
  ASSUME IInv, Ring, NEW t \in Times, Propagate(t)
  PROVE  Ring'
<1>1. /\ pc = "idle" /\ pc' = "clone" /\ timestamp' = t /\ t > timestamp
      /\ clones' = clones /\ poses' = Buf!AddTimestamp(poses, t)
  BY DEF Propagate, PropagateThen
<1>2. t \in Nat /\ timestamp \in Nat
  BY WindowAssumption DEF IInv, Types
<1>3. t \notin DOMAIN poses.slotOf
  <2>1. \A u \in DOMAIN poses.slotOf : u \in Nat /\ u <= timestamp
    BY DEF Ring
  <2> QED
    BY <1>1, <1>2, <2>1
<1>4. /\ DOMAIN poses'.slotOf = DOMAIN poses.slotOf \cup {t}
      /\ poses'.next = (poses.next + 1) % RingSize
      /\ poses'.slotOf[t] = poses.next
      /\ \A u \in DOMAIN poses.slotOf : poses'.slotOf[u] = poses.slotOf[u]
  BY <1>1, <1>3 DEF Buf!AddTimestamp
<1>5. /\ IsFiniteSet(Window) /\ Cardinality(Window) \in Nat
      /\ Window \subseteq DOMAIN poses.slotOf /\ Window \subseteq Nat
      /\ Window = clones /\ Cardinality(Window) < RingSize
  BY <1>1, WindowFits
<1>6. Window' = Window \cup {t} /\ t \notin Window
  BY <1>1, <1>3, <1>5 DEF Window
<1>7. Cardinality(Window') = Cardinality(Window) + 1
  BY <1>5, <1>6, FS_AddElement
<1>8. SlotAge(t)' = 1
  <2>1. Age((poses.next + 1) % RingSize, poses.next) = 1
    BY AgeOfNewest DEF IInv, Types, IsRing
  <2> QED
    BY <1>4, <2>1 DEF SlotAge
<1>9. ASSUME NEW u \in Window
      PROVE  /\ SlotAge(u) \in 1 .. RingSize
             /\ SlotAge(u)' = SlotAge(u) + 1
  <2>1. poses.slotOf[u] \in Buf!Slots /\ poses.next \in Buf!Slots
    BY <1>5 DEF IInv, Types, IsRing
  <2>2. SlotAge(u) \in 1 .. RingSize
    BY <2>1, AgeType DEF SlotAge
  <2>3. SlotAge(u) <= Cardinality(Window)
    BY DEF Ring
  <2>4. SlotAge(u) < RingSize
    BY <1>5, <2>2, <2>3, SlotsAre
  <2>5. Age((poses.next + 1) % RingSize, poses.slotOf[u]) = SlotAge(u) + 1
    BY <2>1, <2>4, AgeGrows DEF SlotAge
  <2>6. SlotAge(u)' = Age((poses.next + 1) % RingSize, poses.slotOf[u])
    BY <1>4, <1>5 DEF SlotAge
  <2> QED
    BY <2>2, <2>5, <2>6
<1>10. \A u \in DOMAIN poses'.slotOf : u \in Nat /\ u <= timestamp'
  <2>1. \A u \in DOMAIN poses.slotOf : u \in Nat /\ u <= timestamp
    BY DEF Ring
  <2> QED
    BY <1>1, <1>2, <1>4, <2>1
<1>11. \A u \in Window' : SlotAge(u)' <= Cardinality(Window')
  <2>1. \A u \in Window : SlotAge(u) <= Cardinality(Window)
    BY DEF Ring
  <2>2. \A u \in Window : SlotAge(u)' <= Cardinality(Window) + 1
    BY <1>5, <1>9, <2>1, SlotsAre
  <2> QED
    BY <1>5, <1>6, <1>7, <1>8, <2>2
<1>12. ASSUME NEW u \in Window', NEW v \in Window', u < v
       PROVE  SlotAge(v)' < SlotAge(u)'
  <2>1. \A w \in Window : w < t
    BY <1>1, <1>2, <1>5 DEF Ring
  <2>2. u \in Window
    BY <1>2, <1>5, <1>6, <1>12, <2>1
  <2>3. CASE v = t
    BY <1>8, <1>9, <2>2, <2>3, SlotsAre
  <2>4. CASE v \in Window
    <3>1. SlotAge(v) < SlotAge(u)
      BY <1>12, <2>2, <2>4 DEF Ring
    <3> QED
      BY <1>9, <2>2, <2>4, <3>1, SlotsAre
  <2> QED
    BY <1>6, <2>3, <2>4
<1> QED
  BY <1>10, <1>11, <1>12 DEF Ring

(* The oldest slot is the oldest clone's: it is the one that goes. *)
LEMMA MarginalizeKeepsRing ==
  ASSUME IInv, Ring, Marginalize
  PROVE  Ring'
<1>1. pc = "marg" /\ pc' = "init" /\ timestamp' = timestamp
  BY DEF Marginalize
<1>2. Window = clones /\ Window' = clones'
  BY <1>1 DEF Window
<1>3. CASE UNCHANGED <<clones, poses>>
  BY <1>1, <1>2, <1>3, RingUnchanged
<1>4. ASSUME NEW t \in clones, IsOldest(t), clones' = clones \ {t},
             poses' = Buf!RemoveTimestamp(poses, t)
      PROVE  Ring'
  <2>1. /\ IsFiniteSet(Window) /\ Cardinality(Window) \in Nat
        /\ Window \subseteq DOMAIN poses.slotOf /\ Window \subseteq Nat
    BY WindowFits
  <2>2. Cardinality(Window') = Cardinality(Window) - 1
    BY <1>2, <1>4, <2>1, FS_RemoveElement
  <2>3. /\ DOMAIN poses'.slotOf = DOMAIN poses.slotOf \ {t}
        /\ poses'.next = poses.next
        /\ \A u \in DOMAIN poses'.slotOf : poses'.slotOf[u] = poses.slotOf[u]
    BY <1>4 DEF Buf!RemoveTimestamp, Buf!Restrict, IInv, Types, IsRing
  <2>4. \A u \in Window' : u \in Window /\ u # t /\ SlotAge(u)' = SlotAge(u)
    BY <1>2, <1>4, <2>1, <2>3 DEF SlotAge
  <2>5. ASSUME NEW u \in Window' PROVE SlotAge(u) <= Cardinality(Window')
    <3>1. t < u /\ t \in Window
      BY <1>2, <1>4, <2>1, <2>4 DEF IsOldest
    <3>2. SlotAge(u) < SlotAge(t) /\ SlotAge(t) <= Cardinality(Window)
      BY <2>4, <3>1 DEF Ring
    <3>3. SlotAge(u) \in 1 .. RingSize /\ SlotAge(t) \in 1 .. RingSize
      <4>1. /\ poses.slotOf[u] \in Buf!Slots /\ poses.slotOf[t] \in Buf!Slots
            /\ poses.next \in Buf!Slots
        BY <2>1, <2>4, <3>1 DEF IInv, Types, IsRing
      <4> QED
        BY <4>1, AgeType DEF SlotAge
    <3> QED
      BY <2>1, <2>2, <3>2, <3>3, SlotsAre
  <2>6. \A u \in DOMAIN poses'.slotOf : u \in Nat /\ u <= timestamp'
    BY <1>1, <2>3 DEF Ring
  <2>7. \A u, v \in Window' : u < v => SlotAge(v)' < SlotAge(u)'
    BY <2>4 DEF Ring
  <2> QED
    BY <2>4, <2>5, <2>6, <2>7 DEF Ring
<1> QED
  BY <1>3, <1>4 DEF Marginalize

(* With a clone that starts with the youngest slot, and without zero        *)
(* velocity updates, every time that takes a slot becomes a                 *)
(* clone before the next one does, so that no live clone loses its slot     *)
(* (CameraPoseBuffer::add_timestamp never looks whether a slot is free).    *)
THEOREM SlotsStayOwned ==
  ASSUME TryZupt = FALSE, InitRetried = FALSE
  PROVE  Spec => []ClonesOwnSlot
<1>1. IInv /\ Ring /\ [Next]_vars => Ring'
  <2> SUFFICES ASSUME IInv, Ring, [Next]_vars PROVE Ring'
    OBVIOUS
  <2>1. ASSUME NEW t \in Times, RepeatedFrame(t) PROVE Ring'
    <3>1. Window' = Window
      BY <2>1 DEF RepeatedFrame, Gate, Window
    <3> QED
      BY <2>1, <3>1, RingUnchanged DEF RepeatedFrame
  <2>2. ASSUME NEW t \in Times, Propagate(t) PROVE Ring'
    BY <2>2, PropagateKeepsRing
  <2>3. ASSUME NEW t \in Times, ZeroVelocityUpdate(t) PROVE FALSE
    BY <2>3 DEF ZeroVelocityUpdate
  <2>4. CASE Clone
    <3>1. Window' = Window
      BY <2>4 DEF Clone, Gate, Window
    <3> QED
      BY <2>4, <3>1, RingUnchanged DEF Clone
  <2>5. CASE Select \/ MarginalizeSlam \/ ChangeAnchors \/ DelayedInit
    <3>1. Window' = Window /\ UNCHANGED <<poses, timestamp>>
      BY <2>5 DEF Select, SelectUpTo, MarginalizeSlam, ChangeAnchors, ChangeAnchorsIf,
                  DelayedInit, Window
    <3> QED
      BY <3>1, RingUnchanged
  <2>6. CASE Marginalize
    BY <2>6, MarginalizeKeepsRing
  <2>7. CASE UNCHANGED vars
    <3>1. Window' = Window /\ UNCHANGED <<poses, timestamp>>
      BY <2>7 DEF vars, Window
    <3> QED
      BY <3>1, RingUnchanged
  <2> QED
    BY <2>1, <2>2, <2>3, <2>4, <2>5, <2>6, <2>7 DEF Next, Frame, Update, OutOfOrderFrame
<1>2. IInv /\ Ring => ClonesOwnSlot
  BY RingImpliesOwnSlot
<1> QED
  BY <1>1, <1>2, RingInit, Invariance, PTL DEF Spec
=============================================================================
