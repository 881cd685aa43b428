--------------------------- MODULE VioLayoutProofs ---------------------------
(***************************************************************************)
(* The layout of the baseline estimator's covariance: its blocks tile the  *)
(* rows behind the calibration, whatever order they come and go in.        *)
(***************************************************************************)
EXTENDS VioManagerProofs

CloneVars(T) == {CloneVar(t) : t \in T}
SlamVars(L)  == {SlamVar(f) : f \in L}

-----------------------------------------------------------------------------
(* Lemmas about the rows a set of blocks takes *)

LEMMA RowsNatural ==
  ASSUME NEW V, IsFiniteSet(V)
  PROVE  SizeOf(V) \in Nat
<1>1. /\ IsFiniteSet({v \in V : v[1] = "clone"})
      /\ IsFiniteSet({v \in V : v[1] = "slam"})
  BY FS_Subset
<1> QED
  BY <1>1, FS_CardinalityType DEF SizeOf, PoseSize, FeatSize

(* Blocks that leave take their own rows with them, no more. *)
LEMMA RowsWithout ==
  ASSUME NEW V, IsFiniteSet(V), NEW G, G \subseteq V
  PROVE  SizeOf(V \ G) = SizeOf(V) - SizeOf(G) /\ SizeOf(G) \in Nat /\ SizeOf(V \ G) \in Nat
<1> DEFINE Count(S, k) == Cardinality({v \in S : v[1] = k})
<1>1. ASSUME NEW k
      PROVE  /\ Count(V, k) = Count(V \ G, k) + Count(G, k)
             /\ Count(V \ G, k) \in Nat /\ Count(G, k) \in Nat
  <2> DEFINE A == {v \in V \ G : v[1] = k}
             B == {v \in G : v[1] = k}
  <2>1. IsFiniteSet(A) /\ IsFiniteSet(B)
    BY FS_Subset
  <2>2. {v \in V : v[1] = k} = A \cup B /\ A \cap B = {}
    OBVIOUS
  <2> HIDE DEF A, B
  <2>3. Cardinality(A \cup B) = Cardinality(A) + Cardinality(B) - Cardinality(A \cap B)
    BY <2>1, FS_Union
  <2>4. Cardinality(A \cap B) = 0 /\ Cardinality(A) \in Nat /\ Cardinality(B) \in Nat
    BY <2>1, <2>2, FS_EmptySet, FS_CardinalityType
  <2>5. Count(V, k) = Cardinality(A \cup B) /\ Count(V \ G, k) = Cardinality(A)
        /\ Count(G, k) = Cardinality(B)
    BY <2>2 DEF A, B
  <2> HIDE DEF Count
  <2> QED
    BY <2>3, <2>4, <2>5
<1>2. \A S : SizeOf(S) = 6 * Count(S, "clone") + 3 * Count(S, "slam")
  BY DEF SizeOf, PoseSize, FeatSize
<1> HIDE DEF Count
<1>3. /\ SizeOf(V) = 6 * Count(V, "clone") + 3 * Count(V, "slam")
      /\ SizeOf(G) = 6 * Count(G, "clone") + 3 * Count(G, "slam")
      /\ SizeOf(V \ G) = 6 * Count(V \ G, "clone") + 3 * Count(V \ G, "slam")
  BY <1>2
<1>4. /\ Count(V, "clone") = Count(V \ G, "clone") + Count(G, "clone")
      /\ Count(V \ G, "clone") \in Nat /\ Count(G, "clone") \in Nat
  BY <1>1
<1>5. /\ Count(V, "slam") = Count(V \ G, "slam") + Count(G, "slam")
      /\ Count(V \ G, "slam") \in Nat /\ Count(G, "slam") \in Nat
  BY <1>1
<1> QED
  BY <1>3, <1>4, <1>5

LEMMA RowsMonotone ==
  ASSUME NEW V, IsFiniteSet(V), NEW G, G \subseteq V
  PROVE  SizeOf(G) <= SizeOf(V)
<1>1. SizeOf(V \ G) = SizeOf(V) - SizeOf(G) /\ SizeOf(G) \in Nat /\ SizeOf(V \ G) \in Nat
  BY RowsWithout
<1>2. SizeOf(V) \in Nat
  BY RowsNatural
<1> QED
  BY <1>1, <1>2

LEMMA RowsOfOne ==
  ASSUME NEW v, v[1] \in {"clone", "slam"}
  PROVE  SizeOf({v}) = Size(v) /\ Size(v) \in Nat /\ Size(v) > 0
<1>1. CASE v[1] = "clone"
  <2>1. {w \in {v} : w[1] = "clone"} = {v} /\ {w \in {v} : w[1] = "slam"} = {}
    BY <1>1
  <2>2. Cardinality({v}) = 1 /\ Cardinality({}) = 0
    BY FS_Singleton, FS_EmptySet
  <2> QED
    BY <1>1, <2>1, <2>2 DEF SizeOf, Size, PoseSize, FeatSize
<1>2. CASE v[1] = "slam"
  <2>1. {w \in {v} : w[1] = "clone"} = {} /\ {w \in {v} : w[1] = "slam"} = {v}
    BY <1>2
  <2>2. Cardinality({v}) = 1 /\ Cardinality({}) = 0
    BY FS_Singleton, FS_EmptySet
  <2> QED
    BY <1>2, <2>1, <2>2 DEF SizeOf, Size, PoseSize, FeatSize
<1> QED
  BY <1>1, <1>2

LEMMA RowsWith ==
  ASSUME NEW V, IsFiniteSet(V), NEW v, v \notin V, v[1] \in {"clone", "slam"}
  PROVE  SizeOf(V \cup {v}) = SizeOf(V) + Size(v)
<1>1. IsFiniteSet(V \cup {v}) /\ {v} \subseteq V \cup {v} /\ (V \cup {v}) \ {v} = V
  BY FS_AddElement
<1>2. SizeOf((V \cup {v}) \ {v}) = SizeOf(V \cup {v}) - SizeOf({v}) /\ SizeOf(V \cup {v}) \in Nat
  BY <1>1, RowsWithout, RowsNatural
<1>3. SizeOf({v}) = Size(v) /\ Size(v) \in Nat
  BY RowsOfOne
<1>4. SizeOf(V) = SizeOf(V \cup {v}) - Size(v)
  BY <1>1, <1>2, <1>3
<1> QED
  BY <1>2, <1>3, <1>4

-----------------------------------------------------------------------------
(* A map from blocks to their first rows that leaves no gap and no overlap. *)
Before(m, v) == {w \in DOMAIN m : m[w] < m[v]}

Dense(m, r) ==
  /\ IsFiniteSet(DOMAIN m) /\ \A v \in DOMAIN m : v[1] \in {"clone", "slam"}
  /\ r = CoreSize + SizeOf(DOMAIN m)
  /\ \A v \in DOMAIN m : m[v] = CoreSize + SizeOf(Before(m, v))
  /\ \A v, w \in DOMAIN m : v # w => m[v] # m[w]

LEMMA DenseTypes ==
  ASSUME NEW m, NEW r, Dense(m, r)
  PROVE  /\ r \in Nat /\ \A v \in DOMAIN m : m[v] \in Nat /\ m[v] < r
         /\ \A v, w \in DOMAIN m : v # w => m[v] < m[w] \/ m[w] < m[v]
<1>1. CoreSize \in Nat /\ SizeOf(DOMAIN m) \in Nat
  BY VioAssumption, RowsNatural DEF Dense
<1>2. ASSUME NEW v \in DOMAIN m PROVE m[v] \in Nat /\ m[v] < r
  <2>1. Before(m, v) \subseteq DOMAIN m /\ IsFiniteSet(Before(m, v))
    BY FS_Subset DEF Before, Dense
  <2>2. SizeOf(Before(m, v)) \in Nat /\ m[v] = CoreSize + SizeOf(Before(m, v))
    BY <2>1, RowsNatural DEF Dense
  <2>3. m[v] \in Nat
    BY <1>1, <2>2
  <2>4. v \notin Before(m, v)
    BY <2>3 DEF Before
  <2>5. SizeOf(Before(m, v) \cup {v}) = SizeOf(Before(m, v)) + Size(v)
    BY <2>1, <2>4, RowsWith DEF Dense
  <2>6. SizeOf(Before(m, v) \cup {v}) <= SizeOf(DOMAIN m)
    BY <2>1, RowsMonotone DEF Dense
  <2>7. SizeOf({v}) = Size(v) /\ Size(v) \in Nat /\ Size(v) > 0
    <3>1. v[1] \in {"clone", "slam"}
      BY DEF Dense
    <3> QED
      BY <3>1, RowsOfOne
  <2> QED
    BY <1>1, <2>2, <2>3, <2>5, <2>6, <2>7 DEF Dense
<1>3. r \in Nat
  BY <1>1 DEF Dense
<1>4. ASSUME NEW v \in DOMAIN m, NEW w \in DOMAIN m, v # w
      PROVE  m[v] < m[w] \/ m[w] < m[v]
  BY <1>2, <1>4 DEF Dense
<1> QED
  BY <1>2, <1>3, <1>4

(* A block appended at the end keeps the map dense. *)
LEMMA DenseAppended ==
  ASSUME Dense(ids, rows), NEW v, v \notin DOMAIN ids, v[1] \in {"clone", "slam"}
  PROVE  Dense(Appended(v), rows + Size(v)) /\ DOMAIN Appended(v) = DOMAIN ids \cup {v}
<1> DEFINE m == Appended(v)
<1>1. DOMAIN m = DOMAIN ids \cup {v} /\ m[v] = rows /\ \A w \in DOMAIN ids : m[w] = ids[w]
  BY DEF Appended
<1>2. rows \in Nat /\ \A w \in DOMAIN ids : ids[w] \in Nat /\ ids[w] < rows
  BY DenseTypes
<1> HIDE DEF m
<1>3. Before(m, v) = DOMAIN ids
  BY <1>1, <1>2 DEF Before
<1>4. \A w \in DOMAIN ids : Before(m, w) = Before(ids, w)
  <2> TAKE w \in DOMAIN ids
  <2>1. ~(m[v] < m[w])
    BY <1>1, <1>2
  <2> QED
    BY <1>1, <2>1 DEF Before
<1>5. \A w \in DOMAIN m : m[w] = CoreSize + SizeOf(Before(m, w))
  <2> TAKE w \in DOMAIN m
  <2>1. CASE w = v
    BY <1>1, <1>3, <2>1 DEF Dense
  <2>2. CASE w \in DOMAIN ids
    BY <1>1, <1>4, <2>2 DEF Dense
  <2> QED
    BY <1>1, <2>1, <2>2
<1>6. \A u, w \in DOMAIN m : u # w => m[u] # m[w]
  <2> TAKE u, w \in DOMAIN m
  <2>1. CASE u \in DOMAIN ids /\ w \in DOMAIN ids
    BY <1>1, <2>1 DEF Dense
  <2>2. CASE u = v \/ w = v
    BY <1>1, <1>2, <2>2
  <2> QED
    BY <1>1, <2>1, <2>2
<1>7. rows + Size(v) = CoreSize + SizeOf(DOMAIN m)
  <2>1. SizeOf(DOMAIN m) = SizeOf(DOMAIN ids) + Size(v)
    BY <1>1, RowsWith DEF Dense
  <2>2. CoreSize \in Nat /\ SizeOf(DOMAIN ids) \in Nat
    BY VioAssumption, RowsNatural DEF Dense
  <2>3. SizeOf({v}) = Size(v) /\ Size(v) \in Nat
    BY RowsOfOne
  <2> QED
    BY <2>1, <2>2, <2>3 DEF Dense
<1>8. IsFiniteSet(DOMAIN m) /\ \A w \in DOMAIN m : w[1] \in {"clone", "slam"}
  BY <1>1, FS_AddElement DEF Dense
<1> QED
  BY <1>1, <1>5, <1>6, <1>7, <1>8 DEF Dense, m

(* So does closing up behind the blocks that leave. *)
LEMMA DenseMarginalized ==
  ASSUME Dense(ids, rows), NEW gone, gone \subseteq DOMAIN ids
  PROVE  /\ Dense(Marginalized(gone), rows - SizeOf(gone))
         /\ DOMAIN Marginalized(gone) = DOMAIN ids \ gone
<1> DEFINE m == Marginalized(gone)
           D == DOMAIN ids \ gone
<1>1. DOMAIN m = D
  BY DEF Marginalized
<1>2. CoreSize \in Nat /\ IsFiniteSet(DOMAIN ids) /\ IsFiniteSet(D)
      /\ \A v \in DOMAIN ids : ids[v] \in Nat
  <2>1. IsFiniteSet(D)
    BY FS_Subset DEF Dense
  <2> QED
    BY <2>1, VioAssumption, DenseTypes DEF Dense
<1>3. ASSUME NEW v \in D
      PROVE  /\ m[v] = CoreSize + SizeOf(Before(ids, v) \ gone)
             /\ SizeOf(Before(ids, v) \ gone) \in Nat
  <2> DEFINE G == {g \in gone : ids[g] < ids[v]}
  <2>1. m[v] = ids[v] - SizeOf(G)
    BY DEF Marginalized
  <2>2. G \subseteq Before(ids, v) /\ Before(ids, v) \ gone = Before(ids, v) \ G
    BY DEF Before
  <2>3. IsFiniteSet(Before(ids, v))
    BY <1>2, FS_Subset DEF Before
  <2>4. ids[v] = CoreSize + SizeOf(Before(ids, v))
    BY DEF Dense
  <2> HIDE DEF G, m
  <2>5. SizeOf(Before(ids, v) \ G) = SizeOf(Before(ids, v)) - SizeOf(G)
        /\ SizeOf(G) \in Nat /\ SizeOf(Before(ids, v) \ G) \in Nat /\ SizeOf(Before(ids, v)) \in Nat
    BY <2>2, <2>3, RowsWithout, RowsNatural
  <2>6. Before(ids, v) \ gone = Before(ids, v) \ G
    BY <2>2
  <2>7. SizeOf(Before(ids, v) \ gone) = SizeOf(Before(ids, v)) - SizeOf(G)
        /\ SizeOf(Before(ids, v) \ gone) \in Nat
    BY <2>5, <2>6
  <2>8. ids[v] - SizeOf(G) = CoreSize + SizeOf(Before(ids, v) \ gone)
    BY <1>2, <2>4, <2>5, <2>7
  <2> QED
    BY <2>1, <2>7, <2>8
<1> HIDE DEF m
<1>4. ASSUME NEW v \in D, NEW w \in D, ids[w] < ids[v]
      PROVE  m[w] < m[v]
  <2> DEFINE A == Before(ids, w) \ gone
             B == Before(ids, v) \ gone
  <2>1. IsFiniteSet(B) /\ IsFiniteSet(A)
    BY <1>2, FS_Subset DEF Before
  <2>2. w \notin A /\ A \cup {w} \subseteq B
    BY <1>2, <1>4 DEF Before
  <2>3. m[w] = CoreSize + SizeOf(A) /\ m[v] = CoreSize + SizeOf(B)
        /\ SizeOf(A) \in Nat /\ SizeOf(B) \in Nat
    BY <1>3
  <2>4. w[1] \in {"clone", "slam"}
    BY DEF Dense
  <2> HIDE DEF A, B
  <2>5. SizeOf(A \cup {w}) = SizeOf(A) + Size(w)
    BY <2>1, <2>2, <2>4, RowsWith
  <2>6. SizeOf(A \cup {w}) <= SizeOf(B)
    BY <2>1, <2>2, RowsMonotone
  <2>7. SizeOf({w}) = Size(w) /\ Size(w) \in Nat /\ Size(w) > 0
    <3> HIDE DEF D
    <3> QED
      BY <2>4, RowsOfOne
  <2> QED
    BY <1>2, <2>3, <2>5, <2>6, <2>7
<1>5. \A v \in D : m[v] \in Nat
  <2> TAKE v \in D
  <2>1. m[v] = CoreSize + SizeOf(Before(ids, v) \ gone) /\ SizeOf(Before(ids, v) \ gone) \in Nat
    BY <1>3
  <2> QED
    BY <1>2, <2>1
<1>6. \A v, w \in D : v # w => ids[v] < ids[w] \/ ids[w] < ids[v]
  BY DenseTypes
<1>7. \A v, w \in D : v # w => m[v] # m[w]
  BY <1>4, <1>5, <1>6
<1>8. \A v, w \in D : m[w] < m[v] <=> ids[w] < ids[v]
  <2> TAKE v, w \in D
  <2>1. CASE v = w
    BY <1>2, <1>5, <2>1
  <2>2. CASE v # w
    BY <1>2, <1>4, <1>5, <1>6, <2>2
  <2> QED
    BY <2>1, <2>2
<1>9. \A v \in D : m[v] = CoreSize + SizeOf(Before(m, v))
  <2> TAKE v \in D
  <2>1. Before(m, v) = Before(ids, v) \ gone
    BY <1>1, <1>8 DEF Before
  <2> QED
    BY <1>3, <2>1
<1>10. rows - SizeOf(gone) = CoreSize + SizeOf(D)
  <2>1. SizeOf(D) = SizeOf(DOMAIN ids) - SizeOf(gone) /\ SizeOf(gone) \in Nat /\ SizeOf(D) \in Nat
        /\ SizeOf(DOMAIN ids) \in Nat
    BY <1>2, RowsWithout, RowsNatural
  <2>2. rows = CoreSize + SizeOf(DOMAIN ids)
    BY DEF Dense
  <2> HIDE DEF D
  <2> QED
    BY <1>2, <2>1, <2>2
<1> QED
  BY <1>1, <1>2, <1>7, <1>9, <1>10 DEF Dense, m

-----------------------------------------------------------------------------
(* The blocks are the state's clones and landmarks.                         *)
Layout ==
  /\ ids \in [DOMAIN ids -> Nat]
  /\ DOMAIN ids = CloneVars(clones) \cup SlamVars(DOMAIN slam)
  /\ Dense(ids, rows)

LEMMA BlockKinds ==
  /\ \A t : CloneVar(t)[1] = "clone" /\ Size(CloneVar(t)) = PoseSize
  /\ \A f : SlamVar(f)[1] = "slam" /\ Size(SlamVar(f)) = FeatSize
  /\ \A t, f : CloneVar(t) # SlamVar(f)
  /\ \A t, u : CloneVar(t) = CloneVar(u) => t = u
  /\ \A f, g : SlamVar(f) = SlamVar(g) => f = g
<1>1. /\ \A t : CloneVar(t)[1] = "clone"
      /\ \A f : SlamVar(f)[1] = "slam"
  BY DEF CloneVar, SlamVar
<1>2. /\ \A t : Size(CloneVar(t)) = PoseSize
      /\ \A f : Size(SlamVar(f)) = FeatSize
  BY <1>1 DEF Size
<1>3. \A t, f : CloneVar(t) # SlamVar(f)
  BY DEF CloneVar, SlamVar
<1>4. /\ \A t, u : CloneVar(t) = CloneVar(u) => t = u
      /\ \A f, g : SlamVar(f) = SlamVar(g) => f = g
  BY DEF CloneVar, SlamVar
<1> QED
  BY <1>1, <1>2, <1>3, <1>4

LEMMA LayoutInit == Init => Layout
<1> SUFFICES ASSUME Init PROVE Layout
  OBVIOUS
<1>1. DOMAIN ids = {} /\ ids \in [DOMAIN ids -> Nat] /\ clones = {} /\ DOMAIN slam = {}
      /\ rows = CoreSize
  BY DEF Init, InitCommon
<1>2. SizeOf({}) = 0
  <2>1. {v \in {} : v[1] = "clone"} = {} /\ {v \in {} : v[1] = "slam"} = {}
    OBVIOUS
  <2>2. Cardinality({}) = 0
    BY FS_EmptySet
  <2> QED
    BY <2>1, <2>2 DEF SizeOf, PoseSize, FeatSize
<1>3. CoreSize \in Nat
  BY VioAssumption
<1>4. CoreSize + 0 = CoreSize
  BY <1>3
<1>5. Dense(ids, rows)
  BY <1>1, <1>2, <1>4, FS_EmptySet DEF Dense
<1> QED
  BY <1>1, <1>5 DEF Layout, CloneVars, SlamVars

LEMMA CloneAppended ==
  ASSUME Layout, NEW t, t \notin clones, PropagateAndClone(t)
  PROVE  Layout'
<1>1. ids' = Appended(CloneVar(t)) /\ rows' = rows + Size(CloneVar(t))
      /\ clones' = clones \cup {t} /\ slam' = slam
  BY BlockKinds DEF PropagateAndClone
<1>2. CloneVar(t) \notin DOMAIN ids
  BY BlockKinds DEF Layout, CloneVars, SlamVars
<1>3. CloneVar(t)[1] \in {"clone", "slam"}
  BY BlockKinds
<1>4. Dense(ids, rows)
  BY DEF Layout
<1>5. Dense(Appended(CloneVar(t)), rows + Size(CloneVar(t)))
      /\ DOMAIN Appended(CloneVar(t)) = DOMAIN ids \cup {CloneVar(t)}
  BY <1>2, <1>3, <1>4, DenseAppended
<1>6. Dense(ids', rows') /\ DOMAIN ids' = DOMAIN ids \cup {CloneVar(t)}
  BY <1>1, <1>5
<1>7. \A v \in DOMAIN ids' : ids'[v] \in Nat
  BY <1>6, DenseTypes
<1>8. ids' = [v \in DOMAIN ids' |-> ids'[v]]
  BY <1>1 DEF Appended
<1>9. CloneVars(clones') = CloneVars(clones) \cup {CloneVar(t)}
  BY <1>1 DEF CloneVars
<1> QED
  BY <1>1, <1>6, <1>7, <1>8, <1>9 DEF Layout

LEMMA LandmarkAppended ==
  ASSUME Layout, NEW f, f \notin DOMAIN slam,
         ids' = Appended(SlamVar(f)), rows' = rows + FeatSize,
         clones' = clones, DOMAIN slam' = DOMAIN slam \cup {f}
  PROVE  Layout'
<1>1. rows' = rows + Size(SlamVar(f))
  BY BlockKinds
<1>2. SlamVar(f) \notin DOMAIN ids
  BY BlockKinds DEF Layout, CloneVars, SlamVars
<1>3. SlamVar(f)[1] \in {"clone", "slam"}
  BY BlockKinds
<1>4. Dense(ids, rows)
  BY DEF Layout
<1>5. Dense(Appended(SlamVar(f)), rows + Size(SlamVar(f)))
      /\ DOMAIN Appended(SlamVar(f)) = DOMAIN ids \cup {SlamVar(f)}
  BY <1>2, <1>3, <1>4, DenseAppended
<1>6. Dense(ids', rows') /\ DOMAIN ids' = DOMAIN ids \cup {SlamVar(f)}
  BY <1>1, <1>5
<1>7. \A v \in DOMAIN ids' : ids'[v] \in Nat
  BY <1>6, DenseTypes
<1>8. ids' = [v \in DOMAIN ids' |-> ids'[v]]
  BY DEF Appended
<1>9. SlamVars(DOMAIN slam') = SlamVars(DOMAIN slam) \cup {SlamVar(f)}
  BY DEF SlamVars
<1> QED
  BY <1>6, <1>7, <1>8, <1>9 DEF Layout

LEMMA BlocksRemoved ==
  ASSUME Layout, NEW gone, gone \subseteq DOMAIN ids,
         ids' = Marginalized(gone), rows' = rows - SizeOf(gone),
         DOMAIN ids \ gone = CloneVars(clones') \cup SlamVars(DOMAIN slam')
  PROVE  Layout'
<1>1. Dense(ids, rows)
  BY DEF Layout
<1>2. Dense(Marginalized(gone), rows - SizeOf(gone))
      /\ DOMAIN Marginalized(gone) = DOMAIN ids \ gone
  BY <1>1, DenseMarginalized
<1>3. Dense(ids', rows') /\ DOMAIN ids' = DOMAIN ids \ gone
  BY <1>2
<1>4. \A v \in DOMAIN ids' : ids'[v] \in Nat
  BY <1>3, DenseTypes
<1>5. ids' = [v \in DOMAIN ids' |-> ids'[v]]
  BY DEF Marginalized
<1> QED
  BY <1>3, <1>4, <1>5 DEF Layout

LEMMA OldestRemoved ==
  ASSUME Layout, StateTypes, MarginalizeOldClone, DOMAIN slam' = DOMAIN slam
  PROVE  Layout'
<1>1. CASE Overfull
  <2>1. Oldest \in clones
    BY <1>1, EmptyIsNotOverfull, OldestIs DEF StateTypes
  <2>2. PICK t \in clones : t = Oldest
    BY <2>1
  <2> HIDE DEF Oldest
  <2>3. clones' = clones \ {t} /\ ids' = Marginalized({CloneVar(t)}) /\ rows' = rows - PoseSize
    BY <1>1, <2>2 DEF MarginalizeOldClone
  <2>4. SizeOf({CloneVar(t)}) = PoseSize
    <3>1. CloneVar(t)[1] \in {"clone", "slam"} /\ Size(CloneVar(t)) = PoseSize
      BY BlockKinds
    <3>2. SizeOf({CloneVar(t)}) = Size(CloneVar(t))
      BY <3>1, RowsOfOne
    <3> QED
      BY <3>1, <3>2
  <2>5. {CloneVar(t)} \subseteq DOMAIN ids
    BY DEF Layout, CloneVars
  <2>6. DOMAIN ids \ {CloneVar(t)} = CloneVars(clones') \cup SlamVars(DOMAIN slam')
    BY <2>3, BlockKinds DEF Layout, CloneVars, SlamVars
  <2> QED
    BY <2>3, <2>4, <2>5, <2>6, BlocksRemoved
<1>2. CASE ~Overfull
  BY <1>2 DEF MarginalizeOldClone, Layout
<1> QED
  BY <1>1, <1>2

LEMMA LayoutStep ==
  Types /\ Owner /\ Timeline /\ Anchored /\ Layout /\ [Next]_vars => Layout'
<1> SUFFICES ASSUME Types, Owner, Timeline, Anchored, Layout, [Next]_vars PROVE Layout'
  OBVIOUS
<1>0. timestamp \in Nat /\ clones \subseteq Nat /\ frame.time \in Nat /\ todo \in Seq(Nat)
      /\ StateTypes /\ \A c \in clones : c <= timestamp
  BY DEF Types, StateTypes, FrameTypes, InitTypes, Timeline, NewestClone
<1>1. CASE UNCHANGED <<ids, rows, clones>> /\ DOMAIN slam' = DOMAIN slam
  BY <1>1 DEF Layout
<1>2. CASE UNCHANGED vars
  BY <1>1, <1>2 DEF vars, stateVars
<1>3. ASSUME NEW t, NEW cams, NEW survive, NEW found, Frame(t, cams, survive, found)
      PROVE  Layout'
  BY <1>1, <1>3 DEF Frame, stateVars
<1>4. CASE Zupt \/ TryToInitialize
  BY <1>1, <1>4 DEF Zupt, RepeatZupt, RefuseZupt, AcceptZupt, TryToInitialize, SeeRunning,
     Enqueue, SeeStopped, TakeOver, Launch, stateVars
<1>5. CASE InitThread
  <2>1. CASE ReplayFrame
    <3>1. tpc = "replay" /\ todo # <<>> /\ PropagateAndClone(Head(todo))
      BY <2>1 DEF ReplayFrame
    <3>2. Head(todo) = todo[1] /\ 1 \in DOMAIN todo /\ todo[1] \in Nat
      BY <1>0, <3>1
    <3>3. timestamp < Head(todo)
      BY <3>1, <3>2 DEF Timeline, Replay
    <3>4. Head(todo) \notin clones
      BY <1>0, <3>2, <3>3
    <3> QED
      BY <3>1, <3>4, CloneAppended
  <2>2. CASE ShrinkWindow
    BY <1>0, <2>2, OldestRemoved DEF ShrinkWindow
  <2>3. CASE ~ReplayFrame /\ ~ShrinkWindow
    BY <1>1, <1>5, <2>3 DEF InitThread, BeginSolve, SolveFails, ClearQueue, SolveSucceeds,
       StartReplay, Publish, ThreadExit, stateVars
  <2> QED
    BY <2>1, <2>2, <2>3
<1>6. CASE Propagate
  <2>1. CASE timestamp < frame.time
    <3>1. frame.time \notin clones
      BY <1>0, <2>1
    <3>2. PropagateAndClone(frame.time)
      BY <1>6, <2>1 DEF Propagate
    <3> QED
      BY <3>1, <3>2, CloneAppended
  <2>2. CASE ~(timestamp < frame.time)
    BY <1>1, <1>6, <2>2 DEF Propagate, stateVars
  <2> QED
    BY <2>1, <2>2
<1>7. CASE Select
  <2> DEFINE gone == {SlamVar(f) : f \in ShouldMarg}
  <2>1. clones' = clones /\ slam' = Restrict(slam, DOMAIN slam \ ShouldMarg)
        /\ ids' = Marginalized(gone) /\ rows' = rows - SizeOf(gone)
    BY <1>7 DEF Select
  <2>2. DOMAIN slam' = DOMAIN slam \ ShouldMarg /\ ShouldMarg \subseteq DOMAIN slam
    BY <2>1 DEF Restrict, ShouldMarg
  <2>3. gone \subseteq DOMAIN ids
    BY <2>2 DEF Layout, SlamVars
  <2>4. DOMAIN ids \ gone = CloneVars(clones') \cup SlamVars(DOMAIN slam')
    BY <2>1, <2>2, BlockKinds DEF Layout, CloneVars, SlamVars
  <2> HIDE DEF gone
  <2> QED
    BY <2>1, <2>3, <2>4, BlocksRemoved
<1>8. CASE MsckfUpdate \/ SlamUpdate
  BY <1>1, <1>8 DEF MsckfUpdate, SlamUpdate, stateVars
<1>9. ASSUME NEW f \in Feats, DelayedInit(f) PROVE Layout'
  <2>1. clones' = clones /\ f \notin DOMAIN slam
    BY <1>9 DEF DelayedInit, Anchored
  <2>2. CASE UNCHANGED <<slam, fails, ids, rows, used>>
    BY <1>1, <2>1, <2>2
  <2>3. CASE /\ slam' = [g \in DOMAIN slam \cup {f} |->
                           IF g = f THEN Largest(Usable(f)) ELSE slam[g]]
             /\ ids' = Appended(SlamVar(f)) /\ rows' = rows + FeatSize
    <3>1. DOMAIN slam' = DOMAIN slam \cup {f}
      BY <2>3
    <3> QED
      BY <2>1, <2>3, <3>1, LandmarkAppended
  <2> QED
    BY <1>9, <2>2, <2>3 DEF DelayedInit
<1>10. CASE Finish
  <2>1. DOMAIN slam' = DOMAIN slam /\ MarginalizeOldClone
    BY <1>10 DEF Finish, ChangeAnchors
  <2> QED
    BY <1>0, <2>1, OldestRemoved
<1> QED
  BY <1>2, <1>3, <1>4, <1>5, <1>6, <1>7, <1>8, <1>9, <1>10 DEF Next, PropagateUpdate

-----------------------------------------------------------------------------
LInv == IInv /\ Layout

LEMMA LayoutInvariance == Spec => []LInv
<1>1. Init => Layout
  BY LayoutInit
<1>2. IInv /\ Layout /\ [Next]_vars => Layout'
  BY LayoutStep DEF IInv
<1> QED
  BY <1>1, <1>2, Invariance, PTL DEF Spec, LInv

(* The blocks of the covariance are the state's clones and landmarks, and    *)
(* they tile it, after any clone, marginalisation and delayed initialisation *)
(* (StateHelper::clone, marginalize, initialize).                            *)
THEOREM LayoutStaysDense == Spec => []LayoutDense
<1>1. LInv => LayoutDense
  <2> SUFFICES ASSUME Layout PROVE LayoutDense
    BY DEF LInv
  <2> QED
    BY DEF Layout, Dense, Before, LayoutDense, CloneVars, SlamVars
<1> QED
  BY <1>1, LayoutInvariance, PTL

(* Every variable keeps the values the code can give it.                     *)
THEOREM TypeCorrect == Spec => []TypeOK
<1>1. LInv => TypeOK
  <2> SUFFICES ASSUME IInv, Layout PROVE TypeOK
    BY DEF LInv
  <2>1. ids \in [DOMAIN ids -> Nat] /\ rows \in Nat
    BY DenseTypes DEF Layout
  <2>2. Types
    BY DEF IInv
  <2> QED
    BY <2>1, <2>2 DEF TypeOK, Types, StateTypes, TrackTypes, FrameTypes, UpdTypes, InitTypes,
                      IsDatabase
<1> QED
  BY <1>1, LayoutInvariance, PTL
=============================================================================
