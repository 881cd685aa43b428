------------------------- MODULE DynamicInitProofs -------------------------
(***************************************************************************)
(* Theorems about the synchronous dynamic initialisation, for every number *)
(* of key frames, window, limit, set of features and stream of images:     *)
(* enough key frames are found, every clone and anchor of an attempt has   *)
(* its pose in the ring however many attempts failed before, and what the  *)
(* filter takes over is what it expects.                                   *)
(***************************************************************************)
EXTENDS DynamicInit, FiniteSetTheorems, WellFoundedInduction, TLAPS

-----------------------------------------------------------------------------
(* Lemmas about the ends of a finite set of numbers *)

LEMMA LeastExists ==
  ASSUME NEW S \in SUBSET Nat, S # {}
  PROVE  \E x \in S : \A y \in S : x <= y
<1>1. \E x \in S : \A y \in S : ~ (<<y, x>> \in OpToRel(<, Nat))
  BY NatLessThanWellFounded, WFMin
<1>2. PICK x \in S : \A y \in S : ~ (<<y, x>> \in OpToRel(<, Nat))
  BY <1>1
<1>3. \A y \in S : ~ (y < x)
  BY <1>2 DEF OpToRel
<1> QED
  BY <1>3

LEMMA MinIs ==
  ASSUME NEW S \in SUBSET Nat, S # {}
  PROVE  Min(S) \in S /\ \A u \in S : Min(S) <= u
BY LeastExists DEF Min

(* The first elements of an enumeration are bounded, one more at a time: there *)
(* is no least number of them that is not.                                   *)
LEMMA FiniteIsBounded ==
  ASSUME NEW S \in SUBSET Nat, IsFiniteSet(S)
  PROVE  \E n \in Nat : \A x \in S : x <= n
<1>1. PICK m \in Nat : ExistsBijection(1 .. m, S)
  BY FS_NatBijection
<1>2. PICK e \in Bijection(1 .. m, S) : TRUE
  BY <1>1 DEF ExistsBijection
<1>3. e \in [1 .. m -> S] /\ \A x \in S : \E i \in 1 .. m : e[i] = x
  BY DEF Bijection, Injection, Surjection
<1> DEFINE Bounded(k) == \E n \in Nat : \A i \in 1 .. k : e[i] <= n
           Bad == {k \in Nat : k <= m /\ ~Bounded(k)}
<1>4. ASSUME NEW k \in Nat, k < m, Bounded(k) PROVE Bounded(k + 1)
  <2>1. PICK n \in Nat : \A i \in 1 .. k : e[i] <= n
    BY <1>4
  <2>0. k + 1 \in 1 .. m
    BY <1>4
  <2>2. e[k + 1] \in Nat
    BY <1>3, <2>0
  <2>3. PICK b \in Nat : n <= b /\ e[k + 1] <= b
    <3>1. CASE n <= e[k + 1]
      BY <2>2, <3>1
    <3>2. CASE e[k + 1] <= n
      BY <2>1, <3>2
    <3> QED
      BY <2>1, <2>2, <3>1, <3>2
  <2>4. \A i \in 1 .. k + 1 : i = k + 1 \/ i \in 1 .. k
    BY <1>4
  <2>5. \A i \in 1 .. k : e[i] \in Nat /\ e[i] <= b
    <3>1. \A i \in 1 .. k : i \in 1 .. m
      BY <1>4
    <3>2. \A i \in 1 .. k : e[i] \in Nat
      BY <1>3, <3>1
    <3> QED
      BY <2>1, <2>3, <3>2
  <2>6. \A i \in 1 .. k + 1 : e[i] <= b
    BY <2>3, <2>4, <2>5
  <2> QED
    BY <2>3, <2>6
<1>5. Bounded(0)
  OBVIOUS
<1> HIDE DEF Bounded
<1>6. Bad = {}
  <2> SUFFICES ASSUME Bad # {} PROVE FALSE
    OBVIOUS
  <2>1. Bad \in SUBSET Nat
    OBVIOUS
  <2>2. PICK k \in Bad : \A j \in Bad : k <= j
    BY <2>1, LeastExists
  <2>3. k \in Nat /\ k <= m /\ ~Bounded(k)
    BY <2>2
  <2>4. k # 0
    BY <1>5, <2>3
  <2>5. k - 1 \in Nat /\ k - 1 < m /\ k - 1 + 1 = k /\ ~(k <= k - 1)
    BY <2>3, <2>4
  <2>6. Bounded(k - 1)
    BY <2>2, <2>5
  <2>7. Bounded(k - 1 + 1)
    BY <1>4, <2>5, <2>6
  <2> QED
    BY <2>3, <2>5, <2>7
<1>7. Bounded(m)
  BY <1>6
<1>8. PICK n \in Nat : \A i \in 1 .. m : e[i] <= n
  BY <1>7 DEF Bounded
<1> QED
  BY <1>3, <1>8

LEMMA MaxIs ==
  ASSUME NEW S \in SUBSET Nat, S # {}, IsFiniteSet(S)
  PROVE  Max(S) \in S /\ \A u \in S : u <= Max(S)
<1>1. PICK n \in Nat : \A x \in S : x <= n
  BY FiniteIsBounded
<1> DEFINE T == {x \in Nat : \E u \in S : x = n - u}
<1>2. \A u \in S : n - u \in Nat /\ n - u \in T
  BY <1>1
<1>3. T # {} /\ T \in SUBSET Nat
  BY <1>2
<1>4. PICK x \in T : \A y \in T : x <= y
  BY <1>3, LeastExists
<1>5. PICK u \in S : x = n - u
  BY <1>4
<1> HIDE DEF T
<1>6. \A w \in S : w <= u
  BY <1>1, <1>2, <1>4, <1>5
<1> QED
  BY <1>6 DEF Max

(* The instance of the key frame selection has the same ends and sizes. *)
LEMMA SameEnds ==
  ASSUME NEW S
  PROVE  KF!Max(S) = Max(S) /\ KF!Min(S) = Min(S) /\ KF!Cardinality(S) = Cardinality(S)
<1>1. KF!Max(S) = Max(S) /\ KF!Min(S) = Min(S)
  BY DEF KF!Max, KF!Min, Max, Min
<1>2. KF!Cardinality(S) = Cardinality(S)
  BY DEF KF!Cardinality, Cardinality
<1> QED
  BY <1>1, <1>2

-----------------------------------------------------------------------------
(* Lemmas about sets of images *)

Newer(I, t) == {u \in I : u > t}

LEMMA ImagesFinite ==
  /\ Images \subseteq Nat /\ NoTime \notin Images
  /\ \A I \in SUBSET Images : IsFiniteSet(I) /\ Cardinality(I) \in Nat /\ I \in SUBSET Nat
<1>1. LastTime \in Nat
  BY DynamicAssumption
<1>2. IsFiniteSet(1 .. LastTime)
  BY <1>1, FS_Interval
<1>3. Images \subseteq Nat /\ NoTime \notin Images
  BY <1>1 DEF Images, NoTime
<1>4. ASSUME NEW I \in SUBSET Images
      PROVE  IsFiniteSet(I) /\ Cardinality(I) \in Nat
  <2>1. IsFiniteSet(I)
    BY <1>2, FS_Subset DEF Images
  <2> QED
    BY <2>1, FS_CardinalityType
<1> QED
  BY <1>3, <1>4

LEMMA EndsOfImages ==
  ASSUME NEW I \in SUBSET Images, I # {}
  PROVE  /\ Min(I) \in I /\ \A u \in I : Min(I) <= u
         /\ Max(I) \in I /\ \A u \in I : u <= Max(I)
BY ImagesFinite, MinIs, MaxIs

LEMMA FewerImages ==
  ASSUME NEW I \in SUBSET Images, NEW J \in SUBSET I
  PROVE  /\ Cardinality(J) \in Nat /\ Cardinality(I) \in Nat
         /\ Cardinality(J) <= Cardinality(I)
         /\ \A x \in I \ J : Cardinality(J) + 1 <= Cardinality(I)
<1>1. IsFiniteSet(I) /\ IsFiniteSet(J) /\ Cardinality(J) \in Nat /\ Cardinality(I) \in Nat
  BY ImagesFinite
<1>2. Cardinality(J) <= Cardinality(I)
  BY <1>1, FS_Subset
<1>3. ASSUME NEW x \in I \ J PROVE Cardinality(J) + 1 <= Cardinality(I)
  <2>1. IsFiniteSet(I \ {x}) /\ Cardinality(I \ {x}) = Cardinality(I) - 1
    BY <1>1, FS_RemoveElement
  <2>2. J \in SUBSET (I \ {x})
    BY <1>3
  <2>3. Cardinality(J) <= Cardinality(I \ {x})
    BY <2>1, <2>2, FS_Subset
  <2> QED
    BY <1>1, <2>1, <2>3
<1> QED
  BY <1>1, <1>2, <1>3

(* Key frames: the oldest image and the newest ones, without a gap. *)
Picked(I, K) ==
  /\ K \subseteq I /\ Min(I) \in K /\ Max(I) \in K
  /\ \A k \in K \ {Min(I)} : Newer(I, k) \subseteq K

(* So many images are newer than a key frame, or than an image that is none. *)
LEMMA PickedNewest ==
  ASSUME NEW I \in SUBSET Images, I # {}, NEW K, Picked(I, K), Cardinality(K) = NumPose
  PROVE  /\ \A k \in K \ {Min(I)} : Cardinality(Newer(I, k)) <= NumPose - 2
         /\ \A u \in I \ K : Cardinality(Newer(I, u)) >= NumPose - 1
         /\ Min(I) < Max(I)
<1>1. K \in SUBSET Images /\ IsFiniteSet(K) /\ NumPose \in Nat /\ NumPose >= 2
  BY ImagesFinite, DynamicAssumption DEF Picked
<1>2. Min(I) \in I /\ \A u \in I : Min(I) <= u
  BY EndsOfImages
<1>3. IsFiniteSet(K \ {Min(I)}) /\ Cardinality(K \ {Min(I)}) = NumPose - 1
  BY <1>1, FS_RemoveElement DEF Picked
<1>4. I \subseteq Nat
  BY ImagesFinite
<1>5. ASSUME NEW k \in K \ {Min(I)}
      PROVE  Cardinality(Newer(I, k)) <= NumPose - 2
  <2>1. Newer(I, k) \subseteq (K \ {Min(I)}) \ {k}
    <3>1. k \in I /\ Min(I) <= k
      BY <1>2 DEF Picked
    <3> HIDE DEF Min, Picked
    <3>2. Min(I) \in Nat /\ k \in Nat /\ k # Min(I) /\ Min(I) <= k
      BY <1>2, <1>4, <1>5, <3>1
    <3>4. \A u \in Newer(I, k) : u \in Nat /\ u > k
      BY <1>4 DEF Newer
    <3>5. \A u \in Newer(I, k) : u # k /\ u # Min(I)
      BY <3>2, <3>4
    <3>3. Newer(I, k) \subseteq K
      BY DEF Picked
    <3> QED
      BY <3>3, <3>5
  <2>2. IsFiniteSet((K \ {Min(I)}) \ {k})
        /\ Cardinality((K \ {Min(I)}) \ {k}) = Cardinality(K \ {Min(I)}) - 1
    BY <1>3, <1>5, FS_RemoveElement
  <2>3. Cardinality(Newer(I, k)) <= Cardinality((K \ {Min(I)}) \ {k})
    BY <2>1, <2>2, FS_Subset
  <2>4. NumPose - 1 - 1 = NumPose - 2
    BY <1>1
  <2> QED
    BY <1>3, <2>2, <2>3, <2>4
<1>6. ASSUME NEW u \in I \ K
      PROVE  Cardinality(Newer(I, u)) >= NumPose - 1
  <2>1. ASSUME NEW k \in K \ {Min(I)} PROVE k \in Newer(I, u)
    <3>1. k \in I /\ u \in I /\ k # u
      BY <1>6, <2>1 DEF Picked
    <3>2. ~(u > k)
      BY <1>6, <2>1 DEF Picked, Newer
    <3> QED
      BY <1>4, <3>1, <3>2 DEF Newer
  <2>2. (K \ {Min(I)}) \in SUBSET Newer(I, u) /\ Newer(I, u) \in SUBSET Images
    BY <2>1 DEF Newer
  <2>3. Cardinality(K \ {Min(I)}) <= Cardinality(Newer(I, u))
        /\ Cardinality(Newer(I, u)) \in Nat
    BY <2>2, FewerImages
  <2> QED
    BY <1>1, <1>3, <2>3
<1>7. Min(I) < Max(I)
  <2>1. K # {Min(I)}
    BY <1>1, FS_Singleton
  <2>2. PICK k \in K : k # Min(I)
    BY <2>1 DEF Picked
  <2>3. k \in I /\ k <= Max(I) /\ Max(I) \in I
    BY EndsOfImages DEF Picked
  <2>4. Min(I) \in Nat /\ Max(I) \in Nat /\ k \in Nat /\ Min(I) <= k
    BY <1>2, <1>4, <2>3
  <2> QED
    BY <2>2, <2>3, <2>4
<1> QED
  BY <1>5, <1>6, <1>7

LEMMA PickedBegins ==
  ASSUME NEW I \in SUBSET Images, Cardinality(I) >= 2
  PROVE  Picked(I, {Min(I), Max(I)}) /\ Cardinality({Min(I), Max(I)}) = 2
<1>1. IsFiniteSet(I) /\ I \subseteq Nat
  BY ImagesFinite
<1>2. I # {}
  BY FS_EmptySet
<1>3. Min(I) \in I /\ Max(I) \in I /\ \A u \in I : Min(I) <= u /\ u <= Max(I)
  BY <1>2, EndsOfImages
<1>4. Min(I) # Max(I)
  <2> SUFFICES ASSUME Min(I) = Max(I) PROVE FALSE
    OBVIOUS
  <2>1. \A u \in I : u \in Nat /\ Min(I) <= u /\ u <= Min(I) /\ Min(I) \in Nat
    BY <1>1, <1>3
  <2>2. \A u \in I : u = Min(I)
    BY <2>1
  <2>3. I = {Min(I)}
    BY <1>3, <2>2
  <2>4. Cardinality(I) = 1
    BY <2>3, FS_Singleton
  <2> QED
    BY <2>4
<1>5. Cardinality({Min(I), Max(I)}) = 2
  <2>1. IsFiniteSet({Min(I)}) /\ Cardinality({Min(I)}) = 1
    BY FS_Singleton
  <2>2. Max(I) \notin {Min(I)} /\ {Min(I)} \cup {Max(I)} = {Min(I), Max(I)}
    BY <1>4
  <2>3. Cardinality({Min(I)} \cup {Max(I)}) = Cardinality({Min(I)}) + 1
    BY <2>1, <2>2, FS_AddElement
  <2> QED
    BY <2>1, <2>2, <2>3
<1>6. Newer(I, Max(I)) = {}
  <2>1. \A u \in I : u \in Nat /\ Max(I) \in Nat /\ u <= Max(I)
    BY <1>1, <1>3
  <2>2. \A u \in I : ~(u > Max(I))
    BY <2>1
  <2> QED
    BY <2>2 DEF Newer
<1> QED
  BY <1>3, <1>5, <1>6 DEF Picked

LEMMA PickedGrows ==
  ASSUME NEW I \in SUBSET Images, NEW K, Picked(I, K), I \ K # {}
  PROVE  /\ Max(I \ K) \in I \ K /\ Picked(I, K \cup {Max(I \ K)})
         /\ Cardinality(K \cup {Max(I \ K)}) = Cardinality(K) + 1
<1>1. I \ K \in SUBSET Images /\ K \in SUBSET Images
  BY DEF Picked
<1> DEFINE x == Max(I \ K)
<1>2. x \in I \ K /\ \A u \in I \ K : u <= x
  BY <1>1, EndsOfImages
<1>3. Newer(I, x) \subseteq K
  <2>1. \A u \in I \ K : u \in Nat /\ x \in Nat /\ u <= x
    BY <1>1, <1>2, ImagesFinite
  <2>2. \A u \in I \ K : ~(u > x)
    BY <2>1
  <2> QED
    BY <2>2 DEF Newer
<1> HIDE DEF x
<1>4. Picked(I, K \cup {x})
  BY <1>2, <1>3 DEF Picked
<1>5. Cardinality(K \cup {x}) = Cardinality(K) + 1
  BY <1>1, <1>2, FS_AddElement, ImagesFinite
<1> QED
  BY <1>2, <1>4, <1>5 DEF x

(* Every image offers itself, whatever its disparities are. *)
DispTypes == disp \in [KF!Pairs(images) -> Disparities \cup {KF!Invalid}]

LEMMA OfferIs ==
  ASSUME images \subseteq Images, DispTypes, NEW t \in images
  PROVE  KF!Offer(t) = t
<1>1. Disparities \subseteq Nat /\ IsFiniteSet(Disparities)
  BY DynamicAssumption
<1>2. KF!Unbounded \in Nat
  <2>1. Disparities \cup {0} \in SUBSET Nat /\ Disparities \cup {0} # {}
        /\ IsFiniteSet(Disparities \cup {0})
    BY <1>1, FS_AddElement
  <2>2. Max(Disparities \cup {0}) \in Nat
    BY <2>1, MaxIs
  <2> QED
    BY <2>2, SameEnds DEF KF!Unbounded
<1> DEFINE valid == {disp[{t, u}] : u \in images \ {t}} \ {KF!Invalid}
           all == {KF!Unbounded} \cup valid
<1>3. valid \subseteq Nat
  <2>1. ASSUME NEW u \in images \ {t} PROVE {t, u} \in KF!Pairs(images)
    <3>1. IsFiniteSet({t}) /\ Cardinality({t}) = 1
      BY FS_Singleton
    <3>2. u \notin {t} /\ {t} \cup {u} = {t, u}
      BY <2>1
    <3>3. Cardinality({t} \cup {u}) = Cardinality({t}) + 1
      BY <3>1, <3>2, FS_AddElement
    <3>4. Cardinality({t, u}) = 2
      <4>1. Cardinality({t, u}) = 1 + 1
        BY <3>1, <3>2, <3>3
      <4> QED
        BY <4>1
    <3>5. {t, u} \in SUBSET images /\ KF!Cardinality({t, u}) = 2
      BY <2>1, <3>4, SameEnds
    <3> QED
      BY <3>5 DEF KF!Pairs
  <2>2. \A u \in images \ {t} : disp[{t, u}] \in Disparities \cup {KF!Invalid}
    BY <2>1 DEF DispTypes
  <2> QED
    BY <1>1, <2>2
<1>4. all \in SUBSET Nat /\ all # {}
  BY <1>2, <1>3
<1>5. KF!MinDisparity(t) = Min(all)
  BY SameEnds DEF KF!MinDisparity
<1> HIDE DEF all, valid
<1>6. Min(all) \in Nat
  BY <1>4, MinIs
<1>7. KF!MinDisparity(t) > -1
  BY <1>5, <1>6
<1> QED
  BY <1>7 DEF KF!Offer

-----------------------------------------------------------------------------
(* Lemmas about the ages of slots: how many were handed out since, the       *)
(* youngest having age one, when next is the one handed out next.            *)
Age(next, s) == IF next > s THEN next - s ELSE next - s + RingSize

LEMMA SlotsAre == RingSize \in Nat /\ RingSize >= 2 /\ Buf!Slots = 0 .. RingSize - 1
BY DynamicAssumption DEF RingSize, Buf!Slots

LEMMA NextSlot ==
  ASSUME NEW n \in Buf!Slots
  PROVE  /\ (n + 1) % RingSize \in Buf!Slots
         /\ Age((n + 1) % RingSize, n) = 1
         /\ \A s \in Buf!Slots : Age(n, s) < RingSize =>
              Age((n + 1) % RingSize, s) = Age(n, s) + 1
<1>1. n \in Int /\ 0 <= n /\ n <= RingSize - 1 /\ RingSize \in Nat /\ RingSize >= 2
      /\ Buf!Slots = 0 .. RingSize - 1
  BY SlotsAre
<1> HIDE DEF RingSize
<1>2. CASE n = RingSize - 1
  <2>1. (n + 1) % RingSize = 0
    BY <1>1, <1>2
  <2> QED
    BY <1>1, <1>2, <2>1 DEF Age
<1>3. CASE n < RingSize - 1
  <2>1. (n + 1) % RingSize = n + 1
    BY <1>1, <1>3
  <2> QED
    BY <1>1, <1>3, <2>1 DEF Age
<1> QED
  BY <1>1, <1>2, <1>3

LEMMA AgeIsType ==
  ASSUME NEW n \in Buf!Slots, NEW s \in Buf!Slots
  PROVE  Age(n, s) \in 1 .. RingSize /\ n = (s + Age(n, s)) % RingSize
<1>1. /\ n \in Int /\ 0 <= n /\ n <= RingSize - 1
      /\ s \in Int /\ 0 <= s /\ s <= RingSize - 1 /\ RingSize \in Nat /\ RingSize >= 2
  BY SlotsAre
<1> HIDE DEF RingSize
<1>2. CASE n > s
  <2>1. Age(n, s) = n - s /\ s + (n - s) = n /\ n % RingSize = n
    BY <1>1, <1>2 DEF Age
  <2> QED
    BY <1>1, <1>2, <2>1
<1>3. CASE ~(n > s)
  <2>1. Age(n, s) = n - s + RingSize /\ s + (n - s + RingSize) = n + RingSize
    BY <1>1, <1>3 DEF Age
  <2>2. (n + RingSize) % RingSize = n
    BY <1>1
  <2> QED
    BY <1>1, <1>3, <2>1, <2>2
<1> QED
  BY <1>2, <1>3

-----------------------------------------------------------------------------
(* Lemmas about the pose ring *)

(* The images with an entry *)
TakenIn(p) == DOMAIN p.slotOf \ {NoTime}

RingTypes(p) ==
  /\ p = [slotOf |-> p.slotOf, next |-> p.next]
  /\ DOMAIN p.slotOf \subseteq Times /\ p.next \in Buf!Slots
  /\ \A t \in DOMAIN p.slotOf : p.slotOf[t] \in Buf!Slots

(* Every entry has an age of its own, which its slot shows while it is no    *)
(* more than the ring has slots.  An attempt takes a slot for each of its    *)
(* images that is new, which are younger than what was taken before, and for *)
(* at most one that is older; so an entry is no older than twice the number  *)
(* of younger images among the entries, and what is extra.                   *)
Aged(p, extra) ==
  \E age \in [DOMAIN p.slotOf -> Nat \ {0}] :
    /\ \A t, u \in DOMAIN p.slotOf : age[t] = age[u] => t = u
    /\ \A t \in DOMAIN p.slotOf : age[t] <= RingSize => Age(p.next, p.slotOf[t]) = age[t]
    /\ \A t \in TakenIn(p) : age[t] <= 1 + extra + 2 * Cardinality(Newer(TakenIn(p), t))

LEMMA AddGives ==
  ASSUME NEW p, RingTypes(p), NEW x \in Times
  PROVE  LET q == Buf!AddTimestamp(p, x)
         IN  /\ RingTypes(q) /\ DOMAIN q.slotOf = DOMAIN p.slotOf \cup {x}
             /\ \A t \in DOMAIN p.slotOf : q.slotOf[t] = p.slotOf[t]
             /\ x \in DOMAIN p.slotOf => q = p
             /\ x \notin DOMAIN p.slotOf =>
                  q.slotOf[x] = p.next /\ q.next = (p.next + 1) % RingSize
<1> DEFINE q == Buf!AddTimestamp(p, x)
<1>1. CASE x \in DOMAIN p.slotOf
  <2>1. q = p
    BY <1>1 DEF Buf!AddTimestamp
  <2> HIDE DEF q
  <2>2. DOMAIN q.slotOf = DOMAIN p.slotOf \cup {x}
    BY <1>1, <2>1
  <2> QED
    BY <1>1, <2>1, <2>2 DEF q
<1>2. CASE x \notin DOMAIN p.slotOf
  <2>1. q = [ slotOf |-> [y \in DOMAIN p.slotOf \cup {x} |->
                            IF y = x THEN p.next ELSE p.slotOf[y]],
              next   |-> (p.next + 1) % RingSize ]
    BY <1>2 DEF Buf!AddTimestamp
  <2>2. q.next = (p.next + 1) % RingSize
        /\ q.slotOf = [y \in DOMAIN p.slotOf \cup {x} |->
                         IF y = x THEN p.next ELSE p.slotOf[y]]
        /\ q = [slotOf |-> q.slotOf, next |-> q.next]
    BY <2>1
  <2>3. DOMAIN q.slotOf = DOMAIN p.slotOf \cup {x} /\ q.slotOf[x] = p.next
        /\ \A t \in DOMAIN p.slotOf : q.slotOf[t] = p.slotOf[t]
    BY <1>2, <2>2
  <2> HIDE DEF q
  <2>4. q.next \in Buf!Slots
    BY <2>2, NextSlot DEF RingTypes
  <2>5. RingTypes(q)
    BY <2>2, <2>3, <2>4 DEF RingTypes
  <2> QED
    BY <1>2, <2>2, <2>3, <2>5 DEF q
<1> QED
  BY <1>1, <1>2

(* A new entry makes the others older by one: either one more is extra, or   *)
(* it is younger than all of them and makes good for one that was extra.     *)
LEMMA AgedGrows ==
  ASSUME NEW p, RingTypes(p), NEW e \in Nat, Aged(p, e), NEW x \in Times,
         x \notin DOMAIN p.slotOf, NEW f \in Nat,
         f = e + 1 \/ (x # NoTime /\ e <= f + 1 /\ \A t \in TakenIn(p) : t < x)
  PROVE  Aged(Buf!AddTimestamp(p, x), f)
<1> DEFINE q == Buf!AddTimestamp(p, x)
<1>1. /\ RingTypes(q) /\ DOMAIN q.slotOf = DOMAIN p.slotOf \cup {x}
      /\ \A t \in DOMAIN p.slotOf : q.slotOf[t] = p.slotOf[t]
      /\ q.slotOf[x] = p.next /\ q.next = (p.next + 1) % RingSize
  BY AddGives
<1> HIDE DEF q
<1>2. PICK age \in [DOMAIN p.slotOf -> Nat \ {0}] :
        /\ \A t, u \in DOMAIN p.slotOf : age[t] = age[u] => t = u
        /\ \A t \in DOMAIN p.slotOf : age[t] <= RingSize => Age(p.next, p.slotOf[t]) = age[t]
        /\ \A t \in TakenIn(p) : age[t] <= 1 + e + 2 * Cardinality(Newer(TakenIn(p), t))
  BY DEF Aged
<1> DEFINE older == [t \in DOMAIN q.slotOf |-> IF t = x THEN 1 ELSE age[t] + 1]
<1>3. older[x] = 1 /\ (\A t \in DOMAIN p.slotOf : t # x /\ older[t] = age[t] + 1)
      /\ older \in [DOMAIN q.slotOf -> Nat \ {0}]
  BY <1>1
<1> HIDE DEF older
<1>4. \A t, u \in DOMAIN q.slotOf : older[t] = older[u] => t = u
  <2>1. \A t \in DOMAIN p.slotOf : age[t] \in Nat \ {0}
    OBVIOUS
  <2>2. \A t \in DOMAIN p.slotOf : older[t] # older[x]
    BY <1>3, <2>1
  <2>3. \A t, u \in DOMAIN p.slotOf : older[t] = older[u] => t = u
    BY <1>2, <1>3, <2>1
  <2> QED
    BY <1>1, <2>2, <2>3
<1>5. \A t \in DOMAIN q.slotOf : older[t] <= RingSize => Age(q.next, q.slotOf[t]) = older[t]
  <2>1. p.next \in Buf!Slots /\ RingSize \in Nat
    BY SlotsAre DEF RingTypes
  <2>2. Age(q.next, q.slotOf[x]) = older[x]
    BY <1>1, <1>3, <2>1, NextSlot
  <2>3. ASSUME NEW t \in DOMAIN p.slotOf, older[t] <= RingSize
        PROVE  Age(q.next, q.slotOf[t]) = older[t]
    <3>1. age[t] \in Nat /\ age[t] + 1 <= RingSize
      BY <1>3, <2>3
    <3>2. Age(p.next, p.slotOf[t]) = age[t] /\ age[t] < RingSize
      BY <1>2, <2>1, <3>1
    <3>3. p.slotOf[t] \in Buf!Slots
      BY DEF RingTypes
    <3>4. Age((p.next + 1) % RingSize, p.slotOf[t]) = Age(p.next, p.slotOf[t]) + 1
      BY <2>1, <3>2, <3>3, NextSlot
    <3> QED
      BY <1>1, <1>3, <3>2, <3>4
  <2> QED
    BY <1>1, <2>2, <2>3
<1>6. \A t \in TakenIn(q) : older[t] <= 1 + f + 2 * Cardinality(Newer(TakenIn(q), t))
  <2>1. TakenIn(q) \in SUBSET Images /\ TakenIn(p) \in SUBSET TakenIn(q)
        /\ TakenIn(q) \subseteq TakenIn(p) \cup {x}
    BY <1>1 DEF TakenIn, RingTypes, Times
  <2>2. ASSUME NEW t \in TakenIn(q)
        PROVE  older[t] <= 1 + f + 2 * Cardinality(Newer(TakenIn(q), t))
    <3> DEFINE m == Cardinality(Newer(TakenIn(p), t))
               n == Cardinality(Newer(TakenIn(q), t))
    <3>1. Newer(TakenIn(q), t) \in SUBSET Images
          /\ Newer(TakenIn(p), t) \in SUBSET Newer(TakenIn(q), t)
      BY <2>1 DEF Newer
    <3>2. m \in Nat /\ n \in Nat /\ m <= n
      BY <3>1, FewerImages
    <3>3. CASE t = x
      BY <1>3, <3>2, <3>3
    <3>4. CASE t # x
      <4>1. t \in TakenIn(p) /\ t \in DOMAIN p.slotOf
        BY <2>1, <3>4 DEF TakenIn
      <4>2. age[t] <= 1 + e + 2 * m /\ age[t] \in Nat /\ older[t] = age[t] + 1
        BY <1>2, <1>3, <4>1
      <4>3. CASE f = e + 1
        <5> HIDE DEF m, n
        <5> QED
          BY <3>2, <4>2, <4>3 DEF n
      <4>4. CASE x # NoTime /\ e <= f + 1 /\ \A w \in TakenIn(p) : w < x
        <5>1. x \in Newer(TakenIn(q), t) \ Newer(TakenIn(p), t)
          <6>1. x \in TakenIn(q) /\ x \notin TakenIn(p)
            BY <1>1, <4>4 DEF TakenIn
          <6>2. t < x /\ t \in Nat /\ x \in Nat
            BY <2>1, <4>1, <4>4, <6>1, ImagesFinite
          <6> QED
            BY <6>1, <6>2 DEF Newer
        <5>2. m + 1 <= n
          BY <3>1, <5>1, FewerImages
        <5> HIDE DEF m, n
        <5> QED
          BY <3>2, <4>2, <4>4, <5>2 DEF n
      <4> QED
        BY <4>3, <4>4
    <3> QED
      BY <3>3, <3>4
  <2> QED
    BY <2>2
<1>7. Aged(q, f)
  BY <1>3, <1>4, <1>5, <1>6 DEF Aged
<1> QED
  BY <1>7 DEF q

(* Images that are among the younger ones have slots of their own, and the   *)
(* youngest image one of the last that were handed out.                      *)
LEMMA AgedOwnSlot ==
  ASSUME NEW p, RingTypes(p), NEW e, Aged(p, e), NEW C \in SUBSET TakenIn(p),
         e \in Nat,
         \A t \in C : 1 + e + 2 * Cardinality(Newer(TakenIn(p), t)) <= RingSize
  PROVE  Buf!OwnSlot(p, C)
<1>1. PICK age \in [DOMAIN p.slotOf -> Nat \ {0}] :
        /\ \A t, u \in DOMAIN p.slotOf : age[t] = age[u] => t = u
        /\ \A t \in DOMAIN p.slotOf : age[t] <= RingSize => Age(p.next, p.slotOf[t]) = age[t]
        /\ \A t \in TakenIn(p) : age[t] <= 1 + e + 2 * Cardinality(Newer(TakenIn(p), t))
  BY DEF Aged
<1>2. C \subseteq DOMAIN p.slotOf /\ RingSize \in Nat
  BY SlotsAre DEF TakenIn
<1>3. ASSUME NEW t \in C PROVE Age(p.next, p.slotOf[t]) = age[t]
  <2>1. age[t] \in Nat
    BY <1>2
  <2>2. Newer(TakenIn(p), t) \in SUBSET Images
    BY DEF Newer, TakenIn, RingTypes, Times
  <2>3. Cardinality(Newer(TakenIn(p), t)) \in Nat
    BY <2>2, ImagesFinite
  <2>4. age[t] <= 1 + e + 2 * Cardinality(Newer(TakenIn(p), t))
    BY <1>1
  <2>5. age[t] <= RingSize
    BY <1>2, <2>1, <2>3, <2>4
  <2> QED
    BY <1>1, <1>2, <2>5
<1> QED
  BY <1>1, <1>2, <1>3 DEF Buf!OwnSlot

LEMMA AgedNewest ==
  ASSUME NEW p, RingTypes(p), NEW e \in {0, 1}, Aged(p, e), NEW t \in TakenIn(p),
         Newer(TakenIn(p), t) = {}
  PROVE  \E age \in 1 .. 1 + e : p.next = (p.slotOf[t] + age) % RingSize
<1>1. PICK age \in [DOMAIN p.slotOf -> Nat \ {0}] :
        /\ \A u \in DOMAIN p.slotOf : age[u] <= RingSize => Age(p.next, p.slotOf[u]) = age[u]
        /\ \A u \in TakenIn(p) : age[u] <= 1 + e + 2 * Cardinality(Newer(TakenIn(p), u))
  BY DEF Aged
<1>2. Cardinality(Newer(TakenIn(p), t)) = 0
  BY FS_EmptySet
<1>3. t \in DOMAIN p.slotOf /\ age[t] \in Nat \ {0}
  BY DEF TakenIn
<1>4. age[t] <= 1 + e + 2 * 0
  BY <1>1, <1>2
<1>5. age[t] \in 1 .. 1 + e /\ age[t] <= RingSize
  BY <1>3, <1>4, SlotsAre
<1>6. p.next \in Buf!Slots /\ p.slotOf[t] \in Buf!Slots
  BY <1>3 DEF RingTypes
<1>7. p.next = (p.slotOf[t] + age[t]) % RingSize
  BY <1>1, <1>3, <1>5, <1>6, AgeIsType
<1> QED
  BY <1>5, <1>7

-----------------------------------------------------------------------------
(* Lemmas about the measurements *)

IsDatabase(d, n) == \A f \in DOMAIN d : f \in Feats /\ d[f] # {} /\ d[f] \subseteq 1 .. n

LEMMA RetainGives ==
  ASSUME NEW d, NEW T
  PROVE  /\ Measured(Retain(d, T)) = Measured(d) \cap T
         /\ DOMAIN Retain(d, T) \subseteq DOMAIN d
         /\ \A n : IsDatabase(d, n) => IsDatabase(Retain(d, T), n)
<1> DEFINE D == {g \in DOMAIN d : d[g] \cap T # {}}
<1>1. DOMAIN Retain(d, T) = D /\ \A f \in D : Retain(d, T)[f] = d[f] \cap T
  BY DEF Retain
<1>2. Measured(Retain(d, T)) = Measured(d) \cap T
  BY <1>1 DEF Measured
<1> QED
  BY <1>1, <1>2 DEF IsDatabase

LEMMA CleanupGives ==
  ASSUME NEW d, NEW t
  PROVE  /\ Measured(CleanupMeasurements(d, t)) = {u \in Measured(d) : u > t}
         /\ \A n : IsDatabase(d, n) => IsDatabase(CleanupMeasurements(d, t), n)
<1>1. CleanupMeasurements(d, t) = Retain(d, {u \in Measured(d) : u > t})
  BY DEF CleanupMeasurements
<1>2. Measured(d) \cap {u \in Measured(d) : u > t} = {u \in Measured(d) : u > t}
  OBVIOUS
<1> QED
  BY <1>1, <1>2, RetainGives

LEMMA UpdateGives ==
  ASSUME NEW n \in Nat, NEW d, IsDatabase(d, n), NEW S \in SUBSET Feats
  PROVE  /\ IsDatabase(UpdateFeatures(d, S, n + 1), n + 1)
         /\ Measured(UpdateFeatures(d, S, n + 1)) \in {Measured(d), Measured(d) \cup {n + 1}}
<1> DEFINE u == UpdateFeatures(d, S, n + 1)
<1>1. DOMAIN u = DOMAIN d \cup S
      /\ \A f \in DOMAIN u :
           u[f] = (IF f \in DOMAIN d THEN d[f] ELSE {}) \cup (IF f \in S THEN {n + 1} ELSE {})
  BY DEF UpdateFeatures
<1> HIDE DEF u
<1>2. IsDatabase(u, n + 1)
  <2> SUFFICES ASSUME NEW f \in DOMAIN u
               PROVE  f \in Feats /\ u[f] # {} /\ u[f] \subseteq 1 .. n + 1
    BY DEF IsDatabase
  <2>1. f \in DOMAIN d => f \in Feats /\ d[f] # {} /\ d[f] \subseteq 1 .. n + 1
    BY DEF IsDatabase
  <2>2. n + 1 \in 1 .. n + 1
    OBVIOUS
  <2> QED
    BY <1>1, <2>1, <2>2
<1>3. CASE S = {}
  <2>1. Measured(u) = Measured(d)
    BY <1>1, <1>3 DEF Measured
  <2> QED
    BY <1>2, <2>1 DEF u
<1>4. CASE S # {}
  <2>1. Measured(u) \subseteq Measured(d) \cup {n + 1}
    BY <1>1 DEF Measured
  <2>2. \A f \in DOMAIN d : d[f] \subseteq u[f]
    BY <1>1
  <2>3. Measured(d) \subseteq Measured(u)
    BY <1>1, <2>2 DEF Measured
  <2>4. PICK f \in S : TRUE
    BY <1>4
  <2>5. f \in DOMAIN u /\ n + 1 \in u[f]
    BY <1>1, <2>4
  <2>6. n + 1 \in Measured(u)
    BY <2>5 DEF Measured
  <2>7. Measured(u) = Measured(d) \cup {n + 1}
    BY <2>1, <2>3, <2>6
  <2> QED
    BY <1>2, <2>7 DEF u
<1> QED
  BY <1>3, <1>4

-----------------------------------------------------------------------------
(* What is known of the images with an entry in the pose ring, T, and the    *)
(* images with measurements, I.                                              *)

(* No image loses its measurements but with all older ones. *)
Kept(T, I) == \A d \in T : d \in I \/ \A u \in I : d < u

(* Nothing is older than the window that ends with the newest image. *)
Trimmed(I) == \A u \in I : u > Max(I) - WindowTime - WindowOffset

(* An attempt that had today's newest image had today's oldest. *)
Settled(T, I) == I # {} /\ Max(I) \in T => Min(I) \in T /\ Trimmed(I)

(* The last attempt took all but the oldest of the newest images it had. *)
Spanned(T, I, u) == {v \in I : u < v /\ \E d \in T : v <= d}

Skipped(T, I) ==
  \A u \in I \ T : (\E d \in T : u < d) => Cardinality(Spanned(T, I, u)) >= NumPose - 1

LEMMA FrameKeeps ==
  ASSUME NEW n \in Nat, n + 1 \in Images, NEW T \in SUBSET (1 .. n), NEW I \in SUBSET (1 .. n),
         Kept(T, I), Settled(T, I), Skipped(T, I)
  PROVE  LET J == I \cup {n + 1} IN Kept(T, J) /\ Settled(T, J) /\ Skipped(T, J)
<1> DEFINE J == I \cup {n + 1}
<1>1. /\ \A d \in T : d \in Nat /\ d < n + 1
      /\ \A u \in I : u \in Nat /\ u < n + 1
  OBVIOUS
<1>2. Kept(T, J)
  BY <1>1 DEF Kept
<1>3. Settled(T, J)
  <2>1. J \in SUBSET Images /\ J # {} /\ n + 1 \in J
    <3>1. LastTime \in Nat /\ n + 1 <= LastTime
      BY DynamicAssumption DEF Images
    <3>2. \A u \in I : u \in 1 .. LastTime
      BY <3>1
    <3> QED
      BY <3>2 DEF Images
  <2>2. Max(J) \in J /\ \A u \in J : u <= Max(J)
    BY <2>1, EndsOfImages
  <2>3. n + 1 <= Max(J) /\ Max(J) \in Nat
    BY <2>1, <2>2, ImagesFinite
  <2> HIDE DEF J
  <2>4. Max(J) \notin T
    BY <1>1, <2>3
  <2> QED
    BY <2>4 DEF Settled
<1>4. Skipped(T, J)
  <2> SUFFICES ASSUME NEW u \in J \ T, NEW d \in T, u < d
               PROVE  Cardinality(Spanned(T, J, u)) >= NumPose - 1
    BY DEF Skipped
  <2>1. u # n + 1
    BY <1>1
  <2>2. Spanned(T, J, u) = Spanned(T, I, u)
    <3>1. \A c \in T : ~(n + 1 <= c)
      BY <1>1
    <3> QED
      BY <3>1 DEF Spanned
  <2> QED
    BY <2>1, <2>2 DEF Skipped
<1> QED
  BY <1>2, <1>3, <1>4

LEMMA TrimKeeps ==
  ASSUME NEW T \in SUBSET Images, NEW I \in SUBSET Images, I # {},
         Kept(T, I), Settled(T, I), Skipped(T, I),
         NEW J, J = {u \in I : u > Max(I) - WindowTime - WindowOffset}
  PROVE  Kept(T, J) /\ Settled(T, J) /\ Skipped(T, J) /\ Trimmed(J)
<1> DEFINE start == Max(I) - WindowTime - WindowOffset
<1>0. start \in Int /\ \A u \in I : u \in Nat
  <2>1. Max(I) \in Nat
    BY EndsOfImages, ImagesFinite
  <2> HIDE DEF Max
  <2> QED
    BY <2>1, ImagesFinite, DynamicAssumption
<1>1. J \subseteq I /\ \A u \in J, v \in I : u <= v => v \in J
  <2> HIDE DEF start
  <2>1. J = {u \in I : u > start}
    BY DEF start
  <2> QED
    BY <1>0, <2>1
<1>2. J # {} => Max(J) = Max(I) /\ Trimmed(J)
  <2> SUFFICES ASSUME J # {} PROVE Max(J) = Max(I) /\ Trimmed(J)
    OBVIOUS
  <2>1. Max(I) \in I /\ Max(J) \in J /\ (\A u \in I : u <= Max(I)) /\ \A u \in J : u <= Max(J)
    BY <1>1, EndsOfImages
  <2>2. Max(J) <= Max(I)
    BY <1>1, <2>1
  <2>3. Max(I) \in J
    BY <1>1, <2>1, <2>2
  <2>4. Max(I) \in Nat /\ Max(J) \in Nat /\ Max(I) <= Max(J)
    BY <1>0, <1>1, <2>1, <2>3
  <2>5. Max(J) = Max(I)
    BY <2>2, <2>4
  <2> QED
    BY <2>5 DEF Trimmed
<1>3. Trimmed(J)
  BY <1>2 DEF Trimmed
<1>4. Kept(T, J)
  <2> SUFFICES ASSUME NEW d \in T, d \notin J, NEW u \in J PROVE d < u
    BY DEF Kept
  <2>1. CASE d \in I
    <3>1. ~(u <= d) /\ u \in Nat /\ d \in Nat
      BY <1>0, <1>1, <2>1
    <3> QED
      BY <3>1
  <2>2. CASE d \notin I
    BY <1>1, <2>2 DEF Kept
  <2> QED
    BY <2>1, <2>2
<1>5. Settled(T, J)
  <2> SUFFICES ASSUME J # {}, Max(J) \in T PROVE Min(J) \in T
    BY <1>3 DEF Settled
  <2>1. Min(I) \in T /\ Trimmed(I)
    BY <1>2 DEF Settled
  <2>2. J = I
    BY <2>1 DEF Trimmed
  <2> QED
    BY <2>1, <2>2
<1>6. Skipped(T, J)
  <2> SUFFICES ASSUME NEW u \in J \ T, NEW d \in T, u < d
               PROVE  Cardinality(Spanned(T, J, u)) >= NumPose - 1
    BY DEF Skipped
  <2>1. \A v \in I : u < v => v \in J
    BY <1>0, <1>1
  <2>2. Spanned(T, J, u) = Spanned(T, I, u)
    BY <1>1, <2>1 DEF Spanned
  <2> QED
    BY <1>1, <2>2 DEF Skipped
<1> QED
  BY <1>3, <1>4, <1>5, <1>6

-----------------------------------------------------------------------------
(* The inductive invariant, part by part.                                    *)
Trying == pc \in {"propagate", "iterate", "landmarks", "conclude", "solved", "failed"}

Taken == TakenIn(poses)

Types ==
  /\ frame \in 0 .. LastTime /\ IsDatabase(db, frame)
  /\ timestamp \in Times /\ clones \subseteq Images /\ RingTypes(poses)
  /\ DOMAIN slam \subseteq Feats /\ DOMAIN msckf \subseteq Feats
  /\ delta \in {"zero", "step"} /\ {options, backup} \subseteq {"configured", "solver"}
  /\ isInit \in BOOLEAN /\ vec \subseteq DOMAIN db /\ iter \in 0 .. MaxIter
  /\ pc \in {"frame", "choose", "window", "keyframes", "propagate", "iterate",
             "landmarks", "conclude", "solved", "failed"}

(* What an attempt leaves, or has not made yet, at each of its steps *)
Phases ==
  /\ isInit => pc = "frame"
  /\ ~Trying => vec = {} /\ iter = 0 /\ DOMAIN msckf = {}
                /\ (~isInit => clones = {} /\ DOMAIN slam = {})
  /\ pc = "propagate" => iter = 0 /\ DOMAIN slam = {} /\ DOMAIN msckf = {}
  /\ pc = "iterate" => iter < MaxIter
  /\ pc = "solved" => DOMAIN msckf = {}

Anchored ==
  /\ \A f \in DOMAIN slam : slam[f] = timestamp
  /\ \A f \in DOMAIN msckf : msckf[f] \in clones

Selecting ==
  pc = "keyframes" =>
    /\ images = Measured(db) /\ DispTypes
    /\ Picked(images, keyframes) /\ Cardinality(keyframes) = NumPose - remaining
    /\ NumPose <= Cardinality(images) /\ remaining \in 0 .. NumPose - 2
    /\ maxTime \in images \cup {0}

(* How far an attempt has propagated through its key frames: those ahead     *)
(* that have no entry yet are newer than all that have.                      *)
Propagated ==
  Trying =>
    /\ Picked(Measured(db), keyframes) /\ Cardinality(keyframes) = NumPose
    /\ timestamp \in keyframes
    /\ clones = {k \in keyframes : k # Min(Measured(db)) /\ k <= timestamp}
    /\ \A k \in keyframes : k <= timestamp => k \in Taken
    /\ pc = "propagate" => \A x \in Ahead \ Taken, d \in Taken : d < x
    /\ pc # "propagate" => timestamp = Max(Measured(db))

(* One entry more than younger images account for: that of a failure, and    *)
(* for a while that of an attempt's oldest image.                            *)
Marks == IF NoTime \in DOMAIN poses.slotOf THEN 1 ELSE 0
Slack == IF pc = "propagate" /\ Max(Measured(db)) \notin Taken THEN 1 ELSE 0

Pool ==
  ~isInit =>
    /\ Taken \subseteq 1 .. frame
    /\ Kept(Taken, Measured(db)) /\ Settled(Taken, Measured(db))
    /\ pc # "propagate" => Skipped(Taken, Measured(db))
    /\ pc \in {"window", "keyframes"} \/ Trying => Trimmed(Measured(db))
    /\ Aged(poses, Marks + Slack)

(* The slot of the filter's clone when no solve has failed before *)
FirstSlot ==
  isInit /\ NoTime \notin DOMAIN poses.slotOf =>
    poses.next = (poses.slotOf[timestamp] + 1) % RingSize

Handed ==
  /\ HandsOver
  /\ isInit => timestamp \in DOMAIN poses.slotOf /\ FirstSlot

IInv == Types /\ Phases /\ Anchored /\ Selecting /\ Propagated /\ Pool /\ Handed

LEMMA InitIInv == Init => IInv
<1> SUFFICES ASSUME Init PROVE IInv
  OBVIOUS
<1>1. DOMAIN db = {} /\ Measured(db) = {} /\ DOMAIN slam = {} /\ DOMAIN msckf = {}
      /\ DOMAIN poses.slotOf = {} /\ poses.next = 0 /\ ~isInit
      /\ poses = [slotOf |-> poses.slotOf, next |-> poses.next] /\ pc = "frame" /\ ~Trying
  BY DEF Init, EmptyDatabase, Nothing, Measured, Buf!EmptyBuffer, Trying
<1>2. Types
  <2>1. poses.next \in Buf!Slots
    BY <1>1, SlotsAre
  <2>2. NumPose \in Nat /\ LastTime \in Nat /\ MaxIter \in Nat
    BY DynamicAssumption
  <2>3. frame \in 0 .. LastTime /\ iter \in 0 .. MaxIter
    BY <2>2 DEF Init
  <2>4. IsDatabase(db, frame) /\ RingTypes(poses)
    BY <1>1, <2>1 DEF IsDatabase, RingTypes
  <2>5. delta \in {"zero", "step"} /\ options = "configured" /\ backup = "configured"
        /\ isInit \in BOOLEAN /\ vec = {} /\ timestamp = NoTime /\ clones = {}
    BY DEF Init
  <2> QED
    BY <1>1, <2>3, <2>4, <2>5 DEF Types, Times
<1>3. Phases /\ Anchored /\ Selecting /\ Propagated /\ Handed
  BY <1>1 DEF Init, Phases, Anchored, Selecting, Propagated, Handed, HandsOver
<1>4. Pool
  <2>1. Taken = {}
    BY <1>1 DEF Taken, TakenIn
  <2>2. \A e : Aged(poses, e)
    <3> DEFINE none == [t \in DOMAIN poses.slotOf |-> 1]
    <3>1. none \in [DOMAIN poses.slotOf -> Nat \ {0}]
      OBVIOUS
    <3>2. \A t \in DOMAIN poses.slotOf : FALSE
      BY <1>1
    <3> QED
      BY <3>1, <3>2 DEF Aged, TakenIn
  <2> QED
    BY <1>1, <2>1, <2>2 DEF Pool, Kept, Settled, Skipped
<1> QED
  BY <1>2, <1>3, <1>4 DEF IInv

(* The images with measurements are among those that arrived. *)
LEMMA MeasuredImages ==
  ASSUME Types
  PROVE  /\ Measured(db) \in SUBSET (1 .. frame) /\ Measured(db) \in SUBSET Images
         /\ IsFiniteSet(Measured(db)) /\ frame \in Nat
         /\ Taken \in SUBSET Images /\ NoTime \notin Taken
<1>1. frame \in Nat /\ frame <= LastTime /\ LastTime \in Nat
  BY DynamicAssumption DEF Types
<1>2. Measured(db) \in SUBSET (1 .. frame)
  BY DEF Types, IsDatabase, Measured
<1>3. 1 .. frame \subseteq Images
  BY <1>1 DEF Images
<1>4. Taken \in SUBSET Images /\ NoTime \notin Taken
  BY DEF Types, RingTypes, Taken, TakenIn, Times
<1> QED
  BY <1>1, <1>2, <1>3, <1>4, ImagesFinite

-----------------------------------------------------------------------------
(* The invariant is kept, action by action.                                  *)

(* A frame that is not in an attempt's middle changes the database only. *)
LEMMA FrameStep == ASSUME IInv, Frame PROVE IInv'
<1> USE DEF IInv
<1>1. /\ pc = "frame" /\ ~isInit /\ frame < LastTime /\ frame' = frame + 1 /\ pc' = "choose"
      /\ UNCHANGED <<selectVars, stateVars, solveVars>>
      /\ vec = {} /\ iter = 0 /\ clones = {} /\ DOMAIN slam = {} /\ DOMAIN msckf = {}
  BY DEF Frame, Phases, Trying
<1>2. PICK S \in SUBSET Feats : db' = UpdateFeatures(db, S, frame + 1)
  BY <1>1 DEF Frame
<1>3. /\ IsDatabase(db', frame + 1)
      /\ Measured(db') \in {Measured(db), Measured(db) \cup {frame + 1}}
  BY <1>2, MeasuredImages, UpdateGives DEF Types
<1>4. frame \in Nat /\ frame + 1 \in 1 .. LastTime
  BY <1>1, MeasuredImages, DynamicAssumption DEF Types
<1>5. Types'
  <2>1. frame' \in 0 .. LastTime /\ IsDatabase(db', frame') /\ vec' \subseteq DOMAIN db'
    BY <1>1, <1>3, <1>4 DEF solveVars
  <2> QED
    BY <1>1, <2>1 DEF Types, stateVars, solveVars, RingTypes
<1>6. Phases' /\ Anchored' /\ Selecting' /\ Propagated' /\ Handed'
  BY <1>1 DEF Phases, Anchored, Selecting, Propagated, Handed, HandsOver, Trying, stateVars,
              solveVars
<1>7. Pool'
  <2>1. Taken' = Taken /\ poses' = poses /\ Taken \subseteq 1 .. frame /\ ~isInit
    BY <1>1 DEF Pool, Taken, stateVars
  <2>2. Kept(Taken, Measured(db)) /\ Settled(Taken, Measured(db)) /\ Skipped(Taken, Measured(db))
        /\ Aged(poses, Marks + Slack)
    BY <1>1 DEF Pool
  <2>3. Kept(Taken, Measured(db')) /\ Settled(Taken, Measured(db'))
        /\ Skipped(Taken, Measured(db'))
    <3>1. CASE Measured(db') = Measured(db)
      BY <2>2, <3>1
    <3>2. CASE Measured(db') = Measured(db) \cup {frame + 1}
      BY <1>4, <2>1, <2>2, <3>2, MeasuredImages, FrameKeeps DEF Images
    <3> QED
      BY <1>3, <3>1, <3>2
  <2>4. Taken' \subseteq 1 .. frame'
    BY <1>1, <1>4, <2>1
  <2>5. Marks' + Slack' = Marks + Slack
    BY <1>1, <2>1 DEF Marks, Slack
  <2> QED
    BY <1>1, <2>1, <2>2, <2>3, <2>4, <2>5 DEF Pool, Trying
<1> QED
  BY <1>5, <1>6, <1>7

LEMMA ChooseMethodStep == ASSUME IInv, ChooseMethod PROVE IInv'
<1> USE DEF IInv
<1>1. /\ pc = "choose" /\ ~isInit /\ UNCHANGED <<frame, stateVars, solveVars>>
      /\ pc' \in {"frame", "window"} /\ (pc' = "window" => WindowReached)
      /\ vec = {} /\ iter = 0 /\ clones = {} /\ DOMAIN slam = {} /\ DOMAIN msckf = {}
      /\ ((db' = db /\ ~WindowReached)
          \/ (db' = CleanupMeasurements(db, WindowStart) /\ WindowReached))
  <2>1. pc = "choose" /\ UNCHANGED <<frame, stateVars, solveVars>>
        /\ pc' \in {"frame", "window"} /\ (pc' = "window" => WindowReached)
        /\ ((db' = db /\ ~WindowReached)
            \/ (db' = CleanupMeasurements(db, WindowStart) /\ WindowReached))
    BY DEF ChooseMethod, Leave
  <2> QED
    BY <2>1 DEF Phases, Trying
<1>2. IsDatabase(db', frame)
  BY <1>1, CleanupGives DEF Types
<1>3. Types'
  <2>1. vec' = {} /\ IsDatabase(db', frame')
    BY <1>1, <1>2 DEF solveVars
  <2> QED
    BY <1>1, <2>1 DEF Types, stateVars, solveVars, RingTypes
<1>4. Phases' /\ Anchored' /\ Selecting' /\ Propagated' /\ Handed'
  BY <1>1 DEF Phases, Anchored, Selecting, Propagated, Handed, HandsOver, Trying, stateVars,
              solveVars
<1>5. Pool'
  <2>1. Taken' = Taken /\ poses' = poses /\ frame' = frame /\ Taken \subseteq 1 .. frame
    BY <1>1 DEF Pool, Taken, stateVars
  <2>2. Kept(Taken, Measured(db)) /\ Settled(Taken, Measured(db)) /\ Skipped(Taken, Measured(db))
        /\ Aged(poses, Marks + Slack)
    BY <1>1 DEF Pool
  <2>3. Kept(Taken, Measured(db')) /\ Settled(Taken, Measured(db'))
        /\ Skipped(Taken, Measured(db')) /\ (pc' = "window" => Trimmed(Measured(db')))
    <3>1. CASE db' = db /\ ~WindowReached
      BY <1>1, <2>2, <3>1
    <3>2. CASE db' = CleanupMeasurements(db, WindowStart) /\ WindowReached
      <4>1. Measured(db) # {}
        BY <3>2 DEF WindowReached
      <4>2. Measured(db') =
              {u \in Measured(db) : u > Max(Measured(db)) - WindowTime - WindowOffset}
        BY <3>2, CleanupGives DEF WindowStart
      <4> QED
        BY <2>2, <4>1, <4>2, MeasuredImages, TrimKeeps
    <3> QED
      BY <1>1, <3>1, <3>2
  <2>4. Marks' + Slack' = Marks + Slack
    BY <1>1, <2>1 DEF Marks, Slack
  <2> QED
    BY <1>1, <2>1, <2>2, <2>3, <2>4 DEF Pool, Trying
<1> QED
  BY <1>3, <1>4, <1>5

(* The pool stays while no image is measured and none takes a slot. *)
LEMMA PoolKept ==
  ASSUME Pool, UNCHANGED <<frame, db, poses, isInit>>, pc # "propagate", pc' # "propagate",
         pc' \in {"window", "keyframes"} \/ Trying' => pc \in {"window", "keyframes"} \/ Trying
  PROVE  Pool'
<1>1. Taken' = Taken /\ Marks' + Slack' = Marks + Slack
  BY DEF Taken, Marks, Slack
<1> QED
  BY <1>1 DEF Pool

(* Nothing else either while the solver is not at work. *)
LEMMA SelectionKeeps ==
  ASSUME IInv, UNCHANGED <<frame, db, stateVars, solveVars>>, pc \in {"window", "keyframes"},
         pc' \in {"frame", "keyframes"}
  PROVE  Types' /\ Phases' /\ Anchored' /\ Propagated' /\ Handed' /\ Pool'
<1> USE DEF IInv
<1>1. ~isInit /\ ~Trying /\ ~Trying'
  BY DEF Phases, Trying
<1>2. Types'
  BY DEF Types, stateVars, solveVars, RingTypes, IsDatabase
<1>3. Phases' /\ Anchored' /\ Propagated' /\ Handed'
  BY <1>1 DEF Phases, Anchored, Propagated, Handed, HandsOver, stateVars, solveVars
<1>4. Pool'
  BY <1>1, PoolKept DEF stateVars
<1> QED
  BY <1>2, <1>3, <1>4

LEMMA CheckWindowStep == ASSUME IInv, CheckWindow PROVE IInv'
<1>1. /\ pc = "window" /\ UNCHANGED <<frame, db, stateVars, solveVars>>
      /\ IF EnoughImages THEN KF!Begin(Measured(db)) /\ pc' = "keyframes" ELSE Leave
  BY DEF CheckWindow, trackVars
<1>2. pc' \in {"frame", "keyframes"}
  BY <1>1 DEF Leave
<1>3. Selecting'
  <2>1. CASE EnoughImages
    <3> DEFINE I == Measured(db)
    <3>1. /\ images' = I /\ disp' \in [KF!Pairs(I) -> Disparities \cup {KF!Invalid}]
          /\ keyframes' = {Min(I), Max(I)} /\ maxTime' = 0 /\ remaining' = NumPose - 2
      BY <1>1, <2>1, SameEnds DEF KF!Begin
    <3>2. I \in SUBSET Images /\ Cardinality(I) \in Nat
      BY MeasuredImages, ImagesFinite DEF IInv
    <3>3. Cardinality(I) >= NumPose /\ NumPose \in Nat /\ NumPose >= 2
      BY <2>1, DynamicAssumption DEF EnoughImages
    <3> HIDE DEF I
    <3>4. Picked(I, {Min(I), Max(I)}) /\ Cardinality({Min(I), Max(I)}) = 2
      BY <3>2, <3>3, PickedBegins
    <3>5. NumPose - (NumPose - 2) = 2 /\ NumPose - 2 \in 0 .. NumPose - 2
      BY <3>3
    <3>6. Measured(db') = I
      BY <1>1 DEF I
    <3>7. DispTypes'
      BY <3>1 DEF DispTypes, KF!Pairs
    <3>8. Picked(images', keyframes') /\ Cardinality(keyframes') = NumPose - remaining'
      BY <3>1, <3>4, <3>5
    <3> QED
      BY <3>1, <3>2, <3>3, <3>5, <3>6, <3>7, <3>8 DEF Selecting
  <2>2. CASE ~EnoughImages
    BY <1>1, <2>2 DEF Leave, Selecting
  <2> QED
    BY <2>1, <2>2
<1> QED
  BY <1>1, <1>2, <1>3, SelectionKeeps DEF IInv

(* There is a candidate while key frames remain, and the newest is taken. *)
LEMMA AddsNewest ==
  ASSUME IInv, AddKeyframe
  PROVE  images \ keyframes # {} /\ maxTime' = Max(images \ keyframes)
<1>1. pc = "keyframes" /\ KF!AddKeyframe
  BY DEF AddKeyframe
<1>2. /\ images = Measured(db) /\ DispTypes
      /\ Picked(images, keyframes) /\ Cardinality(keyframes) = NumPose - remaining
      /\ NumPose <= Cardinality(images) /\ remaining \in 0 .. NumPose - 2
  BY <1>1 DEF IInv, Selecting
<1>3. /\ remaining > 0
      /\ maxTime' = IF images \ keyframes = {} THEN maxTime
                    ELSE KF!Offer(Max(images \ keyframes))
  BY <1>1, SameEnds DEF KF!AddKeyframe, KF!Candidates
<1>4. images \in SUBSET Images /\ images \ keyframes \in SUBSET Images
      /\ Cardinality(images) \in Nat
  BY <1>2, MeasuredImages, ImagesFinite DEF IInv
<1>5. NumPose \in Nat /\ remaining \in Nat /\ remaining <= NumPose - 2
  BY <1>2, DynamicAssumption
<1>6. images \ keyframes # {}
  <2> SUFFICES ASSUME images \subseteq keyframes PROVE FALSE
    OBVIOUS
  <2>1. images = keyframes
    BY <1>2 DEF Picked
  <2>2. Cardinality(images) = NumPose - remaining
    BY <1>2, <2>1
  <2> QED
    BY <1>2, <1>3, <1>5, <2>2
<1>7. Max(images \ keyframes) \in images
  BY <1>4, <1>6, EndsOfImages
<1>8. KF!Offer(Max(images \ keyframes)) = Max(images \ keyframes)
  BY <1>2, <1>4, <1>7, OfferIs
<1> QED
  BY <1>3, <1>6, <1>8

LEMMA AddKeyframeStep == ASSUME IInv, AddKeyframe PROVE IInv'
<1>1. /\ pc = "keyframes" /\ UNCHANGED <<frame, db, stateVars, solveVars, pc>>
      /\ KF!AddKeyframe
  BY DEF AddKeyframe, trackVars
<1>2. /\ images = Measured(db) /\ DispTypes
      /\ Picked(images, keyframes) /\ Cardinality(keyframes) = NumPose - remaining
      /\ NumPose <= Cardinality(images) /\ remaining \in 0 .. NumPose - 2
  BY <1>1 DEF IInv, Selecting
<1>3. /\ remaining > 0 /\ remaining' = remaining - 1 /\ UNCHANGED <<images, disp>>
      /\ keyframes' = keyframes \cup {maxTime'}
  BY <1>1 DEF KF!AddKeyframe
<1>4. images \in SUBSET Images
  BY <1>2, MeasuredImages DEF IInv
<1>5. NumPose \in Nat /\ remaining \in Nat /\ remaining <= NumPose - 2
  BY <1>2, DynamicAssumption
<1>6. images \ keyframes # {}
  BY AddsNewest
<1> DEFINE x == Max(images \ keyframes)
<1>7. /\ x \in images \ keyframes /\ Picked(images, keyframes \cup {x})
      /\ Cardinality(keyframes \cup {x}) = Cardinality(keyframes) + 1
  BY <1>2, <1>4, <1>6, PickedGrows
<1>8. maxTime' = x
  BY AddsNewest
<1> HIDE DEF x
<1>9. Cardinality(keyframes') = NumPose - remaining' /\ remaining' \in 0 .. NumPose - 2
  <2>1. Cardinality(keyframes') = NumPose - remaining + 1
    BY <1>2, <1>3, <1>7, <1>8
  <2>2. NumPose - remaining + 1 = NumPose - (remaining - 1) /\ remaining - 1 \in 0 .. NumPose - 2
    BY <1>3, <1>5
  <2> QED
    BY <1>3, <2>1, <2>2
<1>10. Selecting'
  <2>1. Measured(db') = images' /\ DispTypes' /\ Picked(images', keyframes')
        /\ NumPose <= Cardinality(images') /\ maxTime' \in images' \cup {0}
    BY <1>1, <1>2, <1>3, <1>7, <1>8 DEF DispTypes, KF!Pairs
  <2> QED
    BY <1>9, <2>1 DEF Selecting
<1> QED
  BY <1>1, <1>10, SelectionKeeps DEF IInv

LEMMA RefuseStep == ASSUME IInv, Refuse PROVE IInv'
<1>1. pc = "keyframes" /\ pc' = "frame" /\ UNCHANGED <<frame, db, stateVars, solveVars>>
  BY DEF Refuse, Leave, trackVars
<1>2. Selecting'
  BY <1>1 DEF Selecting
<1> QED
  BY <1>1, <1>2, SelectionKeeps DEF IInv

-----------------------------------------------------------------------------
(* Steps of the solver that take slots of the pose ring                      *)

LEMMA PickedOldest ==
  ASSUME NEW I \in SUBSET Images, I # {}, NEW K, Picked(I, K)
  PROVE  Min(K) = Min(I) /\ \A k \in K : Min(I) <= k /\ k <= Max(I)
<1>1. /\ Min(I) \in I /\ (\A u \in I : Min(I) <= u) /\ (\A u \in I : u <= Max(I))
      /\ I \subseteq Nat /\ K \subseteq I /\ Min(I) \in K
  BY EndsOfImages, ImagesFinite DEF Picked
<1>2. Min(K) \in K /\ Min(K) <= Min(I)
  BY <1>1, MinIs
<1>3. Min(I) <= Min(K) /\ Min(I) \in Nat /\ Min(K) \in Nat
  BY <1>1, <1>2
<1>4. Min(K) = Min(I)
  BY <1>2, <1>3
<1> QED
  BY <1>1, <1>4

LEMMA AgedWeaker ==
  ASSUME NEW p, RingTypes(p), NEW e \in Nat, Aged(p, e), NEW f \in Nat, e <= f
  PROVE  Aged(p, f)
<1>1. PICK age \in [DOMAIN p.slotOf -> Nat \ {0}] :
        /\ \A t, u \in DOMAIN p.slotOf : age[t] = age[u] => t = u
        /\ \A t \in DOMAIN p.slotOf : age[t] <= RingSize => Age(p.next, p.slotOf[t]) = age[t]
        /\ \A t \in TakenIn(p) : age[t] <= 1 + e + 2 * Cardinality(Newer(TakenIn(p), t))
  BY DEF Aged
<1>2. ASSUME NEW t \in TakenIn(p)
      PROVE  age[t] <= 1 + f + 2 * Cardinality(Newer(TakenIn(p), t))
  <2>1. Newer(TakenIn(p), t) \in SUBSET Images
    BY DEF Newer, TakenIn, RingTypes, Times
  <2>2. Cardinality(Newer(TakenIn(p), t)) \in Nat /\ age[t] \in Nat
    BY <2>1, ImagesFinite DEF TakenIn
  <2>3. age[t] <= 1 + e + 2 * Cardinality(Newer(TakenIn(p), t))
    BY <1>1
  <2> QED
    BY <2>2, <2>3
<1> QED
  BY <1>1, <1>2 DEF Aged

(* A key frame that no attempt has had is newer than all images that were in *)
(* one: an older one would have been among the newest then.                  *)
LEMMA NewKeyframes ==
  ASSUME NEW T \in SUBSET Images, NEW I \in SUBSET Images, I # {}, Skipped(T, I),
         NEW K, Picked(I, K), Cardinality(K) = NumPose,
         NEW x \in K \ T, x # Min(I), NEW d \in T
  PROVE  d < x
<1> SUFFICES ASSUME ~(d < x) PROVE FALSE
  OBVIOUS
<1>1. x \in I \ T /\ d \in Nat /\ x \in Nat /\ d # x
  BY ImagesFinite DEF Picked
<1>2. x < d
  BY <1>1
<1>3. Cardinality(Spanned(T, I, x)) >= NumPose - 1
  BY <1>1, <1>2 DEF Skipped
<1>4. Spanned(T, I, x) \in SUBSET Newer(I, x) /\ Newer(I, x) \in SUBSET Images
  BY <1>1, ImagesFinite DEF Spanned, Newer
<1>5. Cardinality(Newer(I, x)) <= NumPose - 2
  BY PickedNewest
<1>6. Cardinality(Spanned(T, I, x)) <= Cardinality(Newer(I, x))
      /\ Cardinality(Spanned(T, I, x)) \in Nat /\ Cardinality(Newer(I, x)) \in Nat
  BY <1>4, FewerImages
<1>7. NumPose \in Nat
  BY DynamicAssumption
<1> QED
  BY <1>3, <1>5, <1>6, <1>7

(* The oldest image may be older than entries that are there already; then   *)
(* the newest is still to come and makes good for it.                        *)
LEMMA BeginSolveStep == ASSUME IInv, BeginSolve PROVE IInv'
<1> DEFINE M == Measured(db)
           m == Min(M)
<1>1. /\ pc = "keyframes" /\ remaining = 0 /\ pc' = "propagate" /\ iter' = 0
      /\ InitializeState(Min(keyframes)) /\ backup' = options /\ options' = "solver"
      /\ UNCHANGED <<frame, db, keyframes, remaining, delta>>
      /\ vec' \subseteq DOMAIN db
  BY DEF BeginSolve, trackVars, Ranked
<1>2. ~isInit /\ ~Trying
  BY <1>1 DEF IInv, Phases, Trying
<1>3. /\ M \in SUBSET Images /\ M \in SUBSET (1 .. frame) /\ M \subseteq Nat
      /\ Taken \in SUBSET Images /\ NoTime \notin Taken
  BY MeasuredImages, ImagesFinite DEF IInv
<1>4. Picked(M, keyframes) /\ Cardinality(keyframes) = NumPose /\ M # {}
  <2>1. /\ images = M /\ Picked(images, keyframes)
        /\ Cardinality(keyframes) = NumPose - remaining /\ NumPose <= Cardinality(images)
    BY <1>1 DEF IInv, Selecting
  <2>2. NumPose \in Nat /\ NumPose >= 2
    BY DynamicAssumption
  <2>3. M # {}
    BY <2>1, <2>2, FS_EmptySet
  <2> HIDE DEF M
  <2> QED
    BY <1>1, <2>1, <2>2, <2>3
<1>5. /\ Min(keyframes) = m /\ (\A k \in keyframes : m <= k)
      /\ m < Max(M) /\ m \in M /\ Max(M) \in M
  BY <1>3, <1>4, PickedOldest, PickedNewest, EndsOfImages
<1>6. /\ Kept(Taken, M) /\ Settled(Taken, M) /\ Skipped(Taken, M) /\ Trimmed(M)
      /\ Aged(poses, Marks + Slack) /\ Taken \subseteq 1 .. frame
  BY <1>1, <1>2 DEF IInv, Pool
<1>7. Slack = 0 /\ Marks \in {0, 1}
  BY <1>1 DEF Slack, Marks
<1> HIDE DEF m
<1>8. m \in Images /\ m # NoTime /\ m \in Times /\ m \in Nat /\ m \in 1 .. frame
  BY <1>3, <1>5, ImagesFinite DEF Times
<1>9. /\ timestamp' = m /\ clones' = {} /\ DOMAIN slam' = {} /\ DOMAIN msckf' = {}
      /\ isInit' = FALSE /\ poses' = Buf!AddTimestamp(poses, m)
  BY <1>1, <1>5 DEF InitializeState, Nothing
<1>10. RingTypes(poses)
  BY DEF IInv, Types
<1>11. RingTypes(poses') /\ DOMAIN poses'.slotOf = DOMAIN poses.slotOf \cup {m}
       /\ (m \in DOMAIN poses.slotOf => poses' = poses)
  BY <1>8, <1>9, <1>10, AddGives
<1>12. Taken' = Taken \cup {m} /\ Marks' = Marks
  BY <1>8, <1>11 DEF Taken, TakenIn, Marks
<1>13. Measured(db') = M /\ frame' = frame /\ keyframes' = keyframes
  BY <1>1
<1>14. Slack' = IF Max(M) \notin Taken' THEN 1 ELSE 0
  BY <1>1, <1>13 DEF Slack
<1>15. Types'
  <2>1. DOMAIN slam' \subseteq Feats /\ DOMAIN msckf' \subseteq Feats /\ clones' \subseteq Images
        /\ timestamp' \in Times /\ isInit' \in BOOLEAN /\ vec' \subseteq DOMAIN db'
    BY <1>1, <1>8, <1>9
  <2>2. iter' \in 0 .. MaxIter
    <3>1. MaxIter \in Nat
      BY DynamicAssumption
    <3> QED
      BY <1>1, <3>1
  <2> QED
    BY <1>1, <1>11, <2>1, <2>2 DEF IInv, Types, IsDatabase
<1>16. Phases' /\ Anchored' /\ Selecting' /\ Handed'
  BY <1>1, <1>9 DEF Phases, Anchored, Selecting, Handed, HandsOver, Trying
<1>17. Propagated'
  <2>1. m \in keyframes
    BY <1>4 DEF Picked, m
  <2>2. \A k \in keyframes : k <= m => k = m
    <3>1. \A k \in keyframes : k \in Nat
      BY <1>3, <1>4 DEF Picked
    <3> QED
      BY <1>5, <1>8, <3>1
  <2>3. {k \in keyframes : k # m /\ k <= m} = {}
    BY <2>2
  <2>4. ASSUME NEW x \in Ahead' \ Taken', NEW d \in Taken' PROVE d < x
    <3>1. x \in keyframes /\ x > m /\ x # m /\ x \notin Taken /\ x \in Nat
      BY <1>3, <1>4, <1>8, <1>9, <1>12, <1>13, <2>4 DEF Ahead, Picked
    <3>2. CASE d = m
      BY <1>8, <3>1, <3>2
    <3>3. CASE d \in Taken
      BY <1>3, <1>4, <1>6, <3>1, <3>3, NewKeyframes DEF m
    <3> QED
      BY <1>12, <2>4, <3>2, <3>3
  <2> QED
    BY <1>1, <1>4, <1>9, <1>12, <1>13, <2>1, <2>2, <2>3, <2>4 DEF Propagated, m
<1>18. Aged(poses', Marks' + Slack')
  <2>0. RingTypes(poses) /\ Aged(poses, Marks) /\ Marks \in Nat
    BY <1>6, <1>7, <1>10
  <2>1. CASE m \in DOMAIN poses.slotOf
    <3>1. Marks + Slack' \in Nat /\ Marks <= Marks + Slack'
      BY <1>7, <1>14
    <3>2. Aged(poses, Marks + Slack')
      BY <2>0, <3>1, AgedWeaker
    <3> QED
      BY <1>11, <1>12, <2>1, <3>2
  <2>2. CASE m \notin DOMAIN poses.slotOf
    <3>1. m \notin Taken
      BY <2>2 DEF Taken, TakenIn
    <3>2. Max(M) \notin Taken
      BY <1>4, <1>6, <3>1 DEF Settled, m
    <3>3. Max(M) \notin Taken'
      <4>1. Max(M) # m
        BY <1>3, <1>5, <1>8
      <4> QED
        BY <1>12, <3>2, <4>1
    <3>4. Slack' = 1
      BY <1>14, <3>3
    <3>5. Marks + 1 \in Nat
      BY <1>7
    <3>6. Aged(Buf!AddTimestamp(poses, m), Marks + 1)
      BY <1>8, <2>0, <2>2, <3>5, AgedGrows
    <3> QED
      BY <1>9, <1>12, <3>4, <3>6
  <2> QED
    BY <2>1, <2>2
<1>19. Pool'
  <2>1. Taken' \subseteq 1 .. frame
    BY <1>6, <1>8, <1>12
  <2>2. Kept(Taken', M)
    BY <1>5, <1>6, <1>12 DEF Kept
  <2>3. Settled(Taken', M)
    BY <1>6, <1>12 DEF Settled, m
  <2> QED
    BY <1>1, <1>6, <1>13, <1>18, <2>1, <2>2, <2>3 DEF Pool
<1> QED
  BY <1>15, <1>16, <1>17, <1>19 DEF IInv

(* What an attempt that propagates knows *)
LEMMA OnItsWay ==
  ASSUME IInv, pc = "propagate"
  PROVE  LET M == Measured(db)
         IN  /\ ~isInit /\ Trying /\ iter = 0 /\ DOMAIN slam = {} /\ DOMAIN msckf = {}
             /\ M # {} /\ Picked(M, keyframes) /\ keyframes \subseteq Nat
             /\ keyframes \subseteq Images /\ timestamp \in keyframes
             /\ timestamp \in Nat /\ Min(M) \in Nat /\ Max(M) \in Nat
             /\ Min(M) \in keyframes /\ Max(M) \in keyframes
             /\ \A k \in keyframes : Min(M) <= k /\ k <= Max(M)
<1> DEFINE M == Measured(db)
<1>1. ~isInit /\ Trying /\ iter = 0 /\ DOMAIN slam = {} /\ DOMAIN msckf = {}
  BY DEF IInv, Phases, Trying
<1>2. Picked(M, keyframes) /\ timestamp \in keyframes
  BY <1>1 DEF IInv, Propagated
<1>3. M \in SUBSET Images /\ M # {} /\ keyframes \subseteq M /\ Images \subseteq Nat
  BY <1>2, MeasuredImages, ImagesFinite DEF IInv, Picked
<1>4. /\ \A k \in keyframes : Min(M) <= k /\ k <= Max(M)
      /\ Min(M) \in keyframes /\ Max(M) \in keyframes
  BY <1>2, <1>3, PickedOldest DEF Picked
<1> HIDE DEF M
<1>5. keyframes \subseteq Nat /\ keyframes \subseteq Images
  BY <1>3
<1>6. timestamp \in Nat /\ Min(M) \in Nat /\ Max(M) \in Nat
  BY <1>2, <1>4, <1>5
<1> QED
  BY <1>1, <1>2, <1>3, <1>4, <1>5, <1>6 DEF M

LEMMA CloneKeyframeStep == ASSUME IInv, CloneKeyframe PROVE IInv'
<1> DEFINE M == Measured(db)
           x == Min(Ahead)
<1>1. /\ pc = "propagate" /\ pc' = "propagate" /\ Ahead # {}
      /\ timestamp' = x /\ poses' = Buf!AddTimestamp(poses, x) /\ clones' = clones \cup {x}
      /\ UNCHANGED <<frame, db, selectVars, slam, msckf, isInit, solveVars>>
  BY DEF CloneKeyframe, trackVars
<1>2. /\ ~isInit /\ Trying /\ iter = 0 /\ DOMAIN slam = {} /\ DOMAIN msckf = {}
      /\ M # {} /\ Picked(M, keyframes) /\ keyframes \subseteq Nat /\ keyframes \subseteq Images
      /\ timestamp \in keyframes /\ timestamp \in Nat /\ Min(M) \in Nat /\ Max(M) \in Nat
      /\ Min(M) \in keyframes /\ Max(M) \in keyframes
      /\ \A k \in keyframes : Min(M) <= k /\ k <= Max(M)
  BY <1>1, OnItsWay
<1>3. /\ Cardinality(keyframes) = NumPose
      /\ clones = {k \in keyframes : k # Min(M) /\ k <= timestamp}
      /\ \A k \in keyframes : k <= timestamp => k \in Taken
      /\ \A y \in Ahead \ Taken, d \in Taken : d < y
  BY <1>1, <1>2 DEF IInv, Propagated
<1>4. /\ Kept(Taken, M) /\ Trimmed(M) /\ Aged(poses, Marks + Slack) /\ Taken \subseteq 1 .. frame
  BY <1>2 DEF IInv, Pool
<1> HIDE DEF M
<1>5. x \in keyframes /\ x > timestamp /\ (\A k \in keyframes : k > timestamp => x <= k)
  <2>1. Ahead \in SUBSET Nat /\ Ahead \in SUBSET keyframes
    BY <1>2 DEF Ahead
  <2>2. x \in Ahead /\ \A u \in Ahead : x <= u
    BY <1>1, <2>1, MinIs
  <2> HIDE DEF x
  <2> QED
    BY <2>2 DEF Ahead
<1> HIDE DEF x
<1>6. x \in Images /\ x \in Nat /\ x # NoTime /\ x \in Times /\ x \in M /\ x \in 1 .. frame
  <2>1. M \in SUBSET (1 .. frame) /\ M \in SUBSET Images
    BY MeasuredImages DEF IInv, M
  <2>2. x \in M
    BY <1>2, <1>5 DEF Picked
  <2> QED
    BY <2>1, <2>2, ImagesFinite DEF Times
<1>7. RingTypes(poses)
  BY DEF IInv, Types
<1>8. RingTypes(poses') /\ DOMAIN poses'.slotOf = DOMAIN poses.slotOf \cup {x}
      /\ (x \in DOMAIN poses.slotOf => poses' = poses)
  BY <1>1, <1>6, <1>7, AddGives
<1>9. Taken' = Taken \cup {x} /\ Marks' = Marks
  BY <1>6, <1>8 DEF Taken, TakenIn, Marks
<1>10. Measured(db') = M /\ keyframes' = keyframes /\ frame' = frame
  BY <1>1 DEF selectVars, M
<1>11. Slack = (IF Max(M) \notin Taken THEN 1 ELSE 0)
       /\ Slack' = (IF Max(M) \notin Taken' THEN 1 ELSE 0) /\ Marks \in {0, 1}
  BY <1>1, <1>10 DEF Slack, Marks, M
<1>12. Types'
  <2>1. clones' \subseteq Images /\ timestamp' \in Times
    BY <1>1, <1>6 DEF IInv, Types
  <2> QED
    BY <1>1, <1>8, <2>1 DEF IInv, Types, solveVars, IsDatabase
<1>13. Phases' /\ Anchored' /\ Selecting' /\ Handed'
  BY <1>1, <1>2 DEF Phases, Anchored, Selecting, Handed, HandsOver, Trying, solveVars
<1>14. Propagated'
  <2>1. \A k \in keyframes : k <= x <=> (k <= timestamp \/ k = x)
    <3> SUFFICES ASSUME NEW k \in keyframes PROVE k <= x <=> (k <= timestamp \/ k = x)
      OBVIOUS
    <3>1. k \in Nat /\ (k > timestamp => x <= k)
      BY <1>2, <1>5
    <3> QED
      BY <1>2, <1>5, <1>6, <3>1
  <2>2. x # Min(M)
    <3>1. Min(M) <= timestamp
      BY <1>2
    <3> QED
      BY <1>2, <1>5, <1>6, <3>1
  <2>3. clones' = {k \in keyframes : k # Min(M) /\ k <= x}
    BY <1>1, <1>3, <1>5, <2>1, <2>2
  <2>4. \A k \in keyframes : k <= x => k \in Taken'
    BY <1>3, <1>9, <2>1
  <2>5. ASSUME NEW y \in Ahead' \ Taken', NEW d \in Taken' PROVE d < y
    <3>1. y \in keyframes /\ y > x /\ y \in Nat /\ y \notin Taken
      BY <1>1, <1>2, <1>9, <1>10, <2>5 DEF Ahead
    <3>2. y \in Ahead
      BY <1>2, <1>5, <1>6, <3>1 DEF Ahead
    <3>3. CASE d = x
      BY <1>6, <3>1, <3>3
    <3>4. CASE d \in Taken
      BY <1>3, <3>1, <3>2, <3>4
    <3> QED
      BY <1>9, <2>5, <3>3, <3>4
  <2> QED
    BY <1>1, <1>2, <1>3, <1>5, <1>10, <2>3, <2>4, <2>5 DEF Propagated
<1>15. Aged(poses', Marks' + Slack')
  <2>1. CASE x \in DOMAIN poses.slotOf
    <3>1. Taken' = Taken
      BY <1>6, <1>9, <2>1 DEF Taken, TakenIn
    <3> QED
      BY <1>4, <1>8, <1>9, <1>11, <2>1, <3>1
  <2>2. CASE x \notin DOMAIN poses.slotOf
    <3>1. x \in Ahead /\ x \notin Taken
      BY <1>5, <2>2 DEF Ahead, Taken, TakenIn
    <3>2. \A d \in Taken : d < x
      BY <1>3, <3>1
    <3>3. Max(M) \notin Taken
      <4>1. x <= Max(M)
        BY <1>2, <1>5
      <4> QED
        BY <1>2, <1>6, <3>2, <4>1
    <3>4. Slack = 1 /\ Slack' \in {0, 1}
      BY <1>11, <3>3
    <3>5. /\ Marks + Slack \in Nat /\ Marks + Slack' \in Nat
          /\ Marks + Slack <= Marks + Slack' + 1
      BY <1>11, <3>4
    <3>6. Aged(Buf!AddTimestamp(poses, x), Marks + Slack')
      BY <1>4, <1>6, <1>7, <2>2, <3>2, <3>5, AgedGrows DEF Taken
    <3> QED
      BY <1>1, <1>9, <3>6
  <2> QED
    BY <2>1, <2>2
<1>16. Pool'
  <2>1. Taken' \subseteq 1 .. frame /\ Kept(Taken', M)
    BY <1>4, <1>6, <1>9 DEF Kept
  <2>2. Settled(Taken', M)
    <3>1. Min(M) \in Taken'
      BY <1>2, <1>3, <1>9
    <3> QED
      BY <1>4, <3>1 DEF Settled
  <2> QED
    BY <1>1, <1>4, <1>10, <1>15, <2>1, <2>2 DEF Pool
<1> QED
  BY <1>12, <1>13, <1>14, <1>16 DEF IInv

(* All newest images but the oldest one have their entries now. *)
LEMMA StartIterationsStep == ASSUME IInv, StartIterations PROVE IInv'
<1> DEFINE M == Measured(db)
<1>1. /\ pc = "propagate" /\ pc' \in {"conclude", "iterate"} /\ Ahead = {}
      /\ (MaxIter = 0 => pc' = "conclude")
      /\ UNCHANGED <<frame, db, selectVars, stateVars, solveVars>>
  BY DEF StartIterations, trackVars
<1>2. /\ ~isInit /\ Trying /\ iter = 0 /\ DOMAIN slam = {} /\ DOMAIN msckf = {}
      /\ M # {} /\ Picked(M, keyframes) /\ keyframes \subseteq Nat /\ keyframes \subseteq Images
      /\ timestamp \in keyframes /\ timestamp \in Nat /\ Min(M) \in Nat /\ Max(M) \in Nat
      /\ Min(M) \in keyframes /\ Max(M) \in keyframes
      /\ \A k \in keyframes : Min(M) <= k /\ k <= Max(M)
  BY <1>1, OnItsWay
<1>3. /\ Cardinality(keyframes) = NumPose
      /\ clones = {k \in keyframes : k # Min(M) /\ k <= timestamp}
      /\ \A k \in keyframes : k <= timestamp => k \in Taken
  BY <1>1, <1>2 DEF IInv, Propagated
<1>4. /\ Kept(Taken, M) /\ Settled(Taken, M) /\ Trimmed(M) /\ Aged(poses, Marks + Slack)
      /\ Taken \subseteq 1 .. frame /\ M \in SUBSET Images
  BY <1>2, MeasuredImages DEF IInv, Pool
<1>5. \A k \in keyframes : k <= timestamp /\ k \in Taken
  <2> SUFFICES ASSUME NEW k \in keyframes PROVE k <= timestamp
    BY <1>3
  <2>1. ~(k > timestamp) /\ k \in Nat
    BY <1>1, <1>2 DEF Ahead
  <2> QED
    BY <1>2, <2>1
<1>6. timestamp = Max(M) /\ Max(M) \in Taken
  <2>1. Max(M) <= timestamp /\ timestamp <= Max(M)
    BY <1>2, <1>5
  <2> QED
    BY <1>2, <1>5, <2>1
<1>7. Slack = 0 /\ Slack' = 0 /\ Marks' = Marks /\ Taken' = Taken
  BY <1>1, <1>6 DEF Slack, Marks, Taken, stateVars
<1>8. Skipped(Taken, M)
  <2> SUFFICES ASSUME NEW u \in M \ Taken
               PROVE  Cardinality(Spanned(Taken, M, u)) >= NumPose - 1
    BY DEF Skipped
  <2>1. Spanned(Taken, M, u) = Newer(M, u)
    <3>1. \A v \in M : v <= Max(M) /\ v \in Nat
      BY <1>4, EndsOfImages, ImagesFinite
    <3>2. \A v \in M : \E d \in Taken : v <= d
      BY <1>6, <3>1
    <3>3. \A v \in M : (u < v) <=> (v > u)
      BY <3>1
    <3> HIDE DEF M
    <3> QED
      BY <3>2, <3>3 DEF Spanned, Newer
  <2>2. u \in M \ keyframes
    BY <1>5
  <2>3. Cardinality(Newer(M, u)) >= NumPose - 1
    BY <1>2, <1>3, <1>4, <2>2, PickedNewest
  <2> QED
    BY <2>1, <2>3
<1> HIDE DEF M
<1>9. Measured(db') = M /\ keyframes' = keyframes /\ timestamp' = timestamp
      /\ poses' = poses /\ frame' = frame
  BY <1>1 DEF selectVars, stateVars, M
<1>10. Types'
  BY <1>1 DEF IInv, Types, solveVars, stateVars, IsDatabase, RingTypes
<1>11. Phases'
  <2>1. MaxIter \in Nat
    BY DynamicAssumption
  <2>2. pc' = "iterate" => 0 < MaxIter
    BY <1>1, <2>1
  <2> QED
    BY <1>1, <1>2, <2>2 DEF Phases, Trying, stateVars, solveVars
<1>12. Anchored' /\ Selecting' /\ Handed'
  BY <1>1, <1>2 DEF Anchored, Selecting, Handed, HandsOver, stateVars
<1>13. Propagated'
  <2>1. clones' = {k \in keyframes : k # Min(M) /\ k <= timestamp}
    BY <1>1, <1>3 DEF stateVars
  <2> QED
    BY <1>1, <1>2, <1>3, <1>5, <1>6, <1>7, <1>9, <2>1 DEF Propagated
<1>14. Pool'
  BY <1>1, <1>4, <1>7, <1>8, <1>9 DEF Pool
<1> QED
  BY <1>10, <1>11, <1>12, <1>13, <1>14 DEF IInv

-----------------------------------------------------------------------------
(* Steps of the solver behind the propagation                                *)

(* The state is at the newest image by now, which is a clone and the         *)
(* youngest of the images with an entry.                                     *)
LEMMA Arrived ==
  ASSUME IInv, Trying, pc # "propagate"
  PROVE  /\ ~isInit /\ timestamp = Max(Measured(db)) /\ timestamp \in clones
         /\ timestamp \in Taken /\ clones \subseteq Taken /\ clones \subseteq Images
         /\ Newer(Taken, timestamp) = {} /\ Newer(Measured(db), timestamp) = {}
         /\ Slack = 0 /\ Aged(poses, Marks) /\ Marks \in {0, 1}
         /\ Kept(Taken, Measured(db)) /\ Settled(Taken, Measured(db))
         /\ Skipped(Taken, Measured(db)) /\ Taken \subseteq 1 .. frame
         /\ \A k \in clones : Cardinality(Newer(Measured(db), k)) <= NumPose - 2
<1> DEFINE M == Measured(db)
<1>1. ~isInit
  BY DEF IInv, Phases, Trying
<1>2. /\ Picked(M, keyframes) /\ Cardinality(keyframes) = NumPose
      /\ clones = {k \in keyframes : k # Min(M) /\ k <= timestamp}
      /\ \A k \in keyframes : k <= timestamp => k \in Taken
      /\ timestamp = Max(M) /\ timestamp \in keyframes
  BY DEF IInv, Propagated
<1>3. M \in SUBSET Images /\ M # {} /\ M \subseteq Nat /\ Taken \subseteq Nat
  BY <1>2, MeasuredImages, ImagesFinite DEF IInv, Picked
<1>4. /\ Min(M) < Max(M) /\ \A u \in M : u <= Max(M)
      /\ \A k \in keyframes \ {Min(M)} : Cardinality(Newer(M, k)) <= NumPose - 2
  BY <1>2, <1>3, PickedNewest, EndsOfImages
<1>5. /\ Kept(Taken, M) /\ Settled(Taken, M) /\ Skipped(Taken, M)
      /\ Taken \subseteq 1 .. frame /\ Aged(poses, Marks + Slack)
  BY <1>1 DEF IInv, Pool
<1> HIDE DEF M
<1>6. timestamp \in M /\ timestamp \in Nat /\ Min(M) # timestamp
  <2>1. timestamp \in M /\ timestamp \in Nat
    BY <1>2, <1>3 DEF Picked
  <2>2. Min(M) \in Nat
    BY <1>2, <1>3 DEF Picked
  <2> QED
    BY <1>2, <1>4, <2>1, <2>2
<1>7. timestamp \in clones /\ clones \subseteq Taken /\ clones \subseteq Images
  <2>1. timestamp <= timestamp
    BY <1>6
  <2> QED
    BY <1>2, <1>3, <1>6, <2>1 DEF Picked
<1>8. Newer(M, timestamp) = {}
  <2>1. \A u \in M : u \in Nat /\ u <= timestamp
    BY <1>2, <1>3, <1>4
  <2>2. \A u \in M : ~(u > timestamp)
    BY <1>6, <2>1
  <2> QED
    BY <2>2 DEF Newer
<1>9. Newer(Taken, timestamp) = {}
  <2> SUFFICES ASSUME NEW d \in Taken, d > timestamp PROVE FALSE
    BY DEF Newer
  <2>1. d \notin M
    BY <1>8 DEF Newer
  <2>2. d < timestamp
    BY <1>5, <1>6, <2>1 DEF Kept
  <2>3. d \in Nat
    BY <1>3
  <2> QED
    BY <1>6, <2>2, <2>3
<1>10. Slack = 0 /\ Marks \in {0, 1}
  BY DEF Slack, Marks
<1>11. Aged(poses, Marks)
  <2>1. Marks + Slack = Marks
    BY <1>10
  <2> QED
    BY <1>5, <2>1
<1> QED
  BY <1>1, <1>2, <1>4, <1>5, <1>7, <1>8, <1>9, <1>10, <1>11 DEF M

(* What the steps between the propagation and the end leave alone *)
LEMMA SolverKeeps ==
  ASSUME IInv, Trying, pc # "propagate",
         UNCHANGED <<frame, db, selectVars, timestamp, clones, poses, isInit>>,
         pc' \in {"iterate", "landmarks", "conclude", "solved", "failed"}
  PROVE  Selecting' /\ Propagated' /\ Pool' /\ Handed'
<1>1. ~isInit
  BY DEF IInv, Phases, Trying
<1>2. Selecting' /\ Handed'
  BY <1>1 DEF Selecting, Handed, HandsOver
<1>3. Propagated'
  <2>1. Taken' = Taken /\ keyframes' = keyframes
    BY DEF Taken, selectVars
  <2> QED
    BY <2>1 DEF IInv, Propagated
<1>4. Pool'
  BY PoolKept DEF IInv
<1> QED
  BY <1>2, <1>3, <1>4

(* A feature is anchored at the newest of its clones. *)
LEMMA AnchorIsClone ==
  ASSUME clones \subseteq Images, NEW f \in Countable
  PROVE  Anchor(f) \in clones
<1>1. db[f] \cap clones \in SUBSET Images /\ Cardinality(db[f] \cap clones) >= 2
  BY DEF Countable
<1>2. db[f] \cap clones # {}
  BY <1>1, FS_EmptySet
<1> QED
  BY <1>1, <1>2, EndsOfImages DEF Anchor

LEMMA IterateStep == ASSUME IInv, Iterate PROVE IInv'
<1>1. /\ pc = "iterate" /\ msckf' \in LinearSystems /\ iter' = iter + 1
      /\ pc' \in {"failed", "iterate", "landmarks"} /\ (pc' = "iterate" => iter + 1 < MaxIter)
      /\ delta' \in {delta, "step"}
      /\ UNCHANGED <<frame, db, selectVars, timestamp, clones, poses, slam, isInit, options,
                     backup, vec>>
  BY DEF Iterate, IterativeUpdate, trackVars
<1>2. Trying /\ Trying' /\ ~isInit
  BY <1>1 DEF IInv, Phases, Trying
<1>3. iter < MaxIter /\ iter \in Nat /\ MaxIter \in Nat
  BY <1>1, DynamicAssumption DEF IInv, Phases, Types
<1>4. PICK D \in SUBSET Countable : msckf' = [f \in D |-> Anchor(f)]
  BY <1>1 DEF LinearSystems
<1>5. Types'
  <2>1. DOMAIN msckf' \subseteq Feats
    BY <1>4 DEF Countable, IInv, Types, IsDatabase
  <2>2. iter' \in 0 .. MaxIter
    BY <1>1, <1>3
  <2>3. delta' \in {"zero", "step"}
    BY <1>1 DEF IInv, Types
  <2> QED
    BY <1>1, <2>1, <2>2, <2>3 DEF IInv, Types, IsDatabase, RingTypes
<1>6. Phases'
  BY <1>1, <1>2 DEF Phases
<1>7. Anchored'
  <2>1. \A f \in DOMAIN msckf' : msckf'[f] \in clones
    BY <1>4, AnchorIsClone DEF IInv, Types
  <2> QED
    BY <1>1, <2>1 DEF IInv, Anchored
<1>8. Selecting' /\ Propagated' /\ Pool' /\ Handed'
  BY <1>1, <1>2, SolverKeeps
<1> QED
  BY <1>5, <1>6, <1>7, <1>8 DEF IInv

(* Only landmarks in view of the newest image are chosen, and moved there. *)
LEMMA SelectLandmarksStep == ASSUME IInv, SelectLandmarks PROVE IInv'
<1>1. /\ pc = "landmarks" /\ pc' = "conclude"
      /\ UNCHANGED <<frame, db, selectVars, timestamp, clones, poses, isInit, solveVars>>
  BY DEF SelectLandmarks, trackVars
<1>2. Trying /\ Trying' /\ ~isInit /\ timestamp \in clones
  BY <1>1, Arrived DEF Trying
<1>3. /\ DOMAIN slam' \subseteq Feats /\ DOMAIN msckf' \subseteq Feats
      /\ \A f \in DOMAIN slam' : slam'[f] = timestamp
      /\ \A f \in DOMAIN msckf' : msckf'[f] \in clones
  <2>0. /\ DOMAIN slam \subseteq Feats /\ DOMAIN msckf \subseteq Feats
        /\ \A f \in DOMAIN slam : slam[f] = timestamp
        /\ \A f \in DOMAIN msckf : msckf[f] \in clones
    BY DEF IInv, Types, Anchored
  <2>1. CASE Enough(Cardinality(DOMAIN msckf))
    <3>1. PICK inView \in InViews : \E chosen \in Selections(inView) :
            /\ slam' \in DelayedInit(chosen, AnchorsMoved(inView))
            /\ \E gone \in SUBSET (DOMAIN msckf \ chosen) :
                 msckf' = Restrict(AnchorsMoved(inView), DOMAIN msckf \ gone)
      BY <2>1 DEF SelectLandmarks
    <3>2. PICK chosen \in Selections(inView) :
            /\ slam' \in DelayedInit(chosen, AnchorsMoved(inView))
            /\ \E gone \in SUBSET (DOMAIN msckf \ chosen) :
                 msckf' = Restrict(AnchorsMoved(inView), DOMAIN msckf \ gone)
      BY <3>1
    <3>3. inView \subseteq DOMAIN msckf /\ chosen \subseteq inView
      BY DEF InViews, Selections
    <3>4. \A f \in DOMAIN msckf :
            AnchorsMoved(inView)[f] = IF f \in inView THEN timestamp ELSE msckf[f]
      BY DEF AnchorsMoved
    <3>5. PICK L \in SUBSET chosen : slam' = Restrict(AnchorsMoved(inView), L)
      BY <3>2 DEF DelayedInit
    <3>6. PICK gone \in SUBSET (DOMAIN msckf \ chosen) :
            msckf' = Restrict(AnchorsMoved(inView), DOMAIN msckf \ gone)
      BY <3>2
    <3>7. DOMAIN slam' = L /\ \A f \in L : slam'[f] = AnchorsMoved(inView)[f]
      BY <3>5 DEF Restrict
    <3>8. DOMAIN msckf' = DOMAIN msckf \ gone
          /\ \A f \in DOMAIN msckf' : msckf'[f] = AnchorsMoved(inView)[f]
      BY <3>6 DEF Restrict
    <3> QED
      BY <1>2, <2>0, <3>3, <3>4, <3>7, <3>8
  <2>2. CASE ~Enough(Cardinality(DOMAIN msckf))
    <3>1. slam' = slam /\ msckf' = msckf
      BY <2>2 DEF SelectLandmarks
    <3> QED
      BY <2>0, <3>1
  <2> QED
    BY <2>1, <2>2
<1>4. Types'
  BY <1>1, <1>3 DEF IInv, Types, IsDatabase, RingTypes, solveVars
<1>5. Phases'
  BY <1>1, <1>2 DEF Phases
<1>6. Anchored'
  BY <1>1, <1>3 DEF Anchored
<1>7. Selecting' /\ Propagated' /\ Pool' /\ Handed'
  BY <1>1, <1>2, SolverKeeps
<1> QED
  BY <1>4, <1>5, <1>6, <1>7 DEF IInv

LEMMA ConcludeStep == ASSUME IInv, Conclude PROVE IInv'
<1>1. /\ pc = "conclude" /\ options' = backup
      /\ UNCHANGED <<frame, db, selectVars, timestamp, clones, poses, slam, isInit, delta,
                     backup, vec, iter>>
      /\ \/ pc' = "solved" /\ DOMAIN msckf' = {}
         \/ pc' = "failed" /\ msckf' = msckf
  BY DEF Conclude, trackVars, Nothing
<1>2. Trying /\ Trying' /\ ~isInit
  BY <1>1 DEF IInv, Phases, Trying
<1>3. Types'
  BY <1>1 DEF IInv, Types, IsDatabase, RingTypes
<1>4. Phases' /\ Anchored'
  BY <1>1, <1>2 DEF IInv, Phases, Anchored
<1>5. Selecting' /\ Propagated' /\ Pool' /\ Handed'
  BY <1>1, <1>2, SolverKeeps
<1> QED
  BY <1>3, <1>4, <1>5 DEF IInv

(* A failure leaves the attempt's entries, and one of its own the first time. *)
LEMMA FailStep == ASSUME IInv, Fail PROVE IInv'
<1>1. /\ pc = "failed" /\ pc' = "frame"
      /\ timestamp' = NoTime /\ poses' = Buf!AddTimestamp(poses, NoTime) /\ clones' = {}
      /\ DOMAIN slam' = {} /\ DOMAIN msckf' = {} /\ isInit' = FALSE
      /\ backup' = "configured" /\ vec' = {} /\ iter' = 0
      /\ UNCHANGED <<frame, db, delta, options>>
  BY DEF Fail, InitializeState, EndSolve, Leave, trackVars, Nothing
<1>2. Trying /\ ~Trying' /\ pc # "propagate"
  BY <1>1 DEF Trying
<1>3. /\ Aged(poses, Marks) /\ Marks \in {0, 1} /\ Kept(Taken, Measured(db))
      /\ Settled(Taken, Measured(db)) /\ Skipped(Taken, Measured(db)) /\ Taken \subseteq 1 .. frame
  BY <1>2, Arrived
<1>4. RingTypes(poses) /\ NoTime \in Times
  BY DEF IInv, Types, Times
<1>5. RingTypes(poses') /\ DOMAIN poses'.slotOf = DOMAIN poses.slotOf \cup {NoTime}
      /\ (NoTime \in DOMAIN poses.slotOf => poses' = poses)
  BY <1>1, <1>4, AddGives
<1>6. Taken' = Taken /\ Marks' = 1 /\ Slack' = 0
  BY <1>1, <1>5 DEF Taken, TakenIn, Marks, Slack
<1>7. Types'
  <2>1. MaxIter \in Nat
    BY DynamicAssumption
  <2>2. iter' \in 0 .. MaxIter
    BY <1>1, <2>1
  <2>3. vec' \subseteq DOMAIN db' /\ clones' \subseteq Images /\ timestamp' \in Times
        /\ isInit' \in BOOLEAN /\ DOMAIN slam' \subseteq Feats /\ DOMAIN msckf' \subseteq Feats
    BY <1>1, <1>4
  <2> QED
    BY <1>1, <1>5, <2>2, <2>3 DEF IInv, Types, IsDatabase
<1>8. Phases' /\ Anchored' /\ Selecting' /\ Propagated' /\ Handed'
  BY <1>1, <1>2 DEF Phases, Anchored, Selecting, Propagated, Handed, HandsOver
<1>9. Aged(poses', 1)
  <2>1. CASE NoTime \in DOMAIN poses.slotOf
    BY <1>3, <1>5, <2>1 DEF Marks
  <2>2. CASE NoTime \notin DOMAIN poses.slotOf
    <3>1. Aged(poses, 0)
      BY <1>3, <2>2 DEF Marks
    <3>2. Aged(Buf!AddTimestamp(poses, NoTime), 1)
      BY <1>4, <2>2, <3>1, AgedGrows
    <3> QED
      BY <1>1, <3>2
  <2> QED
    BY <2>1, <2>2
<1>10. Pool'
  <2>1. Aged(poses', Marks' + Slack')
    BY <1>6, <1>9
  <2> QED
    BY <1>1, <1>2, <1>3, <1>6, <2>1 DEF Pool
<1> QED
  BY <1>7, <1>8, <1>10 DEF IInv

(* The filter gets the newest image, whose slot is one of the last two: only *)
(* an attempt's oldest image may have taken one since.                       *)
LEMMA SucceedStep == ASSUME IInv, Succeed PROVE IInv'
<1>1. /\ pc = "solved" /\ pc' = "frame"
      /\ clones' = clones \cap {timestamp} /\ isInit' = TRUE
      /\ poses' = [poses EXCEPT !.slotOf =
                     Restrict(@, DOMAIN @ \ (clones \ {timestamp}))]
      /\ db' = CleanupMeasurements(db, timestamp)
      /\ backup' = "configured" /\ vec' = {} /\ iter' = 0
      /\ UNCHANGED <<frame, timestamp, slam, msckf, delta, options>>
  BY DEF Succeed, DropUsed, EndSolve, Leave
<1>2. Trying /\ ~Trying' /\ pc # "propagate"
  BY <1>1 DEF Trying
<1>3. /\ timestamp \in clones /\ timestamp \in Taken /\ Newer(Taken, timestamp) = {}
      /\ Newer(Measured(db), timestamp) = {} /\ Aged(poses, Marks) /\ Marks \in {0, 1}
  BY <1>2, Arrived
<1>4. RingTypes(poses) /\ IsDatabase(db, frame) /\ DOMAIN msckf = {}
      /\ \A f \in DOMAIN slam : slam[f] = timestamp
  BY <1>1 DEF IInv, Types, Phases, Anchored
<1>5. IsDatabase(db', frame) /\ Measured(db') = {}
  <2>1. Measured(db') = {u \in Measured(db) : u > timestamp}
    BY <1>1, CleanupGives
  <2> QED
    BY <1>1, <1>3, <1>4, <2>1, CleanupGives DEF Newer
<1> DEFINE D == DOMAIN poses.slotOf \ (clones \ {timestamp})
           s == [t \in D |-> poses.slotOf[t]]
<1>6. poses' = [slotOf |-> s, next |-> poses.next]
  BY <1>1, <1>4 DEF RingTypes, Restrict
<1>7. poses'.next = poses.next /\ poses'.slotOf = s
      /\ poses' = [slotOf |-> poses'.slotOf, next |-> poses'.next]
  BY <1>6
<1>8. DOMAIN poses'.slotOf \subseteq DOMAIN poses.slotOf /\ timestamp \in DOMAIN poses'.slotOf
      /\ \A t \in DOMAIN poses'.slotOf : poses'.slotOf[t] = poses.slotOf[t]
  BY <1>3, <1>7 DEF Taken, TakenIn
<1> HIDE DEF D, s
<1>9. RingTypes(poses')
  BY <1>4, <1>7, <1>8 DEF RingTypes
<1>10. Types'
  <2>1. MaxIter \in Nat
    BY DynamicAssumption
  <2>2. iter' \in 0 .. MaxIter /\ vec' \subseteq DOMAIN db' /\ isInit' \in BOOLEAN
    BY <1>1, <2>1
  <2>3. clones' \subseteq Images
    BY <1>1 DEF IInv, Types
  <2> QED
    BY <1>1, <1>5, <1>9, <2>2, <2>3 DEF IInv, Types
<1>11. Phases' /\ Anchored' /\ Selecting' /\ Propagated'
  BY <1>1, <1>2, <1>4 DEF Phases, Anchored, Selecting, Propagated
<1>12. Pool'
  BY <1>1 DEF Pool
<1>13. Handed'
  <2>1. PICK age \in 1 .. 1 + Marks : poses.next = (poses.slotOf[timestamp] + age) % RingSize
    BY <1>3, <1>4, AgedNewest DEF Taken
  <2>2. poses'.next = (poses'.slotOf[timestamp] + age) % RingSize /\ age \in {1, 2}
    BY <1>3, <1>7, <1>8, <2>1
  <2>3. clones' = {timestamp}
    BY <1>1, <1>3
  <2>4. FirstSlot'
    <3> SUFFICES ASSUME NoTime \notin DOMAIN poses'.slotOf
                 PROVE  poses'.next = (poses'.slotOf[timestamp] + 1) % RingSize
      BY <1>1 DEF FirstSlot
    <3>1. NoTime \notin clones
      BY ImagesFinite DEF IInv, Types
    <3>2. NoTime \notin DOMAIN poses.slotOf
      BY <1>7, <3>1 DEF D, s
    <3>3. Marks = 0
      BY <3>2 DEF Marks
    <3>4. age = 1
      BY <2>1, <3>3
    <3> QED
      BY <2>2, <3>4
  <2> QED
    BY <1>1, <1>4, <1>5, <1>8, <2>2, <2>3, <2>4 DEF Handed, HandsOver
<1> QED
  BY <1>10, <1>11, <1>12, <1>13 DEF IInv

LEMMA FinishedStep == ASSUME IInv, UNCHANGED vars PROVE IInv'
<1>1. UNCHANGED <<frame, db, images, disp, keyframes, maxTime, remaining, timestamp, clones,
                  poses, slam, msckf, isInit, delta, options, backup, vec, iter, pc>>
  BY DEF vars, trackVars, selectVars, stateVars, solveVars
<1>2. Types' /\ Phases' /\ Anchored' /\ Handed'
  BY <1>1 DEF IInv, Types, IsDatabase, RingTypes, Phases, Trying, Anchored, Handed, HandsOver,
              FirstSlot
<1>3. Taken' = Taken /\ Ahead' = Ahead /\ Trying' = Trying /\ Marks' = Marks /\ Slack' = Slack
  BY <1>1 DEF Taken, Ahead, Trying, Marks, Slack
<1>4. Selecting' /\ Propagated' /\ Pool'
  BY <1>1, <1>3 DEF IInv, Selecting, DispTypes, KF!Pairs, Propagated, Pool
<1> QED
  BY <1>2, <1>4 DEF IInv

-----------------------------------------------------------------------------
(* The theorems                                                              *)

LEMMA NextIInv == IInv /\ [Next]_vars => IInv'
<1> SUFFICES ASSUME IInv, [Next]_vars PROVE IInv'
  OBVIOUS
<1>1. CASE Frame
  BY <1>1, FrameStep
<1>2. CASE ChooseMethod
  BY <1>2, ChooseMethodStep
<1>3. CASE CheckWindow
  BY <1>3, CheckWindowStep
<1>4. CASE AddKeyframe
  BY <1>4, AddKeyframeStep
<1>5. CASE Refuse
  BY <1>5, RefuseStep
<1>6. CASE Solve
  <2>1. CASE BeginSolve
    BY <2>1, BeginSolveStep
  <2>2. CASE CloneKeyframe
    BY <2>2, CloneKeyframeStep
  <2>3. CASE StartIterations
    BY <2>3, StartIterationsStep
  <2>4. CASE Iterate
    BY <2>4, IterateStep
  <2>5. CASE SelectLandmarks
    BY <2>5, SelectLandmarksStep
  <2>6. CASE Conclude
    BY <2>6, ConcludeStep
  <2>7. CASE Fail
    BY <2>7, FailStep
  <2>8. CASE Succeed
    BY <2>8, SucceedStep
  <2> QED
    BY <1>6, <2>1, <2>2, <2>3, <2>4, <2>5, <2>6, <2>7, <2>8 DEF Solve
<1>7. CASE UNCHANGED vars
  BY <1>7, FinishedStep
<1> QED
  BY <1>1, <1>2, <1>3, <1>4, <1>5, <1>6, <1>7 DEF Next, Finished

LEMMA Attempts == Spec => []IInv
<1> QED
  BY InitIInv, NextIInv, PTL DEF Spec

(* Every variable keeps its type, whatever fails and is tried again.         *)
THEOREM InitialisationIsTyped == Spec => []TypeOK
<1>1. IInv => TypeOK
  <2> SUFFICES ASSUME IInv PROVE TypeOK
    OBVIOUS
  <2>1. pc = "keyframes" => KF!TypeOK
    <3> SUFFICES ASSUME pc = "keyframes" PROVE KF!TypeOK
      OBVIOUS
    <3>1. /\ images = Measured(db) /\ Picked(images, keyframes)
          /\ remaining \in 0 .. NumPose - 2 /\ maxTime \in images \cup {0}
      BY DEF IInv, Selecting
    <3>2. images \subseteq Images /\ keyframes \subseteq images
      BY <3>1, MeasuredImages DEF IInv, Picked
    <3>3. remaining \in 0 .. NumPose
      BY <3>1, DynamicAssumption
    <3> QED
      BY <3>1, <3>2, <3>3 DEF KF!TypeOK
  <2> QED
    BY <2>1 DEF IInv, Types, IsDatabase, RingTypes, TypeOK
<1> QED
  BY <1>1, Attempts, PTL

(* keyframing finds as many distinct images as initialize() goes on to       *)
(* demand: every image offers itself, even one without a valid disparity,    *)
(* so the loop ends with the newest that is no key frame yet.                *)
THEOREM KeyframesSuffice == Spec => []EnoughKeyframes
<1>1. IInv => EnoughKeyframes
  BY SameEnds DEF IInv, Selecting, EnoughKeyframes, KF!EnoughKeyframes
<1> QED
  BY <1>1, Attempts, PTL

(* Each iteration takes the newest image that is no key frame yet, whatever  *)
(* the disparities are: what the loop does in place of the greedy search     *)
(* that DynamicInitializer.cpp:503 announces.                                *)
TakesNewest == [][AddKeyframe => maxTime' = Max(images \ keyframes)]_vars

THEOREM SelectionTakesNewest == Spec => TakesNewest
<1>1. IInv /\ [Next]_vars => [AddKeyframe => maxTime' = Max(images \ keyframes)]_vars
  BY AddsNewest
<1> QED
  BY <1>1, Attempts, PTL DEF Spec, TakesNewest

(* An attempt's clones are among the NumPose - 1 newest images, so that few  *)
(* images with an entry are younger; each accounts for two slots at most.    *)
LEMMA ClonesOwnSlots ==
  ASSUME IInv, Trying
  PROVE  Buf!OwnSlot(poses, clones) /\ clones \subseteq Taken
<1> DEFINE M == Measured(db)
<1>1. /\ Picked(M, keyframes) /\ Cardinality(keyframes) = NumPose
      /\ clones = {k \in keyframes : k # Min(M) /\ k <= timestamp}
      /\ \A k \in keyframes : k <= timestamp => k \in Taken
  BY DEF IInv, Propagated
<1>2. ~isInit /\ RingTypes(poses)
  BY DEF IInv, Phases, Types, Trying
<1>3. Kept(Taken, M) /\ Aged(poses, Marks + Slack)
  BY <1>2 DEF IInv, Pool
<1>4. M \in SUBSET Images /\ M # {} /\ M \subseteq Nat /\ Taken \subseteq Nat
      /\ Taken \in SUBSET Images
  BY <1>1, MeasuredImages, ImagesFinite DEF IInv, Picked
<1>5. /\ \A u \in M : u <= Max(M)
      /\ \A k \in keyframes \ {Min(M)} : Cardinality(Newer(M, k)) <= NumPose - 2
      /\ Max(M) \in M
  BY <1>1, <1>4, PickedNewest, EndsOfImages
<1>6. Marks \in {0, 1} /\ (Slack = 0 \/ (Slack = 1 /\ Max(M) \notin Taken))
  BY DEF Marks, Slack
<1>7. Marks + Slack \in Nat
  BY <1>6
<1> HIDE DEF M
<1>8. ASSUME NEW t \in clones
      PROVE  1 + (Marks + Slack) + 2 * Cardinality(Newer(Taken, t)) <= RingSize
  <2>1. t \in M /\ t \in Taken /\ t \in Nat /\ t \in keyframes \ {Min(M)}
    BY <1>1, <1>4 DEF Picked
  <2>2. Newer(Taken, t) \in SUBSET Newer(M, t)
    <3> SUFFICES ASSUME NEW d \in Taken, d > t PROVE d \in M
      BY DEF Newer
    <3>1. d \in Nat /\ ~(d < t)
      BY <1>4, <2>1
    <3> QED
      BY <1>3, <2>1, <3>1 DEF Kept
  <2>3. Newer(M, t) \in SUBSET Images
    BY <1>4 DEF Newer
  <2> DEFINE c == Cardinality(Newer(Taken, t))
             n == Cardinality(Newer(M, t))
  <2>4. c \in Nat /\ n \in Nat /\ c <= n
        /\ \A y \in Newer(M, t) \ Newer(Taken, t) : c + 1 <= n
    BY <2>2, <2>3, FewerImages
  <2>5. n <= NumPose - 2
    BY <1>5, <2>1
  <2>6. NumPose \in Nat /\ MaxClone \in Nat /\ MaxClone >= 2 * (NumPose - 2)
        /\ RingSize = MaxClone + 2
    BY DynamicAssumption DEF RingSize
  <2>7. Slack = 1 => c + 1 <= n
    <3> SUFFICES ASSUME Slack = 1 PROVE c + 1 <= n
      OBVIOUS
    <3>1. Max(M) \notin Taken
      BY <1>6
    <3>2. t <= Max(M) /\ t # Max(M) /\ Max(M) \in Nat
      BY <1>4, <1>5, <2>1, <3>1
    <3>3. Max(M) > t
      BY <2>1, <3>2
    <3>4. Max(M) \in Newer(M, t) \ Newer(Taken, t)
      BY <1>5, <3>1, <3>3 DEF Newer
    <3> QED
      BY <2>4, <3>4
  <2> HIDE DEF c, n
  <2>8. 1 + (Marks + Slack) + 2 * c <= RingSize
    <3>1. CASE Slack = 0
      <4>1. c <= NumPose - 2
        BY <2>4, <2>5, <2>6
      <4> QED
        BY <1>6, <2>4, <2>6, <3>1, <4>1
    <3>2. CASE Slack = 1
      <4>1. c + 1 <= NumPose - 2
        BY <2>4, <2>5, <2>6, <2>7, <3>2
      <4> QED
        BY <1>6, <2>4, <2>6, <3>2, <4>1
    <3> QED
      BY <1>6, <3>1, <3>2
  <2> QED
    BY <2>8 DEF c
<1>9. clones \in SUBSET Taken
  BY <1>1
<1> QED
  BY <1>2, <1>3, <1>7, <1>8, <1>9, AgedOwnSlot DEF Taken

(* Whatever earlier attempts left in the pose ring, every clone has a slot   *)
(* of its own and every landmark is anchored at a clone.                     *)
THEOREM ClonesHavePoses == Spec => []PosesFound
<1>1. IInv => PosesFound
  <2> SUFFICES ASSUME IInv PROVE PosesFound
    OBVIOUS
  <2>0. /\ \A f \in DOMAIN slam : slam[f] = timestamp
        /\ \A f \in DOMAIN msckf : msckf[f] \in clones
    BY DEF IInv, Anchored
  <2>1. CASE isInit
    <3>1. clones = {timestamp} /\ timestamp \in DOMAIN poses.slotOf
      BY <2>1 DEF IInv, Handed, HandsOver
    <3> QED
      BY <2>0, <3>1 DEF PosesFound, Buf!Cached, Buf!OwnSlot
  <2>2. CASE ~isInit /\ ~Trying
    <3>1. clones = {} /\ DOMAIN slam = {} /\ DOMAIN msckf = {}
      BY <2>2 DEF IInv, Phases
    <3> QED
      BY <3>1 DEF PosesFound, Buf!Cached, Buf!OwnSlot
  <2>3. CASE Trying
    <3>1. Buf!OwnSlot(poses, clones) /\ clones \subseteq Taken
      BY <2>3, ClonesOwnSlots
    <3>2. \A t \in clones : Buf!Cached(poses, t)
      BY <3>1 DEF Taken, TakenIn, Buf!Cached
    <3>3. \A f \in DOMAIN slam : slam[f] \in clones
      <4>1. CASE pc = "propagate"
        BY <4>1 DEF IInv, Phases
      <4>2. CASE pc # "propagate"
        BY <2>0, <2>3, <4>2, Arrived
      <4> QED
        BY <4>1, <4>2
    <3> QED
      BY <2>0, <3>1, <3>2, <3>3 DEF PosesFound
  <2> QED
    BY <2>1, <2>2, <2>3
<1> QED
  BY <1>1, Attempts, PTL

(* The filter starts with what it expects: one clone at the newest image,    *)
(* whose slot is among the last two, and no measurement used twice.          *)
THEOREM FilterTakesOver == Spec => []HandsOver
<1>1. IInv => HandsOver
  BY DEF IInv, Handed
<1> QED
  BY <1>1, Attempts, PTL

(* If no solve has failed before, the filter's clone has the slot handed out *)
(* last: what SlotsStayOwned of WindowLayoutProofs assumes of the beginning. *)
THEOREM FirstSolveLeavesLastSlot == Spec => []FirstSlot
<1>1. IInv => FirstSlot
  BY DEF IInv, Handed, FirstSlot
<1> QED
  BY <1>1, Attempts, PTL
=============================================================================
