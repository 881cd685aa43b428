------------------------- MODULE BackendOnlineProofs -------------------------
(***************************************************************************)
(* Theorems about the online bundle adjustment beside the filter, for      *)
(* every keyframe stride, window size, solve stride and number of frames.  *)
(***************************************************************************)
EXTENDS BackendOnline, SequenceTheorems, TLAPS

(* A solve occupies the worker from its snapshot to its count. *)
Solving == worker \in {"solve", "publish", "warm_start", "count"}

(* Every solve has its own new keyframes and counts at most one publication. *)
Counting ==
  /\ Len(keyframes) <= frame
  /\ solveCount + (IF Solving THEN 1 ELSE 0) <= solvedThrough
  /\ published <= solveCount + (IF worker \in {"warm_start", "count"} THEN 1 ELSE 0)

(* Keyframes are distinct and in order of time, refined ones are recorded. *)
Ordered ==
  /\ \A i \in DOMAIN keyframes : keyframes[i].time <= frame
  /\ \A i, j \in DOMAIN keyframes : i < j => keyframes[i].time < keyframes[j].time
  /\ \A t \in DOMAIN refined : refined[t] # Unposed => t <= frame

(* A keyframe that waits for its pose is the newest one. *)
PendingIsNewest ==
  pending => /\ keyframes # <<>> /\ keyframes[Len(keyframes)].pose = Unposed
             /\ filter = "process"

(* A keyframe without a pose has never been part of a solve. *)
UnposedUnused ==
  \A i \in DOMAIN keyframes : keyframes[i].pose = Unposed =>
    keyframes[i].time \notin used /\ refined[keyframes[i].time] = Unposed

(* Between publication and warm start, what was published is the news. *)
InWarmStart ==
  worker = "warm_start" => /\ published > 0
                           /\ \A t \in used : refined[t] = SolvedPose(published)

(* Apart from the keyframes a warm start is about to write, keyframes agree *)
(* with what was published, and nothing is newer than the newest solution.  *)
Agreement ==
  /\ \A i \in DOMAIN keyframes :
       LET t == keyframes[i].time IN
       /\ keyframes[i].pose <= SolvedPose(published)
       /\ refined[t] # Unposed /\ (worker = "warm_start" => t \notin used)
            => keyframes[i].pose = refined[t]
  /\ \A t \in DOMAIN refined : refined[t] <= SolvedPose(published)

(* What the filter has not fed back yet is still to be counted. *)
Announced ==
  filter # "fetch" /\ polled = solveCount /\ applied < published
    => worker \in {"warm_start", "count"} /\ applied + 1 = published

(* The filter reaches the offline adjustment through the join only. *)
Joined == filter \in {"offline", "done"} => worker = "exited"

IInv == /\ TypeOK /\ Counting /\ Ordered /\ PendingIsNewest /\ UnposedUnused
        /\ InWarmStart /\ Agreement /\ Announced /\ Joined

-----------------------------------------------------------------------------
LEMMA KeyframesAre ==
  ASSUME TypeOK
  PROVE  /\ Len(keyframes) \in Nat /\ DOMAIN keyframes = 1 .. Len(keyframes)
         /\ \A i \in DOMAIN keyframes :
              /\ keyframes[i] \in Keyframe
              /\ keyframes[i].time \in 1 .. LastFrame
              /\ keyframes[i].pose \in 0 .. LastFrame + 1
<1>1. Len(keyframes) \in Nat /\ DOMAIN keyframes = 1 .. Len(keyframes)
  BY LenProperties DEF TypeOK
<1>2. \A i \in 1 .. Len(keyframes) : keyframes[i] \in Keyframe
  BY ElementOfSeq DEF TypeOK
<1> QED
  BY <1>1, <1>2 DEF Keyframe

LEMMA InitEstablishes == Init => IInv
<1> SUFFICES ASSUME Init PROVE IInv
  OBVIOUS
<1> USE BackendAssumption DEF Init, Unposed, SolvedPose, NeverPolled
<1>1. keyframes \in Seq(Keyframe) /\ Len(keyframes) = 0 /\ DOMAIN keyframes = {}
  BY EmptySeq
<1>2. TypeOK
  <2>1. /\ frame \in 0 .. LastFrame /\ solvedThrough \in 0 .. Len(keyframes)
        /\ published \in 0 .. LastFrame /\ solveCount \in 0 .. LastFrame
        /\ applied \in 0 .. published
    BY <1>1
  <2>2. refined \in [1 .. LastFrame -> 0 .. LastFrame + 1]
    OBVIOUS
  <2>3. worker \in WorkerAt /\ filter \in FilterAt /\ {pending, calibrated, stop} \subseteq BOOLEAN
    BY DEF WorkerAt, FilterAt
  <2>4. used = {} /\ polled \in {NeverPolled} \cup (0 .. solveCount)
    OBVIOUS
  <2> QED
    BY <1>1, <2>1, <2>2, <2>3, <2>4 DEF TypeOK
<1>3. /\ Counting
      /\ PendingIsNewest /\ UnposedUnused
      /\ Ordered
  <2>1. Counting
    BY <1>1 DEF Counting, Solving
  <2>2. PendingIsNewest /\ UnposedUnused
    BY <1>1 DEF PendingIsNewest, UnposedUnused
  <2>3. Ordered
    BY <1>1 DEF Ordered
  <2> QED
    BY <2>1, <2>2, <2>3
<1>4. InWarmStart /\ Announced /\ Joined
  BY <1>1 DEF InWarmStart, Announced, Joined
<1>5. Agreement
  <2>1. \A t \in DOMAIN refined : refined[t] = 0
    OBVIOUS
  <2> QED
    BY <1>1, <2>1 DEF Agreement
<1> QED
  BY <1>2, <1>3, <1>4, <1>5 DEF IInv

(* Steps that move only program counters, stop and what the filter polled. *)
LEMMA RecordsUntouched ==
  ASSUME IInv, UNCHANGED <<recordVars, refined, published, used, frame>>,
         pending => filter' = "process",
         worker' = "warm_start" <=> worker = "warm_start"
  PROVE  Ordered' /\ PendingIsNewest' /\ UnposedUnused' /\ InWarmStart' /\ Agreement'
<1> USE DEF IInv, recordVars
<1>1. Ordered' /\ PendingIsNewest'
  BY DEF Ordered, PendingIsNewest
<1>2. UnposedUnused' /\ InWarmStart'
  BY DEF UnposedUnused, InWarmStart, SolvedPose
<1>3. Agreement'
  BY DEF Agreement, SolvedPose
<1> QED
  BY <1>1, <1>2, <1>3

LEMMA FilterMoves ==
  ASSUME IInv,
         \/ NotifyKeyframe \/ PollSolveCount \/ ApplyRefinedPoses \/ Stop
         \/ StopNotifies \/ Join \/ SolveOffline \/ SpuriousWakeUp \/ UNCHANGED vars
  PROVE  IInv'
<1> USE DEF IInv, NotifyKeyframe, PollSolveCount, ApplyRefinedPoses, Stop,
            StopNotifies, Join, SolveOffline, SpuriousWakeUp, vars, recordVars,
            solveVars, filterVars
<1>1. UNCHANGED <<recordVars, refined, published, used, frame, solveCount, solvedThrough>>
  OBVIOUS
<1>2. pending => UNCHANGED filter
  BY DEF PendingIsNewest
<1>3. worker' = worker \/ (worker = "blocked" /\ worker' = "check")
  OBVIOUS
<1>4. Ordered' /\ PendingIsNewest' /\ UnposedUnused' /\ InWarmStart' /\ Agreement'
  BY <1>1, <1>2, <1>3, RecordsUntouched DEF PendingIsNewest
<1>5. Counting'
  BY <1>1, <1>3 DEF Counting, Solving
<1>6. TypeOK'
  <2>1. /\ polled' \in {NeverPolled} \cup (0 .. solveCount')
        /\ applied' \in 0 .. published'
    BY <1>1 DEF TypeOK
  <2>2. worker' \in WorkerAt /\ filter' \in FilterAt /\ stop' \in BOOLEAN
    BY <1>3 DEF TypeOK, WorkerAt, FilterAt
  <2> QED
    BY <1>1, <2>1, <2>2 DEF TypeOK
<1>7. Announced'
  BY DEF Announced, TypeOK
<1>8. Joined'
  BY DEF Joined
<1> QED
  BY <1>4, <1>5, <1>6, <1>7, <1>8

(* A new keyframe is younger than all others and unknown to every solve. *)
LEMMA RecordObservationsKeeps ==
  ASSUME IInv, RecordObservations
  PROVE  IInv'
<1>1. /\ filter = "idle" /\ filter' = "process" /\ ~pending
      /\ frame \in Nat /\ frame' = frame + 1 /\ frame' \in 1 .. LastFrame
      /\ UNCHANGED <<calibrated, stop, solvedThrough, worker, used, refined, published,
                     solveCount, polled, applied>>
  BY BackendAssumption
  DEF RecordObservations, IInv, TypeOK, PendingIsNewest, solveVars
<1>2. CASE UNCHANGED <<keyframes, pending>>
  <2>1. TypeOK'
    BY <1>1, <1>2 DEF IInv, TypeOK, FilterAt
  <2>2. Counting' /\ PendingIsNewest'
    <3>1. Len(keyframes) \in Nat /\ Len(keyframes) <= frame
      BY KeyframesAre DEF IInv, Counting
    <3> QED
      BY <1>1, <1>2, <3>1 DEF IInv, Counting, Solving, PendingIsNewest
  <2>3. Ordered'
    <3>1. \A i \in DOMAIN keyframes : keyframes[i].time \in Nat
      BY KeyframesAre DEF IInv
    <3>2. \A t \in DOMAIN refined : t \in Nat
      BY DEF IInv, TypeOK
    <3> QED
      BY <1>1, <1>2, <3>1, <3>2 DEF IInv, Ordered
  <2>4. UnposedUnused' /\ InWarmStart' /\ Agreement'
    BY <1>1, <1>2 DEF IInv, UnposedUnused, InWarmStart, Agreement, SolvedPose
  <2>5. Announced' /\ Joined'
    BY <1>1 DEF IInv, Announced, Joined
  <2> QED
    BY <2>1, <2>2, <2>3, <2>4, <2>5 DEF IInv
<1>3. ASSUME NEW tracked \in BOOLEAN, pending' = TRUE,
             keyframes' = Append(keyframes, [time |-> frame', pose |-> Unposed,
                                            tracked |-> tracked])
      PROVE  IInv'
  <2> DEFINE kf == [time |-> frame', pose |-> Unposed, tracked |-> tracked]
             n  == Len(keyframes)
  <2>1. kf \in Keyframe /\ kf.time = frame' /\ kf.pose = Unposed
    BY <1>1, BackendAssumption DEF Keyframe, Unposed
  <2>2. keyframes \in Seq(Keyframe) /\ n \in Nat /\ DOMAIN keyframes = 1 .. n /\ n <= frame
    BY KeyframesAre DEF IInv, TypeOK, Counting
  <2>a. keyframes' = Append(keyframes, kf)
    BY <1>3
  <2> HIDE DEF kf
  <2>3. /\ keyframes' \in Seq(Keyframe) /\ Len(keyframes') = n + 1
        /\ DOMAIN keyframes' = 1 .. n + 1
        /\ keyframes'[n + 1] = kf
        /\ \A i \in DOMAIN keyframes : keyframes'[i] = keyframes[i]
    <3>1. keyframes' \in Seq(Keyframe) /\ Len(keyframes') = n + 1
      BY <2>1, <2>2, <2>a
    <3>2. DOMAIN keyframes' = 1 .. n + 1
      BY <3>1, LenProperties
    <3> QED
      BY <2>1, <2>2, <2>a, <3>1, <3>2
  <2> HIDE DEF n
  <2>4. /\ \A i \in DOMAIN keyframes : /\ i \in DOMAIN keyframes'
                                       /\ keyframes[i].time \in Nat /\ keyframes[i].time <= frame
        /\ \A i \in DOMAIN keyframes' : i \in DOMAIN keyframes \/ i = n + 1
    BY <2>2, <2>3, KeyframesAre DEF IInv, Ordered
  <2>5. \A t \in used : t \in Nat /\ t <= frame
    BY <2>4 DEF IInv, TypeOK
  <2>6. \A t \in DOMAIN refined : t \in Nat /\ (refined[t] # Unposed => t <= frame)
    BY DEF IInv, TypeOK, Ordered
  <2>7. frame' \notin used /\ refined[frame'] = Unposed
    <3>1. frame' \in DOMAIN refined
      BY <1>1 DEF IInv, TypeOK
    <3> QED
      BY <1>1, <2>5, <2>6, <3>1
  <2>8. TypeOK'
    <3>1. used \subseteq {keyframes'[i].time : i \in DOMAIN keyframes'}
      BY <2>3, <2>4 DEF IInv, TypeOK
    <3>2. solvedThrough' \in 0 .. Len(keyframes')
      BY <1>1, <2>2, <2>3 DEF IInv, TypeOK, n
    <3>3. frame' \in 0 .. LastFrame /\ pending' \in BOOLEAN /\ filter' \in FilterAt
      BY <1>1, <1>3, BackendAssumption DEF FilterAt
    <3> QED
      BY <1>1, <2>3, <3>1, <3>2, <3>3 DEF IInv, TypeOK
  <2>9. Counting'
    BY <1>1, <2>2, <2>3 DEF IInv, Counting, Solving
  <2>10. Ordered'
    <3>1. \A i \in DOMAIN keyframes' : keyframes'[i].time <= frame'
      BY <1>1, <2>1, <2>3, <2>4
    <3>2. ASSUME NEW i \in DOMAIN keyframes', NEW j \in DOMAIN keyframes', i < j
          PROVE  keyframes'[i].time < keyframes'[j].time
      <4>1. i \in DOMAIN keyframes
        BY <2>2, <2>3, <3>2
      <4>2. CASE j \in DOMAIN keyframes
        BY <2>3, <3>2, <4>1, <4>2 DEF IInv, Ordered
      <4>3. CASE j = n + 1
        BY <1>1, <2>1, <2>3, <2>4, <4>1, <4>3
      <4> QED
        BY <2>4, <4>2, <4>3
    <3>3. \A t \in DOMAIN refined' : refined'[t] # Unposed => t <= frame'
      BY <1>1, <2>6
    <3> QED
      BY <3>1, <3>2, <3>3 DEF Ordered
  <2>11. PendingIsNewest'
    <3>1. keyframes' # <<>>
      BY <2>2, <2>3
    <3> QED
      BY <1>1, <2>1, <2>3, <3>1 DEF PendingIsNewest
  <2>12. UnposedUnused'
    BY <1>1, <2>1, <2>3, <2>4, <2>7 DEF IInv, UnposedUnused
  <2>13. InWarmStart'
    BY <1>1 DEF IInv, InWarmStart, SolvedPose
  <2>14. Agreement'
    <3>1. published \in Nat
      BY BackendAssumption DEF IInv, TypeOK
    <3>2. kf.pose <= SolvedPose(published)
      BY <2>1, <3>1 DEF Unposed, SolvedPose
    <3>3. SolvedPose(published)' = SolvedPose(published)
      BY <1>1 DEF SolvedPose
    <3>4. ASSUME NEW i \in DOMAIN keyframes'
          PROVE  LET t == keyframes'[i].time IN
                 /\ keyframes'[i].pose <= SolvedPose(published)
                 /\ refined[t] # Unposed /\ (worker = "warm_start" => t \notin used)
                      => keyframes'[i].pose = refined[t]
      <4>1. CASE i \in DOMAIN keyframes
        BY <2>3, <4>1 DEF IInv, Agreement
      <4>2. CASE i = n + 1
        BY <2>1, <2>3, <2>7, <3>2, <4>2
      <4> QED
        BY <2>4, <4>1, <4>2
    <3>5. \A t \in DOMAIN refined : refined[t] <= SolvedPose(published)
      BY DEF IInv, Agreement
    <3> QED
      BY <1>1, <3>3, <3>4, <3>5 DEF Agreement
  <2>15. Announced' /\ Joined'
    BY <1>1 DEF IInv, Announced, Joined
  <2> QED
    BY <2>8, <2>9, <2>10, <2>11, <2>12, <2>13, <2>14, <2>15 DEF IInv
<1> QED
  BY <1>2, <1>3 DEF RecordObservations

(* The filter's pose goes into a keyframe no solve has used: it overwrites  *)
(* nothing that was refined.                                                *)
LEMMA RecordPoseKeeps ==
  ASSUME IInv, RecordPose
  PROVE  IInv'
<1>1. /\ filter = "process" /\ filter' \in {"notify", "poll"}
      /\ calibrated' = TRUE /\ pending' = FALSE
      /\ UNCHANGED <<stop, solvedThrough, worker, used, refined, published,
                     solveCount, frame, polled, applied>>
  BY DEF RecordPose, solveVars
<1>2. PendingIsNewest' /\ InWarmStart' /\ Announced' /\ Joined'
  BY <1>1 DEF IInv, PendingIsNewest, InWarmStart, Announced, Joined, SolvedPose
<1>3. CASE UNCHANGED keyframes
  <2>1. TypeOK'
    BY <1>1, <1>3 DEF IInv, TypeOK, FilterAt
  <2>2. Counting' /\ Ordered' /\ UnposedUnused' /\ Agreement'
    BY <1>1, <1>3 DEF IInv, Counting, Solving, Ordered, UnposedUnused, Agreement, SolvedPose
  <2> QED
    BY <1>2, <2>1, <2>2 DEF IInv
<1>4. ASSUME pending,
             keyframes' = [keyframes EXCEPT ![Len(keyframes)].pose = FilterPose]
      PROVE  IInv'
  <2> DEFINE n  == Len(keyframes)
             kf == [keyframes[n] EXCEPT !.pose = FilterPose]
  <2>1. keyframes \in Seq(Keyframe) /\ n \in Nat /\ DOMAIN keyframes = 1 .. n
    BY KeyframesAre DEF IInv, TypeOK
  <2>2. n \in 1 .. n /\ keyframes[n] \in Keyframe /\ keyframes[n].pose = Unposed
    <3>1. keyframes # <<>> /\ keyframes[n].pose = Unposed
      BY <1>4 DEF IInv, PendingIsNewest
    <3>2. n # 0
      BY <2>1, <3>1, EmptySeq
    <3> QED
      BY <2>1, <3>1, <3>2, ElementOfSeq
  <2>3. kf \in Keyframe /\ kf.pose = FilterPose /\ kf.time = keyframes[n].time
    BY <2>2, BackendAssumption DEF Keyframe, FilterPose
  <2>4. keyframes' = [keyframes EXCEPT ![n] = kf]
    BY <1>4
  <2> HIDE DEF kf
  <2>5. /\ keyframes' \in Seq(Keyframe) /\ Len(keyframes') = n
        /\ DOMAIN keyframes' = DOMAIN keyframes
        /\ \A i \in DOMAIN keyframes : keyframes'[i] = IF i = n THEN kf ELSE keyframes[i]
    BY <2>1, <2>2, <2>3, <2>4, ExceptSeq
  <2>6. \A i \in DOMAIN keyframes : keyframes'[i].time = keyframes[i].time
    BY <2>3, <2>5
  <2>7. n \in DOMAIN keyframes
    BY <2>1, <2>2
  <2>8. keyframes[n].time \notin used /\ refined[keyframes[n].time] = Unposed
    BY <2>2, <2>7 DEF IInv, UnposedUnused
  <2>9. TypeOK'
    <3>1. used \subseteq {keyframes'[i].time : i \in DOMAIN keyframes'}
      BY <2>5, <2>6 DEF IInv, TypeOK
    <3>2. solvedThrough' \in 0 .. Len(keyframes')
      BY <1>1, <2>5 DEF IInv, TypeOK
    <3> QED
      BY <1>1, <2>5, <3>1, <3>2 DEF IInv, TypeOK, FilterAt
  <2>10. Counting' /\ Ordered'
    BY <1>1, <2>5, <2>6 DEF IInv, Counting, Solving, Ordered
  <2>11. UnposedUnused'
    BY <1>1, <2>3, <2>5 DEF IInv, UnposedUnused, Unposed, FilterPose
  <2>12. Agreement'
    <3>1. published \in Nat
      BY BackendAssumption DEF IInv, TypeOK
    <3>2. kf.pose <= SolvedPose(published)
      BY <2>3, <3>1 DEF FilterPose, SolvedPose
    <3>3. SolvedPose(published)' = SolvedPose(published)
      BY <1>1 DEF SolvedPose
    <3>4. ASSUME NEW i \in DOMAIN keyframes
          PROVE  LET t == keyframes'[i].time IN
                 /\ keyframes'[i].pose <= SolvedPose(published)
                 /\ refined[t] # Unposed /\ (worker = "warm_start" => t \notin used)
                      => keyframes'[i].pose = refined[t]
      <4>1. CASE i = n
        BY <2>5, <2>6, <2>8, <3>2, <4>1
      <4>2. CASE i # n
        BY <2>5, <4>2 DEF IInv, Agreement
      <4> QED
        BY <4>1, <4>2
    <3>5. \A t \in DOMAIN refined : refined[t] <= SolvedPose(published)
      BY DEF IInv, Agreement
    <3> QED
      BY <1>1, <2>5, <3>3, <3>4, <3>5 DEF Agreement
  <2> QED
    BY <1>2, <2>9, <2>10, <2>11, <2>12 DEF IInv
<1> QED
  BY <1>3, <1>4 DEF RecordPose

-----------------------------------------------------------------------------
(* The keyframes of a window are recorded keyframes. *)
LEMMA WindowIsRecorded ==
  ASSUME TypeOK, SolveDue
  PROVE  \A j \in DOMAIN Window : \E i \in DOMAIN keyframes : Window[j] = keyframes[i]
<1> DEFINE n == Len(keyframes)
           m == n - WindowSize + 1
<1>1. n \in Nat /\ DOMAIN keyframes = 1 .. n /\ \A i \in 1 .. n : keyframes[i] \in Keyframe
  BY KeyframesAre
<1>2. WindowSize \in Nat /\ WindowSize > 0 /\ n >= WindowSize
  BY BackendAssumption DEF SolveDue
<1>3. m \in Int /\ m >= 1 /\ m <= n
  BY <1>1, <1>2
<1>4. Window = SubSeq(keyframes, m, n)
  BY DEF Window
<1> HIDE DEF m, n
<1>5. \A i \in m .. n : keyframes[i] \in Keyframe
  BY <1>1, <1>3
<1>6. /\ Window \in Seq(Keyframe) /\ Len(Window) = n - m + 1
      /\ \A i \in 1 .. n - m + 1 : Window[i] = keyframes[m + i - 1]
  BY <1>1, <1>3, <1>4, <1>5, SubSeqProperties
<1>7. DOMAIN Window = 1 .. n - m + 1
  BY <1>6, LenProperties
<1>8. \A j \in 1 .. n - m + 1 : m + j - 1 \in DOMAIN keyframes
  BY <1>1, <1>3
<1> QED
  BY <1>6, <1>7, <1>8

(* A solve starts from keyframes that have a pose, and from new ones.       *)
LEMMA WorkerChecksKeeps ==
  ASSUME IInv, WorkerChecks
  PROVE  IInv'
<1>1. /\ worker = "check" /\ worker' \in {"solve", "exited", "blocked"}
      /\ UNCHANGED <<keyframes, pending, calibrated, stop, refined, published,
                     solveCount, frame, filter, polled, applied>>
  BY DEF WorkerChecks, recordVars, filterVars
<1>2. Ordered' /\ PendingIsNewest' /\ InWarmStart' /\ Announced' /\ Joined'
  BY <1>1 DEF IInv, Ordered, PendingIsNewest, InWarmStart, Announced, Joined
<1>3. Agreement'
  BY <1>1 DEF IInv, Agreement, SolvedPose
<1>4. CASE ~stop /\ SolveDue
  <2>1. /\ worker' = "solve" /\ solvedThrough' = Len(keyframes)
        /\ used' = {Window[i].time : i \in {j \in DOMAIN Window : Usable(Window[j])}}
    BY <1>4 DEF WorkerChecks
  <2>2. \A t \in used' : \E i \in DOMAIN keyframes :
          t = keyframes[i].time /\ keyframes[i].pose # Unposed
    BY <1>4, <2>1, WindowIsRecorded DEF IInv, Usable
  <2>3. Len(keyframes) \in Nat /\ DOMAIN keyframes = 1 .. Len(keyframes)
    BY KeyframesAre DEF IInv
  <2>4. TypeOK'
    <3>1. used' \subseteq {keyframes[i].time : i \in DOMAIN keyframes}
      BY <2>2
    <3>2. worker' \in WorkerAt /\ solvedThrough' \in 0 .. Len(keyframes')
      BY <1>1, <2>1, <2>3 DEF WorkerAt
    <3> QED
      BY <1>1, <3>1, <3>2 DEF IInv, TypeOK
  <2>5. Counting'
    <3>1. Len(keyframes) >= solvedThrough + SolveStride /\ SolveStride >= 1
      BY <1>4, BackendAssumption DEF SolveDue
    <3>2. solvedThrough \in Nat /\ solveCount \in Nat /\ published \in Nat /\ SolveStride \in Nat
      BY <2>3, BackendAssumption DEF IInv, TypeOK
    <3>3. solveCount <= solvedThrough /\ published <= solveCount /\ Len(keyframes) <= frame
      BY <1>1, <3>2 DEF IInv, Counting, Solving
    <3> QED
      BY <1>1, <2>1, <2>3, <3>1, <3>2, <3>3 DEF Counting, Solving
  <2>6. UnposedUnused'
    <3>1. ASSUME NEW i \in DOMAIN keyframes, NEW j \in DOMAIN keyframes,
                 keyframes[i].time = keyframes[j].time
          PROVE  i = j
      <4>1. i \in Nat /\ j \in Nat /\ keyframes[i].time \in Nat /\ keyframes[j].time \in Nat
        BY <2>3, KeyframesAre DEF IInv
      <4>2. ~(i < j) /\ ~(j < i)
        BY <3>1, <4>1 DEF IInv, Ordered
      <4> QED
        BY <4>1, <4>2
    <3> QED
      BY <1>1, <2>2, <3>1 DEF IInv, UnposedUnused
  <2> QED
    BY <1>2, <1>3, <2>4, <2>5, <2>6 DEF IInv
<1>5. CASE ~(~stop /\ SolveDue)
  <2>1. worker' \in {"exited", "blocked"} /\ UNCHANGED <<solvedThrough, used>>
    BY <1>5 DEF WorkerChecks
  <2>2. TypeOK' /\ UnposedUnused'
    BY <1>1, <2>1 DEF IInv, TypeOK, WorkerAt, UnposedUnused
  <2>3. Counting'
    BY <1>1, <2>1 DEF IInv, Counting, Solving
  <2> QED
    BY <1>2, <1>3, <2>2, <2>3 DEF IInv
<1> QED
  BY <1>4, <1>5

LEMMA SolveKeeps ==
  ASSUME IInv, Solve
  PROVE  IInv'
<1>1. /\ worker = "solve" /\ worker' \in {"publish", "count"}
      /\ UNCHANGED <<recordVars, stop, solvedThrough, used, refined, published,
                     solveCount, frame, filter, polled, applied>>
  BY DEF Solve, solveVars, filterVars
<1>2. Ordered' /\ PendingIsNewest' /\ UnposedUnused' /\ InWarmStart' /\ Agreement'
  BY <1>1, RecordsUntouched DEF IInv, PendingIsNewest
<1>3. TypeOK'
  BY <1>1 DEF IInv, TypeOK, WorkerAt, recordVars
<1>4. Counting'
  <2>1. published \in Nat /\ solveCount \in Nat
    BY BackendAssumption DEF IInv, TypeOK
  <2> QED
    BY <1>1, <2>1 DEF IInv, Counting, Solving, recordVars
<1>5. Announced' /\ Joined'
  BY <1>1 DEF IInv, Announced, Joined
<1> QED
  BY <1>2, <1>3, <1>4, <1>5 DEF IInv

LEMMA CountSolveKeeps ==
  ASSUME IInv, CountSolve
  PROVE  IInv'
<1>1. /\ worker = "count" /\ worker' = "check" /\ solveCount' = solveCount + 1
      /\ UNCHANGED <<recordVars, stop, solvedThrough, used, refined, published,
                     frame, filter, polled, applied>>
  BY DEF CountSolve, filterVars
<1>2. Ordered' /\ PendingIsNewest' /\ UnposedUnused' /\ InWarmStart' /\ Agreement'
  BY <1>1, RecordsUntouched DEF IInv, PendingIsNewest
<1>3. /\ solveCount \in Nat /\ published \in Nat /\ solvedThrough \in Nat
      /\ Len(keyframes) \in Nat /\ solvedThrough <= Len(keyframes) /\ Len(keyframes) <= frame
      /\ frame \in Nat /\ frame <= LastFrame
      /\ solveCount + 1 <= solvedThrough /\ published <= solveCount + 1
  BY <1>1, BackendAssumption, KeyframesAre DEF IInv, TypeOK, Counting, Solving
<1>4. TypeOK'
  <2>1. solveCount' \in 0 .. LastFrame
    BY <1>1, <1>3, BackendAssumption
  <2>2. polled' \in {NeverPolled} \cup (0 .. solveCount')
    BY <1>1, <1>3 DEF IInv, TypeOK
  <2> QED
    BY <1>1, <2>1, <2>2 DEF IInv, TypeOK, WorkerAt, recordVars
<1>5. Counting'
  BY <1>1, <1>3 DEF Counting, Solving, recordVars
<1>6. Announced'
  <2>1. polled # solveCount'
    BY <1>1, <1>3 DEF IInv, TypeOK, NeverPolled
  <2> QED
    BY <1>1, <2>1 DEF Announced
<1>7. Joined'
  BY <1>1 DEF IInv, Joined
<1> QED
  BY <1>2, <1>4, <1>5, <1>6, <1>7 DEF IInv

(* What is published is newer than all that was, and can be counted.        *)
LEMMA PublishKeeps ==
  ASSUME IInv, Publish
  PROVE  IInv'
<1>1. /\ worker = "publish" /\ worker' = "warm_start" /\ published' = published + 1
      /\ refined' = [t \in DOMAIN refined |->
                       IF t \in used THEN SolvedPose(published') ELSE refined[t]]
      /\ UNCHANGED <<keyframes, pending, calibrated, stop, solvedThrough, used,
                     solveCount, frame, filter, polled, applied>>
  BY DEF Publish, recordVars, filterVars
<1>2. /\ solveCount \in Nat /\ published \in Nat /\ solvedThrough \in Nat
      /\ Len(keyframes) \in Nat /\ solvedThrough <= Len(keyframes) /\ Len(keyframes) <= frame
      /\ frame \in Nat /\ frame <= LastFrame /\ LastFrame \in Nat
      /\ solveCount + 1 <= solvedThrough /\ published <= solveCount
  BY <1>1, BackendAssumption, KeyframesAre DEF IInv, TypeOK, Counting, Solving
<1>3. SolvedPose(published') = published + 2 /\ SolvedPose(published) = published + 1
      /\ SolvedPose(published)' = published + 2
  BY <1>1, <1>2 DEF SolvedPose
<1>4. published + 2 \in 0 .. LastFrame + 1 /\ published' \in 0 .. LastFrame
  BY <1>1, <1>2
<1>5. refined \in [1 .. LastFrame -> 0 .. LastFrame + 1] /\ DOMAIN refined' = DOMAIN refined
  BY <1>1 DEF IInv, TypeOK
<1>6. refined' \in [1 .. LastFrame -> 0 .. LastFrame + 1]
  BY <1>1, <1>3, <1>4, <1>5
<1>7. \A t \in used : \E i \in DOMAIN keyframes : t = keyframes[i].time
  BY DEF IInv, TypeOK
<1>8. \A i \in DOMAIN keyframes : keyframes[i].time \in DOMAIN refined
  BY <1>5, KeyframesAre DEF IInv
<1>9. TypeOK'
  <2>1. applied' \in 0 .. published'
    BY <1>1, <1>2 DEF IInv, TypeOK
  <2> QED
    BY <1>1, <1>4, <1>6, <2>1 DEF IInv, TypeOK, WorkerAt
<1>10. Counting'
  BY <1>1, <1>2 DEF Counting, Solving
<1>11. Ordered'
  <2>1. \A t \in used : t <= frame
    BY <1>7 DEF IInv, Ordered
  <2>2. \A t \in DOMAIN refined : refined'[t] # Unposed => t <= frame
    BY <1>1, <2>1 DEF IInv, Ordered
  <2> QED
    BY <1>1, <1>5, <2>2 DEF IInv, Ordered
<1>12. PendingIsNewest' /\ Joined'
  BY <1>1 DEF IInv, PendingIsNewest, Joined
<1>13. UnposedUnused'
  BY <1>1, <1>8 DEF IInv, UnposedUnused
<1>14. InWarmStart'
  <2>1. published' > 0
    BY <1>1, <1>2
  <2>2. \A t \in used : refined'[t] = SolvedPose(published')
    BY <1>1, <1>7, <1>8
  <2> QED
    BY <1>1, <1>3, <2>1, <2>2 DEF InWarmStart
<1>15. Agreement'
  <2>1. \A t \in DOMAIN refined : refined'[t] <= published + 2
    <3>1. \A t \in DOMAIN refined : refined[t] \in Nat /\ refined[t] <= published + 1
      BY <1>3, <1>5, <1>2 DEF IInv, Agreement
    <3> QED
      BY <1>1, <1>2, <1>3, <3>1
  <2>2. \A i \in DOMAIN keyframes : keyframes[i].pose <= published + 2
    <3>1. \A i \in DOMAIN keyframes : keyframes[i].pose \in Nat /\ keyframes[i].pose <= published + 1
      BY <1>2, <1>3, KeyframesAre DEF IInv, Agreement
    <3> QED
      BY <1>2, <3>1
  <2>3. \A i \in DOMAIN keyframes :
          refined'[keyframes[i].time] # Unposed /\ keyframes[i].time \notin used
            => keyframes[i].pose = refined'[keyframes[i].time]
    BY <1>1, <1>8 DEF IInv, Agreement
  <2> QED
    BY <1>1, <1>3, <1>5, <2>1, <2>2, <2>3 DEF Agreement
<1>16. Announced'
  BY <1>1, <1>2 DEF IInv, Announced, TypeOK
<1> QED
  BY <1>9, <1>10, <1>11, <1>12, <1>13, <1>14, <1>15, <1>16 DEF IInv

(* What a warm start does to the keyframes, however many there are by now.  *)
LEMMA WarmStartGives ==
  ASSUME IInv, WarmStart
  PROVE  /\ keyframes' \in Seq(Keyframe) /\ Len(keyframes') = Len(keyframes)
         /\ DOMAIN keyframes' = DOMAIN keyframes
         /\ \A i \in DOMAIN keyframes :
              /\ keyframes'[i].time = keyframes[i].time
              /\ keyframes'[i].pose = IF keyframes[i].time \in used
                                      THEN SolvedPose(published) ELSE keyframes[i].pose
<1> DEFINE n    == Len(keyframes)
           e(i) == IF keyframes[i].time \in used
                   THEN [keyframes[i] EXCEPT !.pose = refined[keyframes[i].time]]
                   ELSE keyframes[i]
<1>1. n \in Nat /\ DOMAIN keyframes = 1 .. n
  BY KeyframesAre DEF IInv
<1>2. keyframes' = [i \in 1 .. n |-> e(i)]
  BY <1>1 DEF WarmStart
<1>3. ASSUME NEW i \in 1 .. n
      PROVE  /\ e(i) \in Keyframe /\ e(i).time = keyframes[i].time
             /\ e(i).pose = IF keyframes[i].time \in used
                            THEN SolvedPose(published) ELSE keyframes[i].pose
  <2>1. keyframes[i] \in Keyframe /\ keyframes[i].time \in 1 .. LastFrame
    BY <1>1, KeyframesAre DEF IInv
  <2>2. refined[keyframes[i].time] \in 0 .. LastFrame + 1
    BY <2>1 DEF IInv, TypeOK
  <2>3. keyframes[i].time \in used => refined[keyframes[i].time] = SolvedPose(published)
    BY DEF IInv, InWarmStart, WarmStart
  <2> QED
    BY <2>1, <2>2, <2>3 DEF Keyframe
<1> HIDE DEF n, e
<1>4. keyframes' \in [1 .. n -> Keyframe]
  BY <1>2, <1>3
<1>5. keyframes' \in Seq(Keyframe)
  BY <1>1, <1>4, SeqDef
<1>6. Len(keyframes') = n
  BY <1>1, <1>4, <1>5, LenProperties
<1>7. \A i \in 1 .. n : keyframes'[i] = e(i)
  BY <1>2
<1> QED
  BY <1>1, <1>3, <1>4, <1>5, <1>6, <1>7 DEF n

LEMMA WarmStartKeeps ==
  ASSUME IInv, WarmStart
  PROVE  IInv'
<1>1. /\ worker = "warm_start" /\ worker' = "count"
      /\ UNCHANGED <<pending, calibrated, stop, solvedThrough, used, refined, published,
                     solveCount, frame, filter, polled, applied>>
  BY DEF WarmStart, solveVars, filterVars
<1>2. /\ keyframes' \in Seq(Keyframe) /\ Len(keyframes') = Len(keyframes)
      /\ DOMAIN keyframes' = DOMAIN keyframes
      /\ \A i \in DOMAIN keyframes :
           /\ keyframes'[i].time = keyframes[i].time
           /\ keyframes'[i].pose = IF keyframes[i].time \in used
                                   THEN SolvedPose(published) ELSE keyframes[i].pose
  BY WarmStartGives
<1>3. published \in Nat /\ SolvedPose(published)' = SolvedPose(published)
      /\ SolvedPose(published) = published + 1
  BY <1>1, BackendAssumption DEF IInv, TypeOK, SolvedPose
<1>4. TypeOK'
  <2>1. used \subseteq {keyframes'[i].time : i \in DOMAIN keyframes'}
    BY <1>2 DEF IInv, TypeOK
  <2> QED
    BY <1>1, <1>2, <2>1 DEF IInv, TypeOK, WorkerAt
<1>5. Counting' /\ Ordered'
  BY <1>1, <1>2 DEF IInv, Counting, Solving, Ordered
<1>6. PendingIsNewest'
  <2>1. pending => /\ keyframes # <<>> /\ Len(keyframes) \in DOMAIN keyframes
                   /\ keyframes[Len(keyframes)].time \notin used
    <3>1. Len(keyframes) \in Nat /\ DOMAIN keyframes = 1 .. Len(keyframes)
      BY KeyframesAre DEF IInv
    <3>2. keyframes # <<>> => Len(keyframes) # 0
      BY EmptySeq DEF IInv, TypeOK
    <3>3. pending => keyframes # <<>> /\ keyframes[Len(keyframes)].pose = Unposed
      BY DEF IInv, PendingIsNewest
    <3>4. pending => Len(keyframes) \in DOMAIN keyframes
      BY <3>1, <3>2, <3>3
    <3> QED
      BY <3>3, <3>4 DEF IInv, UnposedUnused
  <2>2. keyframes # <<>> => keyframes' # <<>>
    BY <1>2, EmptySeq DEF IInv, TypeOK
  <2> QED
    BY <1>1, <1>2, <2>1, <2>2 DEF IInv, PendingIsNewest
<1>7. UnposedUnused'
  <2>1. SolvedPose(published) # Unposed
    BY <1>3 DEF Unposed
  <2> QED
    BY <1>1, <1>2, <2>1 DEF IInv, UnposedUnused
<1>8. InWarmStart' /\ Joined'
  BY <1>1 DEF IInv, InWarmStart, Joined
<1>9. Agreement'
  <2>1. \A t \in used : refined[t] = SolvedPose(published)
    BY <1>1 DEF IInv, InWarmStart
  <2>2. \A i \in DOMAIN keyframes : keyframes'[i].pose <= SolvedPose(published)
    BY <1>2, <1>3 DEF IInv, Agreement
  <2>3. \A i \in DOMAIN keyframes : refined[keyframes[i].time] # Unposed
          => keyframes'[i].pose = refined[keyframes[i].time]
    BY <1>2, <2>1 DEF IInv, Agreement
  <2> QED
    BY <1>1, <1>2, <1>3, <2>2, <2>3 DEF IInv, Agreement
<1>10. Announced'
  BY <1>1 DEF IInv, Announced
<1> QED
  BY <1>4, <1>5, <1>6, <1>7, <1>8, <1>9, <1>10 DEF IInv

-----------------------------------------------------------------------------
LEMMA StepKeeps ==
  ASSUME IInv, [Next]_vars
  PROVE  IInv'
<1>1. CASE WorkerStep
  BY <1>1, WorkerChecksKeeps, SolveKeeps, PublishKeeps, WarmStartKeeps, CountSolveKeeps
  DEF WorkerStep
<1>2. CASE RecordObservations \/ RecordPose
  BY <1>2, RecordObservationsKeeps, RecordPoseKeeps
<1>3. CASE \/ NotifyKeyframe \/ PollSolveCount \/ ApplyRefinedPoses \/ Stop
           \/ StopNotifies \/ Join \/ SolveOffline \/ SpuriousWakeUp \/ UNCHANGED vars
  BY <1>3, FilterMoves
<1> QED
  BY <1>1, <1>2, <1>3 DEF Next, FilterStep, Finished

(* The invariant of keyframes, publications, counter and shutdown is        *)
(* inductive.                                                               *)
THEOREM Invariance == Spec => []IInv
<1>1. IInv /\ [Next]_vars => IInv'
  BY StepKeeps
<1> QED
  BY <1>1, InitEstablishes, PTL DEF Spec

(* Every variable keeps its type: no solve is counted without new keyframes *)
(* and none is published without being counted.                             *)
THEOREM TypeCorrect == Spec => []TypeOK
BY Invariance, PTL DEF IInv

(* Outside of the gap between publication and warm start, the keyframes     *)
(* hold exactly the poses that were published for them, although keyframes  *)
(* are recorded and completed while a solve runs without the lock.          *)
THEOREM WarmStartsAgree == Spec => []WarmStartAgrees
<1>1. IInv => WarmStartAgrees
  BY DEF IInv, Agreement, WarmStartAgrees
<1> QED
  BY <1>1, Invariance, PTL

(* The filter's polling misses no publication that has been counted.        *)
THEOREM PublicationsAreNotMissed == Spec => []NoPublicationMissed
<1>1. IInv => NoPublicationMissed
  BY DEF IInv, Announced, NoPublicationMissed
<1> QED
  BY <1>1, Invariance, PTL

(* Once the offline adjustment has begun, nobody writes what it reads.      *)
THEOREM OfflineIsUndisturbed == Spec => OfflineUndisturbed
<1> DEFINE A == (filter \in {"offline", "done"}) => UNCHANGED <<keyframes, refined>>
<1>1. IInv /\ [Next]_vars => [A]_vars
  <2> SUFFICES ASSUME IInv, Next, filter \in {"offline", "done"}
               PROVE  UNCHANGED <<keyframes, refined>>
    OBVIOUS
  <2>1. worker = "exited"
    BY DEF IInv, Joined
  <2> QED
    BY <2>1 DEF Next, WorkerStep, WorkerChecks, Solve, Publish, WarmStart, CountSolve,
                SpuriousWakeUp, RecordObservations, FilterStep, RecordPose, NotifyKeyframe,
                PollSolveCount, ApplyRefinedPoses, StopNotifies, Join, SolveOffline,
                Stop, Finished, vars, recordVars, solveVars
<1> QED
  BY <1>1, Invariance, PTL DEF Spec, OfflineUndisturbed

(* No pose is replaced by an older one: neither the filter's late pose nor  *)
(* a late warm start undoes a newer result.                                 *)
THEOREM PosesDoNotRegress == Spec => PosesNeverRegress
<1> DEFINE A == \A i \in DOMAIN keyframes :
                  /\ keyframes'[i].time = keyframes[i].time
                  /\ keyframes'[i].pose >= keyframes[i].pose
<1>1. ASSUME IInv, [Next]_vars PROVE [A]_vars
  <2>1. \A i \in DOMAIN keyframes :
          /\ keyframes[i].pose \in Nat /\ keyframes[i].pose <= SolvedPose(published)
    BY <1>1, KeyframesAre, BackendAssumption DEF IInv, Agreement
  <2>2. CASE UNCHANGED keyframes
    BY <2>1, <2>2
  <2>3. CASE RecordObservations
    <3>1. ASSUME NEW k, keyframes' = Append(keyframes, k)
          PROVE  \A i \in DOMAIN keyframes : keyframes'[i] = keyframes[i]
      <4>1. keyframes \in Seq(Keyframe) /\ DOMAIN keyframes = 1 .. Len(keyframes)
            /\ Len(keyframes) \in Nat
        BY <1>1, KeyframesAre DEF IInv, TypeOK
      <4> QED
        BY <3>1, <4>1
    <3>2. UNCHANGED keyframes \/ \E k : keyframes' = Append(keyframes, k)
      BY <2>3 DEF RecordObservations
    <3> QED
      BY <2>1, <2>2, <3>1, <3>2
  <2>4. CASE RecordPose
    <3> DEFINE n == Len(keyframes)
    <3>1. CASE pending /\ keyframes' = [keyframes EXCEPT ![n].pose = FilterPose]
      <4>1. keyframes[n].pose = Unposed
        BY <1>1, <3>1 DEF IInv, PendingIsNewest
      <4>2. \A i \in DOMAIN keyframes : keyframes[i] \in Keyframe
        BY <1>1, KeyframesAre DEF IInv
      <4>3. \A i \in DOMAIN keyframes : i # n => keyframes'[i] = keyframes[i]
        BY <3>1
      <4>4. n \in DOMAIN keyframes => /\ keyframes'[n].time = keyframes[n].time
                                      /\ keyframes'[n].pose = FilterPose
        BY <3>1, <4>2 DEF Keyframe
      <4> QED
        BY <2>1, <4>1, <4>3, <4>4 DEF Unposed, FilterPose
    <3> QED
      BY <2>2, <2>4, <3>1 DEF RecordPose
  <2>5. CASE WarmStart
    <3>1. published \in Nat /\ SolvedPose(published) \in Nat
      BY <1>1, BackendAssumption DEF IInv, TypeOK, SolvedPose
    <3> QED
      BY <1>1, <2>1, <2>5, <3>1, WarmStartGives
  <2>6. CASE \/ WorkerChecks \/ Solve \/ Publish \/ CountSolve \/ SpuriousWakeUp
             \/ NotifyKeyframe \/ PollSolveCount \/ ApplyRefinedPoses \/ StopNotifies
             \/ Join \/ SolveOffline \/ Stop \/ Finished \/ UNCHANGED vars
    <3>1. UNCHANGED keyframes
      BY <2>6 DEF WorkerChecks, Solve, Publish, CountSolve, SpuriousWakeUp,
           NotifyKeyframe, PollSolveCount, ApplyRefinedPoses, StopNotifies, Join,
           SolveOffline, Stop, Finished, vars, recordVars
    <3> QED
      BY <2>2, <3>1
  <2> QED
    BY <1>1, <2>3, <2>4, <2>5, <2>6 DEF Next, WorkerStep, FilterStep
<1> QED
  BY <1>1, Invariance, PTL DEF Spec, PosesNeverRegress
=============================================================================
