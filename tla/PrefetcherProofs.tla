-------------------------- MODULE PrefetcherProofs --------------------------
(***************************************************************************)
(* Theorems about StereoImagePrefetcher for every length of the camera     *)
(* list and every queue capacity.                                          *)
(***************************************************************************)
EXTENDS Prefetcher, SequenceTheorems, TLAPS

(* The pairs in the queue are the ones that follow the pair returned last. *)
Contents == \A k \in 1 .. Len(queue) : queue[k] = got + k

(* Nothing decoded is lost: returned, queued and still to be decoded.      *)
Count == got + Len(queue) = IF worker = "notify" THEN index ELSE index - 1

(* Between its check for room and its push the worker owns that room.      *)
RoomReserved ==
  /\ worker \in {"decode", "push"} => index <= N /\ Len(queue) < MaxAhead
  /\ worker \in {"notify", "blocked"} => index <= N

(* The worker is gone whenever the caller is outside stop() after it.      *)
StopOrder ==
  /\ done => (worker = "joined" <=> caller \notin {"stop_notify", "join"})
  /\ ~done => worker # "joined" /\ caller \notin {"stop_notify", "join"}
  /\ last = NoFrame => done /\ worker = "joined" /\ queue = <<>>

IInv == /\ TypeOK /\ Contents /\ Count /\ RoomReserved /\ QueueBounded
        /\ StopOrder /\ NoLostWakeUp

(* The invariant that ties the queue to the worker's and the caller's       *)
(* positions is inductive.                                                  *)
THEOREM Invariance == Spec => []IInv
<1>1. Init => IInv
  <2> SUFFICES ASSUME Init PROVE IInv
    OBVIOUS
  <2> USE PrefetcherAssumption DEF Init
  <2>1. queue \in Seq(1 .. N) /\ Len(queue) = 0
    OBVIOUS
  <2>2. TypeOK
    <3>1. index \in 1 .. N + 1 /\ got \in 0 .. N /\ extra \in 0 .. ExtraCalls
      OBVIOUS
    <3>2. done \in BOOLEAN /\ worker \in WorkerAt /\ caller \in CallerAt
      BY DEF WorkerAt, CallerAt
    <3>3. last \in {NotCalled} \cup (0 .. N)
      OBVIOUS
    <3>4. QED
      BY <2>1, <3>1, <3>2, <3>3 DEF TypeOK
  <2>3. Contents /\ Count
    BY <2>1 DEF Contents, Count
  <2>4. RoomReserved /\ QueueBounded /\ StopOrder /\ NoLostWakeUp
    BY <2>1 DEF RoomReserved, QueueBounded, StopOrder, NoLostWakeUp,
                NoFrame, NotCalled
  <2>5. QED
    BY <2>2, <2>3, <2>4 DEF IInv
<1>2. IInv /\ [Next]_vars => IInv'
  <2> SUFFICES ASSUME IInv, [Next]_vars PROVE IInv'
    OBVIOUS
  <2>1. UNCHANGED <<queue, got>> => Contents'
    BY DEF IInv, Contents
  <2> USE PrefetcherAssumption
      DEF IInv, TypeOK, Count, RoomReserved, QueueBounded,
          StopOrder, NoLostWakeUp, WorkerAt, CallerAt, NoFrame
  <2>2. CASE WorkerChecks
    BY <2>1, <2>2 DEF WorkerChecks
  <2>3. CASE Decode
    BY <2>1, <2>3 DEF Decode
  <2>4. CASE WorkerNotifies
    BY <2>1, <2>4 DEF WorkerNotifies
  <2>5. CASE CallNext
    BY <2>1, <2>5 DEF CallNext
  <2>6. CASE ReturnEmpty
    BY <2>1, <2>6 DEF ReturnEmpty
  <2>7. CASE WaitNotEmpty
    BY <2>1, <2>7 DEF WaitNotEmpty
  <2>8. CASE CallerNotifies
    BY <2>1, <2>8 DEF CallerNotifies
  <2>9. CASE Stop
    BY <2>1, <2>9 DEF Stop
  <2>10. CASE StopNotifies
    BY <2>1, <2>10 DEF StopNotifies
  <2>11. CASE Join
    BY <2>1, <2>11 DEF Join
  <2>12. CASE SpuriousWakeUp
    BY <2>1, <2>12 DEF SpuriousWakeUp
  <2>13. CASE Push
    <3>1. index \in 1 .. N /\ index = got + Len(queue) + 1
      BY <2>13 DEF Push
    <3>2. /\ queue' \in Seq(1 .. N) /\ Len(queue') = Len(queue) + 1
          /\ \A k \in 1 .. Len(queue) : queue'[k] = queue[k]
          /\ queue'[Len(queue) + 1] = index
      BY <2>13, <3>1, AppendProperties DEF Push
    <3>3. Contents'
      <4>1. got' = got /\ Len(queue) \in Nat /\ got \in Nat
        BY <2>13 DEF Push
      <4>2. SUFFICES ASSUME NEW k \in 1 .. Len(queue')
                     PROVE  queue'[k] = got + k
        BY <4>1 DEF Contents
      <4>3. CASE k \in 1 .. Len(queue)
        <5>1. queue[k] = got + k
          BY <4>3 DEF Contents
        <5>2. QED
          BY <3>2, <4>3, <5>1
      <4>4. CASE k = Len(queue) + 1
        BY <3>1, <3>2, <4>1, <4>4
      <4>5. QED
        BY <3>2, <4>1, <4>3, <4>4
    <3>4. QED
      BY <2>13, <3>1, <3>2, <3>3 DEF Push
  <2>14. CASE Take
    <3>1. Len(queue) \in Nat /\ Len(queue) > 0
      BY <2>14, EmptySeq DEF Take
    <3>2. Head(queue) = got + 1 /\ got + Len(queue) <= N
      BY <3>1 DEF Contents
    <3>3. /\ queue' \in Seq(1 .. N) /\ Len(queue') = Len(queue) - 1
          /\ \A k \in 1 .. Len(queue') : queue'[k] = queue[k + 1]
      BY <2>14, <3>1, HeadTailProperties DEF Take
    <3>4. Contents'
      <4>1. got' = got + 1 /\ got \in Nat
        BY <2>14 DEF Take
      <4>2. SUFFICES ASSUME NEW k \in 1 .. Len(queue')
                     PROVE  queue'[k] = got + 1 + k
        BY <4>1 DEF Contents
      <4>3. k + 1 \in 1 .. Len(queue) /\ k \in Nat
        BY <3>1, <3>3
      <4>4. queue[k + 1] = got + (k + 1)
        BY <4>3 DEF Contents
      <4>5. QED
        BY <3>3, <4>1, <4>3, <4>4
    <3>5. QED
      BY <2>14, <3>1, <3>2, <3>3, <3>4 DEF Take
  <2>15. CASE UNCHANGED vars
    BY <2>1, <2>15 DEF vars
  <2>16. QED
    BY <2>2, <2>3, <2>4, <2>5, <2>6, <2>7, <2>8, <2>9, <2>10, <2>11, <2>12, <2>13, <2>14, <2>15
       DEF Next, WorkerStep, CallerStep, Finished
<1>3. QED
  BY <1>1, <1>2, PTL DEF Spec

(* Every variable of the prefetcher always has its type. *)
THEOREM TypeCorrect == Spec => []TypeOK
  BY Invariance, PTL DEF IInv

(* The queue never holds more than max_ahead_ decoded pairs. *)
THEOREM QueueStaysBounded == Spec => []QueueBounded
  BY Invariance, PTL DEF IInv

(* The worker never sleeps through the wake-up call that next() or stop()   *)
(* owes it.                                                                 *)
THEOREM WakeUpsAreNotLost == Spec => []NoLostWakeUp
  BY Invariance, PTL DEF IInv

(* The threaded prefetcher implements the abstract stream: pairs in list    *)
(* order, none skipped, none repeated, none after an empty answer.          *)
THEOREM Refinement == Spec => StreamSpec
<1> USE DEF StreamSpec, Stream!Spec
<1>1. Init => Stream!Init
  BY DEF Init, Stream!Init, NotCalled, Stream!NotCalled
<1>2. IInv /\ [Next]_vars => [Stream!Next]_<<got, last, done>>
  <2> SUFFICES ASSUME IInv, [Next]_vars
               PROVE  [Stream!Next]_<<got, last, done>>
    OBVIOUS
  <2>1. CASE Take
    <3>1. queue \in Seq(1 .. N) /\ Len(queue) > 0 /\ Head(queue) = queue[1]
      BY <2>1 DEF Take, IInv, TypeOK
    <3>2. Head(queue) = got + 1 /\ got + 1 \in 1 .. N
      BY <3>1, PrefetcherAssumption
         DEF IInv, TypeOK, Contents, Count, RoomReserved
    <3>3. last # Stream!NoFrame
      BY <2>1 DEF Take, IInv, StopOrder, NoFrame, Stream!NoFrame
    <3>4. Stream!Deliver
      BY <2>1, <3>2, <3>3, PrefetcherAssumption DEF Take, Stream!Deliver, IInv, TypeOK
    <3>5. QED
      BY <3>4 DEF Stream!Next
  <2>2. CASE ReturnEmpty
    BY <2>2 DEF ReturnEmpty, Stream!DeliverNothing, Stream!Next, NoFrame, Stream!NoFrame
  <2>3. CASE Stop
    BY <2>3 DEF Stop, Stream!Stop, Stream!Next
  <2>4. CASE WorkerStep \/ CallNext \/ WaitNotEmpty \/ CallerNotifies \/ StopNotifies
             \/ Join \/ SpuriousWakeUp \/ Finished \/ UNCHANGED vars
    BY <2>4 DEF WorkerStep, WorkerChecks, Decode, Push, WorkerNotifies, CallNext,
                WaitNotEmpty, CallerNotifies, StopNotifies, Join, SpuriousWakeUp,
                Finished, vars
  <2>5. QED
    BY <2>1, <2>2, <2>3, <2>4 DEF Next, CallerStep
<1>3. QED
  BY <1>1, <1>2, Invariance, PTL DEF Spec
=============================================================================
