----------------------------- MODULE Prefetcher -----------------------------
(***************************************************************************)
(* StereoImagePrefetcher (common/image_prefetcher.h): one worker thread    *)
(* decodes the stereo pairs of a dataset ahead of the estimator, into a    *)
(* queue guarded by mtx_ and two condition variables.  The estimator's     *)
(* thread calls next() once per camera entry and, at any point between two *)
(* calls, stop() (the destructor does).                                    *)
(*                                                                         *)
(* A section under mtx_ is one step.  A thread that waits on a condition   *)
(* variable is "blocked" until it is notified or wakes spuriously; it then *)
(* takes mtx_ again and evaluates its predicate ("check").                 *)
(***************************************************************************)
EXTENDS Integers, Sequences

CONSTANTS
  N,            \* cam_data_.size()
  MaxAhead,     \* max_ahead_
  ExtraCalls    \* bound: calls of next() made after stop()

ASSUMPTION PrefetcherAssumption ==
  N \in Nat /\ MaxAhead \in Nat \ {0} /\ ExtraCalls \in Nat

NoFrame   == 0  \* Frame{}; the i-th pair of the list is the number i
NotCalled == -1 \* next() has not returned yet

VARIABLES
  queue,        \* queue_
  done,         \* done_
  index,        \* the worker's loop variable, counted from 1
  worker,       \* where the worker thread is
  caller,       \* where the calling thread is
  got, last,    \* pairs returned so far, and the latest answer of next()
  extra         \* calls of next() since stop()

vars == <<queue, done, index, worker, caller, got, last, extra>>

WorkerAt == {"check", "blocked", "decode", "push", "notify", "exited", "joined"}
CallerAt == {"idle", "check", "blocked", "notify", "stop_notify", "join"}

Init ==
  /\ queue = <<>> /\ done = FALSE /\ index = 1
  /\ worker = "check" /\ caller = "idle"
  /\ got = 0 /\ last = NotCalled /\ extra = 0

-----------------------------------------------------------------------------
(* The worker thread *)

(* Mutated form: the wait's predicate forgets done_. *)
WorkerChecksIgnoringDone ==
  /\ worker = "check"
  /\ worker' = IF index > N THEN "exited"
               ELSE IF Len(queue) < MaxAhead THEN IF done THEN "exited" ELSE "decode"
               ELSE "blocked"
  /\ UNCHANGED <<queue, done, index, caller, got, last, extra>>

(* Mutated form: room for one more than max_ahead_. *)
WorkerChecksOffByOne ==
  /\ worker = "check"
  /\ worker' = IF index > N \/ done THEN "exited"
               ELSE IF Len(queue) <= MaxAhead THEN "decode"
               ELSE "blocked"
  /\ UNCHANGED <<queue, done, index, caller, got, last, extra>>

(* Mutated form: the loop runs one entry past the end of the list. *)
WorkerChecksPastEnd ==
  /\ worker = "check"
  /\ worker' = IF index > N + 1 \/ done THEN "exited"
               ELSE IF Len(queue) < MaxAhead THEN "decode"
               ELSE "blocked"
  /\ UNCHANGED <<queue, done, index, caller, got, last, extra>>

WorkerChecks ==
  /\ worker = "check"
  /\ worker' = IF index > N \/ done THEN "exited"
               ELSE IF Len(queue) < MaxAhead THEN "decode"
               ELSE "blocked"
  /\ UNCHANGED <<queue, done, index, caller, got, last, extra>>

(* imread, with no lock held *)
Decode ==
  /\ worker = "decode"
  /\ worker' = "push"
  /\ UNCHANGED <<queue, done, index, caller, got, last, extra>>

Push ==
  /\ worker = "push"
  /\ queue' = Append(queue, index)
  /\ worker' = "notify"
  /\ UNCHANGED <<done, index, caller, got, last, extra>>

(* Mutated form: the pair is announced to nobody. *)
WorkerSkipsNotify ==
  /\ worker = "notify"
  /\ index' = index + 1
  /\ worker' = "check"
  /\ UNCHANGED <<queue, done, caller, got, last, extra>>

(* cv_not_empty_.notify_one() and the loop's increment *)
WorkerNotifies ==
  /\ worker = "notify"
  /\ caller' = IF caller = "blocked" THEN "check" ELSE caller
  /\ index' = index + 1
  /\ worker' = "check"
  /\ UNCHANGED <<queue, done, got, last, extra>>

WorkerStep == WorkerChecks \/ Decode \/ Push \/ WorkerNotifies

-----------------------------------------------------------------------------
(* The calling thread *)
CallNext ==
  /\ caller = "idle"
  /\ IF done THEN extra < ExtraCalls /\ extra' = extra + 1
             ELSE got < N /\ UNCHANGED extra
  /\ caller' = "check"
  /\ UNCHANGED <<queue, done, index, worker, got, last>>

(* Mutated form: the place that became free is announced to nobody. *)
TakeSilently ==
  /\ caller = "check"
  /\ queue # <<>>
  /\ last' = Head(queue)
  /\ queue' = Tail(queue)
  /\ got' = got + 1
  /\ caller' = "idle"
  /\ UNCHANGED <<done, index, worker, extra>>

Take ==
  /\ caller = "check"
  /\ queue # <<>>
  /\ last' = Head(queue)
  /\ queue' = Tail(queue)
  /\ got' = got + 1
  /\ caller' = "notify"
  /\ UNCHANGED <<done, index, worker, extra>>

ReturnEmpty ==
  /\ caller = "check"
  /\ queue = <<>> /\ done
  /\ last' = NoFrame
  /\ caller' = "idle"
  /\ UNCHANGED <<queue, done, index, worker, got, extra>>

WaitNotEmpty ==
  /\ caller = "check"
  /\ queue = <<>> /\ ~done
  /\ caller' = "blocked"
  /\ UNCHANGED <<queue, done, index, worker, got, last, extra>>

(* cv_not_full_.notify_one(), after the lock has been released *)
CallerNotifies ==
  /\ caller = "notify"
  /\ worker' = IF worker = "blocked" THEN "check" ELSE worker
  /\ caller' = "idle"
  /\ UNCHANGED <<queue, done, index, got, last, extra>>

Stop ==
  /\ caller = "idle" /\ ~done
  /\ done' = TRUE
  /\ caller' = "stop_notify"
  /\ UNCHANGED <<queue, index, worker, got, last, extra>>

(* The not_full notification; nobody but the caller itself ever waits on    *)
(* not_empty.                                                               *)
StopNotifies ==
  /\ caller = "stop_notify"
  /\ worker' = IF worker = "blocked" THEN "check" ELSE worker
  /\ caller' = "join"
  /\ UNCHANGED <<queue, done, index, got, last, extra>>

(* Mutated form: the worker is detached, not joined. *)
ReturnWithoutJoin ==
  /\ caller = "join"
  /\ caller' = "idle"
  /\ UNCHANGED <<queue, done, index, worker, got, last, extra>>

Join ==
  /\ caller = "join" /\ worker = "exited"
  /\ worker' = "joined"
  /\ caller' = "idle"
  /\ UNCHANGED <<queue, done, index, got, last, extra>>

CallerStep == Take \/ ReturnEmpty \/ WaitNotEmpty \/ CallerNotifies
              \/ StopNotifies \/ Join

SpuriousWakeUp ==
  /\ \/ worker = "blocked" /\ worker' = "check" /\ UNCHANGED caller
     \/ caller = "blocked" /\ caller' = "check" /\ UNCHANGED worker
  /\ UNCHANGED <<queue, done, index, got, last, extra>>

(* The prefetcher has been stopped and its user has gone. *)
Finished == worker = "joined" /\ caller = "idle" /\ UNCHANGED vars

Next == WorkerStep \/ CallNext \/ Stop \/ CallerStep \/ SpuriousWakeUp \/ Finished

Spec == Init /\ [][Next]_vars

(* Both threads are scheduled; nobody has to call next() or stop(), and     *)
(* nobody has to wake up spuriously.                                        *)
FairSpec == Spec /\ WF_vars(WorkerStep) /\ WF_vars(CallerStep)

-----------------------------------------------------------------------------
TypeOK ==
  /\ queue \in Seq(1 .. N)
  /\ done \in BOOLEAN
  /\ index \in 1 .. N + 1
  /\ worker \in WorkerAt
  /\ caller \in CallerAt
  /\ got \in 0 .. N
  /\ last \in {NotCalled} \cup (0 .. N)
  /\ extra \in 0 .. ExtraCalls

(* At most max_ahead_ decoded pairs are held, although the worker checks    *)
(* for room in one critical section and pushes in a later one.              *)
QueueBounded == Len(queue) <= MaxAhead

(* The worker never sleeps on a full queue that is no longer full (or on a  *)
(* stopped prefetcher) unless its wake-up call is already on its way.       *)
NoLostWakeUp ==
  worker = "blocked" /\ (Len(queue) < MaxAhead \/ done)
     => caller \in {"notify", "stop_notify"}

(* The refinement: calls of next() are answered as FrameStream promises.    *)
Stream == INSTANCE FrameStream WITH stopped <- done
StreamSpec == Stream!Spec

(* Every call of next() returns. *)
EveryCallReturns == caller \in {"check", "blocked"} ~> caller \in {"notify", "idle"}

(* stop() gets its thread back, wherever the worker was. *)
StopTerminates == caller = "stop_notify" ~> worker = "joined"
=============================================================================
