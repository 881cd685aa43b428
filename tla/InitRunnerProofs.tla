--------------------------- MODULE InitRunnerProofs ---------------------------
(***************************************************************************)
(* Theorems about the asynchronous initialisation, for every length of the *)
(* window, duration of a solve and number of attempts.                     *)
(***************************************************************************)
EXTENDS InitRunner, SequenceTheorems, TLAPS

(* The frames a .. b, one after the other. *)
Frames(a, b) == [i \in 1 .. b - a + 1 |-> a + i - 1]

(* What is recorded: every frame since the launch of the solve in flight,   *)
(* but for the one that is being looked at.                                 *)
Recorded ==
  /\ pc \in {"idle", "initialized"} =>
       pendingTimes = IF solve = "none" THEN <<>> ELSE Frames(launchTime, now)
  /\ pc = "try" =>
       /\ solve = "none" => pendingTimes = <<>>
       /\ solve # "none" => /\ launchTime < now
                            /\ pendingTimes = Frames(launchTime, now - 1)

(* The pin keeps the IMU data of the snapshot's window, whatever else is    *)
(* trimmed while a solve is in flight.                                      *)
HistoryKept == solve # "none" => pin <= launchTime /\ imuFrom <= launchTime

(* A solve is in flight only while the main thread is before the commit,    *)
(* and before the commit there are no clones.                               *)
Phases ==
  /\ pc \in {"replay", "initialized"} => solve = "none"
  /\ pc \in {"idle", "try"} => clones = {}

(* The replay has rebuilt the window up to stateTime and has the frames     *)
(* after it still to go; the snapshot's own frame comes first and is old.   *)
Rebuilding ==
  pc = "replay" =>
    /\ imuFrom <= launchTime /\ launchTime <= stateTime
    /\ clones = launchTime .. stateTime
    /\ pendingTimes \in {Frames(stateTime, now), Frames(stateTime + 1, now)}

IInv == /\ TypeOK /\ PinnedWhileSolving /\ AttemptsFinished /\ Recorded /\ HistoryKept
        /\ Phases /\ Rebuilding /\ WindowRebuilt

-----------------------------------------------------------------------------
(* Lemmas about runs of frames *)

(* A run of frames is a sequence of them. *)
LEMMA FramesAre ==
  ASSUME NEW a \in Nat, NEW b \in Nat, a <= b + 1
  PROVE  /\ Frames(a, b) \in Seq(a .. b) /\ Len(Frames(a, b)) = b - a + 1
         /\ DOMAIN Frames(a, b) = 1 .. b - a + 1
         /\ \A i \in 1 .. b - a + 1 : Frames(a, b)[i] = a + i - 1
<1>1. b - a + 1 \in Nat
  OBVIOUS
<1>2. \A i \in 1 .. b - a + 1 : a + i - 1 \in a .. b
  OBVIOUS
<1>3. Frames(a, b) \in [1 .. b - a + 1 -> a .. b]
  BY <1>2 DEF Frames
<1>4. Frames(a, b) \in Seq(a .. b)
  BY <1>1, <1>3, SeqDef
<1>5. DOMAIN Frames(a, b) = 1 .. b - a + 1
  BY DEF Frames
<1>6. Len(Frames(a, b)) = b - a + 1
  <2>1. Len(Frames(a, b)) \in Nat /\ DOMAIN Frames(a, b) = 1 .. Len(Frames(a, b))
    BY <1>4, LenProperties
  <2> QED
    BY <1>1, <1>5, <2>1
<1> QED
  BY <1>4, <1>5, <1>6 DEF Frames

(* The next frame extends the run. *)
LEMMA FramesGrow ==
  ASSUME NEW a \in Nat, NEW b \in Nat, a <= b + 1
  PROVE  Append(Frames(a, b), b + 1) = Frames(a, b + 1)
<1> DEFINE s == Append(Frames(a, b), b + 1)  n == b - a + 1
<1>1. Frames(a, b) \in Seq(Nat) /\ Len(Frames(a, b)) = n /\ n \in Nat
  <2>1. Frames(a, b) \in Seq(a .. b) /\ Len(Frames(a, b)) = n
    BY FramesAre
  <2>2. Seq(a .. b) \subseteq Seq(Nat)
    OBVIOUS
  <2> QED
    BY <2>1, <2>2
<1>2. /\ s \in Seq(Nat) /\ Len(s) = n + 1 /\ s[n + 1] = b + 1
      /\ \A i \in 1 .. n : s[i] = Frames(a, b)[i]
  BY <1>1, AppendProperties
<1>3. \A i \in 1 .. n + 1 : s[i] = a + i - 1
  <2>1. \A i \in 1 .. n : s[i] = a + i - 1
    BY <1>2, FramesAre
  <2>2. s[n + 1] = a + (n + 1) - 1
    BY <1>2
  <2>3. \A i \in 1 .. n + 1 : i \in 1 .. n \/ i = n + 1
    BY <1>1
  <2> QED
    BY <2>1, <2>2, <2>3
<1>4. b + 1 \in Nat /\ a <= (b + 1) + 1 /\ (b + 1) - a + 1 = n + 1
  OBVIOUS
<1>5. /\ Frames(a, b + 1) \in Seq(a .. b + 1) /\ Len(Frames(a, b + 1)) = n + 1
      /\ \A i \in 1 .. n + 1 : Frames(a, b + 1)[i] = a + i - 1
  BY <1>4, FramesAre
<1>6. Frames(a, b + 1) \in Seq(Nat)
  <2>1. Seq(a .. b + 1) \subseteq Seq(Nat)
    OBVIOUS
  <2> QED
    BY <1>5, <2>1
<1> HIDE DEF s, n
<1>7. s = Frames(a, b + 1)
  BY <1>2, <1>3, <1>5, <1>6, SeqEqual
<1> QED
  BY <1>7 DEF s

(* A run of one frame. *)
LEMMA FramesStart ==
  ASSUME NEW a \in Nat
  PROVE  Append(<<>>, a) = Frames(a, a)
<1>1. <<a>> \in Seq(Nat) /\ Len(<<a>>) = 1 /\ <<a>>[1] = a
  OBVIOUS
<1>2. Frames(a, a) \in Seq(a .. a) /\ Len(Frames(a, a)) = 1 /\ Frames(a, a)[1] = a
  <2>1. /\ Frames(a, a) \in Seq(a .. a) /\ Len(Frames(a, a)) = a - a + 1
        /\ \A i \in 1 .. a - a + 1 : Frames(a, a)[i] = a + i - 1
    <3>1. a <= a + 1
      OBVIOUS
    <3> QED
      BY <3>1, FramesAre
  <2>2. 1 \in 1 .. a - a + 1 /\ a - a + 1 = 1 /\ a + 1 - 1 = a
    OBVIOUS
  <2> QED
    BY <2>1, <2>2
<1>3. Frames(a, a) \in Seq(Nat)
  <2>1. Seq(a .. a) \subseteq Seq(Nat)
    OBVIOUS
  <2> QED
    BY <1>2, <2>1
<1>4. Append(<<>>, a) = <<a>>
  OBVIOUS
<1>5. \A i \in 1 .. 1 : i = 1
  OBVIOUS
<1> QED
  BY <1>1, <1>2, <1>3, <1>4, <1>5, SeqEqual

(* Its first frame leaves the run. *)
LEMMA FramesShrink ==
  ASSUME NEW a \in Nat, NEW b \in Nat, a <= b
  PROVE  Head(Frames(a, b)) = a /\ Tail(Frames(a, b)) = Frames(a + 1, b)
<1> DEFINE s == Frames(a, b)  n == b - a + 1
<1>1. /\ s \in Seq(a .. b) /\ Len(s) = n /\ n \in Nat /\ n >= 1
      /\ \A i \in 1 .. n : s[i] = a + i - 1
  BY FramesAre
<1>2. s # <<>>
  BY <1>1
<1>3. Head(s) = a
  <2>1. Head(s) = s[1]
    BY <1>1, <1>2, HeadTailProperties
  <2>2. 1 \in 1 .. n /\ a + 1 - 1 = a
    BY <1>1
  <2> QED
    BY <1>1, <2>1, <2>2
<1>4. /\ Tail(s) \in Seq(a .. b) /\ Len(Tail(s)) = n - 1
      /\ \A i \in 1 .. n - 1 : Tail(s)[i] = s[i + 1]
  BY <1>1, <1>2, HeadTailProperties
<1>5. \A i \in 1 .. n - 1 : Tail(s)[i] = (a + 1) + i - 1
  <2>1. ASSUME NEW i \in 1 .. n - 1 PROVE s[i + 1] = (a + 1) + i - 1
    <3>1. i + 1 \in 1 .. n
      BY <1>1
    <3>2. s[i + 1] = a + (i + 1) - 1
      BY <1>1, <3>1
    <3> QED
      BY <3>2
  <2> QED
    BY <1>4, <2>1
<1>6. /\ Frames(a + 1, b) \in Seq(a + 1 .. b) /\ Len(Frames(a + 1, b)) = n - 1
      /\ \A i \in 1 .. n - 1 : Frames(a + 1, b)[i] = (a + 1) + i - 1
  <2>1. a + 1 \in Nat /\ a + 1 <= b + 1 /\ b - (a + 1) + 1 = n - 1
    OBVIOUS
  <2> QED
    BY <2>1, FramesAre
<1>7. Frames(a + 1, b) \in Seq(a .. b)
  <2>1. Seq(a + 1 .. b) \subseteq Seq(a .. b)
    OBVIOUS
  <2> QED
    BY <1>6, <2>1
<1> HIDE DEF s, n
<1>8. Tail(s) = Frames(a + 1, b)
  BY <1>4, <1>5, <1>6, <1>7, SeqEqual
<1> QED
  BY <1>3, <1>8 DEF s

-----------------------------------------------------------------------------
LEMMA InitEstablishes == Init => IInv
<1> SUFFICES ASSUME Init PROVE IInv
  OBVIOUS
<1> USE InitAssumption, StartAssumption DEF Init, NoPin
<1>1. TypeOK
  <2>1. now \in StartTime .. Greater(StartTime, LastTime)
    BY DEF Greater
  <2>2. pendingTimes \in Seq(StartTime .. now) /\ clones \subseteq StartTime .. now
    OBVIOUS
  <2>3. imuFrom \in StartTime .. now /\ launchTime \in StartTime .. now /\ stateTime \in 0 .. now
    OBVIOUS
  <2>4. pin \in {NoPin} \cup (0 .. now) /\ unfinished \in 0 .. 1
    OBVIOUS
  <2> QED
    BY <2>1, <2>2, <2>3, <2>4 DEF TypeOK
<1> QED
  BY <1>1 DEF IInv, PinnedWhileSolving, AttemptsFinished, Recorded, HistoryKept,
       Phases, Rebuilding, WindowRebuilt

(* The types as numbers, which is how most steps need them. *)
LEMMA Numbers ==
  ASSUME TypeOK
  PROVE  /\ {now, launchTime, imuFrom, stateTime, StartTime, WindowTime} \subseteq Nat
         /\ StartTime <= now /\ StartTime <= launchTime /\ launchTime <= now
         /\ StartTime <= imuFrom /\ imuFrom <= now /\ stateTime <= now
         /\ WindowTime >= 1 /\ StartTime >= 1
         /\ unfinished \in {0, 1} /\ pin \in Int
BY InitAssumption, StartAssumption DEF TypeOK, NoPin

(* A new frame trims the IMU data down to the floor, never past the pin.    *)
LEMMA NextFrameKeeps ==
  ASSUME IInv, NextFrame
  PROVE  IInv'
<1> USE DEF IInv, NextFrame, solveVars, jerkVars, stateVars
<1>1. /\ now \in Nat /\ launchTime \in Nat /\ imuFrom \in Nat /\ StartTime \in Nat
      /\ StartTime <= now /\ launchTime <= now /\ StartTime <= imuFrom /\ imuFrom <= now
      /\ WindowTime \in Nat /\ LastTime \in Nat /\ pin \in Int
  BY Numbers, InitAssumption
<1>2. /\ TrimFloor \in Int /\ TrimFloor <= now'
      /\ pin >= 0 => TrimFloor <= pin
  BY <1>1 DEF TrimFloor, RollingFloor, Lesser
<1>3. imuFrom' \in Nat /\ StartTime <= imuFrom' /\ imuFrom' <= now'
      /\ (pin >= 0 /\ pin <= launchTime /\ imuFrom <= launchTime => imuFrom' <= launchTime)
  BY <1>1, <1>2 DEF Greater
<1>4. TypeOK'
  <2>1. now' \in StartTime .. Greater(StartTime, LastTime)
    BY <1>1 DEF Greater
  <2>2. /\ launchTime' \in StartTime .. now' /\ stateTime' \in 0 .. now'
        /\ pin' \in {NoPin} \cup (0 .. now') /\ clones' \subseteq StartTime .. now'
    BY <1>1 DEF TypeOK
  <2>3. pendingTimes' \in Seq(StartTime .. now')
    <3>1. StartTime .. now \subseteq StartTime .. now'
      BY <1>1
    <3>2. pendingTimes \in Seq(StartTime .. now)
      BY DEF TypeOK
    <3> QED
      BY <3>1, <3>2, SeqMonotonic
  <2>4. imuFrom' \in StartTime .. now'
    BY <1>1, <1>3
  <2> QED
    BY <2>1, <2>2, <2>3, <2>4 DEF TypeOK
<1>5. PinnedWhileSolving' /\ AttemptsFinished'
  BY DEF PinnedWhileSolving, AttemptsFinished
<1>6. Recorded'
  <2>1. now' - 1 = now /\ launchTime < now'
    BY <1>1
  <2> QED
    BY <2>1 DEF Recorded
<1>7. HistoryKept'
  <2>1. solve # "none" => pin >= 0
    BY DEF PinnedWhileSolving, TypeOK
  <2> QED
    BY <1>1, <1>3, <2>1 DEF HistoryKept
<1>8. Phases' /\ Rebuilding' /\ WindowRebuilt'
  BY DEF Phases, Rebuilding, WindowRebuilt
<1> QED
  BY <1>4, <1>5, <1>6, <1>7, <1>8

(* Attempts that choose no dynamic solve leave the solve's part alone.      *)
LEMMA OtherAttemptsKeep ==
  ASSUME IInv, NotReady \/ NoMethod \/ TryStatic
  PROVE  IInv'
<1> USE DEF IInv
<1>1. /\ pc = "try" /\ solve = "none" /\ pc' \in {"idle", "initialized"}
      /\ UNCHANGED <<now, imuFrom, solve, launchTime, pendingTimes, pin, unfinished, clones>>
      /\ {wasStatic', still'} \subseteq BOOLEAN
      /\ stateTime' \in 0 .. now
  <2>1. CASE NotReady
    BY <2>1 DEF NotReady, bufferVars, solveVars, jerkVars, stateVars, TypeOK
  <2>2. CASE NoMethod
    BY <2>2 DEF NoMethod, Ready, bufferVars, solveVars, jerkVars, stateVars, TypeOK
  <2>3. CASE TryStatic
    <3>1. \A t \in imuFrom .. now : t \in 0 .. now
      BY Numbers
    <3>2. stateTime' \in 0 .. now
      BY <2>3, <3>1 DEF TryStatic, TypeOK
    <3> QED
      BY <2>3, <3>2 DEF TryStatic, Ready, bufferVars, solveVars
  <2> QED
    BY <2>1, <2>2, <2>3
<1>2. TypeOK'
  BY <1>1 DEF TypeOK
<1>3. clones = {} /\ pendingTimes = <<>>
  BY <1>1 DEF Phases, Recorded
<1> QED
  BY <1>1, <1>2, <1>3 DEF PinnedWhileSolving, AttemptsFinished, Recorded, HistoryKept,
       Phases, Rebuilding, WindowRebuilt

(* A launch pins the data of the window it has copied.                      *)
LEMMA LaunchSolveKeeps ==
  ASSUME IInv, LaunchSolve
  PROVE  IInv'
<1> USE DEF IInv, LaunchSolve, Ready, bufferVars, stateVars
<1>1. /\ now \in Nat /\ imuFrom \in Nat /\ StartTime \in Nat /\ WindowTime \in Nat
      /\ WindowTime >= 1 /\ StartTime >= 1 /\ StartTime <= now /\ imuFrom <= now
  BY Numbers
<1>2. pendingTimes = <<>>
  BY DEF Recorded
<1>3. pendingTimes' = Frames(now, now)
  BY <1>1, <1>2, FramesStart
<1>4. pin' \in 0 .. now /\ pin' <= now
  BY <1>1
<1>5. pendingTimes' \in Seq(StartTime .. now')
  BY <1>1, <1>2
<1>6. unfinished' = 1
  BY DEF AttemptsFinished
<1>7. TypeOK'
  <2>1. launchTime' \in StartTime .. now' /\ unfinished' \in 0 .. 1
    BY <1>1, <1>6
  <2>2. UNCHANGED <<now, imuFrom, stateTime, clones, wasStatic>>
    OBVIOUS
  <2>3. still' = FALSE /\ solve' = "running" /\ pc' = "idle"
    OBVIOUS
  <2> HIDE DEF LaunchSolve, Ready
  <2> QED
    BY <1>4, <1>5, <2>1, <2>2, <2>3 DEF TypeOK
<1>8. PinnedWhileSolving' /\ AttemptsFinished' /\ HistoryKept'
  BY <1>1, <1>4, <1>6 DEF PinnedWhileSolving, AttemptsFinished, HistoryKept, NoPin
<1> QED
  BY <1>3, <1>7, <1>8 DEF Recorded, Phases, Rebuilding, WindowRebuilt

(* Each frame of a running solve is recorded behind the earlier ones.       *)
LEMMA PendingGrows ==
  ASSUME IInv, pc = "try", solve # "none"
  PROVE  /\ Append(pendingTimes, now) = Frames(launchTime, now)
         /\ Append(pendingTimes, now) \in Seq(StartTime .. now)
<1>1. launchTime \in Nat /\ now \in Nat /\ StartTime \in Nat /\ StartTime <= now
  BY Numbers DEF IInv
<1>2. launchTime < now /\ pendingTimes = Frames(launchTime, now - 1)
  BY DEF IInv, Recorded
<1>3. now - 1 \in Nat /\ launchTime <= (now - 1) + 1 /\ (now - 1) + 1 = now
  BY <1>1, <1>2
<1>4. Append(Frames(launchTime, now - 1), (now - 1) + 1) = Frames(launchTime, (now - 1) + 1)
  BY <1>1, <1>3, FramesGrow
<1>5. pendingTimes \in Seq(StartTime .. now)
  BY DEF IInv, TypeOK
<1> QED
  BY <1>1, <1>2, <1>3, <1>4, <1>5

LEMMA SolveProceeds ==
  ASSUME IInv, FinishSolve \/ StillRunning
  PROVE  IInv'
<1> USE DEF IInv
<1>1. CASE FinishSolve
  <2> USE <1>1 DEF FinishSolve, bufferVars, jerkVars, stateVars
  <2>1. TypeOK'
    BY DEF TypeOK
  <2> QED
    BY <2>1 DEF PinnedWhileSolving, AttemptsFinished, Recorded, HistoryKept, Phases,
                Rebuilding, WindowRebuilt
<1>2. CASE StillRunning
  <2> USE <1>2 DEF StillRunning, bufferVars, jerkVars, stateVars
  <2>1. pendingTimes' = Frames(launchTime, now) /\ pendingTimes' \in Seq(StartTime .. now)
    BY PendingGrows
  <2>2. TypeOK'
    BY <2>1 DEF TypeOK
  <2> QED
    BY <2>1, <2>2 DEF PinnedWhileSolving, AttemptsFinished, Recorded, HistoryKept,
                      Phases, Rebuilding, WindowRebuilt
<1> QED
  BY <1>1, <1>2

(* A failed attempt leaves nothing behind.                                  *)
LEMMA RetryKeeps ==
  ASSUME IInv, Retry
  PROVE  IInv'
<1> USE DEF IInv, Retry, Resolve, bufferVars, stateVars
<1>1. unfinished = 1 /\ unfinished' = 0
  BY DEF AttemptsFinished
<1>2. TypeOK'
  <2>1. pendingTimes' \in Seq(StartTime .. now')
    OBVIOUS
  <2> QED
    BY <1>1, <2>1 DEF TypeOK
<1> QED
  BY <1>1, <1>2 DEF PinnedWhileSolving, AttemptsFinished, Recorded, HistoryKept, Phases,
                    Rebuilding, WindowRebuilt

(* The commit starts from the snapshot's newest frame.                      *)
LEMMA SwapStateKeeps ==
  ASSUME IInv, SwapState
  PROVE  IInv'
<1> USE DEF IInv, SwapState, Resolve, bufferVars
<1>1. /\ now \in Nat /\ launchTime \in Nat /\ StartTime \in Nat
      /\ StartTime <= launchTime /\ launchTime <= now
  BY Numbers
<1>2. unfinished = 1 /\ unfinished' = 0
  BY DEF AttemptsFinished
<1>3. pendingTimes' = Frames(launchTime, now) /\ pendingTimes' \in Seq(StartTime .. now)
  BY PendingGrows
<1>4. TypeOK'
  <2>1. stateTime' \in 0 .. now' /\ clones' \subseteq StartTime .. now'
    BY <1>1
  <2> QED
    BY <1>2, <1>3, <2>1 DEF TypeOK
<1>5. Rebuilding'
  <2>1. clones' = launchTime' .. stateTime'
    BY <1>1
  <2>2. imuFrom' <= launchTime' /\ launchTime' <= stateTime'
    BY <1>1 DEF HistoryKept
  <2> QED
    BY <1>3, <2>1, <2>2 DEF Rebuilding
<1> QED
  BY <1>2, <1>4, <1>5 DEF PinnedWhileSolving, AttemptsFinished, Recorded, HistoryKept, Phases,
                    WindowRebuilt

(* A replayed frame that is newer than the state moves it one frame on.     *)
LEMMA ReplayKeeps ==
  ASSUME IInv, Replay
  PROVE  IInv'
<1> USE DEF IInv, Replay, bufferVars, jerkVars, stateVars
<1>1. /\ now \in Nat /\ launchTime \in Nat /\ StartTime \in Nat /\ stateTime \in Nat
      /\ StartTime <= launchTime /\ launchTime <= now /\ stateTime <= now
  BY Numbers
<1>2. /\ launchTime <= stateTime /\ imuFrom <= launchTime
      /\ clones = launchTime .. stateTime
      /\ pendingTimes \in {Frames(stateTime, now), Frames(stateTime + 1, now)}
  BY DEF Rebuilding
<1>3. /\ stateTime' \in Nat /\ stateTime <= stateTime' /\ stateTime' <= now
      /\ clones' = launchTime .. stateTime'
      /\ pendingTimes' = Frames(stateTime' + 1, now)
  <2>1. CASE pendingTimes = Frames(stateTime, now)
    <3>1. Head(pendingTimes) = stateTime /\ Tail(pendingTimes) = Frames(stateTime + 1, now)
      BY <1>1, <2>1, FramesShrink
    <3>2. UNCHANGED <<stateTime, clones>>
      BY <1>1, <3>1
    <3> QED
      BY <1>1, <1>2, <3>1, <3>2
  <2>2. CASE pendingTimes = Frames(stateTime + 1, now)
    <3>1. stateTime + 1 \in Nat /\ stateTime + 1 <= now + 1
      BY <1>1
    <3>2. Len(pendingTimes) = now - (stateTime + 1) + 1 /\ pendingTimes \in Seq(StartTime .. now)
      BY <1>1, <2>2, <3>1, FramesAre DEF TypeOK
    <3>3. Len(pendingTimes) > 0
      BY <3>2
    <3>4. stateTime + 1 <= now
      BY <1>1, <3>2, <3>3
    <3>5. /\ Head(pendingTimes) = stateTime + 1
          /\ Tail(pendingTimes) = Frames((stateTime + 1) + 1, now)
      BY <1>1, <2>2, <3>1, <3>4, FramesShrink
    <3>6. stateTime' = stateTime + 1 /\ clones' = clones \cup {stateTime'}
      BY <1>1, <3>5
    <3>7. clones' = launchTime .. stateTime'
      BY <1>1, <1>2, <3>6
    <3> QED
      BY <1>1, <3>4, <3>5, <3>6, <3>7
  <2> QED
    BY <1>2, <2>1, <2>2
<1>4. TypeOK'
  <2>1. pendingTimes' \in Seq(StartTime .. now)
    <3>1. pendingTimes \in Seq(StartTime .. now)
      BY DEF TypeOK
    <3> QED
      BY <3>1, HeadTailProperties
  <2>2. stateTime' \in 0 .. now /\ clones' \subseteq StartTime .. now
    BY <1>1, <1>3
  <2>3. UNCHANGED <<now, imuFrom, solve, launchTime, pin, wasStatic, unfinished, still, pc>>
    OBVIOUS
  <2> HIDE DEF Replay
  <2> QED
    BY <2>1, <2>2, <2>3 DEF TypeOK
<1>5. Rebuilding'
  <2>1. imuFrom' <= launchTime' /\ launchTime' <= stateTime' /\ launchTime' = launchTime /\ now' = now
    BY <1>1, <1>2, <1>3
  <2> QED
    BY <1>3, <2>1 DEF Rebuilding
<1> QED
  BY <1>4, <1>5 DEF PinnedWhileSolving, AttemptsFinished, Recorded, HistoryKept, Phases,
                    WindowRebuilt

(* When nothing is left to replay, the state has caught up.                 *)
LEMMA FinalizeKeeps ==
  ASSUME IInv, FinalizeInitialization
  PROVE  IInv'
<1> USE DEF IInv, FinalizeInitialization, bufferVars, solveVars, jerkVars, stateVars
<1>1. now \in Nat /\ stateTime \in Nat /\ stateTime <= now
  BY Numbers
<1>2. /\ clones = launchTime .. stateTime
      /\ pendingTimes \in {Frames(stateTime, now), Frames(stateTime + 1, now)}
  BY DEF Rebuilding
<1>3. stateTime = now
  <2>1. Len(pendingTimes) = 0
    OBVIOUS
  <2>2. Len(Frames(stateTime, now)) = now - stateTime + 1
    BY <1>1, FramesAre
  <2>3. Len(Frames(stateTime + 1, now)) = now - (stateTime + 1) + 1
    <3>1. stateTime + 1 \in Nat /\ stateTime + 1 <= now + 1
      BY <1>1
    <3> QED
      BY <1>1, <3>1, FramesAre
  <2> QED
    BY <1>1, <1>2, <2>1, <2>2, <2>3
<1>4. TypeOK'
  BY DEF TypeOK
<1> QED
  BY <1>2, <1>3, <1>4 DEF PinnedWhileSolving, AttemptsFinished, Recorded, HistoryKept, Phases,
                    Rebuilding, WindowRebuilt

LEMMA EndKeeps ==
  ASSUME IInv, Destroy \/ UNCHANGED vars
  PROVE  IInv'
<1> USE DEF IInv
<1>1. UNCHANGED <<now, imuFrom, pin, solve, launchTime, pendingTimes, wasStatic, unfinished,
                  still, stateTime, clones>>
      /\ pc' \in {pc, "destroyed"}
  BY DEF Destroy, vars, bufferVars, solveVars, jerkVars, stateVars
<1>2. TypeOK'
  BY <1>1 DEF TypeOK
<1> QED
  BY <1>1, <1>2 DEF PinnedWhileSolving, AttemptsFinished, Recorded, HistoryKept, Phases,
                    Rebuilding, WindowRebuilt

LEMMA StepKeeps == IInv /\ [Next]_vars => IInv'
BY NextFrameKeeps, OtherAttemptsKeep, LaunchSolveKeeps, SolveProceeds, RetryKeeps,
   SwapStateKeeps, ReplayKeeps, FinalizeKeeps, EndKeeps
   DEF Next, TryInitialize, Finished

(* The invariant of snapshots, recorded frames and IMU history is inductive. *)
THEOREM Invariance == Spec => []IInv
BY InitEstablishes, StepKeeps, PTL DEF Spec

(* Every variable keeps its type; no attempt is finished twice.             *)
THEOREM TypeCorrect == Spec => []TypeOK
BY Invariance, PTL DEF IInv

(* trim_floor_pin_ holds exactly as long as a solve is in flight.           *)
THEOREM PinHeldWhileSolving == Spec => []PinnedWhileSolving
BY Invariance, PTL DEF IInv

(* finish_attempt is called once for each method that was chosen.           *)
THEOREM EveryAttemptIsFinished == Spec => []AttemptsFinished
BY Invariance, PTL DEF IInv

(* What a commit will replay is what was tracked since its solve's launch.  *)
THEOREM RecordingIsExact == Spec => []PendingSinceLaunch
<1>1. IInv => PendingSinceLaunch
  BY DEF IInv, Recorded, PendingSinceLaunch, Frames
<1> QED
  BY <1>1, Invariance, PTL

(* However long a solve lasts, the IMU data its commit needs is still there. *)
THEOREM CatchUpHasItsData == Spec => []CatchUpNeverStarves
<1>1. IInv => CatchUpNeverStarves
  BY Numbers DEF IInv, Rebuilding, CatchUpNeverStarves
<1> QED
  BY <1>1, Invariance, PTL

(* A commit ends at the frame that found the outcome, with a clone at every *)
(* frame since the launch.                                                  *)
THEOREM WindowIsRebuilt == Spec => []WindowRebuilt
BY Invariance, PTL DEF IInv
=============================================================================
