---------------------------- MODULE FrameStream -----------------------------
(***************************************************************************)
(* What a user of StereoImagePrefetcher is promised: the stereo pairs come *)
(* back one per call, in the order of the camera list, none skipped and    *)
(* none twice; once the prefetcher is stopped a call may come back with    *)
(* empty images, and after the first such answer no image follows.         *)
(***************************************************************************)
EXTENDS Integers

CONSTANT N          \* number of entries of cam_data_

VARIABLES
  got,              \* how many pairs have been returned
  last,             \* what the latest call returned: a pair or NoFrame
  stopped

NoFrame   == 0      \* empty images; the i-th pair of the list is the number i
NotCalled == -1     \* no call has returned yet

Init == got = 0 /\ last = NotCalled /\ stopped = FALSE

Deliver ==
  /\ got < N
  /\ last # NoFrame
  /\ got' = got + 1
  /\ last' = got'
  /\ UNCHANGED stopped

DeliverNothing ==
  /\ stopped
  /\ last' = NoFrame
  /\ UNCHANGED <<got, stopped>>

Stop == stopped' = TRUE /\ UNCHANGED <<got, last>>

Next == Deliver \/ DeliverNothing \/ Stop

Spec == Init /\ [][Next]_<<got, last, stopped>>
=============================================================================
