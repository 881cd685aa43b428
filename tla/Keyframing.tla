----------------------------- MODULE Keyframing -----------------------------
(***************************************************************************)
(* DynamicInitializer::keyframing (initializer/dynamic): of the images in  *)
(* the initialisation window it picks num_pose key frames, the first and   *)
(* the last and then, one by one, an image found by a loop over the        *)
(* pairwise disparities.  One state per iteration of the outer loop.  The  *)
(* disparities are those between images still in the window.  DynamicInit  *)
(* starts it on the window of each attempt; Init is one attempt by itself. *)
(***************************************************************************)
EXTENDS Integers, FiniteSetsExt

CONSTANTS
  Images,        \* camera times, positive numbers
  Disparities,   \* values of average disparity between two images
  NumPose        \* init_dyn_num_pose; with fewer images the function aborts

Invalid == -1    \* compute_disparity found no feature in both images

Unbounded == 1 + Max(Disparities \cup {0})   \* numeric_limits::max()

VARIABLES
  images,      \* all_timestamps: camera times in the feature database
  disp,        \* map_disp: symmetric, by unordered pair of images
  keyframes,   \* keyframe_timestamps
  maxTime,     \* max_time0, declared outside of the loops
  remaining    \* remaining_keyframes

vars == <<images, disp, keyframes, maxTime, remaining>>

Pairs(I) == {p \in SUBSET I : Cardinality(p) = 2}

Begin(I) ==
  /\ images' = I
  /\ disp' \in [Pairs(I) -> Disparities \cup {Invalid}]
  /\ keyframes' = {Min(I), Max(I)}
  /\ maxTime' = 0
  /\ remaining' = NumPose - 2

Init ==
  /\ images = Images
  /\ disp \in [Pairs(images) -> Disparities \cup {Invalid}]
  /\ keyframes = {Min(images), Max(images)}
  /\ maxTime = 0
  /\ remaining = NumPose - 2

(* Mutated form: an image without a valid disparity counts as the worst. *)
MinDisparityFromInvalid(t) ==
  LET all == {disp[{t, u}] : u \in images \ {t}}
  IN  IF all = {Invalid} THEN Invalid ELSE Min(all \ {Invalid})

MinDisparity(t) ==
  Min({Unbounded} \cup ({disp[{t, u}] : u \in images \ {t}} \ {Invalid}))

(* Mutated form: images that are key frames already are not skipped. *)
AllCandidates == images

Candidates == images \ keyframes

(* The inner loop over the candidates, the older first.  Its max_disp and    *)
(* max_time0 start again with every image, so that what the images before it *)
(* offered is forgotten: the last one's offer is what the loop ends with.    *)
Offer(t) == IF MinDisparity(t) > -1 THEN t ELSE -1

AddKeyframe ==
  /\ remaining > 0
  /\ maxTime' = IF Candidates = {} THEN maxTime ELSE Offer(Max(Candidates))
  /\ keyframes' = keyframes \cup {maxTime'}
  /\ remaining' = remaining - 1
  /\ UNCHANGED <<images, disp>>

Finished == remaining = 0 /\ UNCHANGED vars

Next == AddKeyframe \/ Finished

Spec == Init /\ [][Next]_vars

-----------------------------------------------------------------------------
TypeOK ==
  /\ images \subseteq Images
  /\ keyframes \subseteq images
  /\ maxTime \in images \cup {0}
  /\ remaining \in 0 .. NumPose

(* The function returns as many key frames as the caller goes on to demand  *)
(* (DynamicInitializer.cpp:117), never an image twice and no stale maxTime. *)
EnoughKeyframes == Cardinality(keyframes) = NumPose - remaining

(* DynamicInitializer.cpp:503: "greedy search of next new keyframe that     *)
(* maximizes the minimal disparity".                                        *)
MaximizesMinimalDisparity ==
  [][AddKeyframe => \A t \in images \ keyframes :
       MinDisparity(maxTime') >= MinDisparity(t)]_vars
=============================================================================
