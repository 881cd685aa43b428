# Verification of sqrtVINS

sqrtVINS is a visual-inertial estimator: a sliding-window filter that keeps the
upper-triangular square root `U_` of its information, initialises itself within
a fraction of a second, and can run a windowed bundle adjustment beside the
filter. The repository also keeps the covariance filter it is compared with
(ov_msckf). This directory holds TLA+ models of the parts whose correctness is a
matter of *order and bookkeeping* (which clone, which column, which slot, which
thread, which mutex), their TLC configurations, and proofs for TLAPS. Numbers
inside matrices are abstracted away everywhere; everything that decides what is
stored where, and when, is kept.

`PROJECT.json` maps every definition to the lines it translates; comments in
the modules carry the rest.

## 1. Inventory

| Part | Code | State | Operations |
|---|---|---|---|
| Estimator frame cycle | `core/SqrtEstimator.cpp`, `Pipeline.cpp`, `Frontend.cpp` | time, `has_moved_since_zupt_` | feed camera and IMU, propagate, select features, update, marginalise |
| Sliding window and factor | `state/State.*`, `state/StateHelper.cpp` | `clones_IMU`, `features_SLAM`, `variables_`, `U_`, `state_to_marg_` | propagate, clone, marginalise, initialise landmarks, change anchors |
| SLAM landmark updater | `update/UpdaterSLAM.cpp` | anchors of landmarks | update, delayed initialisation, anchor change |
| Camera pose ring | `utils/CameraPoseBuffer.*` | timestamp to slot map, next slot | add, remove, look up |
| Matrix buffers | `utils/EigenMatrixBuffer.h` | preallocated storage | append, set size |
| MSCKF, zero velocity, pose feedback updaters | `update/*.cpp` | ZUPT: IMU buffer, counters | numeric updates |
| Stereo image prefetcher | `common/image_prefetcher.h` | queue, `done_`, worker thread | `next`, `stop`, worker loop |
| Online bundle adjustment | `backend/BackendSystem.cpp` and its driver `run_euroc_sqrt.cpp` | keyframes, refined poses, counters, worker thread | record, poll, publish, warm start, stop |
| Asynchronous initialisation | `core/InitRunner.cpp`, `initializer/InertialInitializer.cpp` | snapshots, future, pin, pending times, jerk flags | launch, poll, commit, retry, trim |
| Key frame selection | `initializer/dynamic/DynamicInitializer.cpp` | disparity table | `keyframing` |
| Synchronous initialisation | `initializer/InertialInitializer.cpp`, `initializer/dynamic/DynamicInitializer.cpp`, `Solver.cpp` | the live `State` from one attempt to the next, overridden options | choose a method, pick key frames, reset, propagate and clone, iterate, select landmarks, hand over or reset |
| Preintegration, factors, geometry | `initializer/dynamic/OpengvHelper.cpp`, `backend/*` | numeric | numeric |
| Feature database | `ov_core/src/feat/FeatureDatabase.*` | features with the times of their measurements | update, select by time, clean up |
| Baseline estimator | `ov_msckf/src/core/VioManager*.cpp`, `state/*`, `update/*` | its own state with a covariance, frames waiting for the initialisation, two flags shared with the initialisation thread, IMU history | feed IMU and camera, initialise in a thread, propagate and clone, select features, update, marginalise |
| Options, drivers, bindings, evaluation, data | the rest | parameters, files | parsing, printing |

How they interact. One *estimator thread* runs the driver: it takes a stereo
pair from the prefetcher, feeds IMU readings and the pair to the estimator, and
does a frame's work as a fixed sequence of calls on the shared `State`.
Three more threads exist: the prefetcher's worker (shares a queue, one mutex,
two condition variables), the bundle adjustment's worker (shares the keyframe
list, one mutex, one condition variable; publishes under a second mutex; an
atomic counter), and the initialisation's background solve (shares nothing but
its future: it works on a shadow copy of the state and on snapshots).
The baseline estimator is a program of its own: one driver thread, and one
initialisation thread per attempt that works on the *live* state and database,
guarded by the order in which two flags are set and read, and by the lock of
the queue of waiting frames.

What is hard here, and what correctness means:

* **The window.** `U_` is factorised lazily: after a propagation fifteen noise
  rows may or may not lie on top of it, and two later readers recompute which
  from the size of the window. A clone is inserted in the middle of the columns
  and removed from the middle; landmarks are anchored in clones that are about to
  disappear; features are selected before landmarks are dropped. Correct means:
  the layout has no gap or overlap, no landmark hangs from a dead clone, no
  reader looks at rows that are not there, the window and the buffers keep to
  their sizes, and no pose of a live clone is overwritten in the ring.
* **The prefetcher.** A queue bound checked in one critical section and used in
  another, two condition variables, a shutdown at any point. Correct means: the
  pairs come in order and once, the bound holds, nobody sleeps for ever.
* **The backend.** The solve runs without the lock while the filter goes on
  recording; results are published under another mutex and written back later.
  Correct means: a late result lands in the right keyframe, no pose goes
  backwards, no publication is missed or fed back twice, shutdown ends and the
  offline adjustment has the data to itself.
* **Asynchronous initialisation.** The result of a solve is committed an
  arbitrary number of frames after its input was taken. Correct means: the
  IMU data of the frames in between is still there, exactly these frames are
  replayed, and a failed attempt leaves nothing behind.
* **The baseline estimator.** The state has no lock; the thread replays the
  frames that came in while it solved; three rules at three places trim the
  IMU history; a track can be lost, at the oldest clone, promoted and a
  landmark at once; blocks leave the covariance from its middle. Correct means:
  only one thread has the state, no call that ends the program (a propagation
  back in time, a clone twice at one time) is made, a propagation has its
  IMU readings unless the solve outlasted their window, no measurement is used twice, and the blocks stay dense.
* **Synchronous initialisation.** An attempt works on the live `State` object and the
  live database; it can fail at many points, two of them in the middle of
  `solve()`, and the next frame tries again on overlapping images. Correct means:
  every pose that is read is in the ring, a failed attempt leaves nothing
  behind, and the filter starts with one clone, landmarks anchored there and no
  measurement that the solve has used.
* **Key frame selection.** A triple loop with variables declared at different
  levels. Correct means: the demanded number of distinct images, chosen greedily.

The hazards, each at its line, are listed in `PROJECT.json`.

## 2. Modules

| Module | Models | State corresponds to |
|---|---|---|
| `SlidingWindow` | one camera frame after another: `propagate`, `clone`, feature selection, `handle_marginalization` (landmarks, anchors, oldest clone, `marginalize`), `delayed_init`, zero velocity updates | `clones` = keys of `clones_IMU`; `slam` = landmark to anchor time; `ids` = `id()` of the variables; `rows`, `cols` = shape of `U_`; `toMarg` = `state_to_marg_`; `pc` = next call of the frame |
| `CameraPoseBuffer` | the ring, as operators on a record | `slotOf` = `timestamps_id_`, `next` = `curr_clone_id_` |
| `Prefetcher` | worker thread and `next()`/`stop()`, one action per critical section | `worker`, `caller` = program counters; the rest are the class's members |
| `FrameStream` | the abstract promise of the prefetcher | what a caller sees: how many pairs, the latest answer |
| `BackendOnline` | the filter's thread with `record_observations`, `record_pose`, the poll and the shutdown; the worker loop | keyframes with the *author* of their pose (nobody, filter, n-th publication) |
| `InitRunner` | the main thread's frame loop before initialisation, `try_initialize` (async), the background solve, commit and replay | as the code's members; `unfinished` counts method choices whose `finish_attempt` is due |
| `Keyframing` | `keyframing()`, one step per iteration of the outer loop; the inner loop is written as what it ends with | `maxTime` is `max_time0`, which outlives the loops |
| `DynamicInit` | frames before there is a state: the window of measurements, `DynamicInitializer::initialize`, `Solver` with every way out, the reset after a failure, `finalize_initialization` | `timestamp`, `clones`, `poses`, `slam`, `msckf`, `isInit` = members of the live `State`; `delta` = `xk_minus_x0_`; `options`, `backup` = `do_fej` and `feat_rep_msckf` and their copies in `solve()`; `pc` = next step of the attempt |
| `FeatureDatabase` | the store of tracks both estimators use, as operators | a function from features to the times they were measured at |
| `VioManager` | the baseline: frames and IMU readings, zero velocity updates, `try_to_initialize` and its thread, `do_feature_propagate_update` from the propagation to the end of the frame | `clones`, `slam`, `fails` = `_clones_IMU`, `_features_SLAM` (anchor, `update_fail_count`); `ids`, `rows` = places in and size of `_Cov`; `imuFrom` = front of the propagator's history; `pc`, `tpc` = next call of driver and thread; `used` = history of what updates used |
| `MCSlidingWindow`, `MCKeyframing`, `MCDynamicInit`, `MCVioManager` | instances for TLC | |
| `SlidingWindowProofs`, `PrefetcherProofs`, `BackendOnlineProofs`, `InitRunnerProofs`, `VioManagerProofs`, `DynamicInitProofs` | theorems about the module of that name | |
| `WindowLayoutProofs` | theorems about the columns and the pose ring of `SlidingWindow` | extends `SlidingWindowProofs` |
| `VioLayoutProofs` | theorems about the covariance of `VioManager` | extends `VioManagerProofs` |

`SlidingWindow` instantiates `CameraPoseBuffer` with the capacity the code gives it
(`max_clone_size + 2`). `VioManager` extends `FeatureDatabase`. `DynamicInit`
composes three of them: it extends `FeatureDatabase` and instantiates `Keyframing`
(over its own window of images) and `CameraPoseBuffer`; what its `HandsOver` promises is
what `SlidingWindow` starts from (`InitDynamic`). `Prefetcher` implements `FrameStream` under
`stopped <- done`.

Abstractions worth knowing:

* Sections under one mutex are one step; a thread blocked on a condition
  variable resumes when notified, or spuriously.
* Which landmarks are lost, which features are promoted, whether a solve
  succeeds, whether a frame moved the filter, and every disparity are
  nondeterministic.
* The inner loop of `keyframing` resets `max_disp` and `max_time0` with every candidate, so that
  each iteration forgets what the ones before it chose. `Keyframing` says this directly: the
  outer step ends with the `Offer` of the last candidate, or with the old `maxTime` if there
  is none.
* A pose is worth who computed it. An image pair is its index.
* In `InitRunner` time is counted in frame intervals of 0.05 s, so the two
  margins of the IMU floor (0.1 s rolling, 0.05 s pinned) are two and one frames.
* In `VioManager` time is counted in frames, and an id that is neither tracked,
  stored nor in the state stands for a new feature: the front end never gives
  an id twice, so recycling it loses nothing. `update_fail_count` and
  `last_zupt_count` stop at 2, above which the code makes no difference. A call
  under a lock is a step; the reads of the two flags in `try_to_initialize` are
  steps of their own, and so are the thread's writes of them.
* Mutated forms of some definitions stand in front of them, marked as such. No
  action of a specification uses them; they document which slip of the code each
  property would notice.

## 3. Runs

| Run | Question | Bounds | Answer |
|---|---|---|---|
| `window` | Do window, anchors, layout, shape and budgets stay consistent over all interleavings of frames, late and repeated frames, landmark loss and promotion, ZUPT? | `max_clone_size` 2, 2 landmarks out of 3 features, 5 timestamps | yes |
| `window_zupt` | Does each live clone own its pose slot, with ZUPT between frames? | 9 timestamps = more than two turns of a ring of 4 | **no** |
| `prefetcher` | Order, bound, wake-ups, answers and shutdown under every schedule | 4 pairs, queue of 2, 3 calls after `stop` | yes |
| `backend` | Warm start, publications, shutdown and offline adjustment under every interleaving of filter and worker | stride 2, window 2, 6 frames (3 keyframes) | yes |
| `backend_feedback` | Does a change of the counter always announce fresh poses? | stride 1, 4 frames | **no** |
| `init_async` | Pin, jerk bookkeeping, recorded frames, IMU data, commit | window of 2 frames, solves of up to 10 frames, retries | yes |
| `init_window` | Does a commit respect `max_clone_size`? | the same | **no** |
| `keyframing_greedy` | Does each iteration maximise the minimal disparity? | all disparity tables over {1, 2, invalid} for 5 images, 4 key frames | **no** |
| `dynamic_init` | Do key frames, poses, anchors and the hand-over stay right through refused, failed and repeated attempts? | 3 key frames, windows of 4 images, ring of 4, 2 features, 2 iterations, 8 frames | yes |
| `dynamic_reset` | Does a failed attempt leave the `State` as a fresh one? | the same | **no** |
| `vio_manager` | Are the baseline's state, covariance, database, IMU history and waiting frames consistent under every interleaving of driver and initialisation thread, tracks, updates and zero velocity updates? | 2 clones, 2 features on 2 cameras, 1 landmark, IMU window of 2 frames, solves of up to 4, frames 1 to 5 | yes |
| `vio_late_solve` | Does every propagation find its IMU readings, as the propagator asserts? | the same | **no** |

### Why the bounds are enough

* Two literals `5` of the code (`Pipeline.cpp:63`, `Frontend.cpp:118`) are
  constants of `SlidingWindow`, set to 2 together with `max_clone_size`; the 50
  spare columns of the update buffers are scaled to 6. A window of 2 fills after
  three frames, so 5 timestamps reach the over-full state, the anchor change
  and the marginalisation more than once; `window_zupt` needs 9 timestamps to turn
  twice. Three features for two places make a landmark drop and come back.
* In `prefetcher` the list is twice as long as the queue, so that the worker blocks
  on a full queue, and the estimator on an empty one. Three calls after `stop` drain the
  queue and go on.
* In `backend` the window slides once (three keyframes, window of two) while a solve
  is in progress and keyframes without observations and without poses exist.
* In `init_async` a solve may last longer than window and clone budget
  together, and fail and be retried.
* In `dynamic_init` a window holds four or five images of which three become key
  frames, so that a retry overlaps the failed attempt and picks some of the same images
  again, new ones, and ones that had been clones; eight frames leave room for three
  attempts that get as far as the solver. The assumption that the pose ring
  outlasts an attempt (`DynamicAssumption`: `max_clone_size` at least twice
  `init_dyn_num_pose - 2`) is not checked by the code. It is tight: TLC
  refutes `PosesFound` with a ring one slot smaller for 3, 4 and 5 key frames and
  finds no violation at the bound. All shipped configurations satisfy it
  (`max_clones` 11, `init_dyn_num_pose` 5 or 6).
* In `window` the filter also starts from an initialisation that was retried
  (`InitRetried`, see `dynamic_reset` below).
* In `vio_manager` the literals `5` of `VioManager.cpp:357` and `:383` become 2
  and 1 along with `max_clone_size` 2; the initialisation window is two frames and a
  solve may lag one behind. The thread of an attempt then overlaps with up to
  four frames (some queued, some replayed, some skipped by the clone rate), the window
  overflows, a landmark is initialised, moved to a new anchor and lost, and two frames of
  one time from different cameras occur. The one case that needs a sixth frame, a
  landmark dropped because it failed its test more than once, was checked with
  `LastTime` 6 (4,915,367 distinct states, same answer), which takes longer than a
  run kept here should. Nothing limits how long a solve takes but the end of the run:
  it may outlast the initialisation window of two frames by two more.
* The number of frames, timestamps or calls is the only unbounded quantity that a bound
  cuts off (`LastTime`, `LastFrame`, `ExtraCalls`); each is named for it.

### Fairness

`prefetcher` and `backend` assume weak fairness of each thread's own steps
(`WF_vars(WorkerStep)`, `WF_vars(CallerStep)`, `WF_vars(FilterStep)`): both
are ordinary threads of the operating system, their critical sections are short, and
neither holds a mutex while it waits. Nothing is assumed of what the
environment does: no call of `next()` or `stop()` has to be made, no frame
has to come, no shutdown has to happen, and no spurious wake-up is counted on.
`DueSolveStarts`, `EveryCallReturns`, `StopReturns` and `StopTerminates` hold
under these assumptions. The other modules state safety only.

### What the refuting runs show

* `window_zupt`. A zero velocity update takes a slot in the pose ring without adding a
  clone. With `zupt_only_at_beginning` false, alternating frames
  and zero velocity updates turn the ring faster than clones are marginalised,
  and a new clone is given the slot of a live one.
* `backend_feedback`. The counter also moves after a solve that published nothing,
  and moves only after the publication: the driver feeds the same poses
  back a second time.
  In TLC's trace the first solve publishes two keyframes, the second window has only one with
  a pose and observations, which `solve_and_export` refuses (`Solvable`), and is counted.
* `vio_late_solve`. The thread solves for the time of frame 1 while frames 2 and 3 are queued and
  frame 4's readings push the history's front to frame 2. The replay then
  propagates from frame 1: `assert(std::abs((time1 - time0) - dt_summed) < 1e-4)`
  (`Propagator.cpp:103`) fails; without assertions a part of the interval is integrated
  and the state is stamped with all of it. `ov_srvins` pins its history while a solve runs
  (`CatchUpNeverStarves` in `init_async`); the baseline has nothing of the kind. What it does
  guarantee is `ShortOnlyAfterLateSolve`, which holds in `vio_manager` under the same solves of any
  duration and is proved: readings are missing only while the newest frame is
  more than `init_window_time` ahead of the state. The 0.2 s that the code
  adds to the window count as part of it.
* `init_window`. The replay of a commit clones at every recorded frame and marginalises none.
  After a solve longer than the window, the window has more clones than the options
  allow, and later frames remove one for each they add: the excess stays.
* `keyframing_greedy`. `max_disp` is reset inside the loop over the candidates, so the
  newest free image always wins.
* `dynamic_reset`. `initialize_state` is not the full reset that the comment at its call
  promises. It leaves the solve's step `xk_minus_x0_`, which the next attempt's first
  iteration takes off a linearisation point it does not belong to; it leaves `do_fej` and
  `feat_rep_msckf` as `solve()` has overridden them, if `solve()` returned at line
  146 or 158: the next attempt then saves the overridden values as the configured ones, and the
  filter runs without FEJ from then on; and it leaves the entries of the
  pose ring. The last is harmless for the attempts (`PosesFound`) but not always for
  the filter: if a frame brings no measurement at all, the attempt after it
  ends at the same newest image, whose slot is then the last but one handed
  out (`HandsOver`). The ring has no slot to spare, so in
  `SlidingWindow` with `InitRetried` and no zero velocity updates the fourth clone of
  a window of two takes the slot of the first, which is still alive:
  `ClonesOwnSlot` fails after three frames. This is why the theorem about it
  excludes `InitRetried`.

Read in the code and not the subject of a run:

* `assert(U_.rows() == U_.cols())` at the head of `StateHelper::clone` (`StateHelper.cpp:244`) fails
  in a build with assertions once the window holds `max_clone_size + 1` clones:
  `propagate` then leaves its fifteen noise rows on top of `U_`, and `clone()` follows at once
  (the invariant `Shape` of `SlidingWindowProofs` says by how many rows). Without assertions nothing is
  wrong: `StartRowAgrees` shows that the later readers account for the rows.
* The comment at `SqrtEstimator.cpp:175` says the clone goes to the end of the state while
  it is inserted in front of the window (`LayoutTiles` states what the code does).
* `xk_minus_xk1_` (`State.h:275`) is never assigned after it has been sized, so
  `UpdaterMSCKF::update_features` moves landmarks by their own residual only.
* `convergence_check` lets a state that is not a number pass when only the residual's ratio
  is below its threshold, before `hasNaN` is asked.
* A landmark chosen for the state counts twice in `total_good_feat`, since its entry in
  `features_MSCKF` is still there; a solve may succeed with fewer than `init_min_feat`.
* The limit `init_max_slam` ends the inner loop of the selection only (`Selections`).
  With `init_max_feat` above it, as in `config/uzhfpv_indoor` (200 and 50), the filter may
  start with more landmarks than its own budget.
* The synchronous path shares the live features with the tracker, although the comment at
  `DynamicInitializer.cpp:73` speaks of a copy (the map is copied, not what it points to).
  This does no harm: `HandsOver` shows that no measurement the solve used survives it.

## 4. Proofs

Eight modules hold theorems of the specifications, for every value of the
constants that satisfies the named assumptions. For each of the six
specifications that passing runs check, a theorem `Invariance` (in `DynamicInitProofs` the lemma `Attempts`) proves an inductive
invariant `IInv`, with a lemma for the initial states and a lemma for each action or group
of actions; the others follow from it, or from further invariants proved on top of it.
Every invariant that a passing run checks is the subject of a theorem, and so are the
action properties and the refinement.

| Theorem | Property |
|---|---|
| `SlidingWindowProofs!` `TypeCorrect`, `WindowStaysBounded`, `AnchorsStayLive`, `ClonesStayCached`, `StartRowsAgree`, `FactorStaysReady`, `AnchorsOnlyMoveForward`, `BudgetsAreKept` | `TypeOK`, `WindowBounded`, `AnchorsLive`, `ClonesCached`, `StartRowAgrees`, `FactorReady`, `AnchorsMoveForward`, `BudgetsHold` |
| `WindowLayoutProofs!` `LayoutStaysTiled`, `AnchorChangesFit` | `LayoutTiles`, `AnchorChangeFits` |
| `WindowLayoutProofs!` `SlotsStayOwned` | `ClonesOwnSlot` (which `window_zupt` refutes without its hypotheses) |
| `PrefetcherProofs!` `TypeCorrect`, `QueueStaysBounded`, `WakeUpsAreNotLost`, `Refinement` | `TypeOK`, `QueueBounded`, `NoLostWakeUp`, `StreamSpec` |
| `BackendOnlineProofs!` `TypeCorrect`, `WarmStartsAgree`, `PublicationsAreNotMissed`, `OfflineIsUndisturbed`, `PosesDoNotRegress` | `TypeOK`, `WarmStartAgrees`, `NoPublicationMissed`, `OfflineUndisturbed`, `PosesNeverRegress` |
| `VioManagerProofs!` `StateHasOneOwner`, `AnchorsStayLive`, `NoCallIsFatal`, `OnlyLateSolvesStarve`, `NothingIsReused` | `OneOwner`, `AnchorsInWindow`, `NoFatalCall`, `ShortOnlyAfterLateSolve`, `NoReuse` |
| `VioLayoutProofs!` `LayoutStaysDense`, `TypeCorrect` | `LayoutDense`, `TypeOK` |
| `InitRunnerProofs!` `TypeCorrect`, `PinHeldWhileSolving`, `EveryAttemptIsFinished`, `RecordingIsExact`, `CatchUpHasItsData`, `WindowIsRebuilt` | `TypeOK`, `PinnedWhileSolving`, `AttemptsFinished`, `PendingSinceLaunch`, `CatchUpNeverStarves`, `WindowRebuilt` |
| `DynamicInitProofs!` `InitialisationIsTyped`, `KeyframesSuffice`, `ClonesHavePoses`, `FilterTakesOver` | `TypeOK`, `EnoughKeyframes`, `PosesFound`, `HandsOver` |
| `DynamicInitProofs!` `SelectionTakesNewest`, `FirstSolveLeavesLastSlot` | stated in the module |

**`PrefetcherProofs`** proves, for every list length, queue bound and number of
calls:

* `TypeCorrect`: `Spec => []TypeOK`
* `QueueStaysBounded`: `Spec => []QueueBounded`
* `WakeUpsAreNotLost`: `Spec => []NoLostWakeUp`
* `Refinement`: `Spec => StreamSpec`, the prefetcher implements `FrameStream`

All rest on `Invariance`, `Spec => []IInv`. The bound alone is not inductive: the worker
checks for room in one critical section and pushes in another. `IInv` adds

* `RoomReserved`: between the check and the push there is room, because only the caller
  touches the queue meanwhile, and it only takes;
* `Contents` and `Count`: the queue holds consecutive pairs, ending just before the one the worker is
  at, starting just after the last one returned. This is what makes a step of
  `Take` a step of `Deliver`;
* `StopOrder`: which program counters are possible before and after `stop`, so that after a first empty
  answer no pair can follow.

The refinement maps `Take` to `Deliver`, `ReturnEmpty` to `DeliverNothing`,
`Stop` to `Stop`, and every other step to a stutter. The only assumption is
`PrefetcherAssumption` (`N` and `ExtraCalls` natural, `MaxAhead` positive). Spurious
wake-ups are part of the specification the theorems are about.

**`SlidingWindowProofs`** holds for every window size, core size, landmark
budget, set of features and of timestamps. That an anchor is alive is not
inductive: `changeAnchor` moves anchors to the newest clone, and this helps only if the
newest clone is not itself the one to be removed. `IInv` therefore adds

* `WindowOrdered`: no clone is younger than the state; the window is over-full only
  between `clone` and `marginalize`, and then the newest clone, at the state's time, is in it;
* `Columns`: the columns belong to the live clones and landmarks and, inside
  `handle_marginalization`, to the landmarks about to be dropped, so that
  `marginalize` removes as many columns as these take (the lemmas `SizeOf...` count them);
* `Shape`: at each point of a frame, by how many rows `U_` is taller or flatter than it is
  wide. This is what the code's later readers recompute from the size of the window, and
  what makes `StartRowAgrees` and `FactorReady` follow;
* `ClonesCached` itself, with the fact that the time being cloned has an entry of its own.

The budgets have an invariant of their own, `Budget`: landmarks and the features selected in this
frame share the budget, so that one that is dropped and promoted again counts once. It is
needed because the features are selected before landmarks are dropped. `BudgetsHold` also needs
`MarginalAssumption` (there is room for a clone on top of the state), which the code's 50
spare columns satisfy.

**`WindowLayoutProofs`** has two parts, one for the columns of the factor and one for the
pose ring.

`LayoutTiles` says that a variable's first column is the core plus the sizes of those before
it. `Layout` states this of a map from variables to columns in general (`Tiled`), and beside it
the order (`InOrder`): newer clones in front of older ones, landmarks behind them all. The order
must speak of the landmarks about to be dropped as well; `LayoutTiles` itself, which
speaks of the live ones, does not survive `handle_marginalization`. Three lemmas about `Tiled`
carry the proof, one for each change of the code: a clone inserted at the core's end, with all
others moved up (`TiledCloned`); landmarks appended in any order (`TiledAppended`); a set of
variables removed, each remaining one moved down by the sizes of those removed in front of it
(`TiledCompacted`). `AnchorChangeFits` follows with `Shape` of `IInv`: when
anchors are changed the factor is taller than wide by the noise rows less the new clone,
and the new clone is in front.

`ClonesOwnSlot` is proved for every window size and every number of frames, under two
hypotheses: no zero velocity updates (`TryZupt = FALSE`) and a clone that starts with the
youngest slot (`InitRetried = FALSE`). Each of them is needed: TLC finds a violation
without either. The argument is the *age* of a slot, the number of slots handed out
since. `Ring` says that in the window a younger time has a younger slot, and
that no slot is older than the window has times; so the one handed out next, of
age `RingSize`, is nobody's. `Ring` uses `WindowBounded`'s part of `IInv`, hence the
module extends `SlidingWindowProofs`. The second hypothesis is connected to the initialisation
by `FirstSolveLeavesLastSlot` of `DynamicInitProofs`: it holds when no solve has failed before.

**`BackendOnlineProofs`** holds for every keyframe stride, window, solve stride and
number of frames. `IInv` adds to the types

* `Agreement`: keyframes and refined poses agree, apart from those a warm start is about
  to write, and nothing is newer than the newest publication;
* `UnposedUnused`: a keyframe without a pose was never part of a solve; so the filter's late
  `record_pose` cannot undo a result, and `PendingIsNewest` says which keyframe it writes;
* `InWarmStart`: between the two critical sections of a publication, what was published is still
  all there is; only the worker publishes;
* `Announced`: a publication the filter has not seen is one the worker has still to count, and
  there is at most one;
* `Joined`: the filter gets to the offline adjustment only when the worker has left its loop;
* `Counting` and `Ordered`: each solve has new keyframes, keyframes are in order of time.

**`InitRunnerProofs`** holds for every window length, start time, number of attempts and duration
of a solve. `IInv` adds

* `Recorded`: the recorded frames while the current one is being looked at, before it is
  appended;
* `HistoryKept`: pin and oldest IMU reading lie before the snapshot's newest frame as long
  as the solve is in flight: this carries the IMU data to the commit, when the pin is already released;
* `Phases` and `Rebuilding`: during the replay the window is complete up to the state's
  time, and exactly the frames after it (at first also the snapshot's own) are still to be replayed.

It needs `StartAssumption`: the stream does not begin within 0.05 s of time zero.

**`VioManagerProofs`** holds for every window size, feature budget, assignment of features to
cameras and length of the stream. `IInv` has five parts:

* `Types`: the types of all variables but the places in the covariance;
* `Owner`: which program counters of driver and thread go together with which values of
  `isInit`, `running`, `success`. `OneOwner` says the thread is gone when the driver uses the
  state; this is inductive only with the reason: the thread sets `success` before it clears
  `running`, and the driver reads them in the opposite order;
* `Timeline`: the order of everything that is a time, namely the clones, the state, the solve,
  the increasing queue, what is left of the replay, and the frame in work. A replayed
  time is new and later than the state because the queue increases and the replay started
  behind the solve's time; this carries `NoFatalCall`;
* `Anchored`: a landmark's anchor is a clone, and what is about to be initialised is not yet a
  landmark. The end of the frame moves anchors to the clone at the state's time, which
  `Timeline` keeps in the window. `MaxClone` must be positive: the oldest clone is never
  also the newest when it goes;
* `Covered`: before there is a state the IMU history is cut one window before the newest frame,
  whatever the thread is solving for; once there is one it reaches back to the state, unless the state was
  taken over more than a window late and its first propagation is still due. The
  trim at each reading keeps this because the oldest clone is never younger than the state
  (`Timeline`), and the first propagation after a late takeover restores it.

**`VioLayoutProofs`** adds `Layout`: blocks are exactly the live clones and landmarks, no
two blocks have the same place, and a block's place is the calibration plus the sizes of
those before it. The lemmas count sizes (`SizeOf` of disjoint unions, of one
variable, of a removed set) and treat the three changes separately: a block appended, a
set of blocks removed (each remaining one moves up by what was removed before it), no
change. `TypeCorrect` follows here, since that a place is a natural number is a
consequence of the layout.

Both rest on `VioAssumption` alone: the constants are naturals, `CamOf` gives each
feature a camera, there are finitely many features, and the window and batch sizes are positive.

`NothingIsReused` adds `Reuse` in the same module. `used` is a history of all measurements
that entered an update; that the next update's are not among them is inductive only with

* `Filled`: landmarks and updates exist only while the window is full enough, so that its
  oldest clone is not also the one at the frame's time;
* `Pending`: what waits for an update is in one list only, or (a landmark that is lost) has no measurement
  left to use;
* `UsedOnce`: used measurements are of live clones and of cameras already seen at
  this time, and what the database stores is unused, but for the features that leave at
  the end of the frame;
* `Landmarks`: between frames, a landmark has no measurement left to use; in a frame, only
  the frame's own, which the frame uses up.

**`DynamicInitProofs`** holds for every number of key frames, window, limit, set of features,
table of disparities and stream of images under `DynamicAssumption`. What makes it hard is that
the pose ring outlives the attempts: an attempt adds a slot for each of its images that has none, a
failure one more, and `initialize_state` clears nothing. `IInv` has seven parts:

* `Selecting`: the key frames are the oldest image of the window and the newest ones without
  a gap (`Picked`). It rests on the lemma `OfferIs`, that every candidate offers itself
  whatever its disparities are, so that the newest is taken (`SelectionTakesNewest`).
  `EnoughKeyframes` counts them;
* `Propagated`: how far the attempt has come through its key frames; those ahead that
  have no slot yet are newer than every image that has one;
* `Pool`, over all attempts: `Kept` (no image loses its measurements but with all older
  ones), `Settled` (an attempt that had today's newest image had today's oldest too),
  `Skipped` (an image that has no slot, but a newer one has, is not among the newest
  `NumPose - 1`, and will not be a key frame of a later attempt but as the oldest), and
  `Aged`: every entry has an age of its own, which its slot shows, and which is at most one, plus what is
  extra, plus twice the number of younger images with an entry. The factor two is for the
  attempts' oldest images, which may take a slot later than younger ones; `Marks` and
  `Slack` are extra, for the one entry of the failures and for the oldest image of an
  attempt whose newest is still to come;
* `Types`, `Phases`, `Anchored` and `Handed` for types, what each step leaves empty, anchors, and
  the state handed over.

A clone is among the `NumPose - 1` newest images, so `Aged` bounds its age by the ring's
`MaxClone + 2` slots exactly when `MaxClone` is at least `2 * (NumPose - 2)`: this is the
assumption's reason, and TLC's counterexamples with one slot fewer show that it cannot be weakened.
`HandsOver` uses `Aged` once more: the newest image has age one, or two if some solve has failed.

Not proved, and only model-checked: liveness (`EveryCallReturns`, `StopTerminates`,
`DueSolveStarts`, `StopReturns`), which needs fairness and ENABLED. The refuting runs
are counterexamples; the theorems `SelectionTakesNewest`, `SlotsStayOwned` and `OnlyLateSolvesStarve` say what holds
in place of three of the refuted properties.

## 5. Not modelled, and why

* *Numerics*: QR, Givens rotations, Jacobians, gating, preintegration, Ceres factors,
  triangulation, and the geometry of the initialiser compute over reals.
* *ov_eval, ov_data, config, third_party*: offline statistics, inputs and vendored code.
* *Feature tracking*: optical flow, descriptors and their outlier tests; which tracks survive and are
  found is a nondeterministic choice. The database's calls each hold its lock and are steps.
* In `VioManager`: aruco landmarks, the retriangulation of active tracks and the images for
  display, the simulator's entry point (the frame cycle again), calibration variables (a constant
  number of rows), and the numbers of the filter. That a chi-square test fails or a triangulation
  succeeds is a choice. `State::margtimestep` walks the clones without the mutex when
  an IMU reading arrives, while the initialisation thread may be inserting one: a data
  race on a map, whose outcomes no model bounds. `update_fail_count` is never reset, although
  the comment at its use speaks of failures in a row; the model follows the code.
* In `SlidingWindow`: calibration variables (a constant number of columns), aruco
  landmarks, frames that arrive with several camera ids. A dynamic initialisation is assumed to bring no
  more landmarks than `max_slam_features` (see section 3). Entries that failed attempts left in the
  ring are not carried over: their times are past and never looked up again.
  Zero velocity updates are modelled for timestamps after the state's.
* In `BackendOnline`: loop constraints, the IMU slices, and the solve itself; it is
  usable or not.
* In `DynamicInit`: more than one camera; the static method, whose failure leaves nothing behind
  and whose success is `SlidingWindow`'s `InitStatic`; IMU data, rotations, gravity and the linear
  system (the attempt goes on or is refused); residuals and convergence; the grid cells of the
  landmark selection; and the calibration variables the reset creates again.
* In `InitRunner`: `init_dyn_use = false`;
  an exception thrown by the background solve, which would surface at `get()`.
  A stream that begins within 0.05 s of time zero is excluded by `StartAssumption`.
* In `Keyframing`: entries of the disparity table that refer to images which have left the window.

## 6. Plan

Done so far: the square-root filter's window, the prefetcher, the online backend, the
asynchronous initialisation and the key frame search, then the baseline estimator and the
synchronous dynamic initialisation. What is left, in the order of importance:

1. Commit into the window: `SlidingWindow` started from what `InitRunner` leaves (several
   clones, a turned ring), with the noise rows of the second propagation of a replay.
2. `UpdaterZeroVelocity`: its IMU buffer, and which features it clears.
3. `UpdaterBackend`'s choice of clones that receive feedback, composed with `BackendOnline`.
4. `EigenMatrixBuffer`: rows in use, against an abstract growing matrix.
5. Proofs, beyond those of section 4: that the whole of `DynamicInit`'s hand-over is a state of
   `InitDynamic`, with the columns of the landmarks that the solver's State already has.
