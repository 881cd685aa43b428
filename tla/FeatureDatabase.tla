-------------------------- MODULE FeatureDatabase ---------------------------
(***************************************************************************)
(* ov_core's FeatureDatabase as the estimators use it: a store of tracked  *)
(* features, each with the times of the images it was measured in.  Every  *)
(* call takes the database's own lock and is one step.  A feature belongs  *)
(* to one camera (binocular tracking), so its measurements are a set of    *)
(* times; pixel coordinates are abstracted.                                *)
(***************************************************************************)
LOCAL INSTANCE Functions

EmptyDatabase == [f \in {} |-> {}]

Measured(db) == UNION {db[f] : f \in DOMAIN db}

(* Mutated form: a feature without a measurement left is not erased. *)
RetainEmptied(db, times) == [f \in DOMAIN db |-> db[f] \cap times]

(* Only the measurements at the given times stay; a feature left without    *)
(* any is erased.                                                           *)
Retain(db, times) ==
  [f \in {g \in DOMAIN db : db[g] \cap times # {}} |-> db[f] \cap times]

(* update_feature for every feature of S seen in the image of time t        *)
UpdateFeatures(db, S, t) ==
  [f \in DOMAIN db \cup S |->
     (IF f \in DOMAIN db THEN db[f] ELSE {}) \cup (IF f \in S THEN {t} ELSE {})]

FeaturesNotContainingNewer(db, t) == {f \in DOMAIN db : \A u \in db[f] : u < t}

FeaturesContaining(db, t) == {f \in DOMAIN db : t \in db[f]}

(* cleanup erases the features that carry the to_delete mark                *)
Cleanup(db, deleted) == Restrict(db, DOMAIN db \ deleted)

CleanupMeasurements(db, t) == Retain(db, {u \in Measured(db) : u > t})

CleanupMeasurementsExact(db, t) == Retain(db, Measured(db) \ {t})
=============================================================================
