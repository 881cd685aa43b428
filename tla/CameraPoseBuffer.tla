-------------------------- MODULE CameraPoseBuffer --------------------------
(***************************************************************************)
(* ov_srvins::CameraPoseBuffer: a fixed array of camera poses indexed by   *)
(* clone timestamp.  The array is used as a ring: a new timestamp takes    *)
(* the next slot whether or not that slot still belongs to another         *)
(* timestamp, and removing a timestamp only forgets the map entry.         *)
(*                                                                         *)
(* A buffer is a record [slotOf, next]: timestamps_id_ and curr_clone_id_. *)
(***************************************************************************)
EXTENDS Integers, Functions

CONSTANT Capacity        \* max_clone_size_ of the buffer: window size + 2

Slots == 0 .. Capacity - 1

EmptyBuffer == [slotOf |-> [t \in {} |-> 0], next |-> 0]

(* Mutated form: the slot counter is never wrapped. *)
AddWithoutWrap(b, t) ==
  IF t \in DOMAIN b.slotOf
  THEN b
  ELSE [ slotOf |-> [x \in DOMAIN b.slotOf \cup {t} |->
                       IF x = t THEN b.next ELSE b.slotOf[x]],
         next   |-> b.next + 1 ]

(* Mutated form: taking a slot forgets whoever held it. *)
AddEvicting(b, t) ==
  IF t \in DOMAIN b.slotOf
  THEN b
  ELSE [ slotOf |-> [x \in {y \in DOMAIN b.slotOf : b.slotOf[y] # b.next} \cup {t} |->
                       IF x = t THEN b.next ELSE b.slotOf[x]],
         next   |-> (b.next + 1) % Capacity ]

AddTimestamp(b, t) ==
  IF t \in DOMAIN b.slotOf
  THEN b
  ELSE [ slotOf |-> [x \in DOMAIN b.slotOf \cup {t} |->
                       IF x = t THEN b.next ELSE b.slotOf[x]],
         next   |-> (b.next + 1) % Capacity ]

RemoveTimestamp(b, t) ==
  [b EXCEPT !.slotOf = Restrict(@, DOMAIN @ \ {t})]

(* get_buffer_unsafe finds an entry, and nobody else writes to it *)
Cached(b, t)   == t \in DOMAIN b.slotOf
OwnSlot(b, T) == \A t, u \in T : b.slotOf[t] = b.slotOf[u] => t = u
=============================================================================
