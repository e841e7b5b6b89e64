------------------------------ MODULE RingBuffer ------------------------------
(***************************************************************************)
(* src/core/ring_buffer.c: a fixed-capacity circular array.  Advancing     *)
(* opens the next slot and returns its address; the caller writes the item *)
(* through that address; peeking finds the slot of the item that is        *)
(* `offset' items older than the newest one.                               *)
(*                                                                         *)
(* A slot's bytes are one Item; Blank is the item whose bytes are all zero *)
(* (the array comes from calloc).                                          *)
(***************************************************************************)
EXTENDS Integers, Sequences

CONSTANTS Capacity,     \* struct ring_buffer.capacity
          Item,         \* what one slot can hold
          Blank         \* the all-zero item

ASSUME CapacityAssumption == Capacity \in Nat \ {0}
ASSUME BlankAssumption    == Blank \in Item

VARIABLES head,         \* index of the newest slot
          count,        \* number of items in the buffer
          slots         \* the array

vars == <<head, count, slots>>

Slot == 0..(Capacity - 1)

(* The head always indexes the array and count never passes capacity, so   *)
(* the addresses ring_buffer_advance and _peek return are inside it.       *)
TypeOK ==
    /\ head \in Slot
    /\ count \in 0..Capacity
    /\ slots \in [Slot -> Item]

-----------------------------------------------------------------------------
(* ring_buffer_alloc *)
Init ==
    /\ head = 0
    /\ count = 0
    /\ slots = [s \in Slot |-> Blank]

(* Plausible mistakes, which the checks must notice. *)
PeekForward(offset) == (head + offset) % Capacity

CountPastCapacity ==
    /\ head' = IF count > 0 THEN (head + 1) % Capacity ELSE head
    /\ count' = IF count <= Capacity THEN count + 1 ELSE count
    /\ UNCHANGED slots

(* The index ring_buffer_peek computes for an offset it accepts. *)
PeekSlot(offset) == (head + Capacity - offset) % Capacity

(* ring_buffer_peek does not return NULL. *)
Peekable(offset) == offset < count

(* ring_buffer_advance.  The first advance stays on slot 0. *)
Advance ==
    /\ head' = IF count > 0 THEN (head + 1) % Capacity ELSE head
    /\ count' = IF count < Capacity THEN count + 1 ELSE count
    /\ UNCHANGED slots

(* The owner of the buffer writes through the address advance returned. *)
Store(item) ==
    /\ count > 0
    /\ slots' = [slots EXCEPT ![head] = item]
    /\ UNCHANGED <<head, count>>

Next == Advance \/ \E item \in Item : Store(item)

Spec == Init /\ [][Next]_vars

-----------------------------------------------------------------------------
(* While the buffer fills up, head trails count by one and the slots past  *)
(* it are still blank: this is what lets the first Capacity items go to    *)
(* fresh slots although advance skips its increment once.                  *)
Filling ==
    count < Capacity =>
        /\ head = IF count = 0 THEN 0 ELSE count - 1
        /\ \A s \in Slot : s >= count => slots[s] = Blank

Window == [i \in 1..count |-> slots[PeekSlot(i - 1)]]

Abstract == INSTANCE SlidingWindow WITH Size <- Capacity, window <- Window

(* Seen through ring_buffer_peek, the buffer is a sliding window: offset 0 *)
(* is the newest item, offset k the k-th before it, an advance shifts      *)
(* every item by one and drops only the oldest, and a write through the    *)
(* advanced pointer changes no other item (ring_buffer.h: "advancing the   *)
(* head will overwrite the oldest data according to FIFO principles").     *)
IsSlidingWindow == Abstract!Spec

==============================================================================
