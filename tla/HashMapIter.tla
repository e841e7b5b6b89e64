------------------------------ MODULE HashMapIter ------------------------------
(***************************************************************************)
(* The iterator of src/core/hash_map.c, an index into the table of a map   *)
(* that is being used: between two calls of hash_map_iter_next there may   *)
(* be puts and removes, and these may move every pair to another slot.     *)
(***************************************************************************)
EXTENDS HashMap

VARIABLES
    index,          \* the iterator's index, or NoIter
    ended,          \* hash_map_iter_next has returned -1
    given,          \* history: how often each key was given
    steady,         \* history: keys on the map since the iterator was created
    resized         \* history: has the table been replaced since then?

iterator == <<index, ended, given, steady, resized>>
iterVars == <<vars, iterator>>

NoIter == -1

Idle == ~Resizing /\ pending = NoPut

Live(s) == entries[s].key \in Keys

IterInit ==
    /\ Init
    /\ index = NoIter /\ ended = FALSE
    /\ given = [k \in Keys |-> 0]
    /\ steady = {} /\ resized = FALSE

Started(from) ==
    /\ Idle /\ index = NoIter
    /\ index' = from /\ ended' = FALSE
    /\ given' = [k \in Keys |-> 0]
    /\ steady' = {entries[s].key : s \in LiveSlots}
    /\ resized' = FALSE
    /\ UNCHANGED vars

(* A plausible mistake: the index is incremented before it is used. *)
CreateAtOne == Started(1)

(* hash_map_iter_create *)
Create == Started(0)

(* hash_map_iter_next gives the next pair ... *)
IterNext ==
    /\ Idle /\ index # NoIter
    /\ \E s \in LiveSlots :
          /\ s >= index /\ \A r \in index..(s - 1) : ~Live(r)
          /\ index' = s + 1
          /\ given' = [given EXCEPT ![entries[s].key] = @ + 1]
    /\ UNCHANGED <<vars, ended, steady, resized>>

(* ... or there is none; the index has come to the end of the table, and   *)
(* is past it when the table has become smaller.                           *)
IterEnds ==
    /\ Idle /\ index # NoIter
    /\ \A s \in LiveSlots : s < index
    /\ index' = IF index < capacity THEN capacity ELSE index
    /\ ended' = TRUE
    /\ UNCHANGED <<vars, given, steady, resized>>

(* hash_map_iter_free *)
Free ==
    /\ Idle /\ index # NoIter
    /\ index' = NoIter /\ ended' = FALSE
    /\ given' = [k \in Keys |-> 0]
    /\ steady' = {} /\ resized' = FALSE
    /\ UNCHANGED vars

(* The map changes under the iterator. *)
MapChanges ==
    /\ FaultyNext
    /\ steady' = {k \in steady : ~Remove(k)}
    /\ resized' = (resized \/ (index # NoIter /\ capacity' # capacity))
    /\ UNCHANGED <<index, ended, given>>

IterNextState == Create \/ IterNext \/ IterEnds \/ Free \/ MapChanges

IterSpec == IterInit /\ [][IterNextState]_iterVars

-----------------------------------------------------------------------------
SlotsOf(k) == {s \in LiveSlots : entries[s].key = k}

(* An iterator that comes to its end gives each pair that was on the map   *)
(* all along, however many others were put and removed meanwhile, and      *)
(* gives it once; only a key that put has stored twice (as it may after an *)
(* allocation failed) is given twice.  A table that was resized meanwhile  *)
(* is another matter: its pairs have moved and may be skipped or repeated. *)
IterGivesSteadyOnce ==
    ended /\ ~resized =>
        \A k \in steady : given[k] \in 1..Cardinality(SlotsOf(k))
================================================================================
