-------------------------------- MODULE HashMap --------------------------------
(***************************************************************************)
(* src/core/hash_map.c: an open-addressing hash table with linear probing, *)
(* tombstones, doubling and halving.                                       *)
(*                                                                         *)
(* A probe visits the slots at distance 0, 1, 2 ... from the key's home    *)
(* slot and ends at the first empty one, or when it has gone round.  What  *)
(* a probe finds is stated by the distance at which it stops.  Rehashing   *)
(* moves one old slot per step.  Calls do not overlap: nothing else        *)
(* happens to the map until the call that began it has finished.           *)
(*                                                                         *)
(* hash_func and compare_func are also called on the address that marks a  *)
(* tombstone (resize, and put from the second tombstone on).  The hash of  *)
(* that address is any member of TombHash; it compares unequal to every    *)
(* key (if it compared equal, put would copy to a null value and the       *)
(* program would end there).                                               *)
(***************************************************************************)
EXTENDS Integers, FiniteSets

CONSTANTS Keys, Vals,
          Hash,             \* hash_func on keys: [Keys -> Nat]
          TombHash,         \* what hash_func may return for a tombstone
          MinCapacity,      \* MINIMUM_CAPACITY
          MaxCapacity,      \* bound: calloc refuses a larger table
          MallocMayFail,    \* BOOLEAN: do allocations fail?
          Null, Tomb,       \* the key field of an empty and of a removed slot
          Missing           \* hash_map_get's NULL, and the value of such slots

ASSUME HashMapAssumption ==
    /\ Hash \in [Keys -> Nat]
    /\ TombHash \subseteq Nat /\ TombHash # {}
    /\ MinCapacity \in Nat /\ MinCapacity >= 4 /\ MaxCapacity \in Nat
    /\ MallocMayFail \in BOOLEAN
    /\ Null \notin Keys /\ Tomb \notin Keys /\ Null # Tomb
    /\ Missing \notin Vals

VARIABLES
    entries,        \* the table: [0..capacity-1 -> Entry]
    capacity, count,
    fresh,          \* new_entries of the resize under way, or NoTable
    room,           \* its capacity
    cursor,         \* the next old slot the resize moves
    pending         \* the put that resumes after it, or NoPut

vars == <<entries, capacity, count, fresh, room, cursor, pending>>
resize == <<fresh, room, cursor>>

Entry == [key : Keys \cup {Null, Tomb}, value : Vals \cup {Missing}]
Empty     == [key |-> Null, value |-> Missing]
Tombstone == [key |-> Tomb, value |-> Missing]

NoTable == <<>>
NoPut   == <<>>
Blank(n) == [s \in 0..(n - 1) |-> Empty]

Resizing == fresh # NoTable

(* Tables are indexed by their capacity, and a resize, which doubles or    *)
(* halves the table, knows where it is.                                    *)
TypeOK ==
    /\ capacity \in Nat /\ capacity >= MinCapacity
    /\ count \in Nat
    /\ entries \in [0..(capacity - 1) -> Entry]
    /\ IF Resizing THEN /\ room >= MinCapacity /\ room \in {2 * capacity, capacity \div 2}
                        /\ fresh \in [0..(room - 1) -> Entry]
                        /\ cursor \in 0..capacity
                   ELSE room = 0 /\ cursor = 0
    /\ pending \in {NoPut} \cup (Keys \X Vals)

-----------------------------------------------------------------------------
(* Probing a table of n slots. *)

At(hash, d, n) == (hash + d) % n
Dist == 0..(capacity - 1)

(* The key a probe for k sees at distance d.                               *)
KeyAt(k, d) == entries[At(Hash[k], d, capacity)].key

(* The probe for k gets as far as distance d.                              *)
Reaches(k, d) == \A e \in 0..(d - 1) : KeyAt(k, e) # Null

(* The probe for k stops at distance d, where it finds k.                  *)
Hit(k, d) ==
    /\ KeyAt(k, d) = k
    /\ \A e \in 0..(d - 1) : KeyAt(k, e) \notin {Null, k}

Found(k) == \E d \in Dist : Hit(k, d)

(* hash_map_get                                                            *)
Lookup(k) ==
    IF Found(k) THEN entries[At(Hash[k], CHOOSE d \in Dist : Hit(k, d), capacity)].value
                ELSE Missing

(* Where put inserts a key its probe did not find: the first tombstone on  *)
(* the way, else the empty slot that ended the probe; and were there       *)
(* neither, the home slot, whoever is in it.                               *)
PassesTombAt(k, d) == Reaches(k, d) /\ KeyAt(k, d) = Tomb

InsertsAt(k, d) ==
    \/ PassesTombAt(k, d) /\ \A e \in 0..(d - 1) : ~PassesTombAt(k, e)
    \/ /\ \A e \in Dist : ~PassesTombAt(k, e)
       /\ \/ Reaches(k, d) /\ KeyAt(k, d) = Null
          \/ d = 0 /\ \A e \in Dist : KeyAt(k, e) # Null

(* The load factor checks of put and remove: 0.75 and 0.25, in integers.   *)
FullOnly == count >= capacity
TooFull  == 4 * count >= 3 * capacity

HalfEmpty(c)  == capacity > MinCapacity /\ c > 0 /\ 2 * c <= capacity
AnyCapacity(c) == c > 0 /\ 4 * c <= capacity
TooEmpty(c)   == capacity > MinCapacity /\ c > 0 /\ 4 * c <= capacity

(* hash_map_remove halves the table, but not below the minimum.            *)
Half == IF capacity \div 2 < MinCapacity THEN MinCapacity ELSE capacity \div 2

-----------------------------------------------------------------------------
(* hash_map_create *)
Init ==
    /\ capacity = MinCapacity /\ count = 0
    /\ entries = Blank(MinCapacity)
    /\ fresh = NoTable /\ room = 0 /\ cursor = 0
    /\ pending = NoPut

(* hash_map_resize allocates the new table.                                *)
BeginResize(n) == fresh' = Blank(n) /\ room' = n /\ cursor' = 0

(* A put of k and v gets past its load factor check: it passes, or it has  *)
(* already made the table grow.                                            *)
Admits(k, v) ==
    /\ ~Resizing
    /\ \/ pending = <<k, v>>
       \/ pending = NoPut /\ ~TooFull

(* hash_map_put grows the table first, whether or not the key is there.    *)
(* (When calloc fails it returns -1 and has changed nothing.)              *)
Grow(k, v) ==
    /\ ~Resizing /\ pending = NoPut /\ TooFull /\ 2 * capacity <= MaxCapacity
    /\ BeginResize(2 * capacity)
    /\ pending' = <<k, v>>
    /\ UNCHANGED <<entries, capacity, count>>

(* hash_map_put finds the key and copies the value over the old one.       *)
Update(k, v) ==
    /\ Admits(k, v)
    /\ \E d \in Dist :
          /\ Hit(k, d)
          /\ entries' = [entries EXCEPT ![At(Hash[k], d, capacity)].value = v]
    /\ pending' = NoPut
    /\ UNCHANGED <<capacity, count, resize>>

InsertUncounted(k, v) ==
    /\ Admits(k, v) /\ ~Found(k)
    /\ \E d \in Dist :
          /\ InsertsAt(k, d)
          /\ entries' = [entries EXCEPT ![At(Hash[k], d, capacity)] = [key |-> k, value |-> v]]
    /\ count' = IF \E d \in Dist : PassesTombAt(k, d) THEN count ELSE count + 1
    /\ pending' = NoPut
    /\ UNCHANGED <<capacity, resize>>

(* hash_map_put does not find the key and stores the pair.                 *)
Insert(k, v) ==
    /\ Admits(k, v) /\ ~Found(k)
    /\ \E d \in Dist :
          /\ InsertsAt(k, d)
          /\ entries' = [entries EXCEPT ![At(Hash[k], d, capacity)] = [key |-> k, value |-> v]]
    /\ count' = count + 1
    /\ pending' = NoPut
    /\ UNCHANGED <<capacity, resize>>

(* hash_map_put chose a free slot, but the block for the key or the value  *)
(* cannot be allocated: the slot's key field ends up null, also where it   *)
(* was a tombstone.                                                        *)
InsertFails(k, v) ==
    /\ MallocMayFail
    /\ Admits(k, v) /\ ~Found(k)
    /\ \E d \in Dist :
          /\ InsertsAt(k, d) /\ KeyAt(k, d) \in {Null, Tomb}
          /\ entries' = [entries EXCEPT ![At(Hash[k], d, capacity)] = Empty]
    /\ pending' = NoPut
    /\ UNCHANGED <<capacity, count, resize>>

RemoveLeavesEmpty(k) ==
    /\ ~Resizing /\ pending = NoPut
    /\ \E d \in Dist :
          /\ Hit(k, d)
          /\ entries' = [entries EXCEPT ![At(Hash[k], d, capacity)] = Empty]
    /\ count' = count - 1
    /\ IF TooEmpty(count - 1)
       THEN BeginResize(Half) \/ (MallocMayFail /\ UNCHANGED resize)
       ELSE UNCHANGED resize
    /\ UNCHANGED <<capacity, pending>>

(* hash_map_remove of a key that is there; it may go on to halve the table, *)
(* and ignores it when that fails.                                         *)
Remove(k) ==
    /\ ~Resizing /\ pending = NoPut
    /\ \E d \in Dist :
          /\ Hit(k, d)
          /\ entries' = [entries EXCEPT ![At(Hash[k], d, capacity)] = Tombstone]
    /\ count' = count - 1
    /\ IF TooEmpty(count - 1)
       THEN BeginResize(Half) \/ (MallocMayFail /\ UNCHANGED resize)
       ELSE UNCHANGED resize
    /\ UNCHANGED <<capacity, pending>>

-----------------------------------------------------------------------------
(* hash_map_resize moves what is in old slot `cursor', a tombstone as well, *)
(* to the first new slot on its way that is empty or a tombstone.          *)
HashOf(entry) == IF entry.key = Tomb THEN TombHash ELSE {Hash[entry.key]}
FreeIn(s) == fresh[s].key \in {Null, Tomb}

Rehash ==
    /\ Resizing /\ cursor < capacity
    /\ cursor' = cursor + 1
    /\ IF entries[cursor].key = Null THEN UNCHANGED fresh
       ELSE \E hash \in HashOf(entries[cursor]), d \in 0..(room - 1) :
               /\ FreeIn(At(hash, d, room))
               /\ \A e \in 0..(d - 1) : ~FreeIn(At(hash, e, room))
               /\ fresh' = [fresh EXCEPT ![At(hash, d, room)] = entries[cursor]]
    /\ UNCHANGED <<entries, capacity, count, room, pending>>

(* The new table takes the old one's place.                                *)
EndResize ==
    /\ Resizing /\ cursor = capacity
    /\ entries' = fresh /\ capacity' = room
    /\ fresh' = NoTable /\ room' = 0 /\ cursor' = 0
    /\ UNCHANGED <<count, pending>>

Next ==
    \/ \E k \in Keys, v \in Vals :
          Grow(k, v) \/ Update(k, v) \/ Insert(k, v)
    \/ \E k \in Keys : Remove(k)
    \/ Rehash \/ EndResize

Spec == Init /\ [][Next]_vars

(* With allocations that fail inside a put. *)
FaultyNext == Next \/ \E k \in Keys, v \in Vals : InsertFails(k, v)

FaultySpec == Init /\ [][FaultyNext]_vars

-----------------------------------------------------------------------------
LiveSlots == {s \in 0..(capacity - 1) : entries[s].key \in Keys}

Abstract == INSTANCE Dictionary WITH dict <- [k \in Keys |-> Lookup(k)], size <- count

(* Through get, put and remove the table is a dictionary: a pair stays     *)
(* until its key is removed or put again, across tombstones that are       *)
(* reused, collisions that wrap round the end, growing and shrinking; and  *)
(* hash_map_count is the number of its pairs.                              *)
IsDictionary == Abstract!Spec

(* The count agrees with the table even when allocations fail: it is the   *)
(* number of slots that hold a key, which is what resizing relies on.      *)
CountIsLive == count = Cardinality(LiveSlots)

(* The load factor check keeps a slot free for every insertion, so that no *)
(* probe of put falls through to its last resort, overwriting the key in   *)
(* the home slot; the table a resize fills has room for every live key.    *)
RoomLeft ==
    /\ count < capacity
    /\ \A k \in Keys : ~Found(k) =>
          \E d \in Dist : InsertsAt(k, d) /\ KeyAt(k, d) \in {Null, Tomb}
    /\ Resizing => count < room

(* A resize leaves the table well inside both thresholds, so that a put    *)
(* and a remove that alternate at one of them do not resize each time.     *)
ResizeLeavesSlack ==
    [][capacity' # capacity =>
          /\ 4 * count' < 3 * capacity'
          /\ capacity' = MinCapacity \/ 4 * count' > capacity']_vars

(* hash_map.h:99, get returns "The value with the given key, or NULL if no *)
(* such key-value pair exists within the hash map".                        *)
StoredKeysAreFound == \A s \in LiveSlots : Found(entries[s].key)
================================================================================
