---------------------------- MODULE HashMapProofs ----------------------------
(* The hash map for every set of keys, every hash function, every minimal  *)
(* capacity and every number a tombstone may hash to.                      *)
EXTENDS HashMapIter, DataLemmas, TLAPS

(* The capacities that doubling makes of the smallest one: the least set   *)
(* that holds it and the double of each of its members.                    *)
Capacities ==
    {n \in Nat : \A S \in SUBSET Nat :
        MinCapacity \in S /\ (\A m \in S : 2 * m \in S) => n \in S}

(* The slots of table T, up to slot n, that hold a key. *)
LiveIn(T, n) == {s \in 0..(n - 1) : T[s].key \in Keys}

(* A resize has moved as many keys as it has passed. *)
Counting ==
    /\ capacity \in Capacities
    /\ count = Cardinality(LiveIn(entries, capacity)) /\ count < capacity
    /\ Resizing => /\ room \in Capacities /\ count < room
                   /\ Cardinality(LiveIn(fresh, room)) = Cardinality(LiveIn(entries, cursor))
    /\ pending # NoPut => IF Resizing THEN room = 2 * capacity ELSE count + 1 < capacity

CountInv == TypeOK /\ Counting

-----------------------------------------------------------------------------
(* The tables. *)

LEMMA Minimum == MinCapacity \in Nat /\ MinCapacity >= 4
BY HashMapAssumption

LEMMA CapacityFacts ==
    /\ MinCapacity \in Capacities
    /\ \A n \in Capacities :
          /\ n \in Nat /\ n >= MinCapacity /\ 2 * n \in Capacities
          /\ n = MinCapacity \/ \E p \in Capacities : n = 2 * p
<1>1. MinCapacity \in Capacities
    BY Minimum DEF Capacities
<1>2. ASSUME NEW n \in Capacities
      PROVE  n \in Nat /\ 2 * n \in Capacities
    BY DEF Capacities
<1>3. ASSUME NEW n \in Capacities
      PROVE  n >= MinCapacity
    <2>. DEFINE S == {m \in Nat : m >= MinCapacity}
    <2>1. S \in SUBSET Nat /\ MinCapacity \in S /\ \A m \in S : 2 * m \in S
        BY Minimum
    <2>2. n \in S
        BY <2>1 DEF Capacities
    <2>. QED BY <2>2
<1>4. ASSUME NEW n \in Capacities
      PROVE  n = MinCapacity \/ \E p \in Capacities : n = 2 * p
    <2>. DEFINE S == {m \in Capacities : m = MinCapacity \/ \E p \in Capacities : m = 2 * p}
    <2>1. S \in SUBSET Nat /\ MinCapacity \in S /\ \A m \in S : 2 * m \in S
        BY <1>1, <1>2
    <2>2. n \in S
        BY <2>1 DEF Capacities
    <2>. QED BY <2>2
<1>. QED BY <1>1, <1>2, <1>3, <1>4

LEMMA SlotIn ==
    ASSUME NEW hash \in Nat, NEW d \in Nat, NEW n \in Nat \ {0}
    PROVE  At(hash, d, n) \in 0..(n - 1)
<1>1. hash + d \in Nat
    OBVIOUS
<1>. QED BY <1>1, ModFacts DEF At

(* A probe comes to every slot, and to each only once. *)
LEMMA ProbeCovers ==
    ASSUME NEW hash \in Nat, NEW n \in Nat \ {0}, NEW s \in 0..(n - 1)
    PROVE  \E d \in 0..(n - 1) : At(hash, d, n) = s
BY ModCovers DEF At

LEMMA ProbeOnce ==
    ASSUME NEW hash \in Nat, NEW n \in Nat \ {0}, NEW d \in 0..(n - 1), NEW e \in 0..(n - 1),
           At(hash, d, n) = At(hash, e, n)
    PROVE  d = e
<1>1. ASSUME NEW i \in 0..(n - 1), NEW j \in 0..(n - 1), i < j
      PROVE  At(hash, i, n) # At(hash, j, n)
    <2>1. PICK a \in Nat, k \in Nat : a = hash + i /\ k = j - i /\ 0 < k /\ k < n
        BY <1>1
    <2>2. hash + j = a + k
        BY <2>1
    <2>. QED BY <2>1, <2>2, ModDistinct DEF At
<1>. QED BY <1>1

LEMMA ATable ==
    ASSUME NEW n \in Nat \ {0}, NEW T \in [0..(n - 1) -> Entry]
    PROVE  T # NoTable
<1>1. 0 \in DOMAIN T
    OBVIOUS
<1>2. DOMAIN NoTable = {}
    BY DEF NoTable
<1>. QED BY <1>1, <1>2

LEMMA BlankTable ==
    ASSUME NEW n \in Nat
    PROVE  Blank(n) \in [0..(n - 1) -> Entry] /\ LiveIn(Blank(n), n) = {}
<1>1. Empty \in Entry /\ Empty.key = Null /\ Null \notin Keys
    BY HashMapAssumption DEF Empty, Entry
<1>. QED BY <1>1 DEF Blank, LiveIn

LEMMA LiveFinite ==
    ASSUME NEW T, NEW n \in Nat
    PROVE  /\ IsFiniteSet(LiveIn(T, n)) /\ Cardinality(LiveIn(T, n)) \in Nat
           /\ Cardinality(LiveIn(T, n)) <= n
           /\ Cardinality(LiveIn(T, n)) = n => LiveIn(T, n) = 0..(n - 1)
<1>1. IsFiniteSet(0..(n - 1)) /\ Cardinality(0..(n - 1)) = n
    <2>1. IsFiniteSet(0..(n - 1))
          /\ Cardinality(0..(n - 1)) = IF 0 > n - 1 THEN 0 ELSE (n - 1) - 0 + 1
        BY FS_Interval
    <2>. QED BY <2>1
<1>2. LiveIn(T, n) \in SUBSET (0..(n - 1))
    BY DEF LiveIn
<1>. QED BY <1>1, <1>2, FS_Subset, FS_CardinalityType

(* Storing an entry in a slot. *)
Store(T, a, entry) == [T EXCEPT ![a] = entry]

LEMMA StoreAdds ==
    ASSUME NEW n \in Nat, NEW T \in [0..(n - 1) -> Entry], NEW a \in 0..(n - 1),
           NEW entry \in Entry, entry.key \in Keys, T[a].key \notin Keys
    PROVE  Cardinality(LiveIn(Store(T, a, entry), n)) = Cardinality(LiveIn(T, n)) + 1
<1>1. IsFiniteSet(LiveIn(T, n)) /\ a \notin LiveIn(T, n)
    <2>1. IsFiniteSet(LiveIn(T, n))
        BY LiveFinite
    <2>. QED BY <2>1 DEF LiveIn
<1>2. LiveIn(Store(T, a, entry), n) = LiveIn(T, n) \cup {a}
    BY DEF LiveIn, Store
<1>. QED BY <1>1, <1>2, FS_AddElement

LEMMA StoreKeeps ==
    ASSUME NEW n \in Nat, NEW T \in [0..(n - 1) -> Entry], NEW a \in 0..(n - 1),
           NEW entry \in Entry, entry.key \notin Keys, T[a].key \notin Keys
    PROVE  LiveIn(Store(T, a, entry), n) = LiveIn(T, n)
BY DEF LiveIn, Store

LEMMA StoreReplaces ==
    ASSUME NEW n \in Nat, NEW T \in [0..(n - 1) -> Entry], NEW a \in 0..(n - 1),
           NEW entry \in Entry, entry.key \in Keys, T[a].key \in Keys
    PROVE  LiveIn(Store(T, a, entry), n) = LiveIn(T, n)
BY DEF LiveIn, Store

LEMMA StoreRemoves ==
    ASSUME NEW n \in Nat, NEW T \in [0..(n - 1) -> Entry], NEW a \in 0..(n - 1),
           NEW entry \in Entry, entry.key \notin Keys, T[a].key \in Keys
    PROVE  Cardinality(LiveIn(Store(T, a, entry), n)) = Cardinality(LiveIn(T, n)) - 1
<1>1. IsFiniteSet(LiveIn(T, n)) /\ a \in LiveIn(T, n)
    <2>1. IsFiniteSet(LiveIn(T, n))
        BY LiveFinite
    <2>. QED BY <2>1 DEF LiveIn
<1>2. LiveIn(Store(T, a, entry), n) = LiveIn(T, n) \ {a}
    BY DEF LiveIn, Store
<1>. QED BY <1>1, <1>2, FS_RemoveElement

LEMMA CountFacts ==
    ASSUME CountInv
    PROVE  /\ capacity \in Nat \ {0} /\ capacity >= 4 /\ capacity \in Capacities
           /\ count \in Nat /\ count < capacity
           /\ count = Cardinality(LiveIn(entries, capacity))
           /\ entries \in [0..(capacity - 1) -> Entry]
<1>1. capacity \in Nat /\ capacity >= MinCapacity
    BY DEF CountInv, TypeOK
<1>. QED BY <1>1, Minimum DEF CountInv, TypeOK, Counting

LEMMA KeyTypes ==
    ASSUME CountInv, NEW k \in Keys
    PROVE  /\ Hash[k] \in Nat /\ k # Null /\ k # Tomb /\ Null # Tomb
           /\ \A d \in Dist : /\ At(Hash[k], d, capacity) \in 0..(capacity - 1)
                              /\ KeyAt(k, d) \in Keys \cup {Null, Tomb}
<1>1. Hash[k] \in Nat /\ k # Null /\ k # Tomb /\ Null # Tomb
    BY HashMapAssumption
<1>2. \A d \in Dist : At(Hash[k], d, capacity) \in 0..(capacity - 1)
    <2>1. ASSUME NEW d \in Dist PROVE At(Hash[k], d, capacity) \in 0..(capacity - 1)
        <3>1. d \in Nat /\ capacity \in Nat \ {0}
            BY CountFacts DEF Dist
        <3>. QED BY <1>1, <3>1, SlotIn
    <2>. QED BY <2>1
<1>3. \A s \in 0..(capacity - 1) : entries[s].key \in Keys \cup {Null, Tomb}
    BY CountFacts DEF Entry
<1>. QED BY <1>1, <1>2, <1>3 DEF KeyAt

(* While the count is below the capacity, a put finds a free slot.         *)
LEMMA PutsHaveRoom ==
    ASSUME CountInv, NEW k \in Keys
    PROVE  /\ \E d \in Dist : InsertsAt(k, d) /\ KeyAt(k, d) \in {Null, Tomb}
           /\ \A d \in Dist : InsertsAt(k, d) => KeyAt(k, d) \in {Null, Tomb}
<1>1. /\ capacity \in Nat \ {0} /\ count < capacity /\ count \in Nat
      /\ count = Cardinality(LiveIn(entries, capacity))
    BY CountFacts
<1>2. PICK s \in 0..(capacity - 1) : entries[s].key \notin Keys
    <2>1. LiveIn(entries, capacity) # 0..(capacity - 1)
        <3>1. Cardinality(0..(capacity - 1)) = capacity
            <4>1. Cardinality(0..(capacity - 1)) =
                      IF 0 > capacity - 1 THEN 0 ELSE (capacity - 1) - 0 + 1
                BY <1>1, FS_Interval
            <4>. QED BY <1>1, <4>1
        <3>. QED BY <1>1, <3>1
    <2>. QED BY <2>1 DEF LiveIn
<1>3. PICK c \in Dist : KeyAt(k, c) \in {Null, Tomb}
    <2>1. \E d \in 0..(capacity - 1) : At(Hash[k], d, capacity) = s
        BY <1>1, KeyTypes, ProbeCovers
    <2>. QED BY <1>2, <2>1, KeyTypes DEF Dist, KeyAt
<1>. DEFINE Open == {d \in Dist : KeyAt(k, d) \in {Null, Tomb}}
<1>4. Open \in SUBSET Nat /\ c \in Open
    BY <1>1, <1>3 DEF Dist
<1>5. PICK d \in Open : \A e \in Open : d <= e
    BY <1>4, LeastNumber
<1>6. d \in Dist /\ KeyAt(k, d) \in {Null, Tomb}
    OBVIOUS
<1>7. \A e \in 0..(d - 1) : e \in Dist /\ KeyAt(k, e) \in Keys
    <2>1. \A e \in 0..(d - 1) : e \in Dist /\ ~(d <= e)
        BY <1>1, <1>6 DEF Dist
    <2>. QED BY <1>5, <2>1, KeyTypes
<1>8. Reaches(k, d) /\ \A e \in 0..(d - 1) : ~PassesTombAt(k, e)
    BY <1>7, HashMapAssumption DEF Reaches, PassesTombAt
<1>9. InsertsAt(k, d)
    <2>1. CASE KeyAt(k, d) = Tomb
        BY <2>1, <1>8 DEF InsertsAt, PassesTombAt
    <2>2. CASE KeyAt(k, d) = Null
        <3>1. ASSUME NEW e \in Dist, PassesTombAt(k, e) PROVE FALSE
            <4>1. ~(d < e)
                BY <2>2, <3>1, <1>6 DEF PassesTombAt, Reaches, Dist
            <4>2. d # e
                BY <2>2, <3>1, HashMapAssumption DEF PassesTombAt
            <4>3. e \in 0..(d - 1)
                BY <4>1, <4>2, <1>1, <1>6 DEF Dist
            <4>. QED BY <4>3, <3>1, <1>8
        <3>. QED BY <2>2, <3>1, <1>8 DEF InsertsAt
    <2>. QED BY <2>1, <2>2, <1>6
<1>10. ASSUME NEW e \in Dist, InsertsAt(k, e) PROVE KeyAt(k, e) \in {Null, Tomb}
    <2>1. CASE \A f \in Dist : KeyAt(k, f) # Null /\ ~PassesTombAt(k, f)
        <3>1. KeyAt(k, d) = Tomb
            BY <1>6, <2>1
        <3>. QED BY <1>6, <1>8, <2>1, <3>1 DEF PassesTombAt
    <2>. QED BY <1>10, <2>1 DEF InsertsAt, PassesTombAt
<1>. QED BY <1>6, <1>9, <1>10

-----------------------------------------------------------------------------
(* Counting, also where allocations fail. *)

LEMMA EntriesTyped ==
    /\ Empty \in Entry /\ Empty.key = Null /\ Null \notin Keys
    /\ Tombstone \in Entry /\ Tombstone.key = Tomb /\ Tomb \notin Keys
    /\ \A k \in Keys, v \in Vals : [key |-> k, value |-> v] \in Entry
BY HashMapAssumption DEF Empty, Tombstone, Entry

LEMMA InitCount == Init => CountInv
<1>. SUFFICES ASSUME Init PROVE CountInv
    OBVIOUS
<1>1. /\ capacity = MinCapacity /\ count = 0 /\ entries = Blank(MinCapacity)
      /\ fresh = NoTable /\ room = 0 /\ cursor = 0 /\ pending = NoPut
    BY DEF Init
<1>2. /\ Blank(MinCapacity) \in [0..(MinCapacity - 1) -> Entry]
      /\ LiveIn(Blank(MinCapacity), MinCapacity) = {}
    BY Minimum, BlankTable
<1>3. TypeOK
    BY <1>1, <1>2, Minimum DEF TypeOK, Resizing
<1>4. Counting
    BY <1>1, <1>2, Minimum, CapacityFacts, FS_EmptySet DEF Counting, Resizing
<1>. QED BY <1>3, <1>4 DEF CountInv

(* A resize that begins with a table which has room for every key.         *)
LEMMA Begins ==
    ASSUME CountInv, NEW n \in Capacities, BeginResize(n), count' < n
    PROVE  /\ Resizing' /\ n >= MinCapacity /\ n \in Nat
           /\ fresh' \in [0..(room' - 1) -> Entry] /\ room' = n /\ cursor' = 0
           /\ Cardinality(LiveIn(fresh', room')) = Cardinality(LiveIn(entries', cursor'))
<1>1. n \in Nat \ {0} /\ n >= MinCapacity
    BY CapacityFacts, Minimum
<1>2. fresh' = Blank(n) /\ room' = n /\ cursor' = 0
    BY DEF BeginResize
<1>3. fresh' \in [0..(room' - 1) -> Entry] /\ LiveIn(fresh', room') = {}
    BY <1>1, <1>2, BlankTable
<1>4. LiveIn(entries', cursor') = {}
    BY <1>2 DEF LiveIn
<1>5. Resizing'
    BY <1>1, <1>2, <1>3, ATable DEF Resizing
<1>. QED BY <1>1, <1>2, <1>3, <1>4, <1>5

LEMMA GrowCount ==
    ASSUME CountInv, NEW k \in Keys, NEW v \in Vals, Grow(k, v)
    PROVE  CountInv'
<1>1. /\ BeginResize(2 * capacity) /\ pending' = <<k, v>>
      /\ entries' = entries /\ capacity' = capacity /\ count' = count
    BY DEF Grow
<1>2. 2 * capacity \in Capacities /\ count' < 2 * capacity
    BY <1>1, CountFacts, CapacityFacts
<1>3. /\ Resizing' /\ room' = 2 * capacity /\ room' >= MinCapacity /\ cursor' = 0
      /\ fresh' \in [0..(room' - 1) -> Entry]
      /\ Cardinality(LiveIn(fresh', room')) = Cardinality(LiveIn(entries', cursor'))
    BY <1>1, <1>2, Begins
<1>4. TypeOK'
    <2>1. cursor' \in 0..capacity'
        BY <1>1, <1>3, CountFacts
    <2>. QED BY <1>1, <1>3, <2>1 DEF CountInv, TypeOK
<1>5. Counting'
    BY <1>1, <1>2, <1>3 DEF CountInv, Counting
<1>. QED BY <1>4, <1>5 DEF CountInv

(* A put that has stored one entry. *)
LEMMA StoresOne ==
    ASSUME CountInv, ~Resizing, NEW a \in 0..(capacity - 1), NEW entry \in Entry,
           entries' = Store(entries, a, entry),
           UNCHANGED <<capacity, resize>>, pending' = NoPut,
           count' \in Nat, count' < capacity,
           count' = Cardinality(LiveIn(entries', capacity))
    PROVE  CountInv'
<1>1. capacity' = capacity /\ fresh' = fresh /\ room' = room /\ cursor' = cursor /\ ~Resizing'
    BY DEF resize, Resizing
<1>2. entries' \in [0..(capacity' - 1) -> Entry]
    BY <1>1, CountFacts DEF Store
<1>3. TypeOK'
    BY <1>1, <1>2 DEF CountInv, TypeOK
<1>4. Counting'
    BY <1>1 DEF CountInv, Counting
<1>. QED BY <1>3, <1>4 DEF CountInv

LEMMA UpdateCount ==
    ASSUME CountInv, NEW k \in Keys, NEW v \in Vals, Update(k, v)
    PROVE  CountInv'
<1>1. PICK d \in Dist :
          /\ Hit(k, d)
          /\ entries' = [entries EXCEPT ![At(Hash[k], d, capacity)].value = v]
    BY DEF Update
<1>2. /\ ~Resizing /\ pending' = NoPut /\ UNCHANGED <<capacity, count, resize>>
    BY DEF Update, Admits
<1>. DEFINE a == At(Hash[k], d, capacity)
            entry == [key |-> k, value |-> v]
<1>3. a \in 0..(capacity - 1) /\ entry \in Entry
    BY KeyTypes, EntriesTyped
<1>4. entries[a] \in Entry /\ entries[a].key = k
    BY <1>1, <1>3, CountFacts DEF Hit, KeyAt
<1>. HIDE DEF a
<1>5. entries' = Store(entries, a, entry)
    <2>1. [entries[a] EXCEPT !.value = v] = entry
        BY <1>4 DEF Entry
    <2>. QED BY <1>1, <2>1 DEF a, Store
<1>6. LiveIn(entries', capacity) = LiveIn(entries, capacity)
    <2>1. capacity \in Nat /\ entries \in [0..(capacity - 1) -> Entry]
        BY CountFacts
    <2>. QED BY <1>3, <1>4, <1>5, <2>1, StoreReplaces
<1>. QED BY <1>2, <1>3, <1>5, <1>6, CountFacts, StoresOne

LEMMA InsertCount ==
    ASSUME CountInv, NEW k \in Keys, NEW v \in Vals, Insert(k, v)
    PROVE  CountInv'
<1>1. PICK d \in Dist :
          /\ InsertsAt(k, d)
          /\ entries' = [entries EXCEPT ![At(Hash[k], d, capacity)] = [key |-> k, value |-> v]]
    BY DEF Insert
<1>2. /\ ~Resizing /\ pending' = NoPut /\ UNCHANGED <<capacity, resize>> /\ count' = count + 1
      /\ pending # NoPut \/ ~TooFull
    BY DEF Insert, Admits, NoPut
<1>. DEFINE a == At(Hash[k], d, capacity)
            entry == [key |-> k, value |-> v]
<1>3. a \in 0..(capacity - 1) /\ entry \in Entry /\ entry.key \in Keys
    BY KeyTypes, EntriesTyped
<1>4. entries[a].key \notin Keys
    BY <1>1, PutsHaveRoom, HashMapAssumption DEF KeyAt
<1>. HIDE DEF a, entry
<1>5. entries' = Store(entries, a, entry)
    BY <1>1 DEF a, entry, Store
<1>6. count' = Cardinality(LiveIn(entries', capacity)) /\ count' \in Nat
    <2>1. capacity \in Nat /\ entries \in [0..(capacity - 1) -> Entry]
        BY CountFacts
    <2>2. Cardinality(LiveIn(entries', capacity)) = Cardinality(LiveIn(entries, capacity)) + 1
        <3>1. Cardinality(LiveIn(Store(entries, a, entry), capacity)) =
                  Cardinality(LiveIn(entries, capacity)) + 1
            BY <1>3, <1>4, <2>1, StoreAdds
        <3>. QED BY <1>5, <3>1
    <2>. QED BY <1>2, <2>2, CountFacts
<1>7. count' < capacity
    <2>1. CASE pending # NoPut
        BY <1>2, <2>1 DEF CountInv, Counting
    <2>2. CASE ~TooFull
        BY <1>2, <2>2, CountFacts DEF TooFull
    <2>. QED BY <1>2, <2>1, <2>2
<1>. QED BY <1>2, <1>3, <1>5, <1>6, <1>7, StoresOne

LEMMA InsertFailsCount ==
    ASSUME CountInv, NEW k \in Keys, NEW v \in Vals, InsertFails(k, v)
    PROVE  CountInv'
<1>1. PICK d \in Dist :
          /\ KeyAt(k, d) \in {Null, Tomb}
          /\ entries' = [entries EXCEPT ![At(Hash[k], d, capacity)] = Empty]
    BY DEF InsertFails
<1>2. /\ ~Resizing /\ pending' = NoPut /\ UNCHANGED <<capacity, resize>> /\ count' = count
    BY DEF InsertFails, Admits
<1>. DEFINE a == At(Hash[k], d, capacity)
<1>3. a \in 0..(capacity - 1) /\ Empty \in Entry /\ Empty.key \notin Keys
    BY KeyTypes, EntriesTyped
<1>4. entries[a].key \notin Keys
    BY <1>1, HashMapAssumption DEF KeyAt
<1>. HIDE DEF a
<1>5. entries' = Store(entries, a, Empty)
    BY <1>1 DEF a, Store
<1>6. LiveIn(entries', capacity) = LiveIn(entries, capacity)
    <2>1. capacity \in Nat /\ entries \in [0..(capacity - 1) -> Entry]
        BY CountFacts
    <2>2. LiveIn(Store(entries, a, Empty), capacity) = LiveIn(entries, capacity)
        BY <1>3, <1>4, <2>1, StoreKeeps
    <2>. QED BY <1>5, <2>2
<1>. QED BY <1>2, <1>3, <1>5, <1>6, CountFacts, StoresOne

(* Halving: what a remove resizes to. *)
LEMMA HalfFacts ==
    ASSUME CountInv, capacity > MinCapacity
    PROVE  /\ Half \in Capacities /\ Half = capacity \div 2 /\ capacity = 2 * Half
           /\ Half \in Nat /\ Half >= MinCapacity
<1>1. PICK p \in Capacities : capacity = 2 * p
    <2>1. capacity \in Capacities /\ capacity # MinCapacity
        BY CountFacts, Minimum
    <2>. QED BY <2>1, CapacityFacts
<1>2. p \in Nat /\ p >= MinCapacity
    BY CapacityFacts
<1>3. capacity \div 2 = p
    BY <1>1, <1>2
<1>4. Half = p
    BY <1>2, <1>3, Minimum DEF Half
<1>. QED BY <1>1, <1>2, <1>3, <1>4

LEMMA RemoveCount ==
    ASSUME CountInv, NEW k \in Keys, Remove(k)
    PROVE  CountInv'
<1>1. PICK d \in Dist :
          /\ Hit(k, d)
          /\ entries' = [entries EXCEPT ![At(Hash[k], d, capacity)] = Tombstone]
    BY DEF Remove
<1>2. /\ ~Resizing /\ pending = NoPut /\ pending' = pending /\ capacity' = capacity
      /\ count' = count - 1
      /\ (TooEmpty(count - 1) /\ BeginResize(Half)) \/ UNCHANGED resize
    BY DEF Remove
<1>. DEFINE a == At(Hash[k], d, capacity)
<1>3. a \in 0..(capacity - 1) /\ Tombstone \in Entry /\ Tombstone.key \notin Keys
    BY KeyTypes, EntriesTyped
<1>4. entries[a].key \in Keys
    BY <1>1 DEF Hit, KeyAt
<1>. HIDE DEF a
<1>5. entries' = Store(entries, a, Tombstone)
    BY <1>1 DEF a, Store
<1>6. /\ capacity \in Nat /\ entries \in [0..(capacity - 1) -> Entry] /\ count \in Nat
      /\ count = Cardinality(LiveIn(entries, capacity)) /\ count < capacity
    BY CountFacts
<1>7. /\ Store(entries, a, Tombstone) \in [0..(capacity - 1) -> Entry]
      /\ Cardinality(LiveIn(Store(entries, a, Tombstone), capacity)) =
             Cardinality(LiveIn(entries, capacity)) - 1
    <2>1. Store(entries, a, Tombstone) \in [0..(capacity - 1) -> Entry]
        BY <1>3, <1>6 DEF Store
    <2>2. Cardinality(LiveIn(Store(entries, a, Tombstone), capacity)) =
              Cardinality(LiveIn(entries, capacity)) - 1
        <3>1. capacity \in Nat /\ entries \in [0..(capacity - 1) -> Entry]
            BY <1>6
        <3>. QED BY <1>3, <1>4, <3>1, StoreRemoves
    <2>. QED BY <2>1, <2>2
<1>8. /\ entries' \in [0..(capacity' - 1) -> Entry]
      /\ count' = Cardinality(LiveIn(entries', capacity'))
    BY <1>2, <1>5, <1>6, <1>7
<1>9. count' \in Nat /\ count' < capacity'
    <2>1. capacity' \in Nat
        BY <1>2, <1>6
    <2>2. Cardinality(LiveIn(entries', capacity')) \in Nat
        BY <2>1, LiveFinite
    <2>. QED BY <1>2, <1>6, <1>8, <2>2
<1>10. CASE UNCHANGED resize
    <2>1. fresh' = fresh /\ room' = room /\ cursor' = cursor /\ ~Resizing'
        BY <1>2, <1>10 DEF resize, Resizing
    <2>2. TypeOK'
        BY <1>2, <1>8, <1>9, <2>1 DEF CountInv, TypeOK
    <2>3. Counting'
        BY <1>2, <1>8, <1>9, <2>1 DEF CountInv, Counting
    <2>. QED BY <2>2, <2>3 DEF CountInv
<1>11. CASE TooEmpty(count - 1) /\ BeginResize(Half)
    <2>1. /\ Half \in Capacities /\ Half = capacity \div 2 /\ capacity = 2 * Half
          /\ Half \in Nat /\ Half >= 4
        BY <1>11, HalfFacts, Minimum DEF TooEmpty
    <2>2. count' < Half
        BY <1>2, <1>6, <1>11, <2>1 DEF TooEmpty
    <2>3. /\ Resizing' /\ room' = Half /\ room' >= MinCapacity /\ cursor' = 0
          /\ fresh' \in [0..(room' - 1) -> Entry]
          /\ Cardinality(LiveIn(fresh', room')) = Cardinality(LiveIn(entries', cursor'))
        BY <1>11, <2>1, <2>2, Begins
    <2>4. TypeOK'
        <3>1. cursor' \in 0..capacity' /\ room' = capacity' \div 2
            BY <1>2, <1>6, <2>1, <2>3
        <3>. QED BY <1>2, <1>8, <1>9, <2>3, <3>1 DEF CountInv, TypeOK
    <2>5. Counting'
        BY <1>2, <1>8, <1>9, <2>1, <2>2, <2>3 DEF CountInv, Counting
    <2>. QED BY <2>4, <2>5 DEF CountInv
<1>. QED BY <1>2, <1>10, <1>11

(* What a resize knows. *)
LEMMA ResizeFacts ==
    ASSUME CountInv, Resizing
    PROVE  /\ room \in Nat \ {0} /\ room >= MinCapacity /\ room \in Capacities
           /\ room = 2 * capacity \/ room = capacity \div 2
           /\ fresh \in [0..(room - 1) -> Entry]
           /\ cursor \in Nat /\ cursor <= capacity
<1>1. /\ room \in Capacities /\ room >= MinCapacity
      /\ room = 2 * capacity \/ room = capacity \div 2
      /\ fresh \in [0..(room - 1) -> Entry] /\ cursor \in 0..capacity
    BY DEF CountInv, TypeOK, Counting
<1>2. room \in Nat
    BY <1>1, CapacityFacts
<1>3. capacity \in Nat
    BY CountFacts
<1>. QED BY <1>1, <1>2, <1>3, Minimum

(* One old slot more, to a free slot of the new table. *)
LEMMA LiveUpTo ==
    ASSUME NEW T, NEW c \in Nat
    PROVE  Cardinality(LiveIn(T, c + 1)) =
               IF T[c].key \in Keys THEN Cardinality(LiveIn(T, c)) + 1
                                    ELSE Cardinality(LiveIn(T, c))
<1>1. IsFiniteSet(LiveIn(T, c)) /\ c \notin LiveIn(T, c)
    <2>1. IsFiniteSet(LiveIn(T, c))
        BY LiveFinite
    <2>2. c \notin LiveIn(T, c)
        BY DEF LiveIn
    <2>. QED BY <2>1, <2>2
<1>2. LiveIn(T, c + 1) = IF T[c].key \in Keys THEN LiveIn(T, c) \cup {c} ELSE LiveIn(T, c)
    <2>1. 0..((c + 1) - 1) = (0..(c - 1)) \cup {c}
        OBVIOUS
    <2>. QED BY <2>1 DEF LiveIn
<1>. QED BY <1>1, <1>2, FS_AddElement

(* What Rehash does, either way. *)
RehashLeaves == Resizing /\ entries[cursor].key = Null /\ fresh' = fresh
RehashMoves(a) ==
    /\ Resizing /\ entries[cursor].key # Null
    /\ fresh[a].key \in {Null, Tomb} /\ fresh' = Store(fresh, a, entries[cursor])

LEMMA RehashFacts ==
    ASSUME CountInv, Rehash
    PROVE  /\ Resizing /\ Resizing' /\ cursor \in 0..(capacity - 1) /\ cursor' = cursor + 1
           /\ entries[cursor] \in Entry
           /\ UNCHANGED <<entries, capacity, count, room, pending>>
           /\ fresh' \in [0..(room - 1) -> Entry]
           /\ \/ RehashLeaves
              \/ \E a \in 0..(room - 1) :
                    /\ RehashMoves(a)
                    /\ \E hash \in HashOf(entries[cursor]), d \in 0..(room - 1) :
                          /\ a = At(hash, d, room)
                          /\ \A e \in 0..(d - 1) : ~FreeIn(At(hash, e, room))
<1>1. /\ Resizing /\ cursor < capacity /\ cursor' = cursor + 1
      /\ UNCHANGED <<entries, capacity, count, room, pending>>
    BY DEF Rehash
<1>2. /\ room \in Nat \ {0} /\ cursor \in 0..(capacity - 1) /\ entries[cursor] \in Entry
      /\ fresh \in [0..(room - 1) -> Entry]
    BY <1>1, ResizeFacts, CountFacts
<1>3. CASE entries[cursor].key = Null
    <2>1. fresh' = fresh
        BY <1>3 DEF Rehash
    <2>. QED BY <1>1, <1>2, <1>3, <2>1 DEF Resizing, RehashLeaves
<1>4. CASE entries[cursor].key # Null
    <2>1. PICK hash \in HashOf(entries[cursor]), d \in 0..(room - 1) :
              /\ FreeIn(At(hash, d, room))
              /\ \A e \in 0..(d - 1) : ~FreeIn(At(hash, e, room))
              /\ fresh' = [fresh EXCEPT ![At(hash, d, room)] = entries[cursor]]
        BY <1>4 DEF Rehash
    <2>2. hash \in Nat
        BY <1>2, <1>4, HashMapAssumption DEF HashOf, Entry
    <2>3. PICK a \in 0..(room - 1) : a = At(hash, d, room)
        <3>1. d \in Nat
            BY <1>2
        <3>. QED BY <1>2, <2>2, <3>1, SlotIn
    <2>4. fresh' = Store(fresh, a, entries[cursor]) /\ fresh[a].key \in {Null, Tomb}
        BY <2>1, <2>3 DEF Store, FreeIn
    <2>5. Store(fresh, a, entries[cursor]) \in [0..(room - 1) -> Entry]
        BY <1>2 DEF Store
    <2>6. fresh' # NoTable
        BY <1>2, <2>4, <2>5, ATable
    <2>. QED BY <1>1, <1>2, <1>4, <2>1, <2>3, <2>4, <2>5, <2>6 DEF Resizing, RehashMoves
<1>. QED BY <1>3, <1>4

LEMMA RehashCount == ASSUME CountInv, Rehash PROVE CountInv'
<1>1. /\ Resizing /\ Resizing' /\ cursor \in 0..(capacity - 1) /\ cursor' = cursor + 1
      /\ UNCHANGED <<entries, capacity, count, room, pending>>
      /\ fresh' \in [0..(room - 1) -> Entry] /\ entries[cursor] \in Entry
      /\ RehashLeaves \/ \E a \in 0..(room - 1) : RehashMoves(a)
    BY RehashFacts
<1>2. /\ room \in Nat /\ fresh \in [0..(room - 1) -> Entry] /\ cursor \in Nat /\ capacity \in Nat
    BY <1>1, ResizeFacts, CountFacts
<1>3. Cardinality(LiveIn(entries, cursor + 1)) =
          IF entries[cursor].key \in Keys THEN Cardinality(LiveIn(entries, cursor)) + 1
                                          ELSE Cardinality(LiveIn(entries, cursor))
    BY <1>2, LiveUpTo
<1>4. Cardinality(LiveIn(fresh', room)) =
          IF entries[cursor].key \in Keys THEN Cardinality(LiveIn(fresh, room)) + 1
                                          ELSE Cardinality(LiveIn(fresh, room))
    <2>1. CASE RehashLeaves
        BY <2>1, HashMapAssumption DEF RehashLeaves
    <2>2. ASSUME NEW a \in 0..(room - 1), RehashMoves(a)
          PROVE  Cardinality(LiveIn(fresh', room)) =
                     IF entries[cursor].key \in Keys THEN Cardinality(LiveIn(fresh, room)) + 1
                                                     ELSE Cardinality(LiveIn(fresh, room))
        <3>1. fresh[a].key \notin Keys /\ fresh' = Store(fresh, a, entries[cursor])
            BY <2>2, HashMapAssumption DEF RehashMoves
        <3>2. CASE entries[cursor].key \in Keys
            <4>1. Cardinality(LiveIn(Store(fresh, a, entries[cursor]), room)) =
                      Cardinality(LiveIn(fresh, room)) + 1
                BY <1>1, <1>2, <3>1, <3>2, StoreAdds
            <4>. QED BY <3>1, <3>2, <4>1
        <3>3. CASE entries[cursor].key \notin Keys
            <4>1. LiveIn(Store(fresh, a, entries[cursor]), room) = LiveIn(fresh, room)
                BY <1>1, <1>2, <3>1, <3>3, StoreKeeps
            <4>. QED BY <3>1, <3>3, <4>1
        <3>. QED BY <3>2, <3>3
    <2>. QED BY <1>1, <2>1, <2>2
<1>5. TypeOK'
    <2>1. cursor' \in 0..capacity'
        BY <1>1, <1>2
    <2>. QED BY <1>1, <2>1 DEF CountInv, TypeOK
<1>6. Counting'
    BY <1>1, <1>3, <1>4 DEF CountInv, Counting
<1>. QED BY <1>5, <1>6 DEF CountInv

LEMMA EndResizeCount == ASSUME CountInv, EndResize PROVE CountInv'
<1>1. /\ Resizing /\ cursor = capacity /\ entries' = fresh /\ capacity' = room
      /\ fresh' = NoTable /\ room' = 0 /\ cursor' = 0 /\ ~Resizing'
      /\ count' = count /\ pending' = pending
    BY DEF EndResize, Resizing
<1>2. /\ room \in Nat /\ room >= MinCapacity /\ fresh \in [0..(room - 1) -> Entry]
    BY <1>1, ResizeFacts
<1>3. TypeOK'
    BY <1>1, <1>2 DEF CountInv, TypeOK
<1>4. Counting'
    <2>1. /\ count = Cardinality(LiveIn(fresh, room)) /\ count < room /\ room \in Capacities
        BY <1>1 DEF CountInv, Counting
    <2>2. pending # NoPut => count + 1 < room
        BY <1>1, CountFacts DEF CountInv, Counting
    <2>. QED BY <1>1, <2>1, <2>2 DEF Counting
<1>. QED BY <1>3, <1>4 DEF CountInv

LEMMA NextCount == CountInv /\ [FaultyNext]_vars => CountInv'
<1>. SUFFICES ASSUME CountInv, [FaultyNext]_vars PROVE CountInv'
    OBVIOUS
<1>1. ASSUME NEW k \in Keys, NEW v \in Vals,
             Grow(k, v) \/ Update(k, v) \/ Insert(k, v) \/ InsertFails(k, v)
      PROVE  CountInv'
    BY <1>1, GrowCount, UpdateCount, InsertCount, InsertFailsCount
<1>2. ASSUME NEW k \in Keys, Remove(k) PROVE CountInv'
    BY <1>2, RemoveCount
<1>3. CASE Rehash \/ EndResize
    BY <1>3, RehashCount, EndResizeCount
<1>4. CASE UNCHANGED vars
    BY <1>4 DEF vars, CountInv, TypeOK, Counting, Resizing
<1>. QED BY <1>1, <1>2, <1>3, <1>4 DEF FaultyNext, Next

-----------------------------------------------------------------------------
(* The map without faults is one with faults that do not happen; the map   *)
(* under an iterator is a map.                                             *)
LEMMA NoFaults == Spec => FaultySpec
<1>1. [Next]_vars => [FaultyNext]_vars
    BY DEF FaultyNext
<1>. QED BY <1>1, PTL DEF Spec, FaultySpec

LEMMA IterIsMap == IterSpec => FaultySpec
<1>1. IterInit => Init
    BY DEF IterInit
<1>2. [IterNextState]_iterVars => [FaultyNext]_vars
    BY DEF IterNextState, iterVars, Create, Started, IterNext, IterEnds, Free, MapChanges
<1>. QED BY <1>1, <1>2, PTL DEF IterSpec, FaultySpec

LEMMA CountInvariant == FaultySpec => []CountInv
<1>. QED BY InitCount, NextCount, PTL DEF FaultySpec

(* Types, whatever the hash functions return and whichever allocations     *)
(* fail; the capacities are the doubles of the smallest, so that halving a *)
(* table always gives one a map can have.                                  *)
THEOREM MapTypeCorrect == (FaultySpec => []TypeOK) /\ (Spec => []TypeOK)
<1>1. CountInv => TypeOK
    BY DEF CountInv
<1>. QED BY CountInvariant, NoFaults, <1>1, PTL

(* The count is the number of slots that hold a key, also after an         *)
(* allocation failed and while an iterator looks on.                       *)
THEOREM CountIsLiveCorrect == (FaultySpec => []CountIsLive) /\ (IterSpec => []CountIsLive)
<1>1. CountInv => CountIsLive
    BY CountFacts DEF CountIsLive, LiveSlots, LiveIn
<1>. QED BY CountInvariant, IterIsMap, <1>1, PTL

(* The load factor checks keep a slot free for every put, so that the last *)
(* resort of hash_map_put, overwriting the home slot, is never taken; and  *)
(* the table of a resize has room for all the keys.                        *)
THEOREM RoomLeftCorrect == (FaultySpec => []RoomLeft) /\ (Spec => []RoomLeft)
<1>1. CountInv => RoomLeft
    <2>. SUFFICES ASSUME CountInv PROVE RoomLeft
        OBVIOUS
    <2>1. count < capacity
        BY CountFacts
    <2>2. \A k \in Keys : \E d \in Dist : InsertsAt(k, d) /\ KeyAt(k, d) \in {Null, Tomb}
        BY PutsHaveRoom
    <2>3. Resizing => count < room
        BY DEF CountInv, Counting
    <2>. QED BY <2>1, <2>2, <2>3 DEF RoomLeft
<1>. QED BY CountInvariant, NoFaults, <1>1, PTL

(* The loop of hash_map_resize that looks for a place in the new table     *)
(* ends, at a free slot, whatever the entry hashes to and however many     *)
(* tombstones were moved before it: a resize is never stuck half way.      *)
RehashFindsRoom ==
    Resizing /\ cursor < capacity =>
        \A hash \in Nat : \E d \in 0..(room - 1) :
            /\ FreeIn(At(hash, d, room))
            /\ \A e \in 0..(d - 1) : ~FreeIn(At(hash, e, room))

THEOREM RehashFindsRoomCorrect == FaultySpec => []RehashFindsRoom
<1>1. CountInv => RehashFindsRoom
    <2>. SUFFICES ASSUME CountInv, Resizing, NEW hash \in Nat
                  PROVE  \E d \in 0..(room - 1) :
                            /\ FreeIn(At(hash, d, room))
                            /\ \A e \in 0..(d - 1) : ~FreeIn(At(hash, e, room))
        BY DEF RehashFindsRoom
    <2>1. /\ room \in Nat \ {0} /\ cursor \in Nat /\ cursor <= capacity
          /\ fresh \in [0..(room - 1) -> Entry]
        BY ResizeFacts
    <2>2. /\ capacity \in Nat /\ count \in Nat /\ count = Cardinality(LiveIn(entries, capacity))
          /\ count < room
          /\ Cardinality(LiveIn(fresh, room)) = Cardinality(LiveIn(entries, cursor))
        BY CountFacts DEF CountInv, Counting
    <2>3. Cardinality(LiveIn(entries, cursor)) <= count
        <3>1. LiveIn(entries, cursor) \subseteq LiveIn(entries, capacity)
            BY <2>1, <2>2 DEF LiveIn
        <3>2. IsFiniteSet(LiveIn(entries, capacity))
            BY <2>2, LiveFinite
        <3>. QED BY <2>2, <3>1, <3>2, FS_Subset
    <2>4. Cardinality(LiveIn(fresh, room)) # room
        <3>1. Cardinality(LiveIn(fresh, room)) \in Nat
            BY <2>1, LiveFinite
        <3>. QED BY <2>1, <2>2, <2>3, <3>1
    <2>5. PICK s \in 0..(room - 1) : FreeIn(s)
        <3>1. Cardinality(0..(room - 1)) = room
            <4>1. Cardinality(0..(room - 1)) = IF 0 > room - 1 THEN 0 ELSE (room - 1) - 0 + 1
                BY <2>1, FS_Interval
            <4>. QED BY <2>1, <4>1
        <3>2. LiveIn(fresh, room) # 0..(room - 1)
            BY <2>4, <3>1
        <3>3. PICK s \in 0..(room - 1) : fresh[s].key \notin Keys
            BY <3>2 DEF LiveIn
        <3>. QED BY <2>1, <3>3 DEF FreeIn, Entry
    <2>. DEFINE Frees == {d \in 0..(room - 1) : FreeIn(At(hash, d, room))}
    <2>6. PICK c \in 0..(room - 1) : At(hash, c, room) = s
        BY <2>1, ProbeCovers
    <2>7. Frees \in SUBSET Nat /\ c \in Frees
        BY <2>1, <2>5, <2>6
    <2>8. PICK d \in Frees : \A e \in Frees : d <= e
        BY <2>7, LeastNumber
    <2>9. \A e \in 0..(d - 1) : e \in 0..(room - 1) /\ ~(d <= e)
        BY <2>1
    <2>. QED BY <2>8, <2>9
<1>. QED BY CountInvariant, <1>1, PTL

-----------------------------------------------------------------------------
(* Thresholds: how full a table is when nothing is being resized, and what *)
(* a resize is for, if no allocation fails.                                *)
Slack ==
    IF Resizing THEN 4 * count < 3 * room /\ (room = MinCapacity \/ 4 * count > room)
                ELSE capacity = MinCapacity \/ 4 * count > capacity

LEMMA InitSlack == Init => Slack
BY DEF Init, Slack, Resizing

LEMMA NextSlack == ASSUME ~MallocMayFail, CountInv, CountInv', Slack, [FaultyNext]_vars
                   PROVE  Slack'
<1>0. capacity \in Nat /\ count \in Nat /\ count < capacity /\ capacity >= 4
    BY CountFacts
<1>1. ASSUME NEW k \in Keys, NEW v \in Vals, Grow(k, v) PROVE Slack'
    <2>1. /\ TooFull /\ BeginResize(2 * capacity)
          /\ entries' = entries /\ capacity' = capacity /\ count' = count
        BY <1>1 DEF Grow
    <2>2. 2 * capacity \in Capacities /\ count' < 2 * capacity
        <3>1. capacity \in Capacities /\ count < 2 * capacity
            BY <1>0, CountFacts
        <3>. QED BY <2>1, <3>1, CapacityFacts
    <2>3. Resizing' /\ room' = 2 * capacity
        BY <2>1, <2>2, Begins
    <2>. QED BY <1>0, <2>1, <2>3 DEF Slack, TooFull
<1>2. ASSUME NEW k \in Keys, NEW v \in Vals, Update(k, v) \/ Insert(k, v) PROVE Slack'
    <2>1. /\ ~Resizing /\ UNCHANGED <<capacity, resize>>
          /\ count' = count \/ count' = count + 1
        BY <1>2 DEF Update, Insert, Admits
    <2>. QED BY <1>0, <2>1 DEF Slack, resize, Resizing
<1>3. ASSUME NEW k \in Keys, Remove(k) PROVE Slack'
    <2>1. /\ ~Resizing /\ capacity' = capacity /\ count' = count - 1
          /\ IF TooEmpty(count - 1) THEN BeginResize(Half) ELSE UNCHANGED resize
        BY <1>3 DEF Remove
    <2>2. count' \in Nat
        BY <1>3 DEF CountInv, TypeOK
    <2>3. capacity = MinCapacity \/ 4 * count > capacity
        BY <2>1 DEF Slack
    <2>4. CASE TooEmpty(count - 1)
        <3>1. /\ Half \in Capacities /\ Half \in Nat /\ capacity = 2 * Half
              /\ capacity > MinCapacity /\ 4 * (count - 1) <= capacity
            BY <2>4, HalfFacts DEF TooEmpty
        <3>2. count' < Half
            BY <1>0, <2>1, <3>1
        <3>3. Resizing' /\ room' = Half
            BY <2>1, <2>4, <3>1, <3>2, Begins
        <3>4. Half = MinCapacity \/ \E p \in Capacities : Half = 2 * p
            BY <3>1, CapacityFacts
        <3>5. Half = MinCapacity \/ Half >= 8
            <4>1. ASSUME NEW p \in Capacities, Half = 2 * p PROVE Half >= 8
                <5>1. p \in Nat /\ p >= MinCapacity
                    BY CapacityFacts
                <5>. QED BY <4>1, <5>1, Minimum
            <4>. QED BY <3>4, <4>1
        <3>. QED BY <1>0, <2>1, <2>2, <2>3, <3>1, <3>3, <3>5 DEF Slack
    <2>5. CASE ~TooEmpty(count - 1)
        <3>1. ~Resizing'
            BY <2>1, <2>5 DEF resize, Resizing
        <3>2. PICK c \in Nat : c = count' /\ c = count - 1
            BY <2>1, <2>2
        <3>3. ~(capacity > MinCapacity /\ c > 0 /\ 4 * c <= capacity)
            BY <2>5, <3>2 DEF TooEmpty
        <3>4. capacity = MinCapacity \/ 4 * c > capacity
            <4>1. capacity >= MinCapacity
                BY DEF CountInv, TypeOK
            <4>. QED BY <1>0, <2>3, <3>2, <3>3, <4>1, Minimum
        <3>. QED BY <2>1, <3>1, <3>2, <3>4 DEF Slack
    <2>. QED BY <2>4, <2>5
<1>4. CASE Rehash
    BY <1>4, RehashFacts DEF Slack
<1>5. CASE EndResize
    BY <1>5 DEF Slack, EndResize, Resizing
<1>6. CASE UNCHANGED vars
    BY <1>6 DEF vars, Slack, Resizing
<1>. QED BY <1>1, <1>2, <1>3, <1>4, <1>5, <1>6 DEF FaultyNext, Next, InsertFails

(* A resize leaves the table well inside both thresholds, whatever the     *)
(* smallest capacity (when a halving cannot fail, as an earlier one that   *)
(* failed leaves a table that is emptier than it may be).                  *)
THEOREM ResizeLeavesSlackCorrect == ~MallocMayFail => (Spec => ResizeLeavesSlack)
<1>. SUFFICES ASSUME ~MallocMayFail PROVE Spec => ResizeLeavesSlack
    OBVIOUS
<1>1. CountInv /\ CountInv' /\ Slack /\ [FaultyNext]_vars => Slack'
    BY NextSlack
<1>2. CountInv /\ Slack /\ [FaultyNext]_vars =>
          [capacity' # capacity =>
              /\ 4 * count' < 3 * capacity'
              /\ capacity' = MinCapacity \/ 4 * count' > capacity']_vars
    <2>. SUFFICES ASSUME Slack, [FaultyNext]_vars, capacity' # capacity
                  PROVE  /\ 4 * count' < 3 * capacity'
                         /\ capacity' = MinCapacity \/ 4 * count' > capacity'
        OBVIOUS
    <2>1. EndResize
        BY DEF FaultyNext, Next, Grow, Update, Insert, InsertFails, Remove, Rehash, vars
    <2>. QED BY <2>1 DEF EndResize, Slack
<1>. QED BY <1>1, <1>2, CountInvariant, NoFaults, InitSlack, PTL
         DEF Spec, FaultySpec, ResizeLeavesSlack

-----------------------------------------------------------------------------
(* Finding: a table in which every key is stored once, on the way of its   *)
(* probe, with a value.                                                    *)
UniqueIn(T, n) ==
    \A r, s \in 0..(n - 1) : T[r].key \in Keys /\ T[r].key = T[s].key => r = s

OnTheWay(T, n, k, s) ==
    \E d \in 0..(n - 1) : /\ s = At(Hash[k], d, n)
                          /\ \A e \in 0..(d - 1) : T[At(Hash[k], e, n)].key # Null

ProbedIn(T, n) == \A s \in 0..(n - 1) : T[s].key \in Keys => OnTheWay(T, n, T[s].key, s)

ValuedIn(T, n) == \A s \in 0..(n - 1) : T[s].key \in Keys => T[s].value \in Vals

(* The table a resize fills holds what it has passed of the old one. *)
Copied ==
    /\ \A s \in 0..(room - 1) : fresh[s].key \in Keys =>
          \E c \in 0..(cursor - 1) : fresh[s] = entries[c]
    /\ \A c \in 0..(cursor - 1) : entries[c].key \in Keys =>
          \E s \in 0..(room - 1) : fresh[s] = entries[c]

FindInv ==
    /\ UniqueIn(entries, capacity) /\ ProbedIn(entries, capacity)
    /\ ValuedIn(entries, capacity)
    /\ Resizing => UniqueIn(fresh, room) /\ ProbedIn(fresh, room) /\ Copied

MapInv == CountInv /\ FindInv

(* What a lookup finds is what is stored. *)
LookupSays ==
    \A k \in Keys :
        /\ \A s \in 0..(capacity - 1) :
              entries[s].key = k => Found(k) /\ Lookup(k) = entries[s].value
        /\ (\A s \in 0..(capacity - 1) : entries[s].key # k) => ~Found(k) /\ Lookup(k) = Missing

LEMMA LookupIs == MapInv => LookupSays
<1>. SUFFICES ASSUME MapInv, NEW k \in Keys
              PROVE  /\ \A s \in 0..(capacity - 1) :
                            entries[s].key = k => Found(k) /\ Lookup(k) = entries[s].value
                     /\ (\A s \in 0..(capacity - 1) : entries[s].key # k) =>
                            ~Found(k) /\ Lookup(k) = Missing
    BY DEF LookupSays
<1>1. CountInv /\ UniqueIn(entries, capacity) /\ ProbedIn(entries, capacity)
    BY DEF MapInv, FindInv
<1>2. /\ capacity \in Nat \ {0} /\ Hash[k] \in Nat
      /\ \A d \in Dist : At(Hash[k], d, capacity) \in 0..(capacity - 1)
    BY <1>1, CountFacts, KeyTypes
<1>3. ASSUME NEW s \in 0..(capacity - 1), entries[s].key = k
      PROVE  Found(k) /\ Lookup(k) = entries[s].value
    <2>1. PICK d \in Dist :
              /\ s = At(Hash[k], d, capacity)
              /\ \A e \in 0..(d - 1) : entries[At(Hash[k], e, capacity)].key # Null
        BY <1>1, <1>3 DEF ProbedIn, OnTheWay, Dist
    <2>2. ASSUME NEW e \in Dist, KeyAt(k, e) = k
          PROVE  e = d
        <3>1. At(Hash[k], e, capacity) = s
            BY <1>1, <1>2, <1>3, <2>2 DEF UniqueIn, KeyAt
        <3>. QED BY <1>2, <2>1, <3>1, ProbeOnce DEF Dist
    <2>3. \A e \in 0..(d - 1) : e \in Dist /\ e # d
        BY <1>2 DEF Dist
    <2>4. Hit(k, d)
        BY <1>3, <2>1, <2>2, <2>3 DEF Hit, KeyAt
    <2>5. PICK c \in Dist : Hit(k, c) /\ c = CHOOSE x \in Dist : Hit(k, x)
        BY <2>4
    <2>6. c = d
        BY <2>2, <2>5 DEF Hit
    <2>. QED BY <2>1, <2>4, <2>5, <2>6 DEF Found, Lookup
<1>4. ASSUME \A s \in 0..(capacity - 1) : entries[s].key # k
      PROVE  ~Found(k) /\ Lookup(k) = Missing
    <2>1. ~Found(k)
        BY <1>2, <1>4 DEF Found, Hit, KeyAt
    <2>. QED BY <2>1 DEF Lookup
<1>. QED BY <1>3, <1>4

LEMMA LookupIsPrimed == MapInv' => LookupSays'
<1>. QED BY LookupIs, PTL

-----------------------------------------------------------------------------
(* Storing an entry keeps these, if its key is stored nowhere else and the *)
(* slot is on the key's way.                                               *)
LEMMA StoreUnique ==
    ASSUME NEW n \in Nat, NEW T \in [0..(n - 1) -> Entry], NEW a \in 0..(n - 1),
           NEW entry \in Entry, UniqueIn(T, n),
           entry.key \in Keys => \A s \in 0..(n - 1) : s # a => T[s].key # entry.key
    PROVE  UniqueIn(Store(T, a, entry), n)
<1>. DEFINE U == Store(T, a, entry)
<1>1. U[a] = entry /\ \A s \in 0..(n - 1) : s # a => U[s] = T[s]
    BY DEF Store
<1>. HIDE DEF U
<1>2. UniqueIn(U, n)
    BY <1>1 DEF UniqueIn
<1>. QED BY <1>2 DEF U

LEMMA StoreProbed ==
    ASSUME NEW n \in Nat \ {0}, NEW T \in [0..(n - 1) -> Entry], NEW a \in 0..(n - 1),
           NEW entry \in Entry, ProbedIn(T, n), entry.key # Null,
           entry.key \in Keys => OnTheWay(T, n, entry.key, a)
    PROVE  ProbedIn(Store(T, a, entry), n)
<1>. DEFINE U == Store(T, a, entry)
<1>1. U[a] = entry /\ \A s \in 0..(n - 1) : s # a => U[s] = T[s]
    BY DEF Store
<1>. HIDE DEF U
<1>2. \A s \in 0..(n - 1) : T[s].key # Null => U[s].key # Null
    BY <1>1
<1>3. ASSUME NEW k \in Keys, NEW s \in 0..(n - 1), OnTheWay(T, n, k, s)
      PROVE  OnTheWay(U, n, k, s)
    <2>1. PICK d \in 0..(n - 1) :
              /\ s = At(Hash[k], d, n)
              /\ \A e \in 0..(d - 1) : T[At(Hash[k], e, n)].key # Null
        BY <1>3 DEF OnTheWay
    <2>2. ASSUME NEW e \in 0..(d - 1)
          PROVE  At(Hash[k], e, n) \in 0..(n - 1)
        <3>1. e \in Nat /\ Hash[k] \in Nat
            BY HashMapAssumption
        <3>. QED BY <3>1, SlotIn
    <2>3. \A e \in 0..(d - 1) : U[At(Hash[k], e, n)].key # Null
        BY <1>2, <2>1, <2>2
    <2>. QED BY <2>1, <2>3 DEF OnTheWay
<1>4. ASSUME NEW s \in 0..(n - 1), U[s].key \in Keys
      PROVE  OnTheWay(U, n, U[s].key, s)
    <2>1. CASE s = a
        BY <1>1, <1>3, <1>4, <2>1
    <2>2. CASE s # a
        <3>1. U[s] = T[s] /\ OnTheWay(T, n, T[s].key, s)
            BY <1>1, <1>4, <2>2 DEF ProbedIn
        <3>. QED BY <1>3, <1>4, <3>1
    <2>. QED BY <2>1, <2>2
<1>5. ProbedIn(U, n)
    BY <1>4 DEF ProbedIn
<1>. QED BY <1>5 DEF U

LEMMA StoreValued ==
    ASSUME NEW n \in Nat, NEW T \in [0..(n - 1) -> Entry], NEW a \in 0..(n - 1),
           NEW entry \in Entry, ValuedIn(T, n), entry.key \in Keys => entry.value \in Vals
    PROVE  ValuedIn(Store(T, a, entry), n)
BY DEF ValuedIn, Store

-----------------------------------------------------------------------------
LEMMA BlankFind ==
    ASSUME NEW n \in Nat
    PROVE  /\ UniqueIn(Blank(n), n) /\ ProbedIn(Blank(n), n) /\ ValuedIn(Blank(n), n)
           /\ \A s \in 0..(n - 1) : Blank(n)[s].key \notin Keys
BY EntriesTyped DEF UniqueIn, ProbedIn, ValuedIn, Blank

LEMMA InitFind == Init => FindInv
<1>. SUFFICES ASSUME Init PROVE FindInv
    OBVIOUS
<1>1. capacity = MinCapacity /\ entries = Blank(MinCapacity) /\ ~Resizing
    BY DEF Init, Resizing
<1>. QED BY <1>1, Minimum, BlankFind DEF FindInv

(* A resize begins with nothing passed and nothing copied. *)
LEMMA BeginsFind ==
    ASSUME NEW n \in Nat, BeginResize(n)
    PROVE  UniqueIn(fresh', room') /\ ProbedIn(fresh', room') /\ Copied'
<1>1. fresh' = Blank(n) /\ room' = n /\ cursor' = 0
    BY DEF BeginResize
<1>2. UniqueIn(fresh', room') /\ ProbedIn(fresh', room')
    BY <1>1, BlankFind
<1>3. \A s \in 0..(room' - 1) : fresh'[s].key \notin Keys
    BY <1>1, BlankFind
<1>4. Copied'
    BY <1>1, <1>3 DEF Copied
<1>. QED BY <1>2, <1>4

LEMMA GrowFind ==
    ASSUME MapInv, NEW k \in Keys, NEW v \in Vals, Grow(k, v)
    PROVE  FindInv'
<1>1. BeginResize(2 * capacity) /\ entries' = entries /\ capacity' = capacity
    BY DEF Grow
<1>2. 2 * capacity \in Nat
    BY CountFacts DEF MapInv
<1>3. UniqueIn(fresh', room') /\ ProbedIn(fresh', room') /\ Copied'
    BY <1>1, <1>2, BeginsFind
<1>. QED BY <1>1, <1>3 DEF MapInv, FindInv

(* The slot in which a put or a remove finds its key. *)
LEMMA HitSlot ==
    ASSUME MapInv, NEW k \in Keys, NEW d \in Dist, Hit(k, d)
    PROVE  /\ At(Hash[k], d, capacity) \in 0..(capacity - 1)
           /\ entries[At(Hash[k], d, capacity)].key = k
           /\ entries[At(Hash[k], d, capacity)] \in Entry
           /\ OnTheWay(entries, capacity, k, At(Hash[k], d, capacity))
           /\ \A s \in 0..(capacity - 1) :
                 s # At(Hash[k], d, capacity) => entries[s].key # k
<1>1. At(Hash[k], d, capacity) \in 0..(capacity - 1)
    BY KeyTypes DEF MapInv
<1>2. entries[At(Hash[k], d, capacity)].key = k
    BY DEF Hit, KeyAt
<1>3. OnTheWay(entries, capacity, k, At(Hash[k], d, capacity))
    BY DEF OnTheWay, Hit, KeyAt, Dist
<1>4. entries[At(Hash[k], d, capacity)] \in Entry
    BY <1>1, CountFacts DEF MapInv
<1>. QED BY <1>1, <1>2, <1>3, <1>4 DEF MapInv, FindInv, UniqueIn

(* What Update, Insert and Remove do, each to one slot. *)
Updates(k, v, a) ==
    /\ ~Resizing /\ entries' = Store(entries, a, [key |-> k, value |-> v])
    /\ UNCHANGED <<capacity, count, resize>>
    /\ entries[a].key = k

LEMMA UpdateFacts ==
    ASSUME MapInv, NEW k \in Keys, NEW v \in Vals, Update(k, v)
    PROVE  \E a \in 0..(capacity - 1) :
               /\ Updates(k, v, a) /\ OnTheWay(entries, capacity, k, a)
               /\ \A s \in 0..(capacity - 1) : s # a => entries[s].key # k
<1>1. PICK d \in Dist :
          /\ Hit(k, d)
          /\ entries' = [entries EXCEPT ![At(Hash[k], d, capacity)].value = v]
    BY DEF Update
<1>2. PICK a \in 0..(capacity - 1) :
          /\ a = At(Hash[k], d, capacity) /\ entries[a].key = k /\ entries[a] \in Entry
          /\ OnTheWay(entries, capacity, k, a)
          /\ \A s \in 0..(capacity - 1) : s # a => entries[s].key # k
    BY <1>1, HitSlot
<1>3. [entries[a] EXCEPT !.value = v] = [key |-> k, value |-> v]
    BY <1>2 DEF Entry
<1>4. entries' = Store(entries, a, [key |-> k, value |-> v])
    BY <1>1, <1>2, <1>3 DEF Store
<1>5. ~Resizing /\ UNCHANGED <<capacity, count, resize>>
    BY DEF Update, Admits
<1>. QED BY <1>2, <1>4, <1>5 DEF Updates

Inserts(k, v, a) ==
    /\ ~Resizing /\ entries' = Store(entries, a, [key |-> k, value |-> v])
    /\ UNCHANGED <<capacity, resize>> /\ count' = count + 1
    /\ entries[a].key \in {Null, Tomb}

LEMMA InsertFacts ==
    ASSUME MapInv, NEW k \in Keys, NEW v \in Vals, Insert(k, v)
    PROVE  /\ \E a \in 0..(capacity - 1) :
                  Inserts(k, v, a) /\ OnTheWay(entries, capacity, k, a)
           /\ \A s \in 0..(capacity - 1) : entries[s].key # k
<1>1. PICK d \in Dist :
          /\ InsertsAt(k, d)
          /\ entries' = [entries EXCEPT ![At(Hash[k], d, capacity)] = [key |-> k, value |-> v]]
    BY DEF Insert
<1>2. PICK a \in 0..(capacity - 1) : a = At(Hash[k], d, capacity)
    BY KeyTypes DEF MapInv
<1>3. entries[a].key \in {Null, Tomb}
    BY <1>1, <1>2, PutsHaveRoom DEF MapInv, KeyAt
<1>4. Reaches(k, d)
    BY <1>1 DEF InsertsAt, PassesTombAt, Reaches
<1>5. OnTheWay(entries, capacity, k, a)
    BY <1>2, <1>4 DEF OnTheWay, Reaches, KeyAt, Dist
<1>6. entries' = Store(entries, a, [key |-> k, value |-> v])
    BY <1>1, <1>2 DEF Store
<1>7. /\ ~Resizing /\ UNCHANGED <<capacity, resize>> /\ count' = count + 1
      /\ ~Found(k)
    BY DEF Insert, Admits
<1>8. \A s \in 0..(capacity - 1) : entries[s].key # k
    BY <1>7, LookupIs DEF LookupSays
<1>. QED BY <1>3, <1>5, <1>6, <1>7, <1>8 DEF Inserts

Removes(k, a) ==
    /\ ~Resizing /\ entries' = Store(entries, a, Tombstone)
    /\ capacity' = capacity /\ count' = count - 1
    /\ entries[a].key = k
    /\ BeginResize(Half) \/ UNCHANGED resize

LEMMA RemoveFacts ==
    ASSUME MapInv, NEW k \in Keys, Remove(k)
    PROVE  \E a \in 0..(capacity - 1) :
               /\ Removes(k, a)
               /\ \A s \in 0..(capacity - 1) : s # a => entries[s].key # k
<1>1. PICK d \in Dist :
          /\ Hit(k, d)
          /\ entries' = [entries EXCEPT ![At(Hash[k], d, capacity)] = Tombstone]
    BY DEF Remove
<1>2. PICK a \in 0..(capacity - 1) :
          /\ a = At(Hash[k], d, capacity) /\ entries[a].key = k
          /\ \A s \in 0..(capacity - 1) : s # a => entries[s].key # k
    BY <1>1, HitSlot
<1>3. /\ ~Resizing /\ capacity' = capacity /\ count' = count - 1
      /\ BeginResize(Half) \/ UNCHANGED resize
    BY DEF Remove
<1>4. entries' = Store(entries, a, Tombstone)
    BY <1>1, <1>2 DEF Store
<1>. QED BY <1>2, <1>3, <1>4 DEF Removes

(* So each keeps the table as a lookup needs it. *)
LEMMA StoreFind ==
    ASSUME MapInv, NEW a \in 0..(capacity - 1), NEW entry \in Entry,
           entries' = Store(entries, a, entry), capacity' = capacity,
           entry.key # Null,
           entry.key \in Keys => /\ entry.value \in Vals
                                 /\ OnTheWay(entries, capacity, entry.key, a)
                                 /\ \A s \in 0..(capacity - 1) :
                                       s # a => entries[s].key # entry.key
    PROVE  /\ UniqueIn(entries', capacity') /\ ProbedIn(entries', capacity')
           /\ ValuedIn(entries', capacity')
<1>1. /\ capacity \in Nat \ {0} /\ entries \in [0..(capacity - 1) -> Entry]
      /\ UniqueIn(entries, capacity) /\ ProbedIn(entries, capacity)
      /\ ValuedIn(entries, capacity)
    BY CountFacts DEF MapInv, FindInv
<1>2. UniqueIn(Store(entries, a, entry), capacity)
    BY <1>1, StoreUnique
<1>3. ProbedIn(Store(entries, a, entry), capacity)
    BY <1>1, StoreProbed
<1>4. ValuedIn(Store(entries, a, entry), capacity)
    BY <1>1, StoreValued
<1>. QED BY <1>2, <1>3, <1>4

LEMMA PutFind ==
    ASSUME MapInv, NEW k \in Keys, NEW v \in Vals, Update(k, v) \/ Insert(k, v)
    PROVE  FindInv'
<1>1. PICK a \in 0..(capacity - 1) :
          /\ ~Resizing /\ entries' = Store(entries, a, [key |-> k, value |-> v])
          /\ capacity' = capacity /\ UNCHANGED resize
          /\ OnTheWay(entries, capacity, k, a)
          /\ \A s \in 0..(capacity - 1) : s # a => entries[s].key # k
    <2>1. CASE Update(k, v)
        BY <2>1, UpdateFacts DEF Updates
    <2>2. CASE Insert(k, v)
        BY <2>2, InsertFacts DEF Inserts
    <2>. QED BY <2>1, <2>2
<1>. DEFINE entry == [key |-> k, value |-> v]
<1>2. entry \in Entry /\ entry.key = k /\ entry.value = v /\ k # Null
    BY EntriesTyped, HashMapAssumption
<1>3. entries' = Store(entries, a, entry)
    BY <1>1
<1>. HIDE DEF entry
<1>4. /\ UniqueIn(entries', capacity') /\ ProbedIn(entries', capacity')
      /\ ValuedIn(entries', capacity')
    BY <1>1, <1>2, <1>3, StoreFind
<1>5. ~Resizing'
    BY <1>1 DEF resize, Resizing
<1>. QED BY <1>4, <1>5 DEF FindInv

LEMMA RemoveFind ==
    ASSUME MapInv, NEW k \in Keys, Remove(k)
    PROVE  FindInv'
<1>1. PICK a \in 0..(capacity - 1) : Removes(k, a)
    BY RemoveFacts
<1>2. /\ UniqueIn(entries', capacity') /\ ProbedIn(entries', capacity')
      /\ ValuedIn(entries', capacity')
    <2>1. entries' = Store(entries, a, Tombstone) /\ capacity' = capacity
        BY <1>1 DEF Removes
    <2>2. Tombstone \in Entry /\ Tombstone.key \notin Keys /\ Tombstone.key # Null
        BY EntriesTyped, HashMapAssumption
    <2>. QED BY <2>1, <2>2, StoreFind
<1>3. CASE UNCHANGED resize
    <2>1. ~Resizing'
        BY <1>1, <1>3 DEF Removes, resize, Resizing
    <2>. QED BY <1>2, <2>1 DEF FindInv
<1>4. CASE BeginResize(Half)
    <2>1. Half \in Nat
        BY CountFacts, Minimum DEF MapInv, Half
    <2>2. UniqueIn(fresh', room') /\ ProbedIn(fresh', room') /\ Copied'
        BY <1>4, <2>1, BeginsFind
    <2>. QED BY <1>2, <2>2 DEF FindInv
<1>. QED BY <1>1, <1>3, <1>4 DEF Removes

LEMMA RehashFind == ASSUME MapInv, Rehash PROVE FindInv'
<1>1. /\ Resizing /\ Resizing' /\ cursor \in 0..(capacity - 1) /\ cursor' = cursor + 1
      /\ UNCHANGED <<entries, capacity, room>> /\ entries[cursor] \in Entry
      /\ \/ RehashLeaves
         \/ \E a \in 0..(room - 1) :
               /\ RehashMoves(a)
               /\ \E hash \in HashOf(entries[cursor]), d \in 0..(room - 1) :
                     /\ a = At(hash, d, room)
                     /\ \A e \in 0..(d - 1) : ~FreeIn(At(hash, e, room))
    BY RehashFacts DEF MapInv
<1>2. /\ UniqueIn(entries, capacity) /\ UniqueIn(fresh, room) /\ ProbedIn(fresh, room)
      /\ Copied /\ cursor \in Nat /\ capacity \in Nat
      /\ room \in Nat \ {0} /\ fresh \in [0..(room - 1) -> Entry]
    BY <1>1, ResizeFacts, CountFacts DEF MapInv, FindInv
<1>3. \A c \in 0..((cursor + 1) - 1) : c = cursor \/ c \in 0..(cursor - 1)
    BY <1>2
<1>4. \A c \in 0..(cursor - 1) : c \in 0..((cursor + 1) - 1)
    BY <1>2
<1>5. UniqueIn(fresh', room') /\ ProbedIn(fresh', room') /\ Copied'
    <2>1. CASE RehashLeaves
        <3>1. fresh' = fresh /\ entries[cursor].key \notin Keys
            BY <2>1, HashMapAssumption DEF RehashLeaves
        <3>2. Copied'
            BY <1>1, <1>2, <1>3, <1>4, <3>1 DEF Copied
        <3>. QED BY <1>1, <1>2, <3>1, <3>2
    <2>2. ASSUME NEW a \in 0..(room - 1), RehashMoves(a),
                 NEW hash \in HashOf(entries[cursor]), NEW d \in 0..(room - 1),
                 a = At(hash, d, room),
                 \A e \in 0..(d - 1) : ~FreeIn(At(hash, e, room))
          PROVE  UniqueIn(fresh', room') /\ ProbedIn(fresh', room') /\ Copied'
        <3>. DEFINE entry == entries[cursor]
        <3>1. /\ fresh' = Store(fresh, a, entry) /\ entry.key # Null
              /\ fresh[a].key \notin Keys /\ entry \in Entry
            BY <1>1, <2>2, HashMapAssumption DEF RehashMoves
        <3>2. entry.key \in Keys => OnTheWay(fresh, room, entry.key, a)
            <4>1. SUFFICES ASSUME entry.key \in Keys PROVE OnTheWay(fresh, room, entry.key, a)
                OBVIOUS
            <4>2. hash = Hash[entry.key]
                BY <2>2, <4>1, HashMapAssumption DEF HashOf
            <4>. QED BY <2>2, <4>2 DEF OnTheWay, FreeIn
        <3>3. entry.key \in Keys => \A s \in 0..(room - 1) : s # a => fresh[s].key # entry.key
            <4>1. ASSUME entry.key \in Keys, NEW s \in 0..(room - 1), fresh[s].key = entry.key
                  PROVE  FALSE
                <5>1. PICK c \in 0..(cursor - 1) : fresh[s] = entries[c]
                    BY <1>2, <4>1 DEF Copied
                <5>2. c \in 0..(capacity - 1) /\ c # cursor
                    BY <1>1, <1>2
                <5>. QED BY <1>1, <1>2, <4>1, <5>1, <5>2 DEF UniqueIn
            <4>. QED BY <4>1
        <3>4. \A c \in 0..(cursor - 1) : entries[c].key \in Keys =>
                  \E s \in 0..(room - 1) : s # a /\ fresh[s] = entries[c]
            BY <1>2, <3>1 DEF Copied
        <3>. HIDE DEF entry
        <3>5. UniqueIn(Store(fresh, a, entry), room)
            BY <1>2, <3>1, <3>3, StoreUnique
        <3>6. ProbedIn(Store(fresh, a, entry), room)
            BY <1>2, <3>1, <3>2, StoreProbed
        <3>7. fresh'[a] = entry /\ \A s \in 0..(room - 1) : s # a => fresh'[s] = fresh[s]
            BY <1>2, <3>1 DEF Store
        <3>8. \A s \in 0..(room - 1) : fresh'[s].key \in Keys =>
                  \E c \in 0..((cursor + 1) - 1) : fresh'[s] = entries[c]
            <4>1. ASSUME NEW s \in 0..(room - 1), fresh'[s].key \in Keys
                  PROVE  \E c \in 0..((cursor + 1) - 1) : fresh'[s] = entries[c]
                <5>1. CASE s = a
                    <6>1. cursor \in 0..((cursor + 1) - 1)
                        BY <1>2
                    <6>. QED BY <3>7, <5>1, <6>1 DEF entry
                <5>2. CASE s # a
                    <6>1. PICK c \in 0..(cursor - 1) : fresh[s] = entries[c]
                        BY <1>2, <3>7, <4>1, <5>2 DEF Copied
                    <6>. QED BY <1>4, <3>7, <5>2, <6>1
                <5>. QED BY <5>1, <5>2
            <4>. QED BY <4>1
        <3>9. \A c \in 0..((cursor + 1) - 1) : entries[c].key \in Keys =>
                  \E s \in 0..(room - 1) : fresh'[s] = entries[c]
            BY <1>3, <3>4, <3>7 DEF entry
        <3>10. Copied'
            BY <1>1, <3>8, <3>9 DEF Copied
        <3>. QED BY <1>1, <3>1, <3>5, <3>6, <3>10
    <2>. QED BY <1>1, <2>1, <2>2
<1>6. FindInv
    BY DEF MapInv
<1>. QED BY <1>1, <1>5, <1>6 DEF FindInv

LEMMA EndResizeFind == ASSUME MapInv, EndResize PROVE FindInv'
<1>1. /\ Resizing /\ ~Resizing' /\ cursor = capacity /\ entries' = fresh /\ capacity' = room
    BY DEF EndResize, Resizing
<1>2. /\ UniqueIn(fresh, room) /\ ProbedIn(fresh, room) /\ Copied
      /\ ValuedIn(entries, capacity)
    BY <1>1 DEF MapInv, FindInv
<1>3. ValuedIn(fresh, room)
    BY <1>1, <1>2 DEF Copied, ValuedIn
<1>. QED BY <1>1, <1>2, <1>3 DEF FindInv

LEMMA NextMap == MapInv /\ [Next]_vars => MapInv'
<1>. SUFFICES ASSUME MapInv, [Next]_vars PROVE MapInv'
    OBVIOUS
<1>1. CountInv'
    BY NextCount DEF MapInv, FaultyNext
<1>2. ASSUME NEW k \in Keys, NEW v \in Vals, Grow(k, v) \/ Update(k, v) \/ Insert(k, v)
      PROVE  FindInv'
    BY <1>2, GrowFind, PutFind
<1>3. ASSUME NEW k \in Keys, Remove(k) PROVE FindInv'
    BY <1>3, RemoveFind
<1>4. CASE Rehash \/ EndResize
    BY <1>1, <1>4, RehashFind, EndResizeFind DEF MapInv
<1>5. CASE UNCHANGED vars
    BY <1>1, <1>5 DEF vars, MapInv, FindInv, Copied, Resizing
<1>. QED BY <1>1, <1>2, <1>3, <1>4, <1>5 DEF MapInv, Next

LEMMA MapInvariant == Spec => []MapInv
<1>1. Init => MapInv
    BY InitCount, InitFind DEF MapInv
<1>. QED BY <1>1, NextMap, PTL DEF Spec

(* hash_map_get finds every key that is in the table, through tombstones,  *)
(* collisions that wrap round the end and resizes that move tombstones as  *)
(* well as keys, whatever the keys and the tombstones hash to.  (When an   *)
(* allocation inside put fails this is false: see MCHashMapLost.)          *)
THEOREM StoredKeysAreFoundCorrect == Spec => []StoredKeysAreFound
<1>1. MapInv => StoredKeysAreFound
    BY LookupIs DEF LookupSays, StoredKeysAreFound, LiveSlots
<1>. QED BY MapInvariant, <1>1, PTL

-----------------------------------------------------------------------------
(* The map implements the dictionary. *)

(* A lookup of a key that the entry and the slot are not about.            *)
LEMMA OtherLookup ==
    ASSUME MapInv, LookupSays, LookupSays', capacity' = capacity,
           NEW a \in 0..(capacity - 1), NEW entry \in Entry, entries' = Store(entries, a, entry),
           NEW k \in Keys, entries[a].key # k, entry.key # k
    PROVE  Lookup(k)' = Lookup(k)
<1>1. entries \in [0..(capacity - 1) -> Entry]
    BY CountFacts DEF MapInv
<1>2. entries'[a] = entry /\ \A s \in 0..(capacity - 1) : s # a => entries'[s] = entries[s]
    BY <1>1 DEF Store
<1>3. CASE \E s \in 0..(capacity - 1) : entries[s].key = k
    <2>1. PICK s \in 0..(capacity - 1) : entries[s].key = k /\ s # a
        BY <1>3
    <2>2. entries'[s] = entries[s]
        BY <1>2, <2>1
    <2>3. Lookup(k) = entries[s].value
        BY <2>1 DEF LookupSays
    <2>4. Lookup(k)' = entries'[s].value
        BY <2>1, <2>2 DEF LookupSays
    <2>. QED BY <2>2, <2>3, <2>4
<1>4. CASE \A s \in 0..(capacity - 1) : entries[s].key # k
    <2>1. \A s \in 0..(capacity' - 1) : entries'[s].key # k
        BY <1>2, <1>4
    <2>2. Lookup(k) = Missing
        BY <1>4 DEF LookupSays
    <2>3. Lookup(k)' = Missing
        BY <2>1 DEF LookupSays
    <2>. QED BY <2>2, <2>3
<1>. QED BY <1>3, <1>4

Dict == [k \in Keys |-> Lookup(k)]

LEMMA InitImplements == Init => Abstract!Init
<1>. SUFFICES ASSUME Init PROVE Abstract!Init
    OBVIOUS
<1>1. MapInv /\ capacity = MinCapacity /\ entries = Blank(MinCapacity) /\ count = 0
    BY InitCount, InitFind DEF MapInv, Init
<1>2. \A s \in 0..(capacity - 1) : entries[s].key \notin Keys
    BY <1>1, Minimum, BlankFind
<1>3. \A k \in Keys : Lookup(k) = Missing
    BY <1>1, <1>2, LookupIs DEF LookupSays
<1>. QED BY <1>1, <1>3 DEF Abstract!Init

LEMMA UpdateImplements ==
    ASSUME MapInv, LookupSays, LookupSays', NEW k \in Keys, NEW v \in Vals, Update(k, v)
    PROVE  Abstract!Put(k, v)
<1>1. PICK a \in 0..(capacity - 1) :
          Updates(k, v, a) /\ \A s \in 0..(capacity - 1) : s # a => entries[s].key # k
    BY UpdateFacts
<1>. DEFINE entry == [key |-> k, value |-> v]
<1>2. entry \in Entry /\ entry.key = k /\ entry.value = v
    BY EntriesTyped
<1>3. /\ entries' = Store(entries, a, entry) /\ capacity' = capacity /\ count' = count
      /\ entries[a].key = k /\ entries \in [0..(capacity - 1) -> Entry]
    BY <1>1, CountFacts DEF Updates, MapInv
<1>. HIDE DEF entry
<1>4. entries'[a] = entry
    BY <1>3 DEF Store
<1>5. Lookup(k) = entries[a].value /\ entries[a].value \in Vals /\ Lookup(k)' = v
    BY <1>2, <1>3, <1>4 DEF LookupSays, MapInv, FindInv, ValuedIn
<1>6. \A j \in Keys : j # k => Lookup(j)' = Lookup(j)
    BY <1>2, <1>3, OtherLookup
<1>7. Dict' = [Dict EXCEPT ![k] = v] /\ Dict[k] # Missing
    BY <1>5, <1>6, HashMapAssumption DEF Dict
<1>. QED BY <1>3, <1>7 DEF Abstract!Put, Abstract!Has, Dict

LEMMA InsertImplements ==
    ASSUME MapInv, LookupSays, LookupSays', NEW k \in Keys, NEW v \in Vals, Insert(k, v)
    PROVE  Abstract!Put(k, v)
<1>1. PICK a \in 0..(capacity - 1) : Inserts(k, v, a)
    BY InsertFacts
<1>2. Lookup(k) = Missing
    BY InsertFacts DEF LookupSays
<1>. DEFINE entry == [key |-> k, value |-> v]
<1>3. entry \in Entry /\ entry.key = k /\ entry.value = v
    BY EntriesTyped
<1>4. /\ entries' = Store(entries, a, entry) /\ capacity' = capacity /\ count' = count + 1
      /\ entries[a].key \notin Keys /\ entries \in [0..(capacity - 1) -> Entry]
    BY <1>1, CountFacts, HashMapAssumption DEF Inserts, MapInv
<1>. HIDE DEF entry
<1>5. entries'[a] = entry
    BY <1>4 DEF Store
<1>6. Lookup(k)' = v
    BY <1>3, <1>4, <1>5 DEF LookupSays
<1>7. \A j \in Keys : j # k => Lookup(j)' = Lookup(j)
    BY <1>3, <1>4, OtherLookup
<1>8. Dict' = [Dict EXCEPT ![k] = v] /\ Dict[k] = Missing
    BY <1>2, <1>6, <1>7 DEF Dict
<1>. QED BY <1>4, <1>8 DEF Abstract!Put, Abstract!Has, Dict

LEMMA RemoveImplements ==
    ASSUME MapInv, LookupSays, LookupSays', NEW k \in Keys, Remove(k)
    PROVE  Abstract!Remove(k)
<1>1. PICK a \in 0..(capacity - 1) :
          Removes(k, a) /\ \A s \in 0..(capacity - 1) : s # a => entries[s].key # k
    BY RemoveFacts
<1>2. Tombstone \in Entry /\ Tombstone.key \notin Keys
    BY EntriesTyped
<1>3. /\ entries' = Store(entries, a, Tombstone) /\ capacity' = capacity /\ count' = count - 1
      /\ entries[a].key = k /\ entries \in [0..(capacity - 1) -> Entry]
    BY <1>1, CountFacts DEF Removes, MapInv
<1>4. entries'[a] = Tombstone /\ \A s \in 0..(capacity - 1) : s # a => entries'[s] = entries[s]
    BY <1>3 DEF Store
<1>5. Lookup(k) = entries[a].value /\ entries[a].value \in Vals
    BY <1>3 DEF LookupSays, MapInv, FindInv, ValuedIn
<1>6. Lookup(k)' = Missing
    <2>1. \A s \in 0..(capacity' - 1) : entries'[s].key # k
        BY <1>1, <1>2, <1>3, <1>4
    <2>. QED BY <2>1 DEF LookupSays
<1>7. \A j \in Keys : j # k => Lookup(j)' = Lookup(j)
    BY <1>2, <1>3, OtherLookup
<1>8. Dict' = [Dict EXCEPT ![k] = Missing] /\ Dict[k] # Missing
    BY <1>5, <1>6, <1>7, HashMapAssumption DEF Dict
<1>. QED BY <1>3, <1>8 DEF Abstract!Remove, Abstract!Has, Dict

LEMMA StutterImplements ==
    ASSUME UNCHANGED <<entries, capacity, count>>
    PROVE  UNCHANGED <<Dict, count>>
BY DEF Dict, Lookup, Found, Hit, KeyAt, Dist

LEMMA EndResizeImplements ==
    ASSUME MapInv, LookupSays, LookupSays', EndResize
    PROVE  UNCHANGED <<Dict, count>>
<1>1. /\ Resizing /\ cursor = capacity /\ entries' = fresh /\ capacity' = room /\ count' = count
    BY DEF EndResize
<1>2. Copied
    BY <1>1 DEF MapInv, FindInv
<1>3. ASSUME NEW k \in Keys PROVE Lookup(k)' = Lookup(k)
    <2>1. CASE \E s \in 0..(capacity - 1) : entries[s].key = k
        <3>1. PICK s \in 0..(capacity - 1) : entries[s].key = k
            BY <2>1
        <3>2. PICK r \in 0..(room - 1) : fresh[r] = entries[s]
            BY <1>1, <1>2, <3>1 DEF Copied
        <3>3. Lookup(k) = entries[s].value
            BY <3>1 DEF LookupSays
        <3>4. Lookup(k)' = entries'[r].value
            BY <1>1, <3>1, <3>2 DEF LookupSays
        <3>. QED BY <1>1, <3>2, <3>3, <3>4
    <2>2. CASE \A s \in 0..(capacity - 1) : entries[s].key # k
        <3>1. \A s \in 0..(capacity' - 1) : entries'[s].key # k
            BY <1>1, <1>2, <2>2 DEF Copied
        <3>2. Lookup(k) = Missing
            BY <2>2 DEF LookupSays
        <3>3. Lookup(k)' = Missing
            BY <3>1 DEF LookupSays
        <3>. QED BY <3>2, <3>3
    <2>. QED BY <2>1, <2>2
<1>. QED BY <1>1, <1>3 DEF Dict

LEMMA NextImplements ==
    MapInv /\ LookupSays /\ LookupSays' /\ [Next]_vars =>
        [Abstract!Next]_<<Dict, count>>
<1>. SUFFICES ASSUME MapInv, LookupSays, LookupSays', [Next]_vars
              PROVE  Abstract!Next \/ UNCHANGED <<Dict, count>>
    OBVIOUS
<1>1. ASSUME NEW k \in Keys, NEW v \in Vals, Grow(k, v)
      PROVE  UNCHANGED <<Dict, count>>
    BY <1>1, StutterImplements DEF Grow
<1>2. ASSUME NEW k \in Keys, NEW v \in Vals, Update(k, v) \/ Insert(k, v)
      PROVE  Abstract!Next
    BY <1>2, UpdateImplements, InsertImplements DEF Abstract!Next
<1>3. ASSUME NEW k \in Keys, Remove(k)
      PROVE  Abstract!Next
    BY <1>3, RemoveImplements DEF Abstract!Next
<1>4. CASE Rehash
    BY <1>4, StutterImplements DEF Rehash
<1>5. CASE EndResize
    BY <1>5, EndResizeImplements
<1>6. CASE UNCHANGED vars
    BY <1>6, StutterImplements DEF vars
<1>. QED BY <1>1, <1>2, <1>3, <1>4, <1>5, <1>6 DEF Next

(* Through get, put, remove and count the table is a dictionary: a pair    *)
(* stays, with its value, until its key is removed or put again, and a     *)
(* resize changes nothing a caller could see.                              *)
THEOREM ImplementsDictionary == Spec => IsDictionary
<1>1. Init => Abstract!Init
    BY InitImplements
<1>2. MapInv /\ MapInv' /\ [Next]_vars => [Abstract!Next]_<<Dict, count>>
    BY LookupIs, LookupIsPrimed, NextImplements
<1>. QED BY <1>1, <1>2, MapInvariant, PTL DEF Spec, IsDictionary, Abstract!Spec, Dict

-----------------------------------------------------------------------------
(* The iterator, over a map that changes under it and that may fail.       *)

(* The slots that hold k and were passed. *)
Passed(k) == {s \in SlotsOf(k) : s < index}

(* As long as the table is not replaced, a key that stays was given at     *)
(* most once for each slot that holds it and was passed; and if it was not *)
(* given yet, one of its slots is still ahead.                             *)
IterInv ==
    /\ index \in Nat \cup {NoIter} /\ given \in [Keys -> Nat] /\ steady \subseteq Keys
    /\ index = NoIter => steady = {}
    /\ index # NoIter /\ ~resized =>
          /\ index <= capacity
          /\ ended => index = capacity
          /\ \A k \in steady : /\ given[k] <= Cardinality(Passed(k))
                               /\ given[k] = 0 => \E s \in SlotsOf(k) : s >= index

LEMMA SlotsOfFacts ==
    ASSUME CountInv, NEW k \in Keys
    PROVE  /\ SlotsOf(k) = {s \in 0..(capacity - 1) : entries[s].key = k}
           /\ IsFiniteSet(SlotsOf(k)) /\ IsFiniteSet(Passed(k))
           /\ Cardinality(SlotsOf(k)) \in Nat /\ Cardinality(Passed(k)) \in Nat
           /\ Cardinality(Passed(k)) <= Cardinality(SlotsOf(k))
<1>1. SlotsOf(k) = {s \in 0..(capacity - 1) : entries[s].key = k}
    BY DEF SlotsOf, LiveSlots
<1>2. IsFiniteSet(0..(capacity - 1))
    BY CountFacts, FS_Interval
<1>3. IsFiniteSet(SlotsOf(k))
    BY <1>1, <1>2, FS_Subset
<1>4. Passed(k) \in SUBSET SlotsOf(k)
    BY DEF Passed
<1>5. IsFiniteSet(Passed(k)) /\ Cardinality(Passed(k)) <= Cardinality(SlotsOf(k))
    BY <1>3, <1>4, FS_Subset
<1>. QED BY <1>1, <1>3, <1>5, FS_CardinalityType

SlotsSay == \A k \in Keys :
    /\ SlotsOf(k) = {s \in 0..(capacity - 1) : entries[s].key = k}
    /\ IsFiniteSet(Passed(k)) /\ Cardinality(Passed(k)) \in Nat

LEMMA SlotsSaid == CountInv => SlotsSay
BY SlotsOfFacts DEF SlotsSay

LEMMA SlotsSaidPrimed == CountInv' => SlotsSay'
BY SlotsSaid, PTL

LEMMA SlotsOfPrimed == CountInv' => \A k \in Keys :
    /\ SlotsOf(k)' = {s \in 0..(capacity' - 1) : entries'[s].key = k}
    /\ IsFiniteSet(Passed(k)') /\ Cardinality(Passed(k)') \in Nat
BY SlotsSaidPrimed DEF SlotsSay

(* A key leaves a slot only when it is removed or the table is replaced.   *)
LEMMA SlotsStay ==
    ASSUME CountInv, FaultyNext, capacity' = capacity, NEW k \in Keys, ~Remove(k),
           NEW s \in 0..(capacity - 1), entries[s].key = k
    PROVE  entries'[s].key = k
<1>0. /\ capacity \in Nat \ {0} /\ capacity >= 4 /\ entries \in [0..(capacity - 1) -> Entry]
    BY CountFacts
<1>1. ASSUME NEW j \in Keys, NEW v \in Vals, Grow(j, v) PROVE entries'[s].key = k
    BY <1>1 DEF Grow
<1>2. ASSUME NEW j \in Keys, NEW v \in Vals, Update(j, v) PROVE entries'[s].key = k
    <2>1. PICK d \in Dist :
              entries' = [entries EXCEPT ![At(Hash[j], d, capacity)].value = v]
        BY <1>2 DEF Update
    <2>2. PICK a \in 0..(capacity - 1) : a = At(Hash[j], d, capacity)
        BY KeyTypes
    <2>3. entries' = [entries EXCEPT ![a].value = v]
        BY <2>1, <2>2
    <2>4. entries[s] \in Entry
        BY <1>0
    <2>5. entries'[s] = IF s = a THEN [entries[s] EXCEPT !.value = v] ELSE entries[s]
        BY <1>0, <2>3
    <2>. QED BY <2>4, <2>5 DEF Entry
<1>3. ASSUME NEW j \in Keys, NEW v \in Vals, Insert(j, v) \/ InsertFails(j, v)
      PROVE  entries'[s].key = k
    <2>1. PICK d \in Dist :
              /\ KeyAt(j, d) \in {Null, Tomb}
              /\ \E entry : entries' = [entries EXCEPT ![At(Hash[j], d, capacity)] = entry]
        <3>1. CASE Insert(j, v)
            BY <3>1, PutsHaveRoom DEF Insert
        <3>2. CASE InsertFails(j, v)
            BY <3>2 DEF InsertFails
        <3>. QED BY <1>3, <3>1, <3>2
    <2>2. At(Hash[j], d, capacity) # s
        BY <2>1, HashMapAssumption DEF KeyAt
    <2>. QED BY <1>0, <2>1, <2>2
<1>4. ASSUME NEW j \in Keys, Remove(j) PROVE entries'[s].key = k
    <2>1. PICK d \in Dist :
              /\ KeyAt(j, d) = j
              /\ entries' = [entries EXCEPT ![At(Hash[j], d, capacity)] = Tombstone]
        BY <1>4 DEF Remove, Hit
    <2>2. At(Hash[j], d, capacity) # s
        BY <1>4, <2>1 DEF KeyAt
    <2>. QED BY <1>0, <2>1, <2>2
<1>5. CASE Rehash
    BY <1>5 DEF Rehash
<1>6. CASE EndResize
    <2>1. capacity' = room /\ room \in Nat /\ (room = 2 * capacity \/ room = capacity \div 2)
        BY <1>6, ResizeFacts DEF EndResize
    <2>2. capacity' # capacity
        BY <1>0, <2>1
    <2>. QED BY <2>2
<1>. QED BY <1>1, <1>2, <1>3, <1>4, <1>5, <1>6 DEF FaultyNext, Next

LEMMA IterStarts == IterInit => IterInv
BY DEF IterInit, IterInv, NoIter

LEMMA CreateIter == ASSUME CountInv, CountInv', IterInv, Create PROVE IterInv'
<1>1. /\ index' = 0 /\ ended' = FALSE /\ given' = [k \in Keys |-> 0]
      /\ steady' = {entries[s].key : s \in LiveSlots} /\ resized' = FALSE
      /\ UNCHANGED vars
    BY DEF Create, Started
<1>2. entries' = entries /\ capacity' = capacity /\ capacity \in Nat
    BY <1>1, CountFacts DEF vars
<1>3. steady' \subseteq Keys
    BY <1>1 DEF LiveSlots
<1>4. ASSUME NEW k \in steady'
      PROVE  /\ given'[k] <= Cardinality(Passed(k)')
             /\ given'[k] = 0 => \E s \in SlotsOf(k)' : s >= index'
    <2>1. PICK s \in LiveSlots : k = entries[s].key
        BY <1>1
    <2>2. s \in SlotsOf(k)' /\ s >= 0
        BY <1>2, <2>1 DEF SlotsOf, LiveSlots
    <2>3. Cardinality(Passed(k)') \in Nat /\ given'[k] = 0
        BY <1>1, <1>3, SlotsOfPrimed
    <2>. QED BY <1>1, <2>2, <2>3
<1>. QED BY <1>1, <1>2, <1>3, <1>4 DEF IterInv, NoIter

LEMMA FreeIter == ASSUME IterInv, Free PROVE IterInv'
BY DEF Free, IterInv, NoIter

LEMMA IterNextIter == ASSUME CountInv, CountInv', IterInv, IterNext PROVE IterInv'
<1>1. PICK s \in LiveSlots :
          /\ s >= index /\ \A r \in index..(s - 1) : ~Live(r)
          /\ index' = s + 1
          /\ given' = [given EXCEPT ![entries[s].key] = @ + 1]
    BY DEF IterNext
<1>2. /\ index # NoIter /\ UNCHANGED <<vars, ended, steady, resized>>
    BY DEF IterNext
<1>3. /\ entries' = entries /\ capacity' = capacity /\ capacity \in Nat
      /\ s \in 0..(capacity - 1) /\ entries[s].key \in Keys
      /\ index \in Nat /\ given \in [Keys -> Nat] /\ steady \subseteq Keys
    BY <1>1, <1>2, CountFacts DEF vars, LiveSlots, IterInv
<1>4. index' \in Nat /\ index' # NoIter /\ given' \in [Keys -> Nat]
    BY <1>1, <1>3 DEF NoIter
<1>5. ASSUME ~resized
      PROVE  /\ index' <= capacity'
             /\ ended' => index' = capacity'
             /\ \A k \in steady' : /\ given'[k] <= Cardinality(Passed(k)')
                                   /\ given'[k] = 0 => \E r \in SlotsOf(k)' : r >= index'
    <2>1. /\ index <= capacity /\ ended => index = capacity
          /\ \A k \in steady : /\ given[k] <= Cardinality(Passed(k))
                               /\ given[k] = 0 => \E r \in SlotsOf(k) : r >= index
        BY <1>2, <1>5 DEF IterInv
    <2>2. ~ended /\ index' <= capacity'
        BY <1>1, <1>3, <2>1
    <2>3. ASSUME NEW k \in steady
          PROVE  /\ given'[k] <= Cardinality(Passed(k)')
                 /\ given'[k] = 0 => \E r \in SlotsOf(k)' : r >= index'
        <3>1. /\ k \in Keys /\ SlotsOf(k)' = SlotsOf(k)
              /\ SlotsOf(k) = {r \in 0..(capacity - 1) : entries[r].key = k}
              /\ IsFiniteSet(Passed(k)) /\ Cardinality(Passed(k)) \in Nat
              /\ IsFiniteSet(Passed(k)') /\ Cardinality(Passed(k)') \in Nat
            <4>1. k \in Keys
                BY <1>3
            <4>2. SlotsOf(k)' = SlotsOf(k)
                BY <1>3 DEF SlotsOf, LiveSlots
            <4>. QED BY <4>1, <4>2, SlotsOfFacts, SlotsOfPrimed
        <3>2. CASE k = entries[s].key
            <4>1. Passed(k)' = Passed(k) \cup {s} /\ s \notin Passed(k)
                <5>1. \A r \in SlotsOf(k) : r < s + 1 <=> r < index \/ r = s
                    <6>1. \A r \in SlotsOf(k) : ~(r \in index..(s - 1)) /\ r \in Nat
                        BY <1>1, <3>1 DEF Live
                    <6>. QED BY <1>1, <1>3, <6>1
                <5>2. s \in SlotsOf(k) /\ ~(s < index)
                    BY <1>1, <1>3, <3>1, <3>2
                <5>. QED BY <1>1, <3>1, <5>1, <5>2 DEF Passed
            <4>2. Cardinality(Passed(k)') = Cardinality(Passed(k)) + 1
                BY <3>1, <4>1, FS_AddElement
            <4>3. given'[k] = given[k] + 1 /\ given[k] \in Nat
                BY <1>1, <1>3, <3>1, <3>2
            <4>4. given[k] <= Cardinality(Passed(k))
                BY <2>1
            <4>. QED BY <3>1, <4>2, <4>3, <4>4
        <3>3. CASE k # entries[s].key
            <4>1. given'[k] = given[k] /\ given[k] \in Nat
                BY <1>1, <1>3, <3>1, <3>3
            <4>2. Passed(k) \in SUBSET Passed(k)'
                BY <1>1, <1>3, <3>1 DEF Passed
            <4>3. Cardinality(Passed(k)) <= Cardinality(Passed(k)')
                BY <3>1, <4>2, FS_Subset
            <4>4. ASSUME given[k] = 0
                  PROVE  \E r \in SlotsOf(k)' : r >= index'
                <5>1. PICK r \in SlotsOf(k) : r >= index
                    BY <2>1, <4>4
                <5>2. r \in Nat /\ r # s /\ ~(r \in index..(s - 1))
                    BY <1>1, <3>1, <3>3, <5>1 DEF Live
                <5>3. r >= s + 1
                    BY <1>3, <5>1, <5>2
                <5>. QED BY <1>1, <3>1, <5>3
            <4>5. given[k] <= Cardinality(Passed(k))
                BY <2>1
            <4>6. given[k] <= Cardinality(Passed(k)')
                BY <3>1, <4>1, <4>3, <4>5
            <4>. QED BY <4>1, <4>4, <4>6
        <3>. QED BY <3>2, <3>3
    <2>. QED BY <1>2, <2>2, <2>3
<1>. QED BY <1>2, <1>3, <1>4, <1>5 DEF IterInv

LEMMA IterEndsIter == ASSUME CountInv, CountInv', IterInv, IterEnds PROVE IterInv'
<1>1. /\ index # NoIter /\ \A s \in LiveSlots : s < index
      /\ index' = (IF index < capacity THEN capacity ELSE index)
      /\ UNCHANGED <<vars, given, steady, resized>>
    BY DEF IterEnds
<1>2. /\ entries' = entries /\ capacity' = capacity /\ capacity \in Nat
      /\ index \in Nat /\ given \in [Keys -> Nat] /\ steady \subseteq Keys
    BY <1>1, CountFacts DEF vars, IterInv
<1>3. index' \in Nat /\ index' # NoIter
    BY <1>1, <1>2 DEF NoIter
<1>4. ASSUME ~resized
      PROVE  /\ index' = capacity'
             /\ \A k \in steady' : /\ given'[k] <= Cardinality(Passed(k)')
                                   /\ given'[k] = 0 => \E r \in SlotsOf(k)' : r >= index'
    <2>1. /\ index <= capacity
          /\ \A k \in steady : /\ given[k] <= Cardinality(Passed(k))
                               /\ given[k] = 0 => \E r \in SlotsOf(k) : r >= index
        BY <1>1, <1>4 DEF IterInv
    <2>2. index' = capacity' /\ index' >= index
        BY <1>1, <1>2, <2>1
    <2>3. ASSUME NEW k \in steady
          PROVE  given[k] <= Cardinality(Passed(k)') /\ given[k] # 0
        <3>1. /\ k \in Keys /\ SlotsOf(k)' = SlotsOf(k) /\ SlotsOf(k) \subseteq LiveSlots
              /\ SlotsOf(k) = {r \in 0..(capacity - 1) : entries[r].key = k}
              /\ IsFiniteSet(Passed(k)) /\ Cardinality(Passed(k)) \in Nat
              /\ IsFiniteSet(Passed(k)') /\ Cardinality(Passed(k)') \in Nat
            <4>1. k \in Keys
                BY <1>2
            <4>2. SlotsOf(k)' = SlotsOf(k) /\ SlotsOf(k) \subseteq LiveSlots
                BY <1>2 DEF SlotsOf, LiveSlots
            <4>. QED BY <4>1, <4>2, SlotsOfFacts, SlotsOfPrimed
        <3>2. Passed(k) \in SUBSET Passed(k)'
            BY <1>2, <1>3, <2>2, <3>1 DEF Passed
        <3>3. Cardinality(Passed(k)) <= Cardinality(Passed(k)')
            BY <3>1, <3>2, FS_Subset
        <3>4. given[k] \in Nat /\ given[k] <= Cardinality(Passed(k))
            BY <1>2, <2>1, <3>1
        <3>5. given[k] # 0
            BY <1>1, <1>2, <2>1, <3>1
        <3>. QED BY <3>1, <3>3, <3>4, <3>5
    <2>. QED BY <1>1, <2>2, <2>3
<1>. QED BY <1>1, <1>2, <1>3, <1>4 DEF IterInv

LEMMA MapChangesIter == ASSUME CountInv, CountInv', IterInv, MapChanges PROVE IterInv'
<1>1. /\ FaultyNext /\ steady' = {k \in steady : ~Remove(k)}
      /\ resized' = (resized \/ (index # NoIter /\ capacity' # capacity))
      /\ UNCHANGED <<index, ended, given>>
    BY DEF MapChanges
<1>2. steady' \subseteq steady
    BY <1>1
<1>3. ASSUME index # NoIter, ~resized'
      PROVE  /\ index <= capacity' /\ ended => index = capacity'
             /\ \A k \in steady' : /\ given[k] <= Cardinality(Passed(k)')
                                   /\ given[k] = 0 => \E r \in SlotsOf(k)' : r >= index
    <2>1. ~resized /\ capacity' = capacity
        BY <1>1, <1>3
    <2>2. /\ index <= capacity /\ ended => index = capacity
          /\ \A k \in steady : /\ given[k] <= Cardinality(Passed(k))
                               /\ given[k] = 0 => \E r \in SlotsOf(k) : r >= index
        BY <1>3, <2>1 DEF IterInv
    <2>3. ASSUME NEW k \in steady'
          PROVE  /\ given[k] <= Cardinality(Passed(k)')
                 /\ given[k] = 0 => \E r \in SlotsOf(k)' : r >= index
        <3>1. /\ k \in Keys /\ k \in steady /\ ~Remove(k) /\ given[k] \in Nat
            BY <1>1 DEF IterInv
        <3>2. SlotsOf(k) \subseteq SlotsOf(k)'
            <4>1. \A s \in 0..(capacity - 1) : entries[s].key = k => entries'[s].key = k
                BY <1>1, <2>1, <3>1, SlotsStay
            <4>2. SlotsOf(k) = {s \in 0..(capacity - 1) : entries[s].key = k}
                BY <3>1, SlotsOfFacts
            <4>3. SlotsOf(k)' = {s \in 0..(capacity' - 1) : entries'[s].key = k}
                BY <3>1, SlotsOfPrimed
            <4>. QED BY <2>1, <4>1, <4>2, <4>3
        <3>3. Passed(k) \in SUBSET Passed(k)'
            BY <1>1, <3>2 DEF Passed
        <3>4. /\ Cardinality(Passed(k)) \in Nat /\ Cardinality(Passed(k)') \in Nat
              /\ IsFiniteSet(Passed(k)')
            BY <3>1, SlotsOfFacts, SlotsOfPrimed
        <3>5. Cardinality(Passed(k)) <= Cardinality(Passed(k)')
            BY <3>3, <3>4, FS_Subset
        <3>6. given[k] <= Cardinality(Passed(k))
            BY <2>2, <3>1
        <3>7. given[k] <= Cardinality(Passed(k)')
            BY <3>1, <3>4, <3>5, <3>6
        <3>. QED BY <2>2, <3>1, <3>2, <3>7
    <2>. QED BY <2>1, <2>2, <2>3
<1>. QED BY <1>1, <1>2, <1>3 DEF IterInv

LEMMA NextIter == CountInv /\ CountInv' /\ IterInv /\ [IterNextState]_iterVars => IterInv'
<1>. SUFFICES ASSUME CountInv, CountInv', IterInv, [IterNextState]_iterVars PROVE IterInv'
    OBVIOUS
<1>1. CASE Create \/ Free \/ IterNext \/ IterEnds \/ MapChanges
    BY <1>1, CreateIter, FreeIter, IterNextIter, IterEndsIter, MapChangesIter
<1>2. CASE UNCHANGED iterVars
    BY <1>2 DEF iterVars, iterator, vars, IterInv, Passed, SlotsOf, LiveSlots
<1>. QED BY <1>1, <1>2 DEF IterNextState

(* An iterator that comes to its end gives every pair that stayed on the   *)
(* map, and gives it once (or at most once for each slot that holds it,    *)
(* where put has stored a key twice), whatever is put, removed, or fails   *)
(* meanwhile, unless the table was replaced.                               *)
THEOREM IterGivesSteadyOnceCorrect == IterSpec => []IterGivesSteadyOnce
<1>1. CountInv /\ IterInv => IterGivesSteadyOnce
    <2>. SUFFICES ASSUME CountInv, IterInv, ended, ~resized, NEW k \in steady
                  PROVE  given[k] \in 1..Cardinality(SlotsOf(k))
        BY DEF IterGivesSteadyOnce
    <2>1. k \in Keys /\ index # NoIter /\ given[k] \in Nat
        BY DEF IterInv
    <2>2. /\ index = capacity /\ given[k] <= Cardinality(Passed(k))
          /\ given[k] = 0 => \E s \in SlotsOf(k) : s >= index
        BY <2>1 DEF IterInv
    <2>3. /\ SlotsOf(k) = {s \in 0..(capacity - 1) : entries[s].key = k}
          /\ Cardinality(SlotsOf(k)) \in Nat /\ Cardinality(Passed(k)) \in Nat
          /\ Cardinality(Passed(k)) <= Cardinality(SlotsOf(k)) /\ capacity \in Nat
        BY <2>1, SlotsOfFacts, CountFacts
    <2>4. given[k] # 0
        BY <2>2, <2>3
    <2>. QED BY <2>1, <2>2, <2>3, <2>4
<1>. QED BY <1>1, IterStarts, NextIter, IterIsMap, CountInvariant, PTL DEF IterSpec
==============================================================================
