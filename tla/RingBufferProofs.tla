--------------------------- MODULE RingBufferProofs ---------------------------
(* Proofs about RingBuffer, for every capacity and every set of items, and *)
(* about CpuHistory, which keeps its readings in one.                      *)
EXTENDS CpuHistory, DataLemmas, TLAPS

(* Indices are only ever reduced modulo the capacity from below twice the  *)
(* capacity, where % is a conditional subtraction.                         *)
LEMMA ModBelowTwice ==
    ASSUME NEW x \in Nat, x < 2 * Capacity
    PROVE  /\ x < Capacity  => x % Capacity = x
           /\ x >= Capacity => x % Capacity = x - Capacity
<1>1. Capacity \in Nat /\ Capacity > 0
    BY CapacityAssumption
<1>2. x % Capacity \in 0..(Capacity - 1) /\ x = Capacity * (x \div Capacity) + (x % Capacity)
    BY <1>1
<1>3. x \div Capacity \in Int
    BY <1>1
<1>. DEFINE q == x \div Capacity
            r == x % Capacity
<1>4. CASE x < Capacity
    <2>1. q = 0
        BY <1>1, <1>4, SMT
    <2>. QED BY <1>1, <1>4, SMT
<1>5. CASE x >= Capacity
    <2>1. q = 1
        BY <1>1, <1>5, SMT
    <2>. QED BY <1>1, <1>5, SMT
<1>. QED BY <1>1, <1>4, <1>5

(* The slot of an offset, without the modulo.                              *)
LEMMA PeekSlotCases ==
    ASSUME TypeOK, NEW offset \in 0..(Capacity - 1)
    PROVE  PeekSlot(offset) = IF offset <= head THEN head - offset
                              ELSE head + Capacity - offset
<1>1. Capacity \in Nat /\ Capacity > 0 /\ head \in 0..(Capacity - 1)
    BY CapacityAssumption DEF TypeOK, Slot
<1>2. head + Capacity - offset \in Nat /\ head + Capacity - offset < 2 * Capacity
    BY <1>1
<1>. QED BY <1>1, <1>2, ModBelowTwice DEF PeekSlot

(* The head after an advance, without the modulo.                          *)
LEMMA NextHead ==
    ASSUME TypeOK
    PROVE  (head + 1) % Capacity = IF head = Capacity - 1 THEN 0 ELSE head + 1
<1>1. Capacity \in Nat /\ Capacity > 0 /\ head \in 0..(Capacity - 1)
    BY CapacityAssumption DEF TypeOK, Slot
<1>2. head + 1 \in Nat /\ head + 1 < 2 * Capacity
    BY <1>1
<1>. QED BY <1>1, <1>2, ModBelowTwice

IInv == TypeOK /\ Filling

LEMMA InitIInv == Init => IInv
    BY CapacityAssumption, BlankAssumption DEF Init, IInv, TypeOK, Filling, Slot

LEMMA AdvanceIInv == IInv /\ Advance => IInv'
<1>. SUFFICES ASSUME IInv, Advance PROVE IInv'
    OBVIOUS
<1>1. Capacity \in Nat /\ Capacity > 0
    BY CapacityAssumption
<1>2. (head + 1) % Capacity = IF head = Capacity - 1 THEN 0 ELSE head + 1
    BY NextHead DEF IInv
<1>3. TypeOK'
    BY <1>1, <1>2 DEF IInv, TypeOK, Slot, Advance
<1>4. Filling'
    BY <1>1, <1>2 DEF IInv, TypeOK, Filling, Slot, Advance
<1>. QED BY <1>3, <1>4 DEF IInv

LEMMA StoreIInv == ASSUME NEW item \in Item PROVE IInv /\ Store(item) => IInv'
<1>. SUFFICES ASSUME IInv, Store(item) PROVE IInv'
    OBVIOUS
<1>1. Capacity \in Nat /\ Capacity > 0
    BY CapacityAssumption
<1>2. TypeOK'
    BY DEF IInv, TypeOK, Store
<1>3. Filling'
    BY <1>1 DEF IInv, TypeOK, Filling, Slot, Store
<1>. QED BY <1>2, <1>3 DEF IInv

LEMMA StepIInv == IInv /\ [Next]_vars => IInv'
<1>1. IInv /\ Advance => IInv'
    BY AdvanceIInv
<1>2. ASSUME NEW item \in Item PROVE IInv /\ Store(item) => IInv'
    BY StoreIInv
<1>3. IInv /\ UNCHANGED vars => IInv'
    BY DEF IInv, TypeOK, Filling, vars
<1>. QED BY <1>1, <1>2, <1>3 DEF Next

THEOREM Inductive == Spec => []IInv
BY InitIInv, StepIInv, PTL DEF Spec

(* The head and the addresses derived from it stay inside the array.       *)
THEOREM TypeCorrect == Spec => []TypeOK
<1>1. IInv => TypeOK
    BY DEF IInv
<1>. QED BY Inductive, <1>1, PTL

(* While the buffer fills, the slots past count are still blank.           *)
THEOREM FillingCorrect == Spec => []Filling
<1>1. IInv => Filling
    BY DEF IInv
<1>. QED BY Inductive, <1>1, PTL

-----------------------------------------------------------------------------
(* The refinement: every step of the buffer is a step of the window.       *)

LEMMA WindowIsSeq ==
    ASSUME TypeOK
    PROVE  /\ Window \in Seq(Item)
           /\ Len(Window) = count
           /\ \A i \in 1..count : PeekSlot(i - 1) \in Slot
<1>1. Capacity \in Nat /\ Capacity > 0 /\ head \in 0..(Capacity - 1) /\ count \in 0..Capacity
    BY CapacityAssumption DEF TypeOK, Slot
<1>2. ASSUME NEW i \in 1..count PROVE PeekSlot(i - 1) \in Slot
    <2>1. i - 1 \in 0..(Capacity - 1)
        BY <1>1
    <2>2. PeekSlot(i - 1) = IF i - 1 <= head THEN head - (i - 1) ELSE head + Capacity - (i - 1)
        BY <2>1, PeekSlotCases
    <2>. QED BY <1>1, <2>1, <2>2 DEF Slot
<1>3. Window \in [1..count -> Item]
    BY <1>2 DEF Window, TypeOK
<1>. QED BY <1>1, <1>2, <1>3

LEMMA AdvanceSlides == IInv /\ Advance => Abstract!Slide
<1>. SUFFICES ASSUME IInv, Advance PROVE Abstract!Slide
    OBVIOUS
<1>1. /\ Capacity \in Nat /\ Capacity > 0
      /\ head \in 0..(Capacity - 1) /\ count \in 0..Capacity
      /\ TypeOK /\ TypeOK' /\ slots' = slots
    BY CapacityAssumption, AdvanceIInv DEF IInv, TypeOK, Slot, Advance
<1>2. Len(Window) = count
    BY <1>1, WindowIsSeq
<1>3. count' = IF count < Capacity THEN count + 1 ELSE Capacity
    BY <1>1 DEF Advance
<1>4. head' = IF count = 0 THEN head ELSE IF head = Capacity - 1 THEN 0 ELSE head + 1
    BY <1>1, NextHead DEF Advance
<1>5. ASSUME NEW i \in 1..count'
      PROVE  slots'[PeekSlot(i - 1)'] = IF i = 1 THEN Abstract!Recycled ELSE Window[i - 1]
    <2>1. i - 1 \in 0..(Capacity - 1) /\ head' \in 0..(Capacity - 1)
        BY <1>1, <1>3, <1>4
    <2>2. PeekSlot(i - 1)' = IF i - 1 <= head' THEN head' - (i - 1) ELSE head' + Capacity - (i - 1)
        <3>1. (head' + Capacity - (i - 1)) \in Nat /\ (head' + Capacity - (i - 1)) < 2 * Capacity
            <4>1. \A h \in 0..(Capacity - 1) : \A k \in 0..(Capacity - 1) :
                     (h + Capacity - k) \in Nat /\ (h + Capacity - k) < 2 * Capacity
                BY CapacityAssumption
            <4>. QED BY <2>1, <4>1
        <3>. QED BY <1>1, <2>1, <3>1, ModBelowTwice DEF PeekSlot
    <2>3. CASE i = 1
        <3>1. PeekSlot(i - 1)' = head'
            BY <2>1, <2>2, <2>3
        <3>2. CASE count < Capacity
            <4>1. head' = count
                BY <1>1, <1>4, <3>2 DEF IInv, Filling
            <4>2. slots[head'] = Blank
                BY <1>1, <3>2, <4>1 DEF IInv, Filling, Slot
            <4>3. Abstract!Recycled = Blank
                BY <1>2, <3>2 DEF Abstract!Recycled
            <4>. QED BY <1>1, <2>3, <3>1, <4>2, <4>3
        <3>3. CASE count = Capacity
            <4>1. PeekSlot(count - 1) = head'
                <5>1. count - 1 \in 0..(Capacity - 1)
                    BY <1>1, <3>3
                <5>2. PeekSlot(count - 1) = IF count - 1 <= head THEN head - (count - 1)
                                            ELSE head + Capacity - (count - 1)
                    BY <1>1, <5>1, PeekSlotCases
                <5>. QED BY <1>1, <1>4, <3>3, <5>2
            <4>2. Abstract!Recycled = slots[PeekSlot(count - 1)]
                BY <1>1, <1>2, <3>3 DEF Abstract!Recycled, Window
            <4>. QED BY <1>1, <2>3, <3>1, <4>1, <4>2
        <3>. QED BY <1>1, <3>2, <3>3
    <2>4. CASE i # 1
        <3>1. i - 2 \in 0..(Capacity - 1) /\ i - 1 \in 1..count /\ count > 0
            BY <1>1, <1>3, <2>4
        <3>2. PeekSlot(i - 2) = IF i - 2 <= head THEN head - (i - 2) ELSE head + Capacity - (i - 2)
            BY <1>1, <3>1, PeekSlotCases
        <3>3. PeekSlot(i - 1)' = PeekSlot(i - 2)
            BY <1>1, <1>4, <2>1, <2>2, <3>1, <3>2
        <3>4. Window[i - 1] = slots[PeekSlot(i - 2)]
            <4>1. (i - 1) - 1 = i - 2
                BY <3>1
            <4>. QED BY <3>1, <4>1 DEF Window
        <3>. QED BY <1>1, <2>4, <3>3, <3>4
    <2>. QED BY <2>3, <2>4
<1>6. Window' = [i \in 1..count' |-> slots'[PeekSlot(i - 1)']]
    BY DEF Window
<1>7. count' = IF Len(Window) < Capacity THEN Len(Window) + 1 ELSE Capacity
    BY <1>2, <1>3
<1>. QED BY <1>5, <1>6, <1>7 DEF Abstract!Slide

LEMMA StoreFills == ASSUME NEW item \in Item PROVE IInv /\ Store(item) => Abstract!Fill(item)
<1>. SUFFICES ASSUME IInv, Store(item) PROVE Abstract!Fill(item)
    OBVIOUS
<1>1. /\ Capacity \in Nat /\ Capacity > 0 /\ TypeOK
      /\ head \in 0..(Capacity - 1) /\ count \in 1..Capacity
      /\ head' = head /\ count' = count /\ slots' = [slots EXCEPT ![head] = item]
      /\ slots \in [0..(Capacity - 1) -> Item]
    BY CapacityAssumption DEF IInv, TypeOK, Slot, Store
<1>2. Len(Window) = count /\ Window \in Seq(Item)
    BY <1>1, WindowIsSeq
<1>3. Window # <<>>
    BY <1>1, <1>2
<1>4. ASSUME NEW i \in 1..count
      PROVE  slots'[PeekSlot(i - 1)'] = IF i = 1 THEN item ELSE slots[PeekSlot(i - 1)]
    <2>1. i - 1 \in 0..(Capacity - 1)
        BY <1>1
    <2>2. PeekSlot(i - 1) = IF i - 1 <= head THEN head - (i - 1) ELSE head + Capacity - (i - 1)
        BY <1>1, <2>1, PeekSlotCases
    <2>3. PeekSlot(i - 1)' = PeekSlot(i - 1)
        BY <1>1 DEF PeekSlot
    <2>4. PeekSlot(i - 1) \in 0..(Capacity - 1) /\ (PeekSlot(i - 1) = head <=> i = 1)
        BY <1>1, <2>1, <2>2
    <2>. QED BY <1>1, <2>3, <2>4
<1>5. Window' = [i \in 1..count |-> slots'[PeekSlot(i - 1)']]
    BY <1>1 DEF Window
<1>6. Window' = [Window EXCEPT ![1] = item]
    BY <1>1, <1>4, <1>5 DEF Window
<1>. QED BY <1>3, <1>6 DEF Abstract!Fill

(* Peeked at, the buffer behaves as a sliding window over the last         *)
(* Capacity items, whatever the capacity: nothing but the oldest item is   *)
(* ever lost and every offset keeps naming the item it should.             *)
THEOREM Refinement == Spec => IsSlidingWindow
<1>1. Init => Abstract!Init
    <2>1. ASSUME Init PROVE Window = <<>>
        BY <2>1 DEF Init, Window
    <2>. QED BY <2>1 DEF Abstract!Init
<1>2. IInv /\ [Next]_vars => [Abstract!Next]_Window
    <2>1. IInv /\ Advance => Abstract!Next
        BY AdvanceSlides DEF Abstract!Next
    <2>2. ASSUME NEW item \in Item PROVE IInv /\ Store(item) => Abstract!Next
        BY StoreFills DEF Abstract!Next
    <2>3. UNCHANGED vars => UNCHANGED Window
        BY DEF vars, Window, PeekSlot
    <2>. QED BY <2>1, <2>2, <2>3 DEF Next
<1>. QED BY Inductive, <1>1, <1>2, PTL DEF Spec, IsSlidingWindow, Abstract!Spec

-----------------------------------------------------------------------------
(* The CPU history: a reading per slot, in a ring that a sampler advances. *)

Clocks == [Counters -> Nat]

(* What unsigned longs keep of the counters, and the counters they keep.   *)
Read(c) == [k \in Counters |-> IF c[k] < Modulus THEN c[k] ELSE Modulus - 1]
Fitting == {c \in Clocks : \A k \in Counters : c[k] < Modulus}

(* One more item is in the ring than there are finished captures. *)
Open == IF capturing THEN 1 ELSE 0

HistoryTypes ==
    /\ clock \in Clocks /\ capturing \in BOOLEAN
    /\ history \in Seq(Clocks \cup {Failed})
    /\ count <= Len(history) + Open

(* Idle time only grows, from one capture to the next and up to now. *)
IdleGrows ==
    /\ \A i \in 1..Len(history) : history[i] # Failed => history[i]["idle"] <= clock["idle"]
    /\ \A i, j \in 1..Len(history) :
          i <= j /\ history[i] # Failed /\ history[j] # Failed =>
              history[i]["idle"] <= history[j]["idle"]

(* The slot at an offset holds the reading of the capture that many before *)
(* the latest, unless it failed; the slot that is being filled does not    *)
(* count.                                                                  *)
Remembers(k) ==
    history[Len(history) + Open - k] # Failed =>
        slots[PeekSlot(k)] = Read(history[Len(history) + Open - k])

SlotsRemember == \A k \in 0..(count - 1) : k > 0 \/ ~capturing => Remembers(k)

HistoryInv == HistoryTypes /\ IdleGrows /\ SlotsRemember

LEMMA ReadingTypes == ASSUME clock \in Clocks PROVE Reading \in Item /\ Reading = Read(clock)
<1>1. \A k \in Counters :
          (IF clock[k] < Modulus THEN clock[k] ELSE Modulus - 1) \in 0..(Modulus - 1)
    BY CpuHistoryAssumption DEF Clocks
<1>2. Reading \in [Counters -> 0..(Modulus - 1)]
    BY <1>1 DEF Reading
<1>. QED BY <1>2, CpuHistoryAssumption DEF Reading, Read

LEMMA RingFacts ==
    ASSUME TypeOK
    PROVE  /\ Capacity \in Nat \ {0} /\ head \in 0..(Capacity - 1) /\ count \in 0..Capacity
           /\ slots \in [0..(Capacity - 1) -> Item]
    BY CapacityAssumption DEF TypeOK, Slot

LEMMA WakeHistory ==
    ASSUME TypeOK, HistoryInv, Wake PROVE HistoryInv'
<1>0. /\ Capacity \in Nat \ {0} /\ head \in 0..(Capacity - 1) /\ count \in 0..Capacity
      /\ Len(history) \in Nat
    BY RingFacts DEF HistoryInv, HistoryTypes
<1>1. /\ history' = history /\ slots' = slots /\ ~capturing /\ capturing' = TRUE
      /\ head' = (IF count > 0 THEN (head + 1) % Capacity ELSE head)
      /\ count' = (IF count < Capacity THEN count + 1 ELSE count)
    BY DEF Wake, Advance
<1>2. PICK d \in Deltas : /\ clock["wait"] + d["wait"] >= 0
                          /\ clock' = [c \in Counters |-> clock[c] + d[c]]
    BY DEF Wake
<1>3. clock' \in Clocks /\ clock["idle"] <= clock'["idle"] /\ clock["idle"] \in Nat /\ clock'["idle"] \in Nat
    <2>1. /\ clock \in [Counters -> Nat] /\ d \in [Counters -> Int]
          /\ d["user"] >= 0 /\ d["system"] >= 0 /\ d["idle"] >= 0
        BY CpuHistoryAssumption DEF HistoryInv, HistoryTypes, Clocks
    <2>. QED BY <1>2, <2>1 DEF Clocks, Counters
<1>4. HistoryTypes'
    BY <1>0, <1>1, <1>3 DEF HistoryInv, HistoryTypes, Open
<1>5. IdleGrows'
    <2>1. \A i \in 1..Len(history) : history[i] # Failed => history[i]["idle"] \in Nat
        BY DEF HistoryInv, HistoryTypes, Clocks, Counters
    <2>2. \A i \in 1..Len(history) : history[i] # Failed => history[i]["idle"] <= clock'["idle"]
        BY <1>3, <2>1 DEF HistoryInv, IdleGrows
    <2>. QED BY <1>1, <2>2 DEF HistoryInv, IdleGrows
<1>6. SlotsRemember'
    <2>1. SUFFICES ASSUME NEW k \in 0..(count' - 1), k > 0 PROVE Remembers(k)'
        BY <1>1 DEF SlotsRemember
    <2>2. PICK j \in 0..(Capacity - 2) : k = j + 1 /\ j \in 0..(count - 1)
        BY <1>0, <1>1, <2>1
    <2>3. Remembers(j)
        BY <1>1, <2>2 DEF HistoryInv, SlotsRemember
    <2>4. (head' + Capacity - k) % Capacity = (head + Capacity - j) % Capacity
        BY <1>0, <1>1, <2>2, ShiftedIndex
    <2>5. Len(history) + 1 - k = Len(history) + 0 - j
        BY <1>0, <2>2
    <2>. QED BY <1>1, <2>3, <2>4, <2>5 DEF Remembers, PeekSlot, Open
<1>. QED BY <1>4, <1>5, <1>6 DEF HistoryInv

(* A finished capture, successful or not. *)
LEMMA CapturedHistory ==
    ASSUME TypeOK, HistoryInv, capturing, capturing' = FALSE, clock' = clock,
           NEW entry \in {clock, Failed}, history' = Append(history, entry),
           head' = head, count' = count,
           \/ entry = Failed /\ slots' = slots
           \/ entry = clock /\ slots' = [slots EXCEPT ![head] = Read(clock)]
    PROVE  HistoryInv'
<1>. DEFINE n == Len(history)
<1>0. /\ Capacity \in Nat \ {0} /\ head \in 0..(Capacity - 1) /\ count \in 0..Capacity
      /\ slots \in [0..(Capacity - 1) -> Item]
      /\ n \in Nat /\ clock \in Clocks /\ history \in Seq(Clocks \cup {Failed})
    BY RingFacts DEF HistoryInv, HistoryTypes
<1>1. /\ history' \in Seq(Clocks \cup {Failed}) /\ Len(history') = n + 1
      /\ \A i \in 1..n : history'[i] = history[i]
      /\ history'[n + 1] = entry
    BY <1>0, AppendProperties
<1>2. HistoryTypes'
    BY <1>0, <1>1 DEF HistoryInv, HistoryTypes, Open
<1>3. IdleGrows'
    <2>1. /\ \A i \in 1..n : history[i] # Failed => history[i]["idle"] <= clock["idle"]
          /\ \A i, j \in 1..n : i <= j /\ history[i] # Failed /\ history[j] # Failed =>
                 history[i]["idle"] <= history[j]["idle"]
        BY DEF HistoryInv, IdleGrows
    <2>2. clock["idle"] <= clock["idle"]
        BY <1>0 DEF Clocks, Counters
    <2>3. \A i \in 1..(n + 1) : i \in 1..n \/ i = n + 1
        BY <1>0
    <2>4. \A i \in 1..n : ~(n + 1 <= i)
        BY <1>0
    <2>. QED BY <1>1, <2>1, <2>2, <2>3, <2>4 DEF IdleGrows
<1>4. SlotsRemember'
    <2>1. SUFFICES ASSUME NEW k \in 0..(count - 1) PROVE Remembers(k)'
        BY DEF SlotsRemember
    <2>2. CASE k = 0
        <3>1. PeekSlot(0) = head
            <4>1. head + Capacity - 0 = 1 * Capacity + head
                BY <1>0
            <4>. QED BY <1>0, <4>1, ModIs DEF PeekSlot
        <3>2. Len(history') + 0 - 0 = n + 1
            BY <1>0, <1>1
        <3>3. PeekSlot(0)' = head
            BY <3>1 DEF PeekSlot
        <3>. QED BY <1>0, <1>1, <2>2, <3>2, <3>3 DEF Remembers, Open
    <2>3. CASE k > 0
        <3>1. Remembers(k)
            BY <2>3 DEF HistoryInv, SlotsRemember
        <3>2. PeekSlot(k) # head /\ PeekSlot(k)' = PeekSlot(k)
            <4>1. k \in 1..(Capacity - 1)
                BY <1>0, <2>3
            <4>. QED BY <1>0, <4>1, OffsetsDiffer DEF PeekSlot
        <3>3. Len(history') + 0 - k = n + 1 - k /\ n + 1 - k \in 1..n
            BY <1>0, <1>1, <2>3 DEF HistoryInv, HistoryTypes, Open
        <3>4. slots'[PeekSlot(k)] = slots[PeekSlot(k)]
            <4>1. PeekSlot(k) \in 0..(Capacity - 1)
                <5>1. head + Capacity - k \in Nat
                    BY <1>0
                <5>. QED BY <1>0, <5>1, ModFacts DEF PeekSlot
            <4>. QED BY <1>0, <3>2, <4>1
        <3>. QED BY <1>1, <3>1, <3>2, <3>3, <3>4 DEF Remembers, Open
    <2>. QED BY <1>0, <2>2, <2>3
<1>. QED BY <1>2, <1>3, <1>4 DEF HistoryInv

LEMMA HistoryInductive == TypeOK /\ HistoryInv /\ [CpuNext]_cpuVars => HistoryInv'
<1>. SUFFICES ASSUME TypeOK, HistoryInv, [CpuNext]_cpuVars PROVE HistoryInv'
    OBVIOUS
<1>1. CASE CpuRead
    <2>1. Reading = Read(clock)
        BY ReadingTypes DEF HistoryInv, HistoryTypes
    <2>. QED BY <1>1, <2>1, CapturedHistory DEF CpuRead, Store
<1>2. CASE CpuReadFails
    BY <1>2, CapturedHistory DEF CpuReadFails, vars
<1>3. CASE UNCHANGED cpuVars
    BY <1>3 DEF cpuVars, vars, HistoryInv, HistoryTypes, IdleGrows, SlotsRemember, Remembers,
                Open, PeekSlot
<1>. QED BY <1>1, <1>2, <1>3, WakeHistory DEF CpuNext

(* The CPU metrics use their ring as a ring, and write what it can hold. *)
LEMMA CpuUsesRing == CpuSpec => Spec /\ [](IInv /\ HistoryInv)
<1>1. CpuInit => Init /\ IInv /\ HistoryInv
    <2>. SUFFICES ASSUME CpuInit PROVE Init /\ IInv /\ HistoryInv
        OBVIOUS
    <2>1. clock \in Clocks /\ count = 0 /\ history = <<>> /\ capturing = FALSE /\ Init
        BY CpuHistoryAssumption DEF CpuInit, Clocks, Init
    <2>2. Len(history) = 0 /\ history \in Seq(Clocks \cup {Failed})
        BY <2>1
    <2>3. HistoryTypes
        <3>1. Open = 0 /\ capturing \in BOOLEAN
            BY <2>1 DEF Open
        <3>2. count <= Len(history) + Open
            BY <2>1, <2>2, <3>1
        <3>. QED BY <2>1, <2>2, <3>1, <3>2 DEF HistoryTypes
    <2>4. IdleGrows
        BY <2>2 DEF IdleGrows
    <2>5. SlotsRemember
        BY <2>1 DEF SlotsRemember
    <2>. QED BY <2>1, <2>3, <2>4, <2>5, InitIInv DEF HistoryInv
<1>2. HistoryInv /\ [CpuNext]_cpuVars => [Next]_vars
    BY ReadingTypes DEF CpuNext, Wake, CpuRead, CpuReadFails, Next, cpuVars, HistoryInv, HistoryTypes
<1>3. IInv /\ HistoryInv /\ [CpuNext]_cpuVars => IInv' /\ HistoryInv'
    BY <1>2, StepIInv, HistoryInductive DEF IInv
<1>. QED BY <1>1, <1>2, <1>3, PTL DEF CpuSpec, Spec

(* Seen through ring_buffer_peek, the history of CPU readings is a sliding *)
(* window too, whatever captures fail.                                     *)
THEOREM CpuRefinement == CpuSpec => IsSlidingWindow
BY CpuUsesRing, Refinement

(* The bytes at an offset are those of the capture that many before the    *)
(* latest.                                                                 *)
LEMMA PeekedReading ==
    ASSUME IInv, HistoryInv, ~capturing, NEW k \in 0..(count - 1),
           history[Len(history) - k] # Failed
    PROVE  /\ Len(history) - k \in 1..Len(history)
           /\ history[Len(history) - k] \in Clocks
           /\ slots[PeekSlot(k)] = Read(history[Len(history) - k])
<1>1. /\ Len(history) \in Nat /\ history \in Seq(Clocks \cup {Failed}) /\ count <= Len(history) + 0
      /\ count \in Nat
    BY RingFacts DEF HistoryInv, HistoryTypes, Open, IInv
<1>2. Len(history) - k \in 1..Len(history) /\ Len(history) + 0 - k = Len(history) - k
    BY <1>1
<1>3. Remembers(k)
    BY DEF HistoryInv, SlotsRemember
<1>. QED BY <1>1, <1>2, <1>3 DEF Remembers, Open

(* cpu_total_usage between two readings of which nothing overflowed.       *)
LEMMA UsageOfReadings ==
    ASSUME NEW c \in Fitting, NEW p \in Fitting,
           NEW idle \in Nat, NEW total \in Nat \ {0},
           c["idle"] = p["idle"] + idle,
           c["user"] + c["system"] + c["idle"] + c["wait"]
               = (p["user"] + p["system"] + p["idle"] + p["wait"]) + total,
           idle <= total, total < Modulus, idle * Scale < Modulus
    PROVE  Usage(Read(c), Read(p)) =
               [result |-> "success", usage |-> Scale - (idle * Scale) \div total]
<1>. DEFINE sp == p["user"] + p["system"] + p["idle"] + p["wait"]
<1>1. /\ \A k \in Counters : c[k] \in Nat /\ p[k] \in Nat
      /\ {"user", "system", "idle", "wait"} = Counters
      /\ Modulus \in Nat \ {0} /\ Scale \in 1..(Modulus - 1)
    BY CpuHistoryAssumption DEF Fitting, Clocks, Counters
<1>2. sp \in Nat
    BY <1>1
<1>3. \A x \in Fitting, k \in Counters : Read(x)[k] = x[k]
    BY DEF Fitting, Read
<1>4. TotalTime(Read(c)) = (sp + total) % Modulus /\ TotalTime(Read(p)) = sp % Modulus
    <2>1. \A x \in Fitting : TotalTime(Read(x)) = (x["user"] + x["system"] + x["idle"] + x["wait"]) % Modulus
        BY <1>1, <1>3 DEF TotalTime
    <2>. QED BY <2>1
<1>5. Read(c)["idle"] = p["idle"] + idle /\ Read(p)["idle"] = p["idle"]
    BY <1>1, <1>3
<1>6. idle < Modulus
    BY <1>1, <1>2
<1>. HIDE DEF sp
<1>7. Minus(Read(c)["idle"], Read(p)["idle"]) = idle
    <2>1. (p["idle"] + idle) - p["idle"] = idle /\ idle \in 0..(Modulus - 1)
        BY <1>1, <1>6
    <2>. QED BY <1>1, <1>5, <2>1, ModSmall DEF Minus
<1>8. Minus(TotalTime(Read(c)), TotalTime(Read(p))) = total
    <2>1. \A n \in Nat \ {0}, a \in Nat : total < n => (((a + total) % n) - (a % n)) % n = total
        BY ModDifference
    <2>. QED BY <1>1, <1>2, <1>4, <2>1, Zenon DEF Minus
<1>9. ~(TotalTime(Read(p)) = 0 /\ TotalTime(Read(c)) = 0)
    <2>. SUFFICES ASSUME TotalTime(Read(p)) = 0, TotalTime(Read(c)) = 0 PROVE FALSE
        OBVIOUS
    <2>1. total = 0 % Modulus
        BY <1>8 DEF Minus
    <2>. QED BY <1>1, <1>2, <2>1, ModSmall
<1>10. (idle * Scale) % Modulus = idle * Scale
    <2>. DEFINE x == idle * Scale
    <2>1. x \in 0..(Modulus - 1)
        BY <1>1, <1>2
    <2>. HIDE DEF x
    <2>2. x % Modulus = x
        BY <1>1, <2>1, ModSmall
    <2>. QED BY <2>2 DEF x
<1>. DEFINE share == (idle * Scale) \div total
<1>11. share \in 0..Scale
    <2>1. Scale \in Nat
        BY <1>1
    <2>2. (idle * Scale) \div total \in 0..Scale
        BY <2>1, ShareBounded
    <2>. QED BY <2>2
<1>. HIDE DEF share
<1>12. Minus(Scale, share) = Scale - share
    <2>1. Scale - share \in 0..(Modulus - 1)
        BY <1>1, <1>11
    <2>. QED BY <1>1, <2>1, ModSmall DEF Minus
<1>. QED BY <1>2, <1>7, <1>8, <1>9, <1>10, <1>12 DEF Usage, share

(* For every modulus, scale and capacity, however often the ring and the   *)
(* sum of the counters have wrapped and whatever captures failed in        *)
(* between: while no counter has passed the width of an unsigned long, at  *)
(* which strtoul stops, and nothing else overflows, the usage over a       *)
(* window whose two ends were captured is the share of exactly that        *)
(* interval that was not idle.                                             *)
THEOREM UsageIsShareCorrect == CpuSpec => []UsageIsShare
<1>1. IInv /\ HistoryInv => UsageIsShare
    <2>. SUFFICES ASSUME IInv, HistoryInv, NEW window \in 1..(Capacity - 1),
                         ~capturing, Measured(window)
                  PROVE  LET idle  == Passed("idle", window)
                             total == Passed("user", window) + Passed("system", window)
                                          + idle + Passed("wait", window)
                             value == GetValue(window)
                         IN  0 < total /\ idle <= total /\ total < Modulus /\ idle * Scale < Modulus
                             => /\ value.result = "success"
                                /\ value.usage = Scale - (idle * Scale) \div total
        BY DEF UsageIsShare
    <2>. DEFINE c     == history[Len(history)]
                p     == history[Len(history) - window]
                idle  == c["idle"] - p["idle"]
                total == (c["user"] - p["user"]) + (c["system"] - p["system"])
                             + idle + (c["wait"] - p["wait"])
    <2>0. /\ Capacity \in Nat /\ count \in Nat /\ Len(history) \in Nat
          /\ 0 \in 0..(count - 1) /\ window \in 0..(count - 1)
        BY RingFacts DEF IInv, Measured, Peekable, HistoryInv, HistoryTypes
    <2>1. /\ Len(history) \in 1..Len(history) /\ c \in Fitting
          /\ slots[PeekSlot(0)] = Read(c)
        <3>1. Len(history) - 0 = Len(history)
            BY <2>0
        <3>. QED BY <2>0, <3>1, PeekedReading DEF Measured, Fitting
    <2>2. /\ Len(history) - window \in 1..Len(history) /\ p \in Fitting
          /\ slots[PeekSlot(window)] = Read(p)
        BY <2>0, PeekedReading DEF Measured, Fitting
    <2>3. p["idle"] <= c["idle"]
        <3>1. Len(history) - window <= Len(history)
            BY <2>0
        <3>. QED BY <2>1, <2>2, <3>1 DEF HistoryInv, IdleGrows, Measured
    <2>4. 0 <= idle
        <3>1. p["idle"] \in Nat /\ c["idle"] \in Nat
            BY <2>1, <2>2 DEF Fitting, Clocks, Counters
        <3>. HIDE DEF c, p
        <3>. QED BY <2>3, <3>1
    <2>5. GetValue(window) = Usage(Read(c), Read(p))
        BY <2>1, <2>2 DEF GetValue
    <2>. HIDE DEF c, p
    <2>6. /\ c["user"] \in Nat /\ c["system"] \in Nat /\ c["idle"] \in Nat /\ c["wait"] \in Nat
          /\ p["user"] \in Nat /\ p["system"] \in Nat /\ p["idle"] \in Nat /\ p["wait"] \in Nat
        BY <2>1, <2>2 DEF Fitting, Clocks, Counters
    <2>7. /\ idle \in Nat /\ total \in Int /\ c["idle"] = p["idle"] + idle
          /\ c["user"] + c["system"] + c["idle"] + c["wait"]
                 = (p["user"] + p["system"] + p["idle"] + p["wait"]) + total
        BY <2>4, <2>6
    <2>. HIDE DEF idle, total
    <2>8. ASSUME 0 < total, idle <= total, total < Modulus, idle * Scale < Modulus
          PROVE  Usage(Read(c), Read(p)) =
                     [result |-> "success", usage |-> Scale - (idle * Scale) \div total]
        <3>1. total \in Nat \ {0}
            BY <2>7, <2>8
        <3>. QED BY <2>1, <2>2, <2>7, <2>8, <3>1, UsageOfReadings
    <2>. QED BY <2>5, <2>8 DEF Passed, c, p, idle, total
<1>. QED BY CpuUsesRing, <1>1, PTL
==============================================================================
