----------------------------- MODULE SoundProofs -----------------------------
(* Playing a file, for every size of the ring and of its indices, every    *)
(* file and every request: what comes out, when it is said to be over, and *)
(* who still runs when it is freed.                                        *)
EXTENDS Sound, DataLemmas, TLAPS

(* The indices stand for counters that do not wrap: the frames the writer  *)
(* has published and those the reader has taken.                           *)
Published == pos - written
Taken     == IF rt = "update" THEN Len(heard) - copy ELSE Len(heard)

Counters ==
    /\ Taken \in Nat /\ Taken <= Published /\ pos <= Taken + Size
    /\ widx = Published % IndexMod /\ ridx = Taken % IndexMod
    /\ IF rt \in {"copy", "update"} THEN copy > 0 /\ copy <= Published - Taken ELSE copy = 0

(* Every frame that was read from the file and not taken yet is in its     *)
(* slot of the ring.                                                       *)
RingHolds == \A f \in (Taken + 1)..pos : buffer[(f - 1) % Size] = f

(* A thread is between lock and unlock; a check is still ahead of it.      *)
Filling == {"refill", "publish", "check"}
Inside  == Filling \cup {"callback", "unlock"}

Threading ==
    /\ at = [client |-> at.client, loop |-> at.loop]
    /\ lock = "client" <=> at.client \in Inside \cup {"stopInside"}
    /\ lock = "client" => at.loop = "poll"
    /\ lock = "loop" <=> at.loop \in Inside
    /\ at.client # "publish" /\ at.loop # "publish" => written = 0
    /\ at.client \in {"destroy", "free"} => at.loop = "exited"
    /\ at.client = "free" => rt = "off"

(* The checks that may still find the sound finished: one of the thread    *)
(* that fills, one for the signal that waits, one for the signal not sent. *)
One(condition) == IF condition THEN 1 ELSE 0
ChecksAhead ==
    One(at.client \in Filling \/ at.loop \in Filling) + One(eventfd) + One(rt = "signal")

Finishing ==
    /\ eof => pos = length
    /\ finished > 0 /\ length < IndexMod =>
          Taken = length /\ Published = length /\ finished + ChecksAhead <= 3

SoundInv ==
    /\ Typed /\ Threading /\ Counters /\ RingHolds /\ PlayedInOrder /\ Finishing
    /\ NoUseAfterFree

-----------------------------------------------------------------------------
LEMMA Sizes ==
    /\ Size \in Nat \ {0} /\ LocalSize \in Nat \ {0} /\ IndexMod \in Nat \ {0}
    /\ Size < IndexMod /\ IndexMod % Size = 0
BY SoundAssumption

LEMMA CounterFacts ==
    ASSUME Typed, Counters
    PROVE  /\ length \in Nat /\ pos \in Nat /\ written \in Nat /\ pos <= length
           /\ Taken \in Nat /\ Published \in Nat /\ Published = pos - written
           /\ Taken <= Published /\ pos <= Taken + Size /\ Published <= pos
           /\ Len(heard) \in Nat /\ copy \in Nat
           /\ Taken = IF rt = "update" THEN Len(heard) - copy ELSE Len(heard)
<1>1. length \in Nat /\ pos \in Nat /\ written \in Nat /\ pos <= length
      /\ Len(heard) \in Nat /\ copy \in Nat
    BY SoundAssumption DEF Typed
<1>. QED BY <1>1, Sizes DEF Counters, Published, Taken

(* The indices' distance is that of the counters. *)
LEMMA UsedIs ==
    ASSUME Typed, Counters
    PROVE  Used = Published - Taken
<1>. DEFINE d == Published - Taken
<1>0. /\ Taken \in Nat /\ Published \in Nat /\ pos \in Nat
      /\ Taken <= Published /\ pos <= Taken + Size /\ Published <= pos
    BY CounterFacts
<1>1. d \in Nat /\ d < IndexMod /\ Taken \in Nat /\ IndexMod \in Nat \ {0} /\ Taken + d = Published
    BY <1>0, Sizes
<1>. HIDE DEF d
<1>2. (((Taken + d) % IndexMod) + (IndexMod - (Taken % IndexMod))) % IndexMod = d
    BY <1>1, ModDistance
<1>3. widx = (Taken + d) % IndexMod /\ ridx = Taken % IndexMod /\ widx \in Nat /\ ridx \in Nat
    <2>1. widx \in Nat /\ ridx \in Nat
        BY Sizes DEF Typed, Index
    <2>. QED BY <1>1, <2>1 DEF Counters
<1>4. (widx + (IndexMod - ridx)) % IndexMod = d
    BY <1>2, <1>3
<1>5. widx + IndexMod - ridx = widx + (IndexMod - ridx)
    BY <1>1, <1>3
<1>. QED BY <1>4, <1>5 DEF Used, d

(* An index finds the slot its counter would find. *)
LEMMA SlotOf ==
    ASSUME NEW a \in Nat, NEW j \in Nat
    PROVE  /\ ((a % IndexMod) + j) % Size = (a + j) % Size
           /\ (a + j) % Size \in Slot
<1>0. Size \in Nat \ {0} /\ IndexMod \in Nat \ {0} /\ IndexMod % Size = 0
    BY Sizes
<1>1. ((a % IndexMod) + j) % Size = (a + j) % Size
    <2>1. \A b \in Nat, n \in Nat \ {0}, m \in Nat \ {0} :
              m % n = 0 => ((a % m) + b) % n = (a + b) % n
        BY ModOfMod, Zenon
    <2>. QED BY <1>0, <2>1, Zenon
<1>2. a + j \in Nat
    OBVIOUS
<1>. QED BY <1>1, <1>2, Sizes, ModFacts DEF Slot

LEMMA WrapsIn == \A a \in Nat : a % IndexMod \in Index
BY Sizes, ModFacts DEF Index

LEMMA IndexMoves ==
    ASSUME NEW a \in Nat, NEW b \in Nat
    PROVE  ((a % IndexMod) + b) % IndexMod = (a + b) % IndexMod
BY Sizes, ModShift

(* Where a thread goes, and where the other one stays. *)
LEMMA Goes ==
    ASSUME Threading, NEW place
    PROVE  /\ at["client"] = at.client /\ at["loop"] = at.loop
           /\ Goto("client", place) => /\ at' = [client |-> place, loop |-> at.loop]
                                       /\ at'.client = place /\ at'.loop = at.loop
           /\ Goto("loop", place)   => /\ at' = [client |-> at.client, loop |-> place]
                                       /\ at'.client = at.client /\ at'.loop = place
<1>1. at = [client |-> at.client, loop |-> at.loop]
    BY DEF Threading
<1>. DEFINE c == at.client
            l == at.loop
<1>2. at = [client |-> c, loop |-> l]
    BY <1>1
<1>. HIDE DEF c, l
<1>3. at["client"] = c /\ at["loop"] = l
    BY <1>2
<1>4. [at EXCEPT !["client"] = place] = [client |-> place, loop |-> l]
    BY <1>2
<1>5. [at EXCEPT !["loop"] = place] = [client |-> c, loop |-> place]
    BY <1>2
<1>. QED BY <1>3, <1>4, <1>5 DEF Goto, c, l

LEMMA InvTypes == SoundInv => TypeOK
<1>. SUFFICES ASSUME SoundInv PROVE TypeOK
    OBVIOUS
<1>1. Typed /\ Counters
    BY DEF SoundInv
<1>2. Used + written <= Size /\ copy <= Used
    <2>1. /\ Taken \in Nat /\ Published \in Nat /\ pos \in Nat /\ written \in Nat
          /\ Published = pos - written /\ pos <= Taken + Size /\ Taken <= Published
        BY <1>1, CounterFacts
    <2>2. Used = Published - Taken
        BY <1>1, UsedIs
    <2>3. copy <= Published - Taken
        BY <1>1, <2>1 DEF Counters
    <2>. QED BY <2>1, <2>2, <2>3, Sizes
<1>. QED BY <1>1, <1>2 DEF TypeOK

-----------------------------------------------------------------------------
(* A sound that begins to play, and the state before the first one.        *)
LEMMA FreshSound ==
    ASSUME length' \in FileLengths, pos' = 0, eof' = FALSE, eventfd' = FALSE, quit' = FALSE,
           ridx' = 0, widx' = 0, buffer' = [s \in Slot |-> 0], written' = 0,
           copy' = 0, heard' = <<>>, finished' = 0,
           \/ /\ source' = "none" /\ lock' = "free" /\ rt' = "off"
              /\ at' = [client |-> "idle", loop |-> "none"]
           \/ /\ source' = "exists" /\ lock' = "client" /\ rt' = "idle"
              /\ at' = [client |-> "refill", loop |-> "poll"]
    PROVE  SoundInv'
<1>1. length' \in Nat
    BY SoundAssumption
<1>2. Taken' = 0 /\ Published' = 0
    BY DEF Taken, Published
<1>3. 0 \in Index /\ 0 % IndexMod = 0
    BY Sizes DEF Index
<1>4. Typed'
    <2>1. buffer' \in [Slot -> 0..length'] /\ 0 \in 0..Size /\ 0 \in 0..MaxFinished
          /\ heard' \in Seq(0..length')
        BY <1>1, Sizes DEF MaxFinished
    <2>2. /\ source' \in {"none", "exists", "freed", "freedByCallback"}
          /\ lock' \in Threads \cup {"free"}
          /\ rt' \in {"off", "idle", "copy", "update", "signal"}
        BY DEF Threads
    <2>3. /\ at'.client \in {"idle", "refill", "publish", "check", "callback", "unlock",
                              "playing", "stop", "stopInside", "destroy", "free"}
          /\ at'.loop \in {"none", "poll", "refill", "publish", "check", "callback", "unlock",
                            "exited"}
        OBVIOUS
    <2>4. pos' \in 0..length' /\ ridx' \in Index /\ widx' \in Index /\ written' \in Nat
        BY <1>1, <1>3
    <2>. QED BY <2>1, <2>2, <2>3, <2>4 DEF Typed
<1>5. Threading'
    BY DEF Threading, Inside, Filling
<1>6. Counters'
    BY <1>2, <1>3, Sizes DEF Counters
<1>7. RingHolds' /\ PlayedInOrder'
    BY <1>2 DEF RingHolds, PlayedInOrder
<1>8. Finishing' /\ NoUseAfterFree'
    BY DEF Finishing, NoUseAfterFree
<1>. QED BY <1>4, <1>5, <1>6, <1>7, <1>8 DEF SoundInv

LEMMA InitSound == Init => SoundInv
<1>. SUFFICES ASSUME Init PROVE SoundInv
    OBVIOUS
<1>1. length \in Nat /\ length \in FileLengths
    BY SoundAssumption DEF Init
<1>2. Taken = 0 /\ Published = 0
    BY DEF Init, Taken, Published
<1>3. 0 \in Index /\ 0 % IndexMod = 0
    BY Sizes DEF Index
<1>4. Typed
    <2>1. buffer \in [Slot -> 0..length] /\ 0 \in 0..Size /\ 0 \in 0..MaxFinished
          /\ heard \in Seq(0..length)
        BY <1>1, Sizes DEF MaxFinished, Init
    <2>2. at.client = "idle" /\ at.loop = "none"
        BY DEF Init
    <2>3. /\ source = "none" /\ lock = "free" /\ eventfd = FALSE /\ quit = FALSE /\ eof = FALSE
          /\ pos = 0 /\ ridx = 0 /\ widx = 0 /\ written = 0
          /\ rt = "off" /\ copy = 0 /\ finished = 0
        BY DEF Init
    <2>4. pos \in 0..length /\ ridx \in Index /\ widx \in Index /\ written \in Nat
        BY <1>1, <1>3, <2>3
    <2>. QED BY <1>1, <2>1, <2>2, <2>3, <2>4 DEF Typed, Threads
<1>5. Threading
    BY DEF Threading, Inside, Filling, Init
<1>6. Counters
    BY <1>2, <1>3, Sizes DEF Counters, Init
<1>7. RingHolds /\ PlayedInOrder
    BY <1>2 DEF RingHolds, PlayedInOrder, Init
<1>8. Finishing /\ NoUseAfterFree
    BY DEF Finishing, NoUseAfterFree, Init
<1>. QED BY <1>4, <1>5, <1>6, <1>7, <1>8 DEF SoundInv

-----------------------------------------------------------------------------
(* Steps that move no frame. *)
LEMMA SameData ==
    ASSUME SoundInv, UNCHANGED <<length, pos, ridx, widx, buffer, written, copy, heard>>,
           rt' = rt \/ (rt \notin {"copy", "update"} /\ rt' \notin {"copy", "update"})
    PROVE  /\ Counters' /\ RingHolds' /\ PlayedInOrder'
           /\ Taken' = Taken /\ Published' = Published
<1>1. Taken' = Taken /\ Published' = Published
    BY DEF Taken, Published
<1>2. Counters'
    BY <1>1 DEF SoundInv, Counters
<1>3. RingHolds' /\ PlayedInOrder'
    BY <1>1 DEF SoundInv, RingHolds, PlayedInOrder
<1>. QED BY <1>1, <1>2, <1>3

ClientPlaces == {"idle", "refill", "publish", "check", "callback", "unlock",
                 "playing", "stop", "stopInside", "destroy", "free"}
LoopPlaces   == {"none", "poll", "refill", "publish", "check", "callback", "unlock", "exited"}

LEMMA StaysTyped ==
    ASSUME Typed, UNCHANGED <<length, pos, ridx, widx, buffer, written, copy, heard>>,
           source' \in {"none", "exists", "freed", "freedByCallback"},
           eof' \in BOOLEAN, eventfd' \in BOOLEAN, quit' \in BOOLEAN,
           lock' \in Threads \cup {"free"},
           at'.client \in ClientPlaces, at'.loop \in LoopPlaces,
           rt' \in {"off", "idle", "copy", "update", "signal"},
           finished' \in 0..MaxFinished
    PROVE  Typed'
<1>1. /\ length' \in FileLengths /\ pos' \in 0..length'
      /\ ridx' \in Index /\ widx' \in Index /\ written' \in Nat
      /\ buffer' \in [Slot -> 0..length'] /\ copy' \in 0..Size /\ heard' \in Seq(0..length')
    BY DEF Typed
<1>. QED BY <1>1 DEF Typed, ClientPlaces, LoopPlaces

(* Who is between lock and unlock is there alone. *)
LEMMA Alone ==
    ASSUME SoundInv, NEW t \in Threads, at[t] \in Inside
    PROVE  /\ t = "client" => at.client = at[t] /\ at.loop \notin Inside
           /\ t = "loop" => at.loop = at[t] /\ at.client \notin Inside
           /\ lock = t
           /\ at[t] # "publish" => written = 0
           /\ source # "freed"
<1>1. at["client"] = at.client /\ at["loop"] = at.loop
    BY Goes DEF SoundInv
<1>2. t = "client" \/ t = "loop"
    BY DEF Threads
<1>3. source # "freed"
    BY <1>1, <1>2 DEF SoundInv, NoUseAfterFree, NobodyInside, Inside, Filling
<1>. QED BY <1>1, <1>2, <1>3 DEF SoundInv, Threading, Inside, Filling

LEMMA MovesInside ==
    ASSUME SoundInv, NEW t \in Threads, at[t] \in Inside,
           NEW place \in Inside, Goto(t, place), UNCHANGED <<lock, rt>>,
           place # "publish" => written' = 0
    PROVE  /\ Threading'
           /\ at'.client \in ClientPlaces /\ at'.loop \in LoopPlaces
           /\ (at'.client \in Filling \/ at'.loop \in Filling) <=> place \in Filling
           /\ (at.client \in Filling \/ at.loop \in Filling) <=> at[t] \in Filling
<1>1. /\ t = "client" => at.client = at[t] /\ at.loop \notin Inside
      /\ t = "loop" => at.loop = at[t] /\ at.client \notin Inside
      /\ lock = t
    BY Alone
<1>2. /\ t = "client" => /\ at' = [client |-> place, loop |-> at.loop]
                         /\ at'.client = place /\ at'.loop = at.loop
      /\ t = "loop"   => /\ at' = [client |-> at.client, loop |-> place]
                         /\ at'.client = at.client /\ at'.loop = place
    BY Goes DEF SoundInv
<1>3. at.client \in ClientPlaces /\ at.loop \in LoopPlaces
    BY DEF SoundInv, Typed, ClientPlaces, LoopPlaces
<1>4. CASE t = "client"
    BY <1>1, <1>2, <1>3, <1>4 DEF SoundInv, Threading, Inside, Filling, ClientPlaces
<1>5. CASE t = "loop"
    BY <1>1, <1>2, <1>3, <1>5 DEF SoundInv, Threading, Inside, Filling, LoopPlaces
<1>. QED BY <1>4, <1>5 DEF Threads

-----------------------------------------------------------------------------
(* The client and the loop between lock and unlock. *)

(* What it means that the sound is found finished. *)
LEMMA DoneMeans ==
    ASSUME SoundInv, written = 0, Done, length < IndexMod
    PROVE  Taken = length /\ Published = length
<1>1. eof /\ ridx >= widx
    BY DEF Done
<1>2. pos = length /\ widx = Published % IndexMod /\ ridx = Taken % IndexMod
    BY <1>1 DEF SoundInv, Finishing, Counters
<1>3. /\ length \in Nat /\ Taken \in Nat /\ Published = pos - written /\ pos \in Nat
      /\ Taken <= Published
    BY CounterFacts DEF SoundInv
<1>4. Published = length /\ Taken \in 0..(IndexMod - 1) /\ length \in 0..(IndexMod - 1)
    BY <1>2, <1>3, Sizes
<1>5. widx = length /\ ridx = Taken
    BY <1>2, <1>4, ModSmall, Sizes
<1>. QED BY <1>1, <1>3, <1>4, <1>5

LEMMA CheckSound == ASSUME SoundInv, NEW t \in Threads, Check(t) PROVE SoundInv'
<1>. DEFINE place == IF Done THEN "callback" ELSE "unlock"
<1>1. /\ at[t] = "check" /\ Goto(t, place)
      /\ finished' = IF Done THEN Least(finished + 1, MaxFinished) ELSE finished
      /\ UNCHANGED <<source, length, pos, eof, ridx, widx, buffer, written, eventfd, lock,
                     quit, rt, copy, heard>>
    BY DEF Check, file, write, loop, play
<1>2. at[t] \in Inside /\ at[t] \in Filling /\ place \in Inside /\ place \notin Filling
    BY <1>1 DEF Inside, Filling
<1>3. written = 0 /\ source # "freed"
    BY <1>1, <1>2, Alone
<1>4. /\ Threading' /\ at'.client \in ClientPlaces /\ at'.loop \in LoopPlaces
      /\ ~(at'.client \in Filling \/ at'.loop \in Filling)
      /\ (at.client \in Filling \/ at.loop \in Filling)
    BY <1>1, <1>2, <1>3, MovesInside
<1>5. Counters' /\ RingHolds' /\ PlayedInOrder' /\ Taken' = Taken /\ Published' = Published
    BY <1>1, SameData
<1>6. /\ finished \in Nat /\ finished' \in Nat
      /\ finished \in 0..MaxFinished /\ finished' \in 0..MaxFinished
    BY <1>1 DEF SoundInv, Typed, Least, MaxFinished
<1>7. Typed'
    BY <1>1, <1>4, <1>6, StaysTyped DEF SoundInv, Typed
<1>8. ChecksAhead \in 0..3 /\ ChecksAhead' = ChecksAhead - 1
    BY <1>1, <1>4 DEF ChecksAhead, One
<1>9. Finishing'
    <2>1. eof' => pos' = length'
        BY <1>1 DEF SoundInv, Finishing
    <2>2. ASSUME finished' > 0, length < IndexMod
          PROVE  Taken = length /\ Published = length /\ finished' + ChecksAhead' <= 3
        <3>1. CASE finished > 0
            <4>1. Taken = length /\ Published = length /\ finished + ChecksAhead <= 3
                BY <2>2, <3>1 DEF SoundInv, Finishing
            <4>2. finished' <= finished + 1
                BY <1>1, <1>6 DEF Least, MaxFinished
            <4>3. PICK x \in 0..3 : x = ChecksAhead
                BY <1>8
            <4>4. PICK a \in Nat, b \in Nat : a = finished /\ b = finished'
                BY <1>6
            <4>5. a + x <= 3 /\ b <= a + 1
                BY <4>1, <4>2, <4>3, <4>4
            <4>6. b + (x - 1) <= 3
                BY <4>5
            <4>. QED BY <4>1, <4>3, <4>4, <4>6, <1>8
        <3>2. CASE ~(finished > 0)
            <4>1. Done /\ finished' = 1
                BY <1>1, <1>6, <2>2, <3>2 DEF Least, MaxFinished
            <4>2. Taken = length /\ Published = length
                BY <1>3, <2>2, <4>1, DoneMeans
            <4>. QED BY <4>1, <4>2, <1>8
        <3>. QED BY <3>1, <3>2
    <2>. QED BY <1>1, <1>5, <2>1, <2>2 DEF Finishing
<1>10. NoUseAfterFree'
    BY <1>1, <1>3 DEF NoUseAfterFree
<1>. QED BY <1>4, <1>5, <1>7, <1>9, <1>10 DEF SoundInv

LEMMA CallbackReturnsSound ==
    ASSUME SoundInv, NEW t \in Threads, CallbackReturns(t)
    PROVE  SoundInv'
<1>1. /\ at[t] = "callback" /\ Goto(t, "unlock")
      /\ UNCHANGED <<source, length, pos, eof, ridx, widx, buffer, written, eventfd, lock,
                     quit, rt, copy, heard, finished>>
    BY DEF CallbackReturns, file, write, loop, play
<1>2. at[t] \in Inside /\ at[t] \notin Filling /\ "unlock" \in Inside /\ "unlock" \notin Filling
    BY <1>1 DEF Inside, Filling
<1>3. written = 0 /\ source # "freed"
    BY <1>1, <1>2, Alone
<1>4. /\ Threading' /\ at'.client \in ClientPlaces /\ at'.loop \in LoopPlaces
      /\ ~(at'.client \in Filling \/ at'.loop \in Filling)
      /\ ~(at.client \in Filling \/ at.loop \in Filling)
    BY <1>1, <1>2, <1>3, MovesInside
<1>5. Counters' /\ RingHolds' /\ PlayedInOrder' /\ Taken' = Taken /\ Published' = Published
    BY <1>1, SameData
<1>6. Typed'
    BY <1>1, <1>4, StaysTyped DEF SoundInv, Typed
<1>7. ChecksAhead' = ChecksAhead
    BY <1>1, <1>4 DEF ChecksAhead, One
<1>8. Finishing' /\ NoUseAfterFree'
    BY <1>1, <1>3, <1>5, <1>7 DEF SoundInv, Finishing, NoUseAfterFree
<1>. QED BY <1>4, <1>5, <1>6, <1>8 DEF SoundInv

LEMMA UnlockSound == ASSUME SoundInv, NEW t \in Threads, Unlock(t) PROVE SoundInv'
<1>1. /\ at[t] = "unlock" /\ lock' = "free"
      /\ Goto(t, IF t = "client" THEN "playing" ELSE "poll")
      /\ UNCHANGED <<source, length, pos, eof, ridx, widx, buffer, written, eventfd,
                     quit, rt, copy, heard, finished>>
    BY DEF Unlock, file, write, play
<1>2. at[t] \in Inside
    BY <1>1 DEF Inside
<1>3. /\ t = "client" => at.client = "unlock" /\ at.loop \notin Inside
      /\ t = "loop" => at.loop = "unlock" /\ at.client \notin Inside
      /\ written = 0 /\ source # "freed"
    BY <1>1, <1>2, Alone
<1>4. /\ t = "client" => /\ at' = [client |-> "playing", loop |-> at.loop]
                         /\ at'.client = "playing" /\ at'.loop = at.loop
      /\ t = "loop"   => /\ at' = [client |-> at.client, loop |-> "poll"]
                         /\ at'.client = at.client /\ at'.loop = "poll"
    BY <1>1, Goes DEF SoundInv
<1>5. t = "client" \/ t = "loop"
    BY DEF Threads
<1>6. at.client \in ClientPlaces /\ at.loop \in LoopPlaces
    BY DEF SoundInv, Typed, ClientPlaces, LoopPlaces
<1>7. Threading' /\ at'.client \in ClientPlaces /\ at'.loop \in LoopPlaces
    BY <1>1, <1>3, <1>4, <1>5, <1>6
       DEF SoundInv, Threading, Inside, Filling, ClientPlaces, LoopPlaces
<1>8. Counters' /\ RingHolds' /\ PlayedInOrder' /\ Taken' = Taken /\ Published' = Published
    BY <1>1, SameData
<1>9. Typed'
    BY <1>1, <1>7, StaysTyped DEF SoundInv, Typed, Threads
<1>10. ChecksAhead' = ChecksAhead
    BY <1>1, <1>3, <1>4, <1>5 DEF ChecksAhead, One, Filling, Inside
<1>11. Finishing' /\ NoUseAfterFree'
    BY <1>1, <1>3, <1>8, <1>10 DEF SoundInv, Finishing, NoUseAfterFree
<1>. QED BY <1>7, <1>8, <1>9, <1>11 DEF SoundInv

-----------------------------------------------------------------------------
(* Steps of the client and the loop outside of their mutex, and the end.   *)
LEMMA CallbackFreesSound == ASSUME SoundInv, CallbackFrees PROVE SoundInv'
<1>1. /\ at.loop = "callback" /\ at.client = "playing" /\ rt = "idle"
      /\ source' = "freedByCallback" /\ quit' = TRUE /\ rt' = "off"
      /\ at' = [client |-> "idle", loop |-> "unlock"]
      /\ UNCHANGED <<length, pos, eof, ridx, widx, buffer, written, eventfd, lock,
                     copy, heard, finished>>
    BY DEF CallbackFrees, file, write
<1>2. at'.client = "idle" /\ at'.loop = "unlock"
    BY <1>1
<1>3. Threading' /\ at'.client \in ClientPlaces /\ at'.loop \in LoopPlaces
    BY <1>1, <1>2 DEF SoundInv, Threading, Inside, Filling, ClientPlaces, LoopPlaces
<1>4. Counters' /\ RingHolds' /\ PlayedInOrder' /\ Taken' = Taken /\ Published' = Published
    BY <1>1, SameData
<1>5. Typed'
    BY <1>1, <1>3, StaysTyped DEF SoundInv, Typed
<1>6. ChecksAhead' = ChecksAhead
    BY <1>1, <1>2 DEF ChecksAhead, One, Filling
<1>7. Finishing' /\ NoUseAfterFree'
    BY <1>1, <1>4, <1>6 DEF SoundInv, Finishing, NoUseAfterFree
<1>. QED BY <1>3, <1>4, <1>5, <1>7 DEF SoundInv

LEMMA DispatchSound == ASSUME SoundInv, Dispatch PROVE SoundInv'
<1>1. /\ at.loop = "poll" /\ eventfd /\ lock = "free"
      /\ eventfd' = FALSE /\ lock' = "loop" /\ Goto("loop", "refill")
      /\ UNCHANGED <<source, length, pos, eof, ridx, widx, buffer, written, quit,
                     rt, copy, heard, finished>>
    BY DEF Dispatch, file, write, play
<1>2. /\ at' = [client |-> at.client, loop |-> "refill"]
      /\ at'.client = at.client /\ at'.loop = "refill" /\ at.client \notin Inside
    BY <1>1, Goes DEF SoundInv, Threading
<1>3. Threading' /\ at'.client \in ClientPlaces /\ at'.loop \in LoopPlaces
    BY <1>1, <1>2 DEF SoundInv, Threading, Typed, Inside, Filling, ClientPlaces, LoopPlaces
<1>4. Counters' /\ RingHolds' /\ PlayedInOrder' /\ Taken' = Taken /\ Published' = Published
    BY <1>1, SameData
<1>5. Typed'
    BY <1>1, <1>3, StaysTyped DEF SoundInv, Typed, Threads
<1>6. ChecksAhead' = ChecksAhead
    BY <1>1, <1>2 DEF ChecksAhead, One, Filling, Inside
<1>7. Finishing' /\ NoUseAfterFree'
    BY <1>1, <1>4, <1>6 DEF SoundInv, Finishing, NoUseAfterFree, NobodyInside
<1>. QED BY <1>3, <1>4, <1>5, <1>7 DEF SoundInv

LEMMA LoopExitsSound == ASSUME SoundInv, LoopExits PROVE SoundInv'
<1>1. /\ at.loop = "poll" /\ lock = "free" /\ Goto("loop", "exited")
      /\ UNCHANGED <<source, length, pos, eof, ridx, widx, buffer, written, eventfd, lock,
                     quit, rt, copy, heard, finished>>
    BY DEF LoopExits, file, write, loop, play
<1>2. /\ at' = [client |-> at.client, loop |-> "exited"]
      /\ at'.client = at.client /\ at'.loop = "exited"
    BY <1>1, Goes DEF SoundInv
<1>3. Threading' /\ at'.client \in ClientPlaces /\ at'.loop \in LoopPlaces
    BY <1>1, <1>2 DEF SoundInv, Threading, Typed, Inside, Filling, ClientPlaces, LoopPlaces
<1>4. Counters' /\ RingHolds' /\ PlayedInOrder' /\ Taken' = Taken /\ Published' = Published
    BY <1>1, SameData
<1>5. Typed'
    BY <1>1, <1>3, StaysTyped DEF SoundInv, Typed
<1>6. ChecksAhead' = ChecksAhead
    BY <1>1, <1>2 DEF ChecksAhead, One, Filling
<1>7. Finishing' /\ NoUseAfterFree'
    BY <1>1, <1>2, <1>4, <1>6 DEF SoundInv, Finishing, NoUseAfterFree, NobodyInside
<1>. QED BY <1>3, <1>4, <1>5, <1>7 DEF SoundInv

(* A stop from inside play_async: the loop is told, the mutex is not released. *)
LEMMA CallbackStopsSound == ASSUME SoundInv, CallbackStops PROVE SoundInv'
<1>1. /\ at.client = "callback" /\ quit' = TRUE /\ Goto("client", "stopInside")
      /\ UNCHANGED <<source, length, pos, eof, ridx, widx, buffer, written, eventfd, lock,
                     rt, copy, heard, finished>>
    BY DEF CallbackStops, file, write, play
<1>2. /\ at' = [client |-> "stopInside", loop |-> at.loop]
      /\ at'.client = "stopInside" /\ at'.loop = at.loop
    BY <1>1, Goes DEF SoundInv
<1>3. Threading' /\ at'.client \in ClientPlaces /\ at'.loop \in LoopPlaces
    BY <1>1, <1>2 DEF SoundInv, Threading, Typed, Inside, Filling, ClientPlaces, LoopPlaces
<1>4. Counters' /\ RingHolds' /\ PlayedInOrder' /\ Taken' = Taken /\ Published' = Published
    BY <1>1, SameData
<1>5. Typed'
    BY <1>1, <1>3, StaysTyped DEF SoundInv, Typed
<1>6. ChecksAhead' = ChecksAhead
    BY <1>1, <1>2 DEF ChecksAhead, One, Filling
<1>7. Finishing' /\ NoUseAfterFree'
    BY <1>1, <1>4, <1>6 DEF SoundInv, Finishing, NoUseAfterFree, NobodyInside
<1>. QED BY <1>3, <1>4, <1>5, <1>7 DEF SoundInv

(* ctm_sound_stop, from the client: it is told, it waits, it frees. *)
LEMMA StopSound == ASSUME SoundInv, Stop \/ Joined \/ Destroy \/ Free PROVE SoundInv'
<1>1. /\ eventfd' = eventfd /\ lock' = lock /\ finished' = finished
      /\ UNCHANGED <<length, pos, eof, ridx, widx, buffer, written, copy, heard>>
      /\ quit' \in BOOLEAN
    BY DEF SoundInv, Typed, Stop, Joined, Destroy, Free, file, write, loop, play
<1>2. \/ /\ at.client = "playing" /\ Goto("client", "stop")
         /\ source' = source /\ rt' = rt
      \/ /\ at.client = "stop" /\ at.loop = "exited" /\ Goto("client", "destroy")
         /\ source' = source /\ rt' = rt
      \/ /\ at.client = "destroy" /\ rt = "idle" /\ rt' = "off" /\ Goto("client", "free")
         /\ source' = source
      \/ /\ at.client = "free" /\ source' = "freed" /\ Goto("client", "idle") /\ rt' = rt
    <2>1. CASE Stop
        BY <2>1 DEF Stop, play
    <2>2. CASE Joined
        <3>1. at.client # "stopInside"
            BY <2>2 DEF Joined, LoopIsOver, SoundInv, Threading
        <3>. QED BY <2>2, <3>1 DEF Joined, LoopIsOver, play
    <2>3. CASE Destroy
        BY <2>3 DEF Destroy
    <2>4. CASE Free
        BY <2>4 DEF Free, play
    <2>. QED BY <2>1, <2>2, <2>3, <2>4
<1>3. at'.loop = at.loop /\ at' = [client |-> at'.client, loop |-> at'.loop]
    BY <1>2, Goes DEF SoundInv
<1>4. \/ /\ at.client = "playing" /\ at'.client = "stop"
         /\ source' = source /\ rt' = rt
      \/ /\ at.client = "stop" /\ at.loop = "exited" /\ at'.client = "destroy"
         /\ source' = source /\ rt' = rt
      \/ /\ at.client = "destroy" /\ rt = "idle" /\ rt' = "off" /\ at'.client = "free"
         /\ source' = source
      \/ /\ at.client = "free" /\ source' = "freed" /\ at'.client = "idle" /\ rt' = rt
    BY <1>2, Goes DEF SoundInv
<1>5. Threading' /\ at'.client \in ClientPlaces /\ at'.loop \in LoopPlaces
    BY <1>1, <1>3, <1>4
       DEF SoundInv, Threading, Typed, Inside, Filling, ClientPlaces, LoopPlaces
<1>6. Counters' /\ RingHolds' /\ PlayedInOrder' /\ Taken' = Taken /\ Published' = Published
    BY <1>1, <1>4, SameData
<1>7. Typed'
    <2>1. /\ source' \in {"none", "exists", "freed", "freedByCallback"}
          /\ rt' \in {"off", "idle", "copy", "update", "signal"}
        BY <1>4 DEF SoundInv, Typed
    <2>. QED BY <1>1, <1>5, <2>1, StaysTyped DEF SoundInv, Typed
<1>8. ChecksAhead' = ChecksAhead
    BY <1>1, <1>3, <1>4 DEF ChecksAhead, One, Filling
<1>9. Finishing'
    BY <1>1, <1>6, <1>8 DEF SoundInv, Finishing
<1>10. NoUseAfterFree'
    BY <1>3, <1>4 DEF SoundInv, Threading, NoUseAfterFree, NobodyInside
<1>. QED BY <1>5, <1>6, <1>7, <1>9, <1>10 DEF SoundInv

LEMMA RtSignalSound == ASSUME SoundInv, RtSignal PROVE SoundInv'
<1>1. /\ rt = "signal" /\ eventfd' = TRUE /\ rt' = "idle"
      /\ UNCHANGED <<source, length, pos, eof, ridx, widx, buffer, written, lock,
                     quit, at, copy, heard, finished>>
    BY DEF RtSignal, file, write
<1>2. Threading' /\ at'.client \in ClientPlaces /\ at'.loop \in LoopPlaces
    BY <1>1 DEF SoundInv, Threading, Typed, Inside, Filling, ClientPlaces, LoopPlaces
<1>3. Counters' /\ RingHolds' /\ PlayedInOrder' /\ Taken' = Taken /\ Published' = Published
    BY <1>1, SameData
<1>4. Typed'
    BY <1>1, <1>2, StaysTyped DEF SoundInv, Typed
<1>5. ChecksAhead' \in 0..3 /\ ChecksAhead \in 0..3 /\ ChecksAhead' <= ChecksAhead
    BY <1>1 DEF ChecksAhead, One
<1>6. finished \in Nat
    BY DEF SoundInv, Typed, MaxFinished
<1>7. Finishing'
    <2>1. PICK x \in 0..3, y \in 0..3 : x = ChecksAhead /\ y = ChecksAhead'
        BY <1>5
    <2>2. y <= x
        BY <1>5, <2>1
    <2>3. finished + x <= 3 => finished + y <= 3
        BY <1>6, <2>2
    <2>4. /\ eof => pos = length
          /\ finished > 0 /\ length < IndexMod =>
                Taken = length /\ Published = length /\ finished + x <= 3
        BY <2>1 DEF SoundInv, Finishing
    <2>. QED BY <1>1, <1>3, <2>1, <2>3, <2>4 DEF Finishing
<1>8. NoUseAfterFree'
    BY <1>1 DEF SoundInv, NoUseAfterFree, NobodyInside
<1>. QED BY <1>2, <1>3, <1>4, <1>7, <1>8 DEF SoundInv

-----------------------------------------------------------------------------
(* The steps of rt that move the frames: nobody stops it, so each of them  *)
(* must be right wherever the writer is.                                   *)

(* While frames are left the sound was not found finished. *)
LEMMA NotOver ==
    ASSUME SoundInv, Published # Taken
    PROVE  ~(finished > 0 /\ length < IndexMod)
BY DEF SoundInv, Finishing

LEMMA RtLookSound == ASSUME SoundInv, RtLook PROVE SoundInv'
<1>1. /\ rt = "idle" /\ rt' = "copy" /\ Used > 0
      /\ UNCHANGED <<source, length, pos, eof, ridx, widx, buffer, written, eventfd, lock,
                     quit, at, heard, finished>>
    BY DEF RtLook, file, write, loop
<1>2. PICK r \in Requests : copy' = Least(r, Used)
    BY DEF RtLook
<1>3. PICK u \in Nat : u = Used /\ u = Published - Taken /\ u <= Size /\ Taken \in Nat
    <2>1. /\ Taken \in Nat /\ Published \in Nat /\ Taken <= Published /\ pos \in Nat
          /\ Published <= pos /\ pos <= Taken + Size
        BY CounterFacts DEF SoundInv
    <2>2. Used = Published - Taken
        BY UsedIs DEF SoundInv
    <2>. QED BY <2>1, <2>2, Sizes
<1>4. copy' \in 0..Size /\ copy' > 0 /\ copy' <= u
    <2>1. r \in Nat /\ r > 0 /\ u > 0
        BY <1>1, <1>3, SoundAssumption
    <2>. QED BY <1>2, <1>3, <2>1, Sizes DEF Least
<1>5. Taken' = Taken /\ Published' = Published
    BY <1>1 DEF Taken, Published
<1>6. Counters'
    BY <1>1, <1>3, <1>4, <1>5 DEF SoundInv, Counters
<1>7. RingHolds' /\ PlayedInOrder'
    BY <1>1, <1>5 DEF SoundInv, RingHolds, PlayedInOrder
<1>8. Typed'
    <2>1. rt' \in {"off", "idle", "copy", "update", "signal"}
        BY <1>1
    <2>. QED BY <1>1, <1>4, <2>1 DEF SoundInv, Typed
<1>9. Threading' /\ NoUseAfterFree'
    BY <1>1 DEF SoundInv, Threading, NoUseAfterFree, NobodyInside
<1>10. Finishing'
    <2>1. Published # Taken
        BY <1>1, <1>3
    <2>2. ~(finished > 0 /\ length < IndexMod)
        BY <2>1, NotOver
    <2>. QED BY <1>1, <2>2 DEF SoundInv, Finishing
<1>. QED BY <1>6, <1>7, <1>8, <1>9, <1>10 DEF SoundInv

LEMMA RtCopySound == ASSUME SoundInv, RtCopy PROVE SoundInv'
<1>. DEFINE piece == [i \in 1..copy |-> buffer[(ridx + i - 1) % Size]]
<1>1. /\ rt = "copy" /\ rt' = "update" /\ heard' = heard \o piece
      /\ UNCHANGED <<source, length, pos, eof, ridx, widx, buffer, written, eventfd, lock,
                     quit, at, copy, finished>>
    BY DEF RtCopy, file, write, loop
<1>2. /\ copy \in Nat /\ copy > 0 /\ copy <= Published - Taken /\ Taken = Len(heard)
      /\ Taken \in Nat /\ Published \in Nat /\ pos \in Nat /\ Published <= pos
      /\ length \in Nat /\ pos <= length
    BY <1>1, CounterFacts DEF SoundInv, Counters
<1>3. ASSUME NEW i \in 1..copy
      PROVE  buffer[(ridx + i - 1) % Size] = Taken + i /\ Taken + i \in 0..length
    <2>1. PICK j \in Nat : j = i - 1
        BY <1>2
    <2>2. ridx = Taken % IndexMod /\ ridx \in Nat
        BY Sizes DEF SoundInv, Counters, Typed, Index
    <2>3. (ridx + j) % Size = (Taken + j) % Size
        BY <1>2, <2>2, SlotOf
    <2>4. ridx + i - 1 = ridx + j /\ Taken + j = (Taken + i) - 1
        BY <1>2, <2>1, <2>2
    <2>5. Taken + i \in (Taken + 1)..pos /\ Taken + i \in 0..length
        BY <1>2
    <2>6. buffer[((Taken + i) - 1) % Size] = Taken + i
        BY <2>5 DEF SoundInv, RingHolds
    <2>. QED BY <2>3, <2>4, <2>5, <2>6
<1>4. piece = [i \in 1..copy |-> Taken + i]
    BY <1>3
<1>5. piece \in Seq(0..length) /\ Len(piece) = copy /\ \A i \in 1..copy : piece[i] = Taken + i
    <2>1. piece \in [1..copy -> 0..length]
        BY <1>3
    <2>2. piece \in Seq(0..length)
        BY <2>1, <1>2
    <2>3. DOMAIN piece = 1..copy /\ Len(piece) \in Nat /\ DOMAIN piece = 1..Len(piece)
        BY <2>2, LenProperties
    <2>. QED BY <1>2, <1>3, <2>2, <2>3
<1>. HIDE DEF piece
<1>6. heard \in Seq(0..length) /\ Len(heard) \in Nat /\ \A i \in 1..Len(heard) : heard[i] = i
    BY DEF SoundInv, Typed, PlayedInOrder
<1>7. /\ heard' \in Seq(0..length) /\ Len(heard') = Len(heard) + copy
      /\ \A i \in 1..(Len(heard) + copy) :
            heard'[i] = IF i <= Len(heard) THEN heard[i] ELSE piece[i - Len(heard)]
    BY <1>1, <1>5, <1>6, ConcatProperties
<1>8. PlayedInOrder'
    <2>1. DOMAIN heard' = 1..(Len(heard) + copy)
        BY <1>7
    <2>2. ASSUME NEW i \in 1..(Len(heard) + copy) PROVE heard'[i] = i
        <3>1. CASE i <= Len(heard)
            BY <3>1, <1>6, <1>7
        <3>2. CASE ~(i <= Len(heard))
            <4>1. i - Len(heard) \in 1..copy /\ Taken + (i - Len(heard)) = i
                BY <3>2, <1>2, <1>6
            <4>2. heard'[i] = piece[i - Len(heard)]
                BY <3>2, <1>7
            <4>. QED BY <1>5, <4>1, <4>2
        <3>. QED BY <3>1, <3>2
    <2>. QED BY <2>1, <2>2 DEF PlayedInOrder
<1>9. Taken' = Taken /\ Published' = Published
    BY <1>1, <1>2, <1>7 DEF Taken, Published
<1>10. Counters'
    BY <1>1, <1>9 DEF SoundInv, Counters
<1>11. RingHolds'
    BY <1>1, <1>9 DEF SoundInv, RingHolds
<1>12. Typed'
    <2>1. rt' \in {"off", "idle", "copy", "update", "signal"} /\ heard' \in Seq(0..length')
        BY <1>1, <1>7
    <2>. QED BY <1>1, <2>1 DEF SoundInv, Typed
<1>13. Threading' /\ NoUseAfterFree'
    BY <1>1 DEF SoundInv, Threading, NoUseAfterFree, NobodyInside
<1>14. Finishing'
    <2>1. Published # Taken
        BY <1>2
    <2>2. ~(finished > 0 /\ length < IndexMod)
        BY <2>1, NotOver
    <2>. QED BY <1>1, <2>2 DEF SoundInv, Finishing
<1>. QED BY <1>8, <1>10, <1>11, <1>12, <1>13, <1>14 DEF SoundInv

LEMMA RtUpdateSound == ASSUME SoundInv, RtUpdate PROVE SoundInv'
<1>1. /\ rt = "update" /\ rt' = "signal" /\ copy' = 0 /\ ridx' = (ridx + copy) % IndexMod
      /\ UNCHANGED <<source, length, pos, eof, widx, buffer, written, eventfd, lock,
                     quit, at, heard, finished>>
    BY DEF RtUpdate, file, write, loop
<1>2. /\ copy \in Nat /\ copy > 0 /\ copy <= Published - Taken
      /\ Taken \in Nat /\ Published \in Nat /\ pos \in Nat /\ Taken = Len(heard) - copy
      /\ Len(heard) \in Nat /\ pos <= Taken + Size
    BY <1>1, CounterFacts DEF SoundInv, Counters
<1>3. Taken' = Taken + copy /\ Published' = Published
    BY <1>1, <1>2 DEF Taken, Published
<1>4. ridx' = (Taken + copy) % IndexMod
    BY <1>1, <1>2, IndexMoves DEF SoundInv, Counters
<1>5. Counters'
    <2>1. Taken' \in Nat /\ Taken' <= Published' /\ pos' <= Taken' + Size
        BY <1>1, <1>2, <1>3, Sizes
    <2>. QED BY <1>1, <1>3, <1>4, <2>1 DEF SoundInv, Counters
<1>6. RingHolds'
    <2>1. \A f \in (Taken + copy + 1)..pos : f \in (Taken + 1)..pos
        BY <1>2
    <2>. QED BY <1>1, <1>3, <2>1 DEF SoundInv, RingHolds
<1>7. Typed'
    <2>1. ridx' \in Index
        BY <1>2, <1>4, WrapsIn
    <2>2. rt' \in {"off", "idle", "copy", "update", "signal"} /\ copy' \in 0..Size
        BY <1>1, Sizes
    <2>. QED BY <1>1, <2>1, <2>2 DEF SoundInv, Typed
<1>8. Threading' /\ NoUseAfterFree' /\ PlayedInOrder'
    BY <1>1 DEF SoundInv, Threading, NoUseAfterFree, NobodyInside, PlayedInOrder
<1>9. Finishing'
    <2>1. Published # Taken
        BY <1>2
    <2>2. ~(finished > 0 /\ length < IndexMod)
        BY <2>1, NotOver
    <2>. QED BY <1>1, <2>2 DEF SoundInv, Finishing
<1>. QED BY <1>5, <1>6, <1>7, <1>8, <1>9 DEF SoundInv

-----------------------------------------------------------------------------
(* The steps that fill the ring. *)
LEMMA PublishSound == ASSUME SoundInv, NEW t \in Threads, Publish(t) PROVE SoundInv'
<1>1. /\ at[t] = "publish" /\ Goto(t, "check")
      /\ widx' = (widx + written) % IndexMod /\ written' = 0
      /\ UNCHANGED <<source, length, pos, eof, ridx, buffer, eventfd, lock,
                     quit, rt, copy, heard, finished>>
    BY DEF Publish, file, loop, play
<1>2. at[t] \in Inside /\ at[t] \in Filling /\ "check" \in Inside /\ "check" \in Filling
    BY <1>1 DEF Inside, Filling
<1>3. source # "freed"
    BY <1>2, Alone
<1>4. /\ Threading' /\ at'.client \in ClientPlaces /\ at'.loop \in LoopPlaces
      /\ (at'.client \in Filling \/ at'.loop \in Filling)
      /\ (at.client \in Filling \/ at.loop \in Filling)
    BY <1>1, <1>2, MovesInside
<1>5. /\ Taken \in Nat /\ Published \in Nat /\ pos \in Nat /\ written \in Nat /\ length \in Nat
      /\ Taken <= Published /\ Published + written = pos /\ pos <= length
    BY CounterFacts DEF SoundInv
<1>6. Taken' = Taken /\ Published' = pos /\ Published <= pos
    BY <1>1, <1>5 DEF Taken, Published
<1>7. widx' = pos % IndexMod
    <2>1. widx = Published % IndexMod
        BY DEF SoundInv, Counters
    <2>. QED BY <1>1, <1>5, <2>1, IndexMoves
<1>8. Counters'
    <2>1. Taken' <= Published' /\ (copy <= Published - Taken => copy <= pos - Taken)
        <3>1. copy \in Nat
            BY CounterFacts DEF SoundInv
        <3>. QED BY <1>5, <1>6, <3>1
    <2>. QED BY <1>1, <1>6, <1>7, <2>1 DEF SoundInv, Counters
<1>9. RingHolds' /\ PlayedInOrder' /\ NoUseAfterFree'
    BY <1>1, <1>3, <1>6 DEF SoundInv, RingHolds, PlayedInOrder, NoUseAfterFree
<1>10. Typed'
    <2>1. widx' \in Index /\ written' \in Nat
        BY <1>1, <1>5, <1>7, WrapsIn
    <2>. QED BY <1>1, <1>4, <2>1 DEF SoundInv, Typed, ClientPlaces, LoopPlaces
<1>11. ChecksAhead' = ChecksAhead
    BY <1>1, <1>4 DEF ChecksAhead, One
<1>12. Finishing'
    <2>1. Published = length => pos = length
        BY <1>5, <1>6
    <2>. QED BY <1>1, <1>6, <1>11, <2>1 DEF SoundInv, Finishing
<1>. QED BY <1>4, <1>8, <1>9, <1>10, <1>12 DEF SoundInv

(* Where the frames of a refill go: behind those that are there, each to a *)
(* slot of its own, in none that is not yet read.                          *)
LEMMA RefillFills ==
    ASSUME NEW n \in Nat, SoundInv, written = 0, pos + n <= Taken + Size, pos + n <= length,
           NEW place, place = [i \in 1..n |-> (widx + i - 1) % Size],
           buffer' = [s \in Slot |->
               IF \E i \in 1..n : place[i] = s
               THEN pos + CHOOSE i \in 1..n : place[i] = s ELSE buffer[s]]
    PROVE  /\ \A f \in (Taken + 1)..(pos + n) : buffer'[(f - 1) % Size] = f
           /\ buffer' \in [Slot -> 0..length]
<1>1. /\ Taken \in Nat /\ Published \in Nat /\ pos \in Nat /\ length \in Nat
      /\ Taken <= pos /\ Published = pos /\ pos <= length
    BY CounterFacts DEF SoundInv
<1>2. widx = pos % IndexMod /\ widx \in Nat
    BY <1>1, Sizes DEF SoundInv, Counters, Typed, Index
<1>3. ASSUME NEW i \in 1..n
      PROVE  place[i] = ((pos + i) - 1) % Size /\ place[i] \in Slot
    <2>1. PICK j \in Nat : j = i - 1
        OBVIOUS
    <2>2. ((pos % IndexMod) + j) % Size = (pos + j) % Size /\ (pos + j) % Size \in Slot
        BY <1>1, SlotOf
    <2>3. widx + i - 1 = widx + j /\ (pos + i) - 1 = pos + j
        BY <1>1, <1>2, <2>1
    <2>. QED BY <1>2, <2>2, <2>3
<1>4. ASSUME NEW f \in (Taken + 1)..(pos + n), NEW g \in (Taken + 1)..(pos + n), f < g
      PROVE  (f - 1) % Size # (g - 1) % Size
    <2>1. PICK a \in Nat, d \in Nat : a = f - 1 /\ d = g - f /\ 0 < d /\ d < Size
        BY <1>1, <1>4, Sizes
    <2>2. g - 1 = a + d
        BY <1>1, <2>1
    <2>. QED BY <2>1, <2>2, Sizes, ModDistinct
<1>5. ASSUME NEW f \in (Taken + 1)..(pos + n)
      PROVE  buffer'[(f - 1) % Size] = f
    <2>. DEFINE s == (f - 1) % Size
    <2>0. f - 1 \in Nat /\ f \in Nat /\ s \in Slot
        <3>1. PICK j \in Nat : j = f - 1
            BY <1>1
        <3>2. (0 + j) % Size \in Slot
            BY SlotOf
        <3>. QED BY <1>1, <3>1, <3>2
    <2>1. ASSUME NEW i \in 1..n, place[i] = s
          PROVE  pos + i = f
        <3>1. pos + i \in (Taken + 1)..(pos + n) /\ place[i] = ((pos + i) - 1) % Size
            BY <1>1, <1>3
        <3>2. ~(f < pos + i) /\ ~(pos + i < f)
            BY <1>4, <2>1, <3>1
        <3>. QED BY <1>1, <2>0, <3>2
    <2>2. CASE f <= pos
        <3>1. ~ \E i \in 1..n : place[i] = s
            <4>1. \A i \in 1..n : pos + i # f
                BY <1>1, <2>0, <2>2
            <4>. QED BY <2>1, <4>1
        <3>2. buffer'[s] = buffer[s]
            BY <2>0, <3>1
        <3>3. f \in (Taken + 1)..pos
            BY <1>1, <2>2
        <3>. QED BY <3>2, <3>3 DEF SoundInv, RingHolds
    <2>3. CASE ~(f <= pos)
        <3>1. PICK i \in 1..n : i = f - pos
            BY <1>1, <2>3
        <3>2. pos + i = f
            BY <1>1, <2>0, <3>1
        <3>3. place[i] = s
            BY <1>3, <3>2
        <3>4. PICK k \in 1..n : place[k] = s /\ k = CHOOSE j \in 1..n : place[j] = s
            BY <3>3
        <3>5. pos + k = f
            BY <2>1, <3>4
        <3>6. buffer'[s] = pos + CHOOSE j \in 1..n : place[j] = s
            BY <2>0, <3>3
        <3>. QED BY <3>4, <3>5, <3>6
    <2>. QED BY <2>2, <2>3
<1>6. ASSUME NEW s \in Slot
      PROVE  buffer'[s] \in 0..length
    <2>1. CASE \E i \in 1..n : place[i] = s
        <3>1. PICK k \in 1..n : k = CHOOSE j \in 1..n : place[j] = s
            BY <2>1
        <3>2. buffer'[s] = pos + k
            BY <2>1, <3>1
        <3>3. pos + k \in 0..length
            BY <1>1
        <3>. QED BY <3>2, <3>3
    <2>2. CASE ~ \E i \in 1..n : place[i] = s
        BY <2>2 DEF SoundInv, Typed
    <2>. QED BY <2>1, <2>2
<1>7. buffer' \in [Slot -> 0..length]
    BY <1>6
<1>. QED BY <1>5, <1>7

LEMMA RefillSound == ASSUME SoundInv, NEW t \in Threads, Refill(t) PROVE SoundInv'
<1>. DEFINE n == Least(Room, length - pos)
            place == [i \in 1..n |-> (widx + i - 1) % Size]
<1>1. /\ at[t] = "refill" /\ Goto(t, "publish")
      /\ buffer' = [s \in Slot |->
             IF \E i \in 1..n : place[i] = s
             THEN pos + CHOOSE i \in 1..n : place[i] = s ELSE buffer[s]]
      /\ pos' = pos + n /\ written' = n /\ eof' = (eof \/ (Room > 0 /\ n = 0))
      /\ UNCHANGED <<source, length, ridx, widx, eventfd, lock,
                     quit, rt, copy, heard, finished>>
    BY DEF Refill, loop, play
<1>2. at[t] \in Inside /\ at[t] \in Filling /\ "publish" \in Inside /\ "publish" \in Filling
    BY <1>1 DEF Inside, Filling
<1>3. source # "freed" /\ written = 0
    BY <1>1, <1>2, Alone
<1>4. /\ Threading' /\ at'.client \in ClientPlaces /\ at'.loop \in LoopPlaces
      /\ (at'.client \in Filling \/ at'.loop \in Filling)
      /\ (at.client \in Filling \/ at.loop \in Filling)
    BY <1>1, <1>2, MovesInside
<1>5. /\ Taken \in Nat /\ Published \in Nat /\ pos \in Nat /\ length \in Nat
      /\ Taken <= pos /\ Published = pos /\ pos <= length /\ pos <= Taken + Size
    BY <1>3, CounterFacts DEF SoundInv
<1>6. /\ n \in Nat /\ pos + n <= Taken + Size /\ pos + n <= length
      /\ Room > 0 /\ n = 0 => pos = length
    <2>1. PICK u \in Nat : u = Used /\ u = pos - Taken /\ u <= Size
        <3>1. Used = pos - Taken
            BY <1>5, UsedIs DEF SoundInv
        <3>. QED BY <1>5, <3>1, Sizes
    <2>2. PICK room \in Nat : room = Room /\ room <= Size - u
        <3>1. Room = IF Size - u < LocalSize THEN Size - u ELSE LocalSize
            BY <2>1 DEF Room, Least
        <3>. QED BY <2>1, <3>1, Sizes
    <2>3. n = IF room < length - pos THEN room ELSE length - pos
        BY <2>2 DEF Least
    <2>. HIDE DEF n
    <2>. QED BY <1>5, <2>1, <2>2, <2>3, Sizes
<1>. HIDE DEF n
<1>7. /\ \A f \in (Taken + 1)..(pos + n) : buffer'[(f - 1) % Size] = f
      /\ buffer' \in [Slot -> 0..length]
    BY <1>1, <1>3, <1>6, RefillFills
<1>8. Taken' = Taken /\ Published' = Published
    BY <1>1, <1>5, <1>6 DEF Taken, Published
<1>9. Counters'
    BY <1>1, <1>5, <1>6, <1>8 DEF SoundInv, Counters
<1>10. RingHolds' /\ PlayedInOrder' /\ NoUseAfterFree'
    BY <1>1, <1>3, <1>7, <1>8 DEF SoundInv, RingHolds, PlayedInOrder, NoUseAfterFree
<1>11. Typed'
    <2>1. written' \in Nat /\ pos' \in 0..length' /\ buffer' \in [Slot -> 0..length']
        <3>1. PICK m \in Nat, p \in Nat : m = n /\ p = pos
            BY <1>5, <1>6
        <3>2. p + m \in 0..length
            BY <1>5, <1>6, <3>1
        <3>. QED BY <1>1, <1>7, <3>1, <3>2
    <2>2. eof' \in BOOLEAN
        BY <1>1 DEF SoundInv, Typed
    <2>. QED BY <1>1, <1>4, <2>1, <2>2 DEF SoundInv, Typed, ClientPlaces, LoopPlaces
<1>12. ChecksAhead' = ChecksAhead
    BY <1>1, <1>4 DEF ChecksAhead, One
<1>13. Finishing'
    <2>1. eof' => pos' = length'
        <3>1. eof => pos = length
            BY DEF SoundInv, Finishing
        <3>2. pos = length => pos + n = length
            BY <1>5, <1>6
        <3>. QED BY <1>1, <1>6, <3>1, <3>2
    <2>. QED BY <1>1, <1>8, <1>12, <2>1 DEF SoundInv, Finishing
<1>. QED BY <1>4, <1>9, <1>10, <1>11, <1>13 DEF SoundInv

-----------------------------------------------------------------------------
LEMMA PlaySound == ASSUME SoundInv, Play PROVE SoundInv'
<1>1. /\ source' = "exists" /\ lock' = "client" /\ eventfd' = FALSE /\ quit' = FALSE
      /\ length' \in FileLengths /\ pos' = 0 /\ eof' = FALSE
      /\ ridx' = 0 /\ widx' = 0 /\ buffer' = [s \in Slot |-> 0] /\ written' = 0
      /\ rt' = "idle" /\ copy' = 0 /\ heard' = <<>> /\ finished' = 0
      /\ at' = [client |-> "refill", loop |-> "poll"]
    BY DEF Play
<1>. QED BY <1>1, FreshSound

LEMMA NextSound == SoundInv /\ [Next]_vars => SoundInv'
<1>. SUFFICES ASSUME SoundInv, [Next]_vars PROVE SoundInv'
    OBVIOUS
<1>1. CASE Play
    BY <1>1, PlaySound
<1>2. ASSUME NEW t \in Threads, InRefill(t) PROVE SoundInv'
    <2>1. CASE Refill(t)
        BY <2>1, RefillSound
    <2>2. CASE Publish(t)
        BY <2>2, PublishSound
    <2>3. CASE Check(t)
        BY <2>3, CheckSound
    <2>4. CASE CallbackReturns(t)
        BY <2>4, CallbackReturnsSound
    <2>5. CASE Unlock(t)
        BY <2>5, UnlockSound
    <2>. QED BY <1>2, <2>1, <2>2, <2>3, <2>4, <2>5 DEF InRefill
<1>3. CASE Stop \/ Client
    <2>1. CASE InRefill("client")
        BY <2>1, <1>2 DEF Threads
    <2>2. CASE CallbackStops
        BY <2>2, CallbackStopsSound
    <2>3. CASE Stop \/ Joined \/ Destroy \/ Free
        BY <2>3, StopSound
    <2>. QED BY <1>3, <2>1, <2>2, <2>3 DEF Client
<1>4. CASE Loop
    <2>1. CASE InRefill("loop")
        BY <2>1, <1>2 DEF Threads
    <2>2. CASE CallbackFrees
        BY <2>2, CallbackFreesSound
    <2>3. CASE Dispatch
        BY <2>3, DispatchSound
    <2>4. CASE LoopExits
        BY <2>4, LoopExitsSound
    <2>. QED BY <1>4, <2>1, <2>2, <2>3, <2>4 DEF Loop
<1>5. CASE Rt
    <2>1. CASE RtLook
        BY <2>1, RtLookSound
    <2>2. CASE RtCopy
        BY <2>2, RtCopySound
    <2>3. CASE RtUpdate
        BY <2>3, RtUpdateSound
    <2>4. CASE RtSignal
        BY <2>4, RtSignalSound
    <2>. QED BY <1>5, <2>1, <2>2, <2>3, <2>4 DEF Rt
<1>6. CASE UNCHANGED vars
    <2>1. UNCHANGED <<source, length, pos, eof, ridx, widx, buffer, written, eventfd, lock,
                      quit, at, rt, copy, heard, finished>>
        BY <1>6 DEF vars, file, write, loop, play
    <2>2. Counters' /\ RingHolds' /\ PlayedInOrder' /\ Taken' = Taken /\ Published' = Published
        BY <2>1, SameData
    <2>3. Typed'
        BY <2>1 DEF SoundInv, Typed
    <2>4. ChecksAhead' = ChecksAhead
        BY <2>1 DEF ChecksAhead
    <2>5. Threading' /\ Finishing' /\ NoUseAfterFree'
        BY <2>1, <2>2, <2>4
           DEF SoundInv, Threading, Finishing, NoUseAfterFree, NobodyInside
    <2>. QED BY <2>2, <2>3, <2>5 DEF SoundInv
<1>. QED BY <1>1, <1>3, <1>4, <1>5, <1>6 DEF Next

LEMMA SoundInvariant == Spec => []SoundInv
<1>. QED BY InitSound, NextSound, PTL DEF Spec

-----------------------------------------------------------------------------
(* The ring's writer and its reader share no lock, but never get ahead of  *)
(* each other: for every size of the ring, of the local buffer, of the     *)
(* indices (any multiple of the ring's size) and of the requests.          *)
THEOREM SoundTypeCorrect == Spec => []TypeOK
<1>. QED BY SoundInvariant, InvTypes, PTL

(* The frames that rt copies are those of the file, in order, none twice   *)
(* and none left out, also where the indices wrap and when the file is     *)
(* longer than the indices are wide.                                       *)
THEOREM PlayedInOrderCorrect == Spec => []PlayedInOrder
<1>1. SoundInv => PlayedInOrder
    BY DEF SoundInv
<1>. QED BY SoundInvariant, <1>1, PTL

(* on_finished is not called before every frame was played, and at most    *)
(* three times, for every file that is shorter than the indices are wide.  *)
THEOREM FinishedMeansPlayedCorrect == Spec => []FinishedMeansPlayed
<1>1. SoundInv => FinishedMeansPlayed
    <2>. SUFFICES ASSUME SoundInv, length < IndexMod
                  PROVE  (finished > 0 => Len(heard) = length) /\ finished <= 3
        BY DEF FinishedMeansPlayed
    <2>1. finished \in Nat
        BY DEF SoundInv, Typed, MaxFinished
    <2>2. ASSUME finished > 0 PROVE Len(heard) = length /\ finished <= 3
        <3>1. Taken = length /\ Published = length /\ finished + ChecksAhead <= 3
            BY <2>2 DEF SoundInv, Finishing
        <3>2. length \in Nat
            BY CounterFacts DEF SoundInv
        <3>3. rt # "update"
            <4>1. Published - Taken = 0 /\ copy \in Nat
                BY <3>1, <3>2, CounterFacts DEF SoundInv
            <4>. QED BY <4>1 DEF SoundInv, Counters
        <3>4. ChecksAhead \in Nat
            BY DEF ChecksAhead, One
        <3>. QED BY <2>1, <3>1, <3>3, <3>4 DEF Taken
    <2>. QED BY <2>1, <2>2
<1>. QED BY SoundInvariant, <1>1, PTL

(* When ctm_sound_stop, called by the program's own thread, has freed the  *)
(* source, neither the loop nor rt can still use it.                       *)
THEOREM SoundNoUseAfterFree == Spec => []NoUseAfterFree
<1>1. SoundInv => NoUseAfterFree
    BY DEF SoundInv
<1>. QED BY SoundInvariant, <1>1, PTL

(* A stop that on_finished makes from inside play_async never returns: the *)
(* client waits for the loop to end and the loop for the mutex it holds.   *)
THEOREM StopInCallbackHangsCorrect == Spec => StopInCallbackHangs
<1>1. SoundInv /\ Stuck /\ [Next]_vars => Stuck'
    <2>. SUFFICES ASSUME SoundInv, Stuck, [Next]_vars PROVE at'.client = "stopInside"
        BY DEF Stuck
    <2>1. at.client = "stopInside" /\ at.loop = "poll" /\ lock = "client"
        BY DEF SoundInv, Threading, Stuck
    <2>2. at["client"] = "stopInside" /\ at["loop"] = "poll"
        BY <2>1, Goes DEF SoundInv
    <2>3. ~Play /\ ~Stop /\ ~Client /\ ~Loop
        BY <2>1, <2>2 DEF Play, Stop, Client, Loop, InRefill, Refill, Publish, Check,
            CallbackReturns, Unlock, CallbackStops, Joined, LoopIsOver, Destroy, Free,
            CallbackFrees, Dispatch, LoopExits
    <2>4. Rt \/ UNCHANGED vars => at' = at
        BY DEF Rt, RtLook, RtCopy, RtUpdate, RtSignal, vars
    <2>. QED BY <2>1, <2>3, <2>4 DEF Next
<1>. QED BY SoundInvariant, <1>1, PTL DEF Spec, StopInCallbackHangs
==============================================================================
