---------------------------- MODULE SlidingWindow ----------------------------
(***************************************************************************)
(* What a ring buffer promises its users, with no head and no array: a     *)
(* window over the last Size items, newest first.  Sliding the window      *)
(* makes room for one more item at its front; until that item is filled in *)
(* the place shows whatever its storage held before: nothing (Blank) while *)
(* the window is still growing, the item that just fell out afterwards.    *)
(***************************************************************************)
EXTENDS Naturals, Sequences

CONSTANTS Size,     \* the largest number of items the window shows
          Item,     \* the items
          Blank     \* what storage that was never written shows

VARIABLE window     \* the visible items, newest first

Init == window = <<>>

(* The storage of the place that opens at the front. *)
Recycled == IF Len(window) < Size THEN Blank ELSE window[Len(window)]

Slide ==
    LET length == IF Len(window) < Size THEN Len(window) + 1 ELSE Size
    IN  window' = [i \in 1..length |->
                      IF i = 1 THEN Recycled ELSE window[i - 1]]

Fill(item) ==
    /\ window # <<>>
    /\ window' = [window EXCEPT ![1] = item]

Next == Slide \/ \E item \in Item : Fill(item)

Spec == Init /\ [][Next]_window
==============================================================================
