------------------------------ MODULE Dictionary ------------------------------
(***************************************************************************)
(* What a hash map promises its users: a finite function from keys to      *)
(* values and the number of its pairs, with no table behind it.            *)
(***************************************************************************)
EXTENDS Naturals

CONSTANTS Keys, Vals,
          Missing       \* what a lookup of a key that is not there gives

VARIABLES dict,         \* [Keys -> Vals \cup {Missing}]
          size          \* number of keys that are there

Has(k) == dict[k] # Missing

Init ==
    /\ dict = [k \in Keys |-> Missing]
    /\ size = 0

Put(k, v) ==
    /\ dict' = [dict EXCEPT ![k] = v]
    /\ size' = IF Has(k) THEN size ELSE size + 1

Remove(k) ==
    /\ Has(k)
    /\ dict' = [dict EXCEPT ![k] = Missing]
    /\ size' = size - 1

Next == \E k \in Keys : Remove(k) \/ \E v \in Vals : Put(k, v)

Spec == Init /\ [][Next]_<<dict, size>>
==============================================================================
