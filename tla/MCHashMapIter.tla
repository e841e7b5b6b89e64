----------------------------- MODULE MCHashMapIter -----------------------------
(* HashMapIter for TLC: keys hash as they do in MCHashMap.                 *)
EXTENDS HashMapIter

CONSTANT v1

MCHash == [k \in Keys |-> (k * 31153) % 65536]
================================================================================
