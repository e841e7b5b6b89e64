------------------------------- MODULE MCHashMap -------------------------------
(* HashMap for TLC.                                                        *)
EXTENDS HashMap

CONSTANTS v1, v2

(* hash_int, on the low 16 bits of its 64: (size_t) pid * 2654435761,      *)
(* whose multiplier is 31153 modulo 2^16.  Only these bits choose the slot *)
(* while the capacity is a power of two that is at most 2^16.              *)
HashInt(pid) == (pid * 31153) % 65536

MCHash == [k \in Keys |-> HashInt(k)]
==============================================================================
