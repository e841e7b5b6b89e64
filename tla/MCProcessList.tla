---------------------------- MODULE MCProcessList ----------------------------
(* ProcessList for TLC.  Two pids are enough for one entry of the listing  *)
(* to go stale while the other is read.                                    *)
EXTENDS ProcessList

TwoPids == {1, 2}
==============================================================================
