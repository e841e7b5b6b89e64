------------------------------- MODULE MCSampler -------------------------------
(* Sampler for TLC: who calls what in each run.                            *)
EXTENDS Sampler

CONSTANTS owner, reader, rival, t1, t2

Owner == {"create", "launch", "start", "stop", "destroy", "get"}

(* One thread controls the sampler, another reads it, the callback reads.  *)
OneController == [c \in Clients |-> IF c = owner THEN Owner ELSE {"get", "subscribe"}]

(* One thread owns the sampler, another starts and stops it as well.       *)
TwoControllers ==
    [c \in Clients |-> IF c = owner THEN {"launch", "stop", "destroy"}
                                    ELSE {"start", "stop", "get"}]

================================================================================
