----------------------------- MODULE MCCpuHistory -----------------------------
(* CpuHistory for TLC: counters that start from zero, or that are about to *)
(* pass the width one by one while their sum has wrapped already, and      *)
(* intervals that are idle, busy, empty, or in which iowait falls.         *)
EXTENDS CpuHistory

Columns(u, s, i, w) ==
    [c \in Counters |-> CASE c = "user" -> u [] c = "system" -> s
                          [] c = "idle" -> i [] c = "wait" -> w]

MCBlank  == Columns(0, 0, 0, 0)
MCItem   == [Counters -> 0..(Modulus - 1)]
MCBoots  == {MCBlank, Columns(6, 1, 4, 0)}
MCDeltas == {MCBlank, Columns(0, 1, 2, 0), Columns(1, 1, 0, 1), Columns(0, 0, 1, -1)}
===============================================================================
