----------------------------- MODULE ProcessTable -----------------------------
(***************************************************************************)
(* What process_list_refresh promises its caller, with no /proc, no errors *)
(* and no flags: a table of processes that changes only while a refresh    *)
(* runs and only together with a callback.  A refresh reports processes,   *)
(* each at most once, known ones in place and new ones at the front; then  *)
(* it removes, in the order of the table, exactly those it did not report. *)
(* It may be given up while it reports, and then it removes nothing.       *)
(***************************************************************************)
EXTENDS Naturals, Sequences

CONSTANTS Pids,         \* what a process is called
          Contents      \* what the table can say of a process

VARIABLES list,         \* the table: a sequence of [pid, contents]
          told,         \* pid -> contents, according to the callbacks
          reported,     \* the pids reported by the refresh under way
          phase         \* "idle", "reading" or "removing"

table == <<list, told, reported, phase>>

Entries == [pid : Pids, contents : Contents]
PidsIn(entries) == {entries[i].pid : i \in DOMAIN entries}

Init ==
    /\ list = <<>>
    /\ told = <<>>
    /\ reported = {}
    /\ phase = "idle"

Begin ==
    /\ phase = "idle"
    /\ phase' = "reading"
    /\ UNCHANGED <<list, told, reported>>

(* on_process_added or on_process_updated *)
Report(p, c) ==
    /\ phase = "reading" /\ p \notin reported
    /\ reported' = reported \cup {p}
    /\ list' = IF p \in PidsIn(list)
               THEN [i \in DOMAIN list |->
                        IF list[i].pid = p THEN [list[i] EXCEPT !.contents = c] ELSE list[i]]
               ELSE <<[pid |-> p, contents |-> c]>> \o list
    /\ told' = [q \in DOMAIN told \cup {p} |-> IF q = p THEN c ELSE told[q]]
    /\ UNCHANGED phase

Turn ==
    /\ phase = "reading"
    /\ phase' = "removing"
    /\ UNCHANGED <<list, told, reported>>

(* The first entry that was not reported stands at place k. *)
Unreported(k) ==
    /\ list[k].pid \notin reported
    /\ \A i \in 1..(k - 1) : list[i].pid \in reported

Without(k) == SubSeq(list, 1, k - 1) \o SubSeq(list, k + 1, Len(list))

(* on_process_removed *)
Remove ==
    /\ phase = "removing"
    /\ \E k \in DOMAIN list :
          /\ Unreported(k)
          /\ list' = Without(k)
          /\ told' = [p \in DOMAIN told \ {list[k].pid} |-> told[p]]
    /\ UNCHANGED <<reported, phase>>

EndRefresh ==
    /\ phase' = "idle"
    /\ reported' = {}
    /\ UNCHANGED <<list, told>>

Complete == phase = "removing" /\ PidsIn(list) \subseteq reported /\ EndRefresh

GiveUp == phase = "reading" /\ EndRefresh

Next ==
    \/ Begin \/ Turn \/ Remove \/ Complete \/ GiveUp
    \/ \E p \in Pids, c \in Contents : Report(p, c)

Spec == Init /\ [][Next]_table
==============================================================================
