----------------------------- MODULE ProcessList -----------------------------
(***************************************************************************)
(* src/metrics/process_manager.c with process_read of process.c and        *)
(* io_read_file of io.c: bringing a list of processes up to date with      *)
(* /proc.  Processes start and exit at any moment; between two system      *)
(* calls of a refresh the directory listing, the stat and the open file go *)
(* stale.  A pid may come back as another process.                         *)
(*                                                                         *)
(* A record's contents are abstracted to which process they were taken     *)
(* from: the owner (stat) and the text of /proc/<pid>/stat (read) are two  *)
(* system calls.  The list is the sequence LIST_FOREACH visits; the three  *)
(* callbacks are one observer that remembers what it was told.  Directory  *)
(* entries that are not pids are skipped by the code and left out here,    *)
(* and the text the kernel writes always parses.                           *)
(***************************************************************************)
EXTENDS Naturals, FiniteSets, Sequences

CONSTANTS Pids,         \* a finite set of positive numbers
          MaxBirths,    \* bound: how many processes get the same pid
          Faulty        \* may calls fail although the process exists?

ASSUME ProcessListAssumption ==
    /\ Pids \subseteq Nat \ {0} /\ IsFiniteSet(Pids)
    /\ MaxBirths \in Nat \ {0}
    /\ Faulty \in BOOLEAN

VARIABLES
    alive,      \* the pids in use
    births,     \* how many processes have had the pid: its current one's name
    list,       \* the records, first to last
    told,       \* pid -> contents, according to the callbacks
    allocated,  \* number of process_t allocated
    pc,         \* what the refresh is about to do
    result,     \* what the last refresh returned
    cursor,     \* the last pid the kernel listed
    pending,    \* entries listed and not yet returned by readdir
    reading,    \* the pid being read and the processes its parts came from
    handles,    \* what is open
    steady,     \* history: pids never without their process since opendir
    lived,      \* history: processes that were alive at some time since then
    faulted     \* history: pids missed because a call failed since then

system == <<alive, births>>
history == <<steady, lived, faulted>>
data == <<list, told, allocated>>
vars == <<system, data, pc, result, cursor, pending, reading, handles, history>>

Births   == 1..MaxBirths
Contents == [owner : Births, text : Births]
Nothing  == [pid |-> 0, owner |-> 0, text |-> 0]

Listed == {list[i].pid : i \in DOMAIN list}

(* A plausible mistake: only active records are looked for. *)
KnownIfActive == \E i \in DOMAIN list : list[i].pid = reading.pid /\ list[i].active

(* find_process_by_pid finds a record for the pid at hand. *)
Known == reading.pid \in Listed

Records == [pid : Pids, active : BOOLEAN, contents : Contents]

Typed ==
    /\ alive \subseteq Pids
    /\ births \in [Pids -> 0..MaxBirths]
    /\ list \in Seq(Records)
    /\ DOMAIN told \subseteq Pids
    /\ \A p \in DOMAIN told : told[p] \in Contents
    /\ allocated \in Nat
    /\ pc \in {"idle", "readdir", "stat", "fopen", "fread", "sweep"}
    /\ result \in {"none", "success", "error"}
    /\ cursor \in Pids \cup {0}
    /\ pending \subseteq Pids
    /\ reading \in [pid : Pids \cup {0}, owner : 0..MaxBirths, text : 0..MaxBirths]
    /\ handles \subseteq {"dir", "file"}
    /\ steady \subseteq alive
    /\ lived \subseteq Pids \X Births
    /\ faulted \subseteq Pids

(* As many process_t as there are pids, and one more, are allocated at most. *)
TypeOK == Typed /\ allocated <= Cardinality(Pids) + 1

Init ==
    /\ alive = {}
    /\ births = [p \in Pids |-> 0]
    /\ list = <<>>
    /\ told = <<>>
    /\ allocated = 0
    /\ pc = "idle"
    /\ result = "none"
    /\ cursor = 0
    /\ pending = {}
    /\ reading = Nothing
    /\ handles = {}
    /\ steady = {}
    /\ lived = {}
    /\ faulted = {}

-----------------------------------------------------------------------------
(* The machine: processes come and go. *)
Birth(p) ==
    /\ p \notin alive
    /\ births[p] < MaxBirths
    /\ alive' = alive \cup {p}
    /\ births' = [births EXCEPT ![p] = @ + 1]
    /\ lived' = lived \cup {<<p, births[p] + 1>>}
    /\ UNCHANGED <<data, pc, result, cursor, pending, reading, handles, steady, faulted>>

Exit(p) ==
    /\ p \in alive
    /\ alive' = alive \ {p}
    /\ steady' = steady \ {p}
    /\ UNCHANGED <<births, data, pc, result, cursor, pending, reading, handles, lived, faulted>>

-----------------------------------------------------------------------------
Return(value) ==
    /\ pc' = "idle"
    /\ result' = value
    /\ handles' = {}
    /\ pending' = {}
    /\ cursor' = 0
    /\ reading' = Nothing

NextEntry ==
    /\ pc' = "readdir"
    /\ reading' = Nothing
    /\ UNCHANGED <<result, cursor, pending>>

(* A plausible mistake: records stay active until they are read. *)
LeftActive == list

Deactivated == [i \in DOMAIN list |-> [list[i] EXCEPT !.active = FALSE]]

(* opendir fails. *)
OpenDirFails ==
    /\ pc = "idle" /\ Faulty
    /\ result' = "error"
    /\ UNCHANGED <<system, data, pc, cursor, pending, reading, handles, history>>

(* opendir, then mark_processes_inactive. *)
OpenDir ==
    /\ pc = "idle"
    /\ pc' = "readdir"
    /\ result' = "none"
    /\ handles' = {"dir"}
    /\ list' = Deactivated
    /\ steady' = alive
    /\ lived' = {<<p, births[p]>> : p \in alive}
    /\ faulted' = {}
    /\ UNCHANGED <<system, told, allocated, cursor, pending, reading>>

(* The system call behind readdir: some more of the live pids, in          *)
(* increasing order.                                                       *)
Getdents ==
    /\ pc = "readdir" /\ pending = {}
    /\ \E last \in alive :
          /\ last > cursor
          /\ pending' = {p \in alive : cursor < p /\ p <= last}
          /\ cursor' = last
    /\ UNCHANGED <<system, data, pc, result, reading, handles, history>>

Least(p) == p \in pending /\ \A q \in pending : p <= q

(* readdir returns an entry; a pid the list does not have gets a process_t. *)
ReadDir ==
    /\ pc = "readdir"
    /\ \E p \in Pids :
          /\ Least(p)
          /\ pending' = pending \ {p}
          /\ reading' = [Nothing EXCEPT !.pid = p]
          /\ allocated' = IF p \in Listed THEN allocated ELSE allocated + 1
    /\ pc' = "stat"
    /\ UNCHANGED <<system, list, told, result, cursor, handles, history>>

(* calloc fails. *)
CallocFails ==
    /\ pc = "readdir" /\ Faulty
    /\ \E p \in Pids : Least(p) /\ p \notin Listed
    /\ Return("error")
    /\ UNCHANGED <<system, data, history>>

-----------------------------------------------------------------------------
(* Plausible mistakes: a new process_t that is not freed, and a record that *)
(* is read again until it can be.                                          *)
ReadFailsUnfreed(enoent) ==
    /\ list' = [i \in DOMAIN list |->
                   IF list[i].pid = reading.pid
                   THEN [list[i] EXCEPT !.active = FALSE] ELSE list[i]]
    /\ UNCHANGED <<told, allocated>>
    /\ IF Known \/ enoent
       THEN NextEntry /\ handles' = handles \ {"file"}
       ELSE Return("error")

ReadFailsRetried(enoent) ==
    /\ pc' = "stat"
    /\ handles' = handles \ {"file"}
    /\ UNCHANGED <<data, result, cursor, pending, reading>>

(* process_read did not succeed: a known record is marked inactive; a new  *)
(* one is freed, and the refresh goes on only if errno says ENOENT.        *)
ReadFails(enoent) ==
    IF Known
    THEN /\ list' = [i \in DOMAIN list |->
                        IF list[i].pid = reading.pid
                        THEN [list[i] EXCEPT !.active = FALSE] ELSE list[i]]
         /\ NextEntry
         /\ handles' = handles \ {"file"}
         /\ UNCHANGED <<told, allocated>>
    ELSE /\ allocated' = allocated - 1
         /\ UNCHANGED <<list, told>>
         /\ IF enoent
            THEN NextEntry /\ handles' = handles \ {"file"}
            ELSE Return("error")

(* A fault that has nothing to do with the process: EMFILE, ENOMEM, ... *)
Fault ==
    /\ pc \in {"stat", "fopen", "fread"} /\ Faulty
    /\ faulted' = faulted \cup {reading.pid}
    /\ ReadFails(FALSE)
    /\ UNCHANGED <<system, steady, lived>>

Stat ==
    /\ pc = "stat"
    /\ \/ /\ reading.pid \in alive
          /\ reading' = [reading EXCEPT !.owner = births[reading.pid]]
          /\ pc' = "fopen"
          /\ UNCHANGED <<data, result, cursor, pending, handles>>
       \/ /\ reading.pid \notin alive
          /\ ReadFails(TRUE)
    /\ UNCHANGED <<system, history>>

Fopen ==
    /\ pc = "fopen"
    /\ \/ /\ reading.pid \in alive
          /\ reading' = [reading EXCEPT !.text = births[reading.pid]]
          /\ handles' = handles \cup {"file"}
          /\ pc' = "fread"
          /\ UNCHANGED <<data, result, cursor, pending>>
       \/ /\ reading.pid \notin alive
          /\ ReadFails(TRUE)
    /\ UNCHANGED <<system, history>>

(* The process the file belongs to, not whichever has its pid now. *)
OpenedIsAlive == reading.pid \in alive /\ births[reading.pid] = reading.text

NewContents == [owner |-> reading.owner, text |-> reading.text]
NewRecord   == [pid |-> reading.pid, active |-> TRUE, contents |-> NewContents]

Tell(p, contents) ==
    told' = [q \in DOMAIN told \cup {p} |-> IF q = p THEN contents ELSE told[q]]

(* A plausible mistake: a known record is filled in but stays inactive. *)
KeepInactive ==
    /\ list' = IF Known
               THEN [i \in DOMAIN list |->
                        IF list[i].pid = reading.pid
                        THEN [list[i] EXCEPT !.contents = NewContents] ELSE list[i]]
               ELSE <<NewRecord>> \o list
    /\ Tell(reading.pid, NewContents)
    /\ UNCHANGED allocated
    /\ NextEntry
    /\ handles' = handles \ {"file"}

(* process_read succeeds: on_process_updated or on_process_added. *)
Keep ==
    /\ list' = IF Known
               THEN [i \in DOMAIN list |->
                        IF list[i].pid = reading.pid THEN NewRecord ELSE list[i]]
               ELSE <<NewRecord>> \o list
    /\ Tell(reading.pid, NewContents)
    /\ UNCHANGED allocated
    /\ NextEntry
    /\ handles' = handles \ {"file"}

(* Reading the file of a process that has exited fails with ESRCH. *)
Fread ==
    /\ pc = "fread"
    /\ \/ OpenedIsAlive /\ Keep
       \/ ~OpenedIsAlive /\ ReadFails(FALSE)
    /\ UNCHANGED <<system, history>>

(* readdir returns NULL: closedir, then remove_inactive_processes. *)
ToSweep ==
    /\ pc' = "sweep"
    /\ handles' = {}
    /\ UNCHANGED <<system, data, result, cursor, pending, reading>>

(* The kernel has no more pids to list. *)
EndOfDir ==
    /\ pc = "readdir" /\ pending = {}
    /\ \A p \in alive : p <= cursor
    /\ ToSweep
    /\ UNCHANGED history

(* The system call behind readdir fails: NULL again, and the refresh, which *)
(* does not look at errno, takes it for the end of the directory.  The     *)
(* processes not listed yet are now among those it removes.                *)
ReadDirFails ==
    /\ pc = "readdir" /\ pending = {} /\ Faulty
    /\ ToSweep
    /\ faulted' = faulted \cup {p \in Pids : p > cursor}
    /\ UNCHANGED <<steady, lived>>

-----------------------------------------------------------------------------
(* The traversal has come to record k. *)
FirstInactive(k) == ~list[k].active /\ \A i \in 1..(k - 1) : list[i].active

Without(k) == SubSeq(list, 1, k - 1) \o SubSeq(list, k + 1, Len(list))

(* A plausible mistake: nobody is told of a removal. *)
SweepSilent ==
    /\ pc = "sweep"
    /\ \E k \in DOMAIN list : FirstInactive(k) /\ list' = Without(k)
    /\ allocated' = allocated - 1
    /\ UNCHANGED <<system, told, pc, result, cursor, pending, reading, handles, history>>

(* list_delete_node, on_process_removed, process_destroy. *)
Sweep ==
    /\ pc = "sweep"
    /\ \E k \in DOMAIN list :
          /\ FirstInactive(k)
          /\ list' = Without(k)
          /\ told' = [p \in DOMAIN told \ {list[k].pid} |-> told[p]]
    /\ allocated' = allocated - 1
    /\ UNCHANGED <<system, pc, result, cursor, pending, reading, handles, history>>

EndSweep ==
    /\ pc = "sweep"
    /\ \A i \in DOMAIN list : list[i].active
    /\ Return("success")
    /\ UNCHANGED <<system, data, history>>

Step ==
    \/ Getdents \/ ReadDir \/ CallocFails
    \/ Stat \/ Fopen \/ Fread \/ Fault \/ EndOfDir \/ ReadDirFails
    \/ Sweep \/ EndSweep

Next ==
    \/ OpenDirFails \/ OpenDir \/ Step
    \/ \E p \in Pids : Birth(p) \/ Exit(p)

(* The program runs; nobody makes it refresh and nothing makes a process   *)
(* start or exit.                                                          *)
Spec == Init /\ [][Next]_vars /\ WF_vars(Step)

-----------------------------------------------------------------------------
(* No pid is listed twice, although refreshes are given up halfway, leave  *)
(* inactive records behind and pids come back: the next refresh finds      *)
(* those records (find_process_by_pid does not look at is_active).         *)
UniquePids ==
    \A i, j \in DOMAIN list : list[i].pid = list[j].pid => i = j

Table == INSTANCE ProcessTable WITH
    list     <- [i \in DOMAIN list |-> [pid |-> list[i].pid, contents |-> list[i].contents]],
    reported <- IF pc = "idle" THEN {} ELSE {list[i].pid : i \in {j \in DOMAIN list : list[j].active}},
    phase    <- CASE pc = "idle" -> "idle" [] pc = "sweep" -> "removing" [] OTHER -> "reading"

(* Whoever follows the callbacks knows the list and the contents of its    *)
(* records at every moment: each change comes with its callback, no        *)
(* process is reported twice in a refresh, the ones removed are those it   *)
(* did not report, and a refresh that is given up removes nothing.         *)
IsProcessTable == Table!Spec

(* Every process_t is on the list or being read for the first time, and a  *)
(* refresh closes what it opened on each of its ways out.                  *)
NothingLeaks ==
    /\ allocated = Len(list) + IF pc \in {"stat", "fopen", "fread"} /\ ~Known
                               THEN 1 ELSE 0
    /\ pc \in {"idle", "sweep"} => handles = {}

Succeeded == pc = "idle" /\ result = "success"

(* After a refresh that succeeded, what a record says is of processes that *)
(* were alive during that refresh: no exited process stays listed, nothing *)
(* is left over from an earlier refresh, also not where the pid was used   *)
(* again between two of the system calls.                                  *)
ListedWereAlive ==
    Succeeded => \A i \in DOMAIN list :
        /\ list[i].active
        /\ <<list[i].pid, list[i].contents.owner>> \in lived
        /\ <<list[i].pid, list[i].contents.text>> \in lived

(* After a refresh that succeeded, of the processes that ran all along     *)
(* exactly those are listed about which no call failed for a reason of its *)
(* own and which readdir had come to before it failed: exits elsewhere     *)
(* make the refresh skip nothing.  The others it has dropped, running as   *)
(* they are, and says success.                                             *)
SteadyAreListed == Succeeded => steady \cap Listed = steady \ faulted

(* What the program's own test expects of every refresh: "process_manager_ *)
(* refresh() should return 0" (tests/src/metrics/process_manager.c:19).    *)
RefreshSucceeds == result # "error"

(* A refresh that has begun returns: the pids the kernel lists increase,   *)
(* and no entry is read twice.                                             *)
RefreshReturns == (pc # "idle") ~> (pc = "idle")

(* If somebody keeps refreshing and refreshes stop failing, the list       *)
(* settles on the processes that are there for good, but for one that a    *)
(* failing call, about it or of readdir before it, makes a refresh miss    *)
(* again and again.                                                        *)
ListConverges ==
    ([]<>(pc # "idle") /\ <>[](result # "error")) =>
        \A p \in Pids :
            /\ <>[](p \in alive) /\ <>[](p \notin faulted) => <>[](p \in Listed)
            /\ <>[](p \notin alive) => <>[](p \notin Listed)

==============================================================================
