-------------------------- MODULE ProcessListProofs --------------------------
(* A refresh against a /proc that changes under it, for every set of pids  *)
(* and any number of processes with the same pid.                          *)
EXTENDS ProcessList, DataLemmas, FiniteSetTheorems, TLAPS

(* process_read is under way for the pid at hand. *)
Reading == pc \in {"stat", "fopen", "fread"}

(* The pids come in increasing order: the one at hand is below the ones    *)
(* still to come, and these are not above the last one listed.             *)
Ascending ==
    /\ pc \in {"idle", "sweep"} => pending = {}
    /\ pc = "idle" => cursor = 0
    /\ \A q \in pending : q <= cursor
    /\ ~Reading => reading = Nothing
    /\ Reading => /\ reading.pid \in Pids
                  /\ reading.pid <= cursor
                  /\ \A q \in pending : reading.pid < q

(* The active records are below both, so that the pid at hand was not      *)
(* reported yet.                                                           *)
ActiveArePast ==
    pc # "idle" => \A i \in DOMAIN list :
        list[i].active => /\ list[i].pid <= cursor
                          /\ \A q \in pending : list[i].pid < q
                          /\ Reading => list[i].pid < reading.pid

(* What has been read so far is of processes that were alive.              *)
ReadWereAlive ==
    /\ \A p \in alive : births[p] \in Births /\ <<p, births[p]>> \in lived
    /\ pc # "idle" => result = "none"
    /\ pc \in {"fopen", "fread"} => <<reading.pid, reading.owner>> \in lived
    /\ pc = "fread" => <<reading.pid, reading.text>> \in lived
    /\ pc # "idle" \/ Succeeded => \A i \in DOMAIN list :
          list[i].active => /\ <<list[i].pid, list[i].contents.owner>> \in lived
                            /\ <<list[i].pid, list[i].contents.text>> \in lived
    /\ Succeeded => \A i \in DOMAIN list : list[i].active

IsActive(p) == \E i \in DOMAIN list : list[i].pid = p /\ list[i].active

(* A process that runs all along and that no call failed for is still to   *)
(* be listed, still to be read, being read or on the list as active.       *)
SteadyAreCovered ==
    /\ pc = "readdir" \/ Reading => \A p \in steady \ faulted :
          p <= cursor => p \in pending \/ (Reading /\ p = reading.pid) \/ IsActive(p)
    /\ pc = "fread" /\ reading.pid \in steady => births[reading.pid] = reading.text
    /\ pc = "sweep" \/ Succeeded => \A p \in steady \ faulted : IsActive(p)

(* The callbacks told exactly the list. *)
ToldIsList ==
    /\ DOMAIN told = Listed
    /\ \A i \in DOMAIN list : told[list[i].pid] = list[i].contents

RefreshInv ==
    /\ Typed /\ UniquePids /\ NothingLeaks /\ Ascending /\ ActiveArePast
    /\ ReadWereAlive /\ SteadyAreCovered /\ ToldIsList

-----------------------------------------------------------------------------
LEMMA RecordFacts ==
    ASSUME Typed
    PROVE  /\ Len(list) \in Nat /\ DOMAIN list = 1..Len(list)
           /\ \A i \in DOMAIN list :
                 /\ list[i] \in Records
                 /\ list[i].pid \in Pids /\ list[i].pid \in Nat \ {0}
                 /\ list[i].active \in BOOLEAN
                 /\ list[i].contents \in Contents
           /\ Listed \subseteq Pids
<1>1. Len(list) \in Nat /\ DOMAIN list = 1..Len(list)
    BY DEF Typed
<1>2. \A i \in DOMAIN list : list[i] \in Records
    BY <1>1 DEF Typed
<1>. QED BY <1>1, <1>2, ProcessListAssumption DEF Records, Listed

LEMMA NothingIsTyped ==
    Nothing \in [pid : Pids \cup {0}, owner : 0..MaxBirths, text : 0..MaxBirths]
BY ProcessListAssumption DEF Nothing

(* A list that is changed in place keeps its pids. *)
LEMMA InPlace ==
    ASSUME Typed, list' \in Seq(Records), DOMAIN list' = DOMAIN list,
           \A i \in DOMAIN list : list'[i].pid = list[i].pid
    PROVE  /\ Len(list') = Len(list)
           /\ Listed' = Listed
           /\ UniquePids => UniquePids'
<1>1. Len(list') = Len(list)
    <2>1. Len(list') \in Nat /\ DOMAIN list' = 1..Len(list')
        OBVIOUS
    <2>. QED BY <2>1, RecordFacts
<1>2. Listed' = Listed
    BY DEF Listed
<1>. QED BY <1>1, <1>2 DEF UniquePids

LEMMA WithoutFacts ==
    ASSUME Typed, NEW k \in DOMAIN list
    PROVE  /\ Without(k) \in Seq(Records)
           /\ Len(Without(k)) = Len(list) - 1
           /\ DOMAIN Without(k) = 1..(Len(list) - 1)
           /\ \A i \in 1..(Len(list) - 1) :
                 Without(k)[i] = IF i < k THEN list[i] ELSE list[i + 1]
<1>1. list \in Seq(Records) /\ k \in 1..Len(list)
    BY RecordFacts DEF Typed
<1>. QED BY <1>1, DeleteFacts DEF Without

(* The record of the pid at hand is inactive while it is read: to mark it  *)
(* inactive when that fails changes nothing.                               *)
LEMMA ReadFailsEffect ==
    ASSUME RefreshInv, Reading, NEW enoent \in BOOLEAN, ReadFails(enoent)
    PROVE  /\ UNCHANGED <<list, told>>
           /\ allocated' = Len(list)
           /\ reading' = Nothing
           /\ \/ /\ pc' = "readdir" /\ handles' = handles \ {"file"}
                 /\ UNCHANGED <<result, cursor, pending>>
              \/ /\ pc' = "idle" /\ result' = "error" /\ handles' = {}
                 /\ cursor' = 0 /\ pending' = {}
<1>0. Typed /\ NothingLeaks /\ ActiveArePast /\ pc # "idle"
    BY DEF RefreshInv, Reading
<1>1. CASE Known
    <2>1. ASSUME NEW i \in DOMAIN list
          PROVE  (IF list[i].pid = reading.pid
                  THEN [list[i] EXCEPT !.active = FALSE] ELSE list[i]) = list[i]
        <3>1. list[i] \in Records /\ list[i].pid \in Nat
            BY <1>0, RecordFacts
        <3>2. list[i].pid = reading.pid => list[i].active = FALSE
            BY <1>0, <3>1 DEF ActiveArePast, Records
        <3>. QED BY <3>1, <3>2 DEF Records
    <2>2. list' = [i \in DOMAIN list |-> list[i]]
        BY <1>1, <2>1 DEF ReadFails
    <2>3. list = [i \in DOMAIN list |-> list[i]]
        BY <1>0 DEF Typed
    <2>. QED BY <1>0, <1>1, <2>2, <2>3 DEF ReadFails, NextEntry, NothingLeaks, Reading
<1>2. CASE ~Known
    <2>1. allocated = Len(list) + 1 /\ Len(list) \in Nat
        BY <1>0, <1>2, RecordFacts DEF NothingLeaks, Reading
    <2>2. allocated' = Len(list)
        BY <1>2, <2>1 DEF ReadFails
    <2>. QED BY <1>2, <2>2 DEF ReadFails, NextEntry, Return
<1>. QED BY <1>1, <1>2

-----------------------------------------------------------------------------
LEMMA InitRefresh == Init => RefreshInv
<1>. SUFFICES ASSUME Init PROVE RefreshInv
    OBVIOUS
<1>. USE DEF Init
<1>1. Typed
    BY ProcessListAssumption DEF Typed, Nothing
<1>2. Len(list) = 0 /\ DOMAIN list = {} /\ DOMAIN told = {} /\ ~Reading /\ ~Succeeded
    BY DEF Reading, Succeeded
<1>3. UniquePids /\ NothingLeaks /\ Ascending /\ ActiveArePast
    BY <1>2 DEF UniquePids, NothingLeaks, Ascending, ActiveArePast, Reading
<1>4. ReadWereAlive /\ SteadyAreCovered
    BY <1>2 DEF ReadWereAlive, SteadyAreCovered, Succeeded
<1>5. ToldIsList
    BY <1>2 DEF ToldIsList, Listed
<1>. QED BY <1>1, <1>3, <1>4, <1>5 DEF RefreshInv

LEMMA BirthRefresh ==
    ASSUME RefreshInv, NEW p \in Pids, Birth(p)
    PROVE  RefreshInv'
<1>0. Typed /\ births[p] \in 0..MaxBirths /\ MaxBirths \in Nat /\ p \notin steady
    BY ProcessListAssumption DEF RefreshInv, Typed, Birth
<1>1. Typed'
    <2>1. births[p] + 1 \in Births /\ births[p] + 1 \in 0..MaxBirths
        BY <1>0 DEF Birth, Births
    <2>. QED BY <1>0, <2>1 DEF Birth, Typed, data, Records
<1>2. UniquePids' /\ NothingLeaks' /\ Ascending' /\ ActiveArePast' /\ ToldIsList'
    BY DEF RefreshInv, Birth, data, UniquePids, NothingLeaks, Ascending, ActiveArePast,
           ToldIsList, Listed, Reading, Known
<1>3. ReadWereAlive'
    <2>1. \A q \in alive' : births'[q] \in Births /\ <<q, births'[q]>> \in lived'
        BY <1>0 DEF RefreshInv, ReadWereAlive, Birth, Births, Typed
    <2>. QED BY <2>1 DEF RefreshInv, ReadWereAlive, Succeeded, Birth, data
<1>4. SteadyAreCovered'
    <2>1. pc = "fread" /\ reading.pid \in steady => births'[reading.pid] = births[reading.pid]
        BY <1>0 DEF Birth, Typed
    <2>. QED BY <2>1 DEF RefreshInv, SteadyAreCovered, Reading, Succeeded, IsActive, Birth, data
<1>. QED BY <1>1, <1>2, <1>3, <1>4 DEF RefreshInv

LEMMA ExitRefresh ==
    ASSUME RefreshInv, NEW p \in Pids, Exit(p)
    PROVE  RefreshInv'
<1>1. Typed'
    BY DEF RefreshInv, Exit, Typed, data, Records
<1>2. UniquePids' /\ NothingLeaks' /\ Ascending' /\ ActiveArePast' /\ ToldIsList'
    BY DEF RefreshInv, Exit, data, UniquePids, NothingLeaks, Ascending, ActiveArePast,
           ToldIsList, Listed, Reading, Known
<1>3. ReadWereAlive'
    BY DEF RefreshInv, ReadWereAlive, Succeeded, Exit, data
<1>4. SteadyAreCovered'
    BY DEF RefreshInv, SteadyAreCovered, Reading, Succeeded, IsActive, Exit, data
<1>. QED BY <1>1, <1>2, <1>3, <1>4 DEF RefreshInv

LEMMA OpenDirFailsRefresh ==
    ASSUME RefreshInv, OpenDirFails
    PROVE  RefreshInv'
<1>. USE DEF OpenDirFails, system, data, history
<1>1. Typed'
    BY DEF RefreshInv, Typed, Records
<1>2. UniquePids' /\ NothingLeaks' /\ Ascending' /\ ActiveArePast' /\ ToldIsList'
    BY DEF RefreshInv, UniquePids, NothingLeaks, Ascending, ActiveArePast,
           ToldIsList, Listed, Reading, Known
<1>3. ReadWereAlive'
    BY DEF RefreshInv, ReadWereAlive, Succeeded
<1>4. SteadyAreCovered'
    BY DEF RefreshInv, SteadyAreCovered, Reading, Succeeded, IsActive
<1>. QED BY <1>1, <1>2, <1>3, <1>4 DEF RefreshInv

(* mark_processes_inactive leaves no record active. *)
LEMMA DeactivatedFacts ==
    ASSUME Typed
    PROVE  /\ Deactivated \in Seq(Records)
           /\ DOMAIN Deactivated = DOMAIN list
           /\ \A i \in DOMAIN list : /\ Deactivated[i].pid = list[i].pid
                                     /\ Deactivated[i].contents = list[i].contents
                                     /\ Deactivated[i].active = FALSE
<1>1. \A i \in DOMAIN list : list[i] \in Records
    BY RecordFacts
<1>2. \A i \in DOMAIN list : [list[i] EXCEPT !.active = FALSE] \in Records
    BY <1>1 DEF Records
<1>3. \A i \in DOMAIN list : /\ [list[i] EXCEPT !.active = FALSE].pid = list[i].pid
                             /\ [list[i] EXCEPT !.active = FALSE].contents = list[i].contents
                             /\ [list[i] EXCEPT !.active = FALSE].active = FALSE
    BY <1>1 DEF Records
<1>4. Len(list) \in Nat /\ DOMAIN list = 1..Len(list)
    BY RecordFacts
<1>5. Deactivated \in Seq(Records)
    BY <1>2, <1>4 DEF Deactivated
<1>6. DOMAIN Deactivated = DOMAIN list
    BY DEF Deactivated
<1>7. \A i \in DOMAIN list : Deactivated[i] = [list[i] EXCEPT !.active = FALSE]
    BY DEF Deactivated
<1>. QED BY <1>3, <1>5, <1>6, <1>7

LEMMA OpenDirRefresh ==
    ASSUME RefreshInv, OpenDir
    PROVE  RefreshInv'
<1>. USE DEF OpenDir, system
<1>0. /\ Typed /\ pc = "idle" /\ reading = Nothing /\ pending = {} /\ cursor = 0
      /\ ~Reading /\ ~Reading' /\ ~Succeeded'
    BY DEF RefreshInv, Ascending, Reading, Succeeded
<1>1. /\ list' \in Seq(Records) /\ DOMAIN list' = DOMAIN list
      /\ \A i \in DOMAIN list : /\ list'[i].pid = list[i].pid
                                /\ list'[i].contents = list[i].contents
                                /\ ~list'[i].active
    BY <1>0, DeactivatedFacts
<1>2. Len(list') = Len(list) /\ Listed' = Listed /\ UniquePids'
    BY <1>0, <1>1, InPlace DEF RefreshInv
<1>3. \A p \in alive : births[p] \in Births /\ <<p, births[p]>> \in lived'
    BY DEF RefreshInv, ReadWereAlive
<1>4. Typed'
    <2>1. lived' \subseteq Pids \X Births
        BY <1>0, <1>3 DEF Typed
    <2>. QED BY <1>0, <1>1, <2>1 DEF Typed
<1>5. NothingLeaks' /\ Ascending' /\ ActiveArePast'
    BY <1>0, <1>1, <1>2 DEF RefreshInv, NothingLeaks, Ascending, ActiveArePast, Reading
<1>6. ReadWereAlive'
    BY <1>0, <1>1, <1>3 DEF ReadWereAlive, Succeeded
<1>7. SteadyAreCovered'
    <2>1. \A p \in steady' : ~(p <= cursor')
        BY <1>0, ProcessListAssumption DEF Typed
    <2>. QED BY <1>0, <2>1 DEF SteadyAreCovered
<1>8. ToldIsList'
    BY <1>1, <1>2 DEF RefreshInv, ToldIsList
<1>. QED BY <1>2, <1>4, <1>5, <1>6, <1>7, <1>8 DEF RefreshInv

LEMMA GetdentsRefresh ==
    ASSUME RefreshInv, Getdents
    PROVE  RefreshInv'
<1>. USE DEF Getdents, system, data, history
<1>1. PICK last \in alive : /\ last > cursor
                            /\ pending' = {p \in alive : cursor < p /\ p <= last}
                            /\ cursor' = last
    OBVIOUS
<1>2. /\ Typed /\ last \in Pids /\ last \in Nat /\ cursor \in Nat /\ Pids \subseteq Nat
      /\ pc = "readdir" /\ ~Reading /\ ~Reading' /\ pending = {} /\ ~Succeeded'
      /\ pending' \subseteq Pids
    <2>1. Typed /\ pc = "readdir" /\ pending = {} /\ ~Reading /\ ~Reading' /\ ~Succeeded'
        BY DEF RefreshInv, Reading, Succeeded
    <2>2. last \in Pids /\ Pids \subseteq Nat /\ cursor \in Nat /\ alive \subseteq Pids
        BY <2>1, ProcessListAssumption DEF Typed
    <2>. QED BY <1>1, <2>1, <2>2
<1>3. Typed'
    BY <1>1, <1>2 DEF Typed, Records
<1>4. UniquePids' /\ NothingLeaks' /\ ToldIsList'
    BY <1>2 DEF RefreshInv, UniquePids, NothingLeaks, ToldIsList, Listed, Reading, Known
<1>5. Ascending'
    BY <1>1, <1>2 DEF RefreshInv, Ascending, Reading
<1>6. ActiveArePast'
    BY <1>1, <1>2, RecordFacts DEF RefreshInv, ActiveArePast
<1>7. ReadWereAlive'
    BY <1>2 DEF RefreshInv, ReadWereAlive, Succeeded
<1>8. SteadyAreCovered'
    <2>1. ASSUME NEW p \in steady \ faulted, p <= last
          PROVE  p \in pending' \/ IsActive(p)
        <3>1. p \in alive /\ p \in Nat
            BY <1>2 DEF Typed
        <3>. QED BY <1>1, <1>2, <2>1, <3>1 DEF RefreshInv, SteadyAreCovered
    <2>. QED BY <1>1, <1>2, <2>1 DEF SteadyAreCovered, IsActive
<1>. QED BY <1>3, <1>4, <1>5, <1>6, <1>7, <1>8 DEF RefreshInv

LEMMA ReadDirRefresh ==
    ASSUME RefreshInv, ReadDir
    PROVE  RefreshInv'
<1>. USE DEF ReadDir, system, history
<1>1. PICK p \in Pids : /\ Least(p)
                        /\ pending' = pending \ {p}
                        /\ reading' = [Nothing EXCEPT !.pid = p]
                        /\ allocated' = IF p \in Listed THEN allocated ELSE allocated + 1
    OBVIOUS
<1>2. /\ Typed /\ pc = "readdir" /\ ~Reading /\ Reading' /\ ~Succeeded'
      /\ reading' = [pid |-> p, owner |-> 0, text |-> 0] /\ p \in pending
      /\ p \in Nat /\ Pids \subseteq Nat /\ cursor \in Nat
    <2>1. Typed /\ pc = "readdir" /\ ~Reading /\ p \in pending
        BY <1>1 DEF RefreshInv, Reading, Least
    <2>2. Reading' /\ ~Succeeded' /\ reading' = [pid |-> p, owner |-> 0, text |-> 0]
        BY <1>1 DEF Reading, Succeeded, Nothing
    <2>3. p \in Nat /\ Pids \subseteq Nat /\ cursor \in Nat
        BY <2>1, ProcessListAssumption DEF Typed
    <2>. QED BY <2>1, <2>2, <2>3
<1>3. \A q \in pending' : p < q
    BY <1>1, <1>2 DEF Least, Typed
<1>4. Typed'
    <2>1. reading' \in [pid : Pids \cup {0}, owner : 0..MaxBirths, text : 0..MaxBirths]
        <3>1. 0 \in 0..MaxBirths
            BY ProcessListAssumption
        <3>. QED BY <1>2, <3>1
    <2>2. allocated' \in Nat /\ pending' \subseteq Pids
        BY <1>1, <1>2 DEF Typed
    <2>3. pc' = "stat" /\ UNCHANGED <<alive, births, list, told, result, cursor, handles,
                                      steady, lived, faulted>>
        OBVIOUS
    <2>. HIDE DEF ReadDir
    <2>. QED BY <1>2, <2>1, <2>2, <2>3 DEF Typed, Records
<1>5. UniquePids' /\ ToldIsList'
    BY <1>2 DEF RefreshInv, UniquePids, ToldIsList, Listed
<1>6. NothingLeaks'
    <2>1. allocated = Len(list) /\ Len(list) \in Nat
        BY <1>2, RecordFacts DEF RefreshInv, NothingLeaks, Reading
    <2>2. Known' <=> p \in Listed
        BY <1>2 DEF Known, Listed
    <2>. QED BY <1>1, <1>2, <2>1, <2>2 DEF NothingLeaks
<1>7. Ascending'
    BY <1>1, <1>2, <1>3 DEF RefreshInv, Ascending
<1>8. ActiveArePast'
    BY <1>1, <1>2 DEF RefreshInv, ActiveArePast
<1>9. ReadWereAlive'
    BY <1>2 DEF RefreshInv, ReadWereAlive, Succeeded
<1>10. SteadyAreCovered'
    <2>1. \A q \in steady \ faulted : q <= cursor => q \in pending \/ IsActive(q)
        BY <1>2 DEF RefreshInv, SteadyAreCovered
    <2>. QED BY <1>1, <1>2, <2>1 DEF SteadyAreCovered, IsActive
<1>. QED BY <1>4, <1>5, <1>6, <1>7, <1>8, <1>9, <1>10 DEF RefreshInv

LEMMA CallocFailsRefresh ==
    ASSUME RefreshInv, CallocFails
    PROVE  RefreshInv'
<1>. USE DEF CallocFails, Return, system, data, history
<1>1. /\ Typed /\ pc = "readdir" /\ ~Reading /\ ~Reading' /\ ~Succeeded'
      /\ pc' = "idle" /\ reading' = Nothing
    BY DEF RefreshInv, Typed, Reading, Succeeded
<1>2. Typed'
    BY <1>1, NothingIsTyped DEF Typed, Records
<1>3. UniquePids' /\ NothingLeaks' /\ ToldIsList'
    BY <1>1 DEF RefreshInv, UniquePids, NothingLeaks, ToldIsList, Listed, Reading
<1>4. Ascending' /\ ActiveArePast' /\ ReadWereAlive' /\ SteadyAreCovered'
    BY <1>1 DEF RefreshInv, Ascending, ActiveArePast, ReadWereAlive, SteadyAreCovered
<1>. QED BY <1>2, <1>3, <1>4 DEF RefreshInv

(* The pid at hand is given up: its process was not there all along, or a  *)
(* call failed for it.                                                     *)
LEMMA ReadFailsRefresh ==
    ASSUME RefreshInv, Reading, NEW enoent \in BOOLEAN, ReadFails(enoent),
           UNCHANGED <<system, steady, lived>>, faulted \subseteq faulted',
           faulted' \subseteq Pids, reading.pid \notin steady \ faulted'
    PROVE  RefreshInv'
<1>. USE DEF system
<1>1. /\ Typed /\ ~Reading' /\ reading' = Nothing /\ ~Succeeded'
      /\ UNCHANGED <<list, told>> /\ allocated' = Len(list) /\ Len(list) \in Nat
      /\ pc # "idle" /\ pc # "sweep" /\ result = "none"
    BY ReadFailsEffect, RecordFacts DEF RefreshInv, Reading, Succeeded, ReadWereAlive
<1>2. CASE /\ pc' = "readdir" /\ handles' = handles \ {"file"}
           /\ UNCHANGED <<result, cursor, pending>>
    <2>1. Typed'
        BY <1>1, <1>2, NothingIsTyped DEF Typed, Records
    <2>2. UniquePids' /\ NothingLeaks' /\ ToldIsList'
        BY <1>1, <1>2 DEF RefreshInv, UniquePids, NothingLeaks, ToldIsList, Listed, Reading
    <2>3. Ascending' /\ ActiveArePast'
        BY <1>1, <1>2 DEF RefreshInv, Ascending, ActiveArePast
    <2>4. ReadWereAlive'
        BY <1>1, <1>2 DEF RefreshInv, ReadWereAlive, Succeeded
    <2>5. SteadyAreCovered'
        <3>1. ASSUME NEW p \in steady \ faulted', p <= cursor
              PROVE  p \in pending \/ IsActive(p)
            BY <1>1, <3>1 DEF RefreshInv, SteadyAreCovered
        <3>. QED BY <1>1, <1>2, <3>1 DEF SteadyAreCovered, IsActive
    <2>. QED BY <2>1, <2>2, <2>3, <2>4, <2>5 DEF RefreshInv
<1>3. CASE /\ pc' = "idle" /\ result' = "error" /\ handles' = {}
           /\ cursor' = 0 /\ pending' = {}
    <2>1. Typed'
        BY <1>1, <1>3, NothingIsTyped DEF Typed, Records
    <2>2. UniquePids' /\ NothingLeaks' /\ ToldIsList'
        BY <1>1, <1>3 DEF RefreshInv, UniquePids, NothingLeaks, ToldIsList, Listed, Reading
    <2>3. Ascending' /\ ActiveArePast' /\ ReadWereAlive' /\ SteadyAreCovered'
        BY <1>1, <1>3 DEF RefreshInv, Ascending, ActiveArePast, ReadWereAlive, SteadyAreCovered
    <2>. QED BY <2>1, <2>2, <2>3 DEF RefreshInv
<1>. QED BY <1>2, <1>3, ReadFailsEffect

LEMMA FaultRefresh ==
    ASSUME RefreshInv, Fault
    PROVE  RefreshInv'
<1>1. Reading /\ reading.pid \in Pids /\ faulted \subseteq Pids
    BY DEF RefreshInv, Fault, Reading, Ascending, Typed
<1>. QED BY <1>1, ReadFailsRefresh DEF Fault

LEMMA StatRefresh ==
    ASSUME RefreshInv, Stat
    PROVE  RefreshInv'
<1>. USE DEF Stat, system, history
<1>1. Typed /\ Reading /\ reading.pid \in Pids /\ result = "none"
    BY DEF RefreshInv, Reading, Ascending, ReadWereAlive
<1>2. CASE reading.pid \in alive
    <2>. DEFINE b == births[reading.pid]
    <2>1. /\ b \in Births /\ b \in 0..MaxBirths /\ <<reading.pid, b>> \in lived
        BY <1>1, <1>2 DEF RefreshInv, ReadWereAlive, Typed
    <2>. HIDE DEF b
    <2>2. /\ reading'.pid = reading.pid /\ reading'.owner = b
          /\ reading' \in [pid : Pids \cup {0}, owner : 0..MaxBirths, text : 0..MaxBirths]
          /\ pc' = "fopen" /\ Reading' /\ ~Succeeded'
          /\ UNCHANGED <<data, result, cursor, pending, handles>>
        BY <1>1, <1>2, <2>1 DEF Typed, Reading, Succeeded, b
    <2>3. Typed'
        BY <1>1, <2>2 DEF Typed, Records, data
    <2>4. UniquePids' /\ NothingLeaks' /\ ToldIsList' /\ Ascending' /\ ActiveArePast'
        BY <1>1, <2>2 DEF RefreshInv, UniquePids, NothingLeaks, ToldIsList, Ascending,
                          ActiveArePast, Listed, Known, Reading, data
    <2>5. ReadWereAlive'
        BY <1>1, <2>1, <2>2 DEF RefreshInv, ReadWereAlive, Succeeded, data
    <2>6. SteadyAreCovered'
        BY <1>1, <2>2 DEF RefreshInv, SteadyAreCovered, IsActive, data
    <2>. QED BY <2>3, <2>4, <2>5, <2>6 DEF RefreshInv
<1>3. CASE reading.pid \notin alive
    <2>1. reading.pid \notin steady /\ ReadFails(TRUE)
        BY <1>1, <1>3 DEF Typed
    <2>. QED BY <1>1, <2>1, ReadFailsRefresh DEF Typed
<1>. QED BY <1>2, <1>3

LEMMA FopenRefresh ==
    ASSUME RefreshInv, Fopen
    PROVE  RefreshInv'
<1>. USE DEF Fopen, system, history
<1>1. /\ Typed /\ Reading /\ reading.pid \in Pids /\ result = "none"
      /\ <<reading.pid, reading.owner>> \in lived
    BY DEF RefreshInv, Reading, Ascending, ReadWereAlive
<1>2. CASE reading.pid \in alive
    <2>. DEFINE b == births[reading.pid]
    <2>1. /\ b \in Births /\ b \in 0..MaxBirths /\ <<reading.pid, b>> \in lived
        BY <1>1, <1>2 DEF RefreshInv, ReadWereAlive, Typed
    <2>. HIDE DEF b
    <2>2. /\ reading'.pid = reading.pid /\ reading'.owner = reading.owner /\ reading'.text = b
          /\ reading' \in [pid : Pids \cup {0}, owner : 0..MaxBirths, text : 0..MaxBirths]
          /\ pc' = "fread" /\ Reading' /\ ~Succeeded'
          /\ handles' = handles \cup {"file"}
          /\ UNCHANGED <<data, result, cursor, pending>>
        BY <1>1, <1>2, <2>1 DEF Typed, Reading, Succeeded, b
    <2>3. Typed'
        BY <1>1, <2>2 DEF Typed, Records, data
    <2>4. UniquePids' /\ NothingLeaks' /\ ToldIsList' /\ Ascending' /\ ActiveArePast'
        BY <1>1, <2>2 DEF RefreshInv, UniquePids, NothingLeaks, ToldIsList, Ascending,
                          ActiveArePast, Listed, Known, Reading, data
    <2>5. ReadWereAlive'
        BY <1>1, <2>1, <2>2 DEF RefreshInv, ReadWereAlive, Succeeded, data
    <2>6. SteadyAreCovered'
        BY <1>1, <2>2 DEF RefreshInv, SteadyAreCovered, IsActive, data, b
    <2>. QED BY <2>3, <2>4, <2>5, <2>6 DEF RefreshInv
<1>3. CASE reading.pid \notin alive
    <2>1. reading.pid \notin steady /\ ReadFails(TRUE)
        BY <1>1, <1>3 DEF Typed
    <2>. QED BY <1>1, <2>1, ReadFailsRefresh DEF Typed
<1>. QED BY <1>2, <1>3

(* What a successful read leaves: the new record stands where the old one  *)
(* stood, or in front of the list.                                         *)
LEMMA KeepEffect ==
    ASSUME RefreshInv, pc = "fread", OpenedIsAlive, Keep
    PROVE  /\ NewRecord \in Records
           /\ list' \in Seq(Records)
           /\ DOMAIN list' = 1..Len(list')
           /\ UniquePids'
           /\ Listed' = Listed \cup {reading.pid}
           /\ Len(list') = IF Known THEN Len(list) ELSE Len(list) + 1
           /\ \A i \in DOMAIN list' : list'[i] # NewRecord =>
                 list'[i].pid # reading.pid /\ \E j \in DOMAIN list : list'[i] = list[j]
           /\ \A j \in DOMAIN list : list[j].pid # reading.pid =>
                 \E i \in DOMAIN list' : list'[i] = list[j]
           /\ \E i \in DOMAIN list' : list'[i] = NewRecord
<1>. DEFINE r == NewRecord
<1>1. /\ Typed /\ UniquePids /\ reading.pid \in Pids /\ Reading
      /\ <<reading.pid, reading.owner>> \in lived /\ <<reading.pid, reading.text>> \in lived
    BY DEF RefreshInv, Reading, Ascending, ReadWereAlive
<1>2. r \in Records /\ r.pid = reading.pid
    <2>1. reading.owner \in Births /\ reading.text \in Births
        BY <1>1 DEF Typed
    <2>. QED BY <1>1, <2>1 DEF NewRecord, NewContents, Contents, Records
<1>. HIDE DEF r
<1>3. /\ Len(list) \in Nat /\ DOMAIN list = 1..Len(list)
      /\ \A i \in DOMAIN list : list[i] \in Records
    BY <1>1, RecordFacts
<1>4. CASE Known
    <2>1. list' = [i \in DOMAIN list |-> IF list[i].pid = reading.pid THEN r ELSE list[i]]
        BY <1>4 DEF Keep, r
    <2>2. /\ DOMAIN list' = DOMAIN list
          /\ \A i \in DOMAIN list :
                /\ list'[i] = IF list[i].pid = reading.pid THEN r ELSE list[i]
                /\ list'[i] \in Records
                /\ list'[i].pid = list[i].pid
        BY <1>2, <1>3, <2>1
    <2>3. list' \in Seq(Records)
        BY <1>2, <1>3, <2>1
    <2>4. Len(list') = Len(list) /\ Listed' = Listed /\ UniquePids'
        BY <1>1, <2>2, <2>3, InPlace
    <2>5. PICK k \in DOMAIN list : list[k].pid = reading.pid
        BY <1>4 DEF Known, Listed
    <2>6. list'[k] = r /\ reading.pid \in Listed
        BY <2>2, <2>5 DEF Listed
    <2>7. ASSUME NEW i \in DOMAIN list', list'[i] # r
          PROVE  list'[i].pid # reading.pid /\ list'[i] = list[i] /\ i \in DOMAIN list
        BY <2>2, <2>7
    <2>8. ASSUME NEW j \in DOMAIN list, list[j].pid # reading.pid
          PROVE  list'[j] = list[j] /\ j \in DOMAIN list'
        BY <2>2, <2>8
    <2>. QED BY <1>2, <1>3, <1>4, <2>2, <2>3, <2>4, <2>5, <2>6, <2>7, <2>8 DEF r
<1>5. CASE ~Known
    <2>1. list' = <<r>> \o list
        BY <1>5 DEF Keep, r
    <2>2. /\ list' \in Seq(Records) /\ Len(list') = 1 + Len(list)
          /\ list'[1] = r
          /\ \A i \in 2..(Len(list) + 1) : list'[i] = list[i - 1]
        BY <1>1, <1>2, <1>3, <2>1, PrependFacts DEF Typed
    <2>3. DOMAIN list' = 1..(Len(list) + 1)
        BY <1>3, <2>2
    <2>4. \A j \in DOMAIN list : list[j].pid # reading.pid
        BY <1>5 DEF Known, Listed
    <2>5. \A j \in DOMAIN list : j + 1 \in DOMAIN list' /\ list'[j + 1] = list[j]
        BY <1>3, <2>2, <2>3
    <2>6. \A i \in DOMAIN list' : i # 1 => i - 1 \in DOMAIN list /\ list'[i] = list[i - 1]
        BY <1>3, <2>2, <2>3
    <2>7. UniquePids'
        <3>. SUFFICES ASSUME NEW i \in DOMAIN list', NEW j \in DOMAIN list',
                             list'[i].pid = list'[j].pid
                      PROVE  i = j
            BY DEF UniquePids
        <3>1. CASE i = 1 \/ j = 1
            BY <3>1, <1>2, <2>2, <2>4, <2>6
        <3>2. CASE i # 1 /\ j # 1
            <4>1. i - 1 = j - 1
                BY <3>2, <2>6, <1>1 DEF UniquePids
            <4>. QED BY <4>1, <1>3, <2>3
        <3>. QED BY <3>1, <3>2
    <2>8. Listed' = Listed \cup {reading.pid}
        <3>1. ASSUME NEW q \in Listed' PROVE q \in Listed \cup {reading.pid}
            <4>1. PICK i \in DOMAIN list' : list'[i].pid = q
                BY <3>1 DEF Listed
            <4>2. CASE i = 1
                BY <4>1, <4>2, <1>2, <2>2
            <4>3. CASE i # 1
                BY <4>1, <4>3, <2>6 DEF Listed
            <4>. QED BY <4>2, <4>3
        <3>2. ASSUME NEW q \in Listed PROVE q \in Listed'
            <4>1. PICK j \in DOMAIN list : list[j].pid = q
                BY <3>2 DEF Listed
            <4>. QED BY <4>1, <2>5 DEF Listed
        <3>3. reading.pid \in Listed'
            <4>1. 1 \in DOMAIN list' /\ list'[1].pid = reading.pid
                BY <1>2, <1>3, <2>2, <2>3
            <4>. QED BY <4>1 DEF Listed
        <3>. QED BY <3>1, <3>2, <3>3
    <2>9. ASSUME NEW i \in DOMAIN list', list'[i] # r
          PROVE  list'[i].pid # reading.pid /\ \E j \in DOMAIN list : list'[i] = list[j]
        BY <2>9, <2>2, <2>4, <2>6
    <2>10. \E i \in DOMAIN list' : list'[i] = r
        BY <1>3, <2>2, <2>3
    <2>11. Len(list') = Len(list) + 1 /\ DOMAIN list' = 1..Len(list')
        BY <1>3, <2>2
    <2>. QED BY <1>2, <1>5, <2>2, <2>5, <2>7, <2>8, <2>9, <2>10, <2>11 DEF r
<1>. QED BY <1>4, <1>5

LEMMA KeepRefresh ==
    ASSUME RefreshInv, pc = "fread", OpenedIsAlive, Keep, UNCHANGED <<system, history>>
    PROVE  RefreshInv'
<1>. USE DEF system, history
<1>1. /\ Typed /\ reading.pid \in Pids /\ Reading /\ ~Reading' /\ ~Succeeded'
      /\ <<reading.pid, reading.owner>> \in lived /\ <<reading.pid, reading.text>> \in lived
      /\ pc' = "readdir" /\ reading' = Nothing /\ handles' = handles \ {"file"}
      /\ UNCHANGED <<result, cursor, pending, allocated>> /\ result = "none"
      /\ Pids \subseteq Nat /\ cursor \in Nat
    <2>1. Typed /\ reading.pid \in Pids /\ Reading /\ Pids \subseteq Nat
        BY ProcessListAssumption DEF RefreshInv, Reading, Ascending
    <2>2. cursor \in Nat
        BY <2>1 DEF Typed
    <2>. QED BY <2>1, <2>2 DEF RefreshInv, ReadWereAlive, Keep, NextEntry, Reading, Succeeded
<1>. DEFINE r == NewRecord
<1>2. /\ r \in Records /\ list' \in Seq(Records) /\ DOMAIN list' = 1..Len(list') /\ UniquePids'
      /\ Listed' = Listed \cup {reading.pid}
      /\ Len(list') = IF Known THEN Len(list) ELSE Len(list) + 1
      /\ \A i \in DOMAIN list' : list'[i] # r =>
            list'[i].pid # reading.pid /\ \E j \in DOMAIN list : list'[i] = list[j]
      /\ \A j \in DOMAIN list : list[j].pid # reading.pid =>
            \E i \in DOMAIN list' : list'[i] = list[j]
      /\ \E i \in DOMAIN list' : list'[i] = r
    BY KeepEffect
<1>3. /\ r.pid = reading.pid /\ r.active /\ r.contents = NewContents /\ NewContents \in Contents
      /\ r.contents.owner = reading.owner /\ r.contents.text = reading.text
    BY <1>2 DEF NewRecord, NewContents, Records
<1>. HIDE DEF r
<1>4. /\ DOMAIN told' = DOMAIN told \cup {reading.pid}
      /\ told'[reading.pid] = NewContents
      /\ \A q \in DOMAIN told : q # reading.pid => told'[q] = told[q]
    BY DEF Keep, Tell
<1>5. Typed'
    <2>1. DOMAIN told' \subseteq Pids /\ \A p \in DOMAIN told' : told'[p] \in Contents
        BY <1>1, <1>3, <1>4 DEF Typed
    <2>. QED BY <1>1, <1>2, <2>1, NothingIsTyped DEF Typed
<1>6. NothingLeaks'
    <2>1. allocated = Len(list) + IF ~Known THEN 1 ELSE 0
        BY <1>1 DEF RefreshInv, NothingLeaks, Reading
    <2>2. Len(list) \in Nat
        BY <1>1, RecordFacts
    <2>3. allocated' = Len(list')
        BY <1>1, <1>2, <2>1, <2>2
    <2>4. Len(list') \in Nat
        BY <1>2
    <2>. QED BY <1>1, <2>3, <2>4 DEF NothingLeaks, Reading
<1>7. Ascending'
    BY <1>1 DEF RefreshInv, Ascending
<1>8. ActiveArePast'
    <2>1. ASSUME NEW i \in DOMAIN list', list'[i].active
          PROVE  list'[i].pid <= cursor /\ \A q \in pending : list'[i].pid < q
        <3>1. CASE list'[i] = r
            BY <3>1, <1>1, <1>3 DEF RefreshInv, Ascending
        <3>2. CASE list'[i] # r
            BY <3>2, <1>1, <1>2, <2>1 DEF RefreshInv, ActiveArePast
        <3>. QED BY <3>1, <3>2
    <2>. QED BY <1>1, <2>1 DEF ActiveArePast
<1>9. ReadWereAlive'
    <2>1. ASSUME NEW i \in DOMAIN list', list'[i].active
          PROVE  /\ <<list'[i].pid, list'[i].contents.owner>> \in lived
                 /\ <<list'[i].pid, list'[i].contents.text>> \in lived
        <3>1. CASE list'[i] = r
            BY <3>1, <1>1, <1>3
        <3>2. CASE list'[i] # r
            <4>1. PICK j \in DOMAIN list : list'[i] = list[j]
                BY <3>2, <1>2
            <4>. QED BY <4>1, <2>1, <1>1 DEF RefreshInv, ReadWereAlive
        <3>. QED BY <3>1, <3>2
    <2>. QED BY <1>1, <2>1 DEF RefreshInv, ReadWereAlive
<1>10. SteadyAreCovered'
    <2>1. ASSUME NEW p \in steady \ faulted, p <= cursor
          PROVE  p \in pending \/ IsActive(p)'
        <3>1. CASE p = reading.pid
            BY <3>1, <1>2, <1>3 DEF IsActive
        <3>2. CASE p # reading.pid /\ IsActive(p)
            <4>1. PICK j \in DOMAIN list : list[j].pid = p /\ list[j].active
                BY <3>2 DEF IsActive
            <4>2. PICK i \in DOMAIN list' : list'[i] = list[j]
                BY <4>1, <3>2, <1>2
            <4>. QED BY <4>1, <4>2 DEF IsActive
        <3>3. p \in pending \/ p = reading.pid \/ IsActive(p)
            BY <1>1, <2>1 DEF RefreshInv, SteadyAreCovered
        <3>. QED BY <3>1, <3>2, <3>3
    <2>. QED BY <1>1, <2>1 DEF SteadyAreCovered
<1>11. ToldIsList'
    <2>1. DOMAIN told' = Listed'
        BY <1>2, <1>4 DEF RefreshInv, ToldIsList
    <2>2. ASSUME NEW i \in DOMAIN list'
          PROVE  told'[list'[i].pid] = list'[i].contents
        <3>1. CASE list'[i] = r
            BY <3>1, <1>3, <1>4
        <3>2. CASE list'[i] # r
            <4>1. PICK j \in DOMAIN list : list'[i] = list[j] /\ list[j].pid # reading.pid
                BY <3>2, <1>2
            <4>2. list[j].pid \in DOMAIN told /\ told[list[j].pid] = list[j].contents
                BY <4>1 DEF RefreshInv, ToldIsList, Listed
            <4>. QED BY <4>1, <4>2, <1>4
        <3>. QED BY <3>1, <3>2
    <2>. QED BY <2>1, <2>2 DEF ToldIsList
<1>. QED BY <1>2, <1>5, <1>6, <1>7, <1>8, <1>9, <1>10, <1>11 DEF RefreshInv

LEMMA FreadRefresh ==
    ASSUME RefreshInv, Fread
    PROVE  RefreshInv'
<1>1. CASE OpenedIsAlive /\ Keep
    BY <1>1, KeepRefresh DEF Fread
<1>2. CASE ~OpenedIsAlive /\ ReadFails(FALSE)
    <2>1. Reading /\ Typed /\ pc = "fread"
        BY DEF RefreshInv, Fread, Reading
    <2>2. reading.pid \notin steady
        BY <1>2, <2>1 DEF RefreshInv, SteadyAreCovered, OpenedIsAlive, Typed
    <2>. QED BY <1>2, <2>1, <2>2, ReadFailsRefresh DEF Fread, history, Typed
<1>. QED BY <1>1, <1>2 DEF Fread

LEMMA EndOfDirRefresh ==
    ASSUME RefreshInv, EndOfDir
    PROVE  RefreshInv'
<1>. USE DEF EndOfDir, ToSweep, system, data, history
<1>1. /\ Typed /\ pc = "readdir" /\ pc' = "sweep" /\ ~Reading /\ ~Reading' /\ ~Succeeded'
      /\ pending = {} /\ handles' = {}
      /\ UNCHANGED <<alive, births, list, told, allocated, result, cursor, pending, reading,
                     steady, lived, faulted>>
    BY DEF RefreshInv, Reading, Succeeded
<1>2. Typed'
    BY <1>1 DEF Typed
<1>3. UniquePids' /\ NothingLeaks' /\ ToldIsList' /\ Ascending' /\ ActiveArePast'
    BY <1>1 DEF RefreshInv, UniquePids, NothingLeaks, ToldIsList, Listed, Ascending,
                ActiveArePast, Reading
<1>4. ReadWereAlive'
    BY <1>1 DEF RefreshInv, ReadWereAlive
<1>5. SteadyAreCovered'
    <2>1. \A p \in steady : p <= cursor
        BY <1>1 DEF Typed
    <2>. QED BY <1>1, <2>1 DEF RefreshInv, SteadyAreCovered, IsActive
<1>. QED BY <1>2, <1>3, <1>4, <1>5 DEF RefreshInv

(* A failing readdir: the pids that were not listed any more count as      *)
(* missed.                                                                 *)
LEMMA ReadDirFailsRefresh ==
    ASSUME RefreshInv, ReadDirFails
    PROVE  RefreshInv'
<1>. USE DEF ReadDirFails, ToSweep, system, data
<1>1. /\ Typed /\ pc = "readdir" /\ pc' = "sweep" /\ ~Reading /\ ~Reading' /\ ~Succeeded'
      /\ pending = {} /\ handles' = {}
      /\ faulted' = faulted \cup {p \in Pids : p > cursor}
      /\ UNCHANGED <<alive, births, list, told, allocated, result, cursor, pending, reading,
                     steady, lived>>
    BY DEF RefreshInv, Reading, Succeeded
<1>2. Typed'
    BY <1>1 DEF Typed
<1>3. UniquePids' /\ NothingLeaks' /\ ToldIsList' /\ Ascending' /\ ActiveArePast'
    BY <1>1 DEF RefreshInv, UniquePids, NothingLeaks, ToldIsList, Listed, Ascending,
                ActiveArePast, Reading
<1>4. ReadWereAlive'
    BY <1>1 DEF RefreshInv, ReadWereAlive
<1>5. SteadyAreCovered'
    <2>1. \A p \in steady \ faulted' : p \in steady \ faulted /\ p <= cursor
        BY <1>1, ProcessListAssumption DEF Typed
    <2>. QED BY <1>1, <2>1 DEF RefreshInv, SteadyAreCovered, IsActive
<1>. QED BY <1>2, <1>3, <1>4, <1>5 DEF RefreshInv

LEMMA SweepRefresh ==
    ASSUME RefreshInv, Sweep
    PROVE  RefreshInv'
<1>. USE DEF system, history
<1>1. PICK k \in DOMAIN list : /\ FirstInactive(k)
                               /\ list' = Without(k)
                               /\ told' = [p \in DOMAIN told \ {list[k].pid} |-> told[p]]
    BY DEF Sweep
<1>2. /\ Typed /\ UniquePids /\ pc = "sweep" /\ ~Reading /\ ~Reading' /\ ~Succeeded /\ ~Succeeded'
      /\ allocated' = allocated - 1
      /\ UNCHANGED <<alive, births, pc, result, cursor, pending, reading, handles,
                     steady, lived, faulted>>
    BY DEF RefreshInv, Reading, Succeeded, Sweep
<1>3. /\ list' \in Seq(Records) /\ Len(list') = Len(list) - 1
      /\ DOMAIN list' = 1..(Len(list) - 1)
      /\ \A i \in DOMAIN list' : list'[i] = IF i < k THEN list[i] ELSE list[i + 1]
    BY <1>1, <1>2, WithoutFacts
<1>4. Len(list) \in Nat /\ DOMAIN list = 1..Len(list) /\ k \in 1..Len(list)
    BY <1>2, RecordFacts
<1>5. ASSUME NEW i \in DOMAIN list'
      PROVE  \E j \in DOMAIN list : list'[i] = list[j] /\ j # k
    <2>1. CASE i < k
        BY <2>1, <1>3, <1>4
    <2>2. CASE ~(i < k)
        <3>1. i + 1 \in DOMAIN list /\ i + 1 # k /\ list'[i] = list[i + 1]
            BY <2>2, <1>3, <1>4
        <3>. QED BY <3>1
    <2>. QED BY <2>1, <2>2
<1>6. ASSUME NEW j \in DOMAIN list, j # k
      PROVE  \E i \in DOMAIN list' : list'[i] = list[j]
    <2>1. CASE j < k
        <3>1. j \in DOMAIN list' /\ list'[j] = list[j]
            BY <2>1, <1>3, <1>4
        <3>. QED BY <3>1
    <2>2. CASE ~(j < k)
        <3>1. j - 1 \in DOMAIN list' /\ list'[j - 1] = list[(j - 1) + 1] /\ (j - 1) + 1 = j
            BY <2>2, <1>3, <1>4, <1>6
        <3>. QED BY <3>1
    <2>. QED BY <2>1, <2>2
<1>7. ~list[k].active
    BY <1>1 DEF FirstInactive
<1>8. allocated = Len(list)
    BY <1>2, <1>4 DEF RefreshInv, NothingLeaks, Reading
<1>9. Listed' = Listed \ {list[k].pid}
    BY <1>2, <1>4, <1>5, <1>6 DEF Listed, UniquePids
<1>10. Typed'
    <2>1. DOMAIN told' \subseteq Pids /\ \A p \in DOMAIN told' : told'[p] \in Contents
        BY <1>1, <1>2 DEF Typed
    <2>2. allocated' \in Nat
        BY <1>2, <1>4, <1>8
    <2>. QED BY <1>2, <1>3, <2>1, <2>2 DEF Typed
<1>11. UniquePids'
    <2>. SUFFICES ASSUME NEW i \in DOMAIN list', NEW j \in DOMAIN list',
                         list'[i].pid = list'[j].pid
                  PROVE  i = j
        BY DEF UniquePids
    <2>. DEFINE Old(x) == IF x < k THEN x ELSE x + 1
    <2>1. Old(i) \in DOMAIN list /\ Old(j) \in DOMAIN list
        BY <1>3, <1>4
    <2>2. list'[i] = list[Old(i)] /\ list'[j] = list[Old(j)]
        BY <1>3
    <2>3. Old(i) = Old(j)
        BY <1>2, <2>1, <2>2 DEF UniquePids
    <2>. QED BY <2>3, <1>3, <1>4
<1>12. NothingLeaks'
    BY <1>2, <1>3, <1>4, <1>8 DEF RefreshInv, NothingLeaks, Reading
<1>13. Ascending'
    BY <1>2 DEF RefreshInv, Ascending
<1>14. ActiveArePast'
    BY <1>2, <1>5 DEF RefreshInv, ActiveArePast
<1>15. ReadWereAlive'
    BY <1>2, <1>5 DEF RefreshInv, ReadWereAlive
<1>16. SteadyAreCovered'
    <2>1. ASSUME NEW p, IsActive(p) PROVE IsActive(p)'
        BY <1>6, <1>7, <2>1 DEF IsActive
    <2>. QED BY <1>2, <2>1 DEF RefreshInv, SteadyAreCovered
<1>17. ToldIsList'
    <2>1. DOMAIN told' = Listed'
        BY <1>1, <1>9 DEF RefreshInv, ToldIsList
    <2>2. ASSUME NEW i \in DOMAIN list'
          PROVE  told'[list'[i].pid] = list'[i].contents
        <3>1. PICK j \in DOMAIN list : list'[i] = list[j] /\ j # k
            BY <1>5
        <3>2. list[j].pid # list[k].pid
            BY <3>1, <1>2 DEF UniquePids
        <3>3. list[j].pid \in DOMAIN told /\ told[list[j].pid] = list[j].contents
            BY DEF RefreshInv, ToldIsList, Listed
        <3>. QED BY <3>1, <3>2, <3>3, <1>1
    <2>. QED BY <2>1, <2>2 DEF ToldIsList
<1>. QED BY <1>10, <1>11, <1>12, <1>13, <1>14, <1>15, <1>16, <1>17 DEF RefreshInv

LEMMA EndSweepRefresh ==
    ASSUME RefreshInv, EndSweep
    PROVE  RefreshInv'
<1>1. /\ Typed /\ pc = "sweep" /\ pc' = "idle" /\ result' = "success" /\ reading' = Nothing
      /\ ~Reading /\ ~Reading' /\ pending' = {} /\ handles' = {} /\ cursor' = 0
      /\ \A i \in DOMAIN list : list[i].active
      /\ UNCHANGED <<alive, births, list, told, allocated, steady, lived, faulted>>
    BY DEF RefreshInv, Reading, EndSweep, Return, system, data, history
<1>2. Typed'
    BY <1>1, NothingIsTyped DEF Typed
<1>3. UniquePids' /\ NothingLeaks' /\ ToldIsList' /\ Ascending' /\ ActiveArePast'
    BY <1>1 DEF RefreshInv, UniquePids, NothingLeaks, ToldIsList, Listed, Ascending,
                ActiveArePast, Reading
<1>4. ReadWereAlive'
    BY <1>1 DEF RefreshInv, ReadWereAlive
<1>5. SteadyAreCovered'
    BY <1>1 DEF RefreshInv, SteadyAreCovered, IsActive
<1>. QED BY <1>2, <1>3, <1>4, <1>5 DEF RefreshInv

LEMMA NextRefresh == RefreshInv /\ [Next]_vars => RefreshInv'
<1>. SUFFICES ASSUME RefreshInv, [Next]_vars PROVE RefreshInv'
    OBVIOUS
<1>1. CASE OpenDirFails
    BY <1>1, OpenDirFailsRefresh
<1>2. CASE OpenDir
    BY <1>2, OpenDirRefresh
<1>3. CASE Getdents
    BY <1>3, GetdentsRefresh
<1>4. CASE ReadDir
    BY <1>4, ReadDirRefresh
<1>5. CASE CallocFails
    BY <1>5, CallocFailsRefresh
<1>6. CASE Stat
    BY <1>6, StatRefresh
<1>7. CASE Fopen
    BY <1>7, FopenRefresh
<1>8. CASE Fread
    BY <1>8, FreadRefresh
<1>9. CASE Fault
    BY <1>9, FaultRefresh
<1>10. CASE EndOfDir
    BY <1>10, EndOfDirRefresh
<1>11. CASE Sweep
    BY <1>11, SweepRefresh
<1>12. CASE EndSweep
    BY <1>12, EndSweepRefresh
<1>13. CASE \E p \in Pids : Birth(p) \/ Exit(p)
    BY <1>13, BirthRefresh, ExitRefresh
<1>14. CASE UNCHANGED vars
    <2>1. UNCHANGED <<alive, births, list, told, allocated, pc, result, cursor, pending,
                      reading, handles, steady, lived, faulted>>
        BY <1>14 DEF vars, system, data, history
    <2>2. Typed' /\ UniquePids' /\ NothingLeaks' /\ ToldIsList' /\ Ascending' /\ ActiveArePast'
        BY <2>1 DEF RefreshInv, Typed, UniquePids, NothingLeaks, ToldIsList, Listed, Known,
                    Ascending, ActiveArePast, Reading
    <2>3. ReadWereAlive' /\ SteadyAreCovered'
        BY <2>1 DEF RefreshInv, ReadWereAlive, SteadyAreCovered, Succeeded, Reading, IsActive
    <2>. QED BY <2>2, <2>3 DEF RefreshInv
<1>15. CASE ReadDirFails
    BY <1>15, ReadDirFailsRefresh
<1>. QED BY <1>1, <1>2, <1>3, <1>4, <1>5, <1>6, <1>7, <1>8, <1>9, <1>10, <1>11, <1>12,
            <1>13, <1>14, <1>15 DEF Next, Step

LEMMA RefreshAlways == Spec => []RefreshInv
<1>. QED BY InitRefresh, NextRefresh, PTL DEF Spec

-----------------------------------------------------------------------------
(* Those a call failed for, and those readdir did not come to, have no     *)
(* active record, and this refresh does not meet them again.               *)
Missed ==
    /\ pc = "readdir" \/ Reading => \A p \in faulted :
          /\ p <= cursor /\ p \notin pending
          /\ Reading => p # reading.pid
    /\ pc # "idle" \/ Succeeded => \A p \in faulted : ~IsActive(p)

(* A step that neither misses a pid nor changes the list. *)
LEMMA NoneMissed ==
    ASSUME Missed, pc # "idle", UNCHANGED <<list, faulted>>,
           pc' = "readdir" \/ Reading' => /\ pc = "readdir" \/ Reading
                                         /\ cursor' = cursor /\ pending' \subseteq pending,
           Reading' => (Reading /\ reading'.pid = reading.pid) \/ reading'.pid \in pending
    PROVE  Missed'
BY DEF Missed, IsActive

LEMMA ReadFailsMissed ==
    ASSUME RefreshInv, Missed, Reading, NEW enoent \in BOOLEAN, ReadFails(enoent),
           faulted' \subseteq faulted \cup {reading.pid}
    PROVE  Missed'
<1>1. /\ reading.pid <= cursor /\ \A q \in pending : reading.pid < q
      /\ reading.pid \in Nat /\ pending \subseteq Nat /\ Typed /\ pc # "idle"
      /\ \A i \in DOMAIN list : list[i].active => list[i].pid < reading.pid
    BY ProcessListAssumption DEF RefreshInv, Ascending, ActiveArePast, Typed, Reading
<1>2. /\ UNCHANGED list /\ ~Reading' /\ ~Succeeded'
      /\ pc' = "readdir" => UNCHANGED <<cursor, pending>>
    BY ReadFailsEffect DEF Reading, Succeeded, RefreshInv, ReadWereAlive
<1>3. ~IsActive(reading.pid)
    BY <1>1, RecordFacts DEF IsActive
<1>4. reading.pid \notin pending
    BY <1>1
<1>5. \A p \in faulted' : ~IsActive(p)
    BY <1>1, <1>3 DEF Missed
<1>6. \A p \in faulted' : ~IsActive(p)'
    BY <1>2, <1>5 DEF IsActive
<1>7. pc' = "readdir" => \A p \in faulted' : p <= cursor' /\ p \notin pending'
    BY <1>1, <1>2, <1>4 DEF Missed
<1>. QED BY <1>2, <1>6, <1>7 DEF Missed, Reading

LEMMA SteadyMissed ==
    ASSUME RefreshInv, Missed,
           OpenDirFails \/ OpenDir \/ Getdents \/ CallocFails
           \/ EndOfDir \/ EndSweep \/ \E p \in Pids : Birth(p) \/ Exit(p)
    PROVE  Missed'
<1>. USE DEF system, data, history
<1>1. CASE OpenDirFails
    BY <1>1 DEF OpenDirFails, Missed, Succeeded, Reading, IsActive
<1>2. CASE OpenDir
    BY <1>2 DEF OpenDir, Missed
<1>3. CASE Getdents
    <2>1. PICK last \in alive : /\ last > cursor
                                /\ pending' = {p \in alive : cursor < p /\ p <= last}
                                /\ cursor' = last
        BY <1>3 DEF Getdents
    <2>2. /\ pc = "readdir" /\ pc' = "readdir" /\ UNCHANGED <<list, faulted>> /\ ~Reading'
          /\ cursor \in Nat /\ last \in Nat /\ faulted \subseteq Nat
        BY <1>3, <2>1, ProcessListAssumption DEF Getdents, RefreshInv, Typed, Reading
    <2>3. \A p \in faulted : p <= cursor
        BY <2>2 DEF Missed
    <2>4. \A p \in faulted : p <= cursor' /\ p \notin pending'
        BY <2>1, <2>2, <2>3
    <2>5. \A p \in faulted : ~IsActive(p)'
        BY <2>2 DEF Missed, IsActive
    <2>. QED BY <2>2, <2>4, <2>5 DEF Missed
<1>4. CASE CallocFails
    BY <1>4 DEF CallocFails, Return, Missed, Reading, Succeeded
<1>5. CASE EndOfDir
    BY <1>5 DEF EndOfDir, ToSweep, Missed, Reading, IsActive
<1>6. CASE EndSweep
    BY <1>6 DEF EndSweep, Return, Missed, Reading, IsActive
<1>7. CASE \E p \in Pids : Birth(p) \/ Exit(p)
    BY <1>7 DEF Birth, Exit, Missed, Reading, Succeeded, IsActive
<1>. QED BY <1>1, <1>2, <1>3, <1>4, <1>5, <1>6, <1>7

LEMMA ReadDirFailsMissed ==
    ASSUME RefreshInv, Missed, ReadDirFails
    PROVE  Missed'
<1>1. /\ pc = "readdir" /\ pc' = "sweep" /\ ~Reading' /\ UNCHANGED list
      /\ faulted' = faulted \cup {p \in Pids : p > cursor}
    BY DEF ReadDirFails, ToSweep, data, Reading
<1>2. \A p \in Pids : p > cursor => ~IsActive(p)
    <2>1. \A i \in DOMAIN list : list[i].active => list[i].pid <= cursor
        BY <1>1 DEF RefreshInv, ActiveArePast
    <2>2. Pids \subseteq Nat /\ cursor \in Nat
        BY ProcessListAssumption DEF RefreshInv, Typed
    <2>3. ASSUME NEW p \in Pids, p > cursor, NEW i \in DOMAIN list, list[i].active
          PROVE  list[i].pid # p
        <3>1. list[i].pid <= cursor
            BY <2>1, <2>3
        <3>. QED BY <2>2, <2>3, <3>1
    <2>. QED BY <2>3 DEF IsActive
<1>. QED BY <1>1, <1>2 DEF Missed, IsActive

LEMMA FreadMissed ==
    ASSUME RefreshInv, Missed, Fread
    PROVE  Missed'
<1>1. pc = "fread" /\ Reading /\ faulted' = faulted
    BY DEF Fread, Reading, history
<1>2. CASE OpenedIsAlive /\ Keep
    <2>1. pc' = "readdir" /\ ~Reading' /\ UNCHANGED <<cursor, pending>>
        BY <1>2 DEF Keep, NextEntry, Reading
    <2>2. ASSUME NEW p \in faulted, IsActive(p)' PROVE FALSE
        <3>1. PICK i \in DOMAIN list' : list'[i].pid = p /\ list'[i].active
            BY <2>2 DEF IsActive
        <3>2. p # reading.pid
            BY <1>1 DEF Missed
        <3>3. list'[i] # NewRecord
            BY <3>1, <3>2 DEF NewRecord
        <3>4. PICK j \in DOMAIN list : list'[i] = list[j]
            BY <1>1, <1>2, <3>3, KeepEffect
        <3>. QED BY <1>1, <3>1, <3>4 DEF Missed, IsActive
    <2>. QED BY <1>1, <2>1, <2>2 DEF Missed
<1>3. CASE ReadFails(FALSE)
    BY <1>1, <1>3, ReadFailsMissed
<1>. QED BY <1>2, <1>3 DEF Fread

LEMMA SweepMissed ==
    ASSUME RefreshInv, Missed, Sweep
    PROVE  Missed'
<1>1. PICK k \in DOMAIN list : list' = Without(k)
    BY DEF Sweep
<1>2. pc = "sweep" /\ pc' = "sweep" /\ ~Reading' /\ UNCHANGED faulted /\ Typed
    BY DEF Sweep, Reading, history, RefreshInv
<1>3. ASSUME NEW i \in DOMAIN list'
      PROVE  \E j \in DOMAIN list : list'[i] = list[j]
    <2>1. i \in 1..(Len(list) - 1) /\ list'[i] = IF i < k THEN list[i] ELSE list[i + 1]
        BY <1>1, <1>2, WithoutFacts
    <2>2. i \in DOMAIN list /\ i + 1 \in DOMAIN list
        BY <1>2, <2>1, RecordFacts
    <2>. QED BY <2>1, <2>2
<1>. QED BY <1>2, <1>3 DEF Missed, IsActive

LEMMA NextMissed == RefreshInv /\ Missed /\ [Next]_vars => Missed'
<1>. SUFFICES ASSUME RefreshInv, Missed, [Next]_vars PROVE Missed'
    OBVIOUS
<1>. USE DEF system, data, history
<1>1. CASE ReadDir
    <2>1. PICK p \in Pids : Least(p) /\ pending' = pending \ {p} /\ reading'.pid = p
        BY <1>1 DEF ReadDir, Nothing
    <2>. QED BY <1>1, <2>1, NoneMissed DEF ReadDir, Least
<1>2. CASE Stat
    <2>1. CASE reading.pid \in alive
        <3>1. reading'.pid = reading.pid
            BY <1>2, <2>1 DEF Stat, RefreshInv, Typed
        <3>. QED BY <1>2, <2>1, <3>1, NoneMissed DEF Stat, Reading
    <2>2. CASE reading.pid \notin alive
        BY <1>2, <2>2, ReadFailsMissed DEF Stat, Reading
    <2>. QED BY <2>1, <2>2
<1>3. CASE Fopen
    <2>1. CASE reading.pid \in alive
        <3>1. reading'.pid = reading.pid
            BY <1>3, <2>1 DEF Fopen, RefreshInv, Typed
        <3>. QED BY <1>3, <2>1, <3>1, NoneMissed DEF Fopen, Reading
    <2>2. CASE reading.pid \notin alive
        BY <1>3, <2>2, ReadFailsMissed DEF Fopen, Reading
    <2>. QED BY <2>1, <2>2
<1>4. CASE Fault
    BY <1>4, ReadFailsMissed DEF Fault, Reading
<1>5. CASE UNCHANGED vars
    BY <1>5 DEF vars, Missed, Reading, Succeeded, IsActive
<1>. QED BY <1>1, <1>2, <1>3, <1>4, <1>5, SteadyMissed, ReadDirFailsMissed, FreadMissed,
            SweepMissed DEF Next, Step

LEMMA MissedAlways == Spec => []Missed
<1>1. Init => Missed
    BY DEF Init, Missed, Reading, Succeeded
<1>. QED BY <1>1, NextMissed, RefreshAlways, PTL DEF Spec

(* As many records as there are pids at most. *)
LEMMA ListIsBounded ==
    ASSUME Typed, UniquePids
    PROVE  Len(list) <= Cardinality(Pids)
<1>. DEFINE f == [i \in 1..Len(list) |-> list[i].pid]
<1>1. Enumerates(f, Len(list), Listed)
    BY RecordFacts DEF UniquePids, Listed, Enumerates
<1>2. Cardinality(Listed) = Len(list)
    BY <1>1, EnumeratedSet
<1>3. Listed \in SUBSET Pids
    BY RecordFacts
<1>. QED BY <1>2, <1>3, FS_Subset, ProcessListAssumption

LEMMA RefreshInvTypes == RefreshInv => TypeOK
<1>. SUFFICES ASSUME RefreshInv PROVE TypeOK
    OBVIOUS
<1>1. Typed /\ UniquePids /\ NothingLeaks
    BY DEF RefreshInv
<1>2. Len(list) \in Nat /\ Len(list) <= Cardinality(Pids) /\ Cardinality(Pids) \in Nat
    BY <1>1, RecordFacts, ListIsBounded, ProcessListAssumption, FS_CardinalityType
<1>3. allocated = Len(list) \/ allocated = Len(list) + 1
    BY <1>1, <1>2 DEF NothingLeaks
<1>. QED BY <1>1, <1>2, <1>3 DEF TypeOK

-----------------------------------------------------------------------------
(* TypeOK: all state has the shape the code gives it; as many process_t as *)
(* there are pids, and one more, are allocated at most.                    *)
THEOREM TypeCorrect == Spec => []TypeOK
<1>. QED BY RefreshAlways, RefreshInvTypes, PTL

(* UniquePids: find_process_by_pid finds the record of every pid that is   *)
(* listed, however the refreshes before ended.                             *)
THEOREM UniquePidsCorrect == Spec => []UniquePids
<1>1. RefreshInv => UniquePids
    BY DEF RefreshInv
<1>. QED BY <1>1, RefreshAlways, PTL

(* NothingLeaks: each way out of process_list_refresh frees the process_t  *)
(* it did not list and closes what it opened.                              *)
THEOREM NothingLeaksCorrect == Spec => []NothingLeaks
<1>1. RefreshInv => NothingLeaks
    BY DEF RefreshInv
<1>. QED BY <1>1, RefreshAlways, PTL

(* ListedWereAlive: what a successful refresh lists was alive during it.   *)
THEOREM ListedWereAliveCorrect == Spec => []ListedWereAlive
<1>1. RefreshInv => ListedWereAlive
    BY DEF RefreshInv, ReadWereAlive, ListedWereAlive
<1>. QED BY <1>1, RefreshAlways, PTL

(* SteadyAreListed: of the processes that run all along, a refresh that    *)
(* returned success lists those no call failed for and readdir came to,    *)
(* and only those.                                                         *)
THEOREM SteadyAreListedCorrect == Spec => []SteadyAreListed
<1>1. ASSUME RefreshInv, Missed, Succeeded
      PROVE  steady \cap Listed = steady \ faulted
    <2>1. \A p \in steady \ faulted : IsActive(p)
        BY <1>1 DEF RefreshInv, SteadyAreCovered
    <2>2. \A p \in Listed : IsActive(p)
        BY <1>1 DEF RefreshInv, ReadWereAlive, Listed, IsActive
    <2>3. \A p \in faulted : ~IsActive(p)
        BY <1>1 DEF Missed
    <2>. QED BY <2>1, <2>2, <2>3 DEF IsActive, Listed
<1>2. RefreshInv /\ Missed => SteadyAreListed
    BY <1>1 DEF SteadyAreListed
<1>. QED BY <1>2, RefreshAlways, MissedAlways, PTL

(* The callbacks told exactly the list, at every moment of a refresh.      *)
THEOREM ToldIsListCorrect == Spec => []ToldIsList
<1>1. RefreshInv => ToldIsList
    BY DEF RefreshInv
<1>. QED BY <1>1, RefreshAlways, PTL

-----------------------------------------------------------------------------
(* The table a refresh is seen to keep. *)
Entries    == [i \in DOMAIN list |-> [pid |-> list[i].pid, contents |-> list[i].contents]]
ActivePids == {list[i].pid : i \in {j \in DOMAIN list : list[j].active}}
Reported   == IF pc = "idle" THEN {} ELSE ActivePids
Phase      == CASE pc = "idle" -> "idle" [] pc = "sweep" -> "removing" [] OTHER -> "reading"

LEMMA EntriesFacts ==
    /\ DOMAIN Entries = DOMAIN list
    /\ \A i \in DOMAIN list : Entries[i] = [pid |-> list[i].pid, contents |-> list[i].contents]
    /\ Table!PidsIn(Entries) = Listed
<1>1. DOMAIN Entries = DOMAIN list
    BY DEF Entries
<1>2. \A i \in DOMAIN list : Entries[i] = [pid |-> list[i].pid, contents |-> list[i].contents]
    BY DEF Entries
<1>. QED BY <1>1, <1>2 DEF Table!PidsIn, Listed

LEMMA ActiveFacts == \A p : p \in ActivePids <=> IsActive(p)
BY DEF ActivePids, IsActive

(* Most steps change nothing the table shows. *)
LEMMA Unseen ==
    ASSUME UNCHANGED <<list, told>>, Phase' = Phase, pc = "idle" <=> pc' = "idle"
    PROVE  UNCHANGED Table!table
<1>1. Entries' = Entries /\ Reported' = Reported
    BY DEF Entries, Reported, ActivePids
<1>. QED BY <1>1 DEF Table!table, Entries, Reported, ActivePids, Phase

LEMMA OpenDirBegins ==
    ASSUME RefreshInv, OpenDir
    PROVE  Table!Begin
<1>1. Phase = "idle" /\ Phase' = "reading" /\ told' = told
    BY DEF OpenDir, Phase
<1>2. /\ DOMAIN list' = DOMAIN list
      /\ \A i \in DOMAIN list : /\ list'[i].pid = list[i].pid
                                /\ list'[i].contents = list[i].contents
                                /\ ~list'[i].active
    BY DeactivatedFacts DEF RefreshInv, OpenDir
<1>3. Entries' = Entries
    BY <1>2 DEF Entries
<1>4. Reported' = Reported
    BY <1>2 DEF Reported, ActivePids, OpenDir
<1>. QED BY <1>1, <1>3, <1>4 DEF Table!Begin, Entries, Reported, ActivePids, Phase

LEMMA KeepReports ==
    ASSUME RefreshInv, pc = "fread", OpenedIsAlive, Keep
    PROVE  Table!Report(reading.pid, NewContents)
<1>. DEFINE p == reading.pid
            c == NewContents
<1>0. Typed /\ Reading /\ p \in Pids /\ pc' = "readdir"
    BY DEF RefreshInv, Reading, Ascending, Keep, NextEntry
<1>1. Phase = "reading" /\ Phase' = "reading"
    BY <1>0 DEF Phase
<1>2. p \notin ActivePids
    <2>1. \A i \in DOMAIN list : list[i].active => list[i].pid < p
        BY <1>0 DEF RefreshInv, ActiveArePast, Reading
    <2>. QED BY <2>1, <1>0, RecordFacts DEF ActivePids
<1>3. /\ DOMAIN list' = 1..Len(list') /\ UniquePids' /\ list' \in Seq(Records)
      /\ \A i \in DOMAIN list' : list'[i] # NewRecord =>
            list'[i].pid # p /\ \E j \in DOMAIN list : list'[i] = list[j]
      /\ \A j \in DOMAIN list : list[j].pid # p => \E i \in DOMAIN list' : list'[i] = list[j]
      /\ \E i \in DOMAIN list' : list'[i] = NewRecord
    BY KeepEffect
<1>4. NewRecord.pid = p /\ NewRecord.active /\ NewRecord.contents = c
    BY DEF NewRecord
<1>5. ActivePids' = ActivePids \cup {p}
    <2>1. ASSUME NEW q \in ActivePids' PROVE q \in ActivePids \cup {p}
        BY <2>1, <1>3, <1>4 DEF ActivePids
    <2>2. ASSUME NEW q \in ActivePids PROVE q \in ActivePids'
        <3>1. PICK j \in DOMAIN list : list[j].pid = q /\ list[j].active
            BY <2>2 DEF ActivePids
        <3>2. PICK i \in DOMAIN list' : list'[i] = list[j]
            BY <3>1, <1>2, <1>3
        <3>. QED BY <3>1, <3>2 DEF ActivePids
    <2>3. p \in ActivePids'
        BY <1>3, <1>4 DEF ActivePids
    <2>. QED BY <2>1, <2>2, <2>3
<1>6. Entries' = IF p \in Table!PidsIn(Entries)
                 THEN [i \in DOMAIN Entries |->
                          IF Entries[i].pid = p THEN [Entries[i] EXCEPT !.contents = c]
                          ELSE Entries[i]]
                 ELSE <<[pid |-> p, contents |-> c]>> \o Entries
    <2>1. CASE Known
        <3>1. p \in Table!PidsIn(Entries)
            BY <2>1, EntriesFacts DEF Known
        <3>2. list' = [i \in DOMAIN list |-> IF list[i].pid = p THEN NewRecord ELSE list[i]]
            BY <2>1 DEF Keep
        <3>3. Entries' = [i \in DOMAIN list |->
                             IF list[i].pid = p THEN [pid |-> p, contents |-> c]
                             ELSE [pid |-> list[i].pid, contents |-> list[i].contents]]
            BY <3>2, <1>4 DEF Entries
        <3>4. \A i \in DOMAIN list :
                 (IF Entries[i].pid = p THEN [Entries[i] EXCEPT !.contents = c] ELSE Entries[i])
                 = IF list[i].pid = p THEN [pid |-> p, contents |-> c]
                   ELSE [pid |-> list[i].pid, contents |-> list[i].contents]
            BY EntriesFacts
        <3>. QED BY <3>1, <3>3, <3>4, EntriesFacts
    <2>2. CASE ~Known
        <3>. DEFINE e == [pid |-> p, contents |-> c]
                    Any == [pid : Pids, contents : Contents]
                    L == Len(list)
        <3>1. p \notin Table!PidsIn(Entries)
            BY <2>2, EntriesFacts DEF Known
        <3>2. list' = <<NewRecord>> \o list
            BY <2>2 DEF Keep
        <3>3. L \in Nat /\ DOMAIN list = 1..L /\ DOMAIN list' = 1..(L + 1)
              /\ list'[1] = NewRecord /\ \A i \in 2..(L + 1) : list'[i] = list[i - 1]
            <4>1. NewRecord \in Records /\ list \in Seq(Records)
                BY <1>0, KeepEffect DEF Typed
            <4>2. L \in Nat /\ DOMAIN list = 1..L
                BY <1>0, RecordFacts
            <4>. HIDE DEF L
            <4>3. DOMAIN (<<NewRecord>> \o list) = 1..(Len(list) + 1)
                  /\ (<<NewRecord>> \o list)[1] = NewRecord
                  /\ \A i \in 2..(Len(list) + 1) : (<<NewRecord>> \o list)[i] = list[i - 1]
                BY <4>1, PrependFacts
            <4>. QED BY <3>2, <4>2, <4>3 DEF L
        <3>4. e \in Any /\ \A i \in 1..L : Entries[i] \in Any
            <4>1. c \in Contents
                BY KeepEffect, <1>4 DEF Records
            <4>2. \A i \in 1..L : list[i].pid \in Pids /\ list[i].contents \in Contents
                BY <1>0, <3>3, RecordFacts
            <4>. QED BY <1>0, <3>3, <4>1, <4>2, EntriesFacts
        <3>5. Entries \in Seq(Any) /\ Len(Entries) = L
            BY <3>3, <3>4 DEF Entries
        <3>. HIDE DEF e, Any
        <3>6. <<e>> \o Entries \in Seq(Any)
              /\ DOMAIN (<<e>> \o Entries) = 1..(L + 1) /\ (<<e>> \o Entries)[1] = e
              /\ \A i \in 2..(L + 1) : (<<e>> \o Entries)[i] = Entries[i - 1]
            <4>1. e \in Any
                BY <3>4
            <4>. QED BY <4>1, <3>5, PrependFacts
        <3>7. ASSUME NEW i \in 1..(L + 1)
              PROVE  (<<e>> \o Entries)[i] = [pid |-> list'[i].pid, contents |-> list'[i].contents]
            <4>1. CASE i = 1
                BY <4>1, <3>3, <3>6, <1>4 DEF e
            <4>2. CASE i # 1
                <5>1. i \in 2..(L + 1) /\ i - 1 \in DOMAIN list
                    BY <4>2, <3>3
                <5>. QED BY <5>1, <3>3, <3>6, EntriesFacts
            <4>. QED BY <4>1, <4>2
        <3>8. Entries' = [i \in 1..(L + 1) |->
                             [pid |-> list'[i].pid, contents |-> list'[i].contents]]
            BY <3>3 DEF Entries
        <3>9. <<e>> \o Entries = [i \in 1..(L + 1) |-> (<<e>> \o Entries)[i]]
            BY <3>6
        <3>10. Entries' = <<e>> \o Entries
            BY <3>7, <3>8, <3>9
        <3>. QED BY <3>1, <3>10 DEF e
    <2>. QED BY <2>1, <2>2
<1>7. told' = [q \in DOMAIN told \cup {p} |-> IF q = p THEN c ELSE told[q]]
    BY DEF Keep, Tell
<1>8. p \notin Reported /\ Reported' = Reported \cup {p}
    BY <1>0, <1>2, <1>5 DEF Reported, Reading
<1>. HIDE DEF p, c
<1>9. Table!Report(p, c)
    BY <1>1, <1>6, <1>7, <1>8 DEF Table!Report, Entries, Reported, ActivePids, Phase
<1>. QED BY <1>9 DEF p, c

LEMMA SweepRemoves ==
    ASSUME RefreshInv, Sweep
    PROVE  Table!Remove
<1>. DEFINE Any == [pid : Pids, contents : Contents]
            L == Len(list)
<1>1. PICK k \in DOMAIN list : /\ FirstInactive(k)
                               /\ list' = Without(k)
                               /\ told' = [p \in DOMAIN told \ {list[k].pid} |-> told[p]]
    BY DEF Sweep
<1>2. /\ Typed /\ UniquePids /\ pc = "sweep" /\ pc' = "sweep"
      /\ L \in Nat /\ DOMAIN list = 1..L /\ k \in 1..L
      /\ \A i \in DOMAIN list : list[i].pid \in Pids /\ list[i].contents \in Contents
    <2>1. Typed /\ UniquePids
        BY DEF RefreshInv
    <2>. QED BY <2>1, RecordFacts DEF Sweep
<1>3. /\ Phase = "removing" /\ Phase' = "removing"
      /\ Reported = ActivePids /\ Reported' = ActivePids'
    BY <1>2 DEF Phase, Reported
<1>4. ~list[k].active /\ \A i \in 1..(k - 1) : list[i].active
    BY <1>1 DEF FirstInactive
<1>5. DOMAIN list' = 1..(L - 1)
      /\ \A i \in 1..(L - 1) : list'[i] = IF i < k THEN list[i] ELSE list[i + 1]
    BY <1>1, <1>2, WithoutFacts
<1>6. ActivePids' = ActivePids
    <2>1. ASSUME NEW q \in ActivePids' PROVE q \in ActivePids
        <3>1. PICK i \in 1..(L - 1) : list'[i].pid = q /\ list'[i].active
            BY <2>1, <1>5 DEF ActivePids
        <3>2. i \in DOMAIN list /\ i + 1 \in DOMAIN list
            BY <1>2
        <3>. QED BY <3>1, <3>2, <1>5 DEF ActivePids
    <2>2. ASSUME NEW q \in ActivePids PROVE q \in ActivePids'
        <3>1. PICK j \in DOMAIN list : list[j].pid = q /\ list[j].active
            BY <2>2 DEF ActivePids
        <3>2. j # k
            BY <3>1, <1>4
        <3>3. CASE j < k
            <4>1. j \in 1..(L - 1) /\ list'[j] = list[j]
                BY <3>3, <1>2, <1>5
            <4>. QED BY <4>1, <3>1, <1>5 DEF ActivePids
        <3>4. CASE ~(j < k)
            <4>1. j - 1 \in 1..(L - 1) /\ ~(j - 1 < k) /\ (j - 1) + 1 = j
                BY <3>2, <3>4, <1>2
            <4>2. list'[j - 1] = list[j]
                BY <4>1, <1>5
            <4>. QED BY <4>1, <4>2, <3>1, <1>5 DEF ActivePids
        <3>. QED BY <3>3, <3>4
    <2>. QED BY <2>1, <2>2
<1>7. Entries \in Seq(Any) /\ Len(Entries) = L
    <2>1. \A i \in 1..L : [pid |-> list[i].pid, contents |-> list[i].contents] \in Any
        BY <1>2
    <2>. QED BY <2>1, <1>2 DEF Entries
<1>. DEFINE Rest == SubSeq(Entries, 1, k - 1) \o SubSeq(Entries, k + 1, Len(Entries))
<1>8. /\ Rest \in Seq(Any) /\ DOMAIN Rest = 1..(L - 1)
      /\ \A i \in 1..(L - 1) : Rest[i] = IF i < k THEN Entries[i] ELSE Entries[i + 1]
    <2>. HIDE DEF Any
    <2>1. k \in 1..Len(Entries)
        BY <1>2, <1>7
    <2>. QED BY <1>7, <2>1, DeleteFacts
<1>. HIDE DEF Rest, Any
<1>9. Entries' = Rest
    <2>1. ASSUME NEW i \in 1..(L - 1)
          PROVE  Rest[i] = [pid |-> list'[i].pid, contents |-> list'[i].contents]
        <3>1. i \in DOMAIN list /\ i + 1 \in DOMAIN list
            BY <1>2
        <3>. QED BY <3>1, <1>5, <1>8, EntriesFacts
    <2>2. Entries' = [i \in 1..(L - 1) |-> [pid |-> list'[i].pid, contents |-> list'[i].contents]]
        BY <1>5 DEF Entries
    <2>3. Rest = [i \in 1..(L - 1) |-> Rest[i]]
        BY <1>8
    <2>. QED BY <2>1, <2>2, <2>3
<1>10. Entries[k].pid = list[k].pid /\ k \in DOMAIN Entries
    BY EntriesFacts
<1>11. Entries[k].pid \notin Reported
    BY <1>2, <1>3, <1>4, <1>10 DEF ActivePids, UniquePids
<1>12. \A i \in 1..(k - 1) : Entries[i].pid \in Reported
    <2>1. ASSUME NEW i \in 1..(k - 1) PROVE Entries[i].pid \in Reported
        <3>1. i \in DOMAIN list /\ list[i].active
            BY <1>2, <1>4
        <3>2. Entries[i].pid = list[i].pid
            BY <3>1, EntriesFacts
        <3>. QED BY <3>1, <3>2, <1>3 DEF ActivePids
    <2>. QED BY <2>1
<1>13. told' = [p \in DOMAIN told \ {Entries[k].pid} |-> told[p]]
    BY <1>1, <1>10
<1>14. /\ Phase = "removing" /\ Reported' = Reported /\ Phase' = Phase
       /\ \E n \in DOMAIN Entries :
             /\ Entries[n].pid \notin Reported
             /\ \A i \in 1..(n - 1) : Entries[i].pid \in Reported
             /\ Entries' = SubSeq(Entries, 1, n - 1) \o SubSeq(Entries, n + 1, Len(Entries))
             /\ told' = [p \in DOMAIN told \ {Entries[n].pid} |-> told[p]]
    BY <1>3, <1>6, <1>9, <1>10, <1>11, <1>12, <1>13 DEF Rest
<1>. QED BY <1>14 DEF Table!Remove, Table!Unreported, Table!Without,
                      Entries, Reported, ActivePids, Phase

LEMMA EndSweepCompletes ==
    ASSUME RefreshInv, EndSweep
    PROVE  Table!Complete
<1>1. pc = "sweep" /\ pc' = "idle" /\ UNCHANGED <<list, told>>
    BY DEF EndSweep, Return, data
<1>2. Phase = "removing" /\ Phase' = "idle" /\ Reported' = {} /\ Entries' = Entries
    BY <1>1 DEF Phase, Reported, Entries
<1>3. Table!PidsIn(Entries) \subseteq Reported
    BY <1>1, EntriesFacts DEF EndSweep, Reported, ActivePids, Listed
<1>. QED BY <1>1, <1>2, <1>3 DEF Table!Complete, Table!EndRefresh,
                                 Entries, Reported, ActivePids, Phase

(* A refresh that returns before it sweeps. *)
LEMMA ReturnGivesUp ==
    ASSUME pc \notin {"idle", "sweep"}, pc' = "idle", UNCHANGED <<list, told>>
    PROVE  Table!GiveUp
<1>1. Phase = "reading" /\ Phase' = "idle" /\ Reported' = {} /\ Entries' = Entries
    BY DEF Phase, Reported, Entries
<1>. QED BY <1>1 DEF Table!GiveUp, Table!EndRefresh, Entries, Reported, ActivePids, Phase

LEMMA ReadFailsShows ==
    ASSUME RefreshInv, Reading, NEW enoent \in BOOLEAN, ReadFails(enoent)
    PROVE  Table!GiveUp \/ UNCHANGED Table!table
<1>1. UNCHANGED <<list, told>> /\ pc' \in {"readdir", "idle"} /\ pc \notin {"idle", "sweep"}
    BY ReadFailsEffect DEF Reading
<1>2. CASE pc' = "idle"
    BY <1>1, <1>2, ReturnGivesUp
<1>3. CASE pc' = "readdir"
    BY <1>1, <1>3, Unseen DEF Phase
<1>. QED BY <1>1, <1>2, <1>3

LEMMA InitShows == Init => Table!Init
<1>. SUFFICES ASSUME Init PROVE Table!Init
    OBVIOUS
<1>1. Entries = <<>> /\ Reported = {} /\ Phase = "idle" /\ told = <<>>
    BY DEF Init, Entries, Reported, Phase
<1>. QED BY <1>1 DEF Table!Init, Entries, Reported, ActivePids, Phase

(* Every step of a refresh is a step of the table, or leaves it as it is.  *)
LEMMA StepShows == RefreshInv /\ [Next]_vars => [Table!Next]_(Table!table)
<1>. SUFFICES ASSUME RefreshInv, [Next]_vars
              PROVE  Table!Next \/ UNCHANGED Table!table
    OBVIOUS
<1>. USE DEF system, data, history
<1>1. CASE OpenDirFails
    BY <1>1, Unseen DEF OpenDirFails, Phase
<1>2. CASE OpenDir
    BY <1>2, OpenDirBegins DEF Table!Next
<1>3. CASE Getdents
    BY <1>3, Unseen DEF Getdents, Phase
<1>4. CASE ReadDir
    BY <1>4, Unseen DEF ReadDir, Phase
<1>5. CASE CallocFails
    BY <1>5, ReturnGivesUp DEF CallocFails, Return, Table!Next
<1>6. CASE Stat
    <2>1. CASE reading.pid \in alive
        BY <1>6, <2>1, Unseen DEF Stat, Phase
    <2>2. CASE reading.pid \notin alive
        BY <1>6, <2>2, ReadFailsShows DEF Stat, Reading, Table!Next
    <2>. QED BY <2>1, <2>2
<1>7. CASE Fopen
    <2>1. CASE reading.pid \in alive
        BY <1>7, <2>1, Unseen DEF Fopen, Phase
    <2>2. CASE reading.pid \notin alive
        BY <1>7, <2>2, ReadFailsShows DEF Fopen, Reading, Table!Next
    <2>. QED BY <2>1, <2>2
<1>8. CASE Fread
    <2>1. CASE OpenedIsAlive /\ Keep
        <3>1. reading.pid \in Pids /\ NewContents \in Contents
            <4>1. NewRecord \in Records /\ pc = "fread"
                BY <1>8, <2>1, KeepEffect DEF Fread
            <4>. QED BY <4>1 DEF NewRecord, Records, RefreshInv, Ascending, Reading
        <3>2. Table!Report(reading.pid, NewContents)
            BY <1>8, <2>1, KeepReports DEF Fread
        <3>. HIDE DEF system, data, history
        <3>3. \E p \in Pids, c \in Contents : Table!Report(p, c)
            BY <3>1, <3>2 DEF Table!Report
        <3>. QED BY <3>3 DEF Table!Next
    <2>2. CASE ReadFails(FALSE)
        BY <1>8, <2>2, ReadFailsShows DEF Fread, Reading, Table!Next
    <2>. QED BY <1>8, <2>1, <2>2 DEF Fread
<1>9. CASE Fault
    BY <1>9, ReadFailsShows DEF Fault, Reading, Table!Next
<1>10. CASE EndOfDir \/ ReadDirFails
    <2>0. pc = "readdir" /\ ToSweep
        BY <1>10 DEF EndOfDir, ReadDirFails
    <2>1. Phase = "reading" /\ Phase' = "removing" /\ told' = told
        BY <2>0 DEF ToSweep, Phase
    <2>2. Entries' = Entries /\ Reported' = Reported
        BY <2>0 DEF ToSweep, Entries, Reported, ActivePids
    <2>3. Table!Turn
        BY <2>1, <2>2 DEF Table!Turn, Entries, Reported, ActivePids, Phase
    <2>. QED BY <2>3 DEF Table!Next
<1>11. CASE Sweep
    BY <1>11, SweepRemoves DEF Table!Next
<1>12. CASE EndSweep
    BY <1>12, EndSweepCompletes DEF Table!Next
<1>13. CASE \E p \in Pids : Birth(p) \/ Exit(p)
    BY <1>13, Unseen DEF Birth, Exit, Phase
<1>14. CASE UNCHANGED vars
    BY <1>14, Unseen DEF vars, Phase
<1>. QED BY <1>1, <1>2, <1>3, <1>4, <1>5, <1>6, <1>7, <1>8, <1>9, <1>10, <1>11, <1>12,
            <1>13, <1>14 DEF Next, Step

(* IsProcessTable: to whoever follows the callbacks, process_list_refresh  *)
(* is a table that reports each process once and removes the rest.         *)
THEOREM ImplementsProcessTable == Spec => IsProcessTable
<1>. QED BY InitShows, StepShows, RefreshAlways, PTL DEF Spec, IsProcessTable, Table!Spec
==============================================================================
