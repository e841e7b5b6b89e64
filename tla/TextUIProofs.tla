----------------------------- MODULE TextUIProofs -----------------------------
(* What the text user interface shows of its table, for every set of pids, *)
(* every pad and whatever an uninitialised buffer holds.                   *)
EXTENDS TextUI, DataLemmas, TLAPS

(* The table runs when the loop is inside the refresh.                     *)
Phases ==
    /\ phase \in {"idle", "reading", "removing"}
    /\ phase = "idle" <=> pc # "refresh"
    /\ pc # "refresh" => reported = {}
    /\ pc = "refresh" => drawn = 0 /\ complete = FALSE
    /\ pc = "getch" => drawn = Len(list)
    /\ phase = "reading" => withdrawn = {}

(* No pid has two entries; what was reported is in the table.              *)
UniqueEntries == \A i, j \in DOMAIN list : list[i].pid = list[j].pid => i = j
ReportedAreIn == reported \subseteq PidsIn(list) /\ IsFiniteSet(reported)

(* While the refresh reads, each report drew one row, of its pid.          *)
RowPerReport ==
    phase = "reading" => /\ rowNum = FirstRow + Cardinality(reported)
                         /\ \A r \in Drawn : rows[r].pid \in reported

Shown(i) == \E r \in Drawn : Shows(rows[r], list[i])

(* The callbacks drew what was reported, as far as the pad reaches.        *)
ReportedAreShown ==
    /\ pc = "refresh" /\ FirstRow + Cardinality(reported) <= PadRows =>
          \A i \in DOMAIN list : list[i].pid \in reported => Shown(i)
    /\ pc \in {"draw", "getch"} /\ complete /\ FirstRow + Len(list) <= PadRows =>
          \A i \in DOMAIN list : Shown(i)

(* The loop drew the first entries, as far as the pad reaches.             *)
LoopShows ==
    pc \in {"draw", "getch"} /\ rowNum <= PadRows =>
        \A i \in DOMAIN list : i <= drawn => Shown(i)

UIInv ==
    /\ TypeOK /\ Phases /\ UniqueEntries /\ ReportedAreIn /\ RowPerReport
    /\ ReportedAreShown /\ LoopShows /\ GoneAreBelow

-----------------------------------------------------------------------------
LEMMA EntryFacts ==
    ASSUME TypeOK
    PROVE  /\ Len(list) \in Nat /\ DOMAIN list = 1..Len(list)
           /\ \A i \in DOMAIN list : list[i] \in Entries
           /\ \A i \in DOMAIN list : list[i].pid \in Pids /\ list[i].contents \in Contents
           /\ DataRows \subseteq Nat /\ PadRows \in Nat /\ FirstRow = 2
           /\ rowNum \in Nat /\ rowNum >= FirstRow
<1>1. Len(list) \in Nat /\ DOMAIN list = 1..Len(list)
    BY DEF TypeOK
<1>2. \A i \in DOMAIN list : list[i] \in Entries
    BY <1>1 DEF TypeOK
<1>. QED BY <1>1, <1>2, TextUIAssumption DEF TypeOK, Entries, DataRows, FirstRow

(* render_process writes the next row, when the pad has one, and no other. *)
LEMMA RenderEffect ==
    ASSUME TypeOK, NEW entry \in Entries, RenderProcess(entry)
    PROVE  /\ rowNum' = rowNum + 1
           /\ rows' \in [DataRows -> [pid : Pids, state : States] \cup {Blank}]
           /\ \A r \in Drawn : r \in Drawn' /\ rows'[r] = rows[r]
           /\ \A r \in Drawn' : r \in Drawn \/ Shows(rows'[r], entry)
           /\ rowNum < PadRows => rowNum \in Drawn' /\ Shows(rows'[rowNum], entry)
<1>0. /\ rowNum \in Nat /\ rowNum >= FirstRow /\ PadRows \in Nat /\ FirstRow = 2
      /\ rowNum' = rowNum + 1 /\ DataRows = 2..(PadRows - 1)
      /\ rows \in [DataRows -> [pid : Pids, state : States] \cup {Blank}]
    BY EntryFacts DEF RenderProcess, DataRows, FirstRow, TypeOK
<1>1. CASE rowNum \in DataRows
    <2>1. PICK name \in ShownFor(entry.contents) :
             rows' = [rows EXCEPT ![rowNum] = [pid |-> entry.pid, state |-> name]]
        BY <1>1 DEF RenderProcess
    <2>. DEFINE row == [pid |-> entry.pid, state |-> name]
    <2>2. row \in [pid : Pids, state : States] /\ Shows(row, entry)
        <3>1. CASE KnownLetter(entry.contents)
            BY <3>1, <2>1 DEF ShownFor, States, KnownLetter, Shows, Entries
        <3>2. CASE ~KnownLetter(entry.contents)
            BY <3>2, <2>1 DEF ShownFor, States, Shows, Entries
        <3>. QED BY <3>1, <3>2
    <2>. HIDE DEF row
    <2>3. /\ rows' = [rows EXCEPT ![rowNum] = row]
          /\ rows' \in [DataRows -> [pid : Pids, state : States] \cup {Blank}]
        BY <2>1, <2>2, <1>0, <1>1 DEF row
    <2>4. rows'[rowNum] = row /\ \A r \in DataRows : r # rowNum => rows'[r] = rows[r]
        BY <2>3, <1>0, <1>1
    <2>5. Drawn' = Drawn \cup {rowNum} /\ rowNum \notin Drawn /\ Drawn \subseteq DataRows
        BY <1>0, <1>1 DEF Drawn
    <2>. QED BY <1>0, <2>2, <2>3, <2>4, <2>5
<1>2. CASE rowNum \notin DataRows
    <2>1. rows' = rows /\ ~(rowNum < PadRows)
        BY <1>0, <1>2 DEF RenderProcess
    <2>2. Drawn' = Drawn
        BY <1>0, <1>2 DEF Drawn
    <2>. QED BY <1>0, <2>1, <2>2
<1>. QED BY <1>1, <1>2

(* A report leaves one entry for its pid and the others as they were.      *)
LEMMA ReportEffect ==
    ASSUME TypeOK, UniqueEntries, NEW p \in Pids, NEW c \in Contents, Report(p, c)
    PROVE  /\ list' \in Seq(Entries)
           /\ UniqueEntries'
           /\ PidsIn(list') = PidsIn(list) \cup {p}
           /\ \A i \in DOMAIN list' : \/ list'[i] = [pid |-> p, contents |-> c]
                                      \/ list'[i].pid # p /\ \E j \in DOMAIN list : list'[i] = list[j]
           /\ \A j \in DOMAIN list : list[j].pid # p => \E i \in DOMAIN list' : list'[i] = list[j]
           /\ \E i \in DOMAIN list' : list'[i] = [pid |-> p, contents |-> c]
<1>. DEFINE e == [pid |-> p, contents |-> c]
<1>0. /\ Len(list) \in Nat /\ DOMAIN list = 1..Len(list) /\ list \in Seq(Entries)
      /\ \A i \in DOMAIN list : list[i] \in Entries
      /\ e \in Entries /\ e.pid = p
    BY EntryFacts DEF TypeOK, Entries
<1>1. CASE p \in PidsIn(list)
    <2>1. list' = [i \in DOMAIN list |->
                      IF list[i].pid = p THEN [list[i] EXCEPT !.contents = c] ELSE list[i]]
        BY <1>1 DEF Report
    <2>2. \A i \in DOMAIN list : list[i].pid = p => [list[i] EXCEPT !.contents = c] = e
        BY <1>0 DEF Entries
    <2>3. /\ DOMAIN list' = DOMAIN list
          /\ \A i \in DOMAIN list : list'[i] = IF list[i].pid = p THEN e ELSE list[i]
        BY <2>1, <2>2
    <2>4. list' \in Seq(Entries)
        <3>. HIDE DEF e
        <3>1. list' = [i \in 1..Len(list) |-> list'[i]]
            BY <1>0, <2>1
        <3>2. \A i \in 1..Len(list) : list'[i] \in Entries
            BY <1>0, <2>3
        <3>. QED BY <1>0, <3>1, <3>2
    <2>5. \A i \in DOMAIN list : list'[i].pid = list[i].pid
        BY <1>0, <2>3
    <2>6. UniqueEntries'
        BY <2>3, <2>5 DEF UniqueEntries
    <2>7. PidsIn(list') = PidsIn(list)
        BY <2>3, <2>5 DEF PidsIn
    <2>8. PICK k \in DOMAIN list : list[k].pid = p
        BY <1>1 DEF PidsIn
    <2>9. list'[k] = e /\ k \in DOMAIN list'
        BY <2>3, <2>8
    <2>. HIDE DEF e
    <2>10. \A i \in DOMAIN list' : \/ list'[i] = e
                                   \/ list'[i].pid # p /\ \E j \in DOMAIN list : list'[i] = list[j]
        BY <2>3
    <2>11. \A j \in DOMAIN list : list[j].pid # p => \E i \in DOMAIN list' : list'[i] = list[j]
        BY <2>3
    <2>. QED BY <1>1, <2>4, <2>6, <2>7, <2>9, <2>10, <2>11 DEF e
<1>2. CASE p \notin PidsIn(list)
    <2>1. list' = <<e>> \o list
        BY <1>2 DEF Report
    <2>. HIDE DEF e
    <2>2. /\ list' \in Seq(Entries) /\ DOMAIN list' = 1..(Len(list) + 1)
          /\ list'[1] = e /\ \A i \in 2..(Len(list) + 1) : list'[i] = list[i - 1]
        BY <1>0, <2>1, PrependFacts
    <2>3. \A j \in DOMAIN list : list[j].pid # p
        BY <1>2 DEF PidsIn
    <2>4. \A j \in DOMAIN list : j + 1 \in DOMAIN list' /\ list'[j + 1] = list[j]
        BY <1>0, <2>2
    <2>5. \A i \in DOMAIN list' : i # 1 => i - 1 \in DOMAIN list /\ list'[i] = list[i - 1]
        BY <1>0, <2>2
    <2>6. UniqueEntries'
        <3>. SUFFICES ASSUME NEW i \in DOMAIN list', NEW j \in DOMAIN list',
                             list'[i].pid = list'[j].pid
                      PROVE  i = j
            BY DEF UniqueEntries
        <3>1. CASE i = 1 \/ j = 1
            BY <3>1, <1>0, <2>2, <2>3, <2>5
        <3>2. CASE i # 1 /\ j # 1
            <4>1. i - 1 = j - 1
                BY <3>2, <2>5 DEF UniqueEntries
            <4>. QED BY <4>1, <1>0, <2>2
        <3>. QED BY <3>1, <3>2
    <2>7. PidsIn(list') = PidsIn(list) \cup {p}
        <3>1. ASSUME NEW q \in PidsIn(list') PROVE q \in PidsIn(list) \cup {p}
            <4>1. PICK i \in DOMAIN list' : list'[i].pid = q
                BY <3>1 DEF PidsIn
            <4>. QED BY <4>1, <1>0, <2>2, <2>5 DEF PidsIn
        <3>2. ASSUME NEW q \in PidsIn(list) PROVE q \in PidsIn(list')
            <4>1. PICK j \in DOMAIN list : list[j].pid = q
                BY <3>2 DEF PidsIn
            <4>. QED BY <4>1, <2>4 DEF PidsIn
        <3>3. 1 \in DOMAIN list'
            BY <1>0, <2>2
        <3>4. p \in PidsIn(list')
            BY <1>0, <2>2, <3>3 DEF PidsIn
        <3>. QED BY <3>1, <3>2, <3>4
    <2>8. 1 \in DOMAIN list'
        BY <1>0, <2>2
    <2>9. \A i \in DOMAIN list' : \/ list'[i] = e
                                  \/ list'[i].pid # p /\ \E j \in DOMAIN list : list'[i] = list[j]
        BY <2>2, <2>3, <2>5
    <2>. QED BY <2>2, <2>4, <2>6, <2>7, <2>8, <2>9 DEF e
<1>. QED BY <1>1, <1>2

(* A removal leaves the other entries as they were.                        *)
LEMMA RemoveEffect ==
    ASSUME TypeOK, UniqueEntries, NEW k \in DOMAIN list, list' = Without(k)
    PROVE  /\ list' \in Seq(Entries)
           /\ UniqueEntries'
           /\ PidsIn(list') = PidsIn(list) \ {list[k].pid}
           /\ \A i \in DOMAIN list' : \E j \in DOMAIN list : j # k /\ list'[i] = list[j]
           /\ \A j \in DOMAIN list : j # k => \E i \in DOMAIN list' : list'[i] = list[j]
<1>0. /\ Len(list) \in Nat /\ DOMAIN list = 1..Len(list) /\ list \in Seq(Entries)
      /\ k \in 1..Len(list)
    BY EntryFacts DEF TypeOK
<1>1. /\ list' \in Seq(Entries) /\ DOMAIN list' = 1..(Len(list) - 1)
      /\ \A i \in 1..(Len(list) - 1) : list'[i] = IF i < k THEN list[i] ELSE list[i + 1]
    BY <1>0, DeleteFacts DEF Without
<1>. DEFINE Old(x) == IF x < k THEN x ELSE x + 1
<1>2. \A i \in DOMAIN list' : Old(i) \in DOMAIN list /\ Old(i) # k /\ list'[i] = list[Old(i)]
    BY <1>0, <1>1
<1>3. ASSUME NEW j \in DOMAIN list, j # k
      PROVE  \E i \in DOMAIN list' : list'[i] = list[j]
    <2>1. CASE j < k
        <3>1. j \in DOMAIN list' /\ list'[j] = list[j]
            BY <2>1, <1>0, <1>1
        <3>. QED BY <3>1
    <2>2. CASE ~(j < k)
        <3>1. j - 1 \in DOMAIN list' /\ ~(j - 1 < k) /\ (j - 1) + 1 = j
            BY <2>2, <1>0, <1>1, <1>3
        <3>2. list'[j - 1] = list[j]
            BY <3>1, <1>1
        <3>. QED BY <3>1, <3>2
    <2>. QED BY <2>1, <2>2
<1>4. UniqueEntries'
    <2>. SUFFICES ASSUME NEW i \in DOMAIN list', NEW j \in DOMAIN list',
                         list'[i].pid = list'[j].pid
                  PROVE  i = j
        BY DEF UniqueEntries
    <2>1. Old(i) = Old(j)
        BY <1>2 DEF UniqueEntries
    <2>. QED BY <2>1, <1>0, <1>1
<1>. HIDE DEF Old
<1>5. \A i \in DOMAIN list' : \E j \in DOMAIN list : j # k /\ list'[i] = list[j]
    BY <1>2
<1>6. PidsIn(list') = PidsIn(list) \ {list[k].pid}
    BY <1>3, <1>5 DEF PidsIn, UniqueEntries
<1>. QED BY <1>1, <1>3, <1>4, <1>5, <1>6

-----------------------------------------------------------------------------
(* Where the scroll offset may be: see TypeOK. *)
ScrollOK(offset) ==
    /\ offset \in 0..PadRows
    /\ offset > 0 => \E height \in Heights : offset <= PadRows - (height - 1)

LEMMA InitUI == UIInit => UIInv
<1>. SUFFICES ASSUME UIInit PROVE UIInv
    OBVIOUS
<1>. USE DEF UIInit, Init
<1>1. FirstRow \in Nat /\ PadRows \in Nat /\ Heights # {}
    BY TextUIAssumption DEF FirstRow
<1>2. Len(list) = 0 /\ DOMAIN list = {} /\ Drawn = {} /\ list \in Seq(Entries)
    BY <1>1 DEF Drawn, DataRows, FirstRow
<1>3. TypeOK
    <2>1. rows \in [DataRows -> [pid : Pids, state : States] \cup {Blank}]
        OBVIOUS
    <2>2. rowNum \in Nat /\ rowNum >= FirstRow /\ ScrollOK(scroll)
        BY <1>1, TextUIAssumption DEF ScrollOK
    <2>3. drawn \in 0..Len(list)
        BY <1>2
    <2>. QED BY <1>2, <2>1, <2>2, <2>3 DEF TypeOK, ScrollOK
<1>4. Phases /\ UniqueEntries /\ RowPerReport /\ ReportedAreShown /\ LoopShows /\ GoneAreBelow
    BY <1>2 DEF Phases, UniqueEntries, RowPerReport, ReportedAreShown, LoopShows, GoneAreBelow
<1>5. ReportedAreIn
    BY FS_EmptySet DEF ReportedAreIn
<1>. QED BY <1>3, <1>4, <1>5 DEF UIInv

(* A step that leaves the table, what is drawn of it and the history alone. *)
LEMMA ScreenSame ==
    ASSUME UIInv, UNCHANGED <<table, rows, rowNum, withdrawn>>
    PROVE  UniqueEntries' /\ ReportedAreIn' /\ RowPerReport' /\ GoneAreBelow'
           /\ Drawn' = Drawn /\ \A i : Shown(i)' <=> Shown(i)
<1>1. UNCHANGED <<list, told, reported, phase, rows, rowNum, withdrawn>>
    BY DEF table
<1>2. Drawn' = Drawn /\ \A i : Shown(i)' <=> Shown(i)
    BY <1>1 DEF Drawn, Shown, Shows
<1>. QED BY <1>1, <1>2 DEF UIInv, UniqueEntries, ReportedAreIn, PidsIn, RowPerReport,
                           GoneAreBelow, Shows

LEMMA StartRenderUI ==
    ASSUME UIInv, StartRender
    PROVE  UIInv'
<1>1. /\ TypeOK /\ pc = "render" /\ rowNum' = FirstRow /\ drawn' = 0 /\ withdrawn' = {}
      /\ complete' = FALSE /\ list' = list /\ reported' = reported /\ reported = {}
      /\ \/ phase' = "reading" /\ pc' = "refresh"
         \/ phase' = "idle" /\ pc' = "draw"
      /\ UNCHANGED <<rows, scroll, lines>>
    BY DEF UIInv, Phases, StartRender, Begin, table, input
<1>2. Drawn' = {} /\ FirstRow = 2 /\ DOMAIN list \subseteq Nat \ {0}
    BY <1>1, EntryFacts DEF Drawn, DataRows, FirstRow
<1>3. TypeOK'
    <2>1. rowNum' \in Nat /\ rowNum' >= FirstRow /\ drawn' \in 0..Len(list)
        BY <1>1, <1>2, EntryFacts
    <2>2. withdrawn' \subseteq Pids /\ complete' \in BOOLEAN
          /\ pc' \in {"render", "refresh", "draw", "getch", "quit"}
        BY <1>1
    <2>3. list \in Seq(Entries) /\ rows \in [DataRows -> [pid : Pids, state : States] \cup {Blank}]
          /\ ScrollOK(scroll) /\ lines \in Heights
        BY <1>1 DEF TypeOK, ScrollOK
    <2>. QED BY <1>1, <2>1, <2>2, <2>3 DEF TypeOK, ScrollOK
<1>4. Phases' /\ UniqueEntries' /\ ReportedAreIn'
    BY <1>1 DEF UIInv, Phases, UniqueEntries, ReportedAreIn, PidsIn
<1>5. RowPerReport'
    BY <1>1, <1>2, FS_EmptySet DEF RowPerReport
<1>6. ReportedAreShown' /\ LoopShows' /\ GoneAreBelow'
    BY <1>1, <1>2 DEF ReportedAreShown, LoopShows, GoneAreBelow
<1>. QED BY <1>3, <1>4, <1>5, <1>6 DEF UIInv

LEMMA ReportedUI ==
    ASSUME UIInv, Reported
    PROVE  UIInv'
<1>0. PICK p \in Pids, c \in Contents :
         Report(p, c) /\ RenderProcess([pid |-> p, contents |-> c])
    BY DEF Reported
<1>. DEFINE e == [pid |-> p, contents |-> c]
<1>1. /\ TypeOK /\ pc = "refresh" /\ phase = "reading" /\ p \notin reported /\ withdrawn = {}
      /\ reported' = reported \cup {p} /\ IsFiniteSet(reported) /\ drawn = 0
      /\ UNCHANGED <<phase, scroll, lines, drawn, pc, withdrawn, complete>>
      /\ e \in Entries /\ e.pid = p
    BY <1>0 DEF UIInv, Phases, ReportedAreIn, Reported, Report, input, Entries
<1>2. /\ list' \in Seq(Entries) /\ UniqueEntries' /\ PidsIn(list') = PidsIn(list) \cup {p}
      /\ \A i \in DOMAIN list' : \/ list'[i] = e
                                 \/ list'[i].pid # p /\ \E j \in DOMAIN list : list'[i] = list[j]
      /\ \A j \in DOMAIN list : list[j].pid # p => \E i \in DOMAIN list' : list'[i] = list[j]
      /\ \E i \in DOMAIN list' : list'[i] = e
    BY <1>0, <1>1, ReportEffect DEF UIInv
<1>3. /\ rowNum' = rowNum + 1
      /\ rows' \in [DataRows -> [pid : Pids, state : States] \cup {Blank}]
      /\ \A r \in Drawn : r \in Drawn' /\ rows'[r] = rows[r]
      /\ \A r \in Drawn' : r \in Drawn \/ Shows(rows'[r], e)
      /\ rowNum < PadRows => rowNum \in Drawn' /\ Shows(rows'[rowNum], e)
    BY <1>0, <1>1, RenderEffect
<1>. HIDE DEF e
<1>4. rowNum \in Nat /\ PadRows \in Nat /\ FirstRow = 2 /\ rowNum >= FirstRow
    BY <1>1, EntryFacts
<1>5. /\ IsFiniteSet(reported') /\ Cardinality(reported') = Cardinality(reported) + 1
      /\ Cardinality(reported) \in Nat
    BY <1>1, FS_AddElement, FS_CardinalityType
<1>6. rowNum = FirstRow + Cardinality(reported) /\ \A r \in Drawn : rows[r].pid \in reported
    BY <1>1 DEF UIInv, RowPerReport
<1>7. TypeOK'
    <2>1. Len(list') \in Nat
        BY <1>2
    <2>. QED BY <1>1, <1>2, <1>3, <1>4, <2>1 DEF TypeOK
<1>8. Phases'
    BY <1>1 DEF UIInv, Phases
<1>9. ReportedAreIn'
    BY <1>1, <1>2, <1>5 DEF UIInv, ReportedAreIn
<1>10. RowPerReport'
    BY <1>1, <1>3, <1>4, <1>5, <1>6 DEF RowPerReport, Shows
<1>11. ReportedAreShown'
    <2>. SUFFICES ASSUME FirstRow + Cardinality(reported') <= PadRows,
                         NEW i \in DOMAIN list', list'[i].pid \in reported'
                  PROVE  Shown(i)'
        BY <1>1 DEF ReportedAreShown
    <2>1. rowNum < PadRows /\ FirstRow + Cardinality(reported) <= PadRows
        BY <1>4, <1>5, <1>6
    <2>2. CASE list'[i] = e
        BY <2>1, <2>2, <1>3 DEF Shown
    <2>3. CASE list'[i] # e
        <3>1. PICK j \in DOMAIN list : list'[i] = list[j] /\ list[j].pid # p
            BY <2>3, <1>2
        <3>2. Shown(j)
            BY <2>1, <3>1, <1>1 DEF UIInv, ReportedAreShown
        <3>3. PICK r \in Drawn : Shows(rows[r], list[j])
            BY <3>2 DEF Shown
        <3>. QED BY <3>1, <3>3, <1>3 DEF Shown
    <2>. QED BY <2>2, <2>3
<1>12. LoopShows'
    BY <1>1 DEF LoopShows
<1>13. GoneAreBelow'
    <2>. SUFFICES ASSUME NEW r \in Drawn'
                  PROVE  \E i \in DOMAIN list' : Shows(rows'[r], list'[i])
        BY DEF GoneAreBelow, Shows
    <2>1. CASE Shows(rows'[r], e)
        BY <2>1, <1>2
    <2>2. CASE r \in Drawn
        <3>1. rows'[r] = rows[r] /\ rows[r].pid # p
            BY <2>2, <1>1, <1>3, <1>6
        <3>2. PICK j \in DOMAIN list : Shows(rows[r], list[j])
            BY <2>2, <1>1 DEF UIInv, GoneAreBelow
        <3>3. PICK i \in DOMAIN list' : list'[i] = list[j]
            BY <3>1, <3>2, <1>2 DEF Shows
        <3>. QED BY <3>1, <3>2, <3>3
    <2>. QED BY <2>1, <2>2, <1>3
<1>. QED BY <1>2, <1>7, <1>8, <1>9, <1>10, <1>11, <1>12, <1>13 DEF UIInv

LEMMA AllReportedUI ==
    ASSUME UIInv, AllReported
    PROVE  UIInv'
<1>1. /\ TypeOK /\ pc = "refresh" /\ phase' = "removing"
      /\ UNCHANGED <<list, reported, rows, rowNum, scroll, lines, drawn, pc, withdrawn, complete>>
    BY DEF UIInv, AllReported, Turn, screen, input
<1>2. TypeOK'
    BY <1>1 DEF TypeOK
<1>3. Drawn' = Drawn /\ \A i : Shown(i)' <=> Shown(i)
    BY <1>1 DEF Drawn, Shown, Shows
<1>4. Phases' /\ UniqueEntries' /\ ReportedAreIn' /\ RowPerReport'
    BY <1>1 DEF UIInv, Phases, UniqueEntries, ReportedAreIn, PidsIn, RowPerReport
<1>5. ReportedAreShown' /\ LoopShows' /\ GoneAreBelow'
    BY <1>1, <1>3 DEF UIInv, ReportedAreShown, LoopShows, GoneAreBelow, Shows
<1>. QED BY <1>2, <1>4, <1>5 DEF UIInv

LEMMA RemovedUI ==
    ASSUME UIInv, Removed
    PROVE  UIInv'
<1>0. PICK k \in DOMAIN list : /\ Unreported(k)
                               /\ RenderProcess(list[k])
                               /\ withdrawn' = withdrawn \cup {list[k].pid}
    BY DEF Removed
<1>1. /\ TypeOK /\ UniqueEntries /\ pc = "refresh" /\ phase = "removing" /\ drawn = 0
      /\ UNCHANGED <<reported, phase, scroll, lines, drawn, pc, complete>>
      /\ list[k] \in Entries /\ list[k].pid \in Pids /\ list[k].pid \notin reported
    BY <1>0, EntryFacts DEF UIInv, Phases, Removed, Remove, input, Unreported
<1>2. list' = Without(k)
    <2>1. PICK n \in DOMAIN list : Unreported(n) /\ list' = Without(n)
        BY DEF Removed, Remove
    <2>2. n = k
        <3>1. n \in Nat /\ k \in Nat /\ n >= 1 /\ k >= 1
            BY <1>1, EntryFacts
        <3>2. ~(n < k) /\ ~(k < n)
            BY <1>0, <2>1, <3>1 DEF Unreported
        <3>. QED BY <3>1, <3>2
    <2>. QED BY <2>1, <2>2
<1>3. /\ list' \in Seq(Entries) /\ UniqueEntries' /\ PidsIn(list') = PidsIn(list) \ {list[k].pid}
      /\ \A i \in DOMAIN list' : \E j \in DOMAIN list : j # k /\ list'[i] = list[j]
      /\ \A j \in DOMAIN list : j # k => \E i \in DOMAIN list' : list'[i] = list[j]
    BY <1>1, <1>2, RemoveEffect
<1>4. /\ rowNum' = rowNum + 1
      /\ rows' \in [DataRows -> [pid : Pids, state : States] \cup {Blank}]
      /\ \A r \in Drawn : r \in Drawn' /\ rows'[r] = rows[r]
      /\ \A r \in Drawn' : r \in Drawn \/ Shows(rows'[r], list[k])
    BY <1>0, <1>1, RenderEffect
<1>5. TypeOK'
    <2>1. Len(list') \in Nat /\ rowNum \in Nat /\ rowNum >= FirstRow /\ FirstRow = 2
        BY <1>1, <1>3, EntryFacts
    <2>. QED BY <1>0, <1>1, <1>3, <1>4, <2>1 DEF TypeOK
<1>6. Phases'
    BY <1>1 DEF UIInv, Phases
<1>7. ReportedAreIn' /\ RowPerReport'
    BY <1>1, <1>3 DEF UIInv, ReportedAreIn, RowPerReport
<1>8. ReportedAreShown'
    <2>. SUFFICES ASSUME FirstRow + Cardinality(reported) <= PadRows,
                         NEW i \in DOMAIN list', list'[i].pid \in reported
                  PROVE  Shown(i)'
        BY <1>1 DEF ReportedAreShown
    <2>1. PICK j \in DOMAIN list : list'[i] = list[j]
        BY <1>3
    <2>2. PICK r \in Drawn : Shows(rows[r], list[j])
        BY <2>1, <1>1 DEF UIInv, ReportedAreShown, Shown
    <2>. QED BY <2>1, <2>2, <1>4 DEF Shown
<1>9. LoopShows'
    BY <1>1 DEF LoopShows
<1>10. GoneAreBelow'
    <2>. SUFFICES ASSUME NEW r \in Drawn'
                  PROVE  \/ \E i \in DOMAIN list' : Shows(rows'[r], list'[i])
                         \/ rows'[r].pid \in withdrawn'
        BY DEF GoneAreBelow, Shows
    <2>1. CASE Shows(rows'[r], list[k])
        BY <2>1, <1>0 DEF Shows
    <2>2. CASE r \in Drawn
        <3>1. rows'[r] = rows[r]
            BY <2>2, <1>4
        <3>2. CASE \E j \in DOMAIN list : Shows(rows[r], list[j])
            <4>1. PICK j \in DOMAIN list : Shows(rows[r], list[j])
                BY <3>2
            <4>2. CASE j = k
                BY <3>1, <4>1, <4>2, <1>0 DEF Shows
            <4>3. CASE j # k
                BY <3>1, <4>1, <4>3, <1>3
            <4>. QED BY <4>2, <4>3
        <3>3. CASE rows[r].pid \in withdrawn
            BY <3>1, <3>3, <1>0
        <3>. QED BY <2>2, <3>2, <3>3 DEF UIInv, GoneAreBelow
    <2>. QED BY <2>1, <2>2, <1>4
<1>. QED BY <1>3, <1>5, <1>6, <1>7, <1>8, <1>9, <1>10 DEF UIInv

(* A refresh that was not given up has reported exactly what it leaves in  *)
(* the table.                                                              *)
LEMMA CompleteReported ==
    ASSUME UIInv, Complete
    PROVE  reported = PidsIn(list) /\ Cardinality(reported) = Len(list)
<1>. DEFINE f == [i \in 1..Len(list) |-> list[i].pid]
<1>1. reported = PidsIn(list)
    BY DEF UIInv, ReportedAreIn, Complete
<1>2. Enumerates(f, Len(list), PidsIn(list))
    BY EntryFacts DEF UIInv, UniqueEntries, PidsIn, Enumerates
<1>. QED BY <1>1, <1>2, EnumeratedSet

LEMMA RefreshedUI ==
    ASSUME UIInv, Refreshed
    PROVE  UIInv'
<1>1. /\ TypeOK /\ pc = "refresh" /\ pc' = "draw" /\ phase' = "idle" /\ reported' = {}
      /\ UNCHANGED <<list, rows, rowNum, scroll, lines, drawn, withdrawn>> /\ drawn = 0
      /\ DOMAIN list \subseteq Nat \ {0}
    BY EntryFacts DEF UIInv, Phases, Refreshed, Complete, GiveUp, EndRefresh, screen, input
<1>2. (complete' = TRUE /\ Complete) \/ complete' = FALSE
    BY <1>1 DEF UIInv, Phases, Refreshed
<1>3. Drawn' = Drawn /\ \A i : Shown(i)' <=> Shown(i)
    BY <1>1 DEF Drawn, Shown, Shows
<1>4. TypeOK'
    BY <1>1, <1>2 DEF TypeOK
<1>5. Phases' /\ UniqueEntries' /\ RowPerReport' /\ LoopShows' /\ GoneAreBelow'
    BY <1>1, <1>2, <1>3 DEF UIInv, Phases, UniqueEntries, RowPerReport, LoopShows, GoneAreBelow, Shows
<1>6. ReportedAreIn'
    BY <1>1, FS_EmptySet DEF ReportedAreIn
<1>7. ReportedAreShown'
    <2>. SUFFICES ASSUME complete', FirstRow + Len(list) <= PadRows, NEW i \in DOMAIN list
                  PROVE  Shown(i)
        BY <1>1, <1>3 DEF ReportedAreShown
    <2>1. Complete
        BY <1>2
    <2>2. list[i].pid \in reported /\ FirstRow + Cardinality(reported) <= PadRows
        BY <2>1, CompleteReported DEF PidsIn
    <2>. QED BY <1>1, <2>2 DEF UIInv, ReportedAreShown
<1>. QED BY <1>4, <1>5, <1>6, <1>7 DEF UIInv

LEMMA DrawNextUI ==
    ASSUME UIInv, DrawNext
    PROVE  UIInv'
<1>. DEFINE k == drawn + 1
<1>1. /\ TypeOK /\ pc = "draw" /\ drawn < Len(list) /\ drawn' = k /\ RenderProcess(list[k])
      /\ UNCHANGED <<list, reported, phase, scroll, lines, pc, withdrawn, complete>>
      /\ reported = {} /\ phase = "idle"
    BY DEF UIInv, Phases, DrawNext, table, input
<1>2. k \in 1..Len(list) /\ k \in DOMAIN list /\ list[k] \in Entries /\ Len(list) \in Nat
    <2>1. drawn \in Nat /\ Len(list) \in Nat /\ DOMAIN list = 1..Len(list)
        BY <1>1, EntryFacts DEF TypeOK
    <2>2. k \in 1..Len(list)
        BY <1>1, <2>1
    <2>. QED BY <1>1, <2>1, <2>2, EntryFacts
<1>. HIDE DEF k
<1>3. /\ rowNum' = rowNum + 1
      /\ rows' \in [DataRows -> [pid : Pids, state : States] \cup {Blank}]
      /\ \A r \in Drawn : r \in Drawn' /\ rows'[r] = rows[r]
      /\ \A r \in Drawn' : r \in Drawn \/ Shows(rows'[r], list[k])
      /\ rowNum < PadRows => rowNum \in Drawn' /\ Shows(rows'[rowNum], list[k])
    BY <1>1, <1>2, RenderEffect
<1>4. rowNum \in Nat /\ rowNum >= FirstRow /\ FirstRow = 2 /\ PadRows \in Nat
    BY <1>1, EntryFacts
<1>5. \A i : Shown(i) => Shown(i)'
    BY <1>1, <1>3 DEF Shown
<1>6. TypeOK'
    BY <1>1, <1>2, <1>3, <1>4 DEF TypeOK
<1>7. Phases' /\ UniqueEntries' /\ ReportedAreIn' /\ RowPerReport'
    BY <1>1 DEF UIInv, Phases, UniqueEntries, ReportedAreIn, PidsIn, RowPerReport
<1>8. ReportedAreShown'
    BY <1>1, <1>5 DEF UIInv, ReportedAreShown
<1>9. LoopShows'
    <2>. SUFFICES ASSUME rowNum' <= PadRows, NEW i \in DOMAIN list, i <= k
                  PROVE  Shown(i)'
        BY <1>1 DEF LoopShows
    <2>1. rowNum < PadRows /\ rowNum <= PadRows
        BY <1>3, <1>4
    <2>2. CASE i = k
        BY <2>1, <2>2, <1>1, <1>3 DEF Shown
    <2>3. CASE i # k
        <3>1. i <= drawn
            BY <2>3, <1>1, EntryFacts DEF TypeOK, k
        <3>. QED BY <2>1, <3>1, <1>1, <1>5 DEF UIInv, LoopShows
    <2>. QED BY <2>2, <2>3
<1>10. GoneAreBelow'
    <2>. SUFFICES ASSUME NEW r \in Drawn'
                  PROVE  \/ \E i \in DOMAIN list : Shows(rows'[r], list[i])
                         \/ rows'[r].pid \in withdrawn
        BY <1>1 DEF GoneAreBelow, Shows
    <2>1. CASE Shows(rows'[r], list[k])
        BY <2>1, <1>2
    <2>2. CASE r \in Drawn
        BY <2>2, <1>3 DEF UIInv, GoneAreBelow
    <2>. QED BY <2>1, <2>2, <1>3
<1>. QED BY <1>6, <1>7, <1>8, <1>9, <1>10 DEF UIInv

(* Steps of the loop that draw nothing. *)
LEMMA OtherUI ==
    ASSUME UIInv, UNCHANGED <<table, rows, rowNum, drawn, withdrawn, complete>>,
           lines' \in Heights, ScrollOK(scroll'),
           \/ pc' = pc
           \/ pc = "draw" /\ drawn = Len(list) /\ pc' = "getch"
           \/ pc = "getch" /\ pc' \in {"render", "quit"}
    PROVE  UIInv'
<1>1. UniqueEntries' /\ ReportedAreIn' /\ RowPerReport' /\ GoneAreBelow'
      /\ Drawn' = Drawn /\ \A i : Shown(i)' <=> Shown(i)
    BY ScreenSame
<1>2. UNCHANGED <<list, told, reported, phase>>
    BY DEF table
<1>3. TypeOK'
    BY <1>2 DEF UIInv, TypeOK, ScrollOK
<1>4. Phases'
    BY <1>2 DEF UIInv, Phases
<1>5. ReportedAreShown' /\ LoopShows'
    BY <1>1, <1>2 DEF UIInv, ReportedAreShown, LoopShows
<1>. QED BY <1>1, <1>3, <1>4, <1>5 DEF UIInv

LEMMA KeyDownUI ==
    ASSUME UIInv, KeyDown
    PROVE  ScrollOK(scroll')
<1>1. /\ scroll \in Nat /\ PadRows \in Nat /\ ScrollOK(scroll)
      /\ lines \in Heights /\ lines \in Nat /\ lines >= 1
    BY TextUIAssumption DEF UIInv, TypeOK, ScrollOK
<1>2. CASE scroll < PadRows - (lines - 1)
    <2>1. scroll' = scroll + 1 /\ scroll + 1 <= PadRows - (lines - 1)
        BY <1>1, <1>2 DEF KeyDown
    <2>. QED BY <1>1, <2>1 DEF ScrollOK
<1>3. CASE ~(scroll < PadRows - (lines - 1))
    BY <1>1, <1>3 DEF KeyDown
<1>. QED BY <1>2, <1>3

LEMMA NextUI == UIInv /\ [UINext]_vars => UIInv'
<1>. SUFFICES ASSUME UIInv, [UINext]_vars PROVE UIInv'
    OBVIOUS
<1>1. CASE StartRender
    BY <1>1, StartRenderUI
<1>2. CASE Reported
    BY <1>2, ReportedUI
<1>3. CASE AllReported
    BY <1>3, AllReportedUI
<1>4. CASE Removed
    BY <1>4, RemovedUI
<1>5. CASE Refreshed
    BY <1>5, RefreshedUI
<1>6. CASE DrawNext
    BY <1>6, DrawNextUI
<1>7. lines \in Heights /\ ScrollOK(scroll) /\ PadRows \in Nat
    BY TextUIAssumption DEF UIInv, TypeOK, ScrollOK
<1>8. CASE Show
    BY <1>7, <1>8, OtherUI DEF Show, screen, input
<1>9. CASE KeyUp
    <2>1. ScrollOK(scroll')
        <3>1. scroll \in 0..PadRows /\ \A height \in Heights : height \in Nat
            BY <1>7, TextUIAssumption DEF ScrollOK
        <3>. QED BY <1>7, <1>9, <3>1 DEF KeyUp, ScrollOK
    <2>. QED BY <1>7, <1>9, <2>1, OtherUI DEF KeyUp, Pressed, screen
<1>10. CASE KeyDown
    BY <1>7, <1>10, KeyDownUI, OtherUI DEF KeyDown, Pressed, screen
<1>11. CASE OtherKey
    BY <1>7, <1>11, OtherUI DEF OtherKey, Pressed, screen, input
<1>12. CASE KeyResize
    BY <1>7, <1>12, OtherUI DEF KeyResize, Pressed, screen
<1>13. CASE Quit
    BY <1>7, <1>13, OtherUI DEF Quit, screen, input
<1>14. CASE UNCHANGED vars
    BY <1>7, <1>14, OtherUI DEF vars, screen, input
<1>. QED BY <1>1, <1>2, <1>3, <1>4, <1>5, <1>6, <1>8, <1>9, <1>10, <1>11, <1>12, <1>13, <1>14
         DEF UINext

LEMMA UIAlways == UISpec => []UIInv
<1>. QED BY InitUI, NextUI, PTL DEF UISpec

-----------------------------------------------------------------------------
(* TypeOK: among others, whatever the terminal's height becomes between    *)
(* two keys, the scroll offset stays within what its lowest one allows: on *)
(* the pad, but for a terminal of one line, which lets it go one row past  *)
(* the pad's end.                                                          *)
THEOREM UITypeCorrect == UISpec => []TypeOK
<1>1. UIInv => TypeOK
    BY DEF UIInv
<1>. QED BY <1>1, UIAlways, PTL

(* ListedAreShown: what is listed is on the pad, if the pad has room for   *)
(* the list once after a complete refresh, or for all that was drawn.      *)
THEOREM ListedAreShownCorrect == UISpec => []ListedAreShown
<1>1. UIInv => ListedAreShown
    <2>. SUFFICES ASSUME UIInv, pc = "getch",
                         \/ complete /\ FirstRow + Len(list) <= PadRows
                         \/ rowNum <= PadRows,
                         NEW i \in DOMAIN list
                  PROVE  Shown(i)
        BY DEF ListedAreShown, Shown
    <2>1. i <= drawn
        BY EntryFacts DEF UIInv, Phases
    <2>. QED BY <2>1 DEF UIInv, ReportedAreShown, LoopShows
<1>. QED BY <1>1, UIAlways, PTL

(* GoneAreBelow: what a round drew is listed or was removed in that round. *)
THEOREM GoneAreBelowCorrect == UISpec => []GoneAreBelow
<1>1. UIInv => GoneAreBelow
    BY DEF UIInv
<1>. QED BY <1>1, UIAlways, PTL
==============================================================================
