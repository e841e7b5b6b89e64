-------------------------------- MODULE TextUI --------------------------------
(***************************************************************************)
(* src/ui/tui/ui.c: the main loop of the text user interface, which draws  *)
(* while the process list is refreshed.  process_list_refresh is taken as  *)
(* ProcessTable describes it; render_process is its callback on each       *)
(* report and each removal, and then draws the whole list again.           *)
(*                                                                         *)
(* The pad is a column of rows, and of a row the model keeps the pid and   *)
(* the state (the name goes the way of the pid).  Nothing erases a row:    *)
(* what an earlier round drew stays until something is drawn over it.  (A  *)
(* state of more than its column's ten characters spills past it, and its  *)
(* end outlives a shorter one printed there later; the model keeps only    *)
(* what was printed last.)                                                 *)
(* Contents are the state letters of /proc/<pid>/stat.                     *)
(***************************************************************************)
EXTENDS ProcessTable, Integers

CONSTANTS PadRows,      \* the height of the pad, 100
          Heights,      \* bound: what LINES may be
          Garbage       \* what an uninitialised buffer may hold

ASSUME TextUIAssumption ==
    /\ PadRows \in Nat /\ PadRows > 2
    /\ Heights \subseteq Nat \ {0} /\ Heights # {}

VARIABLES
    rows,           \* the pad below its header
    rowNum,         \* g_data_row_num
    scroll,         \* g_scroll_offset
    lines,          \* LINES
    drawn,          \* how much of the list the loop has drawn
    pc,             \* "render", "refresh", "draw", "getch" or "quit"
    withdrawn,      \* history: the pids removed in this round
    complete        \* history: this round's refresh was not given up

screen == <<rows, rowNum>>
input  == <<scroll, lines>>
vars == <<table, screen, input, drawn, pc, withdrawn, complete>>

FirstRow == 2                       \* INITIAL_DATA_ROW_NUM
DataRows == FirstRow..(PadRows - 1)

StateNames ==
    [R |-> "Running", S |-> "Sleeping", D |-> "Disk Sleep", Z |-> "Zombie",
     T |-> "Traced/Stopped", W |-> "Paging/Waking", X |-> "Dead", x |-> "Dead",
     K |-> "Wake-kill", P |-> "Parked", I |-> "Idle"]

KnownLetter(letter) == letter \in DOMAIN StateNames

(* process_state writes nothing for a letter it does not know, and         *)
(* render_process prints the buffer nevertheless.                          *)
ShownFor(letter) == IF KnownLetter(letter) THEN {StateNames[letter]} ELSE Garbage

Blank == [pid |-> 0, state |-> ""]
States == {StateNames[c] : c \in DOMAIN StateNames} \cup Garbage

(* The scroll offset is never past what the lowest terminal allows: on one *)
(* of two lines or more that is a row of the pad; one of a single line     *)
(* lets it go to PadRows, the first row that is not there, where prefresh  *)
(* has nothing to show.                                                    *)
TypeOK ==
    /\ list \in Seq(Entries)
    /\ rows \in [DataRows -> [pid : Pids, state : States] \cup {Blank}]
    /\ rowNum \in Nat /\ rowNum >= FirstRow
    /\ scroll \in 0..PadRows
    /\ scroll > 0 => \E height \in Heights : scroll <= PadRows - (height - 1)
    /\ lines \in Heights
    /\ drawn \in 0..Len(list)
    /\ pc \in {"render", "refresh", "draw", "getch", "quit"}
    /\ withdrawn \subseteq Pids
    /\ complete \in BOOLEAN

-----------------------------------------------------------------------------
(* ui_start, up to its loop. *)
UIInit ==
    /\ Init
    /\ rows = [r \in DataRows |-> Blank]
    /\ rowNum = FirstRow
    /\ scroll = 0
    /\ lines \in Heights
    /\ drawn = 0
    /\ pc = "render"
    /\ withdrawn = {}
    /\ complete = FALSE

(* render_process: mvwprintw refuses a row past the end of the pad. *)
RenderProcess(entry) ==
    /\ rowNum' = rowNum + 1
    /\ IF rowNum \in DataRows
       THEN \E name \in ShownFor(entry.contents) :
               rows' = [rows EXCEPT ![rowNum] = [pid |-> entry.pid, state |-> name]]
       ELSE UNCHANGED rows

(* A plausible mistake: the rows of the last round are not started over. *)
StartBelow ==
    /\ pc = "render"
    /\ rowNum' = rowNum
    /\ drawn' = 0
    /\ withdrawn' = {} /\ complete' = FALSE
    /\ \/ Begin /\ pc' = "refresh"
       \/ pc' = "draw" /\ UNCHANGED table
    /\ UNCHANGED <<rows, input>>

(* render_process_list starts over at the first row and calls the refresh; *)
(* when /proc cannot be opened the refresh is over before it has begun.    *)
StartRender ==
    /\ pc = "render"
    /\ rowNum' = FirstRow
    /\ drawn' = 0
    /\ withdrawn' = {} /\ complete' = FALSE
    /\ \/ Begin /\ pc' = "refresh"
       \/ pc' = "draw" /\ UNCHANGED table
    /\ UNCHANGED <<rows, input>>

Reported ==
    /\ pc = "refresh"
    /\ \E p \in Pids, c \in Contents :
          Report(p, c) /\ RenderProcess([pid |-> p, contents |-> c])
    /\ UNCHANGED <<input, drawn, pc, withdrawn, complete>>

AllReported ==
    /\ pc = "refresh" /\ Turn
    /\ UNCHANGED <<screen, input, drawn, pc, withdrawn, complete>>

Removed ==
    /\ pc = "refresh" /\ Remove
    /\ \E k \in DOMAIN list :
          /\ Unreported(k)
          /\ RenderProcess(list[k])
          /\ withdrawn' = withdrawn \cup {list[k].pid}
    /\ UNCHANGED <<input, drawn, pc, complete>>

(* The refresh returns; nobody looks at what. *)
Refreshed ==
    /\ pc = "refresh"
    /\ \/ Complete /\ complete' = TRUE
       \/ GiveUp /\ UNCHANGED complete
    /\ pc' = "draw"
    /\ UNCHANGED <<screen, input, drawn, withdrawn>>

(* The loop over the list. *)
DrawNext ==
    /\ pc = "draw" /\ drawn < Len(list)
    /\ RenderProcess(list[drawn + 1])
    /\ drawn' = drawn + 1
    /\ UNCHANGED <<table, input, pc, withdrawn, complete>>

(* A plausible mistake: the loop ends before the last process. *)
ShowEarly ==
    /\ pc = "draw" /\ drawn + 1 >= Len(list)
    /\ pc' = "getch"
    /\ UNCHANGED <<table, screen, input, drawn, withdrawn, complete>>

(* prefresh *)
Show ==
    /\ pc = "draw" /\ drawn = Len(list)
    /\ pc' = "getch"
    /\ UNCHANGED <<table, screen, input, drawn, withdrawn, complete>>

-----------------------------------------------------------------------------
Pressed ==
    /\ pc = "getch"
    /\ pc' = "render"
    /\ UNCHANGED <<table, screen, drawn, withdrawn, complete>>

KeyUp ==
    /\ Pressed
    /\ scroll' = IF scroll > 0 THEN scroll - 1 ELSE scroll
    /\ UNCHANGED lines

(* A plausible mistake: one row too far. *)
KeyDownTooFar ==
    /\ Pressed
    /\ scroll' = IF scroll <= PadRows - (lines - 1) THEN scroll + 1 ELSE scroll
    /\ UNCHANGED lines

KeyDown ==
    /\ Pressed
    /\ scroll' = IF scroll < PadRows - (lines - 1) THEN scroll + 1 ELSE scroll
    /\ UNCHANGED lines

OtherKey == Pressed /\ UNCHANGED input

(* The terminal changes its size; getch reports that as one more key. *)
KeyResize ==
    /\ Pressed
    /\ lines' \in Heights
    /\ UNCHANGED scroll

Quit ==
    /\ pc = "getch"
    /\ pc' = "quit"
    /\ UNCHANGED <<table, screen, input, drawn, withdrawn, complete>>

UINext ==
    \/ StartRender \/ Reported \/ AllReported \/ Removed \/ Refreshed
    \/ DrawNext \/ Show
    \/ KeyUp \/ KeyDown \/ OtherKey \/ KeyResize \/ Quit

UISpec == UIInit /\ [][UINext]_vars

-----------------------------------------------------------------------------
(* The rows drawn in this round. *)
Drawn == {r \in DataRows : r < rowNum}

Shows(row, entry) ==
    /\ row.pid = entry.pid
    /\ KnownLetter(entry.contents) => row.state = StateNames[entry.contents]

(* While the user looks, every process on the list is on the pad, with the *)
(* state the list has for it.  Callbacks and the loop both draw, so twice  *)
(* the rows are asked for; but rows past the pad are lost from the end,    *)
(* and after a complete refresh the callbacks alone have drawn every       *)
(* process, so the list need only fit once.  After one that was given up   *)
(* it takes the loop, and room for the rows the callbacks used before.     *)
ListedAreShown ==
    /\ pc = "getch"
    /\ \/ complete /\ FirstRow + Len(list) <= PadRows
       \/ rowNum <= PadRows
    => \A i \in DOMAIN list : \E r \in Drawn : Shows(rows[r], list[i])

(* What this round drew is true, or was until this round: a row shows a    *)
(* process that is still listed, with its state, or one that this refresh  *)
(* removed.  Processes gone for longer linger only in the rows below.      *)
GoneAreBelow ==
    \A r \in Drawn :
        \/ \E i \in DOMAIN list : Shows(rows[r], list[i])
        \/ rows[r].pid \in withdrawn
==============================================================================
