--------------------------------- MODULE Sound ---------------------------------
(***************************************************************************)
(* src/sound.c: playing a file through PipeWire.  Three threads: the       *)
(* program's (`client'), PipeWire's event loop (`loop') and its real-time  *)
(* data thread (rt).  The client and the loop fill a ring of frames from   *)
(* the file under the loop's mutex; rt empties it without the mutex and    *)
(* signals an eventfd after each copy.                                     *)
(*                                                                         *)
(* The unit is a frame, the frames of a file are numbered from 1, and the  *)
(* ring's indices run modulo IndexMod (2^32 bytes).  PipeWire is external: *)
(* the loop takes its mutex before it calls back; pw_thread_loop_stop      *)
(* waits until the loop has finished what it is doing, unless the loop's   *)
(* own thread calls it; pw_stream_destroy waits until rt is outside the    *)
(* process callback.                                                       *)
(***************************************************************************)
EXTENDS Naturals, Sequences

CONSTANTS Size,             \* BUFFER_SIZE: the frames the ring holds
          IndexMod,         \* where its indices wrap
          LocalSize,        \* the frames local_buffer holds
          Requests,         \* how many frames rt may be asked for
          FileLengths       \* the lengths of the files that are played

ASSUME SoundAssumption ==
    /\ Size \in Nat \ {0} /\ LocalSize \in Nat \ {0}
    /\ IndexMod \in Nat /\ IndexMod > Size /\ IndexMod % Size = 0
    /\ Requests \subseteq Nat \ {0} /\ FileLengths \subseteq Nat

VARIABLES
    source,         \* the CtmAudioStreamSource
    length, pos,    \* its file, and how far it has been read
    eof,            \* file_eof
    ridx, widx,     \* the ring's indices
    buffer,         \* the ring's frames
    written,        \* frames written to it, not yet counted by widx
    eventfd,        \* the eventfd is readable
    lock,           \* who holds the loop's mutex
    quit,           \* the loop was told to stop
    at,             \* where the client and the loop are
    rt, copy,       \* where rt is, and bytes_to_copy
    heard,          \* history: the frames rt has copied
    finished        \* history: how often on_finished was called

file == <<length, pos, eof>>
write == <<widx, buffer, written>>
loop == <<eventfd, lock, quit>>
play == <<ridx, rt, copy, heard>>
vars == <<source, file, write, loop, at, play, finished>>

Threads == {"client", "loop"}
Slot  == 0..(Size - 1)
Index == 0..(IndexMod - 1)
MaxFinished == 4        \* bound: later calls are not counted

Used == (widx + IndexMod - ridx) % IndexMod
Least(m, n) == IF m < n THEN m ELSE n

Typed ==
    /\ source \in {"none", "exists", "freed", "freedByCallback"}
    /\ eof \in BOOLEAN /\ eventfd \in BOOLEAN /\ quit \in BOOLEAN
    /\ length \in FileLengths /\ pos \in 0..length
    /\ ridx \in Index /\ widx \in Index
    /\ written \in Nat
    /\ buffer \in [Slot -> 0..length]
    /\ lock \in Threads \cup {"free"}
    /\ at.client \in {"idle", "refill", "publish", "check", "callback", "unlock",
                      "playing", "stop", "stopInside", "destroy", "free"}
    /\ at.loop \in {"none", "poll", "refill", "publish", "check", "callback", "unlock",
                    "exited"}
    /\ rt \in {"off", "idle", "copy", "update", "signal"} /\ copy \in 0..Size
    /\ heard \in Seq(0..length)
    /\ finished \in 0..MaxFinished

(* Neither side ever gets ahead of the other. *)
TypeOK == Typed /\ Used + written <= Size /\ copy <= Used

Goto(t, place) == at' = [at EXCEPT ![t] = place]

Init ==
    /\ source = "none" /\ lock = "free" /\ eventfd = FALSE /\ quit = FALSE
    /\ length \in FileLengths /\ pos = 0 /\ eof = FALSE
    /\ ridx = 0 /\ widx = 0 /\ buffer = [s \in Slot |-> 0] /\ written = 0
    /\ rt = "off" /\ copy = 0 /\ heard = <<>> /\ finished = 0
    /\ at = [client |-> "idle", loop |-> "none"]

-----------------------------------------------------------------------------
(* ctm_sound_play_async up to the connected stream: the loop runs, the     *)
(* client holds its mutex, and rt may ask for data already.  (One sound    *)
(* after the other; sounds that play together share nothing.)              *)
Play ==
    /\ at.client = "idle" /\ at.loop \in {"none", "exited"}
    /\ source' = "exists" /\ lock' = "client" /\ eventfd' = FALSE /\ quit' = FALSE
    /\ length' \in FileLengths /\ pos' = 0 /\ eof' = FALSE
    /\ ridx' = 0 /\ widx' = 0 /\ buffer' = [s \in Slot |-> 0] /\ written' = 0
    /\ rt' = "idle" /\ copy' = 0 /\ heard' = <<>> /\ finished' = 0
    /\ at' = [client |-> "refill", loop |-> "poll"]

(* A plausible mistake: a slot too many. *)
RoomPlusOne == Least(Size - Used + 1, LocalSize)

Room == Least(Size - Used, LocalSize)


(* refill_ringbuffer reads as many frames as there is room for, behind     *)
(* those that are there, and sees the end of the file when it reads none.  *)
Refill(t) ==
    /\ at[t] = "refill"
    /\ LET n == Least(Room, length - pos)
           place == [i \in 1..n |-> (widx + i - 1) % Size]
       IN  /\ buffer' = [s \in Slot |->
                IF \E i \in 1..n : place[i] = s
                THEN pos + CHOOSE i \in 1..n : place[i] = s ELSE buffer[s]]
           /\ pos' = pos + n /\ written' = n
           /\ eof' = (eof \/ (Room > 0 /\ n = 0))
    /\ Goto(t, "publish")
    /\ UNCHANGED <<source, length, widx, loop, play, finished>>

(* spa_ringbuffer_write_update *)
Publish(t) ==
    /\ at[t] = "publish"
    /\ widx' = (widx + written) % IndexMod /\ written' = 0
    /\ Goto(t, "check")
    /\ UNCHANGED <<source, file, buffer, loop, play, finished>>

(* Is the sound finished?  A plausible mistake: at the end of the file.    *)
DoneAtEof == eof
Done == eof /\ ridx >= widx

Check(t) ==
    /\ at[t] = "check"
    /\ Goto(t, IF Done THEN "callback" ELSE "unlock")
    /\ finished' = IF Done THEN Least(finished + 1, MaxFinished) ELSE finished
    /\ UNCHANGED <<source, file, write, loop, play>>

(* on_finished returns. *)
CallbackReturns(t) ==
    /\ at[t] = "callback"
    /\ Goto(t, "unlock")
    /\ UNCHANGED <<source, file, write, loop, play, finished>>

(* on_finished calls ctm_sound_stop from the loop's thread, which waits    *)
(* for rt only, and returns; the program knows that this sound is gone.    *)
CallbackFrees ==
    /\ at.loop = "callback" /\ at.client = "playing" /\ rt = "idle"
    /\ source' = "freedByCallback" /\ quit' = TRUE /\ rt' = "off"
    /\ at' = [client |-> "idle", loop |-> "unlock"]
    /\ UNCHANGED <<file, write, eventfd, lock, ridx, copy, heard, finished>>

(* on_finished calls ctm_sound_stop from inside play_async, which finds an *)
(* empty file finished before it returns: the client, which still holds    *)
(* the mutex, tells the loop to stop and waits for it.                     *)
CallbackStops ==
    /\ at.client = "callback"
    /\ quit' = TRUE
    /\ Goto("client", "stopInside")
    /\ UNCHANGED <<source, file, write, eventfd, lock, play, finished>>

(* The mutex is released: play_async returns, on_eventfd_signal returns.   *)
Unlock(t) ==
    /\ at[t] = "unlock"
    /\ lock' = "free"
    /\ Goto(t, IF t = "client" THEN "playing" ELSE "poll")
    /\ UNCHANGED <<source, file, write, eventfd, quit, play, finished>>

-----------------------------------------------------------------------------
(* A plausible mistake: the eventfd is not read. *)
DispatchUnread ==
    /\ at.loop = "poll" /\ eventfd /\ lock = "free"
    /\ lock' = "loop"
    /\ Goto("loop", "refill")
    /\ UNCHANGED <<source, file, write, eventfd, quit, play, finished>>

(* on_eventfd_signal reads the eventfd and has the mutex. *)
Dispatch ==
    /\ at.loop = "poll" /\ eventfd /\ lock = "free"
    /\ eventfd' = FALSE /\ lock' = "loop"
    /\ Goto("loop", "refill")
    /\ UNCHANGED <<source, file, write, quit, play, finished>>

(* The loop's thread ends.  It polls without the mutex, and needs it again *)
(* to leave the poll.                                                      *)
LoopExits ==
    /\ at.loop = "poll" /\ quit /\ lock = "free"
    /\ Goto("loop", "exited")
    /\ UNCHANGED <<source, file, write, loop, play, finished>>

-----------------------------------------------------------------------------
(* on_playback_process sees what there is to read ...  *)
RtLook ==
    /\ rt = "idle" /\ Used > 0
    /\ \E r \in Requests : copy' = Least(r, Used)
    /\ rt' = "copy"
    /\ UNCHANGED <<source, file, write, loop, at, ridx, heard, finished>>

(* ... copies it ... *)
RtCopy ==
    /\ rt = "copy"
    /\ heard' = heard \o [i \in 1..copy |-> buffer[(ridx + i - 1) % Size]]
    /\ rt' = "update"
    /\ UNCHANGED <<source, file, write, loop, at, ridx, copy, finished>>

(* A plausible mistake: the index does not wrap. *)
RtUpdateUnwrapped ==
    /\ rt = "update"
    /\ ridx' = ridx + copy
    /\ rt' = "signal" /\ copy' = 0
    /\ UNCHANGED <<source, file, write, loop, at, heard, finished>>

(* ... moves the read index ... *)
RtUpdate ==
    /\ rt = "update"
    /\ ridx' = (ridx + copy) % IndexMod
    /\ rt' = "signal" /\ copy' = 0
    /\ UNCHANGED <<source, file, write, loop, at, heard, finished>>

(* A plausible mistake: no signal when the ring is empty. *)
RtForgets ==
    /\ rt = "signal"
    /\ eventfd' = (eventfd \/ Used > 0)
    /\ rt' = "idle"
    /\ UNCHANGED <<source, file, write, lock, quit, at, ridx, copy, heard, finished>>

(* ... and signals the loop. *)
RtSignal ==
    /\ rt = "signal"
    /\ eventfd' = TRUE
    /\ rt' = "idle"
    /\ UNCHANGED <<source, file, write, lock, quit, at, ridx, copy, heard, finished>>

-----------------------------------------------------------------------------
(* ctm_sound_stop: pw_thread_loop_stop ... *)
Stop ==
    /\ at.client = "playing"
    /\ quit' = TRUE
    /\ Goto("client", "stop")
    /\ UNCHANGED <<source, file, write, eventfd, lock, play, finished>>

(* A plausible mistake: the loop is only told. *)
LoopIsTold == quit
LoopIsOver == at.loop = "exited"

Joined ==
    /\ at.client \in {"stop", "stopInside"} /\ LoopIsOver
    /\ Goto("client", "destroy")
    /\ UNCHANGED <<source, file, write, loop, play, finished>>

(* ... pw_stream_destroy under the mutex ... *)
Destroy ==
    /\ at.client = "destroy" /\ lock = "free" /\ rt = "idle"
    /\ rt' = "off"
    /\ Goto("client", "free")
    /\ UNCHANGED <<source, file, write, loop, ridx, copy, heard, finished>>

(* ... and free.  *)
Free ==
    /\ at.client = "free"
    /\ source' = "freed"
    /\ Goto("client", "idle")
    /\ UNCHANGED <<file, write, loop, play, finished>>

InRefill(t) == Refill(t) \/ Publish(t) \/ Check(t) \/ CallbackReturns(t) \/ Unlock(t)

Client == InRefill("client") \/ CallbackStops \/ Joined \/ Destroy \/ Free
Loop   == InRefill("loop") \/ CallbackFrees \/ Dispatch \/ LoopExits
Rt     == RtLook \/ RtCopy \/ RtUpdate \/ RtSignal

Next == Play \/ Stop \/ Client \/ Loop \/ Rt

(* Each thread runs while it can; nobody has to play or to stop anything.  *)
Spec == Init /\ [][Next]_vars /\ WF_vars(Client) /\ WF_vars(Loop) /\ WF_vars(Rt)

-----------------------------------------------------------------------------
(* The frames of the file come out in order, none twice and none missing,  *)
(* although writer and reader share no lock and the indices wrap.          *)
PlayedInOrder == \A i \in DOMAIN heard : heard[i] = i

(* As long as the file is shorter than the indices are wide (after that    *)
(* the comparison read_index >= write_index, sound.c:136, is wrong),       *)
(* on_finished is called only when every frame of the file has been        *)
(* played.  A signal that was under way at that moment calls it again, so  *)
(* the callback has to bear that, but at most twice more: one signal may   *)
(* be waiting and one not sent yet.                                        *)
FinishedMeansPlayed ==
    length < IndexMod => /\ finished > 0 => Len(heard) = length
                         /\ finished <= 3

NobodyInside ==
    rt = "off" /\ at.client = "idle" /\ at.loop \in {"none", "exited"}

(* When ctm_sound_stop, called by the program's own thread, has freed the  *)
(* source, no thread is left that uses it.                                 *)
NoUseAfterFree == source = "freed" => NobodyInside

(* sound.h:31, the callback "is typically some function which in turn      *)
(* calls ctm_sound_stop": then too nobody uses the source afterwards.      *)
NoUseAfterCallback == source = "freedByCallback" => NobodyInside

(* Every sound that is not stopped finishes: no copy is left without a     *)
(* refill after it.                                                        *)
SoundFinishes == at.client = "playing" ~> (finished > 0 \/ at.client # "playing")

(* sound.h:31 again: when it is play_async that calls on_finished, a stop  *)
(* in it (sound.c:283) waits for ever, since the loop needs the mutex that *)
(* is released only after the callback (sound.c:275).                      *)
Stuck == at.client = "stopInside"
StopInCallbackHangs == [](Stuck => []Stuck)

(* ctm_sound_stop, called by the program's thread, returns if and only if  *)
(* it is not called by on_finished from inside play_async.                 *)
StopReturns == (at.client = "stop" ~> at.client = "idle") /\ StopInCallbackHangs
================================================================================
