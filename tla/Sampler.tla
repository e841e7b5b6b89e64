-------------------------------- MODULE Sampler --------------------------------
(***************************************************************************)
(* src/metrics/sampler.c: a background thread that captures a sample into  *)
(* a ring buffer every interval, and the calls that create, start, stop,   *)
(* read and destroy it.                                                    *)
(*                                                                         *)
(* The callers are the program's own threads (Clients) and, while it runs  *)
(* the on_captured callback, a sampler thread.  A critical section of a    *)
(* caller is one step, enabled when the mutex is free; the sampler thread  *)
(* holds the mutex across two steps, ring_buffer_advance and the capture.  *)
(* The thread field and the callback field are used outside the mutex, in  *)
(* steps of their own.                                                     *)
(*                                                                         *)
(* What the caller owes the library: a sampler is used after create has    *)
(* returned it and before destroy is called, and destroy is called while   *)
(* no other client is inside a call.  A callback gets the pointer with the *)
(* call and may use it at any time.                                        *)
(***************************************************************************)
EXTENDS Integers, FiniteSets

CONSTANTS Clients,      \* the program's threads that use the sampler
          Tids,         \* the thread ids pthread_create can hand out
          NoThread,     \* no thread id
          Zero,         \* the sample whose bytes are all zero
          Capacity,     \* CTM_SAMPLER_CAPACITY
          Windows,      \* the windows get_value is called with
          TickMod,      \* captures are numbered modulo TickMod
          MaxLag,       \* bound: how late a slot's sample is counted
          ClientMay,    \* what each client calls: [Clients -> SUBSET Calls]
          CallbackMay   \* what the on_captured callback calls

Calls == {"create", "launch", "start", "stop", "destroy", "subscribe", "get"}
Callers == Clients \cup Tids
Tick == 0..(TickMod - 1)
Sample == Tick \cup {Zero}

ASSUME SamplerAssumption ==
    /\ NoThread \notin Tids
    /\ Clients \cap Tids = {}
    /\ Capacity \in Nat \ {0}
    /\ Windows \subseteq Nat \ {0}
    /\ MaxLag \in Nat \ {0, 1}
    /\ TickMod \in Nat /\ TickMod >= Capacity + MaxLag - 1
    /\ ClientMay \in [Clients -> SUBSET Calls]
    /\ CallbackMay \subseteq {"start", "stop", "subscribe", "get"}

VARIABLES
    exists,             \* the struct and its buffer are allocated
    lock,               \* NoThread, or the sampler thread that holds the mutex
    isRunning,          \* sampler->is_running
    thread,             \* sampler->thread
    onCaptured,         \* sampler->on_captured is set
    head, count, slots, \* sampler->ring_buffer
    tpc,                \* where each sampler thread is
    cpc,                \* where each caller is
    call,               \* the API function each caller is in
    target,             \* the thread a caller is joining
    tick,               \* number of the latest capture attempt
    lag,                \* history: by how many intervals each slot's sample is
                        \* too old; MaxLag: by that many or more, or no sample
    events              \* history: misuse the API lets happen

ring == <<head, count, slots>>
field == <<exists, isRunning, thread, onCaptured>>
caller == <<cpc, call, target>>
history == <<tick, lag>>
vars == <<exists, lock, isRunning, thread, onCaptured, head, count, slots,
          tpc, cpc, call, target, tick, lag, events>>

Ring == INSTANCE RingBuffer WITH Item <- Sample, Blank <- Zero

(* "due": asleep until the next interval, or waiting for the mutex         *)
ThreadAt == {"none", "due", "capture", "notify", "callback", "exited"}
CallerAt == {"idle", "start", "stop", "join", "joining", "free", "get"}

(* Every pointer, index and program counter stays in its domain; the ring  *)
(* buffer inside the sampler keeps its own type.                           *)
TypeOK ==
    /\ exists \in BOOLEAN /\ isRunning \in BOOLEAN /\ onCaptured \in BOOLEAN
    /\ lock \in Tids \cup {NoThread} /\ thread \in Tids \cup {NoThread}
    /\ Ring!TypeOK
    /\ tpc \in [Tids -> ThreadAt]
    /\ cpc \in [Callers -> CallerAt]
    /\ call \in [Callers -> Calls \cup {"none"}]
    /\ target \in [Callers -> Tids \cup {NoThread}]
    /\ tick \in Tick /\ lag \in [Ring!Slot -> 0..MaxLag]
    /\ events \subseteq {"start_during_stop", "join_failed", "join_skipped"}

Unlocked == lock = NoThread
Stopping == \E c \in Callers : cpc[c] \in {"join", "joining"}
Live(t) == tpc[t] \notin {"none", "exited"}

(* A client is creating or destroying the sampler.                         *)
Owned == \E c \in Clients : call[c] \in {"launch", "destroy"}

Init ==
    /\ exists = FALSE /\ lock = NoThread
    /\ isRunning = FALSE /\ thread = NoThread /\ onCaptured = FALSE
    /\ Ring!Init
    /\ tpc = [t \in Tids |-> "none"]
    /\ cpc = [c \in Callers |-> "idle"]
    /\ call = [c \in Callers |-> "none"]
    /\ target = [c \in Callers |-> NoThread]
    /\ tick = 0 /\ lag = [s \in Ring!Slot |-> MaxLag] /\ events = {}

-----------------------------------------------------------------------------
(* The slot at the head keeps the sample it got a round of the ring ago.   *)
OneRoundLater ==
    [lag EXCEPT ![head] = IF @ + Capacity < MaxLag THEN @ + Capacity ELSE MaxLag]

(* A caller moves on inside its call, or returns from it.                  *)
Goto(c, place) == cpc' = [cpc EXCEPT ![c] = place]

Return(c) ==
    /\ cpc' = [cpc EXCEPT ![c] = "idle"]
    /\ call' = [call EXCEPT ![c] = "none"]

-----------------------------------------------------------------------------
(* Plausible mistakes, which the checks must notice. *)

StopWithoutJoin(c) ==
    /\ cpc[c] = "stop" /\ Unlocked /\ isRunning
    /\ isRunning' = FALSE
    /\ IF call[c] = "stop" THEN Return(c) ELSE Goto(c, "free") /\ UNCHANGED call
    /\ UNCHANGED <<exists, lock, thread, onCaptured, ring, tpc, target, history, events>>

StartUnchecked(c) ==
    \E t \in Tids :
        /\ cpc[c] = "start" /\ Unlocked /\ tpc[t] = "none"
        /\ isRunning' = TRUE /\ thread' = t /\ tpc' = [tpc EXCEPT ![t] = "due"]
        /\ Return(c)
        /\ UNCHANGED <<exists, lock, onCaptured, ring, target, history, events>>

StartFailsRunning(c) ==
    /\ cpc[c] = "start" /\ Unlocked /\ ~isRunning
    /\ isRunning' = TRUE
    /\ thread' \in Tids \cup {NoThread}
    /\ IF call[c] = "launch" THEN Goto(c, "stop") /\ UNCHANGED call ELSE Return(c)
    /\ events' = events \cup {e \in {"start_during_stop"} : Stopping}
    /\ UNCHANGED <<exists, lock, onCaptured, ring, tpc, target, history>>

GetUnlocked(c, w) ==
    /\ cpc[c] = "get"
    /\ Return(c)
    /\ UNCHANGED <<field, lock, ring, tpc, target, history, events>>

CaptureFailsNotified(t) ==
    /\ tpc[t] = "capture"
    /\ lag' = OneRoundLater
    /\ tpc' = [tpc EXCEPT ![t] = "notify"]
    /\ lock' = NoThread
    /\ UNCHANGED <<field, ring, caller, tick, events>>

CaptureFailsExits(t) ==
    /\ tpc[t] = "capture"
    /\ lag' = OneRoundLater
    /\ tpc' = [tpc EXCEPT ![t] = "exited"]
    /\ lock' = NoThread
    /\ UNCHANGED <<field, ring, caller, tick, events>>

AdvanceUnchecked(t) ==
    /\ tpc[t] = "due" /\ Unlocked /\ exists
    /\ lock' = t
    /\ Ring!Advance
    /\ tick' = (tick + 1) % TickMod
    /\ tpc' = [tpc EXCEPT ![t] = "capture"]
    /\ UNCHANGED <<field, caller, lag, events>>

-----------------------------------------------------------------------------
(* The API. *)

(* Who may enter the library now, and for which function.                  *)
MayCall(c, o) ==
    /\ exists /\ cpc[c] = "idle"
    /\ IF c \in Clients THEN o \in ClientMay[c] /\ ~Owned
                        ELSE o \in CallbackMay /\ tpc[c] = "callback"

Enter(c, o, place) ==
    /\ Goto(c, place)
    /\ call' = [call EXCEPT ![c] = o]
    /\ UNCHANGED <<field, lock, ring, tpc, target, history, events>>

(* sampler_create, when its allocations succeed (when they do not, nothing *)
(* is left of the call).  The thread field, which malloc leaves undefined, *)
(* is not read before a start has written it.  launch is                   *)
(* sampler_create_with_subscription_and_start, which goes on to start.     *)
Create(c) ==
    /\ ~exists /\ cpc[c] = "idle"
    /\ \E o \in ClientMay[c] \cap {"create", "launch"} :
          /\ onCaptured' = (o = "launch")
          /\ IF o = "launch" THEN Goto(c, "start") /\ call' = [call EXCEPT ![c] = o]
                             ELSE UNCHANGED <<cpc, call>>
    /\ exists' = TRUE /\ isRunning' = FALSE /\ lock' = NoThread
    /\ head' = 0 /\ count' = 0 /\ slots' = [s \in Ring!Slot |-> Zero]
    /\ tick' = 0 /\ lag' = [s \in Ring!Slot |-> MaxLag]
    /\ UNCHANGED <<thread, tpc, target, events>>

CallStart(c) == MayCall(c, "start") /\ Enter(c, "start", "start")
CallStop(c)  == MayCall(c, "stop")  /\ Enter(c, "stop", "stop")
CallGet(c)   == MayCall(c, "get")   /\ Enter(c, "get", "get")

(* sampler_destroy begins with sampler_stop.                               *)
CallDestroy(c) ==
    /\ c \in Clients /\ MayCall(c, "destroy")
    /\ \A d \in Clients : cpc[d] = "idle"
    /\ Enter(c, "destroy", "stop")

(* sampler_subscribe takes no lock.                                        *)
Subscribe(c) ==
    /\ MayCall(c, "subscribe")
    /\ onCaptured' = TRUE
    /\ UNCHANGED <<exists, lock, isRunning, thread, ring, tpc, caller, history, events>>

(* sampler_start under the mutex: the sampler already runs.                *)
StartAgain(c) ==
    /\ cpc[c] = "start" /\ Unlocked /\ isRunning
    /\ Return(c)
    /\ UNCHANGED <<field, lock, ring, tpc, target, history, events>>

(* sampler_start under the mutex: pthread_create hands out an unused id.   *)
Start(c) ==
    \E t \in Tids :
        /\ cpc[c] = "start" /\ Unlocked /\ ~isRunning /\ tpc[t] = "none"
        /\ isRunning' = TRUE /\ thread' = t /\ tpc' = [tpc EXCEPT ![t] = "due"]
        /\ Return(c)
        /\ events' = events \cup {e \in {"start_during_stop"} : Stopping}
        /\ UNCHANGED <<exists, lock, onCaptured, ring, target, history>>

(* sampler_start under the mutex: pthread_create fails, which leaves the   *)
(* thread field undefined, and is_running is set back.  launch then        *)
(* destroys the sampler it made.                                           *)
StartFails(c) ==
    /\ cpc[c] = "start" /\ Unlocked /\ ~isRunning
    /\ thread' \in Tids \cup {NoThread}
    /\ IF call[c] = "launch" THEN Goto(c, "stop") /\ UNCHANGED call ELSE Return(c)
    /\ events' = events \cup {e \in {"start_during_stop"} : Stopping}
    /\ UNCHANGED <<exists, isRunning, onCaptured, lock, ring, tpc, target, history>>

(* What follows sampler_stop: its own return, or the rest of destroy.      *)
AfterStop(c) ==
    IF call[c] = "stop" THEN Return(c) ELSE Goto(c, "free") /\ UNCHANGED call

(* sampler_stop under the mutex, for a running sampler: the join follows.  *)
Stop(c) ==
    /\ cpc[c] = "stop" /\ Unlocked /\ isRunning
    /\ isRunning' = FALSE
    /\ Goto(c, "join")
    /\ UNCHANGED <<exists, lock, thread, onCaptured, ring, tpc, call, target, history, events>>

(* sampler_stop under the mutex, when is_running is clear already: it does *)
(* not join, even if the stop that cleared the flag still does.            *)
StopAgain(c) ==
    /\ cpc[c] = "stop" /\ Unlocked /\ ~isRunning
    /\ events' = events \cup {e \in {"join_skipped"} : Stopping}
    /\ AfterStop(c)
    /\ UNCHANGED <<field, lock, ring, tpc, target, history>>

(* pthread_join can wait for t: it is not the caller, it has not been      *)
(* joined before and nobody else is joining it.                            *)
Joinable(c, t) ==
    /\ t \in Tids \ {c} /\ tpc[t] # "none"
    /\ \A d \in Callers : cpc[d] = "joining" => target[d] # t

(* sampler_stop after the unlock: the thread field is read without it.     *)
Join(c) ==
    /\ cpc[c] = "join" /\ Joinable(c, thread)
    /\ target' = [target EXCEPT ![c] = thread]
    /\ Goto(c, "joining")
    /\ UNCHANGED <<field, lock, ring, tpc, call, history, events>>

JoinFails(c) ==
    /\ cpc[c] = "join" /\ ~Joinable(c, thread)
    /\ events' = events \cup {"join_failed"}
    /\ AfterStop(c)
    /\ UNCHANGED <<field, lock, ring, tpc, target, history>>

Joined(c) ==
    /\ cpc[c] = "joining" /\ tpc[target[c]] = "exited"
    /\ tpc' = [tpc EXCEPT ![target[c]] = "none"]
    /\ target' = [target EXCEPT ![c] = NoThread]
    /\ AfterStop(c)
    /\ UNCHANGED <<field, lock, ring, history, events>>

(* The rest of sampler_destroy.                                            *)
Free(c) ==
    /\ cpc[c] = "free"
    /\ exists' = FALSE
    /\ Return(c)
    /\ UNCHANGED <<isRunning, thread, onCaptured, lock, ring, tpc, target, history, events>>

(* sampler_get_value under the mutex: process_fn reads offsets 0 and w, or *)
(* the call returns EAGAIN.                                                *)
Get(c, w) ==
    /\ cpc[c] = "get" /\ Unlocked
    /\ Return(c)
    /\ UNCHANGED <<field, lock, ring, tpc, target, history, events>>

-----------------------------------------------------------------------------
(* The sampler thread. *)

Quit(t) ==
    /\ tpc[t] = "due" /\ Unlocked /\ exists /\ ~isRunning
    /\ tpc' = [tpc EXCEPT ![t] = "exited"]
    /\ UNCHANGED <<field, lock, ring, caller, history, events>>

Advance(t) ==
    /\ tpc[t] = "due" /\ Unlocked /\ exists /\ isRunning
    /\ lock' = t
    /\ Ring!Advance
    /\ tick' = (tick + 1) % TickMod
    /\ tpc' = [tpc EXCEPT ![t] = "capture"]
    /\ UNCHANGED <<field, caller, lag, events>>

Capture(t) ==
    /\ tpc[t] = "capture"
    /\ Ring!Store(tick)
    /\ lag' = [lag EXCEPT ![head] = 0]
    /\ tpc' = [tpc EXCEPT ![t] = "notify"]
    /\ lock' = NoThread
    /\ UNCHANGED <<field, caller, tick, events>>

(* capture_fn fails before it writes: the slot advance opened keeps what   *)
(* it held, and no callback is made.                                       *)
CaptureFails(t) ==
    /\ tpc[t] = "capture"
    /\ lag' = OneRoundLater
    /\ tpc' = [tpc EXCEPT ![t] = "due"]
    /\ lock' = NoThread
    /\ UNCHANGED <<field, ring, caller, tick, events>>

(* on_captured is read after the unlock.                                   *)
Notify(t) ==
    /\ tpc[t] = "notify"
    /\ tpc' = [tpc EXCEPT ![t] = IF onCaptured THEN "callback" ELSE "due"]
    /\ UNCHANGED <<field, lock, ring, caller, history, events>>

CallbackReturns(t) ==
    /\ tpc[t] = "callback" /\ cpc[t] = "idle"
    /\ tpc' = [tpc EXCEPT ![t] = "due"]
    /\ UNCHANGED <<field, lock, ring, caller, history, events>>

-----------------------------------------------------------------------------
Call(c) == CallStart(c) \/ CallStop(c) \/ CallGet(c) \/ CallDestroy(c) \/ Subscribe(c)

(* The steps of a call that need the mutex, and those that do not.         *)
Locked(c)  == \/ StartAgain(c) \/ Start(c) \/ StartFails(c) \/ Stop(c) \/ StopAgain(c)
              \/ \E w \in Windows : Get(c, w)
Joining(c) == Join(c) \/ JoinFails(c) \/ Joined(c) \/ Free(c)

TakeLock(t) == Quit(t) \/ Advance(t)
Work(t)     == Capture(t) \/ CaptureFails(t) \/ Notify(t)

Next ==
    \/ \E c \in Clients : Create(c)
    \/ \E c \in Callers : Call(c) \/ Locked(c) \/ Joining(c)
    \/ \E t \in Tids : TakeLock(t) \/ Work(t) \/ CallbackReturns(t)

(* Threads run.  A wait for the mutex ends although a sampler thread takes *)
(* it again and again, because that thread sleeps between two captures;    *)
(* and a callback returns after finitely many calls.                       *)
Fairness ==
    /\ \A c \in Callers : SF_vars(Locked(c)) /\ WF_vars(Joining(c))
    /\ \A t \in Tids : SF_vars(TakeLock(t)) /\ WF_vars(Work(t)) /\ SF_vars(CallbackReturns(t))

Spec == Init /\ [][Next]_vars
FairSpec == Spec /\ Fairness

-----------------------------------------------------------------------------
(* Once destroy has freed the struct, no sampler thread can touch it any   *)
(* more, nobody is inside a call, and the mutex it destroyed was free      *)
(* (sampler_destroy relies on the join in sampler_stop for all of this).   *)
NoUseAfterFree ==
    ~exists => /\ Unlocked
               /\ \A t \in Tids : ~Live(t)
               /\ \A c \in Callers : cpc[c] = "idle"

(* At most one sampler thread captures into the ring and calls back, over  *)
(* any sequence of starts and stops.                                       *)
OneSampler == \A t, u \in Tids : Live(t) /\ Live(u) => t = u

(* Between the calls of its owner, is_running says the truth: the thread   *)
(* named by the thread field is there when it is set, and when it is not,  *)
(* stop has left no thread behind, not even one nobody joined.             *)
FlagTellsTheTruth ==
    exists /\ (\A c \in Callers : cpc[c] \in {"idle", "get"}) =>
        IF isRunning THEN thread \in Tids /\ Live(thread)
                     ELSE \A t \in Tids : tpc[t] = "none"

(* When the callback runs, outside the mutex, the newest item of the ring  *)
(* is still the capture it is told about.                                  *)
NotifiedSampleIsLatest ==
    \A t \in Tids : tpc[t] \in {"notify", "callback"} =>
        lag[head] = 0 /\ slots[head] = tick

(* The slot at an offset holds the sample captured `offset' intervals       *)
(* before the latest attempt or, after failures, the one lag intervals     *)
(* older still.                                                            *)
HoldsItsTick(offset) ==
    LET s == Ring!PeekSlot(offset)
    IN  lag[s] < MaxLag => slots[s] = (tick + TickMod - (offset + lag[s])) % TickMod

(* What get_value compares, whatever the threads do: captures w intervals  *)
(* apart, the newer one the latest, if neither attempt failed.  A failed   *)
(* attempt counts as a sample all the same: in its place process_fn gets,  *)
(* and nothing tells it, the capture of a whole number of rounds of the    *)
(* ring before, exactly as old as the failures of that slot in a row make  *)
(* it; zeroed bytes only if the slot has no capture (or MaxLag is passed). *)
ReadersSeeTheWindow ==
    [][\A c \in Callers, w \in Windows :
          Get(c, w) /\ Ring!Peekable(w) => HoldsItsTick(0) /\ HoldsItsTick(w)]_vars

Raced == events \cap {"start_during_stop", "join_failed"} # {}

(* With several controllers, or a callback that stops its own sampler,     *)
(* there can be two sampler threads, but only after a start that came      *)
(* between a stop's unlock and the end of its join, or a failed join.      *)
OneSamplerUnlessRaced == ~Raced => OneSampler

(* The same callers can free the struct under a running sampler thread, but *)
(* only after such a race or a stop that returned before the thread ended. *)
NoUseAfterFreeUnlessRaced == events = {} => NoUseAfterFree

(* Every call returns: no caller waits for the mutex or for a sampler      *)
(* thread for ever.                                                        *)
CallsReturn == \A c \in Callers : cpc[c] # "idle" ~> cpc[c] = "idle"

(* A running sampler goes on capturing, whatever its captures, its readers *)
(* and its callback do, until it is stopped.                               *)
SamplingContinues == isRunning ~> (~isRunning \/ \E t \in Tids : tpc[t] = "capture")

-----------------------------------------------------------------------------
(* One client o starts, stops, creates and destroys; the others and the    *)
(* callback only read and subscribe.                                       *)
Reading == {"subscribe", "get"}

Owns(o) ==
    /\ o \in Clients
    /\ \A c \in Clients \ {o} : ClientMay[c] \subseteq Reading
    /\ CallbackMay \subseteq Reading

(* The inductive invariant under that discipline, in parts. *)

(* Everyone but o is at most inside get_value, a sampler thread only from  *)
(* its callback.                                                           *)
OthersRead(o) ==
    /\ \A c \in Callers \ {o} : cpc[c] \in {"idle", "get"} /\ call[c] \in {"none", "get"}
    /\ \A t \in Tids : cpc[t] = "get" => tpc[t] = "callback"

(* The mutex is held exactly during a capture.                             *)
LockMeansCapture == \A t \in Tids : tpc[t] = "capture" <=> lock = t

(* The thread field names the only sampler thread there can be; is_running *)
(* means it lives; and it is gone unless o is about to join it.            *)
ThreadIsTheOne(o) ==
    /\ \A t \in Tids : tpc[t] # "none" => t = thread
    /\ isRunning => thread \in Tids /\ Live(thread)
    /\ ~isRunning /\ cpc[o] \notin {"join", "joining"} => \A t \in Tids : tpc[t] = "none"
    /\ cpc[o] \in {"join", "joining"} => ~isRunning /\ thread \in Tids /\ tpc[thread] # "none"
    /\ cpc[o] = "joining" => target[o] = thread

(* Nobody is inside a call on a sampler that does not exist, and the other *)
(* clients stay out while o launches or destroys it.                       *)
CallsAreInside(o) ==
    /\ ~exists => ~isRunning /\ \A c \in Callers : cpc[c] = "idle"
    /\ cpc[o] = "free" => ~isRunning
    /\ cpc[o] = "start" => call[o] \in {"start", "launch"}
    /\ cpc[o] \in {"stop", "join", "joining"} => call[o] \in {"stop", "launch", "destroy"}
    /\ cpc[o] = "free" => call[o] \in {"launch", "destroy"}
    /\ cpc[o] \in {"start", "stop", "join", "joining", "free"} /\ call[o] \in {"launch", "destroy"} =>
          \A c \in Clients \ {o} : cpc[c] = "idle"

OwnerInvariant(o) ==
    OthersRead(o) /\ LockMeansCapture /\ ThreadIsTheOne(o) /\ CallsAreInside(o)
================================================================================
