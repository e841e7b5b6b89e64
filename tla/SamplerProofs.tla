----------------------------- MODULE SamplerProofs -----------------------------
(* Proofs about Sampler, for any number of clients, thread ids and slots.  *)
EXTENDS Sampler, DataLemmas, TLAPS

(* The steps of one caller, and of one sampler thread.                     *)
CallerStep(c) ==
    \/ c \in Clients /\ Create(c)
    \/ CallStart(c) \/ CallStop(c) \/ CallGet(c) \/ CallDestroy(c) \/ Subscribe(c)
    \/ StartAgain(c) \/ Start(c) \/ StartFails(c) \/ Stop(c) \/ StopAgain(c)
    \/ \E w \in Windows : Get(c, w)
    \/ Join(c) \/ JoinFails(c) \/ Joined(c) \/ Free(c)

ThreadStep(t) ==
    \/ Quit(t) \/ Advance(t)
    \/ Capture(t) \/ CaptureFails(t) \/ Notify(t) \/ CallbackReturns(t)

LEMMA NextSteps ==
    Next <=> (\E c \in Callers : CallerStep(c)) \/ (\E t \in Tids : ThreadStep(t))
    BY DEF Next, CallerStep, ThreadStep, Call, Locked, Joining, TakeLock, Work, Callers

-----------------------------------------------------------------------------
(* Types. *)

LEMMA Arithmetic ==
    /\ \A h \in 0..(Capacity - 1) : (h + 1) % Capacity \in 0..(Capacity - 1)
    /\ \A x \in Tick : (x + 1) % TickMod \in Tick
    /\ 0 \in 0..(Capacity - 1) /\ 0 \in Tick
<1>1. \A n \in Nat \ {0} : \A x \in Nat : x % n \in 0..(n - 1)
    OBVIOUS
<1>2. Capacity \in Nat \ {0} /\ TickMod \in Nat \ {0}
    BY SamplerAssumption
<1>. QED BY <1>1, <1>2 DEF Tick

(* A caller that moves on or returns stays in the domains of its variables. *)
LEMMA CallerTypes ==
    ASSUME TypeOK, NEW c \in Callers,
           \/ Return(c)
           \/ AfterStop(c)
           \/ \E p \in CallerAt : Goto(c, p) /\ UNCHANGED call
           \/ \E p \in CallerAt, o \in Calls : Goto(c, p) /\ call' = [call EXCEPT ![c] = o]
    PROVE  cpc' \in [Callers -> CallerAt] /\ call' \in [Callers -> Calls \cup {"none"}]
    BY DEF TypeOK, Return, AfterStop, Goto, CallerAt, Calls

LEMMA CallerStepType ==
    ASSUME TypeOK, NEW c \in Callers, CallerStep(c) PROVE TypeOK'
<1>. USE DEF ring, field, caller, history
<1>1. CASE c \in Clients /\ Create(c)
    <2>1. cpc' \in [Callers -> CallerAt] /\ call' \in [Callers -> Calls \cup {"none"}]
        BY <1>1 DEF Create, TypeOK, Goto, CallerAt, Calls
    <2>2. Ring!TypeOK'
        BY <1>1, Arithmetic, SamplerAssumption DEF Create, Ring!TypeOK, Ring!Slot, Sample
    <2>3. lag' \in [Ring!Slot -> 0..MaxLag]
        BY <1>1, SamplerAssumption DEF Create
    <2>. QED BY <1>1, <2>1, <2>2, <2>3, Arithmetic DEF Create, TypeOK, ThreadAt
<1>2. CASE \E o \in Calls, p \in CallerAt : Enter(c, o, p)
    <2>1. cpc' \in [Callers -> CallerAt] /\ call' \in [Callers -> Calls \cup {"none"}]
        BY <1>2, CallerTypes DEF Enter
    <2>. QED BY <1>2, <2>1 DEF Enter, TypeOK, Ring!TypeOK
<1>3. CASE Subscribe(c)
    BY <1>3 DEF Subscribe, TypeOK, Ring!TypeOK
<1>4. CASE StartAgain(c) \/ \E w \in Windows : Get(c, w)
    <2>1. cpc' \in [Callers -> CallerAt] /\ call' \in [Callers -> Calls \cup {"none"}]
        BY <1>4, CallerTypes DEF StartAgain, Get
    <2>. QED BY <1>4, <2>1 DEF StartAgain, Get, TypeOK, Ring!TypeOK
<1>5. CASE Start(c)
    <2>1. cpc' \in [Callers -> CallerAt] /\ call' \in [Callers -> Calls \cup {"none"}]
        BY <1>5, CallerTypes DEF Start
    <2>2. events' \subseteq {"start_during_stop", "join_failed", "join_skipped"}
        BY <1>5 DEF Start, TypeOK
    <2>3. tpc' \in [Tids -> ThreadAt]
        BY <1>5 DEF Start, TypeOK, ThreadAt
    <2>. QED BY <1>5, <2>1, <2>2, <2>3 DEF Start, TypeOK, Ring!TypeOK
<1>6. CASE StartFails(c)
    <2>1. cpc' \in [Callers -> CallerAt] /\ call' \in [Callers -> Calls \cup {"none"}]
        BY <1>6, CallerTypes DEF StartFails, CallerAt
    <2>2. events' \subseteq {"start_during_stop", "join_failed", "join_skipped"}
        BY <1>6 DEF StartFails, TypeOK
    <2>. QED BY <1>6, <2>1, <2>2 DEF StartFails, TypeOK, Ring!TypeOK
<1>7. CASE Stop(c) \/ StopAgain(c)
    <2>1. cpc' \in [Callers -> CallerAt] /\ call' \in [Callers -> Calls \cup {"none"}]
        BY <1>7, CallerTypes DEF Stop, StopAgain, CallerAt
    <2>2. events' \subseteq {"start_during_stop", "join_failed", "join_skipped"}
        BY <1>7 DEF Stop, StopAgain, TypeOK
    <2>. QED BY <1>7, <2>1, <2>2 DEF Stop, StopAgain, TypeOK, Ring!TypeOK
<1>8. CASE Join(c)
    <2>1. cpc' \in [Callers -> CallerAt] /\ call' \in [Callers -> Calls \cup {"none"}]
        BY <1>8, CallerTypes DEF Join, CallerAt
    <2>. QED BY <1>8, <2>1 DEF Join, TypeOK, Ring!TypeOK
<1>9. CASE JoinFails(c)
    <2>1. cpc' \in [Callers -> CallerAt] /\ call' \in [Callers -> Calls \cup {"none"}]
        BY <1>9, CallerTypes DEF JoinFails
    <2>. QED BY <1>9, <2>1 DEF JoinFails, TypeOK, Ring!TypeOK
<1>10. CASE Joined(c)
    <2>1. cpc' \in [Callers -> CallerAt] /\ call' \in [Callers -> Calls \cup {"none"}]
        BY <1>10, CallerTypes DEF Joined
    <2>2. tpc' \in [Tids -> ThreadAt]
        BY <1>10 DEF Joined, TypeOK, ThreadAt
    <2>. QED BY <1>10, <2>1, <2>2 DEF Joined, TypeOK, Ring!TypeOK
<1>11. CASE Free(c)
    <2>1. cpc' \in [Callers -> CallerAt] /\ call' \in [Callers -> Calls \cup {"none"}]
        BY <1>11, CallerTypes DEF Free
    <2>. QED BY <1>11, <2>1 DEF Free, TypeOK, Ring!TypeOK
<1>12. CASE CallStart(c) \/ CallStop(c) \/ CallGet(c) \/ CallDestroy(c)
    <2>1. \E o \in Calls, p \in CallerAt : Enter(c, o, p)
        BY <1>12 DEF CallStart, CallStop, CallGet, CallDestroy, Calls, CallerAt
    <2>. QED BY <1>2, <2>1
<1>. QED BY <1>1, <1>3, <1>4, <1>5, <1>6, <1>7, <1>8, <1>9, <1>10, <1>11, <1>12 DEF CallerStep

LEMMA ThreadStepType ==
    ASSUME TypeOK, NEW t \in Tids, ThreadStep(t) PROVE TypeOK'
<1>. USE DEF ring, field, caller, history
<1>1. tpc' \in [Tids -> ThreadAt]
    BY DEF ThreadStep, Quit, Advance, Capture, CaptureFails, Notify, CallbackReturns, TypeOK, ThreadAt
<1>2. CASE Quit(t) \/ Notify(t) \/ CallbackReturns(t)
    BY <1>1, <1>2 DEF Quit, Notify, CallbackReturns, TypeOK, Ring!TypeOK
<1>3. CASE Advance(t)
    <2>1. Ring!TypeOK'
        BY <1>3, Arithmetic, SamplerAssumption DEF Advance, TypeOK, Ring!TypeOK, Ring!Advance, Ring!Slot
    <2>2. tick' \in Tick
        BY <1>3, Arithmetic DEF Advance, TypeOK
    <2>. QED BY <1>1, <1>3, <2>1, <2>2 DEF Advance, TypeOK
<1>4. CASE Capture(t)
    <2>1. Ring!TypeOK'
        BY <1>4 DEF Capture, TypeOK, Ring!TypeOK, Ring!Store, Sample
    <2>2. lag' \in [Ring!Slot -> 0..MaxLag]
        <3>1. head \in Ring!Slot /\ 0 \in 0..MaxLag
            BY SamplerAssumption DEF TypeOK, Ring!TypeOK
        <3>. QED BY <1>4, <3>1 DEF Capture, TypeOK
    <2>. QED BY <1>1, <1>4, <2>1, <2>2 DEF Capture, TypeOK
<1>5. CASE CaptureFails(t)
    <2>1. lag' \in [Ring!Slot -> 0..MaxLag]
        <3>1. \A l \in 0..MaxLag :
                 (IF l + Capacity < MaxLag THEN l + Capacity ELSE MaxLag) \in 0..MaxLag
            BY SamplerAssumption
        <3>2. head \in Ring!Slot /\ lag[head] \in 0..MaxLag
            BY DEF TypeOK, Ring!TypeOK
        <3>. QED BY <1>5, <3>1, <3>2 DEF CaptureFails, OneRoundLater, TypeOK
    <2>. QED BY <1>1, <1>5, <2>1 DEF CaptureFails, TypeOK, Ring!TypeOK
<1>. QED BY <1>2, <1>3, <1>4, <1>5 DEF ThreadStep

(* Whoever calls what, every variable stays in its domain; in particular   *)
(* the ring inside the sampler never leaves its array.                     *)
THEOREM TypeCorrect == Spec => []TypeOK
<1>1. ASSUME Init PROVE TypeOK
    <2>1. Ring!TypeOK
        BY <1>1, Arithmetic, SamplerAssumption DEF Init, Ring!Init, Ring!TypeOK, Ring!Slot, Sample
    <2>2. lag \in [Ring!Slot -> 0..MaxLag]
        BY <1>1, SamplerAssumption DEF Init
    <2>. QED BY <1>1, <2>1, <2>2, Arithmetic DEF Init, TypeOK, ThreadAt, CallerAt
<1>2. TypeOK /\ [Next]_vars => TypeOK'
    <2>1. ASSUME TypeOK, UNCHANGED vars PROVE TypeOK'
        BY <2>1 DEF vars, TypeOK, Ring!TypeOK
    <2>. QED BY <2>1, NextSteps, CallerStepType, ThreadStepType
<1>. QED BY <1>1, <1>2, PTL DEF Spec

-----------------------------------------------------------------------------
(* The owner's invariant, for a client o that Owns the sampler. *)

(* What the other callers may do leaves only these steps.                  *)
LEMMA OtherSteps ==
    ASSUME NEW o \in Clients, Owns(o), TypeOK, OthersRead(o),
           NEW c \in Callers, c # o, CallerStep(c)
    PROVE  CallGet(c) \/ Subscribe(c) \/ \E w \in Windows : Get(c, w)
<1>1. cpc[c] \in {"idle", "get"}
    BY DEF OthersRead
<1>2. \A op \in Calls : MayCall(c, op) => op \in Reading
    BY DEF MayCall, Owns, Callers
<1>3. ~(c \in Clients /\ Create(c))
    BY DEF Create, Owns, Reading
<1>4. ~(CallStart(c) \/ CallStop(c) \/ CallDestroy(c))
    BY <1>2 DEF CallStart, CallStop, CallDestroy, Reading, Calls
<1>. QED BY <1>1, <1>3, <1>4
         DEF CallerStep, StartAgain, Start, StartFails, Stop, StopAgain, Join, JoinFails, Joined, Free

LEMMA OtherStepInvariant ==
    ASSUME NEW o \in Clients, Owns(o), TypeOK, OwnerInvariant(o),
           NEW c \in Callers, c # o, CallerStep(c)
    PROVE  OwnerInvariant(o)'
<1>. USE DEF OwnerInvariant, ring, field, caller, history
<1>1. CallGet(c) \/ Subscribe(c) \/ \E w \in Windows : Get(c, w)
    BY OtherSteps
<1>2. CASE Subscribe(c)
    BY <1>2 DEF Subscribe, OthersRead, LockMeansCapture, ThreadIsTheOne, CallsAreInside, Live
<1>3. CASE CallGet(c)
    <2>1. /\ cpc' = [cpc EXCEPT ![c] = "get"] /\ call' = [call EXCEPT ![c] = "get"]
          /\ UNCHANGED <<exists, isRunning, thread, lock, tpc, target>>
          /\ exists /\ MayCall(c, "get")
        BY <1>3 DEF CallGet, Enter, Goto, MayCall
    <2>2. cpc'[o] = cpc[o] /\ call'[o] = call[o]
        BY <2>1 DEF TypeOK, Callers
    <2>3. OthersRead(o)'
        <3>1. \A d \in Callers \ {o} : cpc'[d] \in {"idle", "get"} /\ call'[d] \in {"none", "get"}
            BY <2>1 DEF OthersRead, TypeOK
        <3>2. \A t \in Tids : cpc'[t] = "get" => tpc[t] = "callback"
            BY <2>1, SamplerAssumption DEF OthersRead, MayCall, TypeOK, Callers
        <3>. QED BY <2>1, <3>1, <3>2 DEF OthersRead
    <2>4. LockMeansCapture' /\ ThreadIsTheOne(o)'
        BY <2>1, <2>2 DEF LockMeansCapture, ThreadIsTheOne, Live
    <2>5. CallsAreInside(o)'
        <3>1. cpc[o] \in {"start", "stop", "join", "joining", "free"} /\ call[o] \in {"launch", "destroy"} =>
                  \A d \in Clients \ {o} : cpc'[d] = "idle"
            BY <2>1 DEF CallsAreInside, MayCall, Owned, TypeOK, Callers
        <3>. QED BY <2>1, <2>2, <3>1 DEF CallsAreInside
    <2>. QED BY <2>3, <2>4, <2>5
<1>4. CASE \E w \in Windows : Get(c, w)
    <2>1. /\ cpc' = [cpc EXCEPT ![c] = "idle"] /\ call' = [call EXCEPT ![c] = "none"]
          /\ UNCHANGED <<exists, isRunning, thread, lock, tpc, target>>
          /\ cpc[c] = "get"
        BY <1>4 DEF Get, Return
    <2>2. cpc'[o] = cpc[o] /\ call'[o] = call[o]
        BY <2>1 DEF TypeOK, Callers
    <2>3. OthersRead(o)'
        BY <2>1 DEF OthersRead, TypeOK, Callers
    <2>4. LockMeansCapture' /\ ThreadIsTheOne(o)'
        BY <2>1, <2>2 DEF LockMeansCapture, ThreadIsTheOne, Live
    <2>5. CallsAreInside(o)'
        BY <2>1, <2>2 DEF CallsAreInside, TypeOK, Callers
    <2>. QED BY <2>3, <2>4, <2>5
<1>. QED BY <1>1, <1>2, <1>3, <1>4

LEMMA ThreadStepInvariant ==
    ASSUME NEW o \in Clients, Owns(o), TypeOK, OwnerInvariant(o),
           NEW t \in Tids, ThreadStep(t)
    PROVE  OwnerInvariant(o)'
<1>. USE DEF OwnerInvariant, ring, field, caller, history
<1>1. /\ UNCHANGED <<exists, isRunning, thread, cpc, call, target>>
      /\ tpc[t] # "none" /\ t = thread
      /\ \E p \in ThreadAt \ {"none"} : tpc' = [tpc EXCEPT ![t] = p]
    BY DEF ThreadStep, Quit, Advance, Capture, CaptureFails, Notify, CallbackReturns,
           ThreadIsTheOne, ThreadAt, TypeOK
<1>2. OthersRead(o)'
    <2>1. cpc[t] = "get" => tpc[t] = "callback"
        BY DEF OthersRead
    <2>2. tpc[t] = "callback" => cpc[t] = "idle"
        BY DEF ThreadStep, Quit, Advance, Capture, CaptureFails, Notify, CallbackReturns
    <2>. QED BY <1>1, <2>1, <2>2 DEF OthersRead, TypeOK
<1>3. LockMeansCapture'
    BY SamplerAssumption
       DEF ThreadStep, Quit, Advance, Capture, CaptureFails, Notify, CallbackReturns,
           LockMeansCapture, Unlocked, TypeOK
<1>4. ThreadIsTheOne(o)'
    <2>1. Live(t) /\ (tpc'[t] = "exited" => ~isRunning)
        BY DEF ThreadStep, Quit, Advance, Capture, CaptureFails, Notify, CallbackReturns,
               Live, TypeOK
    <2>2. \A u \in Tids : tpc'[u] # "none" => u = thread
        BY <1>1 DEF ThreadIsTheOne, TypeOK
    <2>3. tpc'[t] # "none"
        BY <1>1 DEF TypeOK
    <2>. QED BY <1>1, <2>1, <2>2, <2>3 DEF ThreadIsTheOne, Live
<1>5. CallsAreInside(o)'
    BY <1>1 DEF CallsAreInside
<1>. QED BY <1>2, <1>3, <1>4, <1>5

(* The owner's own steps: the calls it enters, ...                         *)
LEMMA OwnerEnters ==
    ASSUME NEW o \in Clients, Owns(o), TypeOK, OwnerInvariant(o),
           \/ Create(o) \/ Subscribe(o)
           \/ CallStart(o) \/ CallStop(o) \/ CallGet(o) \/ CallDestroy(o)
    PROVE  OwnerInvariant(o)'
<1>. USE DEF OwnerInvariant, ring, field, caller, history
<1>1. o \in Callers /\ o \notin Tids
    BY SamplerAssumption DEF Callers
<1>2. CASE Subscribe(o)
    BY <1>2 DEF Subscribe, OthersRead, LockMeansCapture, ThreadIsTheOne, CallsAreInside, Live
<1>3. CASE Create(o)
    <2>1. /\ ~exists /\ exists' /\ ~isRunning /\ ~isRunning' /\ lock' = NoThread
          /\ thread' = thread /\ tpc' = tpc /\ target' = target
          /\ \/ cpc' = cpc /\ call' = call
             \/ /\ cpc' = [cpc EXCEPT ![o] = "start"]
                /\ call' = [call EXCEPT ![o] = "launch"]
          /\ \A c \in Callers : cpc[c] = "idle"
        BY <1>3 DEF Create, Goto, CallsAreInside
    <2>2. \A t \in Tids : tpc[t] = "none"
        BY <1>1, <2>1 DEF ThreadIsTheOne
    <2>3. OthersRead(o)'
        BY <1>1, <2>1 DEF OthersRead, TypeOK, Callers
    <2>4. LockMeansCapture'
        BY <2>1, <2>2, SamplerAssumption DEF LockMeansCapture
    <2>5. ThreadIsTheOne(o)'
        BY <1>1, <2>1, <2>2 DEF ThreadIsTheOne, TypeOK
    <2>6. CallsAreInside(o)'
        BY <1>1, <2>1 DEF CallsAreInside, TypeOK, Callers
    <2>. QED BY <2>3, <2>4, <2>5, <2>6
<1>4. CASE CallStart(o) \/ CallStop(o) \/ CallGet(o) \/ CallDestroy(o)
    <2>1. PICK p \in {"start", "stop", "get"}, a \in {"start", "stop", "get", "destroy"} :
              /\ cpc' = [cpc EXCEPT ![o] = p] /\ call' = [call EXCEPT ![o] = a]
              /\ p = "start" => a = "start"
              /\ p = "stop" => a \in {"stop", "destroy"}
              /\ a = "destroy" => \A d \in Clients : cpc[d] = "idle"
        BY <1>4 DEF CallStart, CallStop, CallGet, CallDestroy, Enter, Goto
    <2>2. /\ UNCHANGED <<exists, isRunning, thread, lock, tpc, target>>
          /\ exists /\ cpc[o] = "idle"
        BY <1>4 DEF CallStart, CallStop, CallGet, CallDestroy, Enter, MayCall
    <2>3. cpc'[o] = p /\ call'[o] = a /\ \A c \in Callers \ {o} : cpc'[c] = cpc[c] /\ call'[c] = call[c]
        BY <1>1, <2>1 DEF TypeOK
    <2>4. OthersRead(o)'
        BY <1>1, <2>2, <2>3 DEF OthersRead, Callers
    <2>5. LockMeansCapture'
        BY <2>2 DEF LockMeansCapture
    <2>6. ThreadIsTheOne(o)'
        BY <2>2, <2>3 DEF ThreadIsTheOne, Live
    <2>7. CallsAreInside(o)'
        BY <1>1, <2>1, <2>2, <2>3 DEF CallsAreInside, Callers
    <2>. QED BY <2>4, <2>5, <2>6, <2>7
<1>. QED BY <1>2, <1>3, <1>4

(* ... the critical sections of start, stop and get_value, ...             *)
LEMMA OwnerLocks ==
    ASSUME NEW o \in Clients, Owns(o), TypeOK, OwnerInvariant(o),
           \/ StartAgain(o) \/ Start(o) \/ StartFails(o) \/ Stop(o) \/ StopAgain(o)
           \/ \E w \in Windows : Get(o, w)
    PROVE  OwnerInvariant(o)'
<1>. USE DEF OwnerInvariant, ring, field, caller, history
<1>1. o \in Callers /\ o \notin Tids
    BY SamplerAssumption DEF Callers
<1>2. /\ exists' = exists /\ lock' = lock /\ target' = target /\ lock = NoThread
      /\ cpc[o] \in {"start", "stop", "get"}
    BY DEF StartAgain, Start, StartFails, Stop, StopAgain, Get, Unlocked
<1>3. exists /\ \A t \in Tids : tpc[t] # "capture"
    BY <1>1, <1>2, SamplerAssumption DEF CallsAreInside, LockMeansCapture
<1>4. /\ \A c \in Callers \ {o} : cpc'[c] = cpc[c] /\ call'[c] = call[c]
      /\ \/ cpc'[o] = "idle"
         \/ cpc'[o] \in {"stop", "join", "free"} /\ call'[o] = call[o]
    BY <1>1 DEF StartAgain, Start, StartFails, Stop, StopAgain, Get, Return, AfterStop, Goto, TypeOK
<1>5. OthersRead(o)'
    <2>1. \A c \in Callers \ {o} : cpc'[c] \in {"idle", "get"} /\ call'[c] \in {"none", "get"}
        BY <1>4 DEF OthersRead
    <2>2. ASSUME NEW t \in Tids, cpc'[t] = "get" PROVE tpc'[t] = "callback"
        <3>1. cpc[t] = "get" /\ tpc[t] = "callback"
            BY <1>1, <1>4, <2>2 DEF OthersRead, Callers
        <3>. QED BY <3>1 DEF StartAgain, Start, StartFails, Stop, StopAgain, Get, TypeOK
    <2>. QED BY <2>1, <2>2 DEF OthersRead
<1>6. LockMeansCapture'
    <2>1. \A t \in Tids : tpc'[t] # "capture"
        BY <1>3 DEF StartAgain, Start, StartFails, Stop, StopAgain, Get, TypeOK
    <2>. QED BY <1>2, <2>1, SamplerAssumption DEF LockMeansCapture
<1>7. ThreadIsTheOne(o)'
    <2>1. CASE Start(o)
        <3>1. PICK t \in Tids : /\ tpc[t] = "none" /\ isRunning' /\ thread' = t
                                /\ tpc' = [tpc EXCEPT ![t] = "due"]
                                /\ cpc[o] = "start" /\ ~isRunning /\ cpc'[o] = "idle"
            BY <1>1, <2>1 DEF Start, Return, TypeOK
        <3>2. \A u \in Tids : tpc[u] = "none"
            BY <3>1 DEF ThreadIsTheOne
        <3>. QED BY <1>1, <3>1, <3>2 DEF ThreadIsTheOne, Live, TypeOK
    <2>2. CASE Stop(o)
        BY <1>1, <1>2, <2>2 DEF Stop, Goto, ThreadIsTheOne, Live, TypeOK
    <2>3. CASE StartAgain(o) \/ StopAgain(o) \/ \E w \in Windows : Get(o, w)
        <3>1. /\ UNCHANGED <<isRunning, thread, tpc, target>>
              /\ cpc'[o] \notin {"join", "joining"}
            BY <1>1, <2>3
               DEF StartAgain, StopAgain, Get, Return, AfterStop, Goto, TypeOK
        <3>2. cpc[o] \notin {"join", "joining"}
            BY <1>2
        <3>. QED BY <3>1, <3>2 DEF ThreadIsTheOne, Live
    <2>4. CASE StartFails(o)
        <3>1. /\ UNCHANGED <<isRunning, tpc, target>> /\ ~isRunning
              /\ cpc[o] = "start" /\ cpc'[o] \notin {"join", "joining"}
            BY <1>1, <2>4 DEF StartFails, Return, Goto, TypeOK
        <3>2. \A t \in Tids : tpc[t] = "none"
            BY <3>1 DEF ThreadIsTheOne
        <3>. QED BY <3>1, <3>2 DEF ThreadIsTheOne, Live
    <2>. QED BY <2>1, <2>2, <2>3, <2>4
<1>8. CallsAreInside(o)'
    <2>1. cpc'[o] = "free" => ~isRunning' /\ call[o] \in {"launch", "destroy"}
        BY <1>1, <1>2 DEF StartAgain, Start, StartFails, Stop, StopAgain, Get, Return, AfterStop, Goto,
                    CallsAreInside, TypeOK
    <2>2. cpc'[o] \in {"stop", "join"} => call[o] \in {"stop", "launch", "destroy"}
        BY <1>1, <1>2 DEF StartAgain, Start, StartFails, Stop, StopAgain, Get, Return, AfterStop, Goto,
                    CallsAreInside, TypeOK
    <2>3. cpc'[o] \notin {"idle"} => cpc[o] # "get"
        BY <1>1 DEF StartAgain, Start, StartFails, Stop, StopAgain, Get, Return, AfterStop, Goto, TypeOK
    <2>. QED BY <1>1, <1>2, <1>3, <1>4, <2>1, <2>2, <2>3 DEF CallsAreInside, Callers
<1>. QED BY <1>5, <1>6, <1>7, <1>8

(* ... and the join and the free, after which no thread is left.           *)
LEMMA OwnerJoins ==
    ASSUME NEW o \in Clients, Owns(o), TypeOK, OwnerInvariant(o),
           Join(o) \/ JoinFails(o) \/ Joined(o) \/ Free(o)
    PROVE  OwnerInvariant(o)'
<1>. USE DEF OwnerInvariant, ring, field, caller, history
<1>1. o \in Callers /\ o \notin Tids
    BY SamplerAssumption DEF Callers
<1>2. CASE Join(o) \/ JoinFails(o)
    <2>1. cpc[o] = "join"
        BY <1>2 DEF Join, JoinFails
    <2>2. Joinable(o, thread)
        BY <1>1, <2>1 DEF Joinable, ThreadIsTheOne, OthersRead
    <2>3. /\ cpc' = [cpc EXCEPT ![o] = "joining"] /\ target' = [target EXCEPT ![o] = thread]
          /\ UNCHANGED <<exists, isRunning, thread, lock, tpc, call>>
        BY <1>2, <2>2 DEF Join, JoinFails, Goto
    <2>4. OthersRead(o)' /\ LockMeansCapture'
        BY <1>1, <2>3 DEF OthersRead, LockMeansCapture, TypeOK, Callers
    <2>5. ThreadIsTheOne(o)'
        BY <1>1, <2>1, <2>3 DEF ThreadIsTheOne, Live, TypeOK
    <2>6. CallsAreInside(o)'
        BY <1>1, <2>1, <2>3 DEF CallsAreInside, TypeOK, Callers
    <2>. QED BY <2>4, <2>5, <2>6
<1>3. CASE Joined(o)
    <2>1. /\ cpc[o] = "joining" /\ target[o] = thread /\ thread \in Tids /\ ~isRunning
          /\ tpc[thread] = "exited" /\ tpc' = [tpc EXCEPT ![thread] = "none"]
          /\ UNCHANGED <<exists, isRunning, thread, lock>>
        BY <1>3 DEF Joined, ThreadIsTheOne
    <2>2. /\ \A c \in Callers \ {o} : cpc'[c] = cpc[c] /\ call'[c] = call[c]
          /\ \/ cpc'[o] = "idle"
             \/ cpc'[o] = "free" /\ call'[o] = call[o] /\ call[o] \in {"launch", "destroy"}
        BY <1>1, <1>3, <2>1 DEF Joined, AfterStop, Return, Goto, CallsAreInside, TypeOK
    <2>3. \A t \in Tids : tpc'[t] = "none"
        BY <2>1 DEF ThreadIsTheOne, TypeOK
    <2>4. \A t \in Tids : cpc[t] # "get"
        BY <2>1 DEF OthersRead, ThreadIsTheOne
    <2>5. OthersRead(o)'
        BY <1>1, <2>2, <2>4 DEF OthersRead, Callers
    <2>6. LockMeansCapture'
        BY <2>1, <2>3, SamplerAssumption DEF LockMeansCapture, TypeOK
    <2>7. ThreadIsTheOne(o)'
        BY <2>1, <2>2, <2>3 DEF ThreadIsTheOne
    <2>8. CallsAreInside(o)'
        BY <1>1, <2>1, <2>2 DEF CallsAreInside, Callers
    <2>. QED BY <2>5, <2>6, <2>7, <2>8
<1>4. CASE Free(o)
    <2>1. /\ cpc[o] = "free" /\ ~isRunning /\ UNCHANGED <<isRunning, thread, lock, tpc, target>>
          /\ cpc' = [cpc EXCEPT ![o] = "idle"] /\ call' = [call EXCEPT ![o] = "none"]
        BY <1>4 DEF Free, Return, CallsAreInside
    <2>2. \A t \in Tids : tpc[t] = "none"
        BY <2>1 DEF ThreadIsTheOne
    <2>3. \A c \in Callers \ {o} : cpc[c] = "idle"
        BY <1>1, <2>1, <2>2 DEF OthersRead, CallsAreInside, Callers
    <2>4. OthersRead(o)' /\ LockMeansCapture'
        BY <1>1, <2>1, <2>3 DEF OthersRead, LockMeansCapture, TypeOK
    <2>5. ThreadIsTheOne(o)'
        BY <1>1, <2>1, <2>2 DEF ThreadIsTheOne, TypeOK
    <2>6. CallsAreInside(o)'
        BY <1>1, <2>1, <2>3 DEF CallsAreInside, TypeOK
    <2>. QED BY <2>4, <2>5, <2>6
<1>. QED BY <1>2, <1>3, <1>4

LEMMA OwnerInductive ==
    ASSUME NEW o, Owns(o) PROVE Spec => []OwnerInvariant(o)
<1>. o \in Clients
    BY DEF Owns
<1>1. Init => OwnerInvariant(o)
    BY SamplerAssumption
       DEF Init, OwnerInvariant, OthersRead, LockMeansCapture, ThreadIsTheOne, CallsAreInside, Callers
<1>2. TypeOK /\ OwnerInvariant(o) /\ [Next]_vars => OwnerInvariant(o)'
    <2>. SUFFICES ASSUME TypeOK, OwnerInvariant(o), [Next]_vars PROVE OwnerInvariant(o)'
        OBVIOUS
    <2>1. ASSUME NEW t \in Tids, ThreadStep(t) PROVE OwnerInvariant(o)'
        BY <2>1, ThreadStepInvariant
    <2>2. ASSUME NEW c \in Callers, CallerStep(c) PROVE OwnerInvariant(o)'
        <3>1. CASE c # o
            BY <2>2, <3>1, OtherStepInvariant
        <3>2. CASE c = o
            BY <2>2, <3>2, OwnerEnters, OwnerLocks, OwnerJoins DEF CallerStep
        <3>. QED BY <3>1, <3>2
    <2>3. CASE UNCHANGED vars
        BY <2>3 DEF vars, OwnerInvariant, OthersRead, LockMeansCapture, ThreadIsTheOne,
                    CallsAreInside, Live
    <2>. QED BY <2>1, <2>2, <2>3, NextSteps
<1>. QED BY TypeCorrect, <1>1, <1>2, PTL DEF Spec

(* With one owner, and readers and a callback that only read, there is     *)
(* never a second sampler thread, however the owner starts and stops.      *)
THEOREM OneSamplerCorrect ==
    ASSUME NEW o, Owns(o) PROVE Spec => []OneSampler
<1>1. OwnerInvariant(o) => OneSampler
    BY DEF OwnerInvariant, ThreadIsTheOne, OneSampler, Live
<1>. QED BY OwnerInductive, <1>1, PTL

(* With one owner, destroy never frees the struct under a sampler thread   *)
(* or a reader, nor destroys a mutex that is held.                         *)
THEOREM NoUseAfterFreeCorrect ==
    ASSUME NEW o, Owns(o) PROVE Spec => []NoUseAfterFree
<1>1. TypeOK /\ OwnerInvariant(o) => NoUseAfterFree
    <2>. SUFFICES ASSUME TypeOK, OwnerInvariant(o), ~exists PROVE NoUseAfterFree
        BY DEF NoUseAfterFree
    <2>1. ~isRunning /\ \A c \in Callers : cpc[c] = "idle"
        BY DEF OwnerInvariant, CallsAreInside
    <2>2. \A t \in Tids : tpc[t] = "none"
        BY <2>1 DEF OwnerInvariant, ThreadIsTheOne, Callers, Owns
    <2>3. Unlocked
        BY <2>2 DEF OwnerInvariant, LockMeansCapture, Unlocked, TypeOK
    <2>. QED BY <2>1, <2>2, <2>3 DEF NoUseAfterFree, Live
<1>. QED BY OwnerInductive, TypeCorrect, <1>1, PTL

(* With one owner, is_running between the owner's calls says whether the   *)
(* sampler thread exists, and a stopped sampler has left none behind.      *)
THEOREM FlagCorrect ==
    ASSUME NEW o, Owns(o) PROVE Spec => []FlagTellsTheTruth
<1>1. OwnerInvariant(o) => FlagTellsTheTruth
    BY DEF OwnerInvariant, ThreadIsTheOne, FlagTellsTheTruth, Callers, Owns
<1>. QED BY OwnerInductive, <1>1, PTL

-----------------------------------------------------------------------------
(* What readers and the callback see in the ring, with one owner. *)

(* While a capture is under way, the slot it writes to holds the sample of *)
(* a round of the ring ago.                                                *)
OpenedIsARoundOld ==
    lag[head] + Capacity < MaxLag =>
        slots[head] = (tick + TickMod - (lag[head] + Capacity)) % TickMod

(* The slot of every offset below the count holds its tick, except that of *)
(* the capture that is under way; slots not advanced to have no sample.    *)
WindowInv ==
    /\ \A k \in 0..(count - 1) : k > 0 \/ Unlocked => HoldsItsTick(k)
    /\ ~Unlocked => OpenedIsARoundOld
    /\ count < Capacity => /\ head = IF count = 0 THEN 0 ELSE count - 1
                           /\ \A s \in Ring!Slot : s >= count => lag[s] = MaxLag

LEMMA WindowTypes ==
    ASSUME TypeOK
    PROVE  /\ Capacity \in Nat \ {0} /\ TickMod \in Nat \ {0} /\ MaxLag \in Nat \ {0, 1}
           /\ Capacity + MaxLag - 1 <= TickMod
           /\ head \in 0..(Capacity - 1) /\ count \in 0..Capacity /\ tick \in 0..(TickMod - 1)
           /\ slots \in [0..(Capacity - 1) -> Sample] /\ lag \in [0..(Capacity - 1) -> 0..MaxLag]
           /\ Ring!Slot = 0..(Capacity - 1)
BY SamplerAssumption DEF TypeOK, Ring!TypeOK, Ring!Slot, Tick

(* Offset 0 is the head, the last offset the slot that is advanced to next. *)
LEMMA EndsOfWindow ==
    ASSUME TypeOK
    PROVE  /\ Ring!PeekSlot(0) = head
           /\ Ring!PeekSlot(Capacity - 1) = (head + 1) % Capacity
           /\ (tick + TickMod - 0) % TickMod = tick
<1>1. ASSUME NEW n \in Nat \ {0}, NEW h \in 0..(n - 1) PROVE (h + n - 0) % n = h
    <2>1. PICK q \in Nat : q = 1
        OBVIOUS
    <2>2. h + n - 0 = (q * n) + h
        BY <2>1
    <2>3. ((q * n) + h) % n = h
        BY ModIs, Zenon
    <2>. QED BY <2>2, <2>3, Zenon
<1>2. /\ Capacity \in Nat \ {0} /\ head \in 0..(Capacity - 1)
      /\ TickMod \in Nat \ {0} /\ tick \in 0..(TickMod - 1)
    BY WindowTypes
<1>3. head + Capacity - (Capacity - 1) = head + 1
    BY <1>2
<1>. QED BY <1>1, <1>2, <1>3, Zenon DEF Ring!PeekSlot

(* A capture later, a sample is one interval older. *)
LEMMA OneTickLater ==
    ASSUME TypeOK, NEW age \in 0..(Capacity + MaxLag - 3)
    PROVE  (((tick + 1) % TickMod) + TickMod - (age + 1)) % TickMod = (tick + TickMod - age) % TickMod
<1>1. TickMod \in Nat \ {0} /\ tick \in 0..(TickMod - 1) /\ age \in 0..(TickMod - 2)
    BY WindowTypes
<1>. QED BY <1>1, ShiftedIndex

LEMMA AdvanceWindow ==
    ASSUME TypeOK, WindowInv, NEW t \in Tids, Advance(t) PROVE WindowInv'
<1>1. /\ Capacity \in Nat \ {0} /\ TickMod \in Nat \ {0} /\ MaxLag \in Nat \ {0, 1}
      /\ Capacity + MaxLag - 1 <= TickMod
      /\ head \in 0..(Capacity - 1) /\ count \in 0..Capacity /\ tick \in 0..(TickMod - 1)
      /\ lag \in [0..(Capacity - 1) -> 0..MaxLag] /\ Ring!Slot = 0..(Capacity - 1)
    BY WindowTypes
<1>2. /\ Unlocked /\ ~Unlocked' /\ slots' = slots /\ lag' = lag
      /\ head' = (IF count > 0 THEN (head + 1) % Capacity ELSE head)
      /\ count' = (IF count < Capacity THEN count + 1 ELSE count)
      /\ tick' = (tick + 1) % TickMod
    BY SamplerAssumption DEF Advance, Ring!Advance, Unlocked, history
<1>3. ASSUME NEW k \in 0..(count' - 1), k > 0 PROVE HoldsItsTick(k)'
    <2>1. PICK j \in 0..(Capacity - 2) : k = j + 1 /\ j \in 0..(count - 1)
        BY <1>1, <1>2, <1>3
    <2>2. HoldsItsTick(j)
        BY <1>2, <2>1 DEF WindowInv
    <2>3. (head' + Capacity - k) % Capacity = (head + Capacity - j) % Capacity
        <3>1. count > 0 /\ head' = (head + 1) % Capacity
            BY <1>1, <1>2, <2>1
        <3>2. Capacity \in Nat \ {0} /\ head \in 0..(Capacity - 1)
            BY <1>1
        <3>3. (((head + 1) % Capacity) + Capacity - (j + 1)) % Capacity = (head + Capacity - j) % Capacity
            BY <3>2, ShiftedIndex
        <3>. QED BY <2>1, <3>1, <3>3
    <2>. DEFINE s == Ring!PeekSlot(j)
    <2>4. s \in 0..(Capacity - 1) /\ lag[s] \in 0..MaxLag
        <3>1. head + Capacity - j \in Nat
            BY <1>1, <2>1
        <3>2. (head + Capacity - j) % Capacity \in 0..(Capacity - 1)
            BY <1>1, <3>1, ModFacts
        <3>. QED BY <1>1, <3>2 DEF Ring!PeekSlot
    <2>5. ASSUME lag[s] < MaxLag
          PROVE  (tick' + TickMod - (k + lag[s])) % TickMod = (tick + TickMod - (j + lag[s])) % TickMod
        <3>. DEFINE age == j + lag[s]
        <3>. HIDE DEF s
        <3>1. age \in 0..(Capacity + MaxLag - 3) /\ k + lag[s] = age + 1
            <4>1. PICK l \in 0..(MaxLag - 1) : l = lag[s]
                BY <1>1, <2>4, <2>5
            <4>2. /\ j + l \in 0..(Capacity + MaxLag - 3)
                  /\ (j + 1) + l = (j + l) + 1
                <5>1. Capacity \in Nat /\ MaxLag \in Nat
                    BY SamplerAssumption
                <5>. QED BY <5>1
            <4>. QED BY <2>1, <4>1, <4>2
        <3>. HIDE DEF age
        <3>2. (tick' + TickMod - (age + 1)) % TickMod = (tick + TickMod - age) % TickMod
            BY <1>2, <3>1, OneTickLater
        <3>. QED BY <3>1, <3>2 DEF age
    <2>6. Ring!PeekSlot(k)' = s
        BY <2>3 DEF Ring!PeekSlot
    <2>. QED BY <1>2, <2>2, <2>5, <2>6 DEF HoldsItsTick
<1>4. OpenedIsARoundOld'
    <2>1. CASE count < Capacity
        <3>1. head' \in Ring!Slot /\ head' >= count
            <4>1. CASE count = 0
                BY <1>1, <1>2, <2>1, <4>1 DEF WindowInv
            <4>2. CASE count > 0
                <5>1. head = count - 1
                    BY <2>1, <4>2 DEF WindowInv
                <5>2. head + 1 = count /\ count \in 0..(Capacity - 1)
                    BY <1>1, <2>1, <5>1
                <5>3. count % Capacity = count
                    BY <1>1, <5>2, ModSmall
                <5>. QED BY <1>1, <1>2, <4>2, <5>2, <5>3
            <4>. QED BY <1>1, <4>1, <4>2
        <3>2. lag'[head'] = MaxLag
            BY <1>2, <2>1, <3>1 DEF WindowInv
        <3>. QED BY <1>1, <3>2 DEF OpenedIsARoundOld
    <2>2. CASE count = Capacity
        <3>1. head' = (head + 1) % Capacity /\ HoldsItsTick(Capacity - 1)
            BY <1>1, <1>2, <2>2 DEF WindowInv
        <3>2. Ring!PeekSlot(Capacity - 1) = head'
            BY <3>1, EndsOfWindow
        <3>. DEFINE l == lag[head']
        <3>3. l \in 0..MaxLag
            <4>1. (head + 1) % Capacity \in 0..(Capacity - 1)
                BY <1>1, Arithmetic
            <4>. QED BY <1>1, <3>1, <4>1
        <3>4. l < MaxLag => slots[head'] = (tick + TickMod - ((Capacity - 1) + l)) % TickMod
            BY <3>1, <3>2 DEF HoldsItsTick
        <3>. SUFFICES ASSUME l + Capacity < MaxLag
                      PROVE  slots[head'] = (tick' + TickMod - (l + Capacity)) % TickMod
            BY <1>2 DEF OpenedIsARoundOld
        <3>. DEFINE age == (Capacity - 1) + l
        <3>. HIDE DEF l
        <3>5. age \in 0..(Capacity + MaxLag - 3) /\ l + Capacity = age + 1 /\ l < MaxLag
            BY <1>1, <3>3
        <3>6. slots[head'] = (tick + TickMod - age) % TickMod
            BY <3>4, <3>5
        <3>. HIDE DEF age
        <3>7. (tick' + TickMod - (age + 1)) % TickMod = (tick + TickMod - age) % TickMod
            BY <1>2, <3>5, OneTickLater
        <3>. QED BY <3>5, <3>6, <3>7
    <2>. QED BY <1>1, <2>1, <2>2
<1>5. ASSUME count' < Capacity
      PROVE  /\ head' = count' - 1 /\ count' # 0
             /\ \A s \in Ring!Slot : s >= count' => lag'[s] = MaxLag
    <2>1. count < Capacity /\ count' = count + 1
        BY <1>1, <1>2, <1>5
    <2>2. head = (IF count = 0 THEN 0 ELSE count - 1)
          /\ \A s \in Ring!Slot : s >= count => lag[s] = MaxLag
        BY <2>1 DEF WindowInv
    <2>3. head' = count
        <3>1. CASE count = 0
            BY <1>1, <1>2, <2>2, <3>1
        <3>2. CASE count > 0
            <4>1. head + 1 = count /\ count \in 0..(Capacity - 1)
                BY <1>1, <2>1, <2>2, <3>2
            <4>2. count % Capacity = count
                BY <1>1, <4>1, ModSmall
            <4>. QED BY <1>2, <3>2, <4>1, <4>2
        <3>. QED BY <1>1, <3>1, <3>2
    <2>. QED BY <1>1, <1>2, <2>1, <2>2, <2>3
<1>. QED BY <1>2, <1>3, <1>4, <1>5 DEF WindowInv

LEMMA CaptureWindow ==
    ASSUME TypeOK, WindowInv, ~Unlocked, NEW t \in Tids, Capture(t) \/ CaptureFails(t)
    PROVE  WindowInv'
<1>1. /\ Capacity \in Nat \ {0} /\ MaxLag \in Nat \ {0, 1}
      /\ head \in 0..(Capacity - 1) /\ count \in 0..Capacity
      /\ slots \in [0..(Capacity - 1) -> Sample] /\ lag \in [0..(Capacity - 1) -> 0..MaxLag]
      /\ Ring!Slot = 0..(Capacity - 1)
    BY WindowTypes
<1>2. /\ head' = head /\ count' = count /\ tick' = tick /\ Unlocked'
      /\ \/ slots' = [slots EXCEPT ![head] = tick] /\ lag' = [lag EXCEPT ![head] = 0]
         \/ slots' = slots /\ lag' = OneRoundLater
    BY DEF Capture, CaptureFails, Ring!Store, ring, Unlocked
<1>3. \A s \in Ring!Slot \ {head} : slots'[s] = slots[s] /\ lag'[s] = lag[s]
    BY <1>1, <1>2 DEF OneRoundLater
<1>4. HoldsItsTick(0)'
    <2>1. Ring!PeekSlot(0)' = head
        BY <1>2, EndsOfWindow DEF Ring!PeekSlot
    <2>2. CASE slots' = [slots EXCEPT ![head] = tick] /\ lag' = [lag EXCEPT ![head] = 0]
        <3>1. slots'[head] = tick /\ lag'[head] = 0
            BY <1>1, <2>2
        <3>. QED BY <1>2, <2>1, <3>1, EndsOfWindow DEF HoldsItsTick
    <2>3. CASE slots' = slots /\ lag' = OneRoundLater
        <3>1. lag[head] \in 0..MaxLag
              /\ lag'[head] = IF lag[head] + Capacity < MaxLag THEN lag[head] + Capacity ELSE MaxLag
            BY <1>1, <2>3 DEF OneRoundLater
        <3>2. lag'[head] < MaxLag =>
                 slots[head] = (tick + TickMod - (0 + lag'[head])) % TickMod
            BY <1>1, <3>1 DEF WindowInv, OpenedIsARoundOld
        <3>. QED BY <1>2, <2>1, <2>3, <3>2 DEF HoldsItsTick
    <2>. QED BY <1>2, <2>2, <2>3
<1>5. ASSUME NEW k \in 0..(count - 1), k > 0 PROVE HoldsItsTick(k)'
    <2>1. HoldsItsTick(k)
        BY <1>5 DEF WindowInv
    <2>2. Ring!PeekSlot(k) \in Ring!Slot \ {head}
        <3>1. Ring!PeekSlot(k) # head
            <4>1. Capacity \in Nat \ {0} /\ head \in 0..(Capacity - 1) /\ k \in 1..(Capacity - 1)
                BY <1>1, <1>5
            <4>. QED BY <4>1, OffsetsDiffer DEF Ring!PeekSlot
        <3>2. head + Capacity - k \in Nat
            BY <1>1, <1>5
        <3>3. (head + Capacity - k) % Capacity \in 0..(Capacity - 1)
            BY <1>1, <3>2, ModFacts
        <3>. QED BY <1>1, <3>1, <3>3 DEF Ring!PeekSlot
    <2>. QED BY <1>2, <1>3, <2>1, <2>2 DEF HoldsItsTick, Ring!PeekSlot
<1>6. ASSUME count < Capacity, NEW s \in Ring!Slot, s >= count
      PROVE  lag'[s] = MaxLag
    <2>1. count > 0 \/ lag' = OneRoundLater
        BY DEF Capture, CaptureFails, Ring!Store
    <2>2. lag[s] = MaxLag /\ head = (IF count = 0 THEN 0 ELSE count - 1)
        BY <1>6 DEF WindowInv
    <2>3. CASE s # head
        BY <1>3, <2>2, <2>3
    <2>4. CASE s = head
        <3>1. lag' = OneRoundLater
            BY <1>1, <1>6, <2>1, <2>2, <2>4
        <3>. QED BY <1>1, <2>2, <2>4, <3>1 DEF OneRoundLater
    <2>. QED BY <2>3, <2>4
<1>7. \A k \in 0..(count - 1) : HoldsItsTick(k)'
    BY <1>1, <1>4, <1>5
<1>. QED BY <1>2, <1>6, <1>7 DEF WindowInv

SeenInv == WindowInv /\ NotifiedSampleIsLatest

(* Of the callers, only create touches the ring. *)
LEMMA RingStays ==
    ASSUME TypeOK, NEW c \in Callers, CallerStep(c), ~(c \in Clients /\ Create(c))
    PROVE  /\ head' = head /\ count' = count /\ slots' = slots
           /\ tick' = tick /\ lag' = lag /\ lock' = lock
           /\ \A t \in Tids : tpc'[t] \in {"notify", "callback"} => tpc'[t] = tpc[t]
<1>. USE DEF ring, field, caller, history
<1>1. CASE CallStart(c) \/ CallStop(c) \/ CallGet(c) \/ CallDestroy(c)
    BY <1>1 DEF CallStart, CallStop, CallGet, CallDestroy, Enter
<1>2. CASE Subscribe(c) \/ StartAgain(c) \/ StartFails(c) \/ Stop(c) \/ StopAgain(c)
    BY <1>2 DEF Subscribe, StartAgain, StartFails, Stop, StopAgain
<1>3. CASE Start(c)
    <2>1. PICK t \in Tids : tpc' = [tpc EXCEPT ![t] = "due"]
        BY <1>3 DEF Start
    <2>. QED BY <1>3, <2>1 DEF Start, TypeOK
<1>4. CASE Joined(c)
    BY <1>4 DEF Joined, TypeOK
<1>5. CASE Join(c) \/ JoinFails(c) \/ Free(c) \/ \E w \in Windows : Get(c, w)
    BY <1>5 DEF Join, JoinFails, Free, Get
<1>. QED BY <1>1, <1>2, <1>3, <1>4, <1>5 DEF CallerStep

LEMMA SeenStays ==
    ASSUME SeenInv, head' = head, count' = count, slots' = slots, tick' = tick, lag' = lag,
           lock' = lock,
           \A t \in Tids : tpc'[t] \in {"notify", "callback"} => tpc'[t] = tpc[t]
    PROVE  SeenInv'
<1>1. WindowInv'
    BY DEF SeenInv, WindowInv, OpenedIsARoundOld, Unlocked, HoldsItsTick, Ring!PeekSlot
<1>. QED BY <1>1 DEF SeenInv, NotifiedSampleIsLatest

LEMMA SeenInductive ==
    ASSUME NEW o \in Clients, Owns(o), TypeOK, OwnerInvariant(o), SeenInv, [Next]_vars
    PROVE  SeenInv'
<1>. USE DEF ring, field, caller, history
<1>1. ASSUME NEW c \in Callers, CallerStep(c), ~(c \in Clients /\ Create(c)) PROVE SeenInv'
    BY <1>1, RingStays, SeenStays
<1>2. ASSUME NEW c \in Clients, Create(c) PROVE SeenInv'
    <2>1. \A t \in Tids : tpc[t] = "none"
        BY <1>2 DEF Create, OwnerInvariant, CallsAreInside, ThreadIsTheOne, Callers
    <2>2. /\ count' = 0 /\ head' = 0 /\ tpc' = tpc /\ Unlocked'
          /\ lag' = [s \in Ring!Slot |-> MaxLag]
        BY <1>2 DEF Create, Unlocked
    <2>3. WindowInv'
        BY <2>2 DEF WindowInv
    <2>. QED BY <2>1, <2>2, <2>3 DEF SeenInv, NotifiedSampleIsLatest
<1>3. ASSUME NEW t \in Tids, Quit(t) \/ CallbackReturns(t) PROVE SeenInv'
    BY <1>3, SeenStays DEF Quit, CallbackReturns, TypeOK
<1>4. ASSUME NEW t \in Tids, Notify(t) PROVE SeenInv'
    <2>1. /\ head' = head /\ count' = count /\ slots' = slots /\ tick' = tick /\ lag' = lag
          /\ lock' = lock /\ tpc[t] = "notify"
          /\ \A u \in Tids : tpc'[u] = tpc[u] \/ u = t
        BY <1>4 DEF Notify, TypeOK
    <2>2. WindowInv'
        BY <2>1 DEF SeenInv, WindowInv, OpenedIsARoundOld, Unlocked, HoldsItsTick, Ring!PeekSlot
    <2>. QED BY <2>1, <2>2 DEF SeenInv, NotifiedSampleIsLatest
<1>5. ASSUME NEW t \in Tids, Advance(t) \/ Capture(t) \/ CaptureFails(t) PROVE SeenInv'
    <2>0. Capture(t) \/ CaptureFails(t) => ~Unlocked
        BY SamplerAssumption
           DEF Capture, CaptureFails, OwnerInvariant, LockMeansCapture, Unlocked
    <2>1. WindowInv'
        BY <1>5, <2>0, AdvanceWindow, CaptureWindow DEF SeenInv
    <2>2. \A u \in Tids \ {t} : tpc[u] = "none"
        BY <1>5 DEF Advance, Capture, CaptureFails, OwnerInvariant, ThreadIsTheOne
    <2>3. ASSUME NEW u \in Tids, tpc'[u] \in {"notify", "callback"}
          PROVE  u = t /\ Capture(t)
        BY <1>5, <2>2, <2>3 DEF Advance, Capture, CaptureFails, TypeOK
    <2>4. Capture(t) => lag'[head'] = 0 /\ slots'[head'] = tick'
        BY DEF Capture, Ring!Store, TypeOK, Ring!TypeOK
    <2>. QED BY <2>1, <2>3, <2>4 DEF SeenInv, NotifiedSampleIsLatest
<1>6. CASE UNCHANGED vars
    BY <1>6, SeenStays DEF vars
<1>7. ASSUME NEW t \in Tids, ThreadStep(t) PROVE SeenInv'
    BY <1>3, <1>4, <1>5, <1>7 DEF ThreadStep
<1>8. ASSUME NEW c \in Callers, CallerStep(c) PROVE SeenInv'
    BY <1>1, <1>2, <1>8
<1>. QED BY <1>6, <1>7, <1>8, NextSteps

LEMMA SeenAlways ==
    ASSUME NEW o, Owns(o) PROVE Spec => []SeenInv
<1>. o \in Clients
    BY DEF Owns
<1>1. Init => SeenInv
    BY DEF Init, SeenInv, WindowInv, Ring!Init, NotifiedSampleIsLatest, Unlocked
<1>2. TypeOK /\ OwnerInvariant(o) /\ SeenInv /\ [Next]_vars => SeenInv'
    BY SeenInductive
<1>. QED BY <1>1, <1>2, OwnerInductive, TypeCorrect, PTL DEF Spec

(* When the callback runs, unlocked, the newest item of the ring is still  *)
(* the capture it is told about, whatever the owner does meanwhile.        *)
THEOREM NotifiedSampleCorrect ==
    ASSUME NEW o, Owns(o) PROVE Spec => []NotifiedSampleIsLatest
<1>1. SeenInv => NotifiedSampleIsLatest
    BY DEF SeenInv
<1>. QED BY SeenAlways, <1>1, PTL

(* Of the two samples sampler_get_value compares, each is the capture of   *)
(* its interval, or older by exactly the rounds of the ring for which      *)
(* captures into its slot failed, for every capacity and window.           *)
THEOREM WindowCorrect ==
    ASSUME NEW o, Owns(o) PROVE Spec => ReadersSeeTheWindow
<1>1. TypeOK /\ SeenInv =>
          \A c \in Callers, w \in Windows :
              Get(c, w) /\ Ring!Peekable(w) => HoldsItsTick(0) /\ HoldsItsTick(w)
    <2>. SUFFICES ASSUME TypeOK, SeenInv, NEW c \in Callers, NEW w \in Windows,
                         Get(c, w), Ring!Peekable(w)
                  PROVE  HoldsItsTick(0) /\ HoldsItsTick(w)
        OBVIOUS
    <2>1. count \in Nat /\ w \in Nat \ {0} /\ w < count
        BY SamplerAssumption DEF TypeOK, Ring!TypeOK, Ring!Peekable
    <2>2. 0 \in 0..(count - 1) /\ w \in 0..(count - 1)
        BY <2>1
    <2>. QED BY <2>2 DEF Get, SeenInv, WindowInv
<1>. QED BY SeenAlways, TypeCorrect, <1>1, PTL DEF ReadersSeeTheWindow

-----------------------------------------------------------------------------
(* Any number of controllers, and a callback that may call what it likes.  *)

Joiner(c) == cpc[c] \in {"join", "joining"}
Owning(c) == call[c] \in {"launch", "destroy"}
NoneLeft == \A t \in Tids : tpc[t] = "none"

(* Where callers can be: a sampler thread calls from its callback only;    *)
(* create and destroy have the sampler to themselves among the clients.    *)
CallInv ==
    /\ \A t \in Tids : cpc[t] # "idle" => tpc[t] = "callback"
    /\ \A c \in Callers :
          /\ cpc[c] \in {"stop", "join", "joining"} => call[c] = "stop" \/ Owning(c)
          /\ cpc[c] = "free" => Owning(c)
          /\ Owning(c) => c \in Clients /\ cpc[c] \notin {"idle", "get"}
    /\ \A c, d \in Clients : Owning(c) /\ cpc[d] # "idle" => c = d
    /\ \A c \in Clients : cpc[c] # "idle" => exists

(* As long as no start came between a stop and its join, and no join       *)
(* failed, the thread field names the only sampler thread, one stop at a   *)
(* time is joining it, and without one a clear flag means there is none.   *)
RaceInv ==
    ~Raced =>
        /\ \A t \in Tids : tpc[t] # "none" => t = thread
        /\ ~isRunning /\ ~Stopping => NoneLeft
        /\ \A c \in Callers : Joiner(c) => ~isRunning /\ \A d \in Callers : Joiner(d) => d = c
        /\ \A c \in Callers : cpc[c] = "joining" => target[c] = thread
        /\ \A c \in Callers : cpc[c] = "free" => ~isRunning
        /\ ~exists => ~isRunning

(* If no stop returned early either, what is freed has no thread.          *)
SafeInv ==
    events = {} =>
        /\ LockMeansCapture
        /\ \A c \in Callers : cpc[c] = "free" => NoneLeft
        /\ ~exists => NoneLeft

AnyInv == CallInv /\ RaceInv /\ SafeInv

(* A caller that starts an idle sampler is not overtaken by a free.        *)
LEMMA StartIsAlone ==
    ASSUME CallInv, NoneLeft, NEW c \in Callers, cpc[c] \notin {"idle", "free"}
    PROVE  exists /\ \A d \in Callers : cpc[d] # "free"
<1>1. c \in Clients
    BY DEF CallInv, NoneLeft, Callers
<1>. QED BY <1>1 DEF CallInv

LEMMA CallerMoves ==
    ASSUME TypeOK, NEW c \in Callers, CallerStep(c)
    PROVE  /\ \A d \in Callers \ {c} : cpc'[d] = cpc[d] /\ call'[d] = call[d] /\ target'[d] = target[d]
           /\ events \subseteq events'
<1>. USE DEF ring, field, caller, history, TypeOK
<1>1. CASE \E o \in Calls, p \in CallerAt : Enter(c, o, p)
    BY <1>1 DEF Enter, Goto
<1>2. CASE CallStart(c) \/ CallStop(c) \/ CallGet(c) \/ CallDestroy(c)
    BY <1>1, <1>2 DEF CallStart, CallStop, CallGet, CallDestroy, Calls, CallerAt
<1>3. CASE (c \in Clients /\ Create(c)) \/ Subscribe(c)
    BY <1>3 DEF Create, Subscribe, Goto
<1>4. CASE StartAgain(c) \/ StartFails(c) \/ Stop(c) \/ StopAgain(c)
    BY <1>4 DEF StartAgain, StartFails, Stop, StopAgain, AfterStop, Return, Goto
<1>5. CASE Start(c) \/ \E w \in Windows : Get(c, w)
    BY <1>5 DEF Start, Get, Return
<1>6. CASE Join(c) \/ JoinFails(c) \/ Joined(c) \/ Free(c)
    BY <1>6 DEF Join, JoinFails, Joined, Free, AfterStop, Return, Goto
<1>. QED BY <1>2, <1>3, <1>4, <1>5, <1>6 DEF CallerStep

LEMMA CallerCalls ==
    ASSUME TypeOK, CallInv, NEW c \in Callers, CallerStep(c) PROVE CallInv'
<1>. USE DEF ring, field, caller, history
<1>1. \A t \in Tids : cpc'[t] # "idle" => tpc'[t] = "callback"
    <2>1. ASSUME NEW t \in Tids, cpc'[t] # "idle", ~(cpc[t] = "idle") PROVE tpc[t] = "callback"
        BY <2>1 DEF CallInv
    <2>2. ASSUME NEW t \in Tids, cpc'[t] # "idle", cpc[t] = "idle" PROVE tpc[t] = "callback"
        <3>1. t = c
            BY <2>2, CallerMoves DEF Callers
        <3>. QED BY <2>2, <3>1, SamplerAssumption
             DEF CallerStep, CallStart, CallStop, CallGet, CallDestroy, MayCall, Subscribe,
                 StartAgain, Start, StartFails, Stop, StopAgain, Get, Join, JoinFails, Joined, Free, Callers
    <2>3. ASSUME NEW t \in Tids, tpc[t] = "callback" PROVE tpc'[t] = "callback"
        <3>1. CASE Start(c)
            BY <2>3, <3>1 DEF Start, TypeOK
        <3>2. CASE Joined(c)
            BY <2>3, <3>2 DEF Joined, TypeOK
        <3>3. CASE tpc' = tpc
            BY <2>3, <3>3
        <3>. QED BY <3>1, <3>2, <3>3
             DEF CallerStep, CallStart, CallStop, CallGet, CallDestroy, Enter, Subscribe, Create,
                 StartAgain, StartFails, Stop, StopAgain, Get, Join, JoinFails, Free
    <2>. QED BY <2>1, <2>2, <2>3
<1>2. CASE cpc' = cpc /\ call' = call /\ (exists => exists')
    BY <1>1, <1>2 DEF CallInv, Owning
<1>3. CASE \E o \in Calls, p \in {"start", "stop", "get"} :
              /\ cpc' = [cpc EXCEPT ![c] = p] /\ call' = [call EXCEPT ![c] = o]
              /\ p = "stop" => o \in {"stop", "destroy"}
              /\ o \in {"launch", "destroy"} =>
                    c \in Clients /\ p # "get" /\ \A d \in Clients : cpc[d] = "idle"
              /\ exists' /\ (c \in Clients => ~Owned)
    <2>1. PICK o \in Calls, p \in {"start", "stop", "get"} :
              /\ cpc' = [cpc EXCEPT ![c] = p] /\ call' = [call EXCEPT ![c] = o]
              /\ p = "stop" => o \in {"stop", "destroy"}
              /\ o \in {"launch", "destroy"} =>
                    c \in Clients /\ p # "get" /\ \A d \in Clients : cpc[d] = "idle"
              /\ exists' /\ (c \in Clients => ~Owned)
        BY <1>3
    <2>2. cpc'[c] = p /\ call'[c] = o
        BY <2>1 DEF TypeOK
    <2>3. \A d \in Callers \ {c} : cpc'[d] = cpc[d] /\ call'[d] = call[d]
        BY CallerMoves
    <2>4. \A d \in Callers :
              /\ cpc'[d] \in {"stop", "join", "joining"} => call'[d] \in {"stop", "launch", "destroy"}
              /\ cpc'[d] = "free" => call'[d] \in {"launch", "destroy"}
              /\ call'[d] \in {"launch", "destroy"} => d \in Clients /\ cpc'[d] \notin {"idle", "get"}
        BY <2>1, <2>2, <2>3 DEF CallInv, Owning
    <2>5. \A d, e \in Clients : call'[d] \in {"launch", "destroy"} /\ cpc'[e] # "idle" => d = e
        BY <2>1, <2>2, <2>3 DEF CallInv, Owning, Owned, Callers
    <2>. QED BY <1>1, <2>1, <2>4, <2>5 DEF CallInv, Owning
<1>4. CASE /\ cpc[c] # "idle"
           /\ \/ cpc'[c] = "idle" /\ call'[c] = "none" /\ (exists' = exists \/ cpc[c] = "free")
              \/ /\ cpc'[c] \in {"stop", "join", "joining", "free"} /\ call'[c] = call[c]
                 /\ cpc[c] \in {"start", "stop", "join", "joining"}
                 /\ cpc[c] = "start" => Owning(c)
                 /\ cpc'[c] = "free" => Owning(c)
                 /\ exists' = exists
    <2>1. \A d \in Callers \ {c} : cpc'[d] = cpc[d] /\ call'[d] = call[d]
        BY CallerMoves
    <2>2. \A d \in Callers :
              /\ cpc'[d] \in {"stop", "join", "joining"} => call'[d] \in {"stop", "launch", "destroy"}
              /\ cpc'[d] = "free" => call'[d] \in {"launch", "destroy"}
              /\ call'[d] \in {"launch", "destroy"} => d \in Clients /\ cpc'[d] \notin {"idle", "get"}
        BY <1>4, <2>1 DEF CallInv, Owning
    <2>3. \A d, e \in Clients : call'[d] \in {"launch", "destroy"} /\ cpc'[e] # "idle" => d = e
        BY <1>4, <2>1 DEF CallInv, Owning, Callers
    <2>4. \A d \in Clients : cpc'[d] # "idle" => exists'
        BY <1>4, <2>1 DEF CallInv, Callers
    <2>. QED BY <1>1, <2>2, <2>3, <2>4 DEF CallInv, Owning
<1>5. CASE c \in Clients /\ Create(c)
    <2>1. \A d \in Clients : cpc[d] = "idle" /\ ~Owning(d)
        BY <1>5 DEF Create, CallInv, Callers
    <2>. QED BY <1>2, <1>3, <1>5, <2>1 DEF Create, Goto, Calls, Owned, Owning
<1>6. CASE CallStart(c) \/ CallStop(c) \/ CallGet(c) \/ CallDestroy(c)
    BY <1>3, <1>6 DEF CallStart, CallStop, CallGet, CallDestroy, Enter, Goto, MayCall, Calls
<1>7. CASE Subscribe(c)
    BY <1>2, <1>7 DEF Subscribe
<1>8. CASE StartAgain(c) \/ Start(c) \/ StartFails(c) \/ Stop(c) \/ \E w \in Windows : Get(c, w)
    BY <1>4, <1>8 DEF StartAgain, Start, StartFails, Stop, Get, Return, Goto, Owning, TypeOK
<1>9. CASE StopAgain(c) \/ JoinFails(c) \/ Joined(c)
    <2>1. call[c] # "stop" => Owning(c)
        BY <1>9 DEF StopAgain, JoinFails, Joined, CallInv
    <2>. QED BY <1>4, <1>9, <2>1 DEF StopAgain, JoinFails, Joined, AfterStop, Return, Goto, TypeOK
<1>10. CASE Join(c) \/ Free(c)
    BY <1>4, <1>10 DEF Join, Free, Return, Goto, TypeOK
<1>. QED BY <1>5, <1>6, <1>7, <1>8, <1>9, <1>10 DEF CallerStep

(* A step of a sampler thread moves that thread only. *)
LEMMA ThreadMoves ==
    ASSUME TypeOK, NEW t \in Tids, ThreadStep(t)
    PROVE  /\ UNCHANGED <<exists, isRunning, thread, cpc, call, target, events>>
           /\ tpc[t] # "none" /\ tpc'[t] # "none"
           /\ \A u \in Tids \ {t} : tpc'[u] = tpc[u]
           /\ tpc[t] = "callback" => cpc[t] = "idle"
BY DEF ThreadStep, Quit, Advance, Capture, CaptureFails, Notify, CallbackReturns,
       ring, field, caller, history, TypeOK

LEMMA ThreadStepAny ==
    ASSUME TypeOK, AnyInv, NEW t \in Tids, ThreadStep(t) PROVE AnyInv'
<1>1. CallInv'
    BY ThreadMoves DEF AnyInv, CallInv, Owning
<1>2. RaceInv'
    <2>1. Raced' = Raced /\ Stopping' = Stopping
        BY ThreadMoves DEF Raced, Stopping
    <2>2. ~NoneLeft
        BY ThreadMoves DEF NoneLeft
    <2>. QED BY <2>1, <2>2, ThreadMoves DEF AnyInv, RaceInv, Joiner
<1>3. SafeInv'
    <2>1. ~NoneLeft
        BY ThreadMoves DEF NoneLeft
    <2>2. LockMeansCapture => LockMeansCapture'
        BY SamplerAssumption
           DEF ThreadStep, Quit, Advance, Capture, CaptureFails, Notify, CallbackReturns,
               LockMeansCapture, Unlocked, TypeOK, field
    <2>. QED BY <2>1, <2>2, ThreadMoves DEF AnyInv, SafeInv
<1>. QED BY <1>1, <1>2, <1>3 DEF AnyInv

(* Stop and destroy, and what is left when they are done. *)
LEMMA CallerRace ==
    ASSUME TypeOK, CallInv, RaceInv, NEW c \in Callers, CallerStep(c) PROVE RaceInv'
<1>. USE DEF ring, field, caller, history
<1>0. SUFFICES ASSUME ~Raced' PROVE RaceInv'
    BY DEF RaceInv
<1>1. ~Raced
    BY <1>0, CallerMoves DEF Raced
<1>2. /\ \A t \in Tids : tpc[t] # "none" => t = thread
      /\ ~isRunning /\ ~Stopping => NoneLeft
      /\ \A d \in Callers : Joiner(d) => ~isRunning /\ \A e \in Callers : Joiner(e) => e = d
      /\ \A d \in Callers : cpc[d] = "joining" => target[d] = thread
      /\ \A d \in Callers : cpc[d] = "free" => ~isRunning
      /\ ~exists => ~isRunning
    BY <1>1 DEF RaceInv
<1>3. \A d \in Callers \ {c} : cpc'[d] = cpc[d] /\ target'[d] = target[d]
    BY CallerMoves
<1>4. CASE /\ tpc' = tpc /\ isRunning' = isRunning /\ thread' = thread /\ exists' = exists
           /\ ~Joiner(c) /\ cpc'[c] \notin {"join", "joining"}
           /\ cpc'[c] = "free" => ~isRunning
    <2>1. Stopping' = Stopping
        BY <1>3, <1>4 DEF Stopping, Joiner
    <2>. QED BY <1>2, <1>3, <1>4, <2>1 DEF RaceInv, Joiner, NoneLeft
<1>5. CASE c \in Clients /\ Create(c)
    <2>1. /\ tpc' = tpc /\ ~isRunning /\ ~isRunning' /\ thread' = thread /\ exists' /\ target' = target
          /\ cpc[c] = "idle" /\ cpc'[c] \in {"idle", "start"}
        BY <1>2, <1>5 DEF Create, Goto, TypeOK
    <2>2. Stopping' = Stopping
        BY <1>3, <2>1 DEF Stopping
    <2>. QED BY <1>2, <1>3, <2>1, <2>2 DEF RaceInv, Joiner, NoneLeft
<1>6. CASE CallStart(c) \/ CallStop(c) \/ CallGet(c) \/ CallDestroy(c) \/ Subscribe(c)
    <2>1. cpc'[c] \in {"idle", "start", "stop", "get"} /\ cpc[c] = "idle"
        BY <1>6 DEF CallStart, CallStop, CallGet, CallDestroy, Subscribe, Enter, Goto, MayCall, TypeOK
    <2>. QED BY <1>4, <1>6, <2>1
         DEF CallStart, CallStop, CallGet, CallDestroy, Subscribe, Enter, Joiner
<1>7. CASE StartAgain(c) \/ StopAgain(c) \/ \E w \in Windows : Get(c, w)
    <2>1. cpc'[c] \in {"idle", "stop", "free"} /\ cpc[c] \in {"start", "stop", "get"}
          /\ (cpc'[c] = "free" => ~isRunning)
        BY <1>7 DEF StartAgain, StopAgain, Get, AfterStop, Return, Goto, TypeOK
    <2>. QED BY <1>4, <1>7, <2>1 DEF StartAgain, StopAgain, Get, Joiner
<1>8. CASE Start(c)
    <2>1. PICK t \in Tids : /\ tpc[t] = "none" /\ tpc' = [tpc EXCEPT ![t] = "due"] /\ thread' = t
                            /\ isRunning' /\ ~isRunning /\ cpc[c] = "start" /\ cpc'[c] = "idle"
                            /\ exists' = exists /\ target' = target
                            /\ events' = events \cup {e \in {"start_during_stop"} : Stopping}
        BY <1>8 DEF Start, Return, TypeOK
    <2>2. ~Stopping
        BY <1>0, <2>1 DEF Raced
    <2>3. NoneLeft
        BY <1>2, <2>1, <2>2
    <2>4. exists /\ \A d \in Callers : cpc[d] # "free"
        BY <2>1, <2>3, StartIsAlone
    <2>5. \A d \in Callers : cpc'[d] \notin {"join", "joining", "free"}
        BY <1>3, <2>1, <2>2, <2>4 DEF Stopping
    <2>. QED BY <2>1, <2>3, <2>4, <2>5 DEF RaceInv, Joiner, NoneLeft, TypeOK
<1>9. CASE Stop(c)
    <2>1. /\ isRunning /\ ~isRunning' /\ cpc'[c] = "join" /\ tpc' = tpc /\ thread' = thread
          /\ exists' = exists
        BY <1>9 DEF Stop, Goto, TypeOK
    <2>2. \A d \in Callers : ~Joiner(d)
        BY <1>2, <2>1
    <2>. QED BY <1>2, <1>3, <2>1, <2>2 DEF RaceInv, Joiner, Stopping
<1>10. CASE Join(c)
    <2>1. /\ isRunning' = isRunning /\ cpc[c] = "join" /\ cpc'[c] = "joining" /\ target'[c] = thread
          /\ tpc' = tpc /\ thread' = thread /\ exists' = exists
        BY <1>10 DEF Join, Goto, TypeOK
    <2>2. Stopping /\ Stopping'
        BY <2>1 DEF Stopping
    <2>. QED BY <1>2, <1>3, <2>1, <2>2 DEF RaceInv, Joiner
<1>11. CASE JoinFails(c)
    BY <1>0, <1>11 DEF JoinFails, Raced
<1>12. CASE Joined(c)
    <2>1. /\ isRunning' = isRunning /\ ~isRunning /\ cpc'[c] \in {"idle", "free"}
          /\ Joiner(c) /\ target[c] = thread
          /\ tpc' = [tpc EXCEPT ![thread] = "none"] /\ thread' = thread /\ exists' = exists
        BY <1>2, <1>12 DEF Joined, AfterStop, Return, Goto, TypeOK, Joiner
    <2>2. NoneLeft'
        BY <1>2, <2>1 DEF NoneLeft, TypeOK
    <2>. QED BY <1>2, <1>3, <2>1, <2>2 DEF RaceInv, Joiner, NoneLeft
<1>13. CASE Free(c)
    <2>1. /\ isRunning' = isRunning /\ ~isRunning /\ cpc[c] = "free" /\ cpc'[c] = "idle"
          /\ tpc' = tpc /\ thread' = thread
        BY <1>2, <1>13 DEF Free, Return, TypeOK
    <2>2. Stopping' = Stopping
        BY <1>3, <2>1 DEF Stopping
    <2>. QED BY <1>2, <1>3, <2>1, <2>2 DEF RaceInv, Joiner, NoneLeft
<1>14. CASE StartFails(c)
    <2>1. /\ tpc' = tpc /\ ~isRunning /\ ~isRunning' /\ exists' = exists /\ target' = target
          /\ cpc[c] = "start" /\ cpc'[c] \in {"idle", "stop"}
          /\ events' = events \cup {e \in {"start_during_stop"} : Stopping}
        BY <1>14 DEF StartFails, Return, Goto, TypeOK
    <2>2. ~Stopping
        BY <1>0, <2>1 DEF Raced
    <2>3. NoneLeft /\ NoneLeft' /\ \A d \in Callers : cpc'[d] \notin {"join", "joining"}
        BY <1>2, <1>3, <2>1, <2>2 DEF NoneLeft, Stopping
    <2>. QED BY <1>2, <1>3, <2>1, <2>3 DEF RaceInv, Joiner, NoneLeft
<1>. QED BY <1>5, <1>6, <1>7, <1>8, <1>9, <1>10, <1>11, <1>12, <1>13, <1>14 DEF CallerStep

LEMMA CallerSafe ==
    ASSUME TypeOK, CallInv, RaceInv, SafeInv, NEW c \in Callers, CallerStep(c) PROVE SafeInv'
<1>. USE DEF ring, field, caller, history
<1>0. SUFFICES ASSUME events' = {} PROVE SafeInv'
    BY DEF SafeInv
<1>1. events = {} /\ ~Raced
    BY <1>0, CallerMoves DEF Raced
<1>2. /\ LockMeansCapture
      /\ \A d \in Callers : cpc[d] = "free" => NoneLeft
      /\ ~exists => NoneLeft
    BY <1>1 DEF SafeInv
<1>3. \A d \in Callers \ {c} : cpc'[d] = cpc[d]
    BY CallerMoves
<1>4. CASE /\ tpc' = tpc /\ lock' = lock /\ exists' = exists
           /\ cpc'[c] = "free" => NoneLeft
    BY <1>2, <1>3, <1>4 DEF SafeInv, LockMeansCapture, NoneLeft
<1>5. CASE c \in Clients /\ Create(c)
    <2>1. NoneLeft /\ tpc' = tpc /\ lock' = NoThread /\ exists'
        BY <1>2, <1>5 DEF Create
    <2>. QED BY <2>1, SamplerAssumption DEF SafeInv, LockMeansCapture, NoneLeft
<1>6. CASE CallStart(c) \/ CallStop(c) \/ CallGet(c) \/ CallDestroy(c) \/ Subscribe(c)
    <2>1. cpc'[c] # "free"
        BY <1>6 DEF CallStart, CallStop, CallGet, CallDestroy, Subscribe, Enter, Goto, MayCall, TypeOK
    <2>. QED BY <1>4, <1>6, <2>1 DEF CallStart, CallStop, CallGet, CallDestroy, Subscribe, Enter
<1>7. CASE StartAgain(c) \/ StartFails(c) \/ Stop(c) \/ Join(c) \/ \E w \in Windows : Get(c, w)
    <2>1. cpc'[c] # "free"
        BY <1>7 DEF StartAgain, StartFails, Stop, Join, Get, Return, Goto, TypeOK
    <2>. QED BY <1>4, <1>7, <2>1 DEF StartAgain, StartFails, Stop, Join, Get
<1>8. CASE StopAgain(c)
    <2>1. ~Stopping /\ ~isRunning /\ events' = events \cup {e \in {"join_skipped"} : Stopping}
        BY <1>0, <1>8 DEF StopAgain
    <2>2. NoneLeft
        BY <1>1, <2>1 DEF RaceInv
    <2>. QED BY <1>4, <1>8, <2>2 DEF StopAgain
<1>9. CASE Start(c)
    <2>1. PICK t \in Tids : /\ tpc[t] = "none" /\ tpc' = [tpc EXCEPT ![t] = "due"]
                            /\ ~isRunning /\ cpc[c] = "start" /\ cpc'[c] = "idle"
                            /\ exists' = exists /\ lock' = lock
                            /\ events' = events \cup {e \in {"start_during_stop"} : Stopping}
        BY <1>9 DEF Start, Return, TypeOK
    <2>2. ~Stopping
        BY <1>0, <2>1
    <2>3. NoneLeft
        BY <1>1, <2>1, <2>2 DEF RaceInv
    <2>4. exists /\ \A d \in Callers : cpc[d] # "free"
        BY <2>1, <2>3, StartIsAlone
    <2>5. \A d \in Callers : cpc'[d] # "free"
        BY <1>3, <2>1, <2>4
    <2>6. LockMeansCapture'
        BY <1>2, <2>1 DEF LockMeansCapture, TypeOK
    <2>. QED BY <2>1, <2>4, <2>5, <2>6 DEF SafeInv
<1>10. CASE JoinFails(c)
    BY <1>0, <1>10 DEF JoinFails
<1>11. CASE Joined(c)
    <2>1. /\ cpc[c] = "joining" /\ target[c] = thread /\ tpc[thread] = "exited" /\ lock' = lock
          /\ tpc' = [tpc EXCEPT ![thread] = "none"] /\ exists' = exists
        BY <1>1, <1>11 DEF Joined, RaceInv
    <2>2. NoneLeft'
        BY <1>1, <2>1 DEF NoneLeft, RaceInv, TypeOK
    <2>3. LockMeansCapture'
        BY <1>2, <2>1 DEF LockMeansCapture, TypeOK
    <2>. QED BY <2>2, <2>3 DEF SafeInv
<1>12. CASE Free(c)
    <2>1. NoneLeft /\ NoneLeft' /\ lock' = lock /\ tpc' = tpc
        BY <1>2, <1>12 DEF Free, NoneLeft
    <2>. QED BY <1>2, <2>1 DEF SafeInv, LockMeansCapture
<1>. QED BY <1>5, <1>6, <1>7, <1>8, <1>9, <1>10, <1>11, <1>12 DEF CallerStep

LEMMA AnyAlways == Spec => []AnyInv
<1>1. Init => AnyInv
    <2>. SUFFICES ASSUME Init PROVE AnyInv
        OBVIOUS
    <2>1. CallInv
        BY DEF Init, CallInv, Owning, Callers
    <2>2. RaceInv /\ SafeInv
        BY SamplerAssumption DEF Init, RaceInv, SafeInv, LockMeansCapture, NoneLeft, Joiner, Callers
    <2>. QED BY <2>1, <2>2 DEF AnyInv
<1>2. TypeOK /\ AnyInv /\ [Next]_vars => AnyInv'
    <2>. SUFFICES ASSUME TypeOK, AnyInv, [Next]_vars PROVE AnyInv'
        OBVIOUS
    <2>1. ASSUME NEW t \in Tids, ThreadStep(t) PROVE AnyInv'
        BY <2>1, ThreadStepAny
    <2>2. ASSUME NEW c \in Callers, CallerStep(c) PROVE AnyInv'
        BY <2>2, CallerCalls, CallerRace, CallerSafe DEF AnyInv
    <2>3. CASE UNCHANGED vars
        BY <2>3 DEF vars, AnyInv, CallInv, RaceInv, SafeInv, LockMeansCapture, NoneLeft, Joiner,
                    Owning, Raced, Stopping
    <2>. QED BY <2>1, <2>2, <2>3, NextSteps
<1>. QED BY <1>1, <1>2, TypeCorrect, PTL DEF Spec

(* With any number of controllers, and a callback that stops and starts    *)
(* its own sampler, a second sampler thread needs a start between a stop's *)
(* unlock and the end of its join, or a failed join.                       *)
THEOREM OneSamplerUnlessRacedCorrect == Spec => []OneSamplerUnlessRaced
<1>1. AnyInv => OneSamplerUnlessRaced
    BY DEF AnyInv, RaceInv, OneSamplerUnlessRaced, OneSampler, Live
<1>. QED BY AnyAlways, <1>1, PTL

(* With the same callers, to free the struct under a thread takes such a   *)
(* race, or a stop that returned before the thread ended.                  *)
THEOREM NoUseAfterFreeUnlessRacedCorrect == Spec => []NoUseAfterFreeUnlessRaced
<1>1. TypeOK /\ AnyInv => NoUseAfterFreeUnlessRaced
    <2>. SUFFICES ASSUME TypeOK, AnyInv, events = {}, ~exists PROVE NoUseAfterFree
        BY DEF NoUseAfterFreeUnlessRaced, NoUseAfterFree
    <2>1. NoneLeft /\ LockMeansCapture
        BY DEF AnyInv, SafeInv
    <2>2. Unlocked
        BY <2>1 DEF NoneLeft, LockMeansCapture, Unlocked, TypeOK
    <2>3. \A c \in Callers : cpc[c] = "idle"
        BY <2>1 DEF AnyInv, CallInv, NoneLeft, Callers
    <2>. QED BY <2>1, <2>2, <2>3 DEF NoUseAfterFree, NoneLeft, Live
<1>. QED BY AnyAlways, TypeCorrect, <1>1, PTL
==============================================================================
