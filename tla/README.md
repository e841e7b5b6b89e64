# A formal model of the Clueless Task Manager

TLA+ modules, model-checking configurations and machine-checked proofs about the
C program in `src/`: a task manager that reads `/proc`, keeps a list of processes,
samples metrics in background threads and draws a terminal user interface.

    tlc -config MCSamplerOwner.cfg MCSampler      # one run; the table below lists them all
    tlapm SamplerProofs.tla                       # one proof module

## 1. The system

| component | source | state it keeps | operations | models |
|---|---|---|---|---|
| ring buffer | `src/core/ring_buffer.c` | array, `head`, `count` | alloc, advance, peek | `RingBuffer` |
| sampler | `src/metrics/sampler.c` | ring buffer, mutex, `is_running`, `thread`, callback | create, subscribe, start, stop, get_value, destroy, create_with_subscription_and_start, and the sampler thread | `Sampler` |
| hash map | `src/core/hash_map.c` | slots with keys, values and tombstones, capacity, count | create, put, get, remove, count, iterator | `HashMap`, `HashMapIter` |
| process list | `src/metrics/process_manager.c`, `process.c` | a list of records with `is_active` | `process_list_refresh`, `process_read` | `ProcessList`, `ProcessTable` |
| file reading | `src/core/io.c` | none between calls | `io_read_file` | in `ProcessList` |
| linked list | `src/core/list.c` | `next`, `prev`, shared count | add, delete, traverse | `LinkedList`; a sequence in `ProcessList` |
| cpu metrics | `src/metrics/cpu.c` | none between calls | `cpu_read`, `cpu_total_usage` | `CpuHistory` |
| memory metrics | `src/metrics/mem.c` | none between calls | `mem_read`, accessors | no |
| text user interface | `src/ui/tui/`, `src/main.c` | process list, pad, scroll offset, next row | rounds of refreshing and drawing, keys | `TextUI` |
| platform, log | `src/core/linux/platform.c`, `src/core/log.c` | none | wrappers, output | no |
| sound | `src/sound.c` | ring with its indices, `file_eof`, eventfd, loop mutex | play, refill, process, stop | `Sound`; not in `CMakeLists.txt` |
| GTK user interface | `src/ui/gtk/` | application context | timers, row map | no; not in `CMakeLists.txt`, and written against functions that no longer exist |

How they interact. The program (`main.c`, `ui/tui/ui.c`) has one thread: each key
press refreshes the process list, the three callbacks of the refresh draw
rows on a pad that is never erased, and the list is drawn once more after it. The refresh makes a series of system calls while the rest of the machine goes
on starting and ending processes. A sampler runs a thread of its own that shares the ring
buffer with the threads that call `sampler_get_value`, under a mutex, and calls
`on_captured` without it. The hash map has no lock: its users call it from one
thread and give it a hash and a comparison function. Playing a sound involves three threads:
the program's, PipeWire's loop and its data thread, which share a ring.

What is hard here, and where the properties aim:

- **Interleavings.** `sampler_stop` releases the mutex before it joins, and reads
  the `thread` field in between; the capture follows the advance; the callback runs after
  the unlock.
- **Stale answers.** Listing, `stat`, `open` and `read` are four system calls about
  a process that may exit, or whose pid may be given to another process, between any two.
- **Partial failure.** A capture fails after the ring was advanced, an allocation
  after a hash slot was chosen, a system call in the middle of a refresh.
- **Views.** The screen, an iterator and an observer of callbacks each follow a structure that
  changes under them.
- **Order of leaving.** Stop frees what other threads, or its own caller, still use.
- **Limits.** A pad on which the list fits once and not twice, a ring that wraps, sums of time counters that wrap, indices that wrap, a terminal of one line, a table full of tombstones, a table halved under its
  own load factor.
- **Waiting.** Stop waits for a thread that needs the mutex, which a sound's callback may hold itself; probe loops end only
  because a slot is left.

`PROJECT.json` lists each hazard at its line with the properties that cover it, and
those that none covers yet.

## 2. The modules

### RingBuffer, SlidingWindow

`RingBuffer` is `ring_buffer.c`: `Advance` is `ring_buffer_advance` (the first call
leaves `head` at 0), `PeekSlot` and `Peekable` the index arithmetic and the NULL
cases of `ring_buffer_peek`, `Store` the write a user makes through the returned
address. `SlidingWindow` says what the buffer is for: the last `Size` items, newest
first. `IsSlidingWindow` is that `RingBuffer` implements it when the window is read
through `ring_buffer_peek`; in particular a slot opened by an advance shows the item
that fell out until it is written.

### CpuHistory

`CpuHistory` extends `RingBuffer` with the capture function and the computation of the CPU
metrics, the way the application context puts them together: `Wake` advances the ring,
`CpuRead` stores the kernel's counters in the slot, each saturated at `2^w - 1` as `strtoul` returns it (`Reading`), `CpuReadFails` leaves the
slot as it is, and `GetValue` is `cpu_total_usage` on the two ends of a window.
`cpu_total_usage` is translated operation by operation in unsigned arithmetic (`Usage`, `TotalTime`,
`Minus`), with its three outcomes: an error, a success that writes nothing, a result. `clock` and `history`
are the counters as they really are, without width: `UsageIsShare` computes the share from them and
compares, for windows at whose ends every counter still fitted; the sums of a reading, and the differences of two, may
have wrapped. The columns of `/proc/stat` that the code only adds up are two counters (`user`, `system`);
idle time is counted upwards only, iowait may fall.

### Sampler

A critical section of an API call is one action enabled when the mutex is free. The
sampler thread holds the mutex over two steps (`Advance`, then `Capture` or
`CaptureFails`), so anything that forgot the mutex would see the ring in between.
What the code does outside the mutex is a step of its own: reading `thread` and
joining in `sampler_stop` (`Join`, `Joined`, `JoinFails`), freeing in
`sampler_destroy` (`Free`), writing the callback field (`Subscribe`), the callback
(`Notify`, `CallbackReturns`).

| action | code |
|---|---|
| `Create`, `CallStart`, `CallStop`, `CallGet`, `CallDestroy`, `Enter` | entry into the API calls |
| `Start`, `StartAgain`, `StartFails` | `sampler_start`: created a thread, was running, `pthread_create` failed (which leaves the `thread` field undefined: any value) |
| `Stop`, `StopAgain`, `AfterStop`, `Join`, `JoinFails`, `Joined` | `sampler_stop` and what its caller goes on to |
| `Free` | the rest of `sampler_destroy` |
| `Get` | `sampler_get_value` |
| `Quit`, `Advance`, `Capture`, `CaptureFails`, `Notify`, `CallbackReturns` | `sampler_thread_fn` |

Captures are numbered modulo `TickMod`, which is larger than the ring, so two samples
in the ring are told apart. `lag` and `events` are history variables: by how many intervals the sample in a slot is
older than the attempt the slot stands for (a whole ring per failed attempt, counted up to `MaxLag`, which also stands for
"never captured"), and which overlaps of calls have happened. The sleep between
captures is not timed: a thread that is `due` may take the mutex at any moment.

What callers owe the sampler, taken from the shape of the API: no call before create returns
the pointer or after destroy is entered, and no other client inside a call when
destroy is entered. A callback may call at any time. Nothing else is assumed:
which client calls what is a constant, and the runs differ in it.

### HashMap, Dictionary

A probe is described by the distance from the key's home slot at which it stops; `Hit`,
`PassesTombAt` and `InsertsAt` state the loops of `hash_map_get`, `hash_map_remove`
and `hash_map_put`. Rehashing moves one old slot per step (`Rehash`), tombstones
included, as the code does, so that a rehash that finds no free slot shows as a
deadlock. `InsertFails` is `malloc` failing inside `hash_map_put`. The hash and
comparison functions are also called on the tombstone marker; the hash of it is any
member of `TombHash`. `Dictionary` is the abstract specification, and `IsDictionary` says that the
table implements it when it is read through `hash_map_get`, while a resize runs too. `FaultySpec`
adds `InsertFails`.

### HashMapIter

The iterator is an index into the table of a map in use: `Create`, `IterNext`, `IterEnds`, `Free`, and
between any two of them the calls of `HashMap`, failing allocations included (`MapChanges`). The
history variables are what it gave, the keys that stayed on the map since it was created,
and whether the table was replaced meanwhile. The code promises nothing for a table that is
resized under an iterator, and the property does not either.

### ProcessList, ProcessTable

One action per system call of a refresh: `OpenDir` (with `mark_processes_inactive`),
`Getdents` and `ReadDir` (with the lookup and `calloc`), `Stat`, `Fopen`, `Fread`,
`EndOfDir` or `ReadDirFails` (with `closedir`; `readdir` returns NULL for both, and the code takes both for the end), then one `Sweep` per record that `remove_inactive_processes` deletes,
with its callback, and `EndSweep`. `Birth` and `Exit`, at any moment,
are the machine. `ReadFails` is both of the refresh's reactions to a `process_read` that does not
succeed: mark a known record inactive, or free a new one and look at `errno`.
`Fault`, `CallocFails` and `ReadDirFails` are failures that have nothing to do with the process; the constant
`Faulty` turns them on.

A record's contents are reduced to *which* process they were taken from: `owner` from
`stat`, `text` from the file. `told` is what an observer of the three callbacks knows.
`steady`, `lived` and `faulted` are history since the refresh opened the directory; `faulted` are the pids about which a
call failed, and those a failing `readdir` had not come to. The kernel is external: it lists live pids in increasing order, some
per call, and a read of an opened file fails with ESRCH once its process has exited.

`ProcessTable` is what the caller of a refresh sees: a table that changes only by reports, each
process at most once a refresh, and by removals of exactly those not reported, unless the refresh is
given up. `IsProcessTable` is that `ProcessList` implements it, `is_active` being how it remembers
what it has reported.

### TextUI

The main loop of `ui.c`, over `ProcessTable` instead of the system calls of a refresh. `StartRender`
resets the row number and enters the refresh (or finds that `/proc` cannot be opened); `Reported` and
`Removed` are the callbacks, each drawing a row (`RenderProcess`); `Refreshed` is the return, complete
or given up, whose result the code does not look at; `DrawNext` is the loop over the list, `Show` the
`prefresh`. The keys are `KeyUp`, `KeyDown`, `OtherKey`, `Quit`, and `KeyResize`, by which ncurses
reports that `LINES` has changed. Rows stay as they are until drawn over, and drawing past the pad does
nothing. A record's contents are the state letter, and `StateNames` is `process_state`; for a
letter it does not know, the buffer it should have filled holds anything (`Garbage`).

### LinkedList

The links of `list.c`, node by node: `Add`, `Delete` (through `Unlink`), and a `LIST_FOREACH_SAFE`
as `Begin`, `Visit` and `End`, whose body may delete the node it stands on, as
`remove_inactive_processes` does. `order` is the list as a history of the calls; the properties say
that the links and the shared count spell it. A node deleted is a node freed, so
"a traversal holds no deleted node" is memory safety. Adding a node twice, or deleting one
that is not on a list, is what callers do not do: records come fresh from `calloc` and leave
once.

### Sound

Three threads: `client` and `loop` fill the ring under the loop's mutex (`Refill`, `Publish`, `Check`,
`Unlock`), the data thread empties it without (`RtLook`, `RtCopy`, `RtUpdate`, `RtSignal`). Writing or copying
the frames and moving the index are separate steps, because that order is all the synchronisation
there is. Frames are numbered, so `heard` tells what came out. `ctm_sound_stop` is `Stop`,
`Joined`, `Destroy`, `Free`; called by the callback in the loop's thread it is `CallbackFrees`, and called by the callback in the client,
inside `ctm_sound_play_async` (which finds an empty file finished at once), `CallbackStops`, after which the client waits in `pw_thread_loop_stop`
with the mutex. PipeWire is external, modelled from how
`sound.c` uses it: the loop takes its mutex before it calls back and before it leaves its poll to end, stopping the loop
waits for it except from its own thread, destroying the stream waits for the process
callback.

## 3. The runs

| run | configuration | what it shows |
|---|---|---|
| `cpu_history` | `MCCpuHistory.cfg` | the ring buffer is a sliding window, and the usage over each window whose ends were captured is the exact share of that interval, also after the ring came round and sums of counters wrapped, across failed captures, and where counters saturate around it |
| `sampler_owner` | `MCSamplerOwner.cfg` | one controller, a reader and a reading callback: no use after free, one sampler thread, an honest `is_running`, what readers are handed is the latest attempt and the one the window before it, or, in the place of a failed one, exactly the older capture the slot had kept; the notified sample is the latest; every call returns and a running sampler goes on capturing |
| `sampler_rivals` | `MCSamplerRivals.cfg` | two controllers and a callback that stops its sampler: two sampler threads, or a struct freed under one, need a start that overlaps a stop, a failed join, or a stop that returned early |
| `hash_map` | `MCHashMap.cfg` | a dictionary with its count, findability, room for probes, no thrashing between growing and halving |
| `hash_map_iter` | `MCHashMapIter.cfg` | the count stays right when allocations fail, although lookups do not; an iterator gives each pair that stays once, puts, removes and failed puts in between notwithstanding, unless the table is resized |
| `hash_map_lost` | `MCHashMapLost.cfg` | **violated**: a put that fails to allocate hides another key |
| `process_list` | `MCProcessList.cfg` | unique pids, the callbacks tell the whole story (`IsProcessTable`), nothing leaks, and after a success: only processes that were alive, and of those that ran throughout exactly the ones no failing call concerned; refreshes return and, once they stop failing, the list converges |
| `process_list_vanish` | `MCProcessListVanish.cfg` | **violated**: a process that exits between open and read makes the refresh fail |
| `linked_list` | `MCLinkedList.cfg` | links spell the list both ways, the count is its length, a traversal that deletes is safe and visits each node once |
| `sound` | `MCSound.cfg` | frames come out in order, `on_finished` means everything was played and comes at most three times; stop frees nothing in use, sounds finish, and stop returns exactly when it is not called from inside `ctm_sound_play_async` |
| `text_ui` | `MCTextUI.cfg` | when the user looks, the list is on the pad, even where it fits only once and is drawn twice; the rows of this round show nothing that went before it; scrolling stays on the pad, or one row past it on a terminal of one line |
| `sound_callback_stop` | `MCSoundCallback.cfg` | **violated**: a callback that stops its sound frees the source under its caller |

Every passing property has a mutant: a changed definition, like a plausible mistake in
the code, under which TLC finds that property violated. The mutants stand in the modules
before the definitions they change.

### Findings

1. `process_list_refresh` gives up when a new process exits between the open and the
   read of its stat file: the error is ESRCH, and only ENOENT is skipped
   (`process_manager.c:147`). The refresh returns an error that its test does not expect.
2. `hash_map_put` that runs out of memory in the slot of a tombstone leaves an empty
   slot, which cuts the probe sequences of other keys (`hash_map.c:167`).
3. A callback that calls `ctm_sound_stop`, which is what `sound.h:31` calls typical, frees the
   source while `on_eventfd_signal` is still going to unlock through it (`sound.c:161`).

Faults that a property of a passing run states as the code has them:

4. A `readdir` that fails is taken for the end of the directory (`process_manager.c:99`): the refresh removes every
   running process it had not come to and returns `PROCESS_SUCCESS`. `SteadyAreListed` says that, besides a process whose
   own call fails, exactly these are dropped.
5. A failed capture is counted as an item (`sampler.c:40-47`): `process_fn` is handed the zeroed slot, or a capture that is one ring
   or several older than it is taken for, and is not told. `ReadersSeeTheWindow` says which one.
6. A callback that stops its sound from inside `ctm_sound_play_async` (an empty file; `sound.c:273`, `139`, `283`) waits for
   ever: the loop needs the mutex its caller holds. `StopReturns` contains it, and `StopInCallbackHangsCorrect` proves it.
7. On a terminal of one line the scroll offset reaches 100, one past the last row of the pad (`ui.c:118`). `TypeOK` of the text
   interface bounds it there, and everywhere else by the last row.

Seen while modelling and not worth a run: `hash_map_resize` passes the tombstone marker to the
user's hash function, as if it were a key (`hash_map.c:109`); `hash_map_remove` returns 1 for a removal,
where the header says 0 (`hash_map.c:243`, `hash_map.h:108`); `mem_read` clears the
fields it has just parsed (`mem.c:71`); a state name longer than its column of ten characters
leaves its end on the row when a shorter one is drawn over it (`ui.c:57`).

What `sampler_rivals` excludes is reachable when the exclusion is dropped: with two
controllers, a start between the unlock and the join of a stop makes that stop wait
for ever, and a destroy during a callback's own stop frees the struct under its
thread. The header does not say whether the calls may be made concurrently, so these
are stated as the conditions of the properties and not as findings.

### Bounds, and why they are enough

The proofs of section 4 cover the safety properties for all values; the bounds matter for liveness, for the violated
runs and for the invariants' first test.

- *Ring and counters.* Capacity 3 with five captures: first fill and wrap occur, with failures at
  any of them; windows of one and two intervals. Counters of width 8 start so that their sums wrap while each still fits, and run on
  into saturation; intervals are busy, idle, empty, or such that iowait falls. The proofs cover every capacity, width,
  scale and movement of the counters. The run is bounded by `MaxSamples`, so it stops and does not check deadlock.
- *Sampler.* Capacity 2, windows 1 and 2 and ticks modulo 4 in the main run: windows
  inside and at the count, a ring that wraps at every second capture, `lag` counted up to 3: one failed round is told from
  the next and from no capture at all. Two thread ids allow one restart to overlap the thread
  before it; a joined id is free again. (Capacity 3 with windows 1 to 3 was checked
  for safety as well.)
- *Hash map.* Keys 3, 7, 11, 19 and 6 under `hash_int`: four share a home slot at
  capacity 4, and some still do at 8 and 16. Minimum capacity 4 instead of 16 makes growing,
  halving and tombstone-filled tables reachable with five keys; the load factors are the
  code's. `MaxCapacity` is the size at which `calloc` refuses; the fault-free run never
  needs it.
- *Iterator.* Three keys in a table of 4 that grows to 8, with one value: slots are emptied, reused
  and doubled before and behind the index, and the table is replaced under it.
- *Process list.* Two pids, each used three times: one entry of a batch may go stale, or come
  back as another process, while the other is read, and the same again in the next
  refresh. Once a pid has been used `MaxBirths` times it stays free. (Three pids used
  twice, two million states, were checked as well.)
- *Text interface.* Three processes on a pad with three rows below its header: the list fits exactly
  once. One known and one unknown state letter; terminals of one line (none of it for the pad), of two (one row) and of four. The
  user may quit, so deadlock is not checked.
- *Linked list.* Four nodes: one at each end and two between, so a deletion can have neighbours that are
  both nodes, and two in a row can be deleted.
- *Sound.* A ring of 4, a local buffer of 3, indices modulo 8: refills are cut short by either limit and wrap inside
  a write; files are empty, shorter than the ring, longer than it, just short of the index width and longer than that.
  `MaxFinished` is above the bound of the property that counts. A stop from inside `ctm_sound_play_async` hangs, so deadlock is not
  checked; that nothing else hangs is what `SoundFinishes` and `StopReturns` say.

### Fairness

- `Sampler!FairSpec`. Strong fairness on taking the mutex: contenders come and go, and
  the sampler thread sleeps for an interval between two critical sections, so nobody is
  overtaken for ever. Weak fairness on a thread's own steps while it holds the mutex, and on
  a join. Strong fairness on a callback's return: it makes finitely many calls. No fairness on entering calls,
  on captures succeeding, or on threads being created.
- `ProcessList!Spec`. Weak fairness of the refresh's own steps: it is straight-line code
  in one thread. None on starting a refresh (a user presses a key), on
  processes starting or exiting, or on calls succeeding; `ListConverges` has as its premise that
  refreshes keep beginning and stop failing.
- `Sound!Spec`. Weak fairness of each thread: they are scheduled, and the audio server keeps asking
  for data. None on playing or stopping.
- The hash map, the list, the ring buffer and the text interface have no fairness. That the hash map's loops end is deadlock
  freedom of `MCHashMap` (a rehash without a free slot cannot step) together with
  `RoomLeft`; for every table, `RehashFindsRoomCorrect` and `RoomLeftCorrect`.

## 4. The proofs

Every safety property and every refinement that a passing run checks is also proved, for all values of
the constants. Each component has a module of proofs; `DataLemmas` holds what they share: putting an element in front
of a sequence or deleting one, counting a set by an enumeration, least numbers, and
arithmetic modulo the size of a buffer or the width of a counter. The theorems (`PROJECT.json` says for each which
property of which run it states):

| module | theorems | hold for |
|---|---|---|
| `RingBufferProofs` | `TypeCorrect`, `FillingCorrect`, `Refinement` to `SlidingWindow`; for the CPU history `CpuRefinement`, `UsageIsShareCorrect` | every capacity and set of items; every width of the counters, scale and pattern of failed captures |
| `SamplerProofs` | `TypeCorrect`, `OneSamplerUnlessRacedCorrect`, `NoUseAfterFreeUnlessRacedCorrect` | every set of clients, whatever they and the callback call |
| | `OneSamplerCorrect`, `NoUseAfterFreeCorrect`, `FlagCorrect`, `NotifiedSampleCorrect`, `WindowCorrect` (an action property) | every set of clients of which one, `o`, owns the sampler: `Owns(o)`; every capacity and window |
| `HashMapProofs` | `MapTypeCorrect`, `CountIsLiveCorrect`, `RoomLeftCorrect`, `RehashFindsRoomCorrect` | every set of keys, hash function, hash of a tombstone and smallest capacity, whichever allocations fail |
| | `ResizeLeavesSlackCorrect` (an action property) | the same, if halving a table cannot fail |
| | `StoredKeysAreFoundCorrect`, `ImplementsDictionary` (refinement to `Dictionary`) | the same, if the allocation in `hash_map_put` does not fail |
| | `IterGivesSteadyOnceCorrect` | an iterator on such a map, failing allocations included |
| `ProcessListProofs` | `TypeCorrect`, `UniquePidsCorrect`, `NothingLeaksCorrect`, `ListedWereAliveCorrect`, `SteadyAreListedCorrect`, `ToldIsListCorrect`, `ImplementsProcessTable` (refinement to `ProcessTable`) | every finite set of pids, with and without faults |
| `TextUIProofs` | `UITypeCorrect`, `ListedAreShownCorrect`, `GoneAreBelowCorrect` | every pad, set of processes and terminal heights |
| `LinkedListProofs` | `TypeCorrect`, `IsListCorrect`, `TraversalCorrect`, `VisitsEachOnceCorrect` | every set of nodes |
| `SoundProofs` | `SoundTypeCorrect`, `PlayedInOrderCorrect`, `FinishedMeansPlayedCorrect`, `SoundNoUseAfterFree`, `StopInCallbackHangsCorrect` | every size of ring and local buffer, index width that the ring divides, request and file length |

Assumptions: those on the constants, named in the modules and evaluated by the runs, and no others but `Owns(o)`
and the absence of a failing halving where the table says so. These say something
about the code: the minimum capacity of a hash map is at least 4 (it is 16; below 4 the thresholds leave
no slack), a machine has finitely many pids, a ring's size divides the range of its indices, the pad has more than two rows and the terminal at least one line, and a slot of the CPU
history can hold every reading (it is the struct the reading is made in). `TickMod` and `MaxLag` only have to be large enough to tell
the samples in a ring apart.

The inductive invariants, and why the properties alone do not do:

*Ring buffer, CPU history.* `TypeOK /\ Filling`. `Filling` is needed for
the refinement: only because the head trails the count while the buffer fills up does
an advance that stays on slot 0 once, and moves ever after, open the slots in the order that
`ring_buffer_peek` walks back. `HistoryInv` adds that each slot, found by its offset, holds the reading of the
capture that many before the latest, unless that one failed or is under way, and that idle time never falls. `UsageIsShareCorrect`
is then modular arithmetic: a counter that fits was read as it is, the differences of the wrapped sums are the true differences, as these fit the width
(`ModDifference`), and the share does not exceed the scale (`ShareBounded`).

*Sampler.* With an owner, `OwnerInvariant`: others are at most inside a read
(`OthersRead`), the mutex is held exactly during captures (`LockMeansCapture`), the
`thread` field names the only sampler thread there is (`ThreadIsTheOne`), and where the
owner is inside its calls (`CallsAreInside`). `OneSampler` alone is not inductive: a thread survives a stop only while the
owner is about to join the thread the field names. `SeenInv` adds what the ring
holds: the slot at each offset has the tick of that offset, less its lag, and a lag is a number of whole rounds of the ring; the slot an advance
opens holds the item a round older than the one it will stand for (`OpenedIsARoundOld`), which is what a failure then leaves (`WindowInv`). With any callers the invariant is
`AnyInv`: which calls may be inside at once (`CallInv`), and, as long as no start overlapped a stop
and no join failed, that all threads but the one named are gone and all joins wait for that one (`RaceInv`, `SafeInv`).

*Hash map.* `CountInv`: the count is the number of live slots, a running resize has moved as many keys as it has
passed (`Counting`), and the capacity is in `Capacities`, the least set with `MinCapacity` that is closed under doubling, which
makes halving exact without induction. From it follow `CountIsLive`, `RoomLeft` and that a resize is never stuck for want of a slot (`RehashFindsRoom`). `Slack`, for `ResizeLeavesSlack`, bounds the count by
the thresholds. `FindInv` has the meat: no key in two slots, no empty slot between a key's home and its place,
in the old table and in the one that is being filled, and the latter holds exactly the keys passed so far (`Copied`). The
refinement needs that lookups do not notice which of several free slots a put takes, nor tombstones that move with a resize. `IterInv`
counts: a key that stays was given at most once per slot that holds it and has been passed, and if it was not given, a slot of it is ahead.

*Process list.* `RefreshInv`: the pids of a directory come in increasing order, so what is active is behind the cursor, and a pid still
pending is in no active record (`Ascending`, `ActiveArePast`); whoever is being read or is active was alive
(`ReadWereAlive`); who runs all along is pending, being read, active, or named by a failure (`SteadyAreCovered`); who a failure names is in no active
record once it was passed (`Missed`), which makes the set of dropped processes exact; the callbacks told the list
(`ToldIsList`). `ImplementsProcessTable` maps `is_active` to the set of what was reported.

*Text interface.* `UIInv`: each report of a refresh drew one row (`RowPerReport`), therefore what was reported is shown if the rows fit
(`ReportedAreShown`), and so is what the loop has drawn (`LoopShows`); the scroll offset is a row of the pad or, with one line, one past it (`ScrollOK`).

*Linked list.* `LinksInv` is `TypeOK`, `LinksSpellOrder` and `CountIsLength` together: none of the three is
inductive alone (the count needs the list to stay above zero, the links of a deleted node's
neighbours need their positions). `TraversalInv` adds that the held next node
is the one after the node the traversal stands on, which is what makes deleting that node harmless; `VisitInv` that what was visited, with
the list from that node on, is the list as it was at the beginning.

*Sound.* `SoundInv`: both indices are remainders of numbers that only grow, of frames published and taken (`Counters`); every frame read and
not taken is in its slot (`RingHolds`); the loop's mutex and the order of leaving say which thread can be where (`Threading`: in particular the loop is in its poll while the client holds the mutex); and
once the end was signalled, `on_finished` comes at most once for each check still ahead (`Finishing`).

What the attempts taught: that `on_finished` comes at most three times holds only while the file is
shorter than the indices are wide, which `FinishedMeansPlayed` had not said of that part, and which the run's own sizes did not
show; a halving that fails leaves a table emptier than `ResizeLeavesSlack` allows; `TypeOK` of the process list and of
the sound each contain a bound (on live records, on the fill of the ring) that follows only from the whole invariant, so the proofs start from
`Typed`, the rest of it.

Only model-checked: the liveness properties `CallsReturn`, `SamplingContinues`, `RefreshReturns`, `ListConverges`, `SoundFinishes` and
the first half of `StopReturns` (the second is `StopInCallbackHangsCorrect`). They rest on fairness, hence on ENABLED, which the provers do not handle. The three violated
runs are counterexamples and have nothing to prove. No theorem is about an operator for which induction over data
would be needed: the models have none that is recursive.

## 5. What is not modelled

- The text of records, formatting, parsing, names and memory of strings (most accessors of `process.c`,
  `platform.c`, the parsing in `cpu_read`): values, not control.
- `mem.c`: one pass over `/proc/meminfo` whose results it then sets to zero, and accessors. Nothing in the
  program calls it, and there is no state between calls.
- Argument checks that return at once for a null pointer.
- Time: intervals are only an order of events.
- `ui/tui/process_tab.c`, which the program does not call, and the GTK interface, which is not built
  and no longer matches the headers (its use of the CPU sampler is taken as the example for `CpuHistory`).
- The tests and the build files.

## 6. Plan

Done, in this order: `RingBuffer`, `Sampler` over it, `HashMap`, `ProcessList`, `LinkedList`, `Sound`; proofs of
`RingBuffer`, `Sampler` and `LinkedList`; then `ProcessTable`, `TextUI` over it, `CpuHistory`, `HashMapIter`; then
the proofs of the process list, the text interface, the sound, the hash map and its iterator, the rest of the sampler's and the
linked list's, and of the CPU history.

Left, in order of worth:

1. The iterator's premise is that the table was not replaced; a theorem that says which calls can replace it
   (a put or a remove that crosses a threshold) would make it usable without looking at `capacity`.
2. `ResizeLeavesSlack` with failing halvings: a weaker bound than the one that then fails.
3. That `TextUI` over `ProcessList` itself, instead of over `ProcessTable`, shows the same: the composition of
   `ImplementsProcessTable` with the theorems of the text interface.
