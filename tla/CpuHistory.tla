------------------------------ MODULE CpuHistory ------------------------------
(***************************************************************************)
(* src/metrics/cpu.c on the ring buffer of a sampler: a history of the     *)
(* processor's time counters, captured one by one, and the usage between   *)
(* the newest reading and one that is some captures older.  The user       *)
(* interface asks for it this way (sampler_get_value with a window).       *)
(*                                                                         *)
(* The kernel's counters have no limit here.  strtoul reads each of them   *)
(* into an unsigned long and stops at ULONG_MAX (Modulus - 1); the sums    *)
(* and differences cpu_total_usage makes of them wrap modulo Modulus.  Of  *)
(* the columns it only adds up there are two, user and system; the kernel  *)
(* counts idle time upwards only, while iowait (wait) may also fall.  The  *)
(* sampler holds its mutex from the advance until the capture is over, so  *)
(* nobody peeks while `capturing'.                                         *)
(***************************************************************************)
EXTENDS RingBuffer

CONSTANTS Modulus,      \* 2^w: unsigned long has w bits
          Scale,        \* the usage of a machine that is never idle, 100000
          Boots,        \* bound: what the counters may start from
          Deltas,       \* bound: what they may move by between two captures
          MaxSamples    \* bound: captures

VARIABLES clock,        \* the kernel's counters, without limit
          capturing,    \* between the advance and the end of the capture
          history       \* history: the clock at each capture, or <<>>

cpuVars == <<vars, clock, capturing, history>>

Counters == {"user", "system", "idle", "wait"}

ASSUME CpuHistoryAssumption ==
    /\ Modulus \in Nat \ {0} /\ Scale \in 1..(Modulus - 1)
    /\ Boots \subseteq [Counters -> Nat] /\ Boots # {}
    /\ Deltas \subseteq [Counters -> Int]
    /\ \A d \in Deltas : d["user"] >= 0 /\ d["system"] >= 0 /\ d["idle"] >= 0
    /\ MaxSamples \in Nat
    /\ [Counters -> 0..(Modulus - 1)] \subseteq Item

Failed == <<>>

-----------------------------------------------------------------------------
(* Unsigned arithmetic. *)
Minus(a, b) == (a - b) % Modulus

(* A plausible mistake: idle time is not part of the total. *)
BusyTime(reading) == (reading["user"] + reading["system"] + reading["wait"]) % Modulus

(* get_total_time, which leaves steal and the guests' time out. *)
TotalTime(reading) ==
    (reading["user"] + reading["system"] + reading["idle"] + reading["wait"]) % Modulus

NoUsage(result) == [result |-> result, usage |-> 0]

(* cpu_total_usage: an error, a success that writes no result, or one that *)
(* does.                                                                   *)
Usage(curr, prev) ==
    LET idleDelta  == Minus(curr["idle"], prev["idle"])
        totalDelta == Minus(TotalTime(curr), TotalTime(prev))
    IN  IF TotalTime(prev) = 0 /\ TotalTime(curr) = 0 THEN NoUsage("error")
        ELSE IF totalDelta = 0 THEN NoUsage("unwritten")
        ELSE [result |-> "success",
              usage  |-> Minus(Scale, ((idleDelta * Scale) % Modulus) \div totalDelta)]

(* A plausible mistake: the window's two ends are swapped. *)
GetSwapped(window) == Usage(slots[PeekSlot(window)], slots[PeekSlot(0)])

(* sampler_get_value for a window the buffer has. *)
GetValue(window) == Usage(slots[PeekSlot(0)], slots[PeekSlot(window)])

-----------------------------------------------------------------------------
CpuInit ==
    /\ Init
    /\ clock \in Boots
    /\ capturing = FALSE
    /\ history = <<>>

(* The sampler thread wakes up and opens the next slot. *)
Wake ==
    /\ ~capturing /\ Len(history) < MaxSamples
    /\ \E d \in Deltas :
          /\ clock["wait"] + d["wait"] >= 0
          /\ clock' = [c \in Counters |-> clock[c] + d[c]]
    /\ Advance
    /\ capturing' = TRUE
    /\ UNCHANGED history

(* strtoul, for each counter: ULONG_MAX for one that does not fit. *)
Reading ==
    [c \in Counters |-> IF clock[c] < Modulus THEN clock[c] ELSE Modulus - 1]

(* cpu_read fills the slot ... *)
CpuRead ==
    /\ capturing
    /\ Store(Reading)
    /\ capturing' = FALSE
    /\ history' = Append(history, clock)
    /\ UNCHANGED clock

(* ... or fails to open or to read the file, and leaves it as it is. *)
CpuReadFails ==
    /\ capturing
    /\ capturing' = FALSE
    /\ history' = Append(history, Failed)
    /\ UNCHANGED <<vars, clock>>

CpuNext == Wake \/ CpuRead \/ CpuReadFails

CpuSpec == CpuInit /\ [][CpuNext]_cpuVars

-----------------------------------------------------------------------------
(* The exact time a counter moved between the captures.                    *)
Passed(counter, window) ==
    history[Len(history)][counter] - history[Len(history) - window][counter]

(* Both ends of the window were captured, and strtoul had no counter to    *)
(* cut off in them.                                                        *)
Measured(window) ==
    /\ Peekable(window)
    /\ \A n \in {Len(history), Len(history) - window} :
          /\ history[n] # Failed
          /\ \A c \in Counters : history[n][c] < Modulus

(* For every window whose two ends were captured, whatever happened to the *)
(* captures between them: as long as each counter fits an unsigned long,   *)
(* iowait has not fallen by more than the other counters rose, and neither *)
(* the interval nor the scaled idle time exceeds an unsigned long, the     *)
(* usage is the share of that very interval that was not idle, rounded up, *)
(* also when the ring, or the sum of the counters, has wrapped in between. *)
(* (Once a counter no longer fits it seems to stand still, and the share   *)
(* is wrong.)                                                              *)
UsageIsShare ==
    \A window \in 1..(Capacity - 1) : ~capturing /\ Measured(window) =>
        LET idle  == Passed("idle", window)
            total == Passed("user", window) + Passed("system", window)
                         + idle + Passed("wait", window)
            value == GetValue(window)
        IN  0 < total /\ idle <= total /\ total < Modulus /\ idle * Scale < Modulus
            => /\ value.result = "success"
               /\ value.usage = Scale - (idle * Scale) \div total
==============================================================================
