------------------------------ MODULE LagProbe ------------------------------
(***************************************************************************)
(* class LagProbe of reactor_lag.h: a timer on the loop that arms itself   *)
(* again and counts how late each wake was; stop() from any thread; and    *)
(* snapshot() from any thread, which reads the counters one by one.        *)
(*                                                                         *)
(* Every action makes at most one access to an atomic.  The counters are   *)
(* relaxed atomics, a reader of several may see them out of order: what is *)
(* said of snapshots here is said of each location by itself.  Time is     *)
(* when a wait expires and whether the busy window is over.                *)
(***************************************************************************)
EXTENDS LagSnapshot

CONSTANTS
    Stoppers,    \* threads that call stop(), the destructor's included
    Lates,       \* how late a wake may be, in microseconds
    MaxWakes,    \* bound: wakes counted
    MaxNotes     \* bound: calls of note_activity()

ASSUME LagProbeAssumption == Lates \subseteq Nat /\ MaxWakes \in Nat /\ MaxNotes \in Nat

VARIABLES
    started, stopped,
    stopPc,        \* where each thread is in stop()
    cancels,       \* cancel() handlers posted and not yet run
    loop,          \* what the loop's thread does: "idle", or where it is in start() or tick()
    waits,         \* the waits outstanding: their state, and whether they are in the slot
    slot_used,
    late,          \* us of the tick in progress
    count, wakes, sum_us, max_us,
    activity, last_activity,
    busy,          \* the timer was last armed at busy_interval
    reader,        \* how far the snapshot() in progress has read
    snap,          \* what it read
    taken,         \* history: the snapshots returned
    dueWake,       \* history: the wake that has to notice the latest activity
    silenced       \* history: the cancel() of stop() has run

counters == <<count, wakes, sum_us, max_us>>
timerVars == <<waits, slot_used>>
stopVars == <<stopped, stopPc, cancels, silenced>>
busyVars == <<activity, last_activity, busy, dueWake>>
readVars == <<reader, snap, taken>>
probeVars == <<started, stopVars, loop, timerVars, late, counters, busyVars, readVars>>

Zeros == [i \in Buckets |-> 0]

Empty == [count |-> Zeros, wakes |-> 0, sum_us |-> 0, max_us |-> 0]

Waits == [state : {"armed", "expired", "cancelled"}, inSlot : BOOLEAN]

Snapshots == [count : [Buckets -> Nat], wakes : Nat, sum_us : Nat, max_us : Nat]

TickStates == {"count", "wakes", "sum", "max", "rearm"}

ProbeTypeOK ==
    /\ {started, stopped, slot_used, busy, silenced} \subseteq BOOLEAN
    /\ stopPc \in [Stoppers -> {"idle", "exchange", "post"}]
    /\ cancels \in Nat
    /\ loop \in {"idle", "starting"} \cup TickStates
    /\ waits \subseteq Waits
    /\ late \in Lates \cup {0}
    /\ count \in [Buckets -> Nat] /\ {wakes, sum_us, max_us} \subseteq Nat
    /\ {activity, last_activity, dueWake} \subseteq Nat
    /\ reader \in 0..4
    /\ snap \in Snapshots
    /\ taken \in Seq(Snapshots) /\ Len(taken) <= 2
    /\ reader > 0 => Len(taken) < 2

ProbeInit ==
    /\ started = FALSE /\ stopped = FALSE
    /\ stopPc = [t \in Stoppers |-> "idle"]
    /\ cancels = 0
    /\ loop = "idle"
    /\ waits = {} /\ slot_used = FALSE
    /\ late = 0
    /\ count = Zeros /\ wakes = 0 /\ sum_us = 0 /\ max_us = 0
    /\ activity = 0 /\ last_activity = 0 /\ busy = FALSE /\ dueWake = 0
    /\ reader = 0 /\ snap = Empty /\ taken = <<>>
    /\ silenced = FALSE

-----------------------------------------------------------------------------
(* The loop's thread.                                                      *)

(* timer.cancel(), and expires_at() on a timer with a wait: waits that     *)
(* have not expired complete with an error.                                *)
Cancelled == {IF w.state = "armed" THEN [w EXCEPT !.state = "cancelled"] ELSE w : w \in waits}

(* SlotAllocator::allocate() gives a wait the slot unless it is taken,     *)
(* then memory of the heap.                                                *)
allocate == ~slot_used

arm ==
    /\ waits' = Cancelled \cup {[state |-> "armed", inSlot |-> allocate]}
    /\ slot_used' = TRUE

(* Mutant: every call arms.                                                *)
StartAlways ==
    /\ loop = "idle"
    /\ started' = TRUE
    /\ loop' = "starting"
    /\ UNCHANGED <<stopVars, timerVars, late, counters, busyVars, readVars>>

(* start(), on the loop's thread or before the loop runs: the exchange,    *)
(* which sends later calls home ...                                        *)
Start ==
    /\ loop = "idle" /\ ~started
    /\ started' = TRUE
    /\ loop' = "starting"
    /\ UNCHANGED <<stopVars, timerVars, late, counters, busyVars, readVars>>

(* ... and the arming by the first call.                                   *)
StartArm ==
    /\ loop = "starting"
    /\ arm
    /\ loop' = "idle"
    /\ UNCHANGED <<started, stopVars, late, counters, busyVars, readVars>>

(* The cancel() that stop() posted.                                        *)
RunCancel ==
    /\ loop = "idle" /\ cancels > 0
    /\ cancels' = cancels - 1
    /\ waits' = Cancelled
    /\ silenced' = TRUE
    /\ UNCHANGED <<started, stopped, stopPc, loop, slot_used, late, counters, busyVars, readVars>>

(* The deadline passes: the wait's handler is queued without an error.     *)
Expire(w) ==
    /\ w.state = "armed" /\ wakes < MaxWakes
    /\ waits' = (waits \ {w}) \cup {[w EXCEPT !.state = "expired"]}
    /\ UNCHANGED <<started, stopVars, loop, slot_used, late, counters, busyVars, readVars>>

(* Asio gives the memory of a wait back before it calls the handler:       *)
(* SlotAllocator::deallocate().                                            *)
deallocate(w) ==
    /\ waits' = waits \ {w}
    /\ slot_used' = (slot_used /\ ~w.inSlot)

(* Mutant: tick() looks at its error only.                                 *)
TickAfterStop(w, us) ==
    /\ loop = "idle" /\ w.state # "armed"
    /\ deallocate(w)
    /\ IF w.state = "cancelled"
       THEN UNCHANGED <<loop, late>>
       ELSE loop' = "count" /\ late' = us
    /\ UNCHANGED <<started, stopVars, counters, busyVars, readVars>>

(* tick() up to its return or to how late it is.                           *)
Tick(w, us) ==
    /\ loop = "idle" /\ w.state # "armed"
    /\ deallocate(w)
    /\ IF w.state = "cancelled" \/ stopped
       THEN UNCHANGED <<loop, late>>
       ELSE loop' = "count" /\ late' = us
    /\ UNCHANGED <<started, stopVars, counters, busyVars, readVars>>

(* bump(count[index_of(us)], 1).                                           *)
CountBucket ==
    /\ loop = "count"
    /\ count' = [count EXCEPT ![index_of(late)] = @ + 1]
    /\ loop' = "wakes"
    /\ UNCHANGED <<started, stopVars, timerVars, late, wakes, sum_us, max_us, busyVars, readVars>>

CountWake ==
    /\ loop = "wakes"
    /\ wakes' = wakes + 1
    /\ loop' = "sum"
    /\ UNCHANGED <<started, stopVars, timerVars, late, count, sum_us, max_us, busyVars, readVars>>

(* Mutant: the sum is stored over.                                         *)
StoreSum ==
    /\ loop = "sum"
    /\ sum_us' = late
    /\ loop' = "max"
    /\ UNCHANGED <<started, stopVars, timerVars, late, count, wakes, max_us, busyVars, readVars>>

AddSum ==
    /\ loop = "sum"
    /\ sum_us' = sum_us + late
    /\ loop' = "max"
    /\ UNCHANGED <<started, stopVars, timerVars, late, count, wakes, max_us, busyVars, readVars>>

RaiseMax ==
    /\ loop = "max"
    /\ max_us' = IF late > max_us THEN late ELSE max_us
    /\ loop' = "rearm"
    /\ UNCHANGED <<started, stopVars, timerVars, late, count, wakes, sum_us, busyVars, readVars>>

(* Mutant: activity is stored before it is compared.                       *)
RearmStoresFirst ==
    /\ loop = "rearm"
    /\ last_activity' = activity
    /\ busy' \in IF activity # last_activity' THEN {TRUE} ELSE {busy, FALSE}
    /\ arm
    /\ loop' = "idle"
    /\ late' = 0
    /\ UNCHANGED <<started, stopVars, counters, activity, dueWake, readVars>>

(* The end of tick(): new activity opens the busy window, which may        *)
(* otherwise have ended since; the window chooses the interval.            *)
Rearm ==
    /\ loop = "rearm"
    /\ last_activity' = activity
    /\ busy' \in IF activity # last_activity THEN {TRUE} ELSE {busy, FALSE}
    /\ arm
    /\ loop' = "idle"
    /\ late' = 0
    /\ UNCHANGED <<started, stopVars, counters, activity, dueWake, readVars>>

-----------------------------------------------------------------------------
(* Other threads.                                                          *)

(* stop(): started.load(), without which it returns ...  Calls after the   *)
(* cancel() ran change nothing and are left out.                           *)
StopTest(t) ==
    /\ stopPc[t] = "idle" /\ started /\ ~silenced
    /\ stopPc' = [stopPc EXCEPT ![t] = "exchange"]
    /\ UNCHANGED <<started, stopped, cancels, silenced, loop, timerVars, late, counters, busyVars, readVars>>

(* ... stopped.exchange(true), which lets one call through ...             *)
StopExchange(t) ==
    /\ stopPc[t] = "exchange"
    /\ stopped' = TRUE
    /\ stopPc' = [stopPc EXCEPT ![t] = IF stopped THEN "idle" ELSE "post"]
    /\ UNCHANGED <<started, cancels, silenced, loop, timerVars, late, counters, busyVars, readVars>>

(* ... and the post of the cancel().                                       *)
StopPost(t) ==
    /\ stopPc[t] = "post"
    /\ cancels' = cancels + 1
    /\ stopPc' = [stopPc EXCEPT ![t] = "idle"]
    /\ UNCHANGED <<started, stopped, silenced, loop, timerVars, late, counters, busyVars, readVars>>

note_activity ==
    /\ activity < MaxNotes
    /\ activity' = activity + 1
    /\ dueWake' = IF loop \in {"sum", "max", "rearm"} THEN wakes ELSE wakes + 1
    /\ UNCHANGED <<started, stopVars, loop, timerVars, late, counters, last_activity, busy, readVars>>

(* snapshot(): the loads of the buckets, in one step since nothing is said *)
(* of two buckets of one snapshot ...                                      *)
ReadBuckets ==
    /\ reader = 0 /\ Len(taken) < 2
    /\ snap' = [snap EXCEPT !.count = count]
    /\ reader' = 1
    /\ UNCHANGED <<started, stopVars, loop, timerVars, late, counters, busyVars, taken>>

(* ... then of wakes, sum_us and max_us.                                   *)
ReadTotal ==
    /\ \/ reader = 1 /\ snap' = [snap EXCEPT !.wakes = wakes]
       \/ reader = 2 /\ snap' = [snap EXCEPT !.sum_us = sum_us]
       \/ reader = 3 /\ snap' = [snap EXCEPT !.max_us = max_us]
    /\ reader' = reader + 1
    /\ UNCHANGED <<started, stopVars, loop, timerVars, late, counters, busyVars, taken>>

ReturnSnapshot ==
    /\ reader = 4
    /\ taken' = Append(taken, snap)
    /\ snap' = Empty
    /\ reader' = 0
    /\ UNCHANGED <<started, stopVars, loop, timerVars, late, counters, busyVars>>

LoopStep ==
    \/ StartArm \/ RunCancel
    \/ \E w \in waits : \E us \in Lates : Tick(w, us)
    \/ CountBucket \/ CountWake \/ AddSum \/ RaiseMax \/ Rearm

Stop(t) == StopTest(t) \/ StopExchange(t) \/ StopPost(t)

ProbeNext ==
    \/ Start \/ LoopStep \/ note_activity
    \/ \E w \in waits : Expire(w)
    \/ \E t \in Stoppers : Stop(t)
    \/ ReadBuckets \/ ReadTotal \/ ReturnSnapshot

ProbeSpec == ProbeInit /\ [][ProbeNext]_probeVars

(* The loop runs its handlers, time passes, and a thread inside stop()     *)
(* goes on.                                                                *)
Fairness ==
    /\ WF_probeVars(LoopStep)
    /\ WF_probeVars(\E w \in waits : Expire(w))
    /\ \A t \in Stoppers : WF_probeVars(StopExchange(t) \/ StopPost(t))

ProbeFairSpec == ProbeSpec /\ Fairness

-----------------------------------------------------------------------------
(* Once started the probe allocates nothing and never wakes twice over:    *)
(* there is at most one wait, it is in the slot, and until stop() there is *)
(* one whenever the loop is not inside start() or tick()                   *)
(* (reactor_lag.h:30-31).                                                  *)
OneWait ==
    /\ ProbeTypeOK
    /\ \A w \in waits : w.inSlot
    /\ \A v, w \in waits : v = w
    /\ slot_used = (waits # {})
    /\ started /\ ~stopped => (waits # {}) = (loop = "idle")

(* Two snapshots one after the other, read while ticks go on: nothing in   *)
(* their difference is below zero, which as an unsigned number would be    *)
(* enormous, and max_us never falls (reactor_lag.h:93-100).                *)
SinceNeverWraps ==
    Len(taken) = 2 =>
        LET d == since(taken[2], taken[1])
        IN  /\ \A i \in Buckets : d.count[i] >= 0
            /\ d.wakes >= 0 /\ d.sum_us >= 0
            /\ d.max_us >= taken[1].max_us

(* Nothing is counted once the cancel() of stop() has run, though a wait   *)
(* may have expired before it.                                             *)
CancelIsLast == silenced => UNCHANGED counters

(* From the exchange of stop() on there is one cancel(): a thread is about *)
(* to post it, it is queued, or it has run.  After it no wait runs its     *)
(* time, and nothing arms another, however the stop() met a tick           *)
(* (reactor_lag.h:120-124, 182).                                           *)
OneCancel ==
    LET posting == {t \in Stoppers : stopPc[t] = "post"}
    IN  /\ stopped => silenced \/ cancels > 0 \/ posting # {}
        /\ \A s, t \in posting : s = t
        /\ posting # {} => cancels = 0
        /\ cancels <= 1
        /\ silenced => /\ posting = {} /\ cancels = 0
                       /\ loop = "idle" /\ \A w \in waits : w.state # "armed"

(* After stop() the probe comes to rest and stays there: nothing is        *)
(* counted once its one cancel() has run, though a wait may have expired   *)
(* before it, and in the end no wait is left, though a tick may be         *)
(* arming while stop() runs (reactor_lag.h:120-124, 182).                  *)
StopEnds ==
    /\ [][CancelIsLast]_probeVars
    /\ [](OneCancel /\ (stopped => <>[](waits = {} /\ loop = "idle")))

(* Activity is noticed by the wake in progress or, failing that, by the    *)
(* next one, wherever a tick was when it happened: from then on it is not  *)
(* new, and that wake armed the timer at the busy interval                 *)
(* (reactor_lag.h:28-30).                                                  *)
ActivityNoticed ==
    loop = "idle" /\ activity > 0 =>
        /\ wakes >= dueWake => activity = last_activity
        /\ wakes = dueWake => busy

(* Latenesses of each bucket, and beyond the last.                         *)
Sampled == {lower_us(i) : i \in Buckets} \cup {Top}

(* Sequences of up to n of them.                                           *)
Samples(n) == UNION {[1..k -> Sampled] : k \in 0..n}

(* The histogram says how late the wakes were.  Between ticks its buckets  *)
(* add up to wakes, and max_us is in the highest that is not empty, though *)
(* a tick counts the three one after the other.  Every lateness is within  *)
(* the edges of its bucket, and every quantile is right to within a bucket *)
(* (reactor_lag.h:60-91).  The latter two depend on no variable: they are  *)
(* evaluated only before anything has happened, for latenesses next to     *)
(* every edge and for fractions in tenths of up to three of them.          *)
HistogramBounds ==
    /\ loop \in {"idle", "starting"} =>
        /\ Total(count) = wakes
        /\ \A i \in Buckets : count[i] > 0 => i <= index_of(max_us)
        /\ wakes > 0 => count[index_of(max_us)] > 0
    /\ ~started /\ ~stopped /\ activity = 0 /\ reader = 0 /\ taken = <<>> =>
        /\ EdgesPartition({0} \cup NearEdges)
        /\ \A lates \in Samples(3), num \in 0..10, round \in -1..1 :
            QuantileWithinBucket(lates, num, 10, round)
=============================================================================
