--------------------------- MODULE PeriodicTimer ----------------------------
(***************************************************************************)
(* class PeriodicTimer of reactor_events.h: a repeating or one-shot timer  *)
(* on a loop, controlled from any thread.  start(), again() and stop()     *)
(* post their work to the loop; a wait that ended before its timer was     *)
(* cancelled or re-armed is told apart by its generation.                  *)
(*                                                                         *)
(* Time is left out: a wait may end at any moment.  A period is 0, for a   *)
(* one-shot, or 1.                                                         *)
(***************************************************************************)
EXTENDS Naturals, Sequences

CONSTANTS
    Callers,       \* the threads that call start()
    MaxCalls,      \* bound: calls of start(), again(), stop() and set_repeat()
    Generations    \* the values of generation: 2^64 in the code

ASSUME PeriodicTimerAssumption == MaxCalls \in Nat /\ Generations \in Nat \ {0}

VARIABLES
    repeat,        \* repeat_seconds
    generation,    \* generation
    queue,         \* the operations posted to the loop
    waits,         \* the async_waits whose handler has not run
    loop,          \* "idle", or "calling": inside the callback
    firing,        \* the generation admitted for the callback in progress
    startPc,       \* startPc[c] : "idle", or "posting": between start()'s store and its post
    wanted,        \* the repeat of each caller's start()
    calls,         \* calls so far
    live,          \* history: the timer is to fire: it was armed last, not cancelled
    lastStart      \* history: the repeat of the start() that armed it last

callVars == <<startPc, wanted, calls>>
timerVars == <<generation, waits, live>>
periodicVars == <<repeat, queue, loop, firing, lastStart, timerVars, callVars>>

Periods == {0, 1}
NoStart == 2         \* no start() armed it yet
Overridden == 3      \* set_repeat() was called or two start() overlapped: no start() decides alone
Waits == [gen : 0 .. Generations - 1, state : {"waiting", "expired", "cancelled"}]
Operations == [op : {"arm", "again", "cancel"}, repeat : Periods]

TimerTypeOK ==
    /\ repeat \in Periods
    /\ generation \in 0 .. Generations - 1
    /\ queue \in Seq(Operations)
    /\ waits \subseteq Waits
    /\ loop \in {"idle", "calling"}
    /\ firing \in 0 .. Generations - 1
    /\ startPc \in [Callers -> {"idle", "posting"}]
    /\ wanted \in [Callers -> Periods]
    /\ calls \in 0 .. MaxCalls
    /\ live \in BOOLEAN
    /\ lastStart \in Periods \cup {NoStart, Overridden}

TimerInit ==
    /\ repeat = 0
    /\ generation = 0
    /\ queue = <<>>
    /\ waits = {}
    /\ loop = "idle"
    /\ firing = 0
    /\ startPc = [c \in Callers |-> "idle"]
    /\ wanted = [c \in Callers |-> 0]
    /\ calls = 0
    /\ live = FALSE
    /\ lastStart = NoStart

-----------------------------------------------------------------------------
(* The calls, from any thread or from the callback.                        *)

ACall == calls < MaxCalls /\ calls' = calls + 1

Posted(op, r) == queue' = Append(queue, [op |-> op, repeat |-> r])

Overlap(c) == \E d \in Callers \ {c} : startPc[d] = "posting"

(* Mutant: a repeat that is set is kept.                                   *)
KeepRepeat(c, r) ==
    /\ startPc[c] = "idle"
    /\ ACall
    /\ repeat' = IF repeat = 0 THEN r ELSE repeat
    /\ wanted' = [wanted EXCEPT ![c] = r]
    /\ startPc' = [startPc EXCEPT ![c] = "posting"]
    /\ lastStart' = IF Overlap(c) THEN Overridden ELSE lastStart
    /\ UNCHANGED <<queue, loop, firing, timerVars>>

(* start(): the store to repeat_seconds ...                                *)
StoreRepeat(c, r) ==
    /\ startPc[c] = "idle"
    /\ ACall
    /\ repeat' = r
    /\ wanted' = [wanted EXCEPT ![c] = r]
    /\ startPc' = [startPc EXCEPT ![c] = "posting"]
    /\ lastStart' = IF Overlap(c) THEN Overridden ELSE lastStart
    /\ UNCHANGED <<queue, loop, firing, timerVars>>

(* ... then the post of arm(after).                                        *)
PostArm(c) ==
    /\ startPc[c] = "posting"
    /\ Posted("arm", wanted[c])
    /\ startPc' = [startPc EXCEPT ![c] = "idle"]
    /\ UNCHANGED <<repeat, loop, firing, lastStart, wanted, calls, timerVars>>

Again ==
    /\ ACall
    /\ Posted("again", 0)
    /\ UNCHANGED <<repeat, loop, firing, lastStart, startPc, wanted, timerVars>>

Stop ==
    /\ ACall
    /\ Posted("cancel", 0)
    /\ UNCHANGED <<repeat, loop, firing, lastStart, startPc, wanted, timerVars>>

SetRepeat(r) ==
    /\ ACall
    /\ repeat' = r
    /\ lastStart' = Overridden
    /\ UNCHANGED <<queue, loop, firing, startPc, wanted, timerVars>>

-----------------------------------------------------------------------------
(* The loop.                                                               *)

(* ++generation, a uint64_t.                                               *)
Bumped == (generation + 1) % Generations

(* bound: before the loop bumps the generation it runs the handler of a    *)
(* wait whose generation would come again; the code would have to arm 2^64 *)
(* times before it did.                                                    *)
BumpedIsFresh == \A w \in waits : w.gen # Bumped

(* timer.cancel(), and what expires_after() does first: the wait ends with *)
(* an error, unless it already ended.                                      *)
CancelledWaits == {[w EXCEPT !.state = IF @ = "waiting" THEN "cancelled" ELSE @] : w \in waits}

Cancel ==
    /\ generation' = Bumped
    /\ waits' = CancelledWaits
    /\ live' = FALSE

(* Mutant: re-arming keeps the generation.                                 *)
ArmSameGeneration ==
    /\ waits' = CancelledWaits \cup {[gen |-> generation, state |-> "waiting"]}
    /\ live' = TRUE
    /\ UNCHANGED generation

Arm ==
    /\ generation' = Bumped
    /\ waits' = CancelledWaits \cup {[gen |-> Bumped, state |-> "waiting"]}
    /\ live' = TRUE

RunPosted ==
    LET next == Head(queue)
    IN  /\ loop = "idle" /\ queue # <<>>
        /\ BumpedIsFresh
        /\ queue' = Tail(queue)
        /\ IF next.op = "arm" \/ (next.op = "again" /\ repeat > 0) THEN Arm ELSE Cancel
        /\ lastStart' = IF next.op = "arm" /\ lastStart # Overridden THEN next.repeat ELSE lastStart
        /\ UNCHANGED <<repeat, loop, firing, callVars>>

(* The time of a wait comes: its handler is queued, without an error.      *)
Expire(w) ==
    /\ w.state = "waiting"
    /\ waits' = (waits \ {w}) \cup {[w EXCEPT !.state = "expired"]}
    /\ UNCHANGED <<repeat, queue, loop, firing, lastStart, generation, live, callVars>>

(* Mutant: the error alone decides.                                        *)
CompleteOnNoError(w) ==
    /\ loop = "idle"
    /\ w.state \in {"expired", "cancelled"}
    /\ w.gen = generation => BumpedIsFresh
    /\ waits' = waits \ {w}
    /\ IF w.state = "cancelled"
       THEN UNCHANGED <<loop, firing>>
       ELSE loop' = "calling" /\ firing' = w.gen
    /\ UNCHANGED <<repeat, queue, lastStart, generation, live, callVars>>

(* The handler of a wait, up to the callback.                              *)
Complete(w) ==
    /\ loop = "idle"
    /\ w.state \in {"expired", "cancelled"}
    /\ w.gen = generation => BumpedIsFresh
    /\ waits' = waits \ {w}
    /\ IF w.state = "cancelled" \/ w.gen # generation
       THEN UNCHANGED <<loop, firing>>
       ELSE loop' = "calling" /\ firing' = w.gen
    /\ UNCHANGED <<repeat, queue, lastStart, generation, live, callVars>>

(* Mutant: an exception of the callback leaves before the timer is armed   *)
(* again.                                                                  *)
EndCallbackThrown ==
    /\ loop = "calling"
    /\ loop' = "idle"
    /\ \/ repeat > 0 /\ Arm
       \/ UNCHANGED timerVars
    /\ UNCHANGED <<repeat, queue, firing, lastStart, callVars>>

(* The callback returns or throws; either way the timer is armed again for *)
(* its repeat, before the exception goes on to the loop's owner.           *)
EndCallback ==
    /\ loop = "calling"
    /\ loop' = "idle"
    /\ IF repeat > 0 /\ firing = generation
       THEN Arm
       ELSE live' = FALSE /\ UNCHANGED <<generation, waits>>
    /\ UNCHANGED <<repeat, queue, firing, lastStart, callVars>>

LoopStep == RunPosted \/ EndCallback \/ \E w \in waits : Complete(w)

(* Everything was called and the timer is at rest.                         *)
AtRest ==
    /\ calls = MaxCalls /\ queue = <<>> /\ waits = {} /\ loop = "idle"
    /\ \A c \in Callers : startPc[c] = "idle"
    /\ UNCHANGED periodicVars

TimerNext ==
    \/ Again \/ Stop \/ LoopStep \/ AtRest
    \/ \E r \in Periods : SetRepeat(r) \/ \E c \in Callers : StoreRepeat(c, r)
    \/ \E c \in Callers : PostArm(c)
    \/ \E w \in waits : Expire(w)

TimerSpec == TimerInit /\ [][TimerNext]_periodicVars

(* The loop runs its handlers, time passes, and a thread inside start()    *)
(* goes on.                                                                *)
Fairness ==
    /\ WF_periodicVars(RunPosted)
    /\ WF_periodicVars(EndCallback)
    /\ WF_periodicVars(\E w \in waits : Complete(w))
    /\ WF_periodicVars(\E w \in waits : Expire(w))
    /\ \A c \in Callers : WF_periodicVars(PostArm(c))

TimerFairSpec == TimerSpec /\ Fairness

-----------------------------------------------------------------------------
(* The callback runs only for the newest arming and never after a stop()   *)
(* or an again() that cancelled has run on the loop, though a wait that    *)
(* ended earlier is already in the queue (reactor_events.h:105).           *)
NoStaleFire == loop = "calling" => live /\ firing = generation

(* The waits whose handler would call.                                     *)
Current == {w \in waits : w.gen = generation /\ w.state # "cancelled"}

(* The timer fires along one chain: at most one outstanding wait, or the   *)
(* callback in progress, can lead to another arming, and while the timer   *)
(* is armed there is one, whether or not the callback threw                *)
(* (reactor_events.h:105-111).                                             *)
OneChain ==
    /\ TimerTypeOK
    /\ \A v, w \in Current : v = w
    /\ loop = "calling" => Current = {}
    /\ live <=> loop = "calling" \/ Current # {}

Quiescent == queue = <<>> /\ \A c \in Callers : startPc[c] = "idle"

(* Left alone, an armed timer keeps firing, whether or not its callback    *)
(* throws (reactor_events.h:107-111).                                      *)
KeepsFiring == <>[](Quiescent /\ live) => []<>(loop = "calling")

(* With every call over the timer repeats as the start() that armed it     *)
(* last asked (reactor_events.h:46-48), unless set_repeat() was called or  *)
(* two calls of start() overlapped: each is a store and a post, and the    *)
(* one that arms last may have stored first.                               *)
StartKept == Quiescent /\ lastStart \in Periods => repeat = lastStart
=============================================================================
