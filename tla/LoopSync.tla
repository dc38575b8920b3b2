------------------------------ MODULE LoopSync ------------------------------
(***************************************************************************)
(* Reactor::on_loop_sync of reactor.h: a thread runs a function f on the   *)
(* reactor's loop and returns after it ran, or runs f itself when no       *)
(* thread is inside the loop's run().  The caller and the handler it posts *)
(* race for the call through sync_open_; the result travels through        *)
(* sync_done_ and the condition variable sync_changed_.                    *)
(*                                                                         *)
(* Every action makes at most one access to shared memory, or runs one     *)
(* critical section of sync_mutex_.  A critical section of one action      *)
(* needs the mutex free and leaves it free; the only section of several    *)
(* actions is the one between evaluating the wait predicate and going to   *)
(* sleep, where the caller holds it.                                       *)
(***************************************************************************)
EXTENDS Naturals, Sequences

CONSTANTS
    Callers,      \* threads, none of them the loop's, that call on_loop_sync
    MaxCalls,     \* bound: no caller starts a call again once so many got an id
    None          \* nobody holds the mutex

ASSUME LoopSyncAssumption == None \notin Callers /\ MaxCalls \in Nat

VARIABLES
    loops,        \* loops_: the claims of the loop
    loopPc,       \* where the loop's thread is
    current,      \* the call whose handler the loop's thread is running
    stopped,      \* the io_context is stopped: run() returns after the current handler
    queue,        \* the handlers posted to the io_context, by call id
    sync_call,    \* who holds the mutex sync_call_
    sync_mutex,   \* who holds the mutex sync_mutex_ across actions
    sync_calls,   \* sync_calls_: the last call id given out
    sync_open,    \* sync_open_: the call not yet taken, 0 for none
    sync_done,    \* sync_done_: the last call the loop completed
    pc,           \* where each caller is
    id,           \* each caller's call id
    ran           \* history: how often each caller's current f has run

loopVars == <<loops, loopPc, current, stopped>>
syncVars == <<sync_call, sync_mutex, sync_calls, sync_open, sync_done>>
callVars == <<pc, id, ran>>
vars == <<loopVars, queue, syncVars, callVars>>

LoopStates == {"out", "claimed", "running", "taken", "ran", "left", "notify"}
CallStates == {"idle", "inline", "lock", "open", "post", "wait", "sleepy",
               "asleep", "took", "returned"}

(* The loop's thread is between claim_loop() and release_loop().           *)
Claimed == {"claimed", "running", "taken", "ran", "left"}
(* The caller holds sync_call_.                                            *)
Serialised == {"open", "post", "wait", "sleepy", "asleep", "took"}
(* The caller is inside sync_changed_.wait().                              *)
Waiting == {"wait", "sleepy", "asleep"}
(* The caller's own thread is inside f.                                    *)
RunsHere == {"inline", "took"}

TypeOK ==
    /\ loops \in Nat
    /\ loopPc \in LoopStates
    /\ current \in Nat
    /\ stopped \in BOOLEAN
    /\ queue \in Seq(Nat)
    /\ sync_call \in Callers \cup {None}
    /\ sync_mutex \in Callers \cup {None}
    /\ sync_calls \in Nat
    /\ sync_open \in Nat
    /\ sync_done \in Nat
    /\ pc \in [Callers -> CallStates]
    /\ id \in [Callers -> Nat]
    /\ ran \in [Callers -> Nat]

Init ==
    /\ loops = 0
    /\ loopPc = "out"
    /\ current = 0
    /\ stopped = FALSE
    /\ queue = <<>>
    /\ sync_call = None
    /\ sync_mutex = None
    /\ sync_calls = 0
    /\ sync_open = 0
    /\ sync_done = 0
    /\ pc = [c \in Callers |-> "idle"]
    /\ id = [c \in Callers |-> 0]
    /\ ran = [c \in Callers |-> 0]

-----------------------------------------------------------------------------
(* The loop's thread.                                                      *)

(* claim_loop(), by a host or by start(), whatever the callers are doing.  *)
Claim ==
    /\ loopPc = "out"
    /\ loops' = loops + 1
    /\ loopPc' = "claimed"
    /\ UNCHANGED <<current, stopped, queue, syncVars, callVars>>

(* A host readies a stopped io_context for another run(): io().restart(),  *)
(* which nothing in the library calls.                                     *)
Restart ==
    /\ loopPc = "out"
    /\ stopped
    /\ stopped' = FALSE
    /\ UNCHANGED <<loops, loopPc, current, queue, syncVars, callVars>>

(* The claimed thread enters run().                                        *)
EnterRun ==
    /\ loopPc = "claimed"
    /\ loopPc' = "running"
    /\ UNCHANGED <<loops, current, stopped, queue, syncVars, callVars>>

(* A host, a handler or stop() stops the io_context, at any time.          *)
StopLoop ==
    /\ ~stopped
    /\ stopped' = TRUE
    /\ UNCHANGED <<loops, loopPc, current, queue, syncVars, callVars>>

(* Mutant: no test of sync_open_.                                          *)
RunHandlerUntested ==
    /\ loopPc = "running"
    /\ ~stopped
    /\ queue # <<>>
    /\ sync_mutex = None
    /\ queue' = Tail(queue)
    /\ sync_open' = 0
    /\ current' = Head(queue)
    /\ loopPc' = "taken"
    /\ UNCHANGED <<loops, stopped, sync_call, sync_mutex, sync_calls, sync_done, callVars>>

(* Mutant: the call is published as it is taken.                           *)
RunHandlerPublishes ==
    /\ loopPc = "running"
    /\ ~stopped
    /\ queue # <<>>
    /\ sync_mutex = None
    /\ queue' = Tail(queue)
    /\ IF sync_open = Head(queue)
       THEN /\ sync_open' = 0
            /\ current' = Head(queue)
            /\ sync_done' = Head(queue)
            /\ loopPc' = "taken"
       ELSE UNCHANGED <<sync_open, current, sync_done, loopPc>>
    /\ UNCHANGED <<loops, stopped, sync_call, sync_mutex, sync_calls, callVars>>

(* The posted handler up to the call of f: it takes the call, or returns   *)
(* because the caller took it.                                             *)
RunHandler ==
    /\ loopPc = "running"
    /\ ~stopped
    /\ queue # <<>>
    /\ sync_mutex = None
    /\ queue' = Tail(queue)
    /\ IF sync_open = Head(queue)
       THEN /\ sync_open' = 0
            /\ current' = Head(queue)
            /\ loopPc' = "taken"
       ELSE UNCHANGED <<sync_open, current, loopPc>>
    /\ UNCHANGED <<loops, stopped, sync_call, sync_mutex, sync_calls, sync_done, callVars>>

(* f returns on the loop.  f is the caller's, reached by reference.        *)
FinishOnLoop ==
    /\ loopPc = "taken"
    /\ loopPc' = "ran"
    /\ ran' = [c \in Callers |-> IF id[c] = current /\ pc[c] \in Serialised
                                 THEN ran[c] + 1 ELSE ran[c]]
    /\ UNCHANGED <<loops, current, stopped, queue, syncVars, pc, id>>

(* sync_changed_.notify_all().                                             *)
Woken == [c \in Callers |-> IF pc[c] = "asleep" THEN "wait" ELSE pc[c]]

(* Mutant: no notification.                                                *)
PublishSilently ==
    /\ loopPc = "ran"
    /\ sync_mutex = None
    /\ sync_done' = current
    /\ loopPc' = "running"
    /\ UNCHANGED <<loops, current, stopped, queue, sync_call, sync_mutex, sync_calls, sync_open, callVars>>

(* The end of the posted handler: sync_done_ and the notification, both    *)
(* under the lock.                                                         *)
PublishDone ==
    /\ loopPc = "ran"
    /\ sync_mutex = None
    /\ sync_done' = current
    /\ pc' = Woken
    /\ loopPc' = "running"
    /\ UNCHANGED <<loops, current, stopped, queue, sync_call, sync_mutex, sync_calls, sync_open, id, ran>>

(* run() returns: the io_context is stopped.                               *)
LeaveRun ==
    /\ loopPc = "running"
    /\ stopped
    /\ loopPc' = "left"
    /\ UNCHANGED <<loops, current, stopped, queue, syncVars, callVars>>

(* release_loop(): the decrement under the lock ...                        *)
Release ==
    /\ loopPc = "left"
    /\ sync_mutex = None
    /\ loops' = loops - 1
    /\ loopPc' = "notify"
    /\ UNCHANGED <<current, stopped, queue, syncVars, callVars>>

(* ... then the notification, after it.                                    *)
ReleaseNotify ==
    /\ loopPc = "notify"
    /\ pc' = Woken
    /\ loopPc' = "out"
    /\ UNCHANGED <<loops, current, stopped, queue, syncVars, id, ran>>

LoopStep ==
    EnterRun \/ RunHandler \/ FinishOnLoop \/ PublishDone \/ LeaveRun \/ Release \/ ReleaseNotify

-----------------------------------------------------------------------------
(* A caller.                                                               *)

(* Mutant: asks whether the io_context is stopped, not whether a thread is *)
(* inside run().                                                           *)
CallTestsStopped(c) ==
    /\ pc[c] = "idle"
    /\ pc' = [pc EXCEPT ![c] = IF stopped THEN "inline" ELSE "lock"]
    /\ ran' = [ran EXCEPT ![c] = 0]
    /\ UNCHANGED <<loopVars, queue, syncVars, id>>

(* The test for a loop: without one f runs here and now, under no lock.    *)
Call(c) ==
    /\ pc[c] = "idle"
    /\ pc' = [pc EXCEPT ![c] = IF loops = 0 THEN "inline" ELSE "lock"]
    /\ ran' = [ran EXCEPT ![c] = 0]
    /\ UNCHANGED <<loopVars, queue, syncVars, id>>

FinishInline(c) ==
    /\ pc[c] = "inline"
    /\ pc' = [pc EXCEPT ![c] = "returned"]
    /\ ran' = [ran EXCEPT ![c] = @ + 1]
    /\ UNCHANGED <<loopVars, queue, syncVars, id>>

(* Mutant: the id is sync_calls_++, not ++sync_calls_.                     *)
LockCallOldId(c) ==
    /\ pc[c] = "lock"
    /\ sync_call = None
    /\ sync_call' = c
    /\ sync_calls' = sync_calls + 1
    /\ id' = [id EXCEPT ![c] = sync_calls]
    /\ pc' = [pc EXCEPT ![c] = "open"]
    /\ UNCHANGED <<loopVars, queue, sync_mutex, sync_open, sync_done, ran>>

LockCall(c) ==
    /\ pc[c] = "lock"
    /\ sync_call = None
    /\ sync_call' = c
    /\ sync_calls' = sync_calls + 1
    /\ id' = [id EXCEPT ![c] = sync_calls + 1]
    /\ pc' = [pc EXCEPT ![c] = "open"]
    /\ UNCHANGED <<loopVars, queue, sync_mutex, sync_open, sync_done, ran>>

OpenCall(c) ==
    /\ pc[c] = "open"
    /\ sync_mutex = None
    /\ sync_open' = id[c]
    /\ pc' = [pc EXCEPT ![c] = "post"]
    /\ UNCHANGED <<loopVars, queue, sync_call, sync_mutex, sync_calls, sync_done, id, ran>>

PostHandler(c) ==
    /\ pc[c] = "post"
    /\ queue' = Append(queue, id[c])
    /\ pc' = [pc EXCEPT ![c] = "wait"]
    /\ UNCHANGED <<loopVars, syncVars, id, ran>>

(* Mutant: the caller takes the call as soon as the io_context is stopped. *)
WaitOverStopped(c) == sync_done = id[c] \/ (sync_open = id[c] /\ stopped)

(* The predicate of sync_changed_.wait().                                  *)
WaitOver(c) == sync_done = id[c] \/ (sync_open = id[c] /\ loops = 0)

(* Evaluates the predicate under the lock.  The loop completed the call:   *)
(* return, releasing both mutexes.                                         *)
WaitReturn(c) ==
    /\ pc[c] = "wait"
    /\ sync_mutex = None
    /\ WaitOver(c)
    /\ sync_done = id[c]
    /\ sync_call' = None
    /\ pc' = [pc EXCEPT ![c] = "returned"]
    /\ UNCHANGED <<loopVars, queue, sync_mutex, sync_calls, sync_open, sync_done, id, ran>>

(* The loop is gone and did not take the call: take it.                    *)
WaitTake(c) ==
    /\ pc[c] = "wait"
    /\ sync_mutex = None
    /\ WaitOver(c)
    /\ sync_done # id[c]
    /\ sync_open' = 0
    /\ pc' = [pc EXCEPT ![c] = "took"]
    /\ UNCHANGED <<loopVars, queue, sync_call, sync_mutex, sync_calls, sync_done, id, ran>>

(* The predicate is false: the lock is kept until the thread sleeps.       *)
WaitFalse(c) ==
    /\ pc[c] = "wait"
    /\ sync_mutex = None
    /\ ~WaitOver(c)
    /\ sync_mutex' = c
    /\ pc' = [pc EXCEPT ![c] = "sleepy"]
    /\ UNCHANGED <<loopVars, queue, sync_call, sync_calls, sync_open, sync_done, id, ran>>

Sleep(c) ==
    /\ pc[c] = "sleepy"
    /\ sync_mutex' = None
    /\ pc' = [pc EXCEPT ![c] = "asleep"]
    /\ UNCHANGED <<loopVars, queue, sync_call, sync_calls, sync_open, sync_done, id, ran>>

FinishTaken(c) ==
    /\ pc[c] = "took"
    /\ ran' = [ran EXCEPT ![c] = @ + 1]
    /\ sync_call' = None
    /\ pc' = [pc EXCEPT ![c] = "returned"]
    /\ UNCHANGED <<loopVars, queue, sync_mutex, sync_calls, sync_open, sync_done, id>>

(* The thread is ready for another call.                                   *)
Again(c) ==
    /\ pc[c] = "returned"
    /\ sync_calls < MaxCalls
    /\ pc' = [pc EXCEPT ![c] = "idle"]
    /\ UNCHANGED <<loopVars, queue, syncVars, id, ran>>

(* What a call does once it has begun.                                     *)
CallStep(c) ==
    \/ FinishInline(c) \/ LockCall(c) \/ OpenCall(c) \/ PostHandler(c)
    \/ WaitReturn(c) \/ WaitTake(c) \/ WaitFalse(c) \/ Sleep(c) \/ FinishTaken(c)

Next ==
    \/ Claim \/ Restart \/ StopLoop \/ LoopStep
    \/ \E c \in Callers : Call(c) \/ CallStep(c) \/ Again(c)

Spec == Init /\ [][Next]_vars

(* The operating system runs the loop's thread and the threads inside a    *)
(* call.  Nothing says that the mutexes are granted in turn, that anyone   *)
(* claims the loop, or that anyone stops it.  A host does not claim and    *)
(* release the loop for ever: claims of a stopped loop could each come     *)
(* before a waiting thread has seen that the loop was gone.                *)
Fairness ==
    /\ <>[][~Claim]_vars
    /\ WF_vars(LoopStep)
    /\ \A c \in Callers : WF_vars(CallStep(c))

FairSpec == Spec /\ Fairness

-----------------------------------------------------------------------------
(* A call returns with its f run, and no f runs twice: whichever side      *)
(* takes the call through sync_open_ runs it (reactor.h:269-271).          *)
RunsOnce ==
    \A c \in Callers : ran[c] <= 1 /\ (pc[c] = "returned" => ran[c] = 1)

(* The handler reaches f and the reactor by reference: while it is past    *)
(* its test of sync_open_ and before its notification, the call's thread   *)
(* is still inside on_loop_sync (reactor.h:273-274).                       *)
NoDanglingCall ==
    loopPc \in {"taken", "ran"} =>
        \E c \in Callers : id[c] = current /\ pc[c] \in Waiting

(* A thread begins to run f itself only when no thread is between its      *)
(* claim and its release of the loop, whatever became of the io_context    *)
(* meanwhile (reactor.h:276, 292).  That it also ends before the loop is   *)
(* claimed again is the host's affair: nothing in claim_loop() waits.      *)
NoRaceWithLoop ==
    [][\A c \in Callers : pc[c] \notin RunsHere /\ pc'[c] \in RunsHere => loopPc' \notin Claimed]_vars

(* A thread that sleeps has its notification still to come: the loop is    *)
(* about to notify, or runs the thread's call, or is claimed and has the   *)
(* handler of the open call in its queue, so that it takes the call or     *)
(* leaves and releases the loop (reactor.h:289-293).                       *)
NotificationOwed ==
    \A c \in Callers : pc[c] = "asleep" =>
        \/ loopPc = "notify"
        \/ loopPc \in {"taken", "ran"} /\ current = id[c]
        \/ loopPc \in Claimed /\ sync_open = id[c] /\ \E i \in 1..Len(queue) : queue[i] = id[c]

(* Every call returns, also when the loop is stopped under it: the         *)
(* notifications of the handler and of release_loop() are never lost.      *)
EveryCallReturns ==
    \A c \in Callers :
        [](/\ NotificationOwed
           /\ pc[c] \in CallStates \ {"idle", "returned"} => <>(pc[c] = "returned"))

-----------------------------------------------------------------------------
(* The inductive invariant behind the three safety properties.             *)

(* loops_ counts exactly the thread between claim and release.             *)
LoopsExact == loops = IF loopPc \in Claimed THEN 1 ELSE 0

(* sync_call_ is held by exactly the callers past it, whose id is the      *)
(* newest one.                                                             *)
CallOwned ==
    /\ \A c \in Callers : pc[c] \in Serialised <=> sync_call = c
    /\ \A c \in Callers : pc[c] \in Serialised => id[c] = sync_calls /\ id[c] > 0

(* The open call is the owner's, opened and not yet taken.                 *)
OpenCallLive ==
    sync_open # 0 => \E c \in Callers :
        /\ sync_call = c
        /\ sync_open = id[c]
        /\ pc[c] \in {"post", "wait", "sleepy", "asleep"}

(* The loop runs a call only while its caller waits for it, and sync_open_ *)
(* no longer offers it.                                                    *)
TakenCallLive ==
    loopPc \in {"taken", "ran"} => \E c \in Callers :
        /\ sync_call = c
        /\ current = id[c]
        /\ pc[c] \in Waiting
        /\ sync_open = 0
        /\ sync_done # current

(* A handler is posted only for an id already given out, and the newest    *)
(* one only once its caller waits.                                         *)
QueuedCalls ==
    \A i \in 1..Len(queue) :
        /\ queue[i] <= sync_calls
        /\ queue[i] > 0
        /\ \A c \in Callers : pc[c] \in {"open", "post"} => queue[i] < sync_calls

(* sync_done_ names the newest call only after it was taken.               *)
DoneCall ==
    /\ sync_done <= sync_calls
    /\ \A c \in Callers : pc[c] \in {"open", "post", "took"} => sync_done # id[c]
    /\ \A c \in Callers : pc[c] \in Serialised /\ sync_done = id[c] => sync_open = 0

(* How often f has run follows from where the call stands.                 *)
RanExact ==
    \A c \in Callers :
        /\ pc[c] \in {"inline", "lock", "open", "post", "took"} => ran[c] = 0
        /\ pc[c] \in Waiting =>
             ran[c] = IF sync_done = id[c] \/ loopPc = "ran" THEN 1 ELSE 0
        /\ pc[c] = "returned" => ran[c] = 1
        /\ ran[c] <= 1

Inv ==
    /\ TypeOK
    /\ LoopsExact
    /\ CallOwned
    /\ OpenCallLive
    /\ TakenCallLive
    /\ QueuedCalls
    /\ DoneCall
    /\ RanExact

(* What makes it inductive that no notification is lost: the lock is kept  *)
(* from the predicate to the sleep, a call is open with its handler        *)
(* posted, taken or done while its caller waits, and what would end a      *)
(* sleep has yet to be notified.                                           *)
Sleeps(c) ==
    /\ pc[c] = "sleepy" <=> sync_mutex = c
    /\ pc[c] = "post" => sync_open = id[c]
    /\ pc[c] \in Waiting =>
        \/ sync_done = id[c]
        \/ sync_open = id[c] /\ \E i \in 1..Len(queue) : queue[i] = id[c]
        \/ loopPc \in {"taken", "ran"} /\ current = id[c]
    /\ pc[c] = "sleepy" => ~WaitOver(c)
    /\ pc[c] = "asleep" => ~WaitOver(c) \/ loopPc = "notify"

SleepInv == \A c \in Callers : Sleeps(c)
=============================================================================
