----------------------------- MODULE UdpServer ------------------------------
(***************************************************************************)
(* class UdpServer of reactor_udp.h: one reactor with one thread, the      *)
(* socket, the receive loop, and the owner's thread through start() and    *)
(* the phases stop(), close(), destroy_roots() and the destructor, which   *)
(* it may call in any order and again.                                     *)
(*                                                                         *)
(* The reactor is module Reactor, with the owner as its only caller: the   *)
(* host's handlers on the loop track, untrack and abort as they do there.  *)
(* Here a callback of a walk may also throw.  On this loop an exception    *)
(* ends the handler it escapes from and nothing else: the thread reports   *)
(* it and goes back into run().                                            *)
(***************************************************************************)
EXTENDS Naturals, Sequences

CONSTANTS
    Callers,        \* the owner's thread alone
    MaxCalls,       \* bound: the calls of abort_all()
    None,
    Abortables,
    MaxDatagrams    \* bound: datagrams that arrive

ASSUME UdpServerAssumption ==
    /\ \E o \in Callers : Callers = {o}
    /\ None \notin Callers
    /\ MaxCalls \in Nat /\ MaxDatagrams \in Nat

VARIABLES
    loops, loopPc, current, stopped, queue,
    sync_call, sync_mutex, sync_calls, sync_open, sync_done, pc, id, ran,
    calls, op, aborting, walked, forced, aborts, walk, cursor, calling,
    abortRuns, forceRuns, abortReturned,
    owner,        \* where the owner is: "out" or a step of start() or of a phase
    goal,         \* the phase the owner called
    open,         \* socket_ is open
    joinable,     \* thread_.joinable()
    receiver,     \* the receive loop: "none", "spawned", "waiting", "ended", "destroyed"
    closed,       \* the scheduler is closed
    pending,      \* datagrams in the socket's buffer
    arrived,      \* history: datagrams that came
    receiveFailed,\* history: a receive completed with an error
    unwound       \* history: an exception of abort() escaped a walk that stop() waits for

R == INSTANCE Reactor

reactorVars == <<loops, loopPc, current, stopped, queue, sync_call, sync_mutex, sync_calls,
                 sync_open, sync_done, pc, id, ran, calls, op, aborting, walked, forced,
                 aborts, walk, cursor, calling, abortRuns, forceRuns, abortReturned>>
netVars == <<pending, arrived, receiveFailed>>
ownVars == <<owner, goal, open, joinable, receiver, closed, unwound>>
vars == <<reactorVars, ownVars, netVars>>

Owner == CHOOSE o \in Callers : TRUE

Phases == {"stop", "close", "destroy"}

TypeOK ==
    /\ R!TypeOK
    /\ owner \in {"out", "bind", "spawn", "claim", "thread", "unclaim", "abort", "walk",
                  "join", "close", "destroy"}
    /\ goal \in Phases
    /\ {open, joinable, closed, receiveFailed, unwound} \subseteq BOOLEAN
    /\ receiver \in {"none", "spawned", "waiting", "ended", "destroyed"}
    /\ pending \in 0..MaxDatagrams /\ arrived \in 0..MaxDatagrams

Init ==
    /\ R!Init
    /\ owner = "out" /\ goal = "stop"
    /\ open = FALSE /\ joinable = FALSE
    /\ receiver = "none" /\ closed = FALSE
    /\ pending = 0 /\ arrived = 0
    /\ receiveFailed = FALSE /\ unwound = FALSE

At(step) == owner = step

-----------------------------------------------------------------------------
(* The owner's start(); one after close() is left out.                     *)

Start ==
    /\ At("out") /\ ~closed
    /\ owner' = "bind"
    /\ UNCHANGED <<reactorVars, goal, open, joinable, receiver, closed, unwound, netVars>>

(* A bad address throws before the socket is opened, open() throws on a    *)
(* socket that an earlier start() opened, and an option, the bind or the   *)
(* join may throw after it.                                                *)
BindThrows ==
    /\ At("bind")
    /\ open' \in {open, TRUE}
    /\ owner' = "out"
    /\ UNCHANGED <<reactorVars, goal, joinable, receiver, closed, unwound, netVars>>

Bind ==
    /\ At("bind") /\ ~open
    /\ open' = TRUE
    /\ owner' = "spawn"
    /\ UNCHANGED <<reactorVars, goal, joinable, receiver, closed, unwound, netVars>>

(* The receive loop is spawned, or the memory for it is not there.         *)
Spawn ==
    /\ At("spawn")
    /\ \/ receiver' = "spawned" /\ owner' = "claim"
       \/ owner' = "out" /\ UNCHANGED receiver
    /\ UNCHANGED <<reactorVars, goal, open, joinable, closed, unwound, netVars>>

ClaimLoop ==
    /\ At("claim")
    /\ R!Claim
    /\ owner' = "thread"
    /\ UNCHANGED <<goal, open, joinable, receiver, closed, unwound, netVars>>

StartThread ==
    /\ At("thread")
    /\ joinable' = TRUE
    /\ owner' = "out"
    /\ UNCHANGED <<reactorVars, goal, open, receiver, closed, unwound, netVars>>

(* std::thread throws: the owner releases the claim in the thread's place. *)
ThreadThrows ==
    /\ At("thread")
    /\ R!NeverRan
    /\ owner' = "unclaim"
    /\ UNCHANGED <<goal, open, joinable, receiver, closed, unwound, netVars>>

Unclaim ==
    /\ At("unclaim")
    /\ R!LoopOnly
    /\ UNCHANGED <<ownVars, netVars>>

(* Mutant: the loop is not stopped.                                        *)
LeaveRunning ==
    /\ At("unclaim") /\ loopPc = "out"
    /\ owner' = "out"
    /\ UNCHANGED <<reactorVars, goal, open, joinable, receiver, closed, unwound, netVars>>

(* io().stop() before start() throws on.                                   *)
StopUnstarted ==
    /\ At("unclaim") /\ loopPc = "out"
    /\ R!StopIo
    /\ owner' = "out"
    /\ UNCHANGED <<goal, open, joinable, receiver, closed, unwound, netVars>>

-----------------------------------------------------------------------------
(* The owner's phases.                                                     *)

AfterStop(phase) == IF phase = "stop" THEN "out" ELSE "close"

(* stop(), close() or destroy_roots(): stop() comes first in each, and has *)
(* nothing to do without a thread.                                         *)
Phase(phase) ==
    /\ At("out")
    /\ goal' = phase
    /\ owner' = IF joinable THEN "abort" ELSE AfterStop(phase)
    /\ UNCHANGED <<reactorVars, open, joinable, receiver, closed, unwound, netVars>>

AbortAll ==
    /\ At("abort")
    /\ R!AbortAll(Owner)
    /\ owner' = "walk"
    /\ UNCHANGED <<goal, open, joinable, receiver, closed, unwound, netVars>>

InAbortAll ==
    /\ At("walk")
    /\ R!CallStep(Owner)
    /\ UNCHANGED <<ownVars, netVars>>

(* Mutant: the loop is not stopped.                                        *)
StopNothing ==
    /\ At("walk") /\ op[Owner] = "none"
    /\ owner' = "join"
    /\ UNCHANGED <<reactorVars, goal, open, joinable, receiver, closed, unwound, netVars>>

(* abort_all() returned: io().stop().                                      *)
StopIo ==
    /\ At("walk") /\ op[Owner] = "none"
    /\ R!StopIo
    /\ owner' = "join"
    /\ UNCHANGED <<goal, open, joinable, receiver, closed, unwound, netVars>>

Join ==
    /\ At("join") /\ loopPc = "out"
    /\ joinable' = FALSE
    /\ owner' = AfterStop(goal)
    /\ UNCHANGED <<reactorVars, goal, open, receiver, closed, unwound, netVars>>

(* The scheduler's close() destroys what is spawned and has not run.       *)
Close ==
    /\ At("close")
    /\ closed' = TRUE
    /\ receiver' = IF receiver = "spawned" THEN "destroyed" ELSE receiver
    /\ owner' = IF goal = "close" THEN "out" ELSE "destroy"
    /\ UNCHANGED <<reactorVars, goal, open, joinable, unwound, netVars>>

(* Its destroy_roots() destroys what is suspended.                         *)
DestroyRoots ==
    /\ At("destroy")
    /\ receiver' = IF receiver = "waiting" THEN "destroyed" ELSE receiver
    /\ owner' = "out"
    /\ UNCHANGED <<reactorVars, goal, open, joinable, closed, unwound, netVars>>

-----------------------------------------------------------------------------
(* The loop's thread, and what runs on it.                                 *)

HasThread == ~At("thread") /\ ~At("unclaim")

LoopStep ==
    /\ HasThread
    /\ R!LoopStep
    /\ UNCHANGED <<ownVars, netVars>>

Visit == R!Visit /\ UNCHANGED <<ownVars, netVars>>

(* The receive loop's first step, up to its first wait.                    *)
ReceiveFirst ==
    /\ R!LoopIsFree /\ receiver = "spawned"
    /\ receiver' = "waiting"
    /\ UNCHANGED <<reactorVars, owner, goal, open, joinable, closed, unwound, netVars>>

(* Mutant: what on_datagram_ throws ends the receive loop.                 *)
ReceiveOnce ==
    /\ R!LoopIsFree /\ receiver = "waiting" /\ pending > 0
    /\ pending' = pending - 1
    /\ receiver' \in {"waiting", "ended"}
    /\ UNCHANGED <<reactorVars, owner, goal, open, joinable, closed, unwound, arrived, receiveFailed>>

(* A datagram goes to on_datagram_, which returns or throws, and the loop  *)
(* waits for the next; an empty one it skips.                              *)
Receive ==
    /\ R!LoopIsFree /\ receiver = "waiting" /\ pending > 0
    /\ pending' = pending - 1
    /\ UNCHANGED <<reactorVars, ownVars, arrived, receiveFailed>>

(* A receive that fails ends the loop.                                     *)
ReceiveFails ==
    /\ R!LoopIsFree /\ receiver = "waiting"
    /\ receiver' = "ended"
    /\ receiveFailed' = TRUE
    /\ UNCHANGED <<reactorVars, owner, goal, open, joinable, closed, unwound, pending, arrived>>

(* A handler of the host throws: the thread reports it and tests for a     *)
(* stopped io_context before it enters run() again.                        *)
HandlerThrows ==
    /\ R!LoopIsFree
    /\ R!ReenterRun
    /\ UNCHANGED <<ownVars, netVars>>

(* run() returns, and the io_context is stopped, when nothing is left to   *)
(* wait for: without a receive there may be nothing.                       *)
OutOfWork ==
    /\ R!LoopIsFree /\ queue = <<>> /\ receiver \notin {"spawned", "waiting"}
    /\ R!StopIo
    /\ UNCHANGED <<ownVars, netVars>>

(* The host stops the io_context.                                          *)
HostStops ==
    /\ HasThread /\ loopPc \in {"claimed", "running", "taken", "ran"} /\ ~stopped
    /\ R!StopIo
    /\ UNCHANGED <<ownVars, netVars>>

(* The host tracks, untracks and aborts, in its handlers or, without a     *)
(* loop, on the owner's thread.                                            *)
Host ==
    /\ \/ R!AbortAllOnLoop
       \/ /\ At("out") \/ R!LoopIsFree \/ walk # "none"
          /\ \E a \in Abortables : R!Track(a) \/ R!Untrack(a)
    /\ UNCHANGED <<ownVars, netVars>>

(* abort() throws in a walk of the loop: the walk ends where it is.  In    *)
(* the handler that on_loop_sync posted, the call is taken and nothing     *)
(* will publish it.                                                        *)
AbortThrowsOnLoop ==
    /\ R!UnwindOnLoop
    /\ unwound' = (unwound \/ loopPc = "taken")
    /\ UNCHANGED <<owner, goal, open, joinable, receiver, closed, netVars>>

(* abort() throws in a walk on the owner's thread: it leaves the phase     *)
(* before io().stop() and the join.                                        *)
AbortThrowsHere ==
    /\ R!UnwindHere(Owner)
    /\ owner' = "out"
    /\ UNCHANGED <<goal, open, joinable, receiver, closed, unwound, netVars>>

Arrive ==
    /\ open /\ arrived < MaxDatagrams
    /\ arrived' = arrived + 1
    /\ pending' = pending + 1
    /\ UNCHANGED <<reactorVars, ownVars, receiveFailed>>

OwnerStep ==
    \/ BindThrows \/ Bind \/ Spawn \/ ClaimLoop \/ StartThread \/ ThreadThrows \/ Unclaim
    \/ StopUnstarted \/ AbortAll \/ InAbortAll \/ StopIo \/ Join \/ Close \/ DestroyRoots

Next ==
    \/ Start \/ (\E phase \in Phases : Phase(phase)) \/ OwnerStep
    \/ LoopStep \/ Visit \/ ReceiveFirst \/ Receive \/ ReceiveFails \/ HandlerThrows
    \/ OutOfWork \/ HostStops \/ Host \/ AbortThrowsOnLoop \/ AbortThrowsHere \/ Arrive

Spec == Init /\ [][Next]_vars

(* The owner inside a call and the loop's thread run, and callbacks        *)
(* return.  The io_context's queue is first in, first out: what is ready   *)
(* runs, though handlers before it throw.                                  *)
Fairness ==
    /\ WF_vars(OwnerStep)
    /\ WF_vars(LoopStep) /\ SF_vars(HasThread /\ R!RunHandler /\ UNCHANGED <<ownVars, netVars>>)
    /\ WF_vars(Visit)
    /\ SF_vars(ReceiveFirst) /\ SF_vars(Receive)

FairSpec == Spec /\ Fairness

-----------------------------------------------------------------------------
(* The phases destroy the receive loop only with its thread gone and its   *)
(* io_context stopped, also when start() failed half-way: between the      *)
(* spawn and the thread it stops the loop itself (reactor_udp.h:152-154).  *)
RootsOutliveLoop ==
    /\ TypeOK
    /\ At("close") \/ At("destroy") =>
        /\ loopPc = "out"
        /\ receiver \in {"spawned", "waiting"} => stopped

(* Unless an abort() threw in the walk it posted, the call that stop()     *)
(* sleeps in has its notification to come, whatever else the handlers on   *)
(* that loop throw (reactor.h:289-293); and the thread it joins is on a    *)
(* stopped io_context (reactor_udp.h:163-168).                             *)
StopIsAnswered ==
    /\ unwound \/ R!Sync!NotificationOwed
    /\ At("join") => stopped

(* stop(), on its own or inside close() and destroy_roots(), returns or    *)
(* throws, whoever stops the loop and whatever the host's handlers throw,  *)
(* unless an abort() threw in the walk it posted: the thread survives that *)
(* (ARCHITECTURE.md:218), the waiting call does not.                       *)
PhasesReturn == [](StopIsAnswered /\ (At("abort") => <>(At("out") \/ unwound)))

(* While there is a thread to join it is inside the loop or the io_context *)
(* was stopped, and the receive loop is there or a receive failed: what    *)
(* the host's handlers throw ends neither (reactor_udp.h:145-150,          *)
(* 226-232).                                                               *)
ListensOn ==
    joinable =>
        /\ loopPc \in R!Sync!Claimed \/ stopped
        /\ receiver \in {"spawned", "waiting"} \/ receiveFailed

(* One bad datagram, or a handler of the host that throws, does not deafen *)
(* the node: with a thread, a datagram in the socket is handled unless a   *)
(* receive failed or the loop was stopped (reactor_udp.h:145-150,          *)
(* 226-232).                                                               *)
Hears ==
    [](ListensOn /\ (joinable /\ pending > 0 => <>(pending = 0 \/ receiveFailed \/ stopped)))
=============================================================================
