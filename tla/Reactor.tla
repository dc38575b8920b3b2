------------------------------ MODULE Reactor -------------------------------
(***************************************************************************)
(* Class Reactor of reactor.h: the abortables tracked on a loop and the    *)
(* two walks of shutdown.  abort_all() and force_all() hand their walk to  *)
(* on_loop_sync (module LoopSync); the walk calls back into host code one  *)
(* abortable at a time, and a callback may track and untrack others.       *)
(*                                                                         *)
(* The list is the sequence of what is tracked, head first, and the walk's *)
(* cursor_ the part of it still to visit; module AbortList models the      *)
(* pointers behind both.                                                   *)
(***************************************************************************)
EXTENDS Lists

CONSTANTS
    Callers,      \* threads, none of them the loop's
    MaxCalls,     \* bound: the calls of abort_all() and force_all()
    None,
    Abortables    \* the Abortable objects of the host

ASSUME ReactorAssumption == None \notin Callers /\ MaxCalls \in Nat

VARIABLES
    loops, loopPc, current, stopped, queue,
    sync_call, sync_mutex, sync_calls, sync_open, sync_done, pc, id, ran,
    calls,        \* history: the calls begun
    op,           \* what each caller is calling: "none", "abort", "force"
    aborting,     \* aborting_
    walked,       \* walked_
    forced,       \* forced_
    aborts,       \* aborts_: the tracked abortables, head first
    walk,         \* the f in progress: "none", "abort", "force"
    cursor,       \* aborts_.cursor_: what the walk has still to visit
    calling,      \* the walk is inside a callback
    abortRuns,    \* history: abort() calls since the abortable was tracked
    forceRuns,    \* history: force() ran since the abortable was tracked
    abortReturned \* history: the abort_all() that walks has returned to its caller

Sync == INSTANCE LoopSync

syncVars == <<loops, loopPc, current, stopped, queue, sync_call, sync_mutex, sync_calls,
              sync_open, sync_done, pc, id, ran>>
listVars == <<aborts, walk, cursor, calling, walked, forced, abortRuns, forceRuns>>
callVars == <<calls, op, aborting, abortReturned>>
vars == <<syncVars, listVars, callVars>>

Tracked == Range(aborts)

TypeOK ==
    /\ Sync!TypeOK
    /\ calls \in 0..MaxCalls
    /\ op \in [Callers -> {"none", "abort", "force"}]
    /\ {aborting, walked, forced, calling} \subseteq BOOLEAN
    /\ walk \in {"none", "abort", "force"}
    /\ {aborts, cursor} \subseteq Seq(Abortables)
    /\ IsInjective(aborts) /\ IsSuffix(cursor, aborts)
    /\ abortRuns \in [Abortables -> Nat]
    /\ forceRuns \in [Abortables -> BOOLEAN]
    /\ abortReturned \in BOOLEAN

Init ==
    /\ Sync!Init
    /\ calls = 0
    /\ op = [c \in Callers |-> "none"]
    /\ aborting = FALSE
    /\ walked = FALSE
    /\ forced = FALSE
    /\ aborts = <<>>
    /\ walk = "none"
    /\ cursor = <<>>
    /\ calling = FALSE
    /\ abortRuns = [a \in Abortables |-> 0]
    /\ forceRuns = [a \in Abortables |-> FALSE]
    /\ abortReturned = FALSE

-----------------------------------------------------------------------------
(* The walks.                                                              *)

(* f starts: the flag that late track() calls read is set before the walk. *)
BeginWalk(kind) ==
    /\ walk' = kind
    /\ walked' = (walked \/ kind = "abort")
    /\ forced' = (forced \/ kind = "force")
    /\ cursor' = aborts
    /\ UNCHANGED <<aborts, calling, abortRuns, forceRuns>>

(* f returns: AbortList::each visited everything.                          *)
EndWalk ==
    /\ cursor = <<>>
    /\ walk' = "none"
    /\ calling' = FALSE
    /\ UNCHANGED <<aborts, cursor, walked, forced, abortRuns, forceRuns>>

(* The walk moves past an abortable and calls it.                          *)
Visit ==
    /\ walk # "none"
    /\ cursor # <<>>
    /\ cursor' = Tail(cursor)
    /\ calling' = TRUE
    /\ IF walk = "abort"
       THEN /\ abortRuns' = [abortRuns EXCEPT ![Head(cursor)] = @ + 1]
            /\ UNCHANGED forceRuns
       ELSE /\ forceRuns' = [forceRuns EXCEPT ![Head(cursor)] = TRUE]
            /\ UNCHANGED abortRuns
    /\ UNCHANGED <<aborts, walk, walked, forced, syncVars, callVars>>

(* The loop's thread may start a handler of the host.                      *)
LoopIsFree == loopPc = "running" /\ ~stopped /\ walk = "none"

(* track() and untrack() are called on the loop, inside a callback of a    *)
(* walk or between walks, or between walks with no loop running.           *)
MayTouchList ==
    \/ walk # "none" /\ calling
    \/ LoopIsFree
    \/ walk = "none" /\ loops = 0

(* Mutant: walked_ is not looked at.                                       *)
TrackUnaware(a) ==
    /\ MayTouchList
    /\ a \notin Tracked
    /\ aborts' = <<a>> \o aborts
    /\ abortRuns' = [abortRuns EXCEPT ![a] = 0]
    /\ forceRuns' = [forceRuns EXCEPT ![a] = forced]
    /\ UNCHANGED <<walk, cursor, calling, walked, forced, syncVars, callVars>>

(* track(): the abortable goes to the head of the list, is aborted at once *)
(* when the abort walk has begun, and forced when the force walk has.      *)
Track(a) ==
    /\ MayTouchList
    /\ a \notin Tracked
    /\ aborts' = <<a>> \o aborts
    /\ abortRuns' = [abortRuns EXCEPT ![a] = IF walked THEN 1 ELSE 0]
    /\ forceRuns' = [forceRuns EXCEPT ![a] = forced]
    /\ UNCHANGED <<walk, cursor, calling, walked, forced, syncVars, callVars>>

(* untrack() or the abortable's destructor: a cursor that points at it     *)
(* moves to its successor.                                                 *)
Untrack(a) ==
    /\ MayTouchList
    /\ a \in Tracked
    /\ aborts' = Without(aborts, a)
    /\ cursor' = Without(cursor, a)
    /\ UNCHANGED <<walk, calling, walked, forced, abortRuns, forceRuns, syncVars, callVars>>

-----------------------------------------------------------------------------
(* The loop's thread.                                                      *)

(* The thread that owns the call being taken.                              *)
Owner == CHOOSE c \in Callers : sync_call = c

RunHandler ==
    /\ walk = "none"
    /\ Sync!RunHandler
    /\ IF loopPc' = "taken" THEN BeginWalk(op[Owner]) ELSE UNCHANGED listVars
    /\ UNCHANGED callVars

FinishOnLoop ==
    /\ Sync!FinishOnLoop
    /\ EndWalk
    /\ UNCHANGED callVars

(* A handler of the host calls abort_all() on the loop: on_loop() holds,   *)
(* so f runs where it stands.                                              *)
AbortAllOnLoop ==
    /\ LoopIsFree
    /\ calls < MaxCalls
    /\ calls' = calls + 1
    /\ ~aborting
    /\ aborting' = TRUE
    /\ BeginWalk("abort")
    /\ UNCHANGED <<syncVars, op, abortReturned>>

ForceAllOnLoop ==
    /\ LoopIsFree
    /\ calls < MaxCalls
    /\ calls' = calls + 1
    /\ BeginWalk("force")
    /\ UNCHANGED <<syncVars, op, aborting, abortReturned>>

FinishOwnWalk ==
    /\ loopPc = "running"
    /\ walk # "none"
    /\ EndWalk
    /\ UNCHANGED <<syncVars, callVars>>

(* Steps of the loop's thread that touch no list.                          *)
LoopOnly ==
    /\ \/ Sync!EnterRun \/ Sync!PublishDone \/ Sync!Release \/ Sync!ReleaseNotify
       \/ Sync!LeaveRun /\ walk = "none"
    /\ UNCHANGED <<listVars, callVars>>

ClaimOrStop ==
    /\ Sync!Claim \/ Sync!Restart \/ Sync!StopLoop
    /\ UNCHANGED <<listVars, callVars>>

-----------------------------------------------------------------------------
(* The callers.                                                            *)

(* abort_all() up to on_loop_sync: a second call returns at once, although *)
(* the first one's walk may be still to come.                              *)
AbortAll(c) ==
    /\ pc[c] = "idle"
    /\ op[c] = "none"
    /\ calls < MaxCalls
    /\ calls' = calls + 1
    /\ aborting' = TRUE
    /\ op' = [op EXCEPT ![c] = IF aborting THEN "none" ELSE "abort"]
    /\ UNCHANGED <<syncVars, listVars, abortReturned>>

(* force_all() calls on_loop_sync every time.                              *)
ForceAll(c) ==
    /\ pc[c] = "idle"
    /\ op[c] = "none"
    /\ calls < MaxCalls
    /\ calls' = calls + 1
    /\ op' = [op EXCEPT ![c] = "force"]
    /\ UNCHANGED <<syncVars, listVars, aborting, abortReturned>>

(* on_loop_sync's first test: with no loop the walk begins here, under no  *)
(* lock, whoever else is walking.                                          *)
EnterSync(c) ==
    /\ op[c] # "none"
    /\ Sync!Call(c)
    /\ IF pc'[c] = "inline" THEN BeginWalk(op[c]) ELSE UNCHANGED listVars
    /\ UNCHANGED callVars

TakeBack(c) ==
    /\ Sync!WaitTake(c)
    /\ BeginWalk(op[c])
    /\ UNCHANGED callVars

FinishHere(c) ==
    /\ Sync!FinishInline(c) \/ Sync!FinishTaken(c)
    /\ EndWalk
    /\ UNCHANGED callVars

(* Steps inside on_loop_sync that touch no list.                           *)
CallOnly(c) ==
    /\ \/ Sync!LockCall(c) \/ Sync!OpenCall(c) \/ Sync!PostHandler(c)
       \/ Sync!WaitReturn(c) \/ Sync!WaitFalse(c) \/ Sync!Sleep(c)
    /\ UNCHANGED <<listVars, callVars>>

(* abort_all() or force_all() returns to the host.                         *)
Return(c) ==
    /\ pc[c] = "returned"
    /\ op[c] # "none"
    /\ abortReturned' = (abortReturned \/ op[c] = "abort")
    /\ op' = [op EXCEPT ![c] = "none"]
    /\ UNCHANGED <<syncVars, listVars, calls, aborting>>

AnotherCall(c) ==
    /\ op[c] = "none"
    /\ Sync!Again(c)
    /\ UNCHANGED <<listVars, callVars>>

-----------------------------------------------------------------------------
(* What an owner that catches exceptions adds (module UdpServer).          *)

Claim == Sync!Claim /\ UNCHANGED <<listVars, callVars>>

(* io().stop(), which a second time changes nothing.                       *)
StopIo ==
    /\ stopped' = TRUE
    /\ UNCHANGED <<loops, loopPc, current, queue, sync_call, sync_mutex, sync_calls,
                   sync_open, sync_done, pc, id, ran, listVars, callVars>>

LoopGoes(place) ==
    /\ loopPc' = place
    /\ UNCHANGED <<loops, current, stopped, queue, sync_call, sync_mutex, sync_calls,
                   sync_open, sync_done, pc, id, ran>>

(* The thread claimed for could not be created.                            *)
NeverRan == loopPc = "claimed" /\ LoopGoes("left") /\ UNCHANGED <<listVars, callVars>>

(* An exception left run(): the thread is back before it.                  *)
ReenterRun == LoopGoes("claimed") /\ UNCHANGED <<listVars, callVars>>

(* An exception leaves AbortList::each: cursor_ stays where it is.         *)
Unwind ==
    /\ walk # "none" /\ calling
    /\ walk' = "none"
    /\ calling' = FALSE
    /\ UNCHANGED <<aborts, cursor, walked, forced, abortRuns, forceRuns>>

UnwindOnLoop ==
    /\ loopPc \in {"running", "taken"}
    /\ Unwind
    /\ LoopGoes("claimed")
    /\ UNCHANGED callVars

UnwindHere(c) ==
    /\ pc[c] \in {"inline", "took"}
    /\ Unwind
    /\ pc' = [pc EXCEPT ![c] = "idle"]
    /\ op' = [op EXCEPT ![c] = "none"]
    /\ sync_call' = IF sync_call = c THEN None ELSE sync_call
    /\ UNCHANGED <<loops, loopPc, current, stopped, queue, sync_mutex, sync_calls,
                   sync_open, sync_done, id, ran, calls, aborting, abortReturned>>

-----------------------------------------------------------------------------
(* The callers whose own thread is inside f, walking the list.             *)
Walkers == {c \in Callers : pc[c] \in Sync!RunsHere}

(* Two threads may touch the list at once: a caller walks beside another   *)
(* caller, or beside a thread that is inside run().  Nothing guards the    *)
(* list, so that what it holds from here on is undefined.                  *)
Racing == \E c \in Walkers : loopPc \in {"running", "taken", "ran"} \/ Walkers # {c}

LoopStep == ~Racing /\ (RunHandler \/ FinishOnLoop \/ FinishOwnWalk \/ LoopOnly)
CallStep(c) ==
    ~Racing /\ (EnterSync(c) \/ TakeBack(c) \/ FinishHere(c) \/ CallOnly(c) \/ Return(c))
WalkStep == ~Racing /\ Visit

(* What the host does, in callbacks and handlers or on threads of its own. *)
HostStep ==
    /\ ~Racing
    /\ \/ \E a \in Abortables : Track(a) \/ Untrack(a)
       \/ ClaimOrStop \/ AbortAllOnLoop \/ ForceAllOnLoop
       \/ \E c \in Callers : AbortAll(c) \/ ForceAll(c) \/ AnotherCall(c)

(* The model follows the reactor up to a race: nothing is said of what     *)
(* comes after it.                                                         *)
Undefined == Racing /\ UNCHANGED vars

Next == WalkStep \/ LoopStep \/ (\E c \in Callers : CallStep(c)) \/ HostStep \/ Undefined

Spec == Init /\ [][Next]_vars

(* The loop's thread and the callers inside a call run; callbacks return,  *)
(* so a walk goes on.  As in LoopSync, the loop is not claimed for ever.   *)
Fairness ==
    /\ <>[][~Sync!Claim]_vars
    /\ WF_vars(WalkStep)
    /\ WF_vars(LoopStep)
    /\ \A c \in Callers : WF_vars(CallStep(c))

FairSpec == Spec /\ Fairness

-----------------------------------------------------------------------------
(* Once the abort walk is over every tracked abortable has been aborted,   *)
(* once, and likewise for force: those present at the walk by it, those    *)
(* tracked during or after it by track(), none by both                     *)
(* (reactor.h:227-236); as long as no two threads were in the list.        *)
ShutdownReachesAll ==
    Racing \/ /\ walked /\ walk # "abort" => \A a \in Tracked : abortRuns[a] = 1
              /\ forced /\ walk # "force" => \A a \in Tracked : forceRuns[a]
              /\ \A a \in Abortables : abortRuns[a] <= 1

(* Who walks, and beside whom.  A walk is on the loop's thread or on a     *)
(* caller's.  A caller never walks beside a handler of the loop: a thread  *)
(* is inside run() meanwhile only if the loop was claimed after the walk   *)
(* began.  Two callers walk at once only if one of them found no loop and  *)
(* so took no lock (reactor.h:276): walks taken back from a loop that went *)
(* away are serialised by sync_call_ (reactor.h:277, 296).                 *)
OneWalker ==
    /\ TypeOK
    /\ walk # "none" => loopPc \in {"running", "taken"} \/ Walkers # {}
    /\ Walkers # {} => loopPc \notin {"taken", "ran", "left"}
    /\ \A c, d \in Walkers : c = d \/ "inline" \in {pc[c], pc[d]}

(* What a call of abort_all() or force_all() waits for is on its way: its  *)
(* notification while it sleeps; and a thread inside f, the caller's or    *)
(* the loop's, has its walk to go on with (reactor.h:276, 289-293).        *)
WalkOwed ==
    /\ Sync!NotificationOwed
    /\ \A c \in Walkers : op[c] # "none" /\ (Racing \/ walk = op[c])
    /\ loopPc = "taken" => \E c \in Callers : sync_call = c /\ op[c] # "none" /\ walk = op[c]

(* abort_all() and force_all() return, whatever their callbacks track and  *)
(* whenever the loop stops, unless two threads get into the list.          *)
WalksReturn ==
    \A c \in Callers : [](WalkOwed /\ (op[c] # "none" => <>(op[c] = "none" \/ Racing)))

(* The abort_all() that walks returns when abort() has run on every        *)
(* tracked abortable, on whichever thread (reactor.h:239-240).             *)
AbortAllWaits == abortReturned => walked /\ walk # "abort"
=============================================================================
