---------------------------- MODULE ReactorProofs ----------------------------
(***************************************************************************)
(* Proofs about Reactor, for any number of threads and abortables.  The    *)
(* calls of on_loop_sync inside it are LoopSync's, whose invariant carries *)
(* over.                                                                   *)
(***************************************************************************)
EXTENDS Reactor, ListLemmas, TLAPS

Loop == INSTANCE LoopSyncProofs

-----------------------------------------------------------------------------
(* on_loop_sync inside the reactor.                                        *)

(* The module of the proofs has the actions of the module it extends.      *)
LEMMA SameSteps ==
    /\ Sync!Init => Loop!Init
    /\ Sync!Claim => Loop!Claim
    /\ Sync!Restart => Loop!Restart
    /\ Sync!StopLoop => Loop!StopLoop
    /\ Sync!EnterRun => Loop!EnterRun
    /\ Sync!RunHandler => Loop!RunHandler
    /\ Sync!FinishOnLoop => Loop!FinishOnLoop
    /\ Sync!PublishDone => Loop!PublishDone
    /\ Sync!LeaveRun => Loop!LeaveRun
    /\ Sync!Release => Loop!Release
    /\ Sync!ReleaseNotify => Loop!ReleaseNotify
    /\ \A c \in Callers :
        /\ Sync!Call(c) => Loop!Call(c)
        /\ Sync!FinishInline(c) => Loop!FinishInline(c)
        /\ Sync!LockCall(c) => Loop!LockCall(c)
        /\ Sync!OpenCall(c) => Loop!OpenCall(c)
        /\ Sync!PostHandler(c) => Loop!PostHandler(c)
        /\ Sync!WaitReturn(c) => Loop!WaitReturn(c)
        /\ Sync!WaitTake(c) => Loop!WaitTake(c)
        /\ Sync!WaitFalse(c) => Loop!WaitFalse(c)
        /\ Sync!Sleep(c) => Loop!Sleep(c)
        /\ Sync!FinishTaken(c) => Loop!FinishTaken(c)
        /\ Sync!Again(c) => Loop!Again(c)
<1> USE DEF Sync!loopVars, Loop!loopVars, Sync!syncVars, Loop!syncVars, Sync!callVars, Loop!callVars
<1>1. (Sync!Init => Loop!Init)
  BY Zenon DEF Sync!Init, Loop!Init
<1>2. /\ Sync!Claim => Loop!Claim
      /\ Sync!Restart => Loop!Restart
      /\ Sync!StopLoop => Loop!StopLoop
      /\ Sync!EnterRun => Loop!EnterRun
  BY Zenon DEF Sync!Claim, Loop!Claim, Sync!Restart, Loop!Restart, Sync!StopLoop, Loop!StopLoop,
     Sync!EnterRun, Loop!EnterRun
<1>3. (Sync!RunHandler => Loop!RunHandler)
  BY Zenon DEF Sync!RunHandler, Loop!RunHandler
<1>4. (Sync!FinishOnLoop => Loop!FinishOnLoop)
  BY Zenon DEF Sync!FinishOnLoop, Loop!FinishOnLoop, Sync!Serialised, Loop!Serialised
<1>5. (Sync!PublishDone => Loop!PublishDone) /\ (Sync!ReleaseNotify => Loop!ReleaseNotify)
  BY Zenon DEF Sync!PublishDone, Loop!PublishDone, Sync!ReleaseNotify, Loop!ReleaseNotify,
     Sync!Woken, Loop!Woken
<1>6. (Sync!LeaveRun => Loop!LeaveRun) /\ (Sync!Release => Loop!Release)
  BY Zenon DEF Sync!LeaveRun, Loop!LeaveRun, Sync!Release, Loop!Release
<1>7. \A c \in Callers : /\ Sync!Call(c) => Loop!Call(c)
                         /\ Sync!FinishInline(c) => Loop!FinishInline(c)
  BY Zenon DEF Sync!Call, Loop!Call, Sync!FinishInline, Loop!FinishInline
<1>8. \A c \in Callers : /\ Sync!LockCall(c) => Loop!LockCall(c)
                         /\ Sync!OpenCall(c) => Loop!OpenCall(c)
  BY Zenon DEF Sync!LockCall, Loop!LockCall, Sync!OpenCall, Loop!OpenCall
<1>9. \A c \in Callers : /\ Sync!PostHandler(c) => Loop!PostHandler(c)
                         /\ Sync!Again(c) => Loop!Again(c)
  BY Zenon DEF Sync!PostHandler, Loop!PostHandler, Sync!Again, Loop!Again
<1>10. \A c \in Callers : /\ Sync!WaitReturn(c) => Loop!WaitReturn(c)
                          /\ Sync!WaitTake(c) => Loop!WaitTake(c)
  BY Zenon DEF Sync!WaitReturn, Loop!WaitReturn, Sync!WaitTake, Loop!WaitTake, Sync!WaitOver,
     Loop!WaitOver
<1>11. \A c \in Callers : (Sync!WaitFalse(c) => Loop!WaitFalse(c))
  BY Zenon DEF Sync!WaitFalse, Loop!WaitFalse, Sync!WaitOver, Loop!WaitOver
<1>12. \A c \in Callers : /\ Sync!Sleep(c) => Loop!Sleep(c)
                          /\ Sync!FinishTaken(c) => Loop!FinishTaken(c)
  BY Zenon DEF Sync!Sleep, Loop!Sleep, Sync!FinishTaken, Loop!FinishTaken
<1> QED
  BY <1>1, <1>2, <1>3, <1>4, <1>5, <1>6, <1>7, <1>8, <1>9, <1>10, <1>11, <1>12, Zenon

(* So it has the same steps, and the same invariant.                       *)
LEMMA SameNext == [Sync!Next]_(Sync!vars) => [Loop!Next]_(Loop!vars)
<1>1. Sync!LoopStep => Loop!LoopStep
  BY SameSteps, Zenon DEF Sync!LoopStep, Loop!LoopStep
<1>2. \A c \in Callers : Sync!CallStep(c) => Loop!CallStep(c)
  BY SameSteps, Zenon DEF Sync!CallStep, Loop!CallStep
<1>3. Sync!Next => Loop!Next
  BY <1>1, <1>2, SameSteps, Zenon DEF Sync!Next, Loop!Next
<1>4. Sync!vars = Loop!vars
  BY DEF Sync!vars, Sync!loopVars, Sync!syncVars, Sync!callVars,
     Loop!vars, Loop!loopVars, Loop!syncVars, Loop!callVars
<1>5. UNCHANGED Sync!vars => UNCHANGED Loop!vars
  BY <1>4 DEF Sync!vars, Sync!loopVars, Sync!syncVars, Sync!callVars,
     Loop!vars, Loop!loopVars, Loop!syncVars, Loop!callVars
<1> QED
  BY <1>3, <1>5

LEMMA SameInv == Sync!Inv <=> Loop!Inv
<1>1. /\ Sync!TypeOK <=> Loop!TypeOK
      /\ Sync!LoopsExact <=> Loop!LoopsExact
  BY Zenon DEF Sync!TypeOK, Loop!TypeOK, Sync!LoopStates, Loop!LoopStates, Sync!CallStates,
     Loop!CallStates, Sync!LoopsExact, Loop!LoopsExact, Sync!Claimed, Loop!Claimed
<1>2. (Sync!CallOwned <=> Loop!CallOwned) /\ (Sync!OpenCallLive <=> Loop!OpenCallLive)
  BY Zenon DEF Sync!CallOwned, Loop!CallOwned, Sync!Serialised, Loop!Serialised,
     Sync!OpenCallLive, Loop!OpenCallLive
<1>3. (Sync!TakenCallLive <=> Loop!TakenCallLive) /\ (Sync!QueuedCalls <=> Loop!QueuedCalls)
  BY Zenon DEF Sync!TakenCallLive, Loop!TakenCallLive, Sync!Waiting, Loop!Waiting,
     Sync!QueuedCalls, Loop!QueuedCalls
<1>4. (Sync!DoneCall <=> Loop!DoneCall) /\ (Sync!RanExact <=> Loop!RanExact)
  BY Zenon DEF Sync!DoneCall, Loop!DoneCall, Sync!Serialised, Loop!Serialised, Sync!RanExact,
     Loop!RanExact, Sync!Waiting, Loop!Waiting
<1> QED
  BY <1>1, <1>2, <1>3, <1>4, Zenon DEF Sync!Inv, Loop!Inv

LEMMA SameInvNext == Sync!Inv' <=> Loop!Inv'
  BY SameInv, PTL

(* The invariant of on_loop_sync, as proved of module LoopSync.            *)
LEMMA SyncInit == Sync!Init => Sync!Inv
<1>1. Loop!LoopSyncAssumption
  BY ReactorAssumption DEF Loop!LoopSyncAssumption
<1> QED
  BY <1>1, SameSteps, SameInv, Loop!InitInv

LEMMA SyncNext == Sync!Inv /\ [Sync!Next]_(Sync!vars) => Sync!Inv'
<1>1. Loop!LoopSyncAssumption
  BY ReactorAssumption DEF Loop!LoopSyncAssumption
<1> QED
  BY <1>1, SameNext, SameInv, SameInvNext, Loop!NextInv, Zenon

(* Every step of the reactor is a step of on_loop_sync or leaves its state *)
(* alone.                                                                  *)
LEMMA SyncStep == [Next]_vars => [Sync!Next]_(Sync!vars)
<1> SUFFICES ASSUME [Next]_vars PROVE Sync!Next \/ UNCHANGED syncVars
  BY DEF syncVars, Sync!vars, Sync!loopVars, Sync!syncVars, Sync!callVars
<1>1. ASSUME NEW c \in Callers, CallStep(c) \/ AnotherCall(c)
      PROVE  Sync!Call(c) \/ Sync!CallStep(c) \/ Sync!Again(c) \/ UNCHANGED syncVars
  BY <1>1, Zenon
     DEF CallStep, AnotherCall, EnterSync, TakeBack, FinishHere, CallOnly, Return, Sync!CallStep
<1>2. CASE LoopStep
  <2>1. Sync!LoopStep \/ UNCHANGED syncVars
    BY <1>2, Zenon
       DEF LoopStep, RunHandler, FinishOnLoop, FinishOwnWalk, LoopOnly, Sync!LoopStep
  <2> QED
    BY <2>1, Zenon DEF Sync!Next
<1>3. CASE HostStep
  <2>1. CASE ClaimOrStop
    BY <2>1, Zenon DEF ClaimOrStop, Sync!Next
  <2>2. ASSUME NEW c \in Callers, AbortAll(c) \/ ForceAll(c) PROVE UNCHANGED syncVars
    BY <2>2, Zenon DEF AbortAll, ForceAll
  <2>3. CASE AbortAllOnLoop \/ ForceAllOnLoop \/ \E a \in Abortables : Track(a) \/ Untrack(a)
    BY <2>3, Zenon DEF AbortAllOnLoop, ForceAllOnLoop, Track, Untrack
  <2>4. CASE \E c \in Callers : AnotherCall(c)
    BY <1>1, <2>4, Zenon DEF Sync!Next
  <2> QED
    BY <1>3, <2>1, <2>2, <2>3, <2>4, Zenon DEF HostStep
<1>4. CASE \E c \in Callers : CallStep(c)
  BY <1>1, <1>4, Zenon DEF Sync!Next
<1>5. CASE WalkStep
  BY <1>5, Zenon DEF WalkStep, Visit
<1>6. CASE Undefined \/ UNCHANGED vars
  BY <1>6 DEF Undefined, vars
<1> QED
  BY <1>2, <1>3, <1>4, <1>5, <1>6, Zenon DEF Next

(* Whatever abort_all(), force_all(), track() and untrack() do, the        *)
(* reactor's synchronisation is that of module LoopSync.                   *)
THEOREM ReactorUsesLoopSync == Spec => Sync!Spec
<1>1. Init => Sync!Init
  BY DEF Init
<1> QED
  BY <1>1, SyncStep, PTL DEF Spec, Sync!Spec

-----------------------------------------------------------------------------
(* Who walks.                                                              *)

Kinds == {"none", "abort", "force"}
Idle == {"idle", "returned"}
Here == {"inline", "took"}

(* A walk belongs to a call in progress, on the thread that runs its f, or *)
(* to the loop's thread on its own.                                        *)
WalkInv ==
    /\ op \in [Callers -> Kinds] /\ walk \in Kinds
    /\ \A c \in Callers : pc[c] \notin Idle => op[c] # "none"
    /\ \A c \in Callers : pc[c] \in Here => loopPc \notin {"taken", "ran", "left"}
    /\ ~Racing => \A c \in Callers : pc[c] \in Here => walk = op[c]
    /\ loopPc = "taken" => \A c \in Callers : sync_call = c => walk = op[c]
    /\ walk # "none" => loopPc \in {"running", "taken"} \/ \E c \in Callers : pc[c] \in Here

(* One call of abort_all() walks, and has walked once its f has run.       *)
AbortInv ==
    /\ walk = "abort" => walked /\ aborting
    /\ \A c \in Callers : op[c] = "abort" =>
        /\ aborting /\ ~abortReturned
        /\ \A d \in Callers : op[d] = "abort" => d = c
        /\ pc[c] # "idle" /\ ran[c] = 1 => walked /\ walk # "abort"
    /\ abortReturned => aborting /\ walked /\ walk # "abort"

Inside == {"claimed", "running", "taken", "ran", "left"}

(* What the walks need of on_loop_sync's invariant.                        *)
LEMMA SyncFacts ==
    ASSUME Sync!Inv
    PROVE  /\ pc \in [Callers -> Sync!CallStates] /\ ran \in [Callers -> Nat]
           /\ loops = 0 <=> loopPc \notin Inside
           /\ \A c \in Callers : (pc[c] \in Sync!Serialised <=> sync_call = c)
           /\ \A c \in Callers : pc[c] \in {"inline", "lock", "took"} => ran[c] = 0
           /\ \A c \in Callers : pc[c] = "returned" => ran[c] = 1
           /\ loopPc \in {"taken", "ran"} =>
                \E c \in Callers : /\ sync_call = c /\ pc[c] \in Sync!Waiting
                                   /\ current = id[c] /\ sync_done # id[c]
<1> USE DEF Sync!Inv, Inside
<1>1. pc \in [Callers -> Sync!CallStates] /\ ran \in [Callers -> Nat]
  BY DEF Sync!TypeOK
<1>2. loops = 0 <=> loopPc \notin Inside
  BY DEF Sync!LoopsExact, Sync!Claimed
<1>3. \A c \in Callers : (pc[c] \in Sync!Serialised <=> sync_call = c)
  BY DEF Sync!CallOwned
<1>4. \A c \in Callers : /\ pc[c] \in {"inline", "lock", "took"} => ran[c] = 0
                         /\ pc[c] = "returned" => ran[c] = 1
  BY DEF Sync!RanExact
<1>5. loopPc \in {"taken", "ran"} =>
        \E c \in Callers : /\ sync_call = c /\ pc[c] \in Sync!Waiting
                           /\ current = id[c] /\ sync_done # id[c]
  BY DEF Sync!TakenCallLive
<1> QED
  BY <1>1, <1>2, <1>3, <1>4, <1>5, SMTT(30)

(* Without a race a caller walks alone.                                    *)
LEMMA WalksAlone ==
    ASSUME ~Racing, NEW c \in Callers, pc[c] \in Here
    PROVE  /\ loopPc \notin {"running", "taken", "ran"}
           /\ \A d \in Callers : d # c => pc[d] \notin Here
  BY DEF Racing, Walkers, Here, Sync!RunsHere

(* A caller that joins another, or that the loop's thread joins, races.    *)
LEMMA TwoRace ==
    ASSUME NEW c \in Callers, pc'[c] \in Here,
           loopPc' = "running" \/ \E d \in Callers : d # c /\ pc'[d] \in Here
    PROVE  Racing'
  BY DEF Racing, Walkers, Here, Sync!RunsHere

(* A step that begins and ends no walk and no call of the host.            *)
LEMMA Quiet ==
    ASSUME ~Racing, WalkInv, AbortInv, UNCHANGED <<walk, walked, op, aborting, abortReturned, ran>>,
           \A c \in Callers : /\ pc[c] \in Here \/ pc'[c] \in Here => pc'[c] = pc[c]
                              /\ pc'[c] \notin Idle => pc[c] \notin Idle
                              /\ pc'[c] # "idle" => pc[c] # "idle",
           loopPc' = "taken" => loopPc = "taken" /\ sync_call' = sync_call,
           loopPc' \in {"taken", "ran", "left"} => loopPc \in {"running", "taken", "ran", "left"},
           walk # "none" /\ loopPc \in {"running", "taken"} => loopPc' \in {"running", "taken"}
    PROVE  WalkInv' /\ AbortInv'
<1>1. WalkInv'
  <2>1. op' \in [Callers -> Kinds] /\ walk' \in Kinds
    BY DEF WalkInv
  <2>2. \A c \in Callers : pc'[c] \notin Idle => op'[c] # "none"
    BY DEF WalkInv
  <2>3. \A c \in Callers : pc'[c] \in Here => loopPc' \notin {"taken", "ran", "left"}
    BY WalksAlone DEF WalkInv
  <2>4. \A c \in Callers : pc'[c] \in Here => walk' = op'[c]
    BY DEF WalkInv
  <2>5. loopPc' = "taken" => \A c \in Callers : sync_call' = c => walk' = op'[c]
    BY DEF WalkInv
  <2>6. walk' # "none" => loopPc' \in {"running", "taken"} \/ \E c \in Callers : pc'[c] \in Here
    BY DEF WalkInv
  <2> QED
    BY <2>1, <2>2, <2>3, <2>4, <2>5, <2>6, SMTT(30) DEF WalkInv
<1>2. AbortInv'
  BY DEF AbortInv
<1> QED
  BY <1>1, <1>2

(* The steps of the loop's thread that touch no list are quiet.            *)
LEMMA LoopQuiet ==
    ASSUME ~Racing, Sync!Inv, WalkInv, AbortInv, LoopOnly \/ ClaimOrStop
    PROVE  WalkInv' /\ AbortInv'
<1>1. UNCHANGED <<walk, walked, op, aborting, abortReturned, ran>> /\ sync_call' = sync_call
  BY DEF LoopOnly, ClaimOrStop, listVars, callVars, Sync!EnterRun, Sync!PublishDone, Sync!Release,
         Sync!ReleaseNotify, Sync!LeaveRun, Sync!Claim, Sync!Restart, Sync!StopLoop, Sync!callVars, Sync!syncVars
<1>2. pc' = pc \/ pc' = Sync!Woken
  BY DEF LoopOnly, ClaimOrStop, Sync!EnterRun, Sync!PublishDone, Sync!Release,
         Sync!ReleaseNotify, Sync!LeaveRun, Sync!Claim, Sync!Restart, Sync!StopLoop, Sync!callVars
<1>3. \A c \in Callers : pc'[c] = pc[c] \/ (pc[c] = "asleep" /\ pc'[c] = "wait")
  BY <1>2 DEF Sync!Woken
<1>4. \/ loopPc' = loopPc
      \/ loopPc' \notin {"taken", "ran", "left"} /\ loopPc \notin {"running", "taken"}
      \/ loopPc' # "taken" /\ walk = "none" /\ loopPc = "running"
  BY DEF LoopOnly, ClaimOrStop, Sync!EnterRun, Sync!PublishDone, Sync!Release,
         Sync!ReleaseNotify, Sync!LeaveRun, Sync!Claim, Sync!Restart, Sync!StopLoop
<1> QED
  BY <1>1, <1>3, <1>4, Quiet, SMTT(30) DEF Here, Idle

(* So are the steps inside on_loop_sync that touch no list.                *)
LEMMA CallQuiet ==
    ASSUME ~Racing, Sync!Inv, WalkInv, AbortInv, NEW c \in Callers, CallOnly(c)
    PROVE  WalkInv' /\ AbortInv'
<1>1. pc \in [Callers -> Sync!CallStates]
  BY SyncFacts
<1>2. UNCHANGED <<walk, walked, op, aborting, abortReturned, ran, loopPc>>
  BY DEF CallOnly, listVars, callVars, Sync!LockCall, Sync!OpenCall, Sync!PostHandler,
         Sync!WaitReturn, Sync!WaitFalse, Sync!Sleep, Sync!loopVars
<1>3. \A d \in Callers : d # c => pc'[d] = pc[d]
  BY <1>1 DEF CallOnly, Sync!LockCall, Sync!OpenCall, Sync!PostHandler,
         Sync!WaitReturn, Sync!WaitFalse, Sync!Sleep
<1>4. /\ pc[c] \in {"lock", "open", "post", "wait", "sleepy"}
      /\ pc'[c] \in {"open", "post", "wait", "returned", "sleepy", "asleep"}
  BY <1>1 DEF CallOnly, Sync!LockCall, Sync!OpenCall, Sync!PostHandler,
         Sync!WaitReturn, Sync!WaitFalse, Sync!Sleep
<1>5. loopPc = "taken" => sync_call' = sync_call
  <2>1. CASE Sync!LockCall(c)
    <3>1. sync_call = None /\ None \notin Callers
      BY <2>1, ReactorAssumption DEF Sync!LockCall
    <3> QED
      BY <3>1, SyncFacts
  <2>2. CASE Sync!WaitReturn(c)
    <3>1. pc[c] = "wait" /\ sync_done = id[c]
      BY <2>2 DEF Sync!WaitReturn
    <3>2. sync_call = c
      BY <3>1, SyncFacts DEF Sync!Serialised
    <3> QED
      BY <3>1, <3>2, SyncFacts
  <2> QED
    BY <2>1, <2>2 DEF CallOnly, Sync!OpenCall, Sync!PostHandler, Sync!WaitFalse, Sync!Sleep,
                      Sync!syncVars
<1> QED
  BY <1>2, <1>3, <1>4, <1>5, Quiet, SMTT(30) DEF Here, Idle

-----------------------------------------------------------------------------
(* The steps that begin or end a walk or a call.                           *)

(* The walk of caller c's call begins.                                     *)
LEMMA AbortBegins ==
    ASSUME AbortInv, NEW c \in Callers, walk' = op[c], walked' = (walked \/ op[c] = "abort"),
           UNCHANGED <<op, aborting, abortReturned>>, ran'[c] = 0,
           \A d \in Callers : d # c => ran'[d] = ran[d] /\ pc'[d] = pc[d]
    PROVE  AbortInv'
<1>1. CASE op[c] = "abort"
  <2>1. walk' = "abort" /\ walked' /\ aborting /\ ~abortReturned
    BY <1>1, Zenon DEF AbortInv
  <2>2. \A d \in Callers : op[d] = "abort" => d = c
    BY <1>1 DEF AbortInv
  <2>3. ran'[c] # 1
    OBVIOUS
  <2> QED
    BY <2>1, <2>2, <2>3, SMTT(30) DEF AbortInv
<1>2. CASE op[c] # "abort"
  <2>1. walk' # "abort" /\ (walked => walked')
    BY <1>2, Zenon
  <2>2. abortReturned => aborting /\ walked
    BY DEF AbortInv
  <2>3. ASSUME NEW d \in Callers, op[d] = "abort"
        PROVE  /\ aborting /\ ~abortReturned
               /\ \A e \in Callers : op[e] = "abort" => e = d
               /\ pc'[d] # "idle" /\ ran'[d] = 1 => walked
    BY <1>2, <2>3 DEF AbortInv
  <2> QED
    BY <2>1, <2>2, <2>3 DEF AbortInv
<1> QED
  BY <1>1, <1>2

(* The walk of caller c's call ends.                                       *)
LEMMA AbortEnds ==
    ASSUME AbortInv, NEW c \in Callers, walk = op[c], walk' = "none",
           UNCHANGED <<walked, op, aborting, abortReturned>>,
           \A d \in Callers : d # c => ran'[d] = ran[d] /\ pc'[d] = pc[d]
    PROVE  AbortInv'
<1>1. op[c] = "abort" => walked
  BY DEF AbortInv
<1>2. ASSUME NEW d \in Callers, op[d] = "abort"
      PROVE  /\ aborting /\ ~abortReturned
             /\ \A e \in Callers : op[e] = "abort" => e = d
             /\ pc'[d] # "idle" /\ ran'[d] = 1 => walked
  BY <1>1, <1>2 DEF AbortInv
<1> QED
  BY <1>2 DEF AbortInv

(* The call that the posted handler takes has not run.                     *)
LEMMA HandlerTakes ==
    ASSUME Sync!Inv, RunHandler, loopPc' = "taken"
    PROVE  \E c \in Callers : sync_call = c /\ Owner = c /\ ran[c] = 0 /\ pc[c] \notin Idle
<1>1. queue # <<>> /\ sync_open = Head(queue) /\ loopPc = "running"
  BY DEF RunHandler, Sync!RunHandler
<1>2. sync_open # 0
  <2>1. queue \in Seq(Nat) /\ Len(queue) >= 1 /\ Head(queue) = queue[1]
    BY <1>1 DEF Sync!Inv, Sync!TypeOK
  <2>2. queue[1] > 0
    BY <2>1 DEF Sync!Inv, Sync!QueuedCalls
  <2> QED
    BY <1>1, <2>1, <2>2
<1>3. PICK c \in Callers : /\ sync_call = c /\ sync_open = id[c]
                           /\ pc[c] \in {"post", "wait", "sleepy", "asleep"}
  BY <1>2 DEF Sync!Inv, Sync!OpenCallLive
<1>4. Owner = c /\ pc[c] \notin Idle
  BY <1>3 DEF Owner, Idle
<1>5. ran[c] = 0
  BY <1>1, <1>2, <1>3, SMTT(30)
     DEF Sync!Inv, Sync!RanExact, Sync!DoneCall, Sync!Waiting, Sync!Serialised
<1> QED
  BY <1>3, <1>4, <1>5

(* The posted handler takes its call, or finds it taken.                   *)
LEMMA HandlerWalks ==
    ASSUME ~Racing, Sync!Inv, WalkInv, AbortInv, RunHandler
    PROVE  WalkInv' /\ AbortInv'
<1>1. /\ UNCHANGED <<op, aborting, abortReturned, ran, pc, sync_call>>
      /\ loopPc = "running" /\ loopPc' \in {"running", "taken"}
  BY DEF RunHandler, callVars, Sync!RunHandler, Sync!callVars
<1>2. CASE loopPc' # "taken"
  <2>1. UNCHANGED <<walk, walked>>
    BY <1>2 DEF RunHandler, listVars
  <2> QED
    BY <1>1, <1>2, <2>1, Quiet
<1>3. CASE loopPc' = "taken"
  <2>1. walk' = op[Owner] /\ walked' = (walked \/ op[Owner] = "abort")
    BY <1>3 DEF RunHandler, BeginWalk
  <2>2. PICK c \in Callers : sync_call = c /\ Owner = c /\ ran[c] = 0
    BY <1>3, HandlerTakes
  <2>3. AbortInv'
    BY <1>1, <2>1, <2>2, AbortBegins, SMTT(30)
  <2>4. \A d \in Callers : pc'[d] \notin Here
    BY <1>1, WalksAlone
  <2>5. walk' = op'[c] /\ walk' \in Kinds /\ \A d \in Callers : sync_call' = d => d = c
    BY <1>1, <2>1, <2>2, SMTT(30) DEF WalkInv
  <2>6. WalkInv'
    BY <1>1, <1>3, <2>4, <2>5, SMTT(30) DEF WalkInv
  <2> QED
    BY <2>3, <2>6
<1> QED
  BY <1>2, <1>3

(* f returns on the loop.                                                  *)
LEMMA LoopFinishes ==
    ASSUME ~Racing, Sync!Inv, WalkInv, AbortInv, FinishOnLoop
    PROVE  WalkInv' /\ AbortInv'
<1>1. /\ UNCHANGED <<op, aborting, abortReturned, pc, sync_call, walked>> /\ walk' = "none"
      /\ loopPc = "taken" /\ loopPc' = "ran"
  BY DEF FinishOnLoop, EndWalk, callVars, Sync!FinishOnLoop, Sync!syncVars
<1>2. PICK c \in Callers : sync_call = c
  BY <1>1, SyncFacts
<1>3. \A d \in Callers : d # c => ran'[d] = ran[d]
  <2>1. \A d \in Callers : d # c => pc[d] \notin Sync!Serialised
    BY <1>2, SyncFacts, SMTT(30)
  <2> QED
    BY <2>1 DEF FinishOnLoop, Sync!FinishOnLoop, Sync!Serialised, Sync!Serialised
<1>4. walk = op[c] /\ \A d \in Callers : pc[d] \notin Here
  BY <1>1, <1>2, SMTT(30) DEF WalkInv
<1>5. AbortInv'
  BY <1>1, <1>3, <1>4, AbortEnds, SMTT(30)
<1>6. WalkInv'
  BY <1>1, <1>4 DEF WalkInv, Kinds
<1> QED
  BY <1>5, <1>6

(* The loop's thread begins or ends a walk of its own.                     *)
LEMMA LoopWalks ==
    ASSUME ~Racing, Sync!Inv, WalkInv, AbortInv, AbortAllOnLoop \/ ForceAllOnLoop \/ FinishOwnWalk
    PROVE  WalkInv' /\ AbortInv'
<1>1. /\ UNCHANGED <<op, abortReturned, pc, ran, loopPc>> /\ loopPc = "running"
  BY DEF AbortAllOnLoop, ForceAllOnLoop, FinishOwnWalk, LoopIsFree, syncVars, callVars
<1>2. \A d \in Callers : pc[d] \notin Here
  BY <1>1, WalksAlone
<1>3. walk' \in Kinds
  BY DEF AbortAllOnLoop, ForceAllOnLoop, FinishOwnWalk, BeginWalk, EndWalk, Kinds
<1>4. WalkInv'
  BY <1>1, <1>2, <1>3, SMTT(30) DEF WalkInv
<1>5. CASE AbortAllOnLoop
  <2>1. ~aborting /\ aborting' /\ walk' = "abort" /\ walked'
    BY <1>5, Zenon DEF AbortAllOnLoop, BeginWalk
  <2> QED
    BY <1>1, <1>4, <2>1, SMTT(30) DEF AbortInv
<1>6. CASE ForceAllOnLoop \/ FinishOwnWalk
  <2>1. walk' # "abort" /\ aborting' = aborting
    BY <1>6 DEF ForceAllOnLoop, FinishOwnWalk, BeginWalk, EndWalk, callVars
  <2>2. walked => walked'
    BY <1>6, Zenon DEF ForceAllOnLoop, FinishOwnWalk, BeginWalk, EndWalk
  <2> QED
    BY <1>1, <1>4, <2>1, <2>2 DEF AbortInv
<1> QED
  BY <1>5, <1>6

(* abort_all() or force_all() begins or returns on caller c.               *)
LEMMA CallerCalls ==
    ASSUME ~Racing, Sync!Inv, WalkInv, AbortInv, NEW c \in Callers, AbortAll(c) \/ ForceAll(c) \/ Return(c)
    PROVE  WalkInv' /\ AbortInv'
<1>1. UNCHANGED <<walk, walked, pc, ran, loopPc, sync_call>> /\ pc[c] \in Idle
  BY DEF AbortAll, ForceAll, Return, listVars, syncVars, Idle
<1>2. op' \in [Callers -> Kinds] /\ \A d \in Callers : d # c => op'[d] = op[d]
  BY DEF AbortAll, ForceAll, Return, WalkInv, Kinds
<1>3. pc[c] \notin Here /\ (loopPc = "taken" => sync_call # c)
  BY <1>1, SyncFacts, SMTT(30) DEF Here, Idle, Sync!Serialised
<1>4. WalkInv'
  <2>1. \A d \in Callers : pc'[d] \notin Idle => op'[d] # "none"
    BY <1>1, <1>2 DEF WalkInv
  <2>2. \A d \in Callers : pc'[d] \in Here => walk' = op'[d]
    BY <1>1, <1>2, <1>3 DEF WalkInv
  <2>3. loopPc' = "taken" => \A d \in Callers : sync_call' = d => walk' = op'[d]
    BY <1>1, <1>2, <1>3 DEF WalkInv
  <2> QED
    BY <1>1, <1>2, <2>1, <2>2, <2>3, SMTT(30) DEF WalkInv
<1>5. AbortInv'
  <2>1. CASE AbortAll(c) /\ aborting
    <3>1. /\ op[c] = "none" /\ op'[c] = "none" /\ aborting' /\ abortReturned' = abortReturned
      BY <2>1 DEF AbortAll, WalkInv
    <3> QED
      BY <1>1, <1>2, <2>1, <3>1, SMTT(30) DEF AbortInv
  <2>2. CASE AbortAll(c) /\ ~aborting
    <3>1. /\ op'[c] = "abort" /\ aborting' /\ abortReturned' = abortReturned /\ pc'[c] = "idle"
      BY <1>1, <2>2 DEF AbortAll, WalkInv
    <3>2. ~abortReturned /\ walk # "abort" /\ \A d \in Callers : op[d] # "abort"
      BY <2>2 DEF AbortInv
    <3> QED
      BY <1>1, <1>2, <3>1, <3>2, SMTT(30) DEF AbortInv
  <2>3. CASE ForceAll(c)
    <3>1. op'[c] = "force" /\ aborting' = aborting /\ abortReturned' = abortReturned
      BY <2>3 DEF ForceAll, WalkInv
    <3> QED
      BY <1>1, <1>2, <3>1 DEF AbortInv
  <2>4. CASE Return(c) /\ op[c] = "abort"
    <3>1. op'[c] = "none" /\ aborting' = aborting /\ pc[c] = "returned"
      BY <2>4 DEF Return, WalkInv
    <3>2. aborting /\ walked /\ walk # "abort" /\ \A d \in Callers : d # c => op[d] # "abort"
      BY <2>4, <3>1, SyncFacts, SMTT(30) DEF AbortInv
    <3> QED
      BY <1>1, <1>2, <3>1, <3>2, SMTT(30) DEF AbortInv
  <2>5. CASE Return(c) /\ op[c] # "abort"
    <3>1. op'[c] = "none" /\ aborting' = aborting
      BY <2>5 DEF Return, WalkInv
    <3>2. abortReturned' <=> abortReturned
      BY <2>5, Zenon DEF Return
    <3> QED
      BY <1>1, <1>2, <3>1, <3>2, SMTT(30) DEF AbortInv
  <2> QED
    BY <2>1, <2>2, <2>3, <2>4, <2>5, SMTT(30)
<1> QED
  BY <1>4, <1>5, SMTT(30)

(* on_loop_sync's first test: caller c walks here, or goes on.             *)
LEMMA CallerEnters ==
    ASSUME ~Racing, Sync!Inv, WalkInv, AbortInv, NEW c \in Callers, EnterSync(c)
    PROVE  WalkInv' /\ AbortInv'
<1>1. /\ pc \in [Callers -> Sync!CallStates] /\ ran \in [Callers -> Nat]
  BY SyncFacts
<1>2. /\ UNCHANGED <<op, aborting, abortReturned, loopPc, sync_call>>
      /\ op[c] # "none" /\ pc[c] = "idle" /\ ran'[c] = 0
      /\ pc'[c] = IF loops = 0 THEN "inline" ELSE "lock"
      /\ \A d \in Callers : d # c => pc'[d] = pc[d] /\ ran'[d] = ran[d]
  BY <1>1 DEF EnterSync, callVars, Sync!Call, Sync!loopVars, Sync!syncVars
<1>3. CASE loops = 0
  <2>1. walk' = op[c] /\ walked' = (walked \/ op[c] = "abort")
    BY <1>2, <1>3, SMTT(30) DEF EnterSync, BeginWalk
  <2>2. loopPc \notin Inside
    BY <1>3, SyncFacts
  <2>3. AbortInv'
    BY <1>2, <2>1, AbortBegins, SMTT(30)
  <2>4. walk' \in Kinds /\ pc'[c] \in Here
    BY <1>2, <1>3, <2>1, SMTT(30) DEF WalkInv, Here
  <2>5. ~Racing' => \A d \in Callers : pc'[d] \in Here => walk' = op'[d]
    BY <1>2, <2>1, <2>4, TwoRace, SMTT(30)
  <2>6. \A d \in Callers : pc'[d] \notin Idle => op'[d] # "none"
    BY <1>2, SMTT(30) DEF WalkInv
  <2>7. WalkInv'
    BY <1>2, <2>2, <2>4, <2>5, <2>6, SMTT(30) DEF WalkInv, Inside
  <2> QED
    BY <2>3, <2>7, SMTT(30)
<1>4. CASE loops # 0
  <2>1. UNCHANGED <<walk, walked>> /\ pc'[c] = "lock"
    BY <1>2, <1>4 DEF EnterSync, listVars
  <2>2. \A d \in Callers : pc'[d] \in Here <=> pc[d] \in Here
    BY <1>2, <2>1, SMTT(30) DEF Here
  <2>3. \A d \in Callers : pc'[d] \notin Idle => op'[d] # "none"
    BY <1>2, SMTT(30) DEF WalkInv
  <2>4. WalkInv'
    BY <1>2, <2>1, <2>2, <2>3, SMTT(30) DEF WalkInv
  <2>5. AbortInv'
    <3>1. ASSUME NEW d \in Callers, op[d] = "abort"
          PROVE  pc'[d] # "idle" /\ ran'[d] = 1 => walked /\ walk # "abort"
      BY <1>2, <3>1, SMTT(30) DEF AbortInv
    <3> QED
      BY <1>2, <2>1, <3>1, SMTT(30) DEF AbortInv
  <2> QED
    BY <2>4, <2>5, SMTT(30)
<1> QED
  BY <1>3, <1>4

(* A call is taken back when the loop is gone, and has not run.            *)
LEMMA TakesUnrun ==
    ASSUME Sync!Inv, NEW c \in Callers, TakeBack(c)
    PROVE  loopPc \notin Inside /\ ran[c] = 0 /\ pc[c] = "wait"
<1>1. pc[c] = "wait" /\ sync_done # id[c] /\ loops = 0
  BY DEF TakeBack, Sync!WaitTake, Sync!WaitOver
<1>2. loopPc \notin Inside
  BY <1>1, SyncFacts, SMTT(30)
<1>3. ran[c] = 0
  BY <1>1, <1>2, SMTT(30) DEF Sync!Inv, Sync!RanExact, Sync!Waiting, Inside
<1> QED
  BY <1>1, <1>2, <1>3

(* The loop is gone: caller c takes its call back and walks.               *)
LEMMA CallerTakes ==
    ASSUME ~Racing, Sync!Inv, WalkInv, AbortInv, NEW c \in Callers, TakeBack(c)
    PROVE  WalkInv' /\ AbortInv'
<1>1. pc \in [Callers -> Sync!CallStates]
  BY SyncFacts
<1>2. /\ UNCHANGED <<op, aborting, abortReturned, loopPc, sync_call, ran>>
      /\ pc[c] = "wait" /\ pc'[c] = "took"
      /\ \A d \in Callers : d # c => pc'[d] = pc[d]
      /\ walk' = op[c] /\ walked' = (walked \/ op[c] = "abort")
  BY <1>1 DEF TakeBack, BeginWalk, callVars, Sync!WaitTake, Sync!loopVars
<1>3. loopPc \notin Inside /\ ran[c] = 0
  BY TakesUnrun
<1>4. AbortInv'
  BY <1>2, <1>3, AbortBegins, SMTT(30)
<1>5. WalkInv'
  <2>1. walk' \in Kinds /\ pc'[c] \in Here /\ op[c] # "none"
    BY <1>2, SMTT(30) DEF WalkInv, Idle, Here
  <2>2. ~Racing' => \A d \in Callers : pc'[d] \in Here => walk' = op'[d]
    BY <1>2, <2>1, TwoRace, SMTT(30)
  <2>3. \A d \in Callers : pc'[d] \notin Idle => op'[d] # "none"
    BY <1>2, <2>1, SMTT(30) DEF WalkInv
  <2> QED
    BY <1>2, <1>3, <2>1, <2>2, <2>3, SMTT(30) DEF WalkInv, Inside
<1> QED
  BY <1>4, <1>5

(* Caller c's own walk ends.                                               *)
LEMMA CallerFinishes ==
    ASSUME ~Racing, Sync!Inv, WalkInv, AbortInv, NEW c \in Callers, FinishHere(c)
    PROVE  WalkInv' /\ AbortInv'
<1>1. pc \in [Callers -> Sync!CallStates] /\ ran \in [Callers -> Nat]
  BY SyncFacts
<1>2. /\ UNCHANGED <<walked, op, aborting, abortReturned, loopPc>> /\ walk' = "none"
      /\ pc[c] \in Here /\ pc'[c] = "returned"
      /\ \A d \in Callers : d # c => pc'[d] = pc[d] /\ ran'[d] = ran[d]
  BY <1>1
     DEF FinishHere, EndWalk, callVars, Sync!FinishInline, Sync!FinishTaken, Sync!loopVars, Here
<1>3. walk = op[c] /\ loopPc # "taken"
  BY <1>2 DEF WalkInv
<1>4. AbortInv'
  BY <1>2, <1>3, AbortEnds
<1>5. \A d \in Callers : d # c => pc[d] \notin Here
  BY <1>2, WalksAlone
<1>6. WalkInv'
  <2>1. \A d \in Callers : pc'[d] \notin Here
    BY <1>2, <1>5 DEF Here
  <2>2. \A d \in Callers : pc'[d] \notin Idle => op'[d] # "none"
    BY <1>2 DEF WalkInv, Idle
  <2> QED
    BY <1>2, <1>3, <2>1, <2>2, SMTT(30) DEF WalkInv, Kinds
<1> QED
  BY <1>4, <1>6

-----------------------------------------------------------------------------
(* Every step keeps both invariants.                                       *)
LEMMA NextWalk == Sync!Inv /\ WalkInv /\ AbortInv /\ [Next]_vars => WalkInv' /\ AbortInv'
<1> SUFFICES ASSUME Sync!Inv, WalkInv, AbortInv, [Next]_vars PROVE WalkInv' /\ AbortInv'
  OBVIOUS
<1>1. CASE UNCHANGED vars \/ Undefined
  <2>1. UNCHANGED vars
    BY <1>1 DEF Undefined
  <2> QED
    BY <2>1, Zenon DEF vars, syncVars, listVars, callVars, WalkInv, AbortInv, Racing, Walkers
<1>2. CASE ~Racing /\ (Visit \/ \E a \in Abortables : Track(a) \/ Untrack(a))
  <2>1. UNCHANGED <<walk, walked, op, aborting, abortReturned, ran, pc, loopPc, sync_call>>
    BY <1>2, Zenon DEF Visit, Track, Untrack, syncVars, callVars
  <2> QED
    BY <1>2, <2>1, Quiet, SMTT(30)
<1>3. ASSUME ~Racing, NEW c \in Callers, AnotherCall(c) PROVE WalkInv' /\ AbortInv'
  <2>1. pc \in [Callers -> Sync!CallStates]
    BY SyncFacts
  <2>2. /\ UNCHANGED <<walk, walked, op, aborting, abortReturned, ran, loopPc, sync_call>>
        /\ pc[c] = "returned" /\ pc'[c] = "idle" /\ \A d \in Callers : d # c => pc'[d] = pc[d]
    BY <1>3, <2>1 DEF AnotherCall, Sync!Again, Sync!loopVars, Sync!syncVars, listVars, callVars
  <2> QED
    BY <1>3, <2>2, Quiet DEF Here, Idle
<1>4. ASSUME ~Racing, NEW c \in Callers, CallStep(c) \/ AbortAll(c) \/ ForceAll(c)
      PROVE  WalkInv' /\ AbortInv'
  BY <1>4, CallQuiet, CallerCalls, CallerEnters, CallerTakes, CallerFinishes, Zenon DEF CallStep
<1>5. CASE ~Racing /\ (LoopStep \/ ClaimOrStop \/ AbortAllOnLoop \/ ForceAllOnLoop)
  BY <1>5, LoopQuiet, HandlerWalks, LoopFinishes, LoopWalks, Zenon DEF LoopStep
<1>6. CASE HostStep
  BY <1>2, <1>3, <1>4, <1>5, <1>6, Zenon DEF HostStep
<1>7. CASE LoopStep \/ WalkStep
  BY <1>2, <1>5, <1>7, Zenon DEF LoopStep, WalkStep
<1>8. CASE \E c \in Callers : CallStep(c)
  BY <1>4, <1>8, Zenon DEF CallStep
<1> QED
  BY <1>1, <1>6, <1>7, <1>8, Zenon DEF Next

-----------------------------------------------------------------------------
(* The abort walk begins once.                                             *)

(* The call of abort_all() that walks has not begun, or its f is running   *)
(* or has run, by the time walked_ is set; a walk that the loop's thread   *)
(* began on its own is no caller's.                                        *)
OnceInv ==
    /\ walked => aborting
    /\ \A c \in Callers : op[c] = "abort" /\ walked =>
          pc[c] # "idle" /\ (ran[c] = 1 \/ walk = "abort")
    /\ loopPc = "running" /\ walk = "abort" => \A c \in Callers : op[c] # "abort"

(* A walk begins when none is in progress, and the abort walk never again. *)
Begins(kind) ==
    /\ kind \in {"abort", "force"}
    /\ BeginWalk(kind)
    /\ walk = "none"
    /\ kind = "abort" => ~walked

(* Without a race every walk begins so.                                    *)
LEMMA HandlerBegins ==
    ASSUME Sync!Inv, WalkInv, OnceInv, RunHandler, loopPc' = "taken"
    PROVE  \E c \in Callers : sync_call = c /\ ran[c] = 0 /\ pc[c] \notin Idle /\ Begins(op[c])
<1>1. PICK c \in Callers : sync_call = c /\ Owner = c /\ ran[c] = 0 /\ pc[c] \notin Idle
  BY HandlerTakes
<1>2. walk = "none" /\ BeginWalk(op[c])
  BY <1>1 DEF RunHandler
<1>3. op[c] \in {"abort", "force"}
  BY <1>1 DEF WalkInv, Kinds
<1>4. op[c] = "abort" => ~walked
  BY <1>1, <1>2 DEF OnceInv
<1> QED
  BY <1>1, <1>2, <1>3, <1>4 DEF Begins

LEMMA CallerBegins ==
    ASSUME ~Racing, Sync!Inv, WalkInv, OnceInv, NEW c \in Callers,
           (EnterSync(c) /\ loops = 0) \/ TakeBack(c)
    PROVE  /\ op[c] \in {"abort", "force"} /\ BeginWalk(op[c]) /\ loopPc \notin Inside
           /\ Begins(op[c]) \/ Racing'
<1>1. pc \in [Callers -> Sync!CallStates]
  BY SyncFacts
<1>2. /\ op[c] \in {"abort", "force"} /\ BeginWalk(op[c]) /\ loopPc \notin Inside
      /\ op[c] = "abort" /\ walk = "none" => ~walked
      /\ pc[c] \notin Here /\ pc'[c] \in Here /\ loopPc' = loopPc
      /\ \A d \in Callers : d # c => pc'[d] = pc[d]
  <2>1. CASE EnterSync(c) /\ loops = 0
    <3>1. /\ pc[c] = "idle" /\ op[c] # "none" /\ pc'[c] = "inline" /\ loopPc' = loopPc
          /\ \A d \in Callers : d # c => pc'[d] = pc[d]
      BY <1>1, <2>1, SMTT(30) DEF EnterSync, Sync!Call, Sync!loopVars
    <3>2. BeginWalk(op[c]) /\ loopPc \notin Inside
      BY <2>1, <3>1, SyncFacts, Zenon DEF EnterSync
    <3> QED
      BY <3>1, <3>2 DEF WalkInv, Kinds, OnceInv, Here
  <2>2. CASE TakeBack(c)
    <3>1. /\ pc[c] = "wait" /\ pc'[c] = "took" /\ loopPc' = loopPc
          /\ \A d \in Callers : d # c => pc'[d] = pc[d]
      BY <1>1, <2>2, SMTT(30) DEF TakeBack, Sync!WaitTake, Sync!loopVars
    <3>2. BeginWalk(op[c]) /\ loopPc \notin Inside /\ ran[c] = 0
      BY <2>2, TakesUnrun, Zenon DEF TakeBack
    <3> QED
      BY <3>1, <3>2, SMTT(30) DEF WalkInv, Kinds, OnceInv, Here, Idle
  <2> QED
    BY <2>1, <2>2, Zenon
<1>3. CASE walk = "none"
  BY <1>2, <1>3 DEF Begins
<1>4. CASE walk # "none"
  <2>1. PICK d \in Callers : pc[d] \in Here
    BY <1>2, <1>4 DEF WalkInv, Inside
  <2> QED
    BY <1>2, <2>1, TwoRace
<1> QED
  BY <1>2, <1>3, <1>4

LEMMA LoopBegins ==
    ASSUME OnceInv, AbortAllOnLoop \/ ForceAllOnLoop
    PROVE  \E kind \in {"abort", "force"} : Begins(kind)
  BY ZenonT(30) DEF AbortAllOnLoop, ForceAllOnLoop, LoopIsFree, Begins, OnceInv

(* A walk of caller c's call begins.                                       *)
LEMMA OnceBegins ==
    ASSUME AbortInv, OnceInv, NEW c \in Callers, Begins(op[c]), UNCHANGED <<op, aborting>>,
           \A d \in Callers : d # c => pc'[d] = pc[d] /\ ran'[d] = ran[d],
           pc'[c] # "idle", loopPc' # "running"
    PROVE  OnceInv'
<1>1. walk = "none" /\ walk' = op[c] /\ (walked' <=> walked \/ op[c] = "abort")
  BY Zenon DEF Begins, BeginWalk
<1>2. CASE op[c] = "abort"
  <2>1. aborting /\ \A d \in Callers : op[d] = "abort" => d = c
    BY <1>2, SMTT(30) DEF AbortInv
  <2> QED
    BY <1>1, <1>2, <2>1 DEF OnceInv
<1>3. CASE op[c] # "abort"
  BY <1>1, <1>3, SMTT(30) DEF OnceInv
<1> QED
  BY <1>2, <1>3

(* It ends.                                                                *)
LEMMA OnceEnds ==
    ASSUME AbortInv, OnceInv, NEW c \in Callers, walk = op[c], walk' = "none",
           UNCHANGED <<walked, op, aborting>>,
           \A d \in Callers : d # c => pc'[d] = pc[d] /\ ran'[d] = ran[d],
           pc'[c] # "idle", ran'[c] = 1
    PROVE  OnceInv'
<1>1. op[c] = "abort" => \A d \in Callers : op[d] = "abort" => d = c
  BY DEF AbortInv
<1> QED
  BY <1>1, SMTT(30) DEF OnceInv

(* A step that begins and ends no walk and no call of the host.            *)
LEMMA OnceQuiet ==
    ASSUME OnceInv, UNCHANGED <<walk, walked, op, aborting, ran>>,
           \A c \in Callers : op[c] = "abort" /\ pc[c] # "idle" => pc'[c] # "idle",
           walk = "abort" /\ loopPc' = "running" => loopPc = "running"
    PROVE  OnceInv'
  BY DEF OnceInv

(* The steps of the loop's thread.                                         *)
LEMMA LoopOnce ==
    ASSUME Sync!Inv, WalkInv, AbortInv, OnceInv, ~Racing,
           LoopStep \/ ClaimOrStop \/ AbortAllOnLoop \/ ForceAllOnLoop
    PROVE  OnceInv' \/ Racing'
<1>1. CASE LoopOnly \/ ClaimOrStop
  <2>1. UNCHANGED <<walk, walked, op, aborting, ran>>
    BY <1>1 DEF LoopOnly, ClaimOrStop, listVars, callVars, Sync!EnterRun, Sync!PublishDone,
       Sync!Release, Sync!ReleaseNotify, Sync!LeaveRun, Sync!Claim, Sync!Restart, Sync!StopLoop, Sync!callVars
  <2>2. pc' = pc \/ pc' = Sync!Woken
    BY <1>1 DEF LoopOnly, ClaimOrStop, Sync!EnterRun, Sync!PublishDone, Sync!Release,
           Sync!ReleaseNotify, Sync!LeaveRun, Sync!Claim, Sync!Restart, Sync!StopLoop, Sync!callVars
  <2>3. \A c \in Callers : pc[c] # "idle" => pc'[c] # "idle"
    BY <2>2 DEF Sync!Woken
  <2>4. loopPc' = "running" => loopPc \in {"running", "claimed", "ran"}
    BY <1>1 DEF LoopOnly, ClaimOrStop, Sync!EnterRun, Sync!PublishDone, Sync!Release,
           Sync!ReleaseNotify, Sync!LeaveRun, Sync!Claim, Sync!Restart, Sync!StopLoop
  <2>5. CASE walk = "abort" /\ loopPc' = "running" /\ loopPc # "running"
    <3>1. PICK c \in Callers : pc[c] \in Here
      BY <2>4, <2>5 DEF WalkInv
    <3>2. pc'[c] \in Here
      BY <2>2, <3>1 DEF Sync!Woken, Here
    <3> QED
      BY <2>5, <3>2, TwoRace
  <2>6. CASE ~(walk = "abort" /\ loopPc' = "running" /\ loopPc # "running")
    BY <2>1, <2>3, <2>6, OnceQuiet, SMTT(30)
  <2> QED
    BY <2>5, <2>6
<1>2. CASE RunHandler
  <2>1. UNCHANGED <<op, aborting, ran, pc>> /\ loopPc = "running"
    BY <1>2 DEF RunHandler, callVars, Sync!RunHandler, Sync!callVars
  <2>2. CASE loopPc' = "taken"
    BY <1>2, <2>1, <2>2, HandlerBegins, OnceBegins, SMTT(30) DEF Idle
  <2>3. CASE loopPc' # "taken"
    BY <1>2, <2>1, <2>3, OnceQuiet, SMTT(30) DEF RunHandler, listVars
  <2> QED
    BY <2>2, <2>3
<1>3. CASE FinishOnLoop
  <2>1. /\ UNCHANGED <<op, aborting, pc, walked>> /\ walk' = "none" /\ loopPc = "taken"
        /\ ran' = [c \in Callers |-> IF id[c] = current /\ pc[c] \in Sync!Serialised
                                     THEN ran[c] + 1 ELSE ran[c]]
    BY <1>3 DEF FinishOnLoop, EndWalk, callVars, Sync!FinishOnLoop
  <2>2. PICK c \in Callers : /\ sync_call = c /\ pc[c] \in Sync!Waiting
                             /\ current = id[c] /\ sync_done # id[c]
    BY <2>1, SyncFacts
  <2>3. pc[c] \in Sync!Serialised /\ \A d \in Callers : d # c => pc[d] \notin Sync!Serialised
    BY <2>2, SyncFacts
  <2>4. ran[c] = 0
    BY <2>1, <2>2 DEF Sync!Inv, Sync!RanExact
  <2>5. ran'[c] = 1 /\ \A d \in Callers : d # c => ran'[d] = ran[d]
    BY <2>1, <2>2, <2>3, <2>4, SMTT(30)
  <2>6. walk = op[c] /\ pc[c] # "idle"
    BY <2>1, <2>2 DEF WalkInv, Sync!Waiting
  <2> QED
    BY <2>1, <2>5, <2>6, OnceEnds, SMTT(30)
<1>4. CASE AbortAllOnLoop
  <2>1. ~aborting /\ aborting' /\ UNCHANGED op
    BY <1>4 DEF AbortAllOnLoop
  <2>2. \A c \in Callers : op[c] # "abort"
    BY <2>1 DEF AbortInv
  <2> QED
    BY <2>1, <2>2 DEF OnceInv
<1>5. CASE ForceAllOnLoop \/ FinishOwnWalk
  <2>1. UNCHANGED <<op, aborting, pc, ran>> /\ walk' # "abort" /\ loopPc = "running"
    BY <1>5 DEF ForceAllOnLoop, FinishOwnWalk, BeginWalk, EndWalk, LoopIsFree, syncVars, callVars
  <2>2. walked' <=> walked
    <3>1. CASE ForceAllOnLoop
      <4>1. walked' = (walked \/ "force" = "abort")
        BY <3>1 DEF ForceAllOnLoop, BeginWalk
      <4>2. "force" # "abort"
        OBVIOUS
      <4> QED
        BY <4>1, <4>2, Zenon
    <3>2. CASE FinishOwnWalk
      BY <3>2, Zenon DEF FinishOwnWalk, EndWalk
    <3> QED
      BY <1>5, <3>1, <3>2, Zenon
  <2> QED
    BY <2>1, <2>2, SMTT(30) DEF OnceInv
<1> QED
  BY <1>1, <1>2, <1>3, <1>4, <1>5, SMTT(30) DEF LoopStep

(* The steps of the callers.                                               *)
LEMMA CallerOnce ==
    ASSUME Sync!Inv, WalkInv, AbortInv, OnceInv, ~Racing, NEW c \in Callers,
           CallStep(c) \/ AbortAll(c) \/ ForceAll(c) \/ AnotherCall(c)
    PROVE  OnceInv' \/ Racing'
<1>1. pc \in [Callers -> Sync!CallStates] /\ ran \in [Callers -> Nat]
  BY SyncFacts, SMTT(30)
<1>2. CASE CallOnly(c) \/ AnotherCall(c)
  <2>1. UNCHANGED <<walk, walked, op, aborting, ran, loopPc>>
    BY <1>2, SMTT(30) DEF CallOnly, AnotherCall, listVars, callVars, Sync!LockCall, Sync!OpenCall,
           Sync!PostHandler, Sync!WaitReturn, Sync!WaitFalse, Sync!Sleep, Sync!Again, Sync!loopVars
  <2>2. \A d \in Callers : op[d] = "abort" /\ pc[d] # "idle" => pc'[d] # "idle"
    BY <1>1, <1>2 DEF CallOnly, AnotherCall, Sync!LockCall, Sync!OpenCall, Sync!PostHandler,
           Sync!WaitReturn, Sync!WaitFalse, Sync!Sleep, Sync!Again
  <2> QED
    BY <2>1, <2>2, OnceQuiet, ZenonT(30)
<1>3. CASE EnterSync(c)
  <2>1. /\ UNCHANGED <<op, aborting, loopPc>> /\ pc[c] = "idle" /\ ran'[c] = 0
        /\ pc'[c] = IF loops = 0 THEN "inline" ELSE "lock"
        /\ \A d \in Callers : d # c => pc'[d] = pc[d] /\ ran'[d] = ran[d]
    BY <1>1, <1>3, SMTT(30) DEF EnterSync, callVars, Sync!Call, Sync!loopVars
  <2>2. CASE loops = 0
    BY <1>3, <2>1, <2>2, CallerBegins, OnceBegins, Zenon DEF Inside
  <2>3. CASE loops # 0
    <3>1. UNCHANGED <<walk, walked>>
      BY <1>3, <2>1, <2>3, ZenonT(30) DEF EnterSync, listVars
    <3> QED
      BY <2>1, <3>1, Zenon DEF OnceInv
  <2> QED
    BY <2>2, <2>3
<1>4. CASE TakeBack(c)
  <2>1. /\ UNCHANGED <<op, aborting, loopPc, ran>> /\ pc'[c] = "took"
        /\ \A d \in Callers : d # c => pc'[d] = pc[d]
    BY <1>1, <1>4, ZenonT(30) DEF TakeBack, callVars, Sync!WaitTake, Sync!loopVars
  <2> QED
    BY <1>4, <2>1, CallerBegins, OnceBegins, ZenonT(30) DEF Inside
<1>5. CASE FinishHere(c)
  <2>1. UNCHANGED <<walked, op, aborting>> /\ walk' = "none" /\ pc[c] \in Here
    BY <1>5, Zenon DEF FinishHere, EndWalk, callVars, Sync!FinishInline, Sync!FinishTaken, Here
  <2>2. walk = op[c] /\ ran[c] = 0
    BY <2>1, SyncFacts, Zenon DEF WalkInv, Here
  <2>3. /\ pc'[c] # "idle" /\ ran'[c] = 1
        /\ \A d \in Callers : d # c => pc'[d] = pc[d] /\ ran'[d] = ran[d]
    BY <1>1, <1>5, <2>2, SMTT(30) DEF FinishHere, Sync!FinishInline, Sync!FinishTaken
  <2> QED
    BY <2>1, <2>2, <2>3, OnceEnds, ZenonT(30)
<1>6. CASE AbortAll(c) \/ ForceAll(c) \/ Return(c)
  <2>1. /\ UNCHANGED <<walk, walked, pc, ran, loopPc>> /\ (aborting => aborting')
        /\ \A d \in Callers : d # c => op'[d] = op[d]
    BY <1>6, SMTT(30) DEF AbortAll, ForceAll, Return, listVars, syncVars, WalkInv
  <2>2. CASE op'[c] # "abort"
    <3>1. \A d \in Callers : op'[d] = "abort" => op[d] = "abort"
      BY <2>1, <2>2, SMTT(30)
    <3>2. (walked => aborting)'
      BY <2>1 DEF OnceInv
    <3>3. \A d \in Callers : op'[d] = "abort" /\ walked' =>
              pc'[d] # "idle" /\ (ran'[d] = 1 \/ walk' = "abort")
      BY <2>1, <3>1, Zenon DEF OnceInv
    <3>4. loopPc' = "running" /\ walk' = "abort" => \A d \in Callers : op'[d] # "abort"
      BY <2>1, <3>1, ZenonT(30) DEF OnceInv
    <3> QED
      BY <3>2, <3>3, <3>4, ZenonT(30) DEF OnceInv
  <2>3. CASE op'[c] = "abort"
    <3>1. ~aborting
      BY <1>6, <2>3 DEF AbortAll, ForceAll, Return, WalkInv
    <3> QED
      BY <2>1, <3>1, SMTT(30) DEF OnceInv, AbortInv
  <2> QED
    BY <2>2, <2>3, SMTT(30)
<1> QED
  BY <1>2, <1>3, <1>4, <1>5, <1>6, SMTT(30) DEF CallStep

LEMMA NextOnce ==
    Sync!Inv /\ WalkInv /\ AbortInv /\ (Racing \/ OnceInv) /\ [Next]_vars => (Racing \/ OnceInv)'
<1> SUFFICES ASSUME Sync!Inv, WalkInv, AbortInv, Racing \/ OnceInv, [Next]_vars
             PROVE  OnceInv' \/ Racing'
  OBVIOUS
<1>1. CASE UNCHANGED vars \/ Undefined
  <2>1. UNCHANGED vars
    BY <1>1 DEF Undefined
  <2> QED
    BY <2>1, Zenon DEF vars, syncVars, listVars, callVars, OnceInv, Racing, Walkers
<1>2. CASE ~Racing /\ (Visit \/ \E a \in Abortables : Track(a) \/ Untrack(a))
  <2>1. UNCHANGED <<walk, walked, op, aborting, ran, pc, loopPc>>
    BY <1>2, Zenon DEF Visit, Track, Untrack, syncVars, callVars
  <2> QED
    BY <1>2, <2>1, OnceQuiet
<1>3. CASE LoopStep \/ WalkStep \/ \E c \in Callers : CallStep(c)
  <2>1. ~Racing
    BY <1>3, Zenon DEF LoopStep, WalkStep, CallStep
  <2> QED
    BY <1>2, <1>3, <2>1, LoopOnce, CallerOnce, Zenon DEF WalkStep
<1>4. CASE HostStep
  BY <1>2, <1>4, LoopOnce, CallerOnce, Zenon DEF HostStep
<1> QED
  BY <1>1, <1>3, <1>4, Zenon DEF Next

-----------------------------------------------------------------------------
(* What the walks and track() leave of the abortables.                     *)

ListTypes ==
    /\ aborts \in Seq(Abortables) /\ cursor \in Seq(Abortables)
    /\ IsInjective(aborts) /\ IsSuffix(cursor, aborts)
    /\ abortRuns \in [Abortables -> Nat] /\ forceRuns \in [Abortables -> BOOLEAN]
    /\ walked \in BOOLEAN /\ forced \in BOOLEAN /\ calling \in BOOLEAN

(* During a walk the tracked abortables are reached but for those that the *)
(* cursor has still to visit; before the abort walk none is aborted.       *)
ReachInv ==
    /\ cursor # <<>> => walk # "none"
    /\ ~walked => \A a \in Abortables : abortRuns[a] = 0
    /\ walk = "abort" =>
          \A a \in Tracked : abortRuns[a] = IF a \in Range(cursor) THEN 0 ELSE 1
    /\ walked /\ walk # "abort" => \A a \in Tracked : abortRuns[a] = 1
    /\ \A a \in Abortables : abortRuns[a] <= 1
    /\ walk = "force" => forced /\ \A a \in Tracked \ Range(cursor) : forceRuns[a]
    /\ forced /\ walk # "force" => \A a \in Tracked : forceRuns[a]

(* What a step of the reactor does to the list.                            *)
ListStep ==
    \/ \E kind \in {"abort", "force"} : Begins(kind)
    \/ EndWalk
    \/ Visit
    \/ \E a \in Abortables : Track(a) \/ Untrack(a)
    \/ UNCHANGED listVars

(* A walk begins beside another.                                           *)
RaceStep == Racing' /\ \E kind \in {"abort", "force"} : BeginWalk(kind)

LEMMA CallerListStep ==
    ASSUME ~Racing, Sync!Inv, WalkInv, OnceInv, NEW c \in Callers,
           CallStep(c) \/ AbortAll(c) \/ ForceAll(c) \/ AnotherCall(c)
    PROVE  ListStep \/ RaceStep
<1>1. CASE EnterSync(c)
  <2>1. CASE loops = 0
    BY <1>1, <2>1, CallerBegins, SMTT(30) DEF ListStep, RaceStep
  <2>2. CASE loops # 0
    <3>1. pc'[c] # "inline"
      BY <1>1, <2>2, SyncFacts, SMTT(30) DEF EnterSync, Sync!Call
    <3> QED
      BY <1>1, <3>1, SMTT(30) DEF EnterSync, ListStep
  <2> QED
    BY <2>1, <2>2
<1>2. CASE TakeBack(c)
  BY <1>2, CallerBegins, SMTT(30) DEF ListStep, RaceStep
<1> QED
  BY <1>1, <1>2, Zenon
     DEF CallStep, FinishHere, CallOnly, Return, AbortAll, ForceAll, AnotherCall, ListStep

LEMMA ListSteps ==
    Sync!Inv /\ WalkInv /\ (Racing \/ OnceInv) /\ [Next]_vars => ListStep \/ RaceStep
<1> SUFFICES ASSUME Sync!Inv, WalkInv, Racing \/ OnceInv, [Next]_vars PROVE ListStep \/ RaceStep
  OBVIOUS
<1>1. ASSUME ~Racing, NEW c \in Callers, CallStep(c) \/ AbortAll(c) \/ ForceAll(c) \/ AnotherCall(c)
      PROVE  ListStep \/ RaceStep
  BY <1>1, CallerListStep, Zenon
<1>2. CASE LoopStep
  <2>1. CASE RunHandler
    BY <1>2, <2>1, HandlerBegins DEF RunHandler, ListStep, Begins, LoopStep
  <2> QED
    BY <1>2, <2>1, Zenon DEF LoopStep, FinishOnLoop, FinishOwnWalk, LoopOnly, ListStep
<1>3. CASE HostStep
  <2>1. CASE AbortAllOnLoop \/ ForceAllOnLoop
    BY <1>3, <2>1, LoopBegins, Zenon DEF ListStep, HostStep
  <2> QED
    BY <1>1, <1>3, <2>1, Zenon DEF HostStep, ClaimOrStop, ListStep
<1>4. CASE WalkStep
  BY <1>4, Zenon DEF WalkStep, ListStep
<1>5. CASE UNCHANGED vars \/ Undefined
  BY <1>5 DEF Undefined, vars, ListStep
<1>6. CASE \E c \in Callers : CallStep(c)
  BY <1>1, <1>6, Zenon DEF CallStep
<1> QED
  BY <1>2, <1>3, <1>4, <1>5, <1>6, Zenon DEF Next

LEMMA ListTypesKept == ListTypes /\ (ListStep \/ RaceStep) => ListTypes'
<1> SUFFICES ASSUME ListTypes, ListStep \/ RaceStep PROVE ListTypes'
  OBVIOUS
<1>1. /\ aborts \in Seq(Abortables) /\ cursor \in Seq(Abortables)
      /\ IsInjective(aborts) /\ IsSuffix(cursor, aborts) /\ IsInjective(cursor)
  BY SuffixIsList DEF ListTypes
<1>2. ASSUME NEW kind \in {"abort", "force"}, BeginWalk(kind) PROVE ListTypes'
  <2>1. UNCHANGED <<aborts, calling, abortRuns, forceRuns>> /\ cursor' = aborts
    BY <1>2 DEF BeginWalk
  <2>2. walked' \in BOOLEAN /\ forced' \in BOOLEAN
    BY <1>2, Zenon DEF BeginWalk
  <2> QED
    BY <1>1, <2>1, <2>2, WholeIsSuffix DEF ListTypes
<1>3. CASE EndWalk
  BY <1>3, Zenon DEF EndWalk, ListTypes
<1>4. CASE Visit
  <2>1. UNCHANGED <<aborts, walked, forced>> /\ calling' = TRUE /\ cursor # <<>> /\ cursor' = Tail(cursor)
    BY <1>4 DEF Visit
  <2>2. cursor' \in Seq(Abortables) /\ IsSuffix(cursor', aborts) /\ Head(cursor) \in Abortables
    BY <1>1, <2>1, TailOfList, TailIsSuffix
  <2>3. abortRuns' \in [Abortables -> Nat] /\ forceRuns' \in [Abortables -> BOOLEAN]
    <3>1. CASE walk = "abort"
      <4>1. abortRuns' = [abortRuns EXCEPT ![Head(cursor)] = @ + 1] /\ UNCHANGED forceRuns
        BY <1>4, <3>1 DEF Visit
      <4> QED
        BY <2>2, <4>1 DEF ListTypes
    <3>2. CASE walk # "abort"
      <4>1. forceRuns' = [forceRuns EXCEPT ![Head(cursor)] = TRUE] /\ UNCHANGED abortRuns
        BY <1>4, <3>2 DEF Visit
      <4> QED
        BY <2>2, <4>1 DEF ListTypes
    <3> QED
      BY <3>1, <3>2
  <2> QED
    BY <2>1, <2>2, <2>3 DEF ListTypes
<1>5. ASSUME NEW a \in Abortables, Track(a) PROVE ListTypes'
  <2>1. UNCHANGED <<cursor, calling, walked, forced>> /\ aborts' = <<a>> \o aborts /\ a \notin Range(aborts)
    BY <1>5, SMTT(30) DEF Track, Tracked
  <2>2. aborts' \in Seq(Abortables) /\ IsInjective(aborts') /\ IsSuffix(cursor, aborts')
    BY <1>1, <2>1, AddedAtHead, HeadKeepsSuffix, SMTT(30)
  <2>3. abortRuns' \in [Abortables -> Nat] /\ forceRuns' \in [Abortables -> BOOLEAN]
    BY <1>5 DEF Track, ListTypes
  <2> QED
    BY <2>1, <2>2, <2>3 DEF ListTypes
<1>6. ASSUME NEW a \in Abortables, Untrack(a) PROVE ListTypes'
  <2>1. /\ UNCHANGED <<calling, walked, forced, abortRuns, forceRuns>>
        /\ aborts' = Without(aborts, a) /\ cursor' = Without(cursor, a)
    BY <1>6 DEF Untrack
  <2>2. /\ aborts' \in Seq(Abortables) /\ IsInjective(aborts') /\ cursor' \in Seq(Abortables)
        /\ IsSuffix(cursor', aborts')
    BY <1>1, <2>1, Removed, RemovedKeepsSuffix, SMTT(30)
  <2> QED
    BY <2>1, <2>2 DEF ListTypes
<1>7. CASE UNCHANGED listVars
  BY <1>7 DEF listVars, ListTypes
<1> QED
  BY <1>2, <1>3, <1>4, <1>5, <1>6, <1>7, Zenon DEF ListStep, Begins, RaceStep

LEMMA ReachKept ==
    ASSUME ListTypes, ReachInv, walk \in Kinds, walk = "abort" => walked, ListStep
    PROVE  ReachInv'
<1>1. /\ aborts \in Seq(Abortables) /\ cursor \in Seq(Abortables)
      /\ IsInjective(aborts) /\ IsInjective(cursor)
      /\ Range(cursor) \subseteq Tracked /\ Tracked \subseteq Abortables
      /\ abortRuns \in [Abortables -> Nat] /\ forceRuns \in [Abortables -> BOOLEAN]
  BY SuffixIsList, ListType DEF ListTypes, Tracked
<1>2. Tracked' = Range(aborts')
  BY SMTT(30) DEF Tracked
<1>3. ASSUME NEW kind \in {"abort", "force"}, Begins(kind) PROVE ReachInv'
  <2>1. /\ walk = "none" /\ walk' = kind /\ (kind = "abort" => ~walked)
        /\ UNCHANGED <<aborts, abortRuns, forceRuns>> /\ Range(cursor') = Tracked /\ Tracked' = Tracked
    BY <1>2, <1>3 DEF Begins, BeginWalk, Tracked
  <2>2. (walked' <=> walked \/ kind = "abort") /\ (forced' <=> forced \/ kind = "force")
    BY <1>3, ZenonT(30) DEF Begins, BeginWalk
  <2> QED
    BY <1>1, <2>1, <2>2, SMTT(30) DEF ReachInv
<1>4. CASE EndWalk
  <2>1. /\ cursor' = <<>> /\ Range(cursor) = {} /\ walk' = "none" /\ Tracked' = Tracked
        /\ UNCHANGED <<walked, forced, abortRuns, forceRuns>>
    BY <1>2, <1>4, EmptyList, SMTT(30) DEF EndWalk, Tracked
  <2> QED
    BY <2>1 DEF ReachInv
<1>5. CASE Visit
  <2> DEFINE h == Head(cursor)
  <2>1. /\ h \in Range(cursor) /\ Range(cursor') = Range(cursor) \ {h} /\ Tracked' = Tracked
        /\ UNCHANGED <<walk, walked, forced>> /\ walk # "none"
    BY <1>1, <1>2, <1>5, TailOfList, SMTT(30) DEF Visit, Tracked
  <2>2. CASE walk = "abort"
    <3>1. abortRuns' = [abortRuns EXCEPT ![h] = @ + 1] /\ UNCHANGED forceRuns
      BY <1>5, <2>2 DEF Visit
    <3>2. abortRuns'[h] = 1 /\ \A a \in Abortables : a # h => abortRuns'[a] = abortRuns[a]
      BY <1>1, <2>1, <2>2, <3>1, SMTT(30) DEF ReachInv
    <3> QED
      BY <1>1, <2>1, <2>2, <3>1, <3>2, SMTT(30) DEF ReachInv
  <2>3. CASE walk = "force"
    <3>1. forceRuns' = [forceRuns EXCEPT ![h] = TRUE] /\ UNCHANGED abortRuns
      BY <1>5, <2>3 DEF Visit
    <3>2. forceRuns'[h] /\ \A a \in Abortables : forceRuns[a] => forceRuns'[a]
      BY <1>1, <2>1, <3>1, SMTT(30)
    <3> QED
      BY <1>1, <2>1, <2>3, <3>1, <3>2 DEF ReachInv
  <2> QED
    BY <2>1, <2>2, <2>3, SMTT(30) DEF Kinds
<1>6. ASSUME NEW a \in Abortables, Track(a) PROVE ReachInv'
  <2>1. /\ UNCHANGED <<walk, cursor, walked, forced>> /\ a \notin Tracked
        /\ Tracked' = Tracked \cup {a}
    BY <1>1, <1>2, <1>6, AddedAtHead, SMTT(30) DEF Track, Tracked
  <2>2. /\ abortRuns'[a] = IF walked THEN 1 ELSE 0
        /\ \A b \in Abortables : b # a => abortRuns'[b] = abortRuns[b]
    BY <1>1, <1>6 DEF Track
  <2>3. (forceRuns'[a] <=> forced) /\ \A b \in Abortables : b # a => forceRuns'[b] = forceRuns[b]
    BY <1>1, <1>6, SMTT(30) DEF Track
  <2> QED
    BY <1>1, <2>1, <2>2, <2>3, SMTT(30) DEF ReachInv
<1>7. ASSUME NEW a \in Abortables, Untrack(a) PROVE ReachInv'
  <2>1. /\ UNCHANGED <<walk, walked, forced, abortRuns, forceRuns>>
        /\ Tracked' = Tracked \ {a} /\ Range(cursor') = Range(cursor) \ {a}
        /\ cursor' \in Seq(Abortables)
    BY <1>1, <1>2, <1>7, Removed DEF Untrack, Tracked
  <2>2. cursor' # <<>> => cursor # <<>>
    BY <1>1, <2>1, ListType, SMTT(30)
  <2> QED
    BY <1>1, <2>1, <2>2, SMTT(30) DEF ReachInv
<1>8. CASE UNCHANGED listVars
  BY <1>2, <1>8 DEF listVars, ReachInv, Tracked
<1> QED
  BY <1>3, <1>4, <1>5, <1>6, <1>7, <1>8, Zenon DEF ListStep

(* What the host's calls add.                                              *)
CallTypes == calls \in 0 .. MaxCalls /\ aborting \in BOOLEAN /\ abortReturned \in BOOLEAN

LEMMA CallTypesKept == CallTypes /\ [Next]_vars => CallTypes'
<1> SUFFICES ASSUME CallTypes, [Next]_vars PROVE CallTypes'
  OBVIOUS
<1>1. CASE AbortAllOnLoop \/ ForceAllOnLoop \/ \E c \in Callers : AbortAll(c) \/ ForceAll(c)
  <2>1. calls' = calls + 1 /\ calls < MaxCalls
    BY <1>1, Zenon DEF AbortAll, ForceAll, AbortAllOnLoop, ForceAllOnLoop
  <2>2. calls' \in 0 .. MaxCalls
    BY <2>1, ReactorAssumption DEF CallTypes
  <2>3. aborting' \in BOOLEAN /\ abortReturned' \in BOOLEAN
    BY <1>1, Zenon DEF AbortAll, ForceAll, AbortAllOnLoop, ForceAllOnLoop, CallTypes
  <2> QED
    BY <2>2, <2>3, Zenon DEF CallTypes
<1>2. ASSUME NEW c \in Callers, Return(c) PROVE CallTypes'
  <2>1. abortReturned' \in BOOLEAN /\ UNCHANGED <<calls, aborting>>
    BY <1>2, Zenon DEF Return
  <2> QED
    BY <2>1 DEF CallTypes
<1>3. CASE UNCHANGED callVars
  BY <1>3 DEF callVars, CallTypes
<1>4. CASE LoopStep \/ WalkStep \/ Undefined \/ UNCHANGED vars
  BY <1>3, <1>4, Zenon DEF vars, Visit, WalkStep, Undefined, LoopStep, RunHandler, FinishOnLoop,
                           FinishOwnWalk, LoopOnly
<1>5. CASE HostStep
  BY <1>1, <1>3, <1>5, Zenon DEF HostStep, Track, Untrack, ClaimOrStop, AnotherCall
<1>6. CASE \E c \in Callers : CallStep(c)
  BY <1>2, <1>3, <1>6, Zenon DEF CallStep, EnterSync, TakeBack, FinishHere, CallOnly
<1> QED
  BY <1>4, <1>5, <1>6, Zenon DEF Next

(* The whole invariant of the reactor.                                     *)
ReactorInv ==
    /\ Sync!Inv /\ WalkInv /\ AbortInv /\ ListTypes /\ CallTypes
    /\ Racing \/ OnceInv
    /\ Racing \/ ReachInv

LEMMA ReactorHolds == Spec => []ReactorInv
<1>1. Init => ReactorInv
  <2> SUFFICES ASSUME Init PROVE ReactorInv
    OBVIOUS
  <2>1. Sync!Inv /\ WalkInv /\ AbortInv
    <3>1. /\ pc = [c \in Callers |-> "idle"] /\ op = [c \in Callers |-> "none"] /\ walk = "none"
          /\ loopPc = "out" /\ ~abortReturned
      BY DEF Init, Sync!Init
    <3>2. WalkInv /\ AbortInv
      BY <3>1, SMTT(30) DEF WalkInv, AbortInv, Kinds, Idle, Here
    <3> QED
      BY <3>2, SyncInit DEF Init
  <2>2. OnceInv
    BY DEF Init, OnceInv
  <2>3. Tracked = {} /\ ListTypes
    BY EmptyList, WholeIsSuffix, Zenon DEF Init, ListTypes, Tracked
  <2>4. ReachInv
    BY <2>3 DEF Init, ReachInv
  <2>5. CallTypes
    <3>1. 0 \in 0 .. MaxCalls
      BY ReactorAssumption
    <3> QED
      BY <3>1, Zenon DEF Init, CallTypes
  <2> QED
    BY <2>1, <2>2, <2>3, <2>4, <2>5, SMTT(30) DEF ReactorInv
<1>2. ReactorInv /\ [Next]_vars => ReactorInv'
  <2> SUFFICES ASSUME ReactorInv, [Next]_vars PROVE ReactorInv'
    OBVIOUS
  <2>1. Sync!Inv' /\ WalkInv' /\ AbortInv' /\ CallTypes'
    BY SyncStep, SyncNext, NextWalk, CallTypesKept, Zenon DEF ReactorInv
  <2>2. (Racing \/ OnceInv)'
    BY NextOnce, Zenon DEF ReactorInv
  <2>3. /\ ListStep \/ RaceStep
        /\ ListTypes /\ walk \in Kinds /\ (walk = "abort" => walked)
    BY ListSteps DEF ReactorInv, WalkInv, AbortInv
  <2>4. ListTypes'
    BY <2>3, ListTypesKept
  <2>5. (Racing \/ ReachInv)'
    <3>1. CASE RaceStep
      BY <3>1 DEF RaceStep
    <3>2. CASE ListStep /\ ReachInv
      BY <2>3, <3>2, ReachKept
    <3>3. CASE Racing
      <4>1. UNCHANGED vars
        BY <3>3, Zenon DEF Next, WalkStep, LoopStep, CallStep, HostStep, Undefined
      <4> QED
        BY <3>3, <4>1, Zenon DEF vars, syncVars, Racing, Walkers
    <3> QED
      BY <2>3, <3>1, <3>2, <3>3 DEF ReactorInv
  <2> QED
    BY <2>1, <2>2, <2>4, <2>5, Zenon DEF ReactorInv
<1> QED
  BY <1>1, <1>2, PTL DEF Spec

(* For any number of threads and abortables, once the abort walk is over   *)
(* every tracked abortable has been aborted exactly once, and forced once  *)
(* the force walk is: whatever the callbacks track and untrack meanwhile,  *)
(* up to the moment when two threads are in the list.                      *)
THEOREM WalksReachAll == Spec => []ShutdownReachesAll
<1>1. ReactorInv => ShutdownReachesAll
  BY Zenon DEF ReactorInv, ReachInv, ShutdownReachesAll
<1> QED
  BY <1>1, ReactorHolds, PTL

(* For any number of threads, the abort_all() that walks returns only when *)
(* its walk is over, on whichever thread it ran.                           *)
THEOREM AbortAllReturnsLast == Spec => []AbortAllWaits
<1>1. ReactorInv => AbortAllWaits
  BY DEF ReactorInv, AbortInv, AbortAllWaits
<1> QED
  BY <1>1, ReactorHolds, PTL

(* For any number of threads, no caller of abort_all() or force_all()      *)
(* walks beside a handler of the loop, and no two walk at once but where   *)
(* one of them found no loop and so took no lock.  The list stays a list   *)
(* of abortables of which the cursor is the end still to visit.            *)
THEOREM OneThreadWalks == Spec => []OneWalker
<1>1. ReactorInv => TypeOK
  <2> SUFFICES ASSUME ReactorInv PROVE TypeOK
    OBVIOUS
  <2>1. Sync!TypeOK /\ op \in [Callers -> Kinds] /\ walk \in Kinds
    BY DEF ReactorInv, Sync!Inv, WalkInv
  <2> QED
    BY <2>1, Zenon DEF ReactorInv, ListTypes, CallTypes, Kinds, TypeOK
<1>2. ASSUME Sync!Inv, WalkInv
      PROVE  /\ walk # "none" => loopPc \in {"running", "taken"} \/ Walkers # {}
             /\ Walkers # {} => loopPc \notin {"taken", "ran", "left"}
             /\ \A c, d \in Walkers : c = d \/ "inline" \in {pc[c], pc[d]}
  <2>1. Walkers = {c \in Callers : pc[c] \in Here}
    BY DEF Walkers, Here, Sync!RunsHere
  <2>2. ASSUME NEW c \in Walkers, NEW d \in Walkers, "inline" \notin {pc[c], pc[d]} PROVE c = d
    <3>1. c \in Callers /\ d \in Callers /\ pc[c] = "took" /\ pc[d] = "took"
      BY <2>1, <2>2 DEF Here
    <3> QED
      BY <1>2, <3>1, SyncFacts, SMTT(30) DEF Sync!Serialised
  <2> QED
    BY <1>2, <2>1, <2>2, SMTT(30) DEF WalkInv
<1>3. ReactorInv => OneWalker
  BY <1>1, <1>2, Zenon DEF ReactorInv, OneWalker
<1> QED
  BY <1>3, ReactorHolds, PTL

(* For any number of threads, no call of abort_all() or force_all() sleeps *)
(* without its notification to come, and a thread that runs f walks for a  *)
(* call that has not returned.                                             *)
THEOREM NoWalkForgotten == Spec => []WalkOwed
<1>1. Spec => []Sync!NotificationOwed
  <2>1. Loop!LoopSyncAssumption
    BY ReactorAssumption DEF Loop!LoopSyncAssumption
  <2>2. Loop!Spec => []Loop!NotificationOwed
    BY <2>1, Loop!NoNotificationLost
  <2>3. Loop!NotificationOwed => Sync!NotificationOwed
    BY Zenon DEF Loop!NotificationOwed, Sync!NotificationOwed, Loop!Claimed, Sync!Claimed
  <2>4. Sync!Init => Loop!Init
    BY SameSteps
  <2> QED
    BY <2>2, <2>3, <2>4, SameNext, ReactorUsesLoopSync, PTL DEF Sync!Spec, Loop!Spec
<1>2. ASSUME ReactorInv PROVE
        /\ \A c \in Walkers : op[c] # "none" /\ (Racing \/ walk = op[c])
        /\ loopPc = "taken" => \E c \in Callers : sync_call = c /\ op[c] # "none" /\ walk = op[c]
  <2>1. \A c \in Walkers : op[c] # "none" /\ (Racing \/ walk = op[c])
    BY <1>2 DEF ReactorInv, WalkInv, Walkers, Sync!RunsHere, Idle, Here
  <2>2. loopPc = "taken" => \E c \in Callers : sync_call = c /\ pc[c] \in Sync!Waiting
    BY <1>2, SyncFacts DEF ReactorInv
  <2>3. \A c \in Callers : pc[c] \in Sync!Waiting => op[c] # "none"
    BY <1>2 DEF ReactorInv, WalkInv, Idle, Sync!Waiting
  <2>4. loopPc = "taken" => \A c \in Callers : sync_call = c => walk = op[c]
    BY <1>2 DEF ReactorInv, WalkInv
  <2> QED
    BY <2>1, <2>2, <2>3, <2>4, Zenon
<1>3. ReactorInv /\ Sync!NotificationOwed => WalkOwed
  BY <1>2, Zenon DEF WalkOwed
<1> QED
  BY <1>1, <1>3, ReactorHolds, PTL

-----------------------------------------------------------------------------
(* The list that the reactor walks is the one that AbortList promises: its *)
(* one walk is TrackedList's, and visited, a history variable, the item it *)
(* called last.  The promise is called off by a race.                      *)
VARIABLE visited

List == INSTANCE TrackedList WITH
            Items <- Abortables, items <- aborts, off <- Racing,
            walks <- IF walk = "none" THEN <<>> ELSE <<cursor>>

NotesVisits == visited' = IF Visit THEN Head(cursor) ELSE visited

LEMMA SameListOperators ==
    \A s, a : /\ List!Range(s) = Range(s) /\ List!Without(s, a) = Without(s, a)
              /\ List!Last(s) = Last(s) /\ List!Front(s) = Front(s)
  BY Zenon DEF List!Range, Range, List!Without, Without, List!Last, Last, List!Front, Front

(* One walk as a sequence of walks.                                        *)
LEMMA OneWalk ==
    ASSUME NEW s
    PROVE  /\ <<s>> # <<>> /\ DOMAIN <<s>> = {1} /\ Len(<<s>>) = 1 /\ <<s>>[1] = s
           /\ Last(<<s>>) = s /\ Front(<<s>>) = <<>> /\ Append(<<>>, s) = <<s>>
           /\ \A t : [<<s>> EXCEPT ![1] = t] = <<t>>
           /\ \A t : [i \in DOMAIN <<s>> |-> t] = <<t>>
  BY DEF Last, Front

LEMMA StepsTracked ==
    ASSUME ReachInv, ListStep, NotesVisits, UNCHANGED Racing
    PROVE  [List!Next]_(List!vars)
<1> DEFINE w == IF walk = "none" THEN <<>> ELSE <<cursor>>
<1>1. CASE Visit
  <2>1. /\ walk # "none" /\ cursor # <<>> /\ w = <<cursor>> /\ w' = <<Tail(cursor)>>
        /\ aborts' = aborts /\ visited' = Head(cursor)
    BY <1>1 DEF Visit, NotesVisits
  <2>2. Last(w) = cursor /\ w # <<>> /\ [w EXCEPT ![Len(w)] = Tail(@)] = <<Tail(cursor)>>
    BY <2>1, OneWalk
  <2> QED
    BY <2>1, <2>2, SameListOperators, Zenon DEF List!Next, List!Visit
<1>2. CASE ~Visit
  <2>1. visited' = visited
    BY <1>2 DEF NotesVisits
  <2>2. ASSUME NEW kind \in {"abort", "force"}, Begins(kind) PROVE List!Begin
    <3>1. w = <<>> /\ w' = <<aborts>> /\ aborts' = aborts
      BY <2>2, SMTT(30) DEF Begins, BeginWalk
    <3> QED
      BY <2>1, <3>1, OneWalk DEF List!Begin
  <2>3. CASE EndWalk /\ walk # "none"
    <3>1. w = <<cursor>> /\ cursor = <<>> /\ w' = <<>> /\ aborts' = aborts
      BY <2>3 DEF EndWalk
    <3> QED
      BY <2>1, <3>1, OneWalk, SameListOperators, SMTT(30) DEF List!Next, List!End
  <2>4. CASE (EndWalk /\ walk = "none") \/ UNCHANGED listVars
    <3>1. w' = w /\ aborts' = aborts
      BY <2>4 DEF EndWalk, listVars
    <3> QED
      BY <2>1, <3>1 DEF List!vars
  <2>5. ASSUME NEW a \in Abortables, Track(a) PROVE List!Add(a)
    <3>1. w' = w /\ a \notin Range(aborts) /\ aborts' = <<a>> \o aborts
      BY <2>5, SMTT(30) DEF Track, Tracked
    <3> QED
      BY <2>1, <3>1, SameListOperators, SMTT(30) DEF List!Add
  <2>6. ASSUME NEW a \in Abortables, Untrack(a) PROVE List!Erase(a)
    <3>1. aborts' = Without(aborts, a) /\ cursor' = Without(cursor, a) /\ walk' = walk
      BY <2>6 DEF Untrack
    <3>2. w' = [i \in DOMAIN w |-> Without(w[i], a)]
      <4>1. CASE walk = "none"
        BY <3>1, <4>1, SMTT(30)
      <4>2. CASE walk # "none"
        BY <3>1, <4>2, OneWalk
      <4> QED
        BY <4>1, <4>2
    <3> QED
      BY <2>1, <3>1, <3>2, SameListOperators, SMTT(30) DEF List!Erase
  <2> QED
    BY <1>2, <2>2, <2>3, <2>4, <2>5, <2>6, SMTT(30) DEF ListStep, List!Next
<1> QED
  BY <1>1, <1>2

(* The reactor's track(), untrack() and walks use the list as TrackedList, *)
(* which AbortList implements, lets them: no walk of the reactor skips or  *)
(* repeats an abortable because another was tracked or untracked in a      *)
(* callback, as long as no two threads are in the list.                    *)
THEOREM ReactorUsesTrackedList ==
    Spec /\ visited \in Abortables /\ [][NotesVisits]_<<vars, visited>> => List!Spec
<1>1. Init /\ visited \in Abortables => List!Init
  BY DEF Init, Sync!Init, List!Init, Racing, Walkers, Sync!RunsHere
<1>2. ReactorInv /\ [Next]_vars /\ [NotesVisits]_<<vars, visited>> => [List!Next \/ Racing']_(List!vars)
  <2> SUFFICES ASSUME ReactorInv, [Next]_vars, [NotesVisits]_<<vars, visited>>, ~Racing'
               PROVE  [List!Next]_(List!vars)
    OBVIOUS
  <2>1. CASE UNCHANGED <<vars, visited>>
    BY <2>1 DEF vars, syncVars, listVars, List!vars, Racing, Walkers
  <2>2. CASE NotesVisits
    <3>1. CASE Racing
      <4>1. UNCHANGED vars
        BY <3>1, Zenon DEF Next, WalkStep, LoopStep, CallStep, HostStep, Undefined
      <4> QED
        BY <3>1, <4>1, Zenon DEF vars, syncVars, Racing, Walkers
    <3>2. CASE ~Racing
      <4>1. ListStep /\ ReachInv
        BY <3>2, ListSteps DEF ReactorInv, RaceStep
      <4>2. UNCHANGED Racing
        <5>1. Racing \in BOOLEAN /\ Racing' \in BOOLEAN
          BY Zenon DEF Racing
        <5> QED
          BY <3>2, <5>1, Zenon
      <4> QED
        BY <2>2, <4>1, <4>2, StepsTracked
    <3> QED
      BY <3>1, <3>2
  <2> QED
    BY <2>1, <2>2
<1> QED
  BY <1>1, <1>2, ReactorHolds, PTL DEF Spec, List!Spec
=============================================================================
