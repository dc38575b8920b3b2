--------------------------- MODULE UdpServerProofs ---------------------------
(***************************************************************************)
(* Proofs about UdpServer, for any number of abortables and datagrams.     *)
(*                                                                         *)
(* Exceptions break what LoopSync and Reactor promise of every call: a     *)
(* call whose walk threw is taken and never published.  The invariant here *)
(* keeps only what holds in spite of them.                                 *)
(***************************************************************************)
EXTENDS UdpServer, ListLemmas, TLAPS

-----------------------------------------------------------------------------
(* The inductive invariant.                                                *)

ListTypes ==
    /\ aborts \in Seq(Abortables) /\ cursor \in Seq(Abortables)
    /\ IsInjective(aborts) /\ IsSuffix(cursor, aborts)
    /\ abortRuns \in [Abortables -> Nat] /\ forceRuns \in [Abortables -> BOOLEAN]
    /\ walked \in BOOLEAN /\ forced \in BOOLEAN /\ calling \in BOOLEAN
    /\ walk \in {"none", "abort", "force"}

HostTypes ==
    /\ calls \in 0 .. MaxCalls
    /\ op \in [Callers -> {"none", "abort", "force"}]
    /\ aborting \in BOOLEAN /\ abortReturned \in BOOLEAN

OwnTypes ==
    /\ owner \in {"out", "bind", "spawn", "claim", "thread", "unclaim", "abort", "walk",
                  "join", "close", "destroy"}
    /\ goal \in Phases
    /\ open \in BOOLEAN /\ joinable \in BOOLEAN /\ closed \in BOOLEAN
    /\ receiveFailed \in BOOLEAN /\ unwound \in BOOLEAN
    /\ receiver \in {"none", "spawned", "waiting", "ended", "destroyed"}
    /\ pending \in Nat /\ arrived \in 0 .. MaxDatagrams /\ pending <= arrived

Idle == {"idle", "returned"}

(* The open call is the owner's, and newer than what the loop took or      *)
(* published last: nobody completes it before it is taken.                 *)
CallInv ==
    /\ queue \in Seq(Nat \ {0})
    /\ id[Owner] <= sync_calls /\ sync_done <= sync_calls /\ current <= sync_calls
    /\ pc[Owner] \in R!Sync!Serialised => sync_call = Owner
    /\ pc[Owner] = "open" =>
          id[Owner] = sync_calls /\ sync_done < sync_calls /\ current < sync_calls
    /\ pc[Owner] = "post" => 0 < id[Owner]
    /\ sync_open # 0 =>
          /\ pc[Owner] \in {"post", "wait", "sleepy", "asleep"}
          /\ sync_open = id[Owner]
          /\ sync_done < sync_open /\ current < sync_open

(* The owner is inside on_loop_sync only in the walk of stop().            *)
PhaseInv ==
    /\ ~At("walk") => pc[Owner] \in Idle /\ op[Owner] = "none"
    /\ pc[Owner] \notin Idle => op[Owner] # "none"

(* A loop that runs has a thread to join, or the owner still inside        *)
(* start(); a receive loop that is left without either is on a stopped     *)
(* io_context.                                                             *)
ThreadInv ==
    /\ loops = IF loopPc \in R!Sync!Claimed THEN 1 ELSE 0
    /\ loopPc # "out" => joinable \/ At("thread") \/ At("unclaim")
    /\ At("thread") => loopPc = "claimed"
    /\ At("unclaim") => loopPc \in {"left", "notify", "out"}
    /\ owner \in {"spawn", "claim", "thread", "unclaim", "close", "destroy"} => ~joinable
    /\ joinable \/ owner \in {"spawn", "claim", "thread"} => open
    /\ At("join") => stopped
    /\ ~joinable /\ owner \notin {"claim", "thread", "unclaim"}
          /\ receiver \in {"spawned", "waiting"} => stopped

(* A thread to join is inside the loop until the io_context is stopped,    *)
(* and the receive loop it runs ends only with a failed receive.           *)
ListenInv ==
    /\ joinable => loopPc \in {"claimed", "running", "taken", "ran"} \/ stopped
    /\ joinable \/ owner \in {"claim", "thread"} =>
          receiver \in {"spawned", "waiting"} \/ receiveFailed

(* Until an abort() throws in the walk of a call, the call that the loop   *)
(* took is the one the owner waits in, no handler is posted for the call   *)
(* before the owner waits, and a sleep of the owner has its end to come.   *)
AnswerInv ==
    /\ \A i \in 1..Len(queue) : /\ queue[i] <= sync_calls
                                /\ pc[Owner] \in {"open", "post"} => queue[i] < id[Owner]
    /\ pc[Owner] \in R!Sync!Waiting => 0 < id[Owner]
    /\ loopPc \in {"taken", "ran"} => /\ pc[Owner] \in R!Sync!Waiting /\ current = id[Owner]
                                      /\ sync_done # current
    /\ R!Sync!Sleeps(Owner)

Inv ==
    /\ R!Sync!TypeOK /\ ListTypes /\ HostTypes /\ OwnTypes
    /\ CallInv /\ PhaseInv /\ ThreadInv /\ ListenInv
    /\ unwound \/ AnswerInv

LEMMA OwnerAlone == Owner \in Callers /\ Callers = {Owner} /\ Owner # None
  BY UdpServerAssumption DEF Owner

-----------------------------------------------------------------------------
(* on_loop_sync, with exceptions.                                          *)

(* What a step of the server does to the loop and to the call.             *)
SyncStep ==
    \/ R!Sync!Claim \/ R!Sync!LoopStep \/ R!Sync!Call(Owner) \/ R!Sync!CallStep(Owner)
    \/ R!StopIo \/ R!UnwindHere(Owner)
    \/ /\ loopPc \in {"claimed", "running"} \/ unwound'
       /\ loopPc' = "claimed" \/ At("thread")
       /\ \E place \in {"claimed", "left"} : R!LoopGoes(place)
    \/ UNCHANGED R!syncVars

LEMMA SyncSteps == [Next]_vars => SyncStep
<1> SUFFICES ASSUME [Next]_vars PROVE SyncStep
  OBVIOUS
<1>1. CASE OwnerStep
  <2>1. CASE ClaimLoop \/ ThreadThrows \/ StopUnstarted \/ StopIo
    BY <2>1, Zenon DEF ClaimLoop, ThreadThrows, StopUnstarted, StopIo, R!Claim, R!NeverRan, SyncStep
  <2>2. CASE Unclaim
    BY <2>2, Zenon DEF Unclaim, R!LoopOnly, R!Sync!LoopStep, SyncStep
  <2>3. CASE AbortAll
    BY <2>3, Zenon DEF AbortAll, R!AbortAll, SyncStep
  <2>4. CASE InAbortAll
    BY <2>4, Zenon DEF InAbortAll, R!CallStep, R!EnterSync, R!TakeBack, R!FinishHere, R!CallOnly,
       R!Return, R!Sync!CallStep, SyncStep
  <2>5. CASE BindThrows \/ Bind \/ Spawn \/ StartThread \/ Join \/ Close \/ DestroyRoots
    <3>1. UNCHANGED reactorVars
      BY <2>5, Zenon DEF BindThrows, Bind, Spawn, StartThread, Join, Close, DestroyRoots
    <3> QED
      BY <3>1 DEF reactorVars, R!syncVars, SyncStep
  <2> QED
    BY <1>1, <2>1, <2>2, <2>3, <2>4, <2>5, Zenon DEF OwnerStep
<1>2. CASE LoopStep
  BY <1>2, Zenon DEF LoopStep, R!LoopStep, R!RunHandler, R!FinishOnLoop, R!FinishOwnWalk, R!LoopOnly,
     R!Sync!LoopStep, SyncStep
<1>3. CASE Visit \/ Host
  BY <1>3, Zenon DEF Visit, Host, R!Visit, R!AbortAllOnLoop, R!Track, R!Untrack, SyncStep
<1>4. CASE HandlerThrows \/ AbortThrowsOnLoop
  BY <1>4, Zenon DEF HandlerThrows, AbortThrowsOnLoop, R!LoopIsFree, R!ReenterRun, R!UnwindOnLoop,
     R!LoopGoes, SyncStep
<1>5. CASE OutOfWork \/ HostStops \/ AbortThrowsHere
  BY <1>5, Zenon DEF OutOfWork, HostStops, AbortThrowsHere, SyncStep
<1>6. ASSUME UNCHANGED reactorVars PROVE SyncStep
  BY <1>6 DEF reactorVars, R!syncVars, SyncStep
<1>7. CASE \/ Start \/ (\E phase \in Phases : Phase(phase)) \/ ReceiveFirst \/ Receive
           \/ ReceiveFails \/ Arrive \/ UNCHANGED vars
  <2>1. UNCHANGED reactorVars
    BY <1>7, Zenon DEF Start, Phase, ReceiveFirst, Receive, ReceiveFails, Arrive, vars
  <2> QED
    BY <1>6, <2>1
<1> QED
  BY <1>1, <1>2, <1>3, <1>4, <1>5, <1>7, Zenon DEF Next

(* The parts of LoopSync's type that a step can change.                    *)
LEMMA LoopTypesKept ==
    ASSUME R!Sync!TypeOK, ThreadInv, SyncStep
    PROVE  loops' \in Nat /\ loopPc' \in R!Sync!LoopStates /\ stopped' \in BOOLEAN
<1> USE DEF R!Sync!TypeOK, R!Sync!LoopStates
<1>1. CASE R!Sync!Release
  <2>1. loops = 1 /\ loops' = loops - 1 /\ loopPc' = "notify" /\ UNCHANGED stopped
    BY <1>1 DEF R!Sync!Release, ThreadInv, R!Sync!Claimed
  <2> QED
    BY <2>1
<1>2. CASE R!Sync!Claim
  <2>1. loops' = loops + 1 /\ loopPc' = "claimed" /\ UNCHANGED stopped
    BY <1>2 DEF R!Sync!Claim
  <2>2. loops' \in Nat
    BY <2>1
  <2> QED
    BY <2>1, <2>2, Zenon
<1>3. CASE R!StopIo
  <2>1. stopped' = TRUE /\ UNCHANGED <<loops, loopPc>>
    BY <1>3 DEF R!StopIo
  <2> QED
    BY <2>1, Zenon
<1>4. CASE R!Sync!LoopStep
  <2>1. R!Sync!Release \/ UNCHANGED <<loops, stopped>>
    BY <1>4 DEF R!Sync!LoopStep, R!Sync!EnterRun, R!Sync!RunHandler, R!Sync!FinishOnLoop,
       R!Sync!PublishDone, R!Sync!LeaveRun, R!Sync!ReleaseNotify
  <2>2. loopPc' \in R!Sync!LoopStates
    BY <1>4 DEF R!Sync!LoopStep, R!Sync!EnterRun, R!Sync!RunHandler, R!Sync!FinishOnLoop,
       R!Sync!PublishDone, R!Sync!LeaveRun, R!Sync!Release, R!Sync!ReleaseNotify
  <2> QED
    BY <1>1, <2>1, <2>2
<1>5. CASE UNCHANGED <<loops, stopped>> /\ (loopPc' = loopPc \/ loopPc' \in {"claimed", "left"})
  BY <1>5
<1>6. CASE R!Sync!Call(Owner) \/ R!Sync!CallStep(Owner)
  BY <1>6, <1>5, Zenon DEF R!Sync!Call, R!Sync!CallStep, R!Sync!FinishInline, R!Sync!LockCall,
     R!Sync!OpenCall, R!Sync!PostHandler, R!Sync!WaitReturn, R!Sync!WaitTake, R!Sync!WaitFalse,
     R!Sync!Sleep, R!Sync!FinishTaken, R!Sync!loopVars
<1> QED
  BY <1>2, <1>3, <1>4, <1>5, <1>6 DEF SyncStep, R!UnwindHere, R!LoopGoes, R!syncVars

LEMMA MutexTypesKept ==
    ASSUME R!Sync!TypeOK, SyncStep
    PROVE  /\ sync_call' \in Callers \cup {None} /\ sync_mutex' \in Callers \cup {None}
           /\ pc' \in [Callers -> R!Sync!CallStates]
           /\ id' \in [Callers -> Nat] /\ ran' \in [Callers -> Nat]
<1> USE OwnerAlone DEF R!Sync!TypeOK, R!Sync!CallStates, R!Sync!Woken
<1>1. CASE R!Sync!Claim \/ R!StopIo \/ \E place \in {"claimed", "left"} : R!LoopGoes(place)
  BY <1>1 DEF R!Sync!Claim, R!StopIo, R!LoopGoes, R!Sync!syncVars, R!Sync!callVars
<1>2. CASE R!Sync!LoopStep
  BY <1>2 DEF R!Sync!LoopStep, R!Sync!EnterRun, R!Sync!RunHandler, R!Sync!FinishOnLoop,
     R!Sync!PublishDone, R!Sync!LeaveRun, R!Sync!Release, R!Sync!ReleaseNotify,
     R!Sync!syncVars, R!Sync!callVars
<1>3. CASE R!Sync!Call(Owner) \/ R!Sync!FinishInline(Owner) \/ R!Sync!LockCall(Owner)
           \/ R!Sync!OpenCall(Owner) \/ R!Sync!PostHandler(Owner)
  BY <1>3 DEF R!Sync!Call, R!Sync!FinishInline, R!Sync!LockCall, R!Sync!OpenCall, R!Sync!PostHandler,
     R!Sync!syncVars, R!Sync!callVars
<1>4. CASE R!Sync!WaitReturn(Owner) \/ R!Sync!WaitTake(Owner) \/ R!Sync!WaitFalse(Owner)
           \/ R!Sync!Sleep(Owner) \/ R!Sync!FinishTaken(Owner)
  BY <1>4 DEF R!Sync!WaitReturn, R!Sync!WaitTake, R!Sync!WaitFalse, R!Sync!Sleep, R!Sync!FinishTaken,
     R!Sync!syncVars, R!Sync!callVars
<1>5. CASE R!UnwindHere(Owner)
  BY <1>5 DEF R!UnwindHere
<1>6. CASE UNCHANGED R!syncVars
  BY <1>6 DEF R!syncVars
<1> QED
  BY <1>1, <1>2, <1>3, <1>4, <1>5, <1>6 DEF SyncStep, R!Sync!CallStep

LEMMA QueueKept ==
    ASSUME R!Sync!TypeOK, CallInv, SyncStep
    PROVE  queue' \in Seq(Nat \ {0})
<1> DEFINE Ids == Nat \ {0}
<1>1. queue \in Seq(Ids)
  BY DEF CallInv
<1>2. CASE R!Sync!RunHandler
  <2>1. queue # <<>> /\ queue' = Tail(queue)
    BY <1>2 DEF R!Sync!RunHandler
  <2> HIDE DEF Ids
  <2>2. queue' \in Seq(Ids)
    BY <1>1, <2>1
  <2> QED
    BY <2>2 DEF Ids
<1>3. CASE R!Sync!PostHandler(Owner)
  <2>1. id[Owner] \in Ids /\ queue' = Append(queue, id[Owner])
    BY <1>3, OwnerAlone DEF R!Sync!PostHandler, R!Sync!TypeOK, CallInv
  <2> HIDE DEF Ids
  <2>2. queue' \in Seq(Ids)
    BY <1>1, <2>1
  <2> QED
    BY <2>2 DEF Ids
<1>4. CASE UNCHANGED queue
  BY <1>1, <1>4
<1> HIDE DEF Ids
<1> QED
  BY <1>2, <1>3, <1>4, Zenon
     DEF SyncStep, R!Sync!Claim, R!Sync!LoopStep, R!Sync!EnterRun, R!Sync!FinishOnLoop,
         R!Sync!PublishDone, R!Sync!LeaveRun, R!Sync!Release, R!Sync!ReleaseNotify, R!Sync!Call,
         R!Sync!CallStep, R!Sync!FinishInline, R!Sync!LockCall, R!Sync!OpenCall,
         R!Sync!WaitReturn, R!Sync!WaitTake, R!Sync!WaitFalse, R!Sync!Sleep, R!Sync!FinishTaken,
         R!StopIo, R!UnwindHere, R!LoopGoes, R!syncVars

(* The owner's call, on the loop's side ...                                *)
LEMMA LoopKeepsCall ==
    ASSUME R!Sync!TypeOK, CallInv, R!Sync!LoopStep
    PROVE  /\ current' \in Nat /\ sync_calls' \in Nat /\ sync_open' \in Nat /\ sync_done' \in Nat
           /\ queue' \in Seq(Nat \ {0}) => CallInv'
<1> USE OwnerAlone DEF R!Sync!TypeOK, R!Sync!Serialised, CallInv
<1>1. CASE R!Sync!RunHandler
  <2>1. Head(queue) \in Nat \ {0}
    BY <1>1 DEF R!Sync!RunHandler
  <2>2. UNCHANGED <<sync_call, sync_calls, sync_done, pc, id>>
    BY <1>1 DEF R!Sync!RunHandler, R!Sync!callVars
  <2>3. \/ sync_open # 0 /\ sync_open' = 0 /\ current' = sync_open
        \/ UNCHANGED <<sync_open, current>>
    BY <1>1, <2>1 DEF R!Sync!RunHandler
  <2> QED
    BY <2>2, <2>3
<1>2. CASE R!Sync!PublishDone \/ R!Sync!ReleaseNotify
  <2>1. /\ UNCHANGED <<current, sync_call, sync_calls, sync_open, id>>
        /\ sync_done' \in {sync_done, current}
        /\ pc' = R!Sync!Woken
    BY <1>2 DEF R!Sync!PublishDone, R!Sync!ReleaseNotify, R!Sync!syncVars
  <2>2. pc'[Owner] = pc[Owner] \/ (pc[Owner] = "asleep" /\ pc'[Owner] = "wait")
    BY <2>1 DEF R!Sync!Woken
  <2> QED
    BY <2>1, <2>2
<1>3. CASE R!Sync!EnterRun \/ R!Sync!FinishOnLoop \/ R!Sync!LeaveRun \/ R!Sync!Release
  <2>1. UNCHANGED <<current, sync_call, sync_calls, sync_open, sync_done, pc, id>>
    BY <1>3 DEF R!Sync!EnterRun, R!Sync!FinishOnLoop, R!Sync!LeaveRun, R!Sync!Release,
       R!Sync!syncVars, R!Sync!callVars
  <2> QED
    BY <2>1
<1> QED
  BY <1>1, <1>2, <1>3 DEF R!Sync!LoopStep

(* ... and on its own.                                                     *)
LEMMA CallerKeepsCall ==
    ASSUME R!Sync!TypeOK, CallInv, R!Sync!Call(Owner) \/ R!Sync!CallStep(Owner)
    PROVE  /\ current' \in Nat /\ sync_calls' \in Nat /\ sync_open' \in Nat /\ sync_done' \in Nat
           /\ queue' \in Seq(Nat \ {0}) => CallInv'
<1> USE OwnerAlone DEF R!Sync!TypeOK, R!Sync!Serialised, CallInv, R!Sync!loopVars, R!Sync!syncVars
<1>1. CASE R!Sync!Call(Owner)
  BY <1>1 DEF R!Sync!Call
<1>2. CASE R!Sync!FinishInline(Owner)
  BY <1>2 DEF R!Sync!FinishInline
<1>3. CASE R!Sync!LockCall(Owner)
  BY <1>3 DEF R!Sync!LockCall
<1>4. CASE R!Sync!OpenCall(Owner)
  BY <1>4 DEF R!Sync!OpenCall
<1>5. CASE R!Sync!PostHandler(Owner)
  BY <1>5 DEF R!Sync!PostHandler
<1>6. CASE R!Sync!WaitReturn(Owner)
  BY <1>6 DEF R!Sync!WaitReturn
<1>7. CASE R!Sync!WaitTake(Owner)
  BY <1>7 DEF R!Sync!WaitTake
<1>8. CASE R!Sync!WaitFalse(Owner)
  BY <1>8 DEF R!Sync!WaitFalse
<1>9. CASE R!Sync!Sleep(Owner)
  BY <1>9 DEF R!Sync!Sleep
<1>10. CASE R!Sync!FinishTaken(Owner)
  BY <1>10 DEF R!Sync!FinishTaken
<1> QED
  BY <1>1, <1>2, <1>3, <1>4, <1>5, <1>6, <1>7, <1>8, <1>9, <1>10, Zenon DEF R!Sync!CallStep

LEMMA SyncKept ==
    ASSUME R!Sync!TypeOK, ThreadInv, CallInv, SyncStep
    PROVE  R!Sync!TypeOK' /\ CallInv'
<1>1. queue' \in Seq(Nat \ {0}) /\ queue' \in Seq(Nat)
  <2>1. \A s \in Seq(Nat \ {0}) : s \in Seq(Nat)
    OBVIOUS
  <2> QED
    BY <2>1, QueueKept
<1>2. current' \in Nat /\ sync_calls' \in Nat /\ sync_open' \in Nat /\ sync_done' \in Nat /\ CallInv'
  <2>1. CASE R!UnwindHere(Owner)
    BY <1>1, <2>1, OwnerAlone DEF R!UnwindHere, R!Sync!TypeOK, R!Sync!Serialised, CallInv
  <2>2. CASE R!Sync!Claim \/ R!StopIo \/ (\E place \in {"claimed", "left"} : R!LoopGoes(place))
             \/ UNCHANGED R!syncVars
    <3>1. UNCHANGED <<current, sync_call, sync_calls, sync_open, sync_done, pc, id>>
      BY <2>2 DEF R!Sync!Claim, R!StopIo, R!LoopGoes, R!syncVars, R!Sync!syncVars, R!Sync!callVars
    <3> QED
      BY <1>1, <3>1 DEF R!Sync!TypeOK, CallInv
  <2> QED
    BY <1>1, <2>1, <2>2, LoopKeepsCall, CallerKeepsCall, Zenon DEF SyncStep
<1> QED
  BY <1>1, <1>2, LoopTypesKept, MutexTypesKept, Zenon DEF R!Sync!TypeOK

(* The sleep of the owner, on the loop's side ...                          *)
LEMMA LoopAnswers ==
    ASSUME R!Sync!TypeOK, CallInv, ThreadInv, AnswerInv, R!Sync!LoopStep
    PROVE  AnswerInv'
<1>1. /\ pc \in [Callers -> R!Sync!CallStates] /\ id \in [Callers -> Nat] /\ queue \in Seq(Nat \ {0})
      /\ sync_mutex \in Callers \cup {None} /\ loops = IF loopPc \in R!Sync!Claimed THEN 1 ELSE 0
      /\ sync_open \in Nat /\ sync_done \in Nat /\ current \in Nat /\ sync_calls \in Nat
  BY DEF R!Sync!TypeOK, CallInv, ThreadInv
<1>6. pc[Owner] = "post" => \A i \in 1..Len(queue) : queue[i] < id[Owner]
  BY DEF AnswerInv
<1> USE <1>1, OwnerAlone
        DEF AnswerInv, R!Sync!Sleeps, R!Sync!WaitOver, R!Sync!Waiting, R!Sync!Claimed
<1>2. CASE R!Sync!EnterRun \/ R!Sync!FinishOnLoop \/ R!Sync!LeaveRun \/ R!Sync!Release
  <2>1. UNCHANGED <<current, queue, sync_mutex, sync_calls, sync_open, sync_done, pc, id>>
    BY <1>2 DEF R!Sync!EnterRun, R!Sync!FinishOnLoop, R!Sync!LeaveRun, R!Sync!Release,
       R!Sync!syncVars, R!Sync!callVars
  <2>2. \/ loopPc \in R!Sync!Claimed \ {"taken", "ran"} /\ loopPc' \in {"running", "left"} /\ loops' = loops
        \/ loopPc = "taken" /\ loopPc' = "ran" /\ loops' = loops
        \/ loopPc = "left" /\ loopPc' = "notify" /\ sync_mutex = None
    BY <1>2, SMTT(30) DEF R!Sync!EnterRun, R!Sync!FinishOnLoop, R!Sync!LeaveRun, R!Sync!Release
  <2> QED
    BY <2>1, <2>2
<1>3. CASE R!Sync!RunHandler
  <2>1. /\ sync_mutex = None /\ loopPc = "running" /\ queue # <<>> /\ queue' = Tail(queue)
        /\ UNCHANGED <<pc, id, sync_mutex, sync_calls, sync_done, loops>>
    BY <1>3 DEF R!Sync!RunHandler, R!Sync!callVars
  <2>2. pc[Owner] # "sleepy"
    BY <2>1
  <2>3. \A j \in 1..Len(queue') : j + 1 \in 1..Len(queue) /\ queue'[j] = queue[j + 1]
    BY <2>1
  <2>4. \A i \in 1..Len(queue') : /\ queue'[i] <= sync_calls'
                                  /\ pc'[Owner] \in {"open", "post"} => queue'[i] < id'[Owner]
    BY <2>1, <2>3
  <2>5. CASE sync_open = Head(queue)
    <3>1. sync_open' = 0 /\ current' = sync_open /\ loopPc' = "taken"
      BY <1>3, <2>5 DEF R!Sync!RunHandler
    <3>2. Head(queue) = queue[1] /\ 1 \in 1..Len(queue) /\ queue[1] \in Nat \ {0}
      BY <2>1
    <3>3. /\ pc[Owner] \in {"post", "wait", "sleepy", "asleep"} /\ sync_open = id[Owner]
          /\ sync_done < sync_open
      BY <2>5, <3>2 DEF CallInv
    <3>4. pc[Owner] # "post"
      <4>1. pc[Owner] = "post" => queue[1] < id[Owner]
        BY <1>6, <3>2
      <4> QED
        BY <2>5, <3>2, <3>3, <4>1
    <3> QED
      BY <2>1, <2>2, <2>4, <3>1, <3>3, <3>4
  <2>6. CASE sync_open # Head(queue)
    <3>1. UNCHANGED <<sync_open, current, loopPc>>
      BY <1>3, <2>6 DEF R!Sync!RunHandler
    <3>2. ASSUME NEW i \in 1..Len(queue), queue[i] = sync_open
          PROVE  \E j \in 1..Len(queue') : queue'[j] = sync_open
      <4>1. i # 1
        BY <2>1, <2>6, <3>2
      <4>2. i - 1 \in 1..Len(queue') /\ queue'[i - 1] = queue[i]
        BY <2>1, <4>1
      <4> QED
        BY <3>2, <4>2
    <3> QED
      BY <2>1, <2>2, <2>4, <3>1, <3>2
  <2> QED
    BY <2>5, <2>6
<1>4. CASE R!Sync!PublishDone
  <2>1. /\ sync_mutex = None /\ loopPc = "ran" /\ loopPc' = "running" /\ sync_done' = current
        /\ pc' = R!Sync!Woken /\ UNCHANGED <<id, sync_mutex, sync_calls, sync_open, queue, loops>>
    BY <1>4 DEF R!Sync!PublishDone
  <2>2. pc[Owner] \in {"wait", "asleep"} /\ pc'[Owner] = "wait" /\ current = id[Owner]
    BY <2>1 DEF R!Sync!Woken
  <2> QED
    BY <2>1, <2>2
<1>5. CASE R!Sync!ReleaseNotify
  <2>1. /\ loopPc = "notify" /\ loopPc' = "out" /\ pc' = R!Sync!Woken
        /\ UNCHANGED <<id, sync_mutex, sync_calls, sync_open, sync_done, queue, loops, current>>
    BY <1>5 DEF R!Sync!ReleaseNotify, R!Sync!syncVars
  <2>2. pc'[Owner] = IF pc[Owner] = "asleep" THEN "wait" ELSE pc[Owner]
    BY <2>1 DEF R!Sync!Woken
  <2> QED
    BY <2>1, <2>2
<1> QED
  BY <1>2, <1>3, <1>4, <1>5, Zenon DEF R!Sync!LoopStep

(* ... and on its own.                                                     *)
LEMMA CallerAnswers ==
    ASSUME R!Sync!TypeOK, CallInv, ThreadInv, AnswerInv, R!Sync!Call(Owner) \/ R!Sync!CallStep(Owner)
    PROVE  AnswerInv'
<1>1. /\ pc \in [Callers -> R!Sync!CallStates] /\ id \in [Callers -> Nat] /\ queue \in Seq(Nat \ {0})
      /\ sync_mutex \in Callers \cup {None} /\ loops = IF loopPc \in R!Sync!Claimed THEN 1 ELSE 0
      /\ sync_open \in Nat /\ sync_done \in Nat /\ current \in Nat /\ sync_calls \in Nat
      /\ \A i \in 1..Len(queue) : queue[i] \in Nat
  BY DEF R!Sync!TypeOK, CallInv, ThreadInv
<1> USE <1>1, OwnerAlone
        DEF AnswerInv, R!Sync!Sleeps, R!Sync!WaitOver, R!Sync!Waiting, R!Sync!Claimed, R!Sync!loopVars,
            R!Sync!syncVars
<1>2. CASE R!Sync!Call(Owner) \/ R!Sync!FinishInline(Owner) \/ R!Sync!FinishTaken(Owner)
  BY <1>2, SMTT(30) DEF R!Sync!Call, R!Sync!FinishInline, R!Sync!FinishTaken
<1>3. CASE R!Sync!LockCall(Owner)
  BY <1>3 DEF R!Sync!LockCall
<1>4. CASE R!Sync!OpenCall(Owner)
  BY <1>4 DEF R!Sync!OpenCall
<1>5. CASE R!Sync!PostHandler(Owner)
  <2>1. /\ pc[Owner] = "post" /\ queue' = Append(queue, id[Owner]) /\ pc'[Owner] = "wait"
        /\ UNCHANGED <<id, sync_mutex, sync_calls, sync_open, sync_done, loops, loopPc, current>>
    BY <1>5 DEF R!Sync!PostHandler
  <2>2. /\ Len(queue') = Len(queue) + 1 /\ queue'[Len(queue) + 1] = id[Owner]
        /\ \A i \in 1..Len(queue) : queue'[i] = queue[i]
    BY <2>1
  <2>3. Len(queue) + 1 \in 1..Len(queue')
    BY <2>2
  <2>4. 0 < id[Owner] /\ id[Owner] <= sync_calls
    BY <2>1 DEF CallInv
  <2> QED
    BY <2>1, <2>2, <2>3, <2>4
<1>6. CASE R!Sync!WaitReturn(Owner)
  BY <1>6 DEF R!Sync!WaitReturn
<1>7. CASE R!Sync!WaitTake(Owner)
  BY <1>7 DEF R!Sync!WaitTake
<1>8. CASE R!Sync!WaitFalse(Owner) \/ R!Sync!Sleep(Owner)
  BY <1>8, SMTT(30) DEF R!Sync!WaitFalse, R!Sync!Sleep
<1> QED
  BY <1>2, <1>3, <1>4, <1>5, <1>6, <1>7, <1>8, Zenon DEF R!Sync!CallStep

(* An exception ends the sleep's promise only when it leaves the handler   *)
(* of the call, and then it is recorded.                                   *)
LEMMA AnswerKept ==
    ASSUME R!Sync!TypeOK, CallInv, ThreadInv, AnswerInv, SyncStep, ~unwound'
    PROVE  AnswerInv'
<1> USE OwnerAlone DEF AnswerInv, R!Sync!Sleeps, R!Sync!WaitOver, R!Sync!Waiting, R!Sync!Claimed, ThreadInv
<1>1. CASE R!Sync!Claim
  BY <1>1 DEF R!Sync!Claim, R!Sync!syncVars, R!Sync!callVars
<1>2. CASE R!StopIo \/ UNCHANGED R!syncVars
  <2>1. UNCHANGED <<loops, loopPc, current, queue, sync_mutex, sync_calls, sync_open, sync_done, pc, id>>
    BY <1>2 DEF R!StopIo, R!syncVars
  <2> QED
    BY <2>1
<1>3. CASE R!UnwindHere(Owner)
  BY <1>3, SMTT(30) DEF R!UnwindHere, R!Sync!TypeOK
<1>4. ASSUME loopPc \in {"claimed", "running"}, NEW place \in {"claimed", "left"}, R!LoopGoes(place)
      PROVE  AnswerInv'
  <2>1. UNCHANGED <<loops, current, queue, sync_mutex, sync_calls, sync_open, sync_done, pc, id>>
    BY <1>4 DEF R!LoopGoes
  <2>2. loopPc' \in {"claimed", "left"}
    BY <1>4 DEF R!LoopGoes
  <2> QED
    BY <1>4, <2>1, <2>2
<1> QED
  BY <1>1, <1>2, <1>3, <1>4, LoopAnswers, CallerAnswers, Zenon DEF SyncStep

-----------------------------------------------------------------------------
(* The list of abortables.                                                 *)

(* Reactor's operators on lists are those of module Lists.                 *)
LEMMA SameLists ==
    \A s, c, a : /\ R!Range(s) = Range(s) /\ R!IsInjective(s) = IsInjective(s)
                 /\ R!IsSuffix(c, s) = IsSuffix(c, s) /\ R!Without(s, a) = Without(s, a)
<1> TAKE s, c, a
<1>1. R!Range(s) = Range(s) /\ R!IsInjective(s) = IsInjective(s)
  BY Zenon DEF R!Range, Range, R!IsInjective, IsInjective
<1>2. R!IsSuffix(c, s) = IsSuffix(c, s)
  BY Zenon DEF R!IsSuffix, IsSuffix
<1>3. R!Without(s, a) = Without(s, a)
  BY Zenon DEF R!Without, Without, R!Range, Range
<1> QED
  BY <1>1, <1>2, <1>3

(* What a step of the server does to the list.                             *)
ListStep ==
    \/ \E kind \in {"none", "abort", "force"} : R!BeginWalk(kind)
    \/ R!EndWalk \/ R!Unwind \/ R!Visit
    \/ \E a \in Abortables : R!Track(a) \/ R!Untrack(a)
    \/ UNCHANGED R!listVars

(* The handler of a call walks for the owner: the call it takes is open,   *)
(* so the owner holds sync_call_.                                          *)
LEMMA HandlerWalks == ASSUME R!Sync!TypeOK, CallInv, HostTypes, R!RunHandler PROVE ListStep
<1>1. CASE loopPc' = "taken"
  <2>1. Head(queue) \in Nat \ {0}
    BY DEF R!RunHandler, R!Sync!RunHandler, CallInv
  <2>2. sync_call = Owner
    BY <1>1, <2>1, OwnerAlone DEF R!RunHandler, R!Sync!RunHandler, CallInv, R!Sync!Serialised
  <2>3. R!Owner = Owner
    BY <2>2, OwnerAlone DEF R!Owner
  <2> QED
    BY <1>1, <2>3, OwnerAlone DEF R!RunHandler, HostTypes, ListStep
<1>2. CASE loopPc' # "taken"
  BY <1>2 DEF R!RunHandler, ListStep
<1> QED
  BY <1>1, <1>2

LEMMA ListSteps == ASSUME R!Sync!TypeOK, CallInv, HostTypes, [Next]_vars PROVE ListStep
<1>1. op[Owner] \in {"none", "abort", "force"}
  BY OwnerAlone DEF HostTypes
<1>2. CASE R!CallStep(Owner)
  BY <1>1, <1>2, Zenon DEF R!CallStep, R!EnterSync, R!TakeBack, R!FinishHere, R!CallOnly, R!Return, ListStep
<1>3. CASE R!LoopStep
  BY <1>3, HandlerWalks, Zenon DEF R!LoopStep, R!FinishOnLoop, R!FinishOwnWalk, R!LoopOnly, ListStep
<1>4. CASE R!Claim \/ R!NeverRan \/ R!LoopOnly \/ R!StopIo \/ R!ReenterRun \/ R!AbortAll(Owner)
  BY <1>4, Zenon DEF R!Claim, R!NeverRan, R!LoopOnly, R!StopIo, R!ReenterRun, R!AbortAll, ListStep, R!listVars
<1>5. CASE UNCHANGED reactorVars
  BY <1>5 DEF reactorVars, R!listVars, ListStep
<1>6. CASE Host \/ Visit \/ AbortThrowsOnLoop \/ AbortThrowsHere
  BY <1>6, Zenon DEF Host, Visit, AbortThrowsOnLoop, AbortThrowsHere, R!AbortAllOnLoop, R!UnwindOnLoop,
     R!UnwindHere, ListStep
<1> QED
  BY <1>2, <1>3, <1>4, <1>5, <1>6, Zenon
     DEF Next, OwnerStep, BindThrows, Bind, Spawn, ClaimLoop, StartThread, ThreadThrows, Unclaim,
         StopUnstarted, AbortAll, InAbortAll, StopIo, Join, Close, DestroyRoots, Start, Phase, LoopStep,
         ReceiveFirst, Receive, ReceiveFails, HandlerThrows, OutOfWork, HostStops, Arrive, vars

LEMMA ListKept == ASSUME ListTypes, ListStep PROVE ListTypes'
<1>1. /\ aborts \in Seq(Abortables) /\ cursor \in Seq(Abortables)
      /\ IsInjective(aborts) /\ IsSuffix(cursor, aborts) /\ IsInjective(cursor)
  BY SuffixIsList DEF ListTypes
<1>2. ASSUME NEW kind \in {"none", "abort", "force"}, R!BeginWalk(kind) PROVE ListTypes'
  <2>1. UNCHANGED <<aborts, calling, abortRuns, forceRuns>> /\ cursor' = aborts /\ walk' = kind
    BY <1>2 DEF R!BeginWalk
  <2>2. walked' \in BOOLEAN /\ forced' \in BOOLEAN
    BY <1>2, Zenon DEF R!BeginWalk
  <2> QED
    BY <1>1, <2>1, <2>2, WholeIsSuffix DEF ListTypes
<1>3. CASE R!EndWalk \/ R!Unwind
  BY <1>3, Zenon DEF R!EndWalk, R!Unwind, ListTypes
<1>4. CASE R!Visit
  <2>1. /\ UNCHANGED <<aborts, walk, walked, forced>> /\ calling' = TRUE
        /\ cursor # <<>> /\ cursor' = Tail(cursor)
    BY <1>4 DEF R!Visit
  <2>2. cursor' \in Seq(Abortables) /\ IsSuffix(cursor', aborts) /\ Head(cursor) \in Abortables
    BY <1>1, <2>1, TailOfList, TailIsSuffix
  <2>3. CASE walk = "abort"
    <3>1. abortRuns' = [abortRuns EXCEPT ![Head(cursor)] = @ + 1] /\ UNCHANGED forceRuns
      BY <1>4, <2>3 DEF R!Visit
    <3> QED
      BY <2>1, <2>2, <3>1 DEF ListTypes
  <2>4. CASE walk # "abort"
    <3>1. forceRuns' = [forceRuns EXCEPT ![Head(cursor)] = TRUE] /\ UNCHANGED abortRuns
      BY <1>4, <2>4 DEF R!Visit
    <3> QED
      BY <2>1, <2>2, <3>1 DEF ListTypes
  <2> QED
    BY <2>3, <2>4
<1>5. ASSUME NEW a \in Abortables, R!Track(a) PROVE ListTypes'
  <2>1. /\ UNCHANGED <<cursor, calling, walk, walked, forced>>
        /\ aborts' = <<a>> \o aborts /\ a \notin Range(aborts)
    BY <1>5, SameLists DEF R!Track, R!Tracked
  <2>2. aborts' \in Seq(Abortables) /\ IsInjective(aborts') /\ IsSuffix(cursor, aborts')
    BY <1>1, <2>1, AddedAtHead, HeadKeepsSuffix
  <2>3. abortRuns' \in [Abortables -> Nat] /\ forceRuns' \in [Abortables -> BOOLEAN]
    BY <1>5 DEF R!Track, ListTypes
  <2> QED
    BY <2>1, <2>2, <2>3 DEF ListTypes
<1>6. ASSUME NEW a \in Abortables, R!Untrack(a) PROVE ListTypes'
  <2>1. /\ UNCHANGED <<calling, walk, walked, forced, abortRuns, forceRuns>>
        /\ aborts' = Without(aborts, a) /\ cursor' = Without(cursor, a)
    BY <1>6, SameLists DEF R!Untrack
  <2>2. /\ aborts' \in Seq(Abortables) /\ IsInjective(aborts') /\ cursor' \in Seq(Abortables)
        /\ IsSuffix(cursor', aborts')
    BY <1>1, <2>1, Removed, RemovedKeepsSuffix
  <2> QED
    BY <2>1, <2>2 DEF ListTypes
<1>7. CASE UNCHANGED R!listVars
  BY <1>7 DEF R!listVars, ListTypes
<1> QED
  BY <1>2, <1>3, <1>4, <1>5, <1>6, <1>7, Zenon DEF ListStep

-----------------------------------------------------------------------------
(* The host's calls, and where the owner makes them.                       *)

LEMMA HostKept == ASSUME HostTypes, [Next]_vars PROVE HostTypes'
<1>1. CASE AbortAll \/ R!AbortAllOnLoop
  <2>1. /\ calls' = calls + 1 /\ calls < MaxCalls /\ aborting' = TRUE /\ UNCHANGED abortReturned
        /\ op' \in {op, [op EXCEPT ![Owner] = "none"], [op EXCEPT ![Owner] = "abort"]}
    BY <1>1, Zenon DEF AbortAll, R!AbortAll, R!AbortAllOnLoop
  <2>2. calls' \in 0 .. MaxCalls
    BY <2>1, UdpServerAssumption DEF HostTypes
  <2>3. op' \in [Callers -> {"none", "abort", "force"}]
    BY <2>1, OwnerAlone DEF HostTypes
  <2> QED
    BY <2>1, <2>2, <2>3, Zenon DEF HostTypes
<1>2. CASE R!Return(Owner)
  <2>1. abortReturned' \in BOOLEAN /\ UNCHANGED <<calls, aborting>> /\ op' = [op EXCEPT ![Owner] = "none"]
    BY <1>2, Zenon DEF R!Return
  <2>2. op' \in [Callers -> {"none", "abort", "force"}]
    BY <2>1, OwnerAlone DEF HostTypes
  <2> QED
    BY <2>1, <2>2, Zenon DEF HostTypes
<1>3. CASE AbortThrowsHere
  <2>1. UNCHANGED <<calls, aborting, abortReturned>> /\ op' = [op EXCEPT ![Owner] = "none"]
    BY <1>3 DEF AbortThrowsHere, R!UnwindHere
  <2> QED
    BY <2>1, OwnerAlone DEF HostTypes
<1>4. CASE UNCHANGED R!callVars
  BY <1>4 DEF R!callVars, HostTypes
<1>5. CASE UNCHANGED reactorVars
  BY <1>5, <1>4 DEF reactorVars, R!callVars
<1> QED
  BY <1>1, <1>2, <1>3, <1>4, <1>5, Zenon
     DEF Next, OwnerStep, BindThrows, Bind, Spawn, ClaimLoop, StartThread, ThreadThrows, Unclaim,
         StopUnstarted, InAbortAll, StopIo, Join, Close, DestroyRoots, Start, Phase, LoopStep, Visit,
         ReceiveFirst, Receive, ReceiveFails, HandlerThrows, OutOfWork, HostStops, Host,
         AbortThrowsOnLoop, Arrive, vars,
         R!Claim, R!NeverRan, R!LoopOnly, R!StopIo, R!ReenterRun, R!LoopStep, R!RunHandler,
         R!FinishOnLoop, R!FinishOwnWalk, R!CallStep, R!EnterSync, R!TakeBack, R!FinishHere,
         R!CallOnly, R!Visit, R!Track, R!Untrack, R!UnwindOnLoop

(* Outside the calls themselves, nothing begins or ends a call.            *)
LEMMA CallStays ==
    ASSUME R!Sync!TypeOK, [Next]_vars
    PROVE  \/ AbortAll \/ InAbortAll \/ AbortThrowsHere
           \/ (pc'[Owner] \in Idle <=> pc[Owner] \in Idle) /\ op' = op
<1> USE OwnerAlone DEF R!Sync!TypeOK, Idle
<1>1. CASE R!LoopStep \/ R!LoopOnly
  <2>1. op' = op
    BY <1>1 DEF R!LoopStep, R!RunHandler, R!FinishOnLoop, R!FinishOwnWalk, R!LoopOnly, R!callVars
  <2>2. pc' \in {pc, R!Sync!Woken}
    BY <1>1 DEF R!LoopStep, R!RunHandler, R!FinishOnLoop, R!FinishOwnWalk, R!LoopOnly, R!syncVars,
       R!Sync!callVars, R!Sync!RunHandler, R!Sync!FinishOnLoop, R!Sync!EnterRun, R!Sync!PublishDone,
       R!Sync!LeaveRun, R!Sync!Release, R!Sync!ReleaseNotify
  <2> QED
    BY <2>1, <2>2 DEF R!Sync!Woken
<1>2. CASE UNCHANGED <<pc, op>>
  BY <1>2
<1>3. CASE R!Claim \/ R!NeverRan \/ R!StopIo \/ R!ReenterRun
  BY <1>2, <1>3, Zenon DEF R!Claim, R!NeverRan, R!StopIo, R!ReenterRun, R!LoopGoes, R!callVars,
     R!Sync!Claim, R!Sync!callVars
<1>4. CASE Host \/ Visit \/ AbortThrowsOnLoop
  BY <1>2, <1>4, Zenon DEF Host, Visit, AbortThrowsOnLoop, R!AbortAllOnLoop, R!Track, R!Untrack,
     R!Visit, R!UnwindOnLoop, R!LoopGoes, R!callVars, R!syncVars
<1>5. CASE UNCHANGED reactorVars
  BY <1>2, <1>5 DEF reactorVars
<1> QED
  BY <1>1, <1>3, <1>4, <1>5, Zenon
     DEF Next, OwnerStep, BindThrows, Bind, Spawn, ClaimLoop, StartThread, ThreadThrows, Unclaim,
         StopUnstarted, StopIo, Join, Close, DestroyRoots, Start, Phase, LoopStep, ReceiveFirst,
         Receive, ReceiveFails, HandlerThrows, OutOfWork, HostStops, Arrive, vars

LEMMA PhaseKept ==
    ASSUME R!Sync!TypeOK, HostTypes, PhaseInv, [Next]_vars
    PROVE  PhaseInv'
<1> USE OwnerAlone DEF R!Sync!TypeOK, HostTypes, Idle, At
<1>1. CASE AbortAll
  BY <1>1 DEF AbortAll, R!AbortAll, R!syncVars, PhaseInv
<1>2. CASE InAbortAll
  <2>1. owner = "walk" /\ owner' = "walk"
    BY <1>2 DEF InAbortAll, ownVars
  <2>2. CASE R!Return(Owner)
    BY <2>1, <2>2 DEF R!Return, R!syncVars, PhaseInv
  <2>3. CASE R!EnterSync(Owner)
    BY <2>1, <2>3 DEF R!EnterSync, R!callVars, PhaseInv
  <2>4. CASE R!TakeBack(Owner) \/ R!CallOnly(Owner) \/ R!FinishHere(Owner)
    <3>1. op' = op /\ pc[Owner] \notin Idle
      BY <2>4 DEF R!TakeBack, R!CallOnly, R!FinishHere, R!callVars, R!Sync!WaitTake, R!Sync!LockCall,
         R!Sync!OpenCall, R!Sync!PostHandler, R!Sync!WaitReturn, R!Sync!WaitFalse, R!Sync!Sleep,
         R!Sync!FinishInline, R!Sync!FinishTaken
    <3> QED
      BY <2>1, <3>1, SMTT(30) DEF PhaseInv
  <2> QED
    BY <1>2, <2>2, <2>3, <2>4 DEF InAbortAll, R!CallStep
<1>3. CASE AbortThrowsHere
  BY <1>3 DEF AbortThrowsHere, R!UnwindHere, PhaseInv
<1>4. ASSUME pc'[Owner] \in Idle <=> pc[Owner] \in Idle, op' = op, ~AbortAll, ~AbortThrowsHere
      PROVE  PhaseInv'
  <2>1. owner' = "walk" => owner = "walk"
    BY <1>4, Zenon
       DEF Next, OwnerStep, BindThrows, Bind, Spawn, ClaimLoop, StartThread, ThreadThrows, Unclaim,
         StopUnstarted, StopIo, InAbortAll, Join, Close, DestroyRoots, Start, Phase, LoopStep, ReceiveFirst,
         Receive, ReceiveFails, HandlerThrows, OutOfWork, HostStops, Arrive, vars, ownVars, AfterStop,
         Host, Visit, AbortThrowsOnLoop
  <2>2. owner = "walk" => owner' = "walk" \/ op[Owner] = "none"
    BY <1>4, Zenon
       DEF Next, OwnerStep, BindThrows, Bind, Spawn, ClaimLoop, StartThread, ThreadThrows, Unclaim,
         StopUnstarted, StopIo, InAbortAll, Join, Close, DestroyRoots, Start, Phase, LoopStep, ReceiveFirst,
         Receive, ReceiveFails, HandlerThrows, OutOfWork, HostStops, Arrive, vars, ownVars,
         Host, Visit, AbortThrowsOnLoop
  <2> QED
    BY <1>4, <2>1, <2>2 DEF PhaseInv
<1> QED
  BY <1>1, <1>2, <1>3, <1>4, CallStays, Zenon

-----------------------------------------------------------------------------
(* The owner, the socket and the loop's thread.                            *)

LEMMA NetKept ==
    ASSUME OwnTypes, [Next]_vars
    PROVE  pending' \in Nat /\ arrived' \in 0 .. MaxDatagrams /\ pending' <= arrived'
<1> USE UdpServerAssumption DEF OwnTypes
<1>1. CASE Arrive
  BY <1>1 DEF Arrive
<1>2. CASE Receive
  BY <1>2 DEF Receive
<1>3. CASE UNCHANGED <<pending, arrived>>
  BY <1>3
<1> QED
  BY <1>1, <1>2, <1>3, Zenon
     DEF Next, OwnerStep, BindThrows, Bind, Spawn, ClaimLoop, StartThread, ThreadThrows, Unclaim,
         StopUnstarted, AbortAll, InAbortAll, StopIo, Join, Close, DestroyRoots, Start, Phase, LoopStep,
         Visit, ReceiveFirst, ReceiveFails, HandlerThrows, OutOfWork, HostStops, Host,
         AbortThrowsOnLoop, AbortThrowsHere, vars, netVars

LEMMA OwnKept == ASSUME OwnTypes, [Next]_vars PROVE OwnTypes'
<1> DEFINE Bools == /\ open' \in BOOLEAN /\ joinable' \in BOOLEAN /\ closed' \in BOOLEAN
                    /\ receiveFailed' \in BOOLEAN /\ unwound' \in BOOLEAN
           Places == /\ owner' \in {"out", "bind", "spawn", "claim", "thread", "unclaim", "abort",
                                    "walk", "join", "close", "destroy"}
                     /\ goal' \in Phases
                     /\ receiver' \in {"none", "spawned", "waiting", "ended", "destroyed"}
<1>1. Bools
  BY Zenon
     DEF OwnTypes, Next, OwnerStep, BindThrows, Bind, Spawn, ClaimLoop, StartThread, ThreadThrows, Unclaim,
         StopUnstarted, AbortAll, InAbortAll, StopIo, Join, Close, DestroyRoots, Start, Phase, LoopStep,
         Visit, ReceiveFirst, Receive, ReceiveFails, HandlerThrows, OutOfWork, HostStops, Host,
         AbortThrowsOnLoop, AbortThrowsHere, Arrive, vars, ownVars, netVars
<1>2. Places
  BY Zenon
     DEF OwnTypes, Next, OwnerStep, BindThrows, Bind, Spawn, ClaimLoop, StartThread, ThreadThrows, Unclaim,
         StopUnstarted, AbortAll, InAbortAll, StopIo, Join, Close, DestroyRoots, Start, Phase, LoopStep,
         Visit, ReceiveFirst, Receive, ReceiveFails, HandlerThrows, OutOfWork, HostStops, Host,
         AbortThrowsOnLoop, AbortThrowsHere, Arrive, vars, ownVars, AfterStop
<1> QED
  BY <1>1, <1>2, NetKept, Zenon DEF OwnTypes

(* What was recorded stays recorded.                                       *)
LEMMA UnwoundStays == ASSUME unwound, [Next]_vars PROVE unwound'
  BY Zenon
     DEF Next, OwnerStep, BindThrows, Bind, Spawn, ClaimLoop, StartThread, ThreadThrows, Unclaim,
         StopUnstarted, AbortAll, InAbortAll, StopIo, Join, Close, DestroyRoots, Start, Phase, LoopStep,
         Visit, ReceiveFirst, Receive, ReceiveFails, HandlerThrows, OutOfWork, HostStops, Host,
         AbortThrowsOnLoop, AbortThrowsHere, Arrive, vars, ownVars

(* The claim that loops_ counts is the thread's, or the owner's while it   *)
(* has not started the thread.                                             *)
LEMMA ThreadKept ==
    ASSUME R!Sync!TypeOK, OwnTypes, PhaseInv, ThreadInv, [Next]_vars
    PROVE  ThreadInv'
<1> USE DEF At, R!Sync!Claimed
<1>1. CASE ClaimLoop
  BY <1>1 DEF ClaimLoop, R!Claim, R!Sync!Claim, ThreadInv
<1>2. CASE ThreadThrows
  BY <1>2 DEF ThreadThrows, R!NeverRan, R!LoopGoes, ThreadInv
<1>3. CASE Unclaim
  <2>1. UNCHANGED <<owner, open, joinable, receiver, stopped>> /\ owner = "unclaim"
    BY <1>3 DEF Unclaim, ownVars, R!LoopOnly, R!Sync!EnterRun, R!Sync!PublishDone, R!Sync!LeaveRun,
       R!Sync!Release, R!Sync!ReleaseNotify
  <2>2. \/ loopPc = "left" /\ loopPc' = "notify" /\ loops' = loops - 1
        \/ loopPc = "notify" /\ loopPc' = "out" /\ loops' = loops
    BY <1>3, <2>1 DEF ThreadInv, Unclaim, R!LoopOnly, R!Sync!EnterRun, R!Sync!PublishDone,
       R!Sync!LeaveRun, R!Sync!Release, R!Sync!ReleaseNotify
  <2> QED
    BY <2>1, <2>2 DEF ThreadInv
<1>4. CASE StopUnstarted \/ StopIo \/ OutOfWork \/ HostStops
  <2>1. UNCHANGED <<loops, loopPc, open, joinable, receiver>> /\ stopped'
    BY <1>4, Zenon DEF StopUnstarted, StopIo, OutOfWork, HostStops, R!StopIo, ownVars
  <2>2. \/ owner' = owner
        \/ owner = "unclaim" /\ loopPc = "out" /\ owner' = "out"
        \/ owner = "walk" /\ owner' = "join"
    BY <1>4 DEF StopUnstarted, StopIo, OutOfWork, HostStops, ownVars
  <2> QED
    BY <2>1, <2>2 DEF ThreadInv
<1>5. CASE LoopStep
  <2>1. UNCHANGED <<owner, open, joinable, receiver>> /\ owner # "thread" /\ owner # "unclaim"
    BY <1>5, SMTT(30) DEF LoopStep, HasThread, ownVars
  <2>2. /\ loopPc # "out" /\ stopped' = stopped
        /\ \/ loopPc = "left" /\ loopPc' = "notify" /\ loops' = loops - 1
           \/ loopPc = "notify" /\ loopPc' = "out" /\ loops' = loops
           \/ loopPc \in R!Sync!Claimed /\ loopPc' \in R!Sync!Claimed /\ loops' = loops
    BY <1>5 DEF LoopStep, R!LoopStep, R!RunHandler, R!FinishOnLoop, R!FinishOwnWalk, R!LoopOnly, R!syncVars,
       R!Sync!RunHandler, R!Sync!FinishOnLoop, R!Sync!EnterRun, R!Sync!PublishDone, R!Sync!LeaveRun,
       R!Sync!Release, R!Sync!ReleaseNotify
  <2> QED
    BY <2>1, <2>2 DEF ThreadInv
<1>6. CASE HandlerThrows \/ AbortThrowsOnLoop
  <2>1. /\ UNCHANGED <<loops, stopped, owner, open, joinable, receiver>>
        /\ loopPc \in {"running", "taken"} /\ loopPc' = "claimed"
    BY <1>6 DEF HandlerThrows, AbortThrowsOnLoop, R!LoopIsFree, R!ReenterRun, R!UnwindOnLoop,
       R!LoopGoes, ownVars
  <2> QED
    BY <2>1 DEF ThreadInv
<1>7. CASE AbortThrowsHere
  <2>1. UNCHANGED <<loops, loopPc, stopped, open, joinable, receiver>> /\ owner' = "out" /\ owner = "walk"
    BY <1>7 DEF AbortThrowsHere, R!UnwindHere, PhaseInv, Idle
  <2> QED
    BY <2>1 DEF ThreadInv
<1>8. ASSUME UNCHANGED <<loops, loopPc, stopped, owner, open, joinable, receiver>> PROVE ThreadInv'
  BY <1>8 DEF ThreadInv
<1>9. CASE InAbortAll \/ Visit \/ Host
  <2>1. UNCHANGED <<loops, loopPc, stopped>>
    BY <1>9, Zenon DEF InAbortAll, Visit, Host, R!Visit, R!AbortAllOnLoop, R!Track, R!Untrack, R!syncVars,
       R!CallStep, R!EnterSync, R!TakeBack, R!CallOnly, R!FinishHere, R!Return,
       R!Sync!Call, R!Sync!WaitTake, R!Sync!LockCall, R!Sync!OpenCall, R!Sync!PostHandler,
       R!Sync!WaitReturn, R!Sync!WaitFalse, R!Sync!Sleep, R!Sync!FinishInline, R!Sync!FinishTaken,
       R!Sync!loopVars
  <2> QED
    BY <1>8, <1>9, <2>1, Zenon DEF InAbortAll, Visit, Host, ownVars
<1>10. CASE AbortAll
  <2>1. UNCHANGED <<loops, loopPc, stopped, open, joinable, receiver>> /\ owner = "abort" /\ owner' = "walk"
    BY <1>10 DEF AbortAll, R!AbortAll, R!syncVars
  <2> QED
    BY <2>1 DEF ThreadInv
<1>11. ASSUME UNCHANGED reactorVars PROVE UNCHANGED <<loops, loopPc, stopped>>
  BY <1>11 DEF reactorVars
<1>12. CASE BindThrows \/ Bind
  <2>1. /\ UNCHANGED <<loops, loopPc, stopped, joinable, receiver>> /\ owner = "bind"
        /\ owner' = "out" \/ (owner' = "spawn" /\ ~open)
    BY <1>11, <1>12, Zenon DEF BindThrows, Bind
  <2>2. open' \/ (open' = open /\ owner' = "out")
    BY <1>12, Zenon DEF BindThrows, Bind
  <2> QED
    BY <2>1, <2>2 DEF ThreadInv
<1>13. CASE Spawn
  <2>1. /\ UNCHANGED <<loops, loopPc, stopped, open, joinable>> /\ owner = "spawn"
        /\ owner' = "claim" \/ (owner' = "out" /\ receiver' = receiver)
    BY <1>11, <1>13, Zenon DEF Spawn
  <2> QED
    BY <2>1 DEF ThreadInv
<1>14. CASE Start \/ \E phase \in Phases : Phase(phase)
  <2>1. /\ UNCHANGED <<loops, loopPc, stopped, open, joinable, receiver>> /\ owner = "out"
        /\ owner' \in {"bind", "abort", "out"} \/ (owner' = "close" /\ ~joinable)
    BY <1>11, <1>14, Zenon DEF Start, Phase, AfterStop
  <2> QED
    BY <2>1 DEF ThreadInv
<1>15. CASE StartThread
  <2>1. UNCHANGED <<loops, loopPc, stopped, receiver>> /\ joinable' /\ owner' = "out" /\ open' = open
    BY <1>11, <1>15, Zenon DEF StartThread
  <2>2. owner = "thread" /\ open
    BY <1>15 DEF StartThread, ThreadInv
  <2> QED
    BY <2>1, <2>2 DEF ThreadInv
<1>16. CASE Join
  <2>1. /\ UNCHANGED <<loops, loopPc, stopped, open, receiver>> /\ ~joinable'
        /\ owner = "join" /\ loopPc = "out" /\ owner' \in {"out", "close"}
    BY <1>11, <1>16, Zenon DEF Join, AfterStop
  <2> QED
    BY <2>1 DEF ThreadInv
<1>17. CASE Close \/ DestroyRoots
  <2>1. /\ UNCHANGED <<loops, loopPc, stopped, open, joinable>> /\ receiver' \in {receiver, "destroyed"}
        /\ owner \in {"close", "destroy"} /\ owner' \in {"out", "destroy"}
    BY <1>11, <1>17, Zenon DEF Close, DestroyRoots
  <2> QED
    BY <2>1 DEF ThreadInv
<1>18. CASE ReceiveFirst \/ ReceiveFails
  BY <1>11, <1>18 DEF ReceiveFirst, ReceiveFails, R!LoopIsFree, ThreadInv
<1>19. CASE Receive \/ Arrive \/ UNCHANGED vars
  BY <1>8, <1>11, <1>19, Zenon DEF Receive, Arrive, ownVars, vars
<1> QED
  BY <1>1, <1>2, <1>3, <1>4, <1>5, <1>6, <1>7, <1>9, <1>10, <1>12, <1>13, <1>14, <1>15,
     <1>16, <1>17, <1>18, <1>19, Zenon
     DEF Next, OwnerStep

(* The thread stays inside the loop, and the receive loop with it.         *)
LEMMA ListenKept ==
    ASSUME R!Sync!TypeOK, OwnTypes, ThreadInv, ListenInv, [Next]_vars
    PROVE  ListenInv'
<1> DEFINE Inside == {"claimed", "running", "taken", "ran"}
           Hearing == receiver \in {"spawned", "waiting"} \/ receiveFailed
<1> USE DEF At
<1>1. joinable' => joinable \/ StartThread
  BY Zenon
     DEF Next, OwnerStep, BindThrows, Bind, Spawn, ClaimLoop, ThreadThrows, Unclaim,
         StopUnstarted, AbortAll, InAbortAll, StopIo, Join, Close, DestroyRoots, Start, Phase, LoopStep,
         Visit, ReceiveFirst, Receive, ReceiveFails, HandlerThrows, OutOfWork, HostStops, Host,
         AbortThrowsOnLoop, AbortThrowsHere, Arrive, vars, ownVars
<1>2. owner' \in {"claim", "thread"} => owner \in {"claim", "thread"} \/ (Spawn /\ receiver' = "spawned")
  BY Zenon
     DEF Next, OwnerStep, BindThrows, Bind, Spawn, ClaimLoop, StartThread, ThreadThrows, Unclaim,
         StopUnstarted, AbortAll, InAbortAll, StopIo, Join, Close, DestroyRoots, Start, Phase, LoopStep,
         Visit, ReceiveFirst, Receive, ReceiveFails, HandlerThrows, OutOfWork, HostStops, Host,
         AbortThrowsOnLoop, AbortThrowsHere, Arrive, vars, ownVars, AfterStop
<1>3. Hearing => Hearing' \/ Close \/ DestroyRoots
  BY Zenon
     DEF Next, OwnerStep, BindThrows, Bind, Spawn, ClaimLoop, StartThread, ThreadThrows, Unclaim,
         StopUnstarted, AbortAll, InAbortAll, StopIo, Join, Start, Phase, LoopStep,
         Visit, ReceiveFirst, Receive, ReceiveFails, HandlerThrows, OutOfWork, HostStops, Host,
         AbortThrowsOnLoop, AbortThrowsHere, Arrive, vars, ownVars, netVars
<1>4. Close \/ DestroyRoots => ~joinable /\ ~joinable' /\ owner' \notin {"claim", "thread"}
  <2>1. Close \/ DestroyRoots => /\ owner \in {"close", "destroy"} /\ joinable' = joinable
                                 /\ owner' \in {"out", "destroy"}
    BY Zenon DEF Close, DestroyRoots
  <2>2. owner \in {"close", "destroy"} => ~joinable
    BY DEF ThreadInv
  <2> QED
    BY <2>1, <2>2
<1>5. joinable' \/ owner' \in {"claim", "thread"} => Hearing'
  <2>1. StartThread => owner \in {"claim", "thread"}
    BY Zenon DEF StartThread
  <2>2. joinable \/ owner \in {"claim", "thread"} => Hearing
    BY Zenon DEF ListenInv
  <2>3. receiver' = "spawned" => Hearing'
    OBVIOUS
  <2> QED
    BY <1>1, <1>2, <1>3, <1>4, <2>1, <2>2, <2>3, Zenon
<1>6. joinable' => loopPc' \in Inside \/ stopped'
  <2>1. CASE StartThread
    <3>1. loopPc = "claimed"
      BY <2>1, Zenon DEF StartThread, ThreadInv
    <3>2. UNCHANGED loopPc
      BY <2>1 DEF StartThread, reactorVars
    <3> QED
      BY <3>1, <3>2
  <2>2. CASE joinable
    <3>1. loopPc \in Inside \/ stopped
      BY <2>2, Zenon DEF ListenInv
    <3>2. ~At("thread")
      BY <2>2 DEF ThreadInv
    <3>3. UNCHANGED <<loopPc, stopped>> => loopPc' \in Inside \/ stopped'
      BY <3>1, SMTT(30)
    <3>4. CASE R!Sync!LoopStep
      BY <3>1, <3>4 DEF R!Sync!LoopStep, R!Sync!EnterRun, R!Sync!RunHandler, R!Sync!FinishOnLoop,
         R!Sync!PublishDone, R!Sync!LeaveRun, R!Sync!Release, R!Sync!ReleaseNotify
    <3>5. CASE R!Sync!Call(Owner) \/ R!Sync!CallStep(Owner)
      BY <3>3, <3>5, Zenon DEF R!Sync!Call, R!Sync!CallStep, R!Sync!FinishInline, R!Sync!LockCall,
         R!Sync!OpenCall, R!Sync!PostHandler, R!Sync!WaitReturn, R!Sync!WaitTake, R!Sync!WaitFalse,
         R!Sync!Sleep, R!Sync!FinishTaken, R!Sync!loopVars
    <3>6. SyncStep
      BY SyncSteps
    <3> QED
      BY <3>2, <3>3, <3>4, <3>5, <3>6, Zenon DEF SyncStep, R!Sync!Claim, R!StopIo, R!UnwindHere, R!syncVars
  <2> QED
    BY <1>1, <2>1, <2>2, Zenon
<1> QED
  BY <1>5, <1>6, Zenon DEF ListenInv

-----------------------------------------------------------------------------
LEMMA InitInv == Init => Inv
<1> SUFFICES ASSUME Init PROVE Inv
  OBVIOUS
<1>1. R!Sync!Init
  BY DEF Init, R!Init
<1>2. R!Sync!TypeOK
  <2>1. stopped \in BOOLEAN /\ sync_call \in Callers \cup {None} /\ sync_mutex \in Callers \cup {None}
    BY <1>1, Zenon DEF R!Sync!Init
  <2>2. queue \in Seq(Nat) /\ loops \in Nat /\ loopPc \in R!Sync!LoopStates /\ current \in Nat
    BY <1>1 DEF R!Sync!Init, R!Sync!LoopStates
  <2>3. sync_calls \in Nat /\ sync_open \in Nat /\ sync_done \in Nat
    BY <1>1 DEF R!Sync!Init
  <2>4. pc \in [Callers -> R!Sync!CallStates] /\ id \in [Callers -> Nat] /\ ran \in [Callers -> Nat]
    BY <1>1 DEF R!Sync!Init, R!Sync!CallStates
  <2> QED
    BY <2>1, <2>2, <2>3, <2>4 DEF R!Sync!TypeOK
<1>3. ListTypes
  BY EmptyList, WholeIsSuffix, Zenon DEF Init, R!Init, ListTypes
<1>4. HostTypes
  <2>1. 0 \in 0 .. MaxCalls
    BY UdpServerAssumption
  <2>2. aborting \in BOOLEAN /\ abortReturned \in BOOLEAN /\ calls = 0
    BY Zenon DEF Init, R!Init
  <2>3. op \in [Callers -> {"none", "abort", "force"}]
    BY DEF Init, R!Init
  <2> QED
    BY <2>1, <2>2, <2>3, Zenon DEF HostTypes
<1>5. OwnTypes
  <2>1. pending \in Nat /\ arrived \in 0 .. MaxDatagrams /\ pending <= arrived
    BY UdpServerAssumption DEF Init
  <2> QED
    BY <2>1, Zenon DEF Init, OwnTypes, Phases
<1>6. CallInv
  BY <1>1, OwnerAlone, SMTT(30) DEF R!Sync!Init, CallInv, R!Sync!Serialised
<1>7. PhaseInv /\ ThreadInv
  <2>1. ~joinable /\ ~open /\ owner = "out" /\ receiver = "none" /\ op[Owner] = "none"
    BY OwnerAlone, Zenon DEF Init, R!Init
  <2>2. loops = 0 /\ loopPc = "out" /\ pc[Owner] = "idle"
    BY <1>1, OwnerAlone DEF R!Sync!Init
  <2> QED
    BY <2>1, <2>2 DEF PhaseInv, ThreadInv, At, Idle, R!Sync!Claimed
<1>8. ListenInv /\ AnswerInv
  <2>1. ~joinable /\ owner = "out"
    BY Zenon DEF Init
  <2>2. loopPc = "out" /\ pc[Owner] = "idle" /\ queue = <<>> /\ sync_mutex = None
    BY <1>1, OwnerAlone DEF R!Sync!Init
  <2>3. ListenInv
    BY <2>1 DEF ListenInv
  <2>4. AnswerInv
    BY <2>2, OwnerAlone DEF AnswerInv, R!Sync!Sleeps, R!Sync!Waiting
  <2> QED
    BY <2>3, <2>4
<1> QED
  BY <1>2, <1>3, <1>4, <1>5, <1>6, <1>7, <1>8, Zenon DEF Inv

LEMMA InvHolds == Spec => []Inv
<1>1. Inv /\ [Next]_vars => Inv'
  <2> SUFFICES ASSUME Inv, [Next]_vars PROVE Inv'
    OBVIOUS
  <2>1. R!Sync!TypeOK' /\ CallInv'
    BY SyncSteps, SyncKept, Zenon DEF Inv
  <2>2. ListTypes'
    BY ListSteps, ListKept, Zenon DEF Inv
  <2>3. HostTypes' /\ OwnTypes' /\ PhaseInv' /\ ThreadInv' /\ ListenInv'
    BY HostKept, OwnKept, PhaseKept, ThreadKept, ListenKept, Zenon DEF Inv
  <2>4. unwound' \/ AnswerInv'
    BY UnwoundStays, SyncSteps, AnswerKept, Zenon DEF Inv
  <2> QED
    BY <2>1, <2>2, <2>3, <2>4, Zenon DEF Inv
<1> QED
  BY InitInv, <1>1, PTL DEF Spec

(* However start() fails, whoever stops the loop and whatever the host's   *)
(* handlers and the abortables throw, close(), destroy_roots() and the     *)
(* destructor destroy the receive loop only with its thread gone and its   *)
(* io_context stopped.                                                     *)
THEOREM RootsDestroyedLast == Spec => []RootsOutliveLoop
<1>1. Inv => RootsOutliveLoop
  <2> SUFFICES ASSUME Inv PROVE RootsOutliveLoop
    OBVIOUS
  <2>1. R!TypeOK
    <3>1. {aborting, walked, forced, calling} \subseteq BOOLEAN /\ {aborts, cursor} \subseteq Seq(Abortables)
      BY Zenon DEF Inv, HostTypes, ListTypes
    <3>2. R!IsInjective(aborts) /\ R!IsSuffix(cursor, aborts)
      BY SameLists, Zenon DEF Inv, ListTypes
    <3> QED
      BY <3>1, <3>2, Zenon DEF Inv, HostTypes, ListTypes, R!TypeOK
  <2>2. pending \in 0 .. MaxDatagrams /\ arrived \in 0 .. MaxDatagrams
    BY UdpServerAssumption DEF Inv, OwnTypes
  <2>3. {open, joinable, closed, receiveFailed, unwound} \subseteq BOOLEAN
    BY Zenon DEF Inv, OwnTypes
  <2>4. TypeOK
    BY <2>1, <2>2, <2>3, Zenon DEF Inv, OwnTypes, TypeOK
  <2>5. owner \in {"close", "destroy"} =>
            loopPc = "out" /\ (receiver \in {"spawned", "waiting"} => stopped)
    BY DEF Inv, ThreadInv, At
  <2> QED
    BY <2>4, <2>5 DEF RootsOutliveLoop, At
<1> QED
  BY InvHolds, <1>1, PTL

(* stop() is answered: the call it sleeps in is notified, unless an        *)
(* abort() threw in the walk it posted, and the thread it joins is on a    *)
(* stopped io_context.                                                     *)
THEOREM StopAnswered == Spec => []StopIsAnswered
<1>1. Inv => StopIsAnswered
  <2> SUFFICES ASSUME Inv PROVE StopIsAnswered
    OBVIOUS
  <2>1. At("join") => stopped
    BY DEF Inv, ThreadInv
  <2>2. ASSUME AnswerInv, NEW c \in Callers, pc[c] = "asleep"
        PROVE  \/ loopPc = "notify"
               \/ loopPc \in {"taken", "ran"} /\ current = id[c]
               \/ /\ loopPc \in R!Sync!Claimed /\ sync_open = id[c]
                  /\ \E i \in 1..Len(queue) : queue[i] = id[c]
    <3>1. c = Owner /\ loops = IF loopPc \in R!Sync!Claimed THEN 1 ELSE 0
      BY OwnerAlone DEF Inv, ThreadInv
    <3>2. R!Sync!Sleeps(c)
      BY <2>2, <3>1 DEF AnswerInv
    <3> QED
      BY <2>2, <3>1, <3>2 DEF R!Sync!Sleeps, R!Sync!WaitOver, R!Sync!Waiting
  <2>3. unwound \/ R!Sync!NotificationOwed
    BY <2>2, Zenon DEF Inv, R!Sync!NotificationOwed
  <2> QED
    BY <2>1, <2>3, Zenon DEF StopIsAnswered
<1> QED
  BY InvHolds, <1>1, PTL

(* A node with a thread goes on listening, whatever its handlers throw.    *)
THEOREM KeepsListening == Spec => []ListensOn
<1>1. Inv => ListensOn
  BY DEF Inv, ListenInv, ListensOn, R!Sync!Claimed
<1> QED
  BY InvHolds, <1>1, PTL

=============================================================================
