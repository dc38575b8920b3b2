--------------------------- MODULE LoopSyncProofs ---------------------------
(***************************************************************************)
(* LoopSync's safety, for any set of callers and any number of calls.  It  *)
(* follows from the inductive invariant Inv: who owns the newest call id,  *)
(* and that sync_open_, sync_done_, the posted handlers and the handler in *)
(* progress agree with it; and, for the wake-ups, from SleepInv.           *)
(***************************************************************************)
EXTENDS LoopSync, TLAPS

(* The initial state satisfies the inductive invariant: no call has an id, *)
(* no loop is claimed.                                                     *)
LEMMA InitInv == Init => Inv
<1> SUFFICES ASSUME Init PROVE Inv
  OBVIOUS
<1> USE LoopSyncAssumption DEF Init, LoopStates, CallStates, Claimed, Serialised, Waiting, RunsHere
<1>1. TypeOK
  <2>1. stopped \in BOOLEAN /\ sync_call \in Callers \cup {None} /\ sync_mutex \in Callers \cup {None}
    BY Zenon
  <2>2. queue \in Seq(Nat) /\ loops \in Nat /\ loopPc \in LoopStates /\ current \in Nat
    OBVIOUS
  <2>3. sync_calls \in Nat /\ sync_open \in Nat /\ sync_done \in Nat
    OBVIOUS
  <2>4. pc \in [Callers -> CallStates] /\ id \in [Callers -> Nat] /\ ran \in [Callers -> Nat]
    OBVIOUS
  <2> QED
    BY <2>1, <2>2, <2>3, <2>4 DEF TypeOK
<1>2. LoopsExact /\ CallOwned /\ OpenCallLive /\ TakenCallLive
  BY DEF LoopsExact, CallOwned, OpenCallLive, TakenCallLive
<1>3. QueuedCalls /\ DoneCall /\ RanExact
  BY DEF QueuedCalls, DoneCall, RanExact
<1> QED
  BY <1>1, <1>2, <1>3 DEF Inv

(* Every step of on_loop_sync, claim_loop, release_loop and the loop's     *)
(* thread preserves the inductive invariant.                               *)
LEMMA NextInv == Inv /\ [Next]_vars => Inv'
<1> SUFFICES ASSUME Inv, [Next]_vars PROVE Inv'
  OBVIOUS
<1> USE LoopSyncAssumption
    DEF Inv, LoopStates, CallStates, Claimed, Serialised, Waiting, RunsHere, loopVars,
        syncVars, callVars, Woken, WaitOver
<1>1. CASE Claim
  <2> USE <1>1 DEF Claim
  <2>1. TypeOK'
    <3>1. loops' \in Nat
      BY DEF TypeOK
    <3>2. stopped' \in BOOLEAN /\ loopPc' \in LoopStates
      BY Zenon DEF TypeOK
    <3> QED
      BY <3>1, <3>2, Zenon DEF TypeOK
  <2>2. LoopsExact' /\ CallOwned' /\ OpenCallLive' /\ TakenCallLive' /\ QueuedCalls' /\
       DoneCall' /\ RanExact'
    BY DEF LoopsExact, CallOwned, OpenCallLive, TakenCallLive, QueuedCalls, DoneCall,
       RanExact
  <2> QED
    BY <2>1, <2>2
<1>2. CASE StopLoop \/ Restart
  <2>0. /\ stopped' \in BOOLEAN
        /\ UNCHANGED <<loops, loopPc, current, queue, sync_call, sync_mutex, sync_calls, sync_open,
                       sync_done, pc, id, ran>>
    BY <1>2, Zenon DEF StopLoop, Restart
  <2> USE <2>0
  <2>1. TypeOK' /\ LoopsExact' /\ CallOwned' /\ OpenCallLive' /\ TakenCallLive' /\
       QueuedCalls' /\ DoneCall' /\ RanExact'
    BY DEF TypeOK, LoopsExact, CallOwned, OpenCallLive, TakenCallLive, QueuedCalls,
       DoneCall, RanExact
  <2> QED
    BY <2>1
<1>3. CASE EnterRun
  <2> USE <1>3 DEF EnterRun
  <2>1. TypeOK' /\ LoopsExact' /\ CallOwned' /\ OpenCallLive' /\ TakenCallLive' /\
       QueuedCalls' /\ DoneCall' /\ RanExact'
    BY DEF TypeOK, LoopsExact, CallOwned, OpenCallLive, TakenCallLive, QueuedCalls,
       DoneCall, RanExact
  <2> QED
    BY <2>1
<1>4. CASE RunHandler
  <2> USE <1>4 DEF RunHandler
  <2>1. Head(queue) = queue[1] /\ Head(queue) \in Nat /\ Head(queue) > 0
    BY DEF TypeOK, QueuedCalls
  <2>2. queue' \in Seq(Nat) /\ Len(queue') = Len(queue) - 1
    BY DEF TypeOK
  <2>3. \A i \in 1..Len(queue') : i + 1 \in 1..Len(queue) /\ queue'[i] = queue[i + 1]
    BY <2>2 DEF TypeOK
  <2>4. QueuedCalls'
    BY <2>3 DEF QueuedCalls
  <2>5. CASE sync_open = Head(queue)
    <3>1. PICK c \in Callers : /\ sync_call = c
                               /\ sync_open = id[c]
                               /\ pc[c] \in {"post", "wait", "sleepy", "asleep"}
      BY <2>1, <2>5 DEF OpenCallLive
    <3>2. id[c] = sync_calls /\ queue[1] = sync_calls
      BY <2>1, <2>5, <3>1 DEF CallOwned
    <3>3. pc[c] \in Waiting
      BY <2>1, <3>1, <3>2 DEF TypeOK, QueuedCalls
    <3>4. sync_done # id[c]
      BY <2>1, <2>5, <3>1 DEF DoneCall
    <3>5. TakenCallLive'
      BY <2>5, <3>1, <3>3, <3>4 DEF TakenCallLive
    <3>6. TypeOK'
      BY <2>1, <2>2, <2>5 DEF TypeOK
    <3>7. LoopsExact' /\ CallOwned' /\ OpenCallLive' /\ DoneCall'
      BY <2>5 DEF LoopsExact, CallOwned, OpenCallLive, DoneCall
    <3>8. RanExact'
      BY <2>5 DEF RanExact
    <3> QED
      BY <2>4, <3>5, <3>6, <3>7, <3>8
  <2>6. CASE sync_open # Head(queue)
    <3>1. TypeOK'
      BY <2>2, <2>6 DEF TypeOK
    <3>2. LoopsExact' /\ CallOwned' /\ OpenCallLive' /\ TakenCallLive' /\ DoneCall' /\
         RanExact'
      BY <2>6 DEF LoopsExact, CallOwned, OpenCallLive, TakenCallLive, DoneCall, RanExact
    <3> QED
      BY <2>4, <3>1, <3>2
  <2> QED
    BY <2>5, <2>6
<1>5. CASE FinishOnLoop
  <2> USE <1>5 DEF FinishOnLoop
  <2>1. RanExact'
    BY DEF CallOwned, TakenCallLive, RanExact
  <2>2. TypeOK' /\ LoopsExact' /\ CallOwned' /\ OpenCallLive' /\ TakenCallLive' /\
       QueuedCalls' /\ DoneCall'
    BY DEF TypeOK, LoopsExact, CallOwned, OpenCallLive, TakenCallLive, QueuedCalls,
       DoneCall
  <2> QED
    BY <2>1, <2>2
<1>6. CASE PublishDone
  <2> USE <1>6 DEF PublishDone
  <2>1. DoneCall'
    BY DEF TypeOK, CallOwned, TakenCallLive, DoneCall
  <2>2. RanExact'
    BY DEF CallOwned, TakenCallLive, RanExact
  <2>3. TypeOK' /\ LoopsExact' /\ CallOwned' /\ OpenCallLive' /\ TakenCallLive' /\
       QueuedCalls'
    BY DEF TypeOK, LoopsExact, CallOwned, OpenCallLive, TakenCallLive, QueuedCalls
  <2> QED
    BY <2>1, <2>2, <2>3
<1>7. CASE LeaveRun
  <2> USE <1>7 DEF LeaveRun
  <2>1. TypeOK' /\ LoopsExact' /\ CallOwned' /\ OpenCallLive' /\ TakenCallLive' /\
       QueuedCalls' /\ DoneCall' /\ RanExact'
    BY DEF TypeOK, LoopsExact, CallOwned, OpenCallLive, TakenCallLive, QueuedCalls,
       DoneCall, RanExact
  <2> QED
    BY <2>1
<1>8. CASE Release
  <2> USE <1>8 DEF Release
  <2>1. TypeOK'
    BY DEF TypeOK, LoopsExact
  <2>2. LoopsExact' /\ CallOwned' /\ OpenCallLive' /\ TakenCallLive' /\ QueuedCalls' /\
       DoneCall' /\ RanExact'
    BY DEF LoopsExact, CallOwned, OpenCallLive, TakenCallLive, QueuedCalls, DoneCall,
       RanExact
  <2> QED
    BY <2>1, <2>2
<1>9. CASE ReleaseNotify
  <2> USE <1>9 DEF ReleaseNotify
  <2>1. TypeOK' /\ LoopsExact' /\ CallOwned' /\ OpenCallLive' /\ TakenCallLive' /\
       QueuedCalls' /\ DoneCall' /\ RanExact'
    BY DEF TypeOK, LoopsExact, CallOwned, OpenCallLive, TakenCallLive, QueuedCalls,
       DoneCall, RanExact
  <2> QED
    BY <2>1
<1>10. ASSUME NEW c \in Callers, Call(c) PROVE Inv'
  <2> USE <1>10 DEF Call
  <2>1. TypeOK' /\ LoopsExact' /\ CallOwned' /\ OpenCallLive' /\ TakenCallLive' /\
       QueuedCalls' /\ DoneCall' /\ RanExact'
    BY DEF TypeOK, LoopsExact, CallOwned, OpenCallLive, TakenCallLive, QueuedCalls,
       DoneCall, RanExact
  <2> QED
    BY <2>1
<1>11. ASSUME NEW c \in Callers, FinishInline(c) PROVE Inv'
  <2> USE <1>11 DEF FinishInline
  <2>1. TypeOK' /\ LoopsExact' /\ CallOwned' /\ OpenCallLive' /\ TakenCallLive' /\
       QueuedCalls' /\ DoneCall' /\ RanExact'
    BY DEF TypeOK, LoopsExact, CallOwned, OpenCallLive, TakenCallLive, QueuedCalls,
       DoneCall, RanExact
  <2> QED
    BY <2>1
<1>12. ASSUME NEW c \in Callers, LockCall(c) PROVE Inv'
  <2> USE <1>12 DEF LockCall
  <2>1. TypeOK' /\ LoopsExact' /\ CallOwned' /\ OpenCallLive' /\ TakenCallLive' /\
       QueuedCalls' /\ DoneCall' /\ RanExact'
    BY DEF TypeOK, LoopsExact, CallOwned, OpenCallLive, TakenCallLive, QueuedCalls,
       DoneCall, RanExact
  <2> QED
    BY <2>1
<1>13. ASSUME NEW c \in Callers, OpenCall(c) PROVE Inv'
  <2> USE <1>13 DEF OpenCall
  <2>1. OpenCallLive'
    BY DEF TypeOK, CallOwned, OpenCallLive
  <2>2. TakenCallLive'
    BY DEF CallOwned, TakenCallLive
  <2>3. DoneCall'
    BY DEF CallOwned, DoneCall
  <2>4. TypeOK' /\ LoopsExact' /\ CallOwned' /\ QueuedCalls' /\ RanExact'
    BY DEF TypeOK, LoopsExact, CallOwned, QueuedCalls, RanExact
  <2> QED
    BY <2>1, <2>2, <2>3, <2>4
<1>14. ASSUME NEW c \in Callers, PostHandler(c) PROVE Inv'
  <2> USE <1>14 DEF PostHandler
  <2>1. QueuedCalls'
    BY DEF TypeOK, CallOwned, QueuedCalls
  <2>2. RanExact'
    BY DEF CallOwned, TakenCallLive, DoneCall, RanExact
  <2>3. TypeOK' /\ LoopsExact' /\ CallOwned' /\ OpenCallLive' /\ TakenCallLive' /\
       DoneCall'
    BY DEF TypeOK, LoopsExact, CallOwned, OpenCallLive, TakenCallLive, DoneCall
  <2> QED
    BY <2>1, <2>2, <2>3
<1>15. ASSUME NEW c \in Callers, WaitReturn(c) PROVE Inv'
  <2> USE <1>15 DEF WaitReturn
  <2>1. OpenCallLive'
    BY DEF OpenCallLive, DoneCall
  <2>2. TakenCallLive'
    BY DEF CallOwned, TakenCallLive
  <2>3. TypeOK' /\ LoopsExact' /\ CallOwned' /\ QueuedCalls' /\ DoneCall' /\ RanExact'
    BY DEF TypeOK, LoopsExact, CallOwned, QueuedCalls, DoneCall, RanExact
  <2> QED
    BY <2>1, <2>2, <2>3
<1>16. ASSUME NEW c \in Callers, WaitTake(c) PROVE Inv'
  <2> USE <1>16 DEF WaitTake
  <2>1. TakenCallLive'
    BY DEF LoopsExact, TakenCallLive
  <2>2. RanExact'
    BY DEF LoopsExact, RanExact
  <2>3. TypeOK' /\ LoopsExact' /\ CallOwned' /\ OpenCallLive' /\ QueuedCalls' /\
       DoneCall'
    BY DEF TypeOK, LoopsExact, CallOwned, OpenCallLive, QueuedCalls, DoneCall
  <2> QED
    BY <2>1, <2>2, <2>3
<1>17. ASSUME NEW c \in Callers, WaitFalse(c) PROVE Inv'
  <2> USE <1>17 DEF WaitFalse
  <2>1. TypeOK' /\ LoopsExact' /\ CallOwned' /\ OpenCallLive' /\ TakenCallLive' /\
       QueuedCalls' /\ DoneCall' /\ RanExact'
    BY DEF TypeOK, LoopsExact, CallOwned, OpenCallLive, TakenCallLive, QueuedCalls,
       DoneCall, RanExact
  <2> QED
    BY <2>1
<1>18. ASSUME NEW c \in Callers, Sleep(c) PROVE Inv'
  <2> USE <1>18 DEF Sleep
  <2>1. TypeOK' /\ LoopsExact' /\ CallOwned' /\ OpenCallLive' /\ TakenCallLive' /\
       QueuedCalls' /\ DoneCall' /\ RanExact'
    BY DEF TypeOK, LoopsExact, CallOwned, OpenCallLive, TakenCallLive, QueuedCalls,
       DoneCall, RanExact
  <2> QED
    BY <2>1
<1>19. ASSUME NEW c \in Callers, FinishTaken(c) PROVE Inv'
  <2> USE <1>19 DEF FinishTaken
  <2>1. OpenCallLive'
    BY DEF CallOwned, OpenCallLive
  <2>2. TakenCallLive'
    BY DEF CallOwned, TakenCallLive
  <2>3. TypeOK' /\ LoopsExact' /\ CallOwned' /\ QueuedCalls' /\ DoneCall' /\ RanExact'
    BY DEF TypeOK, LoopsExact, CallOwned, QueuedCalls, DoneCall, RanExact
  <2> QED
    BY <2>1, <2>2, <2>3
<1>20. ASSUME NEW c \in Callers, Again(c) PROVE Inv'
  <2> USE <1>20 DEF Again
  <2>1. TypeOK' /\ LoopsExact' /\ CallOwned' /\ OpenCallLive' /\ TakenCallLive' /\
       QueuedCalls' /\ DoneCall' /\ RanExact'
    BY DEF TypeOK, LoopsExact, CallOwned, OpenCallLive, TakenCallLive, QueuedCalls,
       DoneCall, RanExact
  <2> QED
    BY <2>1
<1>21. CASE UNCHANGED vars
  BY <1>21 DEF vars, TypeOK, LoopsExact, CallOwned, OpenCallLive, TakenCallLive, QueuedCalls,
     DoneCall, RanExact
<1> QED
  BY <1>1, <1>2, <1>3, <1>4, <1>5, <1>6, <1>7, <1>8, <1>9, <1>10, <1>11, <1>12, <1>13,
     <1>14, <1>15, <1>16, <1>17, <1>18, <1>19, <1>20, <1>21
  DEF Next, LoopStep, CallStep

(* The inductive invariant holds in every reachable state.                 *)
LEMMA InvariantHolds == Spec => []Inv
  BY InitInv, NextInv, PTL DEF Spec

(* Type correctness: in particular loops_ never goes below zero, so every  *)
(* release_loop() pairs with a claim_loop().                               *)
THEOREM TypeCorrect == Spec => []TypeOK
<1>1. Inv => TypeOK
  BY DEF Inv
<1> QED
  BY <1>1, InvariantHolds, PTL

(* on_loop_sync runs f exactly once before it returns, whichever of the    *)
(* caller and the posted handler takes the call.                           *)
THEOREM CallRunsOnce == Spec => []RunsOnce
<1>1. Inv => RunsOnce
  BY DEF Inv, RanExact, RunsOnce
<1> QED
  BY <1>1, InvariantHolds, PTL

(* The handler uses the caller's f and the reactor only while the caller   *)
(* is still inside on_loop_sync.                                           *)
THEOREM HandlerNeverDangles == Spec => []NoDanglingCall
<1>1. Inv => NoDanglingCall
  BY DEF Inv, TakenCallLive, NoDanglingCall
<1> QED
  BY <1>1, InvariantHolds, PTL

(* No thread begins to run f itself while another is between its claim and *)
(* its release of the loop.                                                *)
THEOREM CallerNeverRacesLoop == Spec => NoRaceWithLoop
<1>1. Inv /\ [Next]_vars =>
        [\A c \in Callers : pc[c] \notin RunsHere /\ pc'[c] \in RunsHere => loopPc' \notin Claimed]_vars
  <2> SUFFICES ASSUME Inv, Next, NEW c \in Callers, pc[c] \notin RunsHere, pc'[c] \in RunsHere
               PROVE  loopPc' \notin Claimed
    OBVIOUS
  <2>1. pc \in [Callers -> CallStates] /\ loops = IF loopPc \in Claimed THEN 1 ELSE 0
    BY DEF Inv, TypeOK, LoopsExact
  <2>2. pc' # pc
    OBVIOUS
  <2>3. CASE \E d \in Callers : Call(d)
    BY <2>1, <2>3 DEF Call, RunsHere, loopVars
  <2>4. CASE \E d \in Callers : WaitTake(d)
    BY <2>1, <2>4 DEF WaitTake, WaitOver, RunsHere, loopVars
  <2>5. CASE PublishDone \/ ReleaseNotify
    BY <2>1, <2>5 DEF PublishDone, ReleaseNotify, Woken, RunsHere
  <2>6. ASSUME NEW d \in Callers, FinishInline(d) \/ LockCall(d) \/ OpenCall(d) \/ PostHandler(d)
        PROVE  FALSE
    BY <2>1, <2>6 DEF FinishInline, LockCall, OpenCall, PostHandler, RunsHere
  <2>7. ASSUME NEW d \in Callers,
               WaitReturn(d) \/ WaitFalse(d) \/ Sleep(d) \/ FinishTaken(d) \/ Again(d)
        PROVE  FALSE
    BY <2>1, <2>7 DEF WaitReturn, WaitFalse, Sleep, FinishTaken, Again, RunsHere
  <2>8. CASE Claim \/ Restart \/ StopLoop \/ EnterRun \/ RunHandler \/ FinishOnLoop \/ LeaveRun \/ Release
    BY <2>2, <2>8 DEF Claim, Restart, StopLoop, EnterRun, RunHandler, FinishOnLoop, LeaveRun,
                      Release, callVars
  <2> QED
    BY <2>3, <2>4, <2>5, <2>6, <2>7, <2>8 DEF Next, LoopStep, CallStep
<1> QED
  BY <1>1, InvariantHolds, PTL DEF Spec, NoRaceWithLoop

(* No notification is lost.  Initially nobody waits.                       *)
LEMMA InitSleep == Init => SleepInv
  BY LoopSyncAssumption DEF Init, SleepInv, Sleeps, Waiting

(* Only one caller at a time is past sync_call_.                           *)
LEMMA OneSerialised ==
    ASSUME Inv, NEW c \in Callers, NEW d \in Callers, pc[c] \in Serialised, pc[d] \in Serialised
    PROVE  c = d /\ id[c] = sync_calls /\ id[c] \in Nat \ {0}
  BY DEF Inv, CallOwned, TypeOK

(* Every step keeps it.                                                    *)
LEMMA NextSleep == Inv /\ SleepInv /\ [Next]_vars => SleepInv'
<1> SUFFICES ASSUME Inv, \A d \in Callers : Sleeps(d), [Next]_vars, NEW d \in Callers
             PROVE  Sleeps(d)'
  BY Zenon DEF SleepInv
<1>1. /\ pc \in [Callers -> CallStates] /\ id \in [Callers -> Nat] /\ queue \in Seq(Nat)
      /\ loops = IF loopPc \in Claimed THEN 1 ELSE 0
      /\ sync_mutex \in Callers \cup {None} /\ None \notin Callers
  BY LoopSyncAssumption DEF Inv, TypeOK, LoopsExact
<1>2. Sleeps(d)
  OBVIOUS
<1> USE <1>1, <1>2 DEF Sleeps, WaitOver, Waiting, Claimed, loopVars, syncVars, callVars
<1>3. CASE Claim
  BY <1>3 DEF Claim
<1>4. CASE StopLoop \/ Restart
  BY <1>4 DEF StopLoop, Restart
<1>5. CASE EnterRun
  BY <1>5 DEF EnterRun
<1>6. CASE RunHandler
  <2>1. sync_mutex = None /\ loopPc = "running" /\ queue # <<>> /\ UNCHANGED <<pc, id, sync_mutex, sync_done, loops>>
    BY <1>6 DEF RunHandler
  <2>2. pc[d] # "sleepy"
    BY <2>1
  <2>3. CASE sync_open = Head(queue)
    <3>1. sync_open' = 0 /\ current' = Head(queue) /\ loopPc' = "taken"
      BY <1>6, <2>3 DEF RunHandler
    <3>2. pc[d] # "post"
      <4>1. Head(queue) = queue[1] /\ 1 \in 1..Len(queue)
        BY <2>1
      <4>2. pc[d] = "post" => queue[1] < sync_calls /\ id[d] = sync_calls /\ sync_calls \in Nat
        BY <4>1 DEF Inv, QueuedCalls, CallOwned, Serialised, TypeOK
      <4> QED
        BY <2>3, <4>1, <4>2
    <3>3. pc[d] \in Waiting => id[d] # 0
      BY OneSerialised DEF Serialised
    <3> QED
      BY <2>1, <2>2, <2>3, <3>1, <3>2, <3>3
  <2>4. CASE sync_open # Head(queue)
    <3>1. UNCHANGED <<sync_open, current, loopPc>> /\ queue' = Tail(queue)
      BY <1>6, <2>4 DEF RunHandler
    <3>2. ASSUME NEW i \in 1..Len(queue), queue[i] = sync_open
          PROVE  \E j \in 1..Len(queue') : queue'[j] = sync_open
      <4>1. i # 1
        BY <2>1, <2>4, <3>2
      <4>2. i - 1 \in 1..Len(queue') /\ queue'[i - 1] = queue[i]
        BY <2>1, <3>1, <4>1
      <4> QED
        BY <3>2, <4>2
    <3> QED
      BY <2>1, <2>2, <3>1, <3>2
  <2> QED
    BY <2>3, <2>4
<1>7. CASE FinishOnLoop
  BY <1>7 DEF FinishOnLoop
<1>8. CASE PublishDone
  <2>1. /\ sync_mutex = None /\ loopPc = "ran" /\ loopPc' = "running" /\ sync_done' = current
        /\ pc' = Woken /\ UNCHANGED <<id, sync_mutex, sync_open, queue, loops>>
    BY <1>8 DEF PublishDone
  <2>2. pc'[d] = IF pc[d] = "asleep" THEN "wait" ELSE pc[d]
    BY <2>1 DEF Woken
  <2>3. pc[d] # "sleepy"
    BY <2>1
  <2>4. pc[d] \in Waiting => current = id[d]
    <3>1. PICK c \in Callers : sync_call = c /\ current = id[c]
      BY <2>1, Zenon DEF Inv, TakenCallLive
    <3> QED
      BY <3>1 DEF Inv, CallOwned, Serialised
  <2> QED
    BY <2>1, <2>2, <2>3, <2>4
<1>9. CASE LeaveRun
  BY <1>9 DEF LeaveRun
<1>10. CASE Release
  BY <1>10 DEF Release
<1>11. CASE ReleaseNotify
  <2>1. /\ loopPc = "notify" /\ loopPc' = "out" /\ pc' = Woken
        /\ UNCHANGED <<id, sync_mutex, sync_open, sync_done, queue, loops, current>>
    BY <1>11 DEF ReleaseNotify
  <2>2. pc'[d] = IF pc[d] = "asleep" THEN "wait" ELSE pc[d]
    BY <2>1 DEF Woken
  <2> QED
    BY <2>1, <2>2
<1>12. ASSUME NEW c \in Callers, Call(c) \/ FinishInline(c) \/ Again(c)
       PROVE  Sleeps(d)'
  BY <1>12 DEF Call, FinishInline, Again
<1>13. ASSUME NEW c \in Callers, LockCall(c)
       PROVE  Sleeps(d)'
  BY <1>13 DEF LockCall, Inv, CallOwned, Serialised
<1>14. ASSUME NEW c \in Callers, OpenCall(c)
       PROVE  Sleeps(d)'
  BY <1>14, OneSerialised DEF OpenCall, Serialised
<1>15. ASSUME NEW c \in Callers, PostHandler(c)
       PROVE  Sleeps(d)'
  <2>1. /\ pc[c] = "post" /\ queue' = Append(queue, id[c]) /\ pc' = [pc EXCEPT ![c] = "wait"]
        /\ UNCHANGED <<id, sync_mutex, sync_open, sync_done, loops, loopPc, current>>
    BY <1>15 DEF PostHandler
  <2>2. Len(queue') = Len(queue) + 1 /\ queue'[Len(queue) + 1] = id[c]
    BY <2>1
  <2>3. Len(queue) + 1 \in 1..Len(queue')
    BY <2>2
  <2>4. CASE c = d
    BY <2>1, <2>2, <2>3, <2>4
  <2>5. CASE c # d
    <3>1. pc[d] \notin Waiting /\ pc[d] # "post"
      BY <2>1, <2>5, OneSerialised DEF Serialised
    <3> QED
      BY <2>1, <2>5, <3>1
  <2> QED
    BY <2>4, <2>5
<1>16. ASSUME NEW c \in Callers, WaitReturn(c)
       PROVE  Sleeps(d)'
  BY <1>16 DEF WaitReturn
<1>17. ASSUME NEW c \in Callers, WaitTake(c)
       PROVE  Sleeps(d)'
  BY <1>17, OneSerialised DEF WaitTake, Serialised
<1>18. ASSUME NEW c \in Callers, WaitFalse(c)
       PROVE  Sleeps(d)'
  BY <1>18 DEF WaitFalse
<1>19. ASSUME NEW c \in Callers, Sleep(c)
       PROVE  Sleeps(d)'
  BY <1>19 DEF Sleep
<1>20. ASSUME NEW c \in Callers, FinishTaken(c)
       PROVE  Sleeps(d)'
  BY <1>20 DEF FinishTaken
<1>21. CASE UNCHANGED vars
  BY <1>21 DEF vars
<1> QED
  BY <1>3, <1>4, <1>5, <1>6, <1>7, <1>8, <1>9, <1>10, <1>11, <1>12, <1>13, <1>14, <1>15,
     <1>16, <1>17, <1>18, <1>19, <1>20, <1>21
  DEF Next, LoopStep, CallStep

(* A thread that sleeps in on_loop_sync has its notification still to      *)
(* come, for any number of callers and whenever the loop is stopped.       *)
THEOREM NoNotificationLost == Spec => []NotificationOwed
<1>1. Inv /\ SleepInv => NotificationOwed
  <2> SUFFICES ASSUME Inv, SleepInv, NEW c \in Callers, pc[c] = "asleep", loopPc # "notify"
               PROVE  \/ loopPc \in {"taken", "ran"} /\ current = id[c]
                      \/ /\ loopPc \in Claimed /\ sync_open = id[c]
                         /\ \E i \in 1..Len(queue) : queue[i] = id[c]
    BY DEF NotificationOwed
  <2>1. ~WaitOver(c)
    BY DEF SleepInv, Sleeps
  <2>2. loops = IF loopPc \in Claimed THEN 1 ELSE 0
    BY DEF Inv, LoopsExact
  <2>3. \/ sync_done = id[c]
        \/ sync_open = id[c] /\ \E i \in 1..Len(queue) : queue[i] = id[c]
        \/ loopPc \in {"taken", "ran"} /\ current = id[c]
    BY DEF SleepInv, Sleeps, Waiting
  <2> QED
    BY <2>1, <2>2, <2>3 DEF WaitOver
<1> QED
  BY <1>1, InitInv, NextInv, InitSleep, NextSleep, PTL DEF Spec

=============================================================================
