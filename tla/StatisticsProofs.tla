-------------------------- MODULE StatisticsProofs --------------------------
(***************************************************************************)
(* What a host reads to see how its server fares.                          *)
(* LagProbe, for any number of buckets, threads, wakes and notes: one wait *)
(* in the one slot, no counting after the one cancel(), no difference of   *)
(* snapshots below zero, activity noticed in time, and between ticks a     *)
(* histogram that adds up.                                                 *)
(* AdmissionGate, for any limit and number of threads: the limit holds,    *)
(* its counters are exact, and a refusal is near the limit.                *)
(* LagSnapshot, for any number of buckets: every lateness is in its bucket *)
(* and every quantile of any number of wakes is right to within one.       *)
(***************************************************************************)
EXTENDS LagProbe, AdmissionGate, FiniteSetTheorems, WellFoundedInduction, TLAPS

-----------------------------------------------------------------------------
(* LagProbe.                                                               *)

(* The types.                                                              *)
LEMMA InitType == ProbeInit => ProbeTypeOK
<1> SUFFICES ASSUME ProbeInit PROVE ProbeTypeOK
  OBVIOUS
<1>1. Zeros \in [Buckets -> Nat] /\ Empty \in Snapshots
  BY DEF Zeros, Empty, Snapshots
<1>2. {started, stopped, slot_used, busy, silenced} \subseteq BOOLEAN
  BY Zenon DEF ProbeInit
<1>3. taken \in Seq(Snapshots) /\ Len(taken) = 0
  BY DEF ProbeInit
<1> QED
  BY <1>1, <1>2, <1>3 DEF ProbeInit, ProbeTypeOK

(* A new wait is a wait, and cancelled waits and expired ones still are.   *)
LEMMA WaitTypes ==
    ASSUME ProbeTypeOK
    PROVE  /\ Cancelled \subseteq Waits
           /\ [state |-> "armed", inSlot |-> ~slot_used] \in Waits
           /\ \A w \in waits : [w EXCEPT !.state = "expired"] \in Waits
<1>1. \A w \in Waits : /\ [w EXCEPT !.state = "expired"] \in Waits
                       /\ [w EXCEPT !.state = "cancelled"] \in Waits
  BY DEF Waits
<1>2. (~slot_used) \in BOOLEAN
  BY Zenon DEF ProbeTypeOK
<1>3. [state |-> "armed", inSlot |-> ~slot_used] \in Waits
  BY <1>2 DEF Waits
<1> QED
  <2>1. ASSUME NEW w \in waits PROVE (IF w.state = "armed" THEN [w EXCEPT !.state = "cancelled"] ELSE w) \in Waits
    BY <1>1, Zenon DEF ProbeTypeOK
  <2> QED
    BY <1>1, <1>3, <2>1, Zenon DEF Cancelled, ProbeTypeOK

(* Every step keeps the types.                                             *)
LEMMA NextType == ProbeTypeOK /\ [ProbeNext]_probeVars => ProbeTypeOK'
<1> SUFFICES ASSUME ProbeTypeOK, [ProbeNext]_probeVars PROVE ProbeTypeOK'
  OBVIOUS
<1> USE LagProbeAssumption DEF ProbeTypeOK, TickStates, stopVars, timerVars, counters, busyVars, readVars
<1>1. CASE Start
  BY <1>1 DEF Start
<1>2. CASE StartArm
  BY <1>2, WaitTypes DEF StartArm, arm, allocate
<1>3. CASE RunCancel
  BY <1>3, WaitTypes, SMTT(30) DEF RunCancel
<1>4. ASSUME NEW w \in waits, NEW us \in Lates, Tick(w, us) PROVE ProbeTypeOK'
  <2>1. slot_used' \in BOOLEAN
    BY <1>4, Zenon DEF Tick, deallocate
  <2>2. waits' \subseteq Waits
    BY <1>4 DEF Tick, deallocate
  <2> QED
    BY <1>4, <2>1, <2>2 DEF Tick
<1>5. CASE CountBucket
  <2>1. count' = [i \in Buckets |-> IF i = index_of(late) THEN count[i] + 1 ELSE count[i]]
    BY <1>5, Zenon DEF CountBucket
  <2>2. \A i \in Buckets : count[i] \in Nat
    OBVIOUS
  <2>3. count' \in [Buckets -> Nat]
    BY <2>1, <2>2
  <2> QED
    BY <1>5, <2>3 DEF CountBucket
<1>6. CASE CountWake
  BY <1>6 DEF CountWake
<1>7. CASE AddSum
  BY <1>7 DEF AddSum
<1>8. CASE RaiseMax
  BY <1>8 DEF RaiseMax
<1>9. CASE Rearm
  <2>1. busy' \in BOOLEAN
    BY <1>9, Zenon DEF Rearm
  <2>2. waits' \subseteq Waits /\ slot_used' = TRUE
    BY <1>9, WaitTypes DEF Rearm, arm, allocate
  <2> QED
    BY <1>9, <2>1, <2>2 DEF Rearm
<1>10. CASE note_activity
  BY <1>10 DEF note_activity
<1>11. ASSUME NEW w \in waits, Expire(w) PROVE ProbeTypeOK'
  BY <1>11, WaitTypes, SMTT(30) DEF Expire
<1>12. ASSUME NEW t \in Stoppers, StopTest(t) PROVE ProbeTypeOK'
  BY <1>12 DEF StopTest
<1>13. ASSUME NEW t \in Stoppers, StopExchange(t) PROVE ProbeTypeOK'
  BY <1>13 DEF StopExchange
<1>14. ASSUME NEW t \in Stoppers, StopPost(t) PROVE ProbeTypeOK'
  BY <1>14 DEF StopPost
<1>15. CASE ReadBuckets
  <2>1. [snap EXCEPT !.count = count] \in Snapshots
    BY Zenon DEF Snapshots
  <2> QED
    BY <1>15, <2>1 DEF ReadBuckets
<1>16. CASE ReadTotal
  <2>1. snap' \in Snapshots
    <3>1. /\ [snap EXCEPT !.wakes = wakes] \in Snapshots
          /\ [snap EXCEPT !.sum_us = sum_us] \in Snapshots
          /\ [snap EXCEPT !.max_us = max_us] \in Snapshots
      BY Zenon DEF Snapshots
    <3> QED
      BY <1>16, <3>1, Zenon DEF ReadTotal
  <2>2. reader' \in 0..4
    BY <1>16 DEF ReadTotal
  <2> QED
    BY <1>16, <2>1, <2>2 DEF ReadTotal
<1>17. CASE ReturnSnapshot
  <2>1. Empty \in Snapshots
    BY DEF Empty, Zeros, Snapshots
  <2>2. taken' \in Seq(Snapshots) /\ Len(taken') = Len(taken) + 1
    BY <1>17, SMTT(30) DEF ReturnSnapshot
  <2> QED
    BY <1>17, <2>1, <2>2, SMTT(30) DEF ReturnSnapshot
<1>18. CASE UNCHANGED probeVars
  BY <1>18 DEF probeVars
<1> QED
  BY <1>1, <1>2, <1>3, <1>4, <1>5, <1>6, <1>7, <1>8, <1>9, <1>10, <1>11, <1>12, <1>13, <1>14, <1>15, <1>16, <1>17, <1>18, Zenon DEF ProbeNext, LoopStep, Stop

-----------------------------------------------------------------------------
(* The wait.  While start() or tick() runs there is none; a cancelled one  *)
(* means that stop() was called, as does everything that leads to the      *)
(* cancel(); and after it the loop has nothing more to do.                 *)
WaitInv ==
    /\ \A w \in waits : w.inSlot
    /\ \A w \in waits : w.state = "cancelled" => stopped
    /\ \A v, w \in waits : v = w
    /\ slot_used <=> waits # {}
    /\ started /\ ~stopped /\ loop = "idle" => waits # {}
    /\ loop # "idle" => started /\ waits = {}
    /\ ~started => waits = {}
    /\ \A t \in Stoppers : /\ stopPc[t] # "idle" => started
                           /\ stopPc[t] = "post" => stopped
    /\ cancels > 0 \/ silenced => stopped
    /\ stopped => started
    /\ silenced => loop = "idle"

(* Nothing has been started.                                               *)
LEMMA InitWait == ProbeInit => WaitInv
  BY DEF ProbeInit, WaitInv

(* Without a wait, arm makes one, in the slot.                             *)
LEMMA ArmMakesOne ==
    ASSUME ProbeTypeOK, WaitInv, waits = {}, arm
    PROVE  waits' = {[state |-> "armed", inSlot |-> TRUE]} /\ slot_used'
<1>1. Cancelled = {}
  BY DEF Cancelled
<1>2. (~slot_used) = TRUE
  BY Zenon DEF WaitInv
<1> QED
  BY <1>1, <1>2, Zenon DEF arm, allocate

(* Every step keeps what is said of the wait.                              *)
LEMMA NextWait == ProbeTypeOK /\ WaitInv /\ [ProbeNext]_probeVars => WaitInv'
<1> SUFFICES ASSUME ProbeTypeOK, WaitInv, [ProbeNext]_probeVars PROVE WaitInv'
  OBVIOUS
<1> USE DEF ProbeTypeOK, WaitInv, stopVars, timerVars
<1>1. CASE Start
  BY <1>1, SMTT(30) DEF Start
<1>2. CASE StartArm
  <2>1. waits = {} /\ arm
    BY <1>2 DEF StartArm
  <2>2. waits' = {[state |-> "armed", inSlot |-> TRUE]} /\ slot_used'
    BY <2>1, ArmMakesOne, SMTT(30)
  <2> QED
    BY <1>2, <2>2 DEF StartArm
<1>3. CASE RunCancel
  <2>1. \A w \in waits' : w.inSlot
    BY <1>3, SMTT(30) DEF RunCancel, Cancelled, Waits
  <2>2. ASSUME NEW v \in waits', NEW w \in waits' PROVE v = w
    <3>1. waits' = Cancelled
      BY <1>3 DEF RunCancel
    <3>2. PICK a \in waits : v = IF a.state = "armed" THEN [a EXCEPT !.state = "cancelled"] ELSE a
      BY <3>1 DEF Cancelled
    <3>3. PICK b \in waits : w = IF b.state = "armed" THEN [b EXCEPT !.state = "cancelled"] ELSE b
      BY <3>1 DEF Cancelled
    <3>4. a = b
      OBVIOUS
    <3> QED
      BY <3>2, <3>3, <3>4
  <2>3. waits' = {} <=> waits = {}
    <3>1. waits' = Cancelled
      BY <1>3 DEF RunCancel
    <3>2. \A w \in waits : (IF w.state = "armed" THEN [w EXCEPT !.state = "cancelled"] ELSE w) \in Cancelled
      BY Zenon DEF Cancelled
    <3>3. waits = {} => Cancelled = {}
      BY DEF Cancelled
    <3> QED
      BY <3>1, <3>2, <3>3, Zenon
  <2>4. stopped
    BY <1>3 DEF RunCancel
  <2> QED
    BY <1>3, <2>1, <2>2, <2>3, <2>4 DEF RunCancel
<1>4. ASSUME NEW w \in waits, NEW us \in Lates, Tick(w, us) PROVE WaitInv'
  <2>1. waits' = {}
    BY <1>4 DEF Tick, deallocate
  <2>2. ~slot_used'
    BY <1>4, Zenon DEF Tick, deallocate
  <2>3. loop' = "idle" => stopped
    BY <1>4 DEF Tick
  <2> QED
    BY <1>4, <2>1, <2>2, <2>3, SMTT(30) DEF Tick
<1>5. CASE CountBucket
  BY <1>5, SMTT(30) DEF CountBucket
<1>6. CASE CountWake
  BY <1>6 DEF CountWake
<1>7. CASE AddSum
  BY <1>7, SMTT(30) DEF AddSum
<1>8. CASE RaiseMax
  BY <1>8, SMTT(30) DEF RaiseMax
<1>9. CASE Rearm
  <2>1. waits = {} /\ arm
    BY <1>9, SMTT(30) DEF Rearm
  <2>2. waits' = {[state |-> "armed", inSlot |-> TRUE]} /\ slot_used'
    BY <2>1, ArmMakesOne
  <2> QED
    BY <1>9, <2>2 DEF Rearm
<1>10. CASE note_activity
  BY <1>10 DEF note_activity
<1>11. ASSUME NEW w \in waits, Expire(w) PROVE WaitInv'
  <2>1. waits' = {[w EXCEPT !.state = "expired"]}
    BY <1>11 DEF Expire
  <2>2. [w EXCEPT !.state = "expired"].inSlot /\ [w EXCEPT !.state = "expired"].state = "expired"
    BY SMTT(30) DEF Waits
  <2> QED
    BY <1>11, <2>1, <2>2, Zenon DEF Expire
<1>12. ASSUME NEW t \in Stoppers, StopTest(t) PROVE WaitInv'
  BY <1>12, SMTT(30) DEF StopTest
<1>13. ASSUME NEW t \in Stoppers, StopExchange(t) PROVE WaitInv'
  BY <1>13, SMTT(30) DEF StopExchange
<1>14. ASSUME NEW t \in Stoppers, StopPost(t) PROVE WaitInv'
  BY <1>14 DEF StopPost
<1>15. CASE ReadBuckets \/ ReadTotal \/ ReturnSnapshot
  BY <1>15 DEF ReadBuckets, ReadTotal, ReturnSnapshot
<1>16. CASE UNCHANGED probeVars
  BY <1>16 DEF probeVars
<1> QED
  BY <1>1, <1>2, <1>3, <1>4, <1>5, <1>6, <1>7, <1>8, <1>9, <1>10, <1>11, <1>12, <1>13, <1>14, ZenonT(30),
     <1>15, <1>16 DEF ProbeNext, LoopStep, Stop

(* The probe has one wait, in its slot: it never allocates and never wakes *)
(* twice over, for any number of threads that stop it.                     *)
THEOREM WaitsInItsSlot == ProbeSpec => []OneWait
<1>1. ProbeTypeOK /\ WaitInv => OneWait
  <2> SUFFICES ASSUME ProbeTypeOK, WaitInv PROVE OneWait
    OBVIOUS
  <2>1. slot_used = (waits # {})
    BY Zenon DEF ProbeTypeOK, WaitInv
  <2>2. started /\ ~stopped => (waits # {}) = (loop = "idle")
    BY DEF WaitInv
  <2> QED
    BY <2>1, <2>2 DEF OneWait, WaitInv
<1> QED
  BY <1>1, InitType, NextType, InitWait, NextWait, PTL DEF ProbeSpec

(* A tick that has counted its wake and not armed the next wait.           *)
Counted == loop \in {"sum", "max", "rearm"}

SameActivity == UNCHANGED <<busyVars, wakes>> /\ (Counted' <=> Counted)

(* Which actions change the counters, the readings of them, and what       *)
(* activity is compared with.                                              *)
LEMMA Footprints ==
    ASSUME [ProbeNext]_probeVars
    PROVE  /\ CountBucket \/ CountWake \/ AddSum \/ RaiseMax \/ UNCHANGED counters
           /\ ReadBuckets \/ ReadTotal \/ ReturnSnapshot \/ UNCHANGED readVars
           /\ CountWake \/ Rearm \/ note_activity \/ SameActivity
<1> USE DEF counters, readVars, busyVars, Counted, SameActivity
<1>1. Start => UNCHANGED counters /\ UNCHANGED readVars /\ SameActivity
  BY DEF Start
<1>2. StartArm => UNCHANGED counters /\ UNCHANGED readVars /\ SameActivity
  BY DEF StartArm
<1>3. RunCancel => UNCHANGED counters /\ UNCHANGED readVars /\ SameActivity
  BY DEF RunCancel
<1>4. \A w \in waits, us \in Lates : Tick(w, us) => UNCHANGED counters /\ UNCHANGED readVars /\ SameActivity
  BY DEF Tick
<1>5. \A w \in waits : Expire(w) => UNCHANGED counters /\ UNCHANGED readVars /\ SameActivity
  BY DEF Expire
<1>6. \A t \in Stoppers : StopTest(t) => UNCHANGED counters /\ UNCHANGED readVars /\ SameActivity
  BY DEF StopTest
<1>7. \A t \in Stoppers : StopExchange(t) => UNCHANGED counters /\ UNCHANGED readVars /\ SameActivity
  BY DEF StopExchange
<1>8. \A t \in Stoppers : StopPost(t) => UNCHANGED counters /\ UNCHANGED readVars /\ SameActivity
  BY DEF StopPost
<1>9. CountBucket => UNCHANGED readVars /\ SameActivity
  BY DEF CountBucket
<1>10. AddSum => UNCHANGED readVars /\ SameActivity
  BY DEF AddSum
<1>11. RaiseMax => UNCHANGED readVars /\ SameActivity
  BY DEF RaiseMax
<1>12. CountWake => UNCHANGED readVars
  BY DEF CountWake
<1>13. Rearm => UNCHANGED counters /\ UNCHANGED readVars
  BY DEF Rearm
<1>14. note_activity => UNCHANGED counters /\ UNCHANGED readVars
  BY DEF note_activity
<1>15. ReadBuckets => UNCHANGED counters /\ SameActivity
  BY DEF ReadBuckets
<1>16. ReadTotal => UNCHANGED counters /\ SameActivity
  BY DEF ReadTotal
<1>17. ReturnSnapshot => UNCHANGED counters /\ SameActivity
  BY DEF ReturnSnapshot
<1>18. UNCHANGED probeVars => UNCHANGED counters /\ UNCHANGED readVars /\ SameActivity
  BY DEF probeVars
<1> HIDE DEF counters, readVars, busyVars, Counted, SameActivity
<1> QED
  BY <1>1, <1>2, <1>3, <1>4, <1>5, <1>6, <1>7, <1>8, <1>9, <1>10, <1>11, <1>12, <1>13,
     <1>14, <1>15, <1>16, <1>17, <1>18, Zenon DEF ProbeNext, LoopStep, Stop

(* Once the cancel() of stop() has run no counter changes.                 *)
THEOREM CancelEndsCounting == ProbeSpec => [][CancelIsLast]_probeVars
<1>1. ProbeTypeOK /\ WaitInv /\ [ProbeNext]_probeVars => [CancelIsLast]_probeVars
  <2> SUFFICES ASSUME WaitInv, [ProbeNext]_probeVars PROVE CancelIsLast
    OBVIOUS
  <2>1. CountBucket \/ CountWake \/ AddSum \/ RaiseMax => ~silenced
    BY SMTT(30) DEF WaitInv, CountBucket, CountWake, AddSum, RaiseMax
  <2> QED
    BY <2>1, Footprints, Zenon DEF CancelIsLast
<1> QED
  BY <1>1, InitType, NextType, InitWait, NextWait, PTL DEF ProbeSpec

(* Every step keeps what is said of the cancel().                          *)
LEMMA NextCancel ==
    ProbeTypeOK /\ WaitInv /\ OneCancel /\ [ProbeNext]_probeVars => OneCancel'
<1> SUFFICES ASSUME ProbeTypeOK, WaitInv, OneCancel, [ProbeNext]_probeVars PROVE OneCancel'
  OBVIOUS
<1> USE DEF OneCancel, stopVars, timerVars
<1>1. CASE Start
  BY <1>1, SMTT(30) DEF Start, WaitInv
<1>2. CASE StartArm \/ Rearm
  <2>1. loop # "idle" /\ UNCHANGED stopVars
    BY <1>2, Zenon DEF StartArm, Rearm
  <2> QED
    BY <2>1, Zenon
<1>3. CASE RunCancel
  <2>1. \A w \in waits' : w.state # "armed"
    BY <1>3, SMTT(30) DEF RunCancel, Cancelled, ProbeTypeOK, Waits
  <2> QED
    BY <1>3, <2>1, SMTT(30) DEF RunCancel, ProbeTypeOK
<1>4. ASSUME NEW w \in waits, NEW us \in Lates, Tick(w, us) PROVE OneCancel'
  <2>1. waits' \subseteq waits
    BY <1>4 DEF Tick, deallocate
  <2>2. silenced => loop' = "idle"
    BY <1>4, SMTT(30) DEF Tick, WaitInv
  <2> QED
    BY <1>4, <2>1, <2>2, SMTT(30) DEF Tick
<1>5. CASE CountBucket \/ CountWake \/ AddSum \/ RaiseMax
  BY <1>5, SMTT(30) DEF CountBucket, CountWake, AddSum, RaiseMax
<1>6. ASSUME NEW w \in waits, Expire(w) PROVE OneCancel'
  BY <1>6, SMTT(30) DEF Expire
<1>7. ASSUME NEW t \in Stoppers, StopTest(t) PROVE OneCancel'
  BY <1>7, SMTT(30) DEF StopTest, ProbeTypeOK
<1>8. ASSUME NEW t \in Stoppers, StopExchange(t) PROVE OneCancel'
  BY <1>8, SMTT(30) DEF StopExchange, ProbeTypeOK, WaitInv
<1>9. ASSUME NEW t \in Stoppers, StopPost(t) PROVE OneCancel'
  BY <1>9, SMTT(30) DEF StopPost, ProbeTypeOK, WaitInv
<1>10. CASE note_activity \/ ReadBuckets \/ ReadTotal \/ ReturnSnapshot \/ UNCHANGED probeVars
  BY <1>10, SMTT(30) DEF note_activity, ReadBuckets, ReadTotal, ReturnSnapshot, probeVars
<1> QED
  BY <1>1, <1>2, <1>3, <1>4, <1>5, <1>6, <1>7, <1>8, <1>9, <1>10, ZenonT(30)
     DEF ProbeNext, LoopStep, Stop

(* However many threads call stop() there is one cancel(), and after it    *)
(* nothing is armed.                                                       *)
THEOREM CancelIsSingle == ProbeSpec => []OneCancel
<1>1. ProbeInit => OneCancel
  BY SMTT(30) DEF ProbeInit, OneCancel
<1> QED
  BY <1>1, InitType, NextType, InitWait, NextWait, NextCancel, PTL DEF ProbeSpec
-----------------------------------------------------------------------------
(* The snapshots.  Counters only grow, so what snapshot() has read of one  *)
(* lies between the earlier snapshot and the counter.                      *)
CountLeq(f, g) == \A i \in Buckets : f[i] <= g[i]

(* The first n readings of s, in the order of snapshot(), are at most t's. *)
Leq(s, t, n) ==
    /\ n >= 1 => CountLeq(s.count, t.count)
    /\ n >= 2 => s.wakes <= t.wakes
    /\ n >= 3 => s.sum_us <= t.sum_us
    /\ n >= 4 => s.max_us <= t.max_us

Now == [count |-> count, wakes |-> wakes, sum_us |-> sum_us, max_us |-> max_us]

ReadInv ==
    /\ Leq(snap, Now, reader)
    /\ Len(taken) = 1 => Leq(taken[1], Now, 4) /\ Leq(taken[1], snap, reader)
    /\ Len(taken) = 2 => Leq(taken[1], taken[2], 4)

(* Nothing has been read.                                                  *)
LEMMA InitRead == ProbeInit => ReadInv
  BY DEF ProbeInit, ReadInv, Leq

(* Every step leaves each counter as it is or raises it.                   *)
LEMMA CountersGrow ==
    ASSUME ProbeTypeOK, [ProbeNext]_probeVars
    PROVE  Now \in Snapshots /\ Now' \in Snapshots /\ Leq(Now, Now', 4)
<1>1. ProbeTypeOK'
  BY NextType
<1>2. Now \in Snapshots /\ Now' \in Snapshots
  BY <1>1, ZenonT(30) DEF ProbeTypeOK, Now, Snapshots
<1>3. count \in [Buckets -> Nat] /\ {wakes, sum_us, max_us, late} \subseteq Nat
  BY LagProbeAssumption DEF ProbeTypeOK
<1>4. CountLeq(count, count)
  BY <1>3 DEF CountLeq
<1> DEFINE Grown == CountLeq(count, count') /\ wakes <= wakes' /\ sum_us <= sum_us' /\ max_us <= max_us'
<1> SUFFICES Grown
  BY <1>2 DEF Leq, Now
<1>5. CASE CountBucket
  <2>1. count' = [i \in Buckets |-> IF i = index_of(late) THEN count[i] + 1 ELSE count[i]]
    BY <1>5, <1>3, Zenon DEF CountBucket
  <2>2. CountLeq(count, count')
    BY <2>1, <1>3 DEF CountLeq
  <2>3. UNCHANGED <<wakes, sum_us, max_us>>
    BY <1>5, Zenon DEF CountBucket
  <2> QED
    BY <1>3, <2>2, <2>3
<1>6. CASE CountWake
  <2>1. wakes' = wakes + 1 /\ UNCHANGED <<count, sum_us, max_us>>
    BY <1>6, Zenon DEF CountWake
  <2> QED
    BY <1>3, <1>4, <2>1
<1>7. CASE AddSum
  <2>1. sum_us' = sum_us + late /\ UNCHANGED <<count, wakes, max_us>>
    BY <1>7, Zenon DEF AddSum
  <2> QED
    BY <1>3, <1>4, <2>1
<1>8. CASE RaiseMax
  <2>1. (max_us' = IF late > max_us THEN late ELSE max_us) /\ UNCHANGED <<count, wakes, sum_us>>
    BY <1>8, Zenon DEF RaiseMax
  <2> QED
    BY <1>3, <1>4, <2>1
<1>9. CASE UNCHANGED counters
  <2>1. UNCHANGED <<count, wakes, sum_us, max_us>>
    BY <1>9, Zenon DEF counters
  <2> QED
    BY <1>3, <1>4, <2>1
<1> QED
  BY <1>5, <1>6, <1>7, <1>8, <1>9, Footprints, Zenon

(* Leq is transitive.                                                      *)
LEMMA LeqTransitive ==
    ASSUME NEW r \in Snapshots, NEW s \in Snapshots, NEW t \in Snapshots, NEW n \in 0..4,
           Leq(r, s, n), Leq(s, t, 4)
    PROVE  Leq(r, t, n)
<1>1. n >= 1 => CountLeq(r.count, t.count)
  BY DEF Leq, CountLeq, Snapshots
<1> QED
  BY <1>1 DEF Leq, Snapshots

(* Every step keeps what is said of the readings.                          *)
LEMMA NextRead == ProbeTypeOK /\ ReadInv /\ [ProbeNext]_probeVars => ReadInv'
<1> SUFFICES ASSUME ProbeTypeOK, ReadInv, [ProbeNext]_probeVars PROVE ReadInv'
  OBVIOUS
<1>1. Now \in Snapshots /\ Now' \in Snapshots /\ Leq(Now, Now', 4)
  BY CountersGrow
<1>2. /\ snap \in Snapshots /\ reader \in 0..4
      /\ taken \in Seq(Snapshots) /\ Len(taken) \in Nat /\ Len(taken) <= 2
      /\ reader # 0 => Len(taken) < 2
  <2>1. snap \in Snapshots /\ reader \in 0..4 /\ taken \in Seq(Snapshots)
    BY DEF ProbeTypeOK
  <2>2. Len(taken) \in Nat /\ Len(taken) <= 2
    BY <2>1 DEF ProbeTypeOK
  <2>3. reader # 0 => Len(taken) < 2
    BY <2>1 DEF ProbeTypeOK
  <2> QED
    BY <2>1, <2>2, <2>3, Zenon
<1>3. Len(taken) = 1 => taken[1] \in Snapshots
  BY <1>2
<1>4. Leq(snap, Now', reader) /\ (Len(taken) = 1 => Leq(taken[1], Now', 4))
  BY <1>1, <1>2, <1>3, LeqTransitive DEF ReadInv
<1>5. CASE UNCHANGED readVars
  BY <1>4, <1>5 DEF readVars, ReadInv
<1>6. CASE ReadBuckets
  <2>1. /\ snap' = [snap EXCEPT !.count = count] /\ reader' = 1 /\ taken' = taken
        /\ count' = count /\ Len(taken) < 2
    BY <1>6 DEF ReadBuckets, counters
  <2>2. snap'.count = count
    BY <1>2, <2>1 DEF Snapshots
  <2>3. CountLeq(count, count)
    BY DEF CountLeq, ProbeTypeOK
  <2>4. Leq(snap', Now', 1)
    BY <2>1, <2>2, <2>3, SMTT(30) DEF Leq, Now
  <2>5. Len(taken) = 1 => Leq(taken[1], snap', 1)
    BY <2>2 DEF Leq, Now, ReadInv
  <2> QED
    BY <1>4, <2>1, <2>4, <2>5 DEF ReadInv
<1>7. CASE ReadTotal
  <2>1. taken' = taken /\ Now' = Now /\ reader' = reader + 1 /\ reader \in 1..3
    BY <1>7 DEF ReadTotal, counters, Now
  <2>2. /\ snap'.count = snap.count
        /\ reader = 1 => snap'.wakes = wakes
        /\ reader \in {2, 3} => snap'.wakes = snap.wakes
        /\ reader = 2 => snap'.sum_us = sum_us
        /\ reader = 3 => snap'.sum_us = snap.sum_us /\ snap'.max_us = max_us
    BY <1>2, <1>7 DEF ReadTotal, Snapshots
  <2>3. /\ Now.count = count /\ Now.wakes = wakes /\ Now.sum_us = sum_us /\ Now.max_us = max_us
        /\ wakes \in Nat /\ sum_us \in Nat /\ max_us \in Nat
    BY DEF Now, ProbeTypeOK
  <2>4. Leq(snap', Now, reader + 1)
    <3>1. Leq(snap, Now, reader)
      BY ZenonT(30) DEF ReadInv
    <3> QED
      BY <2>1, <2>2, <2>3, <3>1 DEF Leq
  <2>5. ASSUME Len(taken) = 1 PROVE Leq(taken[1], snap', reader + 1)
    <3>1. Leq(taken[1], Now, 4) /\ Leq(taken[1], snap, reader)
      BY <2>5, Zenon DEF ReadInv
    <3> QED
      BY <2>1, <2>2, <2>3, <3>1 DEF Leq
  <2> QED
    <3>1. Len(taken') # 2
      BY <1>2, <2>1, SMTT(30)
    <3>2. Leq(snap', Now', reader')
      BY <2>1, <2>4, Zenon
    <3>3. Len(taken') = 1 => Leq(taken'[1], Now', 4) /\ Leq(taken'[1], snap', reader')
      BY <1>4, <2>1, <2>5, Zenon
    <3> QED
      BY <3>1, <3>2, <3>3, Zenon DEF ReadInv
<1>8. CASE ReturnSnapshot
  <2>1. taken' = Append(taken, snap) /\ reader' = 0 /\ reader = 4
    BY <1>8 DEF ReturnSnapshot
  <2>2. Leq(snap', Now', 0)
    BY DEF Leq
  <2>3. CASE Len(taken) = 0
    <3>1. Len(taken') = 1 /\ taken'[1] = snap
      BY <1>2, <2>1, <2>3
    <3>2. Leq(taken'[1], Now', 4)
      BY <1>4, <2>1, <3>1, Zenon
    <3>3. Leq(taken'[1], snap', 0)
      BY DEF Leq
    <3> QED
      BY <2>1, <2>2, <3>1, <3>2, <3>3 DEF ReadInv
  <2>4. CASE Len(taken) = 1
    <3>1. Len(taken') = 2 /\ taken'[1] = taken[1] /\ taken'[2] = snap
      <4>1. /\ Len(Append(taken, snap)) = Len(taken) + 1
            /\ Append(taken, snap)[Len(taken) + 1] = snap
            /\ \A i \in 1 .. Len(taken) : Append(taken, snap)[i] = taken[i]
        BY <1>2
      <4> QED
        BY <2>1, <2>4, <4>1
    <3>2. Leq(taken'[1], taken'[2], 4)
      BY <2>1, <2>4, <3>1, Zenon DEF ReadInv
    <3> QED
      BY <2>1, <2>2, <3>1, <3>2 DEF ReadInv
  <2>5. Len(taken) = 0 \/ Len(taken) = 1
    <3>1. Len(taken) < 2 /\ Len(taken) \in Nat
      BY <1>2, <2>1
    <3>2. \A n \in Nat : n < 2 => n = 0 \/ n = 1
      BY SMTT(30)
    <3> QED
      BY <3>1, <3>2, Zenon
  <2> QED
    BY <2>3, <2>4, <2>5
<1> QED
  BY <1>5, <1>6, <1>7, <1>8, Footprints, Zenon

(* The difference of two snapshots never wraps, whatever ticks go on while *)
(* they are read and however many buckets there are.                       *)
THEOREM DifferencesNeverWrap == ProbeSpec => []SinceNeverWraps
<1>1. ProbeTypeOK /\ ReadInv => SinceNeverWraps
  <2> SUFFICES ASSUME ProbeTypeOK, ReadInv, Len(taken) = 2 PROVE SinceNeverWraps
    BY DEF SinceNeverWraps
  <2>1. taken[1] \in Snapshots /\ taken[2] \in Snapshots
    <3>1. taken \in Seq(Snapshots)
      BY DEF ProbeTypeOK
    <3> QED
      BY <3>1
  <2>2. Leq(taken[1], taken[2], 4)
    BY SMTT(30) DEF ReadInv
  <2>3. \A i \in Buckets : taken[2].count[i] - taken[1].count[i] >= 0
    BY <2>1, <2>2 DEF Leq, CountLeq, Snapshots
  <2> QED
    BY <2>1, <2>2, <2>3, SMTT(30) DEF SinceNeverWraps, since, Leq, Snapshots
<1> QED
  BY <1>1, InitType, NextType, InitRead, NextRead, PTL DEF ProbeSpec

-----------------------------------------------------------------------------
(* Activity.  While there is some that no tick has seen, the wake that has *)
(* to see it is the one in progress if that has counted itself, and the    *)
(* next one otherwise; once it has been seen that wake is past, or it was  *)
(* the latest and armed the timer at the busy interval.                    *)
ActivityInv ==
    /\ last_activity <= activity
    /\ last_activity < activity => dueWake = IF Counted THEN wakes ELSE wakes + 1
    /\ last_activity = activity /\ activity > 0 =>
        dueWake < wakes \/ (dueWake = wakes /\ busy /\ ~Counted)

(* There has been none.                                                    *)
LEMMA InitActivity == ProbeInit => ActivityInv
  BY DEF ProbeInit, ActivityInv, Counted

(* Every step keeps what is said of activity.                              *)
LEMMA NextActivity == ProbeTypeOK /\ ActivityInv /\ [ProbeNext]_probeVars => ActivityInv'
<1> SUFFICES ASSUME ProbeTypeOK, ActivityInv, [ProbeNext]_probeVars PROVE ActivityInv'
  OBVIOUS
<1>1. activity \in Nat /\ last_activity \in Nat /\ dueWake \in Nat /\ wakes \in Nat
  BY DEF ProbeTypeOK
<1> USE <1>1 DEF ActivityInv, Counted, busyVars
<1>2. CASE UNCHANGED <<busyVars, wakes>> /\ (Counted' <=> Counted)
  BY <1>2
<1>3. CASE CountWake
  BY <1>3 DEF CountWake
<1>4. CASE Rearm
  <2>1. /\ last_activity' = activity /\ UNCHANGED <<activity, dueWake, wakes>>
        /\ Counted /\ ~Counted'
    BY <1>4 DEF Rearm, counters
  <2>2. CASE last_activity < activity
    <3>1. activity # last_activity /\ dueWake = wakes
      BY <2>1, <2>2
    <3>2. busy'
      BY <1>4, <3>1, Zenon DEF Rearm
    <3> QED
      BY <2>1, <3>1, <3>2
  <2>3. CASE last_activity = activity
    BY <2>1, <2>3
  <2> QED
    BY <2>2, <2>3
<1>5. CASE note_activity
  BY <1>5, SMTT(30) DEF note_activity, counters
<1> QED
  BY <1>2, <1>3, <1>4, <1>5, Footprints, Zenon DEF SameActivity

(* Activity is noticed by the wake in progress or the next one, however    *)
(* often and wherever in a tick it happens.                                *)
THEOREM ActivityIsNoticed == ProbeSpec => []ActivityNoticed
<1>1. ProbeTypeOK /\ ActivityInv => ActivityNoticed
  BY DEF ProbeTypeOK, ActivityInv, ActivityNoticed, Counted
<1> QED
  BY <1>1, InitType, NextType, InitActivity, NextActivity, PTL DEF ProbeSpec

-----------------------------------------------------------------------------
(* AdmissionGate.                                                          *)

(* The limit is not inductive alone: that inflight counts at least what is *)
(* out is what makes its test sound.                                       *)
GateInv == GateTypeOK /\ InflightExact /\ RejectedExact /\ OutWithinLimit

(* The cardinalities are numbers.                                          *)
LEMMA Finite ==
  ASSUME GateTypeOK
  PROVE  /\ IsFiniteSet(held) /\ Cardinality(held) \in Nat
         /\ IsFiniteSet(Admitted) /\ Cardinality(Admitted) \in Nat
         /\ IsFiniteSet(Undoing) /\ Cardinality(Undoing) \in Nat
         /\ IsFiniteSet(Counting) /\ Cardinality(Counting) \in Nat
         /\ Out \in Nat
<1>1. held \in SUBSET Leases
  BY DEF GateTypeOK
<1>2. Admitted \in SUBSET Threads /\ Undoing \in SUBSET Threads /\ Counting \in SUBSET Threads
  BY DEF Admitted, Undoing, Counting
<1>3. /\ IsFiniteSet(held) /\ Cardinality(held) \in Nat
      /\ IsFiniteSet(Admitted) /\ Cardinality(Admitted) \in Nat
      /\ IsFiniteSet(Undoing) /\ Cardinality(Undoing) \in Nat
      /\ IsFiniteSet(Counting) /\ Cardinality(Counting) \in Nat
  BY <1>1, <1>2, GateAssumption, FS_Subset, FS_CardinalityType
<1> QED
  BY <1>3 DEF Out

(* The leases out after a move assignment: what g held has left, also when *)
(* g is moved onto itself.                                                 *)
LEMMA MovedLeases ==
  ASSUME GateTypeOK, NEW h \in Leases, NEW g \in Leases, MoveAssign(h, g)
  PROVE  Cardinality(held') = IF g \in held THEN Cardinality(held) - 1 ELSE Cardinality(held)
<1> DEFINE left == held \ {g}
<1>1. /\ IsFiniteSet(left)
      /\ Cardinality(left) = IF g \in held THEN Cardinality(held) - 1 ELSE Cardinality(held)
  BY Finite, FS_RemoveElement, Zenon
<1>2. CASE h \notin left
  BY <1>1, <1>2 DEF MoveAssign
<1>3. CASE h \in left
  <2>1. IsFiniteSet(left \ {h}) /\ Cardinality(left \ {h}) = Cardinality(left) - 1
    BY <1>1, <1>3, FS_RemoveElement
  <2>2. g \notin left \ {h}
    OBVIOUS
  <2>3. Cardinality((left \ {h}) \cup {g}) = Cardinality(left \ {h}) + 1
    BY <2>1, <2>2, FS_AddElement
  <2>4. held' = (left \ {h}) \cup {g}
    BY <1>3 DEF MoveAssign
  <2>5. Cardinality(left) \in Nat
    BY <1>1, FS_CardinalityType
  <2> QED
    BY <1>1, <2>1, <2>3, <2>4, <2>5
<1> QED
  BY <1>2, <1>3

(* Initially nothing is in flight.                                         *)
LEMMA GateInitInv == GateInit => GateInv
<1> SUFFICES ASSUME GateInit PROVE GateInv
  OBVIOUS
<1>1. GateTypeOK
  BY GateAssumption DEF GateInit, GateTypeOK
<1>2. held = {} /\ Admitted = {} /\ Undoing = {} /\ Counting = {}
  BY DEF GateInit, Admitted, Undoing, Counting
<1>3. Out = 0
  BY <1>2, FS_EmptySet DEF Out
<1> QED
  BY <1>1, <1>2, <1>3, FS_EmptySet, GateAssumption
  DEF GateInit, GateInv, GateTypeOK, InflightExact, RejectedExact, OutWithinLimit

(* Every step keeps the invariant.                                         *)
LEMMA GateNextInv == GateInv /\ [GateNext]_gateVars => GateInv'
<1> SUFFICES ASSUME GateInv, [GateNext]_gateVars PROVE GateInv'
  OBVIOUS
<1> USE GateAssumption, Finite DEF GateInv
<1>1. ASSUME NEW t \in Threads, CountItself(t) PROVE GateInv'
  <2>1. GateTypeOK'
    BY <1>1 DEF CountItself, GateTypeOK
  <2>2. CASE inflight >= limit /\ limit > 0
    <3>1. /\ Admitted' = Admitted
          /\ Undoing' = Undoing \cup {t} /\ t \notin Undoing
          /\ Counting' = Counting \cup {t} /\ t \notin Counting
      BY <1>1, <2>2 DEF CountItself, GateTypeOK, Admitted, Undoing, Counting
    <3>2. /\ Cardinality(Undoing') = Cardinality(Undoing) + 1
          /\ Cardinality(Counting') = Cardinality(Counting) + 1
      BY <3>1, FS_AddElement, Zenon
    <3>3. Out' = Out
      BY <1>1, <3>1 DEF CountItself, Out
    <3> QED
      BY <1>1, <2>1, <2>2, <3>2, <3>3
      DEF CountItself, GateTypeOK, InflightExact, RejectedExact, OutWithinLimit
  <2>3. CASE ~(inflight >= limit /\ limit > 0)
    <3>1. /\ Admitted' = Admitted \cup {t} /\ t \notin Admitted
          /\ Undoing' = Undoing /\ Counting' = Counting
      BY <1>1, <2>3 DEF CountItself, GateTypeOK, Admitted, Undoing, Counting
    <3>2. Cardinality(Admitted') = Cardinality(Admitted) + 1
      BY <3>1, FS_AddElement, Zenon
    <3>3. Out' = Out + 1
      BY <1>1, <3>2 DEF CountItself, Out
    <3> QED
      BY <1>1, <2>1, <2>3, <3>1, <3>3
      DEF CountItself, GateTypeOK, InflightExact, RejectedExact, OutWithinLimit
  <2> QED
    BY <2>2, <2>3
<1>2. ASSUME NEW t \in Threads, TakeBack(t) PROVE GateInv'
  <2>1. /\ Admitted' = Admitted /\ Counting' = Counting
        /\ Undoing' = Undoing \ {t} /\ t \in Undoing
    BY <1>2 DEF TakeBack, GateTypeOK, Admitted, Undoing, Counting
  <2>2. Cardinality(Undoing') = Cardinality(Undoing) - 1
    BY <2>1, FS_RemoveElement, Zenon
  <2>3. Cardinality(Undoing) # 0
    BY <2>1, FS_EmptySet
  <2>4. Out' = Out
    BY <1>2, <2>1 DEF TakeBack, Out
  <2>5. GateTypeOK'
    BY <1>2, <2>3 DEF TakeBack, GateTypeOK, InflightExact
  <2> QED
    BY <1>2, <2>1, <2>2, <2>4, <2>5
    DEF TakeBack, GateTypeOK, InflightExact, RejectedExact, OutWithinLimit
<1>3. ASSUME NEW t \in Threads, CountRejected(t) PROVE GateInv'
  <2>1. GateTypeOK'
    BY <1>3 DEF CountRejected, GateTypeOK
  <2>2. /\ Admitted' = Admitted /\ Undoing' = Undoing
        /\ Counting' = Counting \ {t} /\ t \in Counting
    BY <1>3 DEF CountRejected, GateTypeOK, Admitted, Undoing, Counting
  <2>3. Cardinality(Counting') = Cardinality(Counting) - 1
    BY <2>2, FS_RemoveElement, Zenon
  <2>4. Out' = Out
    BY <1>3, <2>2 DEF CountRejected, Out
  <2> QED
    BY <1>3, <2>1, <2>2, <2>3, <2>4
    DEF CountRejected, GateTypeOK, InflightExact, RejectedExact, OutWithinLimit
<1>4. ASSUME NEW t \in Threads, NEW h \in Leases, ReturnLease(t, h) PROVE GateInv'
  <2>1. GateTypeOK'
    BY <1>4 DEF ReturnLease, GateTypeOK
  <2>2. /\ Undoing' = Undoing /\ Counting' = Counting
        /\ Admitted' = Admitted \ {t} /\ t \in Admitted
    BY <1>4 DEF ReturnLease, GateTypeOK, Admitted, Undoing, Counting
  <2>3. Cardinality(Admitted') = Cardinality(Admitted) - 1
    BY <2>2, FS_RemoveElement, Zenon
  <2>4. Cardinality(held') = Cardinality(held) + 1
    BY <1>4, FS_AddElement, Zenon DEF ReturnLease
  <2>5. Out' = Out
    BY <2>3, <2>4 DEF Out
  <2> QED
    BY <1>4, <2>1, <2>2, <2>5
    DEF ReturnLease, GateTypeOK, InflightExact, RejectedExact, OutWithinLimit
<1>5. ASSUME NEW h \in Leases, Reset(h) PROVE GateInv'
  <2>1. Admitted' = Admitted /\ Undoing' = Undoing /\ Counting' = Counting
    BY <1>5 DEF Reset, Admitted, Undoing, Counting
  <2>2. Cardinality(held') = Cardinality(held) - 1
    BY <1>5, FS_RemoveElement, Zenon DEF Reset
  <2>3. Cardinality(held) # 0
    BY <1>5, FS_EmptySet DEF Reset
  <2>4. Out' = Out - 1 /\ Out # 0
    BY <2>1, <2>2, <2>3 DEF Out
  <2>5. GateTypeOK'
    BY <1>5, <2>4 DEF Reset, GateTypeOK, InflightExact
  <2> QED
    BY <1>5, <2>1, <2>4, <2>5
    DEF Reset, GateTypeOK, InflightExact, RejectedExact, OutWithinLimit
<1>6. ASSUME NEW h \in Leases, NEW g \in Leases, MoveAssign(h, g) PROVE GateInv'
  <2>1. Admitted' = Admitted /\ Undoing' = Undoing /\ Counting' = Counting
    BY <1>6 DEF MoveAssign, Admitted, Undoing, Counting
  <2>2. Cardinality(held') = IF g \in held THEN Cardinality(held) - 1 ELSE Cardinality(held)
    BY <1>6, MovedLeases
  <2>3. g \in held => Cardinality(held) # 0
    BY FS_EmptySet
  <2>4. Out' = (IF g \in held THEN Out - 1 ELSE Out) /\ (g \in held => Out # 0)
    BY <2>1, <2>2, <2>3 DEF Out
  <2>5. GateTypeOK'
    BY <1>6, <2>4 DEF MoveAssign, GateTypeOK, InflightExact
  <2> QED
    BY <1>6, <2>1, <2>4, <2>5
    DEF MoveAssign, GateTypeOK, InflightExact, RejectedExact, OutWithinLimit
<1>7. ASSUME UNCHANGED gateVars PROVE GateInv'
  BY <1>7 DEF gateVars, GateTypeOK, InflightExact, RejectedExact, OutWithinLimit, Out, Admitted,
              Undoing, Counting
<1> QED
  BY <1>1, <1>2, <1>3, <1>4, <1>5, <1>6, <1>7 DEF GateNext

(* The inductive invariant holds in every behaviour.                       *)
LEMMA GateInvHolds == GateSpec => []GateInv
  BY GateInitInv, GateNextInv, PTL DEF GateSpec

(* No more admissions are ever out than the limit, for any limit and any   *)
(* number of threads (AdmissionGate::try_enter, reactor.h:161-168).        *)
THEOREM NeverOverLimit == GateSpec => []OutWithinLimit
  BY GateInvHolds, PTL DEF GateInv

(* inflight counts each admission once, through moves, self-moves, resets  *)
(* and destructors (AdmissionGate::Lease, reactor.h:172-184).              *)
THEOREM InflightCountsOut == GateSpec => []InflightExact
  BY GateInvHolds, PTL DEF GateInv

(* rejected counts every refusal (reactor.h:164).                          *)
THEOREM RejectedCountsRefusals == GateSpec => []RejectedExact
  BY GateInvHolds, PTL DEF GateInv

-----------------------------------------------------------------------------
(* How far below the limit calls have been refused.                        *)
RefusalInv ==
    /\ refusals = 0 => fewest = limit
    /\ RefusesNearlyFull

(* Besides a thread that is not taking back, at most the others are.       *)
LEMMA OthersUndo ==
  ASSUME GateTypeOK, NEW t \in Threads, t \notin Undoing
  PROVE  Cardinality(Threads) \in Nat /\ Cardinality(Undoing) < Cardinality(Threads)
<1>1. Undoing \in SUBSET (Threads \ {t})
  BY DEF Undoing
<1>2. IsFiniteSet(Threads \ {t}) /\ Cardinality(Threads \ {t}) = Cardinality(Threads) - 1
  BY GateAssumption, FS_RemoveElement
<1>3. Cardinality(Undoing) <= Cardinality(Threads \ {t})
  BY <1>1, <1>2, FS_Subset
<1>4. Cardinality(Threads) \in Nat
  BY GateAssumption, FS_CardinalityType
<1> QED
  BY <1>2, <1>3, <1>4, Finite

(* Every step keeps it, given what inflight counts.                        *)
LEMMA NextRefusal == GateInv /\ RefusalInv /\ [GateNext]_gateVars => RefusalInv'
<1> SUFFICES ASSUME GateInv, RefusalInv, [GateNext]_gateVars PROVE RefusalInv'
  OBVIOUS
<1>1. ASSUME NEW t \in Threads, CountItself(t) PROVE RefusalInv'
  <2>1. t \notin Undoing
    BY <1>1 DEF CountItself, Undoing
  <2>2. Cardinality(Threads) \in Nat /\ Cardinality(Undoing) < Cardinality(Threads)
    BY <2>1, OthersUndo DEF GateInv
  <2>3. inflight >= limit => Out + Cardinality(Threads) > limit
    BY <2>2, Finite, GateAssumption DEF GateInv, GateTypeOK, InflightExact
  <2>4. Out \in Nat /\ limit \in Int /\ fewest \in Int /\ refusals \in Nat
    BY Finite, GateAssumption DEF GateInv, GateTypeOK
  <2>5. CASE inflight >= limit /\ limit > 0
    <3>1. /\ refusals' = refusals + 1 /\ limit' = limit
          /\ fewest' = IF Out < fewest THEN Out ELSE fewest
      BY <1>1, <2>5 DEF CountItself
    <3>2. fewest + Cardinality(Threads) > limit
      BY <2>2, <2>4, Finite DEF GateInv, RefusalInv, RefusesNearlyFull
    <3>3. fewest' + Cardinality(Threads) > limit'
      BY <2>3, <2>5, <3>1, <3>2
    <3> QED
      BY <2>4, <3>1, <3>3 DEF RefusalInv, RefusesNearlyFull
  <2>6. CASE ~(inflight >= limit /\ limit > 0)
    BY <1>1, <2>6 DEF CountItself, RefusalInv, RefusesNearlyFull
  <2> QED
    BY <2>5, <2>6
<1>2. ASSUME UNCHANGED <<limit, refusals, fewest>> PROVE RefusalInv'
  BY <1>2 DEF RefusalInv, RefusesNearlyFull
<1> QED
  BY <1>1, <1>2
  DEF GateNext, gateVars, TakeBack, CountRejected, ReturnLease, Reset, MoveAssign

(* A refusal misses by fewer places than there are threads, for any limit  *)
(* (AdmissionGate::try_enter, reactor.h:162-163).                          *)
THEOREM RefusedNearTheLimit == GateSpec => []RefusesNearlyFull
<1>1. GateInit => RefusalInv
  BY DEF GateInit, RefusalInv, RefusesNearlyFull
<1>2. RefusalInv => RefusesNearlyFull
  BY DEF RefusalInv
<1> QED
  BY <1>1, <1>2, NextRefusal, GateInvHolds, PTL DEF GateSpec

-----------------------------------------------------------------------------
(* Natural numbers.                                                        *)

(* A set of naturals that is not empty has a least element.                *)
LEMMA LeastElement ==
    ASSUME NEW S \in SUBSET Nat, S # {}
    PROVE  \E m \in S : \A k \in S : m <= k
<1> DEFINE R == OpToRel(<, Nat)
<1>1. IsWellFoundedOn(R, Nat)
  BY NatLessThanWellFounded
<1>2. \A x, y \in Nat : x < y => <<x, y>> \in R
  BY DEF OpToRel
<1> HIDE DEF R
<1>3. PICK m \in S : \A k \in S : ~(<<k, m>> \in R)
  BY <1>1, WFMin, Zenon
<1>4. \A k \in S : ~(k < m)
  BY <1>2, <1>3, Zenon
<1>5. \A k \in S : m <= k
  BY <1>4
<1> QED
  BY <1>5

(* Induction, over a set: the library's theorems have the property as an   *)
(* operator, which the provers cannot instantiate.                         *)
LEMMA Induction ==
    ASSUME NEW S, 0 \in S, \A n \in Nat : n \in S => n + 1 \in S
    PROVE  Nat \subseteq S
<1> SUFFICES ASSUME Nat \ S # {} PROVE FALSE
  OBVIOUS
<1>1. PICK m \in Nat \ S : \A k \in Nat \ S : m <= k
  BY LeastElement, Zenon
<1>2. m # 0 /\ m - 1 \in Nat
  BY <1>1
<1>3. m - 1 \in S
  BY <1>1, <1>2
<1>4. (m - 1) + 1 \in S
  BY <1>2, <1>3, Zenon
<1> QED
  BY <1>1, <1>4

(* Recursion: g is what step makes of a up to n.  It exists, and two of    *)
(* them agree.                                                             *)
Partial(g, n, a, step, V) ==
    /\ g \in [0..n -> V]
    /\ g[0] = a
    /\ \A k \in 0 .. n - 1 : g[k + 1] = step[k][g[k]]

(* There is one up to every n.                                             *)
LEMMA PartialExists ==
    ASSUME NEW V, NEW a \in V, NEW step \in [Nat -> [V -> V]]
    PROVE  \A n \in Nat : \E g : Partial(g, n, a, step, V)
<1> DEFINE S == {n \in Nat : \E g : Partial(g, n, a, step, V)}
<1>1. 0 \in S
  <2>1. Partial([k \in 0..0 |-> a], 0, a, step, V)
    BY DEF Partial
  <2> QED
    BY <2>1
<1>2. ASSUME NEW n \in Nat, n \in S
      PROVE  n + 1 \in S
  <2>1. PICK g : Partial(g, n, a, step, V)
    BY <1>2
  <2> DEFINE h == [k \in 0 .. n + 1 |-> IF k <= n THEN g[k] ELSE step[n][g[n]]]
  <2>2. Partial(h, n + 1, a, step, V)
    <3>1. g[n] \in V /\ step[n][g[n]] \in V
      BY <2>1 DEF Partial
    <3>2. h \in [0 .. n + 1 -> V]
      BY <2>1, <3>1 DEF Partial
    <3>3. h[0] = a
      BY <2>1 DEF Partial
    <3>4. ASSUME NEW k \in 0 .. (n + 1) - 1
          PROVE  h[k + 1] = step[k][h[k]]
      <4>1. CASE k < n
        BY <2>1, <4>1 DEF Partial
      <4>2. CASE k = n
        BY <4>2
      <4> QED
        BY <4>1, <4>2
    <3> QED
      BY <3>2, <3>3, <3>4, Zenon DEF Partial
  <2> QED
    BY <2>2
<1> HIDE DEF S
<1>3. Nat \subseteq S
  BY <1>1, <1>2, Induction, Zenon
<1> QED
  BY <1>3 DEF S

(* Two agree as far as both go.                                            *)
LEMMA PartialUnique ==
    ASSUME NEW V, NEW a, NEW step, NEW m \in Nat, NEW n \in Nat, NEW g, NEW h,
           Partial(g, m, a, step, V), Partial(h, n, a, step, V)
    PROVE  \A k \in 0..m : k <= n => g[k] = h[k]
<1> DEFINE S == {k \in Nat : k <= m /\ k <= n => g[k] = h[k]}
<1>1. 0 \in S
  BY DEF Partial
<1>2. ASSUME NEW k \in Nat, k \in S
      PROVE  k + 1 \in S
  <2> SUFFICES ASSUME k + 1 <= m, k + 1 <= n PROVE g[k + 1] = h[k + 1]
    OBVIOUS
  <2>1. g[k] = h[k] /\ k \in 0 .. m - 1 /\ k \in 0 .. n - 1
    BY <1>2
  <2> QED
    BY <2>1, Zenon DEF Partial
<1> HIDE DEF S
<1>3. Nat \subseteq S
  BY <1>1, <1>2, Induction, Zenon
<1> QED
  BY <1>3 DEF S

(* f satisfies the recursive equations.                                    *)
Solves(f, a, step, V) == f \in [Nat -> V] /\ f[0] = a /\ \A n \in Nat : f[n + 1] = step[n][f[n]]

(* Primitive recursion defines a function.                                 *)
LEMMA Recursion ==
    ASSUME NEW V, NEW a \in V, NEW step \in [Nat -> [V -> V]]
    PROVE  \E f : Solves(f, a, step, V)
<1> DEFINE G(n) == CHOOSE g : Partial(g, n, a, step, V)
           f == [n \in Nat |-> G(n)[n]]
<1>1. \A n \in Nat : Partial(G(n), n, a, step, V)
  BY PartialExists, Zenon
<1>2. \A n \in Nat : f[n] = G(n)[n]
  BY Zenon
<1> HIDE DEF G
<1>3. f \in [Nat -> V]
  BY <1>1 DEF Partial
<1>4. f[0] = a
  BY <1>1, <1>2 DEF Partial
<1>5. ASSUME NEW n \in Nat
      PROVE  f[n + 1] = step[n][f[n]]
  <2>1. n + 1 \in Nat /\ n \in 0 .. (n + 1) - 1 /\ n \in 0..n /\ n <= n + 1
    OBVIOUS
  <2>2. G(n + 1)[n + 1] = step[n][G(n + 1)[n]]
    BY <1>1, <2>1, Zenon DEF Partial
  <2>3. \A k \in 0..n : k <= n + 1 => G(n)[k] = G(n + 1)[k]
    <3>1. Partial(G(n), n, a, step, V) /\ Partial(G(n + 1), n + 1, a, step, V)
      BY <1>1, <2>1
    <3> HIDE DEF f
    <3> QED
      BY <3>1, <2>1, PartialUnique, SMTT(20)
  <2> QED
    BY <1>2, <2>1, <2>2, <2>3, Zenon
<1> HIDE DEF f
<1> QED
  BY <1>3, <1>4, <1>5 DEF Solves

-----------------------------------------------------------------------------
(* LagSnapshot.                                                            *)

(* The recursive definition of Pow2 defines it.                            *)
LEMMA Pow2Defined == Pow2 = [n \in Nat |-> IF n = 0 THEN 1 ELSE 2 * Pow2[n - 1]]
<1> DEFINE step == [n \in Nat |-> [v \in Nat |-> 2 * v]]
<1>1. step \in [Nat -> [Nat -> Nat]]
  OBVIOUS
<1>2. \A n \in Nat, v \in Nat : step[n][v] = 2 * v
  OBVIOUS
<1> HIDE DEF step
<1>3. PICK f : Solves(f, 1, step, Nat)
  BY <1>1, Recursion, Zenon
<1>4. f \in [Nat -> Nat] /\ f[0] = 1 /\ \A n \in Nat : f[n + 1] = step[n][f[n]]
  BY <1>3, Zenon DEF Solves
<1>5. \A n \in Nat : f[n] = IF n = 0 THEN 1 ELSE 2 * f[n - 1]
  <2> SUFFICES ASSUME NEW n \in Nat, n # 0 PROVE f[n] = 2 * f[n - 1]
    BY <1>4
  <2>1. n - 1 \in Nat /\ (n - 1) + 1 = n
    OBVIOUS
  <2>2. f[(n - 1) + 1] = step[n - 1][f[n - 1]]
    BY <1>4, <2>1
  <2> QED
    BY <1>2, <1>4, <2>1, <2>2, Zenon
<1>6. f = [n \in Nat |-> IF n = 0 THEN 1 ELSE 2 * f[n - 1]]
  BY <1>4, <1>5
<1> QED
  BY <1>6, Zenon DEF Pow2

(* The equations of Pow2.                                                  *)
LEMMA Pow2Step ==
    /\ Pow2[0] = 1
    /\ \A n \in Nat : Pow2[n + 1] = 2 * Pow2[n]
<1>1. \A n \in Nat : Pow2[n] = IF n = 0 THEN 1 ELSE 2 * Pow2[n - 1]
  BY Pow2Defined, Zenon
<1> QED
  BY <1>1

(* Powers of two are positive.                                             *)
LEMMA Pow2Type == \A n \in Nat : Pow2[n] \in Nat \ {0}
<1> DEFINE S == {n \in Nat : Pow2[n] \in Nat \ {0}}
<1>1. 0 \in S
  BY Pow2Step
<1>2. \A n \in Nat : n \in S => n + 1 \in S
  BY Pow2Step
<1> HIDE DEF S
<1>3. Nat \subseteq S
  BY <1>1, <1>2, Induction, Zenon
<1> QED
  BY <1>3 DEF S

(* The first three.                                                        *)
LEMMA Pow2Small == Pow2[0] = 1 /\ Pow2[1] = 2 /\ Pow2[2] = 4
<1>1. Pow2[0 + 1] = 2 /\ Pow2[1 + 1] = 2 * Pow2[1]
  BY Pow2Step
<1> QED
  BY <1>1, Pow2Step

(* Every lateness from 4 to Top has a highest bit in range.                *)
LEMMA ExponentRight ==
    ASSUME NEW us \in Nat, 4 <= us, us < Top
    PROVE  LET e == Exponent(us) IN e \in 2 .. Powers + 1 /\ Pow2[e] <= us /\ us < Pow2[e + 1]
<1> DEFINE S == {n \in Nat : us < Pow2[n]}
<1>1. Powers + 2 \in S
  BY LagSnapshotAssumption DEF Top
<1> HIDE DEF S
<1>2. PICK m \in S : \A k \in S : m <= k
  BY <1>1, LeastElement, Zenon DEF S
<1>3. m \in Nat /\ us < Pow2[m] /\ m <= Powers + 2
  BY <1>1, <1>2 DEF S
<1>4. m \notin {0, 1, 2}
  BY <1>3, Pow2Small
<1>5. m - 1 \in 2 .. Powers + 1 /\ m - 1 \in Nat /\ (m - 1) + 1 = m
  BY <1>3, <1>4, LagSnapshotAssumption
<1>6. m - 1 \notin S
  BY <1>2, <1>3
<1>7. Pow2[m - 1] <= us
  BY <1>5, <1>6, Pow2Type DEF S
<1>8. \E e \in 2 .. Powers + 1 : Pow2[e] <= us /\ us < Pow2[e + 1]
  BY <1>3, <1>5, <1>7
<1> QED
  BY <1>8, Zenon DEF Exponent

(* Bucket j of power p, above the exact ones: where it ends ...            *)
LEMMA BucketParts ==
    ASSUME NEW p \in Nat, NEW j \in 0..3
    PROVE  upper_us(4 + p * 4 + j) = (5 + j) * Pow2[p]
<1> DEFINE i == 4 + p * 4 + j
<1>1. ~(i < 4) /\ i - 4 = 4 * p + j
  OBVIOUS
<1>2. (i - 4) % 4 = j /\ (i - 4) \div 4 = p
  BY <1>1
<1> QED
  BY <1>1, <1>2 DEF upper_us

(* ... and where it begins.                                                *)
LEMMA LowerParts ==
    ASSUME NEW p \in Nat, NEW j \in 0..3
    PROVE  lower_us(4 + p * 4 + j) = (4 + j) * Pow2[p]
<1> DEFINE i == 4 + p * 4 + j
<1>1. lower_us(i) = upper_us(i - 1)
  BY DEF lower_us
<1>2. CASE j # 0
  <2>1. i - 1 = 4 + p * 4 + (j - 1) /\ j - 1 \in 0..3
    BY <1>2
  <2>2. upper_us(i - 1) = (5 + (j - 1)) * Pow2[p]
    BY <2>1, BucketParts, Zenon
  <2> QED
    BY <1>1, <2>2
<1>3. CASE j = 0 /\ p = 0
  <2>1. upper_us(3) = 4
    BY DEF upper_us
  <2> QED
    BY <1>1, <1>3, <2>1, Pow2Small
<1>4. CASE j = 0 /\ p # 0
  <2>1. i - 1 = 4 + (p - 1) * 4 + 3 /\ p - 1 \in Nat
    BY <1>4
  <2>2. upper_us(i - 1) = 8 * Pow2[p - 1]
    BY <2>1, BucketParts
  <2>3. Pow2[(p - 1) + 1] = 2 * Pow2[p - 1] /\ Pow2[p - 1] \in Nat
    BY <2>1, Pow2Step, Pow2Type
  <2> QED
    BY <1>1, <1>4, <2>2, <2>3
<1> QED
  BY <1>2, <1>3, <1>4

(* Every bucket above the exact ones is of that form.                      *)
LEMMA AboveExact ==
    ASSUME NEW i \in Buckets, ~(i < 4)
    PROVE  \E p \in 0 .. Powers - 1, j \in 0..3 : i = 4 + p * 4 + j
<1>1. i \in Int /\ i - 4 \in 0 .. 4 * Powers - 1
  BY LagSnapshotAssumption DEF Buckets, buckets
<1> DEFINE p == (i - 4) \div 4
           j == (i - 4) % 4
<1>2. p \in 0 .. Powers - 1 /\ j \in 0..3 /\ i = 4 + p * 4 + j
  BY <1>1, LagSnapshotAssumption
<1> QED
  BY <1>2

(* No bucket is empty of microseconds.                                     *)
LEMMA EdgesAscend == \A i \in Buckets : lower_us(i) < upper_us(i) /\ {lower_us(i), upper_us(i)} \subseteq Nat
<1> SUFFICES ASSUME NEW i \in Buckets PROVE lower_us(i) < upper_us(i) /\ {lower_us(i), upper_us(i)} \subseteq Nat
  OBVIOUS
<1>1. CASE i < 4
  BY <1>1, LagSnapshotAssumption DEF lower_us, upper_us, Buckets, buckets
<1>2. CASE ~(i < 4)
  <2>1. PICK p \in 0 .. Powers - 1, j \in 0..3 : i = 4 + p * 4 + j
    BY <1>2, AboveExact
  <2>2. p \in Nat
    BY LagSnapshotAssumption
  <2>3. upper_us(i) = (5 + j) * Pow2[p] /\ lower_us(i) = (4 + j) * Pow2[p] /\ Pow2[p] \in Nat \ {0}
    BY <2>1, <2>2, BucketParts, LowerParts, Pow2Type, Zenon
  <2> QED
    BY <2>3
<1> QED
  BY <1>1, <1>2

(* Division with remainder.                                                *)
LEMMA DivMod ==
    ASSUME NEW a \in Nat, NEW d \in Nat \ {0}
    PROVE  /\ a \div d \in Nat /\ a % d \in Nat
           /\ a = (a \div d) * d + (a % d) /\ a % d < d
           /\ (a \div d) * d <= a /\ a < (a \div d + 1) * d
  OBVIOUS

(* Every lateness lies within the edges of its bucket, or above those of   *)
(* the last.                                                               *)
LEMMA InItsBucket ==
    ASSUME NEW us \in Nat
    PROVE  LET i == index_of(us)
           IN  i \in Buckets /\ lower_us(i) <= us /\ (us < upper_us(i) \/ i = buckets - 1)
<1>1. Powers \in Nat /\ buckets = 4 + Powers * 4 /\ Buckets = 0 .. buckets - 1
  BY LagSnapshotAssumption DEF buckets, Buckets
<1>2. Top \in Nat
  BY <1>1, Pow2Type, SMTT(30) DEF Top
<1>3. CASE us < 4
  BY <1>1, <1>3 DEF index_of, lower_us, upper_us
<1>4. CASE us >= 4 /\ us >= Top
  <2>1. index_of(us) = buckets - 1
    BY <1>4 DEF index_of
  <2>2. CASE Powers = 0
    BY <1>1, <1>4, <2>1, <2>2 DEF lower_us, upper_us
  <2>3. CASE Powers # 0
    <3>1. Powers - 1 \in Nat /\ buckets - 1 = 4 + (Powers - 1) * 4 + 3
      BY <1>1, <2>3
    <3>2. lower_us(buckets - 1) = 7 * Pow2[Powers - 1]
      <4>1. 3 \in 0..3 /\ 4 + 3 = 7
        OBVIOUS
      <4>2. lower_us(4 + (Powers - 1) * 4 + 3) = (4 + 3) * Pow2[Powers - 1]
        BY <3>1, <4>1, LowerParts, Zenon
      <4> QED
        BY <3>1, <4>1, <4>2, Zenon
    <3>3. Top = 8 * Pow2[Powers - 1]
      <4>1. /\ Pow2[(Powers - 1) + 1] = 2 * Pow2[Powers - 1]
            /\ Pow2[Powers + 1] = 2 * Pow2[Powers]
            /\ Pow2[(Powers + 1) + 1] = 2 * Pow2[Powers + 1]
        <5>1. Powers \in Nat /\ Powers + 1 \in Nat
          BY <1>1
        <5> QED
          BY <3>1, <5>1, Pow2Step, Zenon
      <4>2. Top = Pow2[(Powers + 1) + 1] /\ Powers = (Powers - 1) + 1
        BY <1>1 DEF Top
      <4> QED
        BY <3>1, <4>1, <4>2, Pow2Type
    <3> QED
      BY <1>1, <1>4, <2>1, <3>1, <3>2, <3>3, Pow2Type
  <2> QED
    BY <2>2, <2>3
<1>5. CASE us >= 4 /\ us < Top
  <2> DEFINE e == Exponent(us)
             p == e - 2
             q == us \div Pow2[p]
  <2>1. e \in 2 .. Powers + 1 /\ Pow2[e] <= us /\ us < Pow2[e + 1]
    BY <1>5, ExponentRight
  <2> HIDE DEF e
  <2>2. p \in Nat /\ p \in 0 .. Powers - 1 /\ Pow2[p] \in Nat \ {0}
    BY <1>1, <2>1, Pow2Type
  <2>3. Pow2[e] = 4 * Pow2[p] /\ Pow2[e + 1] = 8 * Pow2[p]
    <3>1. /\ Pow2[p + 1] = 2 * Pow2[p] /\ Pow2[(p + 1) + 1] = 2 * Pow2[p + 1]
          /\ Pow2[((p + 1) + 1) + 1] = 2 * Pow2[(p + 1) + 1]
      BY <2>2, Pow2Step
    <3>2. (p + 1) + 1 = e /\ ((p + 1) + 1) + 1 = e + 1
      BY <2>1
    <3> QED
      BY <3>1, <3>2, <2>2
  <2> HIDE DEF p
  <2>4. q \in Nat /\ q * Pow2[p] <= us /\ us < (q + 1) * Pow2[p]
    BY <2>2, DivMod
  <2> HIDE DEF q
  <2>5. q \in 4..7
    BY <2>1, <2>2, <2>3, <2>4
  <2>6. q % 4 = q - 4 /\ q - 4 \in 0..3
    BY <2>5
  <2>7. index_of(us) = 4 + p * 4 + (q - 4)
    <3>1. ~(us < 4) /\ ~(us >= Top)
      BY <1>2, <1>5
    <3>2. index_of(us) = 4 + p * 4 + (q % 4)
      BY <3>1, Zenon DEF index_of, e, p, q
    <3> QED
      BY <2>6, <3>2
  <2>8. index_of(us) \in Buckets
    BY <1>1, <2>2, <2>6, <2>7
  <2>9. upper_us(index_of(us)) = (q + 1) * Pow2[p] /\ lower_us(index_of(us)) = q * Pow2[p]
    <3> DEFINE j == q - 4
    <3>1. j \in 0..3 /\ 5 + j = q + 1 /\ 4 + j = q
      BY <2>5
    <3> HIDE DEF j
    <3>2. upper_us(4 + p * 4 + j) = (5 + j) * Pow2[p] /\ lower_us(4 + p * 4 + j) = (4 + j) * Pow2[p]
      BY <2>2, <3>1, BucketParts, LowerParts, Zenon
    <3> QED
      BY <2>7, <3>1, <3>2, Zenon DEF j
  <2> QED
    BY <2>4, <2>8, <2>9
<1> QED
  BY <1>2, <1>3, <1>4, <1>5

(* Later buckets have later edges.                                         *)
LEMMA EdgesMonotone == \A i, j \in Buckets : i <= j => upper_us(i) <= upper_us(j)
<1> SUFFICES ASSUME NEW i \in Buckets PROVE \A j \in Buckets : i <= j => upper_us(i) <= upper_us(j)
  OBVIOUS
<1>1. Buckets \subseteq Nat /\ \A n \in Nat : n + 1 \in Buckets => n \in Buckets
  BY LagSnapshotAssumption DEF Buckets, buckets
<1> DEFINE S == {j \in Nat : j \in Buckets /\ i <= j => upper_us(i) <= upper_us(j)}
<1>2. 0 \in S
  BY <1>1, EdgesAscend
<1>3. ASSUME NEW j \in Nat, j \in S
      PROVE  j + 1 \in S
  <2> SUFFICES ASSUME j + 1 \in Buckets, i <= j + 1 PROVE upper_us(i) <= upper_us(j + 1)
    OBVIOUS
  <2>1. upper_us(i) \in Nat /\ upper_us(j) \in Nat /\ upper_us(j + 1) \in Nat /\ j \in Buckets
    BY <1>1, EdgesAscend
  <2>2. upper_us(j) < upper_us(j + 1)
    <3>1. lower_us(j + 1) = upper_us(j)
      BY DEF lower_us
    <3> QED
      BY <3>1, EdgesAscend
  <2>3. CASE i = j + 1
    BY <2>1, <2>3
  <2>4. CASE i <= j
    BY <1>3, <2>1, <2>2, <2>4
  <2> QED
    BY <1>1, <2>3, <2>4
<1> HIDE DEF S
<1>4. Nat \subseteq S
  BY <1>2, <1>3, Induction, Zenon
<1> QED
  BY <1>1, <1>4 DEF S

(* What is counted up to bucket i is what is earlier than its upper edge.  *)
LEMMA EarlierThanEdge ==
    ASSUME NEW us \in Nat, NEW i \in Buckets, i # buckets - 1
    PROVE  us < upper_us(i) <=> index_of(us) <= i
<1> DEFINE b == index_of(us)
<1>1. b \in Buckets /\ lower_us(b) <= us /\ (us < upper_us(b) \/ b = buckets - 1)
  BY InItsBucket
<1> HIDE DEF b
<1>2. {lower_us(b), upper_us(b), upper_us(i)} \subseteq Nat
  BY <1>1, EdgesAscend
<1>3. b \in Nat /\ i \in Nat /\ b <= buckets - 1 /\ buckets \in Nat
  BY <1>1, LagSnapshotAssumption DEF Buckets, buckets
<1>4. CASE b <= i
  <2>1. us < upper_us(b) /\ upper_us(b) <= upper_us(i)
    BY <1>1, <1>3, <1>4, EdgesMonotone DEF Buckets
  <2> QED
    BY <1>2, <1>4, <2>1 DEF b
<1>5. CASE i < b
  <2>1. b - 1 \in Buckets /\ i <= b - 1 /\ lower_us(b) = upper_us(b - 1) /\ b # 0
    BY <1>1, <1>3, <1>5 DEF Buckets, lower_us
  <2>2. upper_us(i) <= lower_us(b)
    BY <2>1, EdgesMonotone
  <2>3. ~(us < upper_us(i))
    BY <1>1, <1>2, <2>2
  <2> QED
    BY <1>3, <1>5, <2>3 DEF b
<1> QED
  BY <1>3, <1>4, <1>5

(* The buckets are numbered from 0.                                        *)
LEMMA BucketsFrom0 ==
    /\ buckets \in Nat /\ buckets >= 4 /\ Buckets = 0 .. buckets - 1
    /\ Buckets \subseteq Nat /\ 0 \in Buckets /\ buckets - 1 \in Buckets
    /\ \A n \in Nat : n + 1 \in Buckets => n \in Buckets
  BY LagSnapshotAssumption DEF Buckets, buckets

(* f has the running sums of hist.                                         *)
Sums(f, hist) == f = [k \in Buckets |-> hist[k] + IF k = 0 THEN 0 ELSE f[k - 1]]

(* There are such sums.                                                    *)
LEMMA SumsExist ==
    ASSUME NEW hist \in [Buckets -> Nat]
    PROVE  \E f : Sums(f, hist)
<1> DEFINE step == [n \in Nat |-> [v \in Nat |-> IF n + 1 \in Buckets THEN hist[n + 1] + v ELSE 0]]
           a == hist[0]
<1>1. step \in [Nat -> [Nat -> Nat]] /\ a \in Nat
  BY BucketsFrom0
<1>2. \A n \in Nat, v \in Nat : n + 1 \in Buckets => step[n][v] = hist[n + 1] + v
  BY BucketsFrom0
<1> HIDE DEF step
<1>3. PICK g : Solves(g, a, step, Nat)
  BY <1>1, Recursion, Zenon
<1>4. g \in [Nat -> Nat] /\ g[0] = hist[0] /\ \A n \in Nat : g[n + 1] = step[n][g[n]]
  BY <1>3, Zenon DEF Solves
<1> DEFINE f == [k \in Buckets |-> g[k]]
<1>5. ASSUME NEW k \in Buckets
      PROVE  f[k] = hist[k] + IF k = 0 THEN 0 ELSE f[k - 1]
  <2>1. CASE k = 0
    BY <1>4, <2>1, BucketsFrom0
  <2>2. CASE k # 0
    <3>1. k - 1 \in Nat /\ (k - 1) + 1 = k /\ k - 1 \in Buckets
      BY <2>2, BucketsFrom0
    <3>2. g[(k - 1) + 1] = step[k - 1][g[k - 1]] /\ g[k - 1] \in Nat
      BY <1>4, <3>1
    <3>3. step[k - 1][g[k - 1]] = hist[k] + g[k - 1]
      BY <1>2, <3>1, <3>2
    <3>4. f[k] = g[k] /\ f[k - 1] = g[k - 1]
      BY <3>1
    <3> QED
      BY <2>2, <3>1, <3>2, <3>3, <3>4
  <2> QED
    BY <2>1, <2>2
<1>6. f = [k \in Buckets |-> hist[k] + IF k = 0 THEN 0 ELSE f[k - 1]]
  BY <1>5
<1> QED
  BY <1>6, Zenon DEF Sums

(* The equations of Seen.                                                  *)
LEMMA SeenStep ==
    ASSUME NEW hist \in [Buckets -> Nat]
    PROVE  /\ Seen(hist, 0) = hist[0]
           /\ \A i \in Buckets : i # 0 => Seen(hist, i) = hist[i] + Seen(hist, i - 1)
<1> DEFINE f == CHOOSE g : Sums(g, hist)
<1>1. Sums(f, hist)
  BY SumsExist, Zenon
<1>2. \A i : Seen(hist, i) = f[i]
  BY Zenon DEF Seen, Sums
<1> HIDE DEF f
<1>3. \A i \in Buckets : f[i] = hist[i] + IF i = 0 THEN 0 ELSE f[i - 1]
  BY <1>1, Zenon DEF Sums
<1>4. 0 \in Buckets /\ hist[0] \in Nat
  BY BucketsFrom0
<1>5. f[0] = hist[0] + 0 /\ \A i \in Buckets : i # 0 => f[i] = hist[i] + f[i - 1]
  BY <1>3, <1>4, Zenon
<1>6. f[0] = hist[0]
  BY <1>4, <1>5
<1> QED
  BY <1>2, <1>5, <1>6, Zenon

(* Induction over the buckets.                                             *)
LEMMA BucketInduction ==
    ASSUME NEW S, 0 \in S, \A i \in Buckets : i # 0 /\ i - 1 \in S => i \in S
    PROVE  Buckets \subseteq S
<1> DEFINE T == {n \in Nat : n \in Buckets => n \in S}
<1>1. 0 \in T
  OBVIOUS
<1>2. ASSUME NEW n \in Nat, n \in T
      PROVE  n + 1 \in T
  <2> SUFFICES ASSUME n + 1 \in Buckets PROVE n + 1 \in S
    OBVIOUS
  <2>1. n \in S /\ n + 1 # 0 /\ (n + 1) - 1 = n
    BY <1>2, BucketsFrom0
  <2> QED
    BY <2>1, Zenon
<1> HIDE DEF T
<1>3. Nat \subseteq T
  BY <1>1, <1>2, Induction, Zenon
<1> QED
  BY <1>3, BucketsFrom0 DEF T

(* Sums are numbers.                                                       *)
LEMMA SeenType ==
    ASSUME NEW hist \in [Buckets -> Nat]
    PROVE  \A i \in Buckets : Seen(hist, i) \in Nat
<1> DEFINE S == {i \in Nat : Seen(hist, i) \in Nat}
<1>1. 0 \in S
  BY SeenStep, BucketsFrom0
<1>2. ASSUME NEW i \in Buckets, i # 0, i - 1 \in S
      PROVE  i \in S
  <2>1. Seen(hist, i) = hist[i] + Seen(hist, i - 1)
    BY <1>2, SeenStep, Zenon
  <2>2. i \in Nat /\ hist[i] \in Nat /\ Seen(hist, i - 1) \in Nat
    BY <1>2, BucketsFrom0
  <2> QED
    BY <2>1, <2>2
<1> HIDE DEF S
<1>3. Buckets \subseteq S
  BY <1>1, <1>2, BucketInduction, Zenon
<1> QED
  BY <1>3 DEF S

(* One more in bucket j is one more in every sum from there on.            *)
LEMMA SeenRaised ==
    ASSUME NEW hist \in [Buckets -> Nat], NEW j \in Buckets, NEW i \in Buckets
    PROVE  Seen([hist EXCEPT ![j] = @ + 1], i) = Seen(hist, i) + IF j <= i THEN 1 ELSE 0
<1> DEFINE more == [hist EXCEPT ![j] = @ + 1]
           S == {k \in Nat : Seen(more, k) = Seen(hist, k) + IF j <= k THEN 1 ELSE 0}
<1>1. more \in [Buckets -> Nat] /\ \A k \in Buckets : more[k] = IF k = j THEN hist[k] + 1 ELSE hist[k]
  OBVIOUS
<1> HIDE DEF more
<1>2. 0 \in S
  <2>1. Seen(more, 0) = more[0] /\ Seen(hist, 0) = hist[0]
    BY <1>1, SeenStep, Zenon
  <2>2. 0 \in Buckets /\ j \in Nat
    BY BucketsFrom0
  <2>3. more[0] = hist[0] + IF j <= 0 THEN 1 ELSE 0
    BY <1>1, <2>2
  <2> QED
    BY <2>1, <2>3
<1>3. ASSUME NEW k \in Buckets, k # 0, k - 1 \in S
      PROVE  k \in S
  <2>1. k \in Nat /\ j \in Nat /\ k - 1 \in Buckets
    BY <1>3, BucketsFrom0
  <2>2. Seen(hist, k - 1) \in Nat /\ hist[k] \in Nat
    BY <2>1, SeenType
  <2>3. Seen(more, k) = more[k] + Seen(more, k - 1) /\ Seen(hist, k) = hist[k] + Seen(hist, k - 1)
    BY <1>1, <1>3, SeenStep
  <2>4. Seen(more, k - 1) = Seen(hist, k - 1) + IF j <= k - 1 THEN 1 ELSE 0
    BY <1>3
  <2> QED
    BY <1>1, <2>1, <2>2, <2>3, <2>4
<1> HIDE DEF S
<1>4. Buckets \subseteq S
  BY <1>2, <1>3, BucketInduction, Zenon
<1> QED
  BY <1>4, Zenon DEF S, more

(* A sequence has finitely many places, as many as its length.             *)
LEMMA Places ==
    ASSUME NEW lates \in Seq(Nat)
    PROVE  /\ Len(lates) \in Nat /\ \A k \in DOMAIN lates : lates[k] \in Nat
           /\ IsFiniteSet(DOMAIN lates) /\ Cardinality(DOMAIN lates) = Len(lates)
<1>1. DOMAIN lates = 1 .. Len(lates) /\ Len(lates) \in Nat /\ \A k \in DOMAIN lates : lates[k] \in Nat
  OBVIOUS
<1> DEFINE n == Len(lates)
<1>2. n \in Int /\ 1 \in Int
  BY <1>1
<1> HIDE DEF n
<1>3. IsFiniteSet(1..n) /\ Cardinality(1..n) = IF 1 > n THEN 0 ELSE n - 1 + 1
  BY <1>2, FS_Interval
<1>4. n \in Nat => (IF 1 > n THEN 0 ELSE n - 1 + 1) = n
  OBVIOUS
<1> QED
  BY <1>1, <1>3, <1>4, Zenon DEF n

(* A histogram has numbers in its buckets.                                 *)
LEMMA HistogramType ==
    ASSUME NEW lates \in Seq(Nat)
    PROVE  Histogram(lates) \in [Buckets -> Nat]
<1>1. \A b : Cardinality({k \in DOMAIN lates : index_of(lates[k]) = b}) \in Nat
  BY Places, FS_Subset, FS_CardinalityType
<1> QED
  BY <1>1, Zenon DEF Histogram

(* The sum up to bucket i is the number of latenesses counted there.       *)
LEMMA SeenCounts ==
    ASSUME NEW lates \in Seq(Nat), NEW i \in Buckets
    PROVE  Seen(Histogram(lates), i) = Cardinality({k \in DOMAIN lates : index_of(lates[k]) <= i})
<1> DEFINE hist == Histogram(lates)
           In(b) == {k \in DOMAIN lates : index_of(lates[k]) = b}
           UpTo(b) == {k \in DOMAIN lates : index_of(lates[k]) <= b}
           S == {b \in Nat : Seen(hist, b) = Cardinality(UpTo(b))}
<1>1. IsFiniteSet(DOMAIN lates) /\ \A k \in DOMAIN lates : index_of(lates[k]) \in Nat
  <2>1. \A us \in Nat : index_of(us) \in Nat
    BY InItsBucket, BucketsFrom0, Zenon
  <2> QED
    BY <2>1, Places, Zenon
<1>2. \A b : /\ IsFiniteSet(In(b)) /\ IsFiniteSet(UpTo(b))
             /\ Cardinality(In(b)) \in Nat /\ Cardinality(UpTo(b)) \in Nat
  BY <1>1, FS_Subset, FS_CardinalityType
<1>3. hist \in [Buckets -> Nat] /\ \A b \in Buckets : hist[b] = Cardinality(In(b))
  BY <1>2, Zenon DEF Histogram
<1>4. 0 \in S
  <2>1. UpTo(0) = In(0)
    BY <1>1
  <2> QED
    BY <1>3, <2>1, SeenStep, BucketsFrom0, Zenon
<1>5. ASSUME NEW b \in Buckets, b # 0, b - 1 \in S
      PROVE  b \in S
  <2>1. b \in Nat
    BY BucketsFrom0
  <2>2. UpTo(b) = UpTo(b - 1) \cup In(b) /\ UpTo(b - 1) \cap In(b) = {}
    BY <1>1, <2>1
  <2>3. Cardinality(UpTo(b)) = Cardinality(UpTo(b - 1)) + Cardinality(In(b))
    <3> DEFINE A == UpTo(b - 1)
               B == In(b)
    <3>1. IsFiniteSet(A) /\ IsFiniteSet(B) /\ A \cap B = {}
      BY <1>2, <2>2, Zenon
    <3>2. Cardinality(A) \in Nat /\ Cardinality(B) \in Nat
      BY <1>2, Zenon
    <3>3. Cardinality(UpTo(b)) = Cardinality(A \cup B)
      BY <2>2, Zenon
    <3> HIDE DEF A, B
    <3>4. Cardinality(A \cup B) = Cardinality(A) + Cardinality(B) - Cardinality(A \cap B)
      BY <3>1, FS_Union, Zenon
    <3>5. Cardinality(A \cap B) = 0
      BY <3>1, FS_EmptySet, Zenon
    <3>6. Cardinality(A \cup B) = Cardinality(A) + Cardinality(B)
      BY <3>2, <3>4, <3>5
    <3> QED
      BY <3>3, <3>6, Zenon DEF A, B
  <2> QED
    <3>1. Seen(hist, b) = hist[b] + Seen(hist, b - 1)
      BY <1>3, <1>5, SeenStep, Zenon
    <3>2. Seen(hist, b - 1) = Cardinality(UpTo(b - 1)) /\ hist[b] = Cardinality(In(b))
      BY <1>3, <1>5, Zenon
    <3>3. Seen(hist, b) = Cardinality(In(b)) + Cardinality(UpTo(b - 1))
      BY <3>1, <3>2, Zenon
    <3>4. Cardinality(In(b)) \in Nat /\ Cardinality(UpTo(b - 1)) \in Nat
      BY <1>2, Zenon
    <3> HIDE DEF In, UpTo, hist
    <3>5. Seen(hist, b) = Cardinality(UpTo(b))
      BY <2>3, <3>3, <3>4
    <3> QED
      BY <2>1, <3>5
<1> HIDE DEF S
<1>6. Buckets \subseteq S
  BY <1>4, <1>5, BucketInduction, Zenon
<1> QED
  BY <1>6 DEF S

(* A product grows with its factor.                                        *)
LEMMA ProductGrows ==
    ASSUME NEW d \in Nat, NEW a \in Int, NEW b \in Int, a <= b
    PROVE  d * a <= d * b
<1>1. b - a \in Nat /\ b = a + (b - a)
  OBVIOUS
<1>2. \A k \in Nat : d * k >= 0 /\ d * (a + k) = d * a + d * k /\ d * a \in Int /\ d * k \in Int
  OBVIOUS
<1>3. d * (b - a) >= 0 /\ d * b = d * a + d * (b - a) /\ d * a \in Int /\ d * (b - a) \in Int
  BY <1>1, <1>2, Zenon
<1> QED
  BY <1>3

(* The rank asked for is one of the total ranks and the fraction's to      *)
(* within one, and below it only where a double loses the fraction.        *)
LEMMA NeedWithin ==
    ASSUME NEW den \in Nat \ {0}, NEW num \in 0..den, NEW round \in -1..1, NEW total \in Nat \ {0}
    PROVE  LET need == Need(num, den, total, round)
               lost == IF den * total >= Rough THEN 1 ELSE 0
           IN  /\ need \in 1..total
               /\ den * (need + lost) >= num * total
               /\ den * (need - 1 - lost) <= num * total
<1> DEFINE product == num * total
           ceil == (product + den - 1) \div den
           rest == product % den
           lost == IF den * total >= Rough THEN 1 ELSE 0
           crosses == den * total >= Rough \/ (rest = 0 /\ round = 1)
           more == IF num < den /\ crosses THEN round ELSE 0
           need == ceil + more
           rank == Need(num, den, total, round)
<1>1. product \in Nat /\ product <= den * total
  BY SMTT(30)
<1>2. ceil \in Nat /\ ceil * den <= product + den - 1 /\ product + den - 1 < (ceil + 1) * den
  <2>1. product + den - 1 \in Nat
    BY <1>1
  <2> QED
    BY <2>1, DivMod
<1>3. rest \in Nat /\ product = (product \div den) * den + rest /\ rest < den
  BY <1>1, DivMod
<1>4. /\ more \in -1..1 /\ lost \in {0, 1}
      /\ more = -1 => lost = 1
      /\ more = 1 => lost = 1 \/ rest = 0
  OBVIOUS
<1>5. rank = IF need <= 0 THEN 1 ELSE IF need > total THEN total ELSE need
  BY Zenon DEF Need
<1>6. rest = 0 => den * ceil <= product
  <2> SUFFICES ASSUME rest = 0 PROVE den * ceil <= product
    OBVIOUS
  <2> DEFINE w == product \div den
  <2> HIDE DEF ceil
  <2>1. w \in Nat /\ product = w * den
    BY <1>1, <1>3, DivMod
  <2> HIDE DEF w
  <2>2. ceil * den < (w + 1) * den
    BY <1>2, <2>1
  <2>3. ceil <= w
    BY <1>2, <2>1, <2>2
  <2> QED
    BY <1>2, <2>1, <2>3
<1> HIDE DEF ceil, rest, more, lost
<1>7. product <= den * ceil /\ den * (ceil - 1) <= product
  BY <1>1, <1>2
<1> HIDE DEF product
<1>8. den * (need + lost) >= product
  <2>1. ceil <= need + lost /\ need + lost \in Int
    BY <1>2, <1>4
  <2>2. den * ceil <= den * (need + lost)
    BY <1>2, <2>1, ProductGrows
  <2> QED
    BY <1>1, <1>2, <1>4, <1>7, <2>2
<1>9. den * (need - 1 - lost) <= product
  <2>1. CASE more = 1 /\ lost = 0
    <3>1. need - 1 - lost = ceil
      BY <1>2, <2>1
    <3> QED
      BY <1>4, <1>6, <2>1, <3>1
  <2>2. CASE ~(more = 1 /\ lost = 0)
    <3>1. need - 1 - lost <= ceil - 1 /\ need - 1 - lost \in Int
      BY <1>2, <1>4, <2>2
    <3>2. den * (need - 1 - lost) <= den * (ceil - 1)
      BY <1>2, <3>1, ProductGrows
    <3> QED
      BY <1>1, <1>2, <1>7, <3>1, <3>2
  <2> QED
    BY <2>1, <2>2
<1>10. need \in Int
  BY <1>2, <1>4
<1> HIDE DEF need, rank
<1>11. rank \in 1..total
  BY <1>5, <1>10
<1>12. den * (rank + lost) >= product
  <2>1. CASE rank = total
    <3>1. den * total <= den * (rank + lost)
      BY <1>4, <2>1, ProductGrows
    <3> QED
      BY <1>1, <1>4, <2>1, <3>1
  <2>2. CASE rank # total
    <3>1. need + lost <= rank + lost /\ need + lost \in Int /\ rank + lost \in Int
      BY <1>4, <1>5, <1>10, <1>11, <2>2
    <3>2. den * (need + lost) <= den * (rank + lost)
      BY <3>1, ProductGrows
    <3> QED
      BY <1>1, <1>8, <3>1, <3>2
  <2> QED
    BY <2>1, <2>2
<1>13. den * (rank - 1 - lost) <= product
  <2>1. CASE need <= 0
    <3>1. rank - 1 - lost <= 0 /\ rank - 1 - lost \in Int
      BY <1>4, <1>5, <2>1
    <3>2. den * (rank - 1 - lost) <= den * 0
      BY <3>1, ProductGrows
    <3> QED
      BY <1>1, <3>1, <3>2
  <2>2. CASE ~(need <= 0)
    <3>1. rank - 1 - lost <= need - 1 - lost /\ need - 1 - lost \in Int /\ rank - 1 - lost \in Int
      BY <1>4, <1>5, <1>10, <1>11, <2>2
    <3>2. den * (rank - 1 - lost) <= den * (need - 1 - lost)
      BY <3>1, ProductGrows
    <3> QED
      BY <1>1, <1>9, <3>1, <3>2
  <2> QED
    BY <2>1, <2>2
<1> QED
  BY <1>11, <1>12, <1>13, Zenon DEF product, lost, rank

(* The sum up to a bucket that is not the last is the number of latenesses *)
(* earlier than its upper edge.                                            *)
LEMMA EarlierIsSeen ==
    ASSUME NEW lates \in Seq(Nat), NEW i \in Buckets, i # buckets - 1
    PROVE  Earlier(lates, upper_us(i)) = Seen(Histogram(lates), i)
<1>1. \A k \in DOMAIN lates : lates[k] \in Nat
  OBVIOUS
<1>2. {k \in DOMAIN lates : lates[k] < upper_us(i)} = {k \in DOMAIN lates : index_of(lates[k]) <= i}
  BY <1>1, EarlierThanEdge, Zenon
<1> QED
  BY <1>2, SeenCounts, Zenon DEF Earlier

(* All buckets together hold all latenesses.                               *)
LEMMA TotalIsLen ==
    ASSUME NEW lates \in Seq(Nat)
    PROVE  Total(Histogram(lates)) = Len(lates)
<1>1. \A us \in Nat : index_of(us) \in 0 .. buckets - 1
  BY InItsBucket, BucketsFrom0, Zenon
<1>2. \A b \in 0 .. buckets - 1 : b <= buckets - 1
  OBVIOUS
<1>3. {k \in DOMAIN lates : index_of(lates[k]) <= buckets - 1} = DOMAIN lates
  BY <1>1, <1>2, Places, Zenon
<1> QED
  BY <1>3, Places, SeenCounts, BucketsFrom0, Zenon DEF Total

(* First(S) is the first.                                                  *)
LEMMA FirstIsLeast ==
    ASSUME NEW S \in SUBSET Buckets, S # {}
    PROVE  First(S) \in S /\ \A j \in S : First(S) <= j
<1>1. S \in SUBSET Nat
  BY BucketsFrom0
<1>2. \E i \in S : \A j \in S : i <= j
  BY <1>1, LeastElement, Zenon
<1> QED
  BY <1>2, Zenon DEF First

(* Every lateness lies within the edges of the bucket it is counted in,    *)
(* for any number of powers of two, 30 in the code, and the buckets leave  *)
(* no gap.                                                                 *)
THEOREM EdgesPartitionTime == EdgesPartition(Nat)
  BY EdgesAscend, InItsBucket, Zenon DEF EdgesPartition

(* Every quantile of any number of wakes, however late, is right to within *)
(* a bucket, whichever way the product of the fraction is rounded.         *)
THEOREM QuantilesWithinBucket ==
    \A lates \in Seq(Nat), den \in Nat \ {0} : \A num \in 0..den, round \in -1..1 :
        QuantileWithinBucket(lates, num, den, round)
<1> SUFFICES ASSUME NEW lates \in Seq(Nat), NEW den \in Nat \ {0}, NEW num \in 0..den, NEW round \in -1..1
             PROVE  QuantileWithinBucket(lates, num, den, round)
  OBVIOUS
<1> DEFINE hist == Histogram(lates)
           edge == quantile_upper_us(hist, num, den, round)
           need == Need(num, den, Len(lates), round)
           lost == IF den * Len(lates) >= Rough THEN 1 ELSE 0
           enough == {i \in Buckets : Seen(hist, i) >= need}
<1>1. Total(hist) = Len(lates) /\ Len(lates) \in Nat
  BY TotalIsLen
<1>2. CASE lates = <<>>
  <2>1. Len(lates) = 0
    BY <1>2
  <2>2. edge = 0
    BY <1>1, <2>1, Zenon DEF quantile_upper_us
  <2> QED
    BY <1>2, <2>2, Zenon DEF QuantileWithinBucket
<1>3. CASE lates # <<>>
  <2>1. Len(lates) \in Nat \ {0}
    BY <1>3
  <2>2. /\ need \in 1 .. Len(lates)
        /\ den * (need + lost) >= num * Len(lates) /\ den * (need - 1 - lost) <= num * Len(lates)
    BY <2>1, NeedWithin, Zenon
  <2>3. need \in Nat /\ 0 < need /\ Len(lates) >= need
    BY <2>2
  <2>4. buckets - 1 \in enough
    BY <1>1, <2>3, BucketsFrom0, Zenon DEF Total
  <2> DEFINE i == First(enough)
  <2>5. edge = upper_us(i)
    <3>1. Len(lates) # 0 /\ enough # {}
      BY <2>1, <2>4
    <3> QED
      BY <1>1, <3>1, Zenon DEF quantile_upper_us
  <2>6. i \in Buckets /\ Seen(hist, i) >= need /\ \A j \in Buckets : Seen(hist, j) >= need => i <= j
    <3>1. i \in enough /\ \A j \in enough : i <= j
      BY <2>4, FirstIsLeast, Zenon
    <3> QED
      BY <3>1, Zenon
  <2> HIDE DEF i, edge, need, lost, enough, hist
  <2>7. Earlier(lates, lower_us(i)) < need
    <3>1. CASE i = 0
      <4>1. {k \in DOMAIN lates : lates[k] < 0} = {}
        OBVIOUS
      <4>2. lower_us(i) = 0
        BY <3>1 DEF lower_us
      <4>3. Earlier(lates, lower_us(i)) = 0
        BY <4>1, <4>2, FS_EmptySet, Zenon DEF Earlier
      <4> QED
        BY <2>3, <4>3
    <3>2. CASE i # 0
      <4>1. i - 1 \in Buckets /\ i - 1 # buckets - 1 /\ ~(i <= i - 1) /\ lower_us(i) = upper_us(i - 1)
        BY <2>6, <3>2, BucketsFrom0 DEF lower_us
      <4>2. ~(Seen(hist, i - 1) >= need)
        BY <2>6, <4>1, Zenon
      <4>3. Earlier(lates, lower_us(i)) = Seen(hist, i - 1)
        BY <4>1, EarlierIsSeen, Zenon DEF hist
      <4>4. Seen(hist, i - 1) \in Nat
        BY <4>1, SeenCounts, HistogramType, SeenType, Zenon DEF hist
      <4> QED
        BY <2>3, <4>2, <4>3, <4>4
    <3> QED
      BY <3>1, <3>2
  <2>8. i = buckets - 1 \/ Earlier(lates, edge) >= need
    BY <2>5, <2>6, EarlierIsSeen, Zenon DEF hist
  <2> QED
    BY <1>3, <2>2, <2>5, <2>6, <2>7, <2>8, Zenon DEF QuantileWithinBucket, hist, edge, need, lost
<1> QED
  BY <1>2, <1>3

-----------------------------------------------------------------------------
(* The histogram.  A tick that has counted its bucket and not yet raised   *)
(* max_us, and what max_us is once it has.                                 *)
Tallying == loop \in {"wakes", "sum", "max"}

Highest == IF Tallying /\ late > max_us THEN late ELSE max_us

(* The buckets are ahead of wakes by the wake in progress, and the highest *)
(* one that is not empty is that of Highest.                               *)
HistogramInv ==
    /\ Total(count) = wakes + IF loop = "wakes" THEN 1 ELSE 0
    /\ \A i \in Buckets : count[i] > 0 => i <= index_of(Highest)
    /\ wakes > 0 \/ Tallying => count[index_of(Highest)] > 0
    /\ wakes = 0 => max_us = 0 /\ loop \notin {"sum", "max"}

SameTally == UNCHANGED counters /\ (UNCHANGED <<loop, late>> \/ (~Tallying /\ ~Tallying'))

(* Which actions matter to it.                                             *)
LEMMA TallyFootprints ==
    ASSUME [ProbeNext]_probeVars
    PROVE  CountBucket \/ CountWake \/ AddSum \/ RaiseMax \/ SameTally
<1> USE DEF counters, Tallying, SameTally
<1>1. Start => SameTally
  BY DEF Start
<1>2. StartArm => SameTally
  BY DEF StartArm
<1>3. RunCancel => SameTally
  BY DEF RunCancel
<1>4. \A w \in waits, us \in Lates : Tick(w, us) => SameTally
  BY DEF Tick
<1>5. \A w \in waits : Expire(w) => SameTally
  BY DEF Expire
<1>6. \A t \in Stoppers : StopTest(t) => SameTally
  BY DEF StopTest
<1>7. \A t \in Stoppers : StopExchange(t) => SameTally
  BY DEF StopExchange
<1>8. \A t \in Stoppers : StopPost(t) => SameTally
  BY DEF StopPost
<1>9. Rearm => SameTally
  BY DEF Rearm
<1>10. note_activity => SameTally
  BY DEF note_activity
<1>11. ReadBuckets \/ ReadTotal \/ ReturnSnapshot => SameTally
  BY DEF ReadBuckets, ReadTotal, ReturnSnapshot
<1>12. UNCHANGED probeVars => SameTally
  BY DEF probeVars
<1> HIDE DEF counters, Tallying, SameTally
<1> QED
  BY <1>1, <1>2, <1>3, <1>4, <1>5, <1>6, <1>7, <1>8, <1>9, <1>10, <1>11, <1>12, Zenon
  DEF ProbeNext, LoopStep, Stop

(* An empty histogram adds up to nothing.                                  *)
LEMMA TotalOfZeros == Zeros \in [Buckets -> Nat] /\ Total(Zeros) = 0
<1> DEFINE S == {i \in Nat : Seen(Zeros, i) = 0}
<1>1. Zeros \in [Buckets -> Nat] /\ \A i \in Buckets : Zeros[i] = 0
  BY DEF Zeros
<1>2. 0 \in S
  BY <1>1, SeenStep, BucketsFrom0
<1>3. ASSUME NEW i \in Buckets, i # 0, i - 1 \in S
      PROVE  i \in S
  <2>1. Seen(Zeros, i) = Zeros[i] + Seen(Zeros, i - 1)
    BY <1>1, <1>3, SeenStep, Zenon
  <2>2. Seen(Zeros, i) = 0 + 0
    BY <1>1, <1>3, <2>1, Zenon
  <2> QED
    BY <2>2, BucketsFrom0
<1> HIDE DEF S
<1>4. Buckets \subseteq S
  BY <1>2, <1>3, BucketInduction, Zenon
<1>5. Seen(Zeros, buckets - 1) = 0
  BY <1>4, BucketsFrom0, Zenon DEF S
<1> QED
  BY <1>1, <1>5, Zenon DEF Total

(* A later wake is in a later bucket, or the same.                         *)
LEMMA IndexMonotone ==
    ASSUME NEW us \in Nat, NEW vs \in Nat, us <= vs
    PROVE  index_of(us) \in Buckets /\ index_of(vs) \in Buckets /\ index_of(us) <= index_of(vs)
<1> DEFINE i == index_of(us)
           j == index_of(vs)
<1>1. i \in Buckets /\ j \in Buckets
  BY InItsBucket
<1>2. CASE j = buckets - 1
  BY <1>1, <1>2, BucketsFrom0
<1>3. CASE j # buckets - 1
  <2>1. vs < upper_us(j)
    BY <1>3, InItsBucket
  <2>2. us < upper_us(j)
    BY <1>1, <2>1, EdgesAscend
  <2> QED
    BY <1>1, <1>3, <2>2, EarlierThanEdge
<1> QED
  BY <1>1, <1>2, <1>3

(* Nothing has been counted.                                               *)
LEMMA InitHistogram == ProbeInit => HistogramInv
<1> SUFFICES ASSUME ProbeInit PROVE HistogramInv
  OBVIOUS
<1>1. count = Zeros /\ wakes = 0 /\ max_us = 0 /\ loop = "idle"
  BY DEF ProbeInit
<1>2. \A i \in Buckets : ~(count[i] > 0)
  BY <1>1 DEF Zeros
<1> QED
  BY <1>1, <1>2, TotalOfZeros DEF HistogramInv, Tallying

(* Every step keeps it.                                                    *)
LEMMA NextHistogram == ProbeTypeOK /\ HistogramInv /\ [ProbeNext]_probeVars => HistogramInv'
<1> SUFFICES ASSUME ProbeTypeOK, HistogramInv, [ProbeNext]_probeVars PROVE HistogramInv'
  OBVIOUS
<1>1. count \in [Buckets -> Nat] /\ wakes \in Nat /\ max_us \in Nat /\ late \in Nat
  BY LagProbeAssumption DEF ProbeTypeOK
<1>2. CASE SameTally
  <2>1. UNCHANGED <<count, wakes, max_us>> /\ Highest' = Highest /\ (Tallying' <=> Tallying)
    BY <1>2 DEF SameTally, counters, Highest, Tallying
  <2>2. \A l \in {"wakes", "sum", "max"} : (loop = l)' <=> (loop = l)
    BY <1>2 DEF SameTally, Tallying
  <2>3. (Total(count) = wakes + IF loop = "wakes" THEN 1 ELSE 0)'
    BY <2>1, <2>2 DEF HistogramInv
  <2>4. (wakes = 0 => max_us = 0 /\ loop \notin {"sum", "max"})'
    BY <2>1, <2>2 DEF HistogramInv
  <2> QED
    BY <2>1, <2>3, <2>4, Zenon DEF HistogramInv
<1>3. CASE CountBucket
  <2> DEFINE b == index_of(late)
             old == index_of(max_us)
             new == index_of(Highest')
  <2>1. /\ count' = [count EXCEPT ![b] = @ + 1] /\ UNCHANGED <<wakes, max_us, late>>
        /\ loop = "count" /\ loop' = "wakes"
    BY <1>3, Zenon DEF CountBucket
  <2>2. ~Tallying /\ Tallying' /\ Highest = max_us /\ Highest' = IF late > max_us THEN late ELSE max_us
    BY <2>1 DEF Tallying, Highest
  <2>3. {b, old, new} \subseteq Buckets /\ b <= new /\ old <= new
    BY <1>1, <2>2, IndexMonotone
  <2>4. Buckets \subseteq Nat /\ buckets - 1 \in Buckets /\ \A i \in Buckets : i <= buckets - 1
    BY BucketsFrom0
  <2>5. new = IF late > max_us THEN b ELSE old
    BY <2>2
  <2> HIDE DEF b, old, new
  <2>6. \A i \in Buckets : count'[i] = IF i = b THEN count[i] + 1 ELSE count[i]
    BY <1>1, <2>1
  <2>7. Total(count') = Total(count) + 1
    <3>1. b <= buckets - 1
      BY <2>3, <2>4, Zenon
    <3>2. Seen([count EXCEPT ![b] = @ + 1], buckets - 1) = Seen(count, buckets - 1) + IF b <= buckets - 1 THEN 1 ELSE 0
      BY <1>1, <2>3, <2>4, SeenRaised, Zenon
    <3> QED
      BY <2>1, <3>1, <3>2, Zenon DEF Total
  <2>8. Total(count') = wakes' + 1
    BY <1>1, <2>1, <2>7 DEF HistogramInv
  <2>9. \A i \in Buckets : count[i] > 0 => i <= old
    BY <2>2 DEF HistogramInv, old
  <2>10. ASSUME NEW i \in Buckets, count'[i] > 0
         PROVE  i <= new
    <3>1. CASE i = b
      BY <2>3, <3>1
    <3>2. CASE i # b
      <4>1. i <= old
        BY <2>6, <2>9, <2>10, <3>2
      <4>2. i \in Nat /\ old \in Nat /\ new \in Nat
        BY <2>3, <2>4, Zenon
      <4>3. old <= new
        BY <2>3, Zenon
      <4> QED
        BY <4>1, <4>2, <4>3
    <3> QED
      BY <3>1, <3>2
  <2>11. wakes > 0 => count[old] > 0
    BY <2>2 DEF HistogramInv, old
  <2>12. wakes = 0 => max_us = 0
    BY Zenon DEF HistogramInv
  <2>13. count'[new] > 0
    <3>1. CASE late > max_us \/ late = max_us
      <4>1. new = b
        BY <1>1, <2>5, <3>1 DEF b, old
      <4> QED
        BY <1>1, <2>3, <2>6, <4>1
    <3>2. CASE late < max_us
      <4>1. new = old /\ wakes > 0
        BY <1>1, <2>5, <2>12, <3>2
      <4> QED
        BY <1>1, <2>3, <2>6, <2>11, <4>1
    <3> QED
      BY <1>1, <3>1, <3>2
  <2>14. (Total(count) = wakes + IF loop = "wakes" THEN 1 ELSE 0)'
    BY <2>1, <2>8
  <2>15. (\A i \in Buckets : count[i] > 0 => i <= index_of(Highest))' /\ (count[index_of(Highest)] > 0)'
    BY <2>10, <2>13, Zenon DEF new
  <2>16. (wakes = 0 => max_us = 0 /\ loop \notin {"sum", "max"})'
    BY <2>1, <2>12
  <2> QED
    BY <2>14, <2>15, <2>16, Zenon DEF HistogramInv
<1>4. CASE CountWake
  <2>1. /\ wakes' = wakes + 1 /\ UNCHANGED <<count, max_us, late>>
        /\ loop = "wakes" /\ loop' = "sum"
    BY <1>4, Zenon DEF CountWake
  <2>2. Tallying /\ Tallying' /\ Highest' = Highest
    BY <2>1 DEF Tallying, Highest
  <2> QED
    BY <1>1, <2>1, <2>2 DEF HistogramInv
<1>5. CASE AddSum
  <2>1. UNCHANGED <<wakes, count, max_us, late>> /\ loop = "sum" /\ loop' = "max"
    BY <1>5, Zenon DEF AddSum
  <2>2. Tallying /\ Tallying' /\ Highest' = Highest
    BY <2>1 DEF Tallying, Highest
  <2> QED
    BY <1>1, <2>1, <2>2 DEF HistogramInv
<1>6. CASE RaiseMax
  <2>1. /\ UNCHANGED <<wakes, count>> /\ loop = "max" /\ loop' = "rearm"
        /\ max_us' = IF late > max_us THEN late ELSE max_us
    BY <1>6, Zenon DEF RaiseMax
  <2>2. Tallying /\ ~Tallying' /\ Highest' = Highest
    BY <2>1 DEF Tallying, Highest
  <2>3. wakes > 0
    BY <1>1, <2>1 DEF HistogramInv
  <2>4. (Total(count) = wakes + IF loop = "wakes" THEN 1 ELSE 0)'
    BY <2>1 DEF HistogramInv
  <2>5. (wakes = 0 => max_us = 0 /\ loop \notin {"sum", "max"})'
    BY <2>1, <2>3
  <2> QED
    BY <2>1, <2>2, <2>4, <2>5, Zenon DEF HistogramInv
<1> QED
  BY <1>2, <1>3, <1>4, <1>5, <1>6, TallyFootprints, Zenon

(* The histogram adds up between ticks and its highest bucket is that of   *)
(* max_us, and what no variable matters to holds of every lateness.        *)
THEOREM HistogramAddsUp == ProbeSpec => []HistogramBounds
<1>1. Sampled \subseteq Nat
  <2>1. Top \in Nat
    BY Pow2Type, LagSnapshotAssumption DEF Top
  <2> QED
    BY <2>1, EdgesAscend DEF Sampled
<1>2. \A n \in Nat : Samples(n) \subseteq Seq(Nat)
  <2>1. ASSUME NEW k \in Nat, NEW lates \in [1..k -> Sampled]
        PROVE  lates \in Seq(Nat)
    <3>1. lates \in [1..k -> Nat]
      BY <1>1, Zenon
    <3> QED
      BY <3>1
  <2>2. \A n \in Nat : 0..n \subseteq Nat
    OBVIOUS
  <2> QED
    BY <2>1, <2>2, Zenon DEF Samples
<1>3. EdgesPartition({0} \cup NearEdges)
  <2>1. \A i \in Buckets : {upper_us(i) - 1, upper_us(i), upper_us(i) + 1} \subseteq Nat
    BY EdgesAscend
  <2>2. 0 \in Nat
    OBVIOUS
  <2>3. {0} \cup NearEdges \subseteq Nat
    BY <2>1, <2>2, Zenon DEF NearEdges
  <2> QED
    BY <2>3, EdgesPartitionTime, Zenon DEF EdgesPartition
<1>4. \A lates \in Samples(3), num \in 0..10, round \in -1..1 : QuantileWithinBucket(lates, num, 10, round)
  <2>1. 3 \in Nat /\ 10 \in Nat \ {0}
    OBVIOUS
  <2> QED
    BY <1>2, <2>1, QuantilesWithinBucket, Zenon
<1>5. ProbeTypeOK /\ HistogramInv => HistogramBounds
  <2> SUFFICES ASSUME ProbeTypeOK, HistogramInv, loop \in {"idle", "starting"}
               PROVE  /\ Total(count) = wakes
                      /\ \A i \in Buckets : count[i] > 0 => i <= index_of(max_us)
                      /\ wakes > 0 => count[index_of(max_us)] > 0
    BY <1>3, <1>4, Zenon DEF HistogramBounds
  <2>1. ~Tallying /\ loop # "wakes" /\ Highest = max_us
    BY DEF Highest, Tallying
  <2>2. Total(count) = wakes
    BY <2>1 DEF HistogramInv, ProbeTypeOK
  <2> QED
    BY <2>1, <2>2, Zenon DEF HistogramInv
<1> QED
  BY <1>5, InitType, NextType, InitHistogram, NextHistogram, PTL DEF ProbeSpec

=============================================================================
