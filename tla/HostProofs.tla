----------------------------- MODULE HostProofs -----------------------------
(***************************************************************************)
(* What runs between the threads of a host and its loops.                  *)
(* ConnectionAdmission, for any maximum and number of threads: the maximum *)
(* holds, every place is given back once, the statistics are exact with    *)
(* nobody inside, and try_enter() keeps the promise of Admission.          *)
(* PeriodicTimer, for any number of callers, calls and generations, calls  *)
(* back never stale, along one chain of firings, with the repeat of the    *)
(* last start().  Signal's sends coalesce and lose no wake.                *)
(***************************************************************************)
EXTENDS PeriodicTimer, Signal, ConnectionAdmission, FiniteSetTheorems, SequenceTheorems, TLAPS

-----------------------------------------------------------------------------
(* ConnectionAdmission.                                                    *)

(* Threads that took a place and have not counted it yet, and threads that *)
(* refused and have not.                                                   *)
Uncounted == {t \in Threads : pc[t] \in {"entered", "counting"}}
Unrefused == {t \in Threads : pc[t] = "refused"}

(* Threads that may still raise high_water.                                *)
Rising == {"entered", "counting", "counted", "raising"}

(* A highest value that high_water has not reached is in the hands of a    *)
(* thread that will raise it, and no copy of high_water is ahead of it.    *)
HighWaterInv ==
    /\ high_water <= peak
    /\ high_water < peak => \E t \in Threads : pc[t] \in Rising /\ value[t] + 1 = peak
    /\ \A t \in Threads : pc[t] \in Rising => value[t] + 1 <= peak
    /\ \A t \in Threads : pc[t] = "raising" => seen[t] <= high_water

(* A counter and the threads on their way to it make up the history,       *)
(* exactly so until the counter is saturated.                              *)
Exact(counter, waiting, total) ==
    /\ counter <= CounterMax
    /\ counter + waiting <= total
    /\ counter < CounterMax => counter + waiting = total

CountersInv ==
    /\ Exact(accepted, Cardinality(Uncounted), admissions)
    /\ Exact(rejected, Cardinality(Unrefused), refusals)
    /\ \A t \in Threads : /\ pc[t] = "counting" => seen[t] <= accepted
                          /\ pc[t] = "refused" => seen[t] <= rejected

PlacesInv == TypeOK /\ PlacesExact /\ WithinMaximum

-----------------------------------------------------------------------------
(* The cardinalities the invariants speak of are numbers.                  *)
LEMMA Finite ==
  ASSUME TypeOK
  PROVE  /\ IsFiniteSet(held) /\ Cardinality(held) \in Nat
         /\ IsFiniteSet(Inside) /\ Cardinality(Inside) \in Nat
         /\ IsFiniteSet(Uncounted) /\ Cardinality(Uncounted) \in Nat
         /\ IsFiniteSet(Unrefused) /\ Cardinality(Unrefused) \in Nat
<1>1. held \in SUBSET Leases
  BY DEF TypeOK
<1>2. Inside \in SUBSET Threads /\ Uncounted \in SUBSET Threads /\ Unrefused \in SUBSET Threads
  BY DEF Inside, Uncounted, Unrefused
<1> QED
  BY <1>1, <1>2, AdmissionAssumption, FS_Subset, FS_CardinalityType

(* A thread that takes its place is one more inside.                       *)
LEMMA GetsInside ==
  ASSUME TypeOK, NEW t \in Threads, pc[t] \notin Entered,
         NEW s \in Entered, pc' = [pc EXCEPT ![t] = s]
  PROVE  Cardinality(Inside') = Cardinality(Inside) + 1
<1>1. Inside' = Inside \cup {t} /\ t \notin Inside
  BY DEF Inside, TypeOK
<1> QED
  BY <1>1, Finite, FS_AddElement, Zenon

(* A thread that returns its lease is one fewer.                           *)
LEMMA GetsOutside ==
  ASSUME TypeOK, NEW t \in Threads, pc[t] \in Entered,
         NEW s, s \notin Entered, pc' = [pc EXCEPT ![t] = s]
  PROVE  Cardinality(Inside') = Cardinality(Inside) - 1
<1>1. Inside' = Inside \ {t} /\ t \in Inside
  BY DEF Inside, TypeOK
<1> QED
  BY <1>1, Finite, FS_RemoveElement, Zenon

(* Everything else try_enter() does leaves the threads inside as they are. *)
LEMMA StaysInside ==
  ASSUME TypeOK, NEW t \in Threads, NEW s, pc[t] \in Entered <=> s \in Entered,
         pc' = [pc EXCEPT ![t] = s]
  PROVE  Inside' = Inside
  BY DEF Inside, TypeOK

(* The leases out after a move assignment: what g held is given back.      *)
LEMMA MovedLeases ==
  ASSUME TypeOK, NEW h \in Leases, NEW g \in Leases, MoveAssign(h, g)
  PROVE  Cardinality(held') = IF g \in held THEN Cardinality(held) - 1 ELSE Cardinality(held)
<1>1. CASE h \notin held
  <2>1. held' = held \ {g}
    BY <1>1 DEF MoveAssign
  <2> QED
    BY <2>1, Finite, FS_RemoveElement, Zenon
<1>2. CASE h \in held
  <2>1. held' = (held \ {h}) \cup {g} /\ h # g
    BY <1>2 DEF MoveAssign
  <2>2. IsFiniteSet(held \ {h}) /\ Cardinality(held \ {h}) = Cardinality(held) - 1
    BY <1>2, Finite, FS_RemoveElement
  <2>3. Cardinality((held \ {h}) \cup {g}) =
          IF g \in held \ {h} THEN Cardinality(held \ {h}) ELSE Cardinality(held \ {h}) + 1
    BY <2>2, FS_AddElement
  <2> QED
    BY <2>1, <2>2, <2>3, Finite
<1> QED
  BY <1>1, <1>2

-----------------------------------------------------------------------------
(* Initially nobody holds a place.                                         *)
LEMMA PlacesInit == Init => PlacesInv
<1> SUFFICES ASSUME Init PROVE PlacesInv
  OBVIOUS
<1>1. TypeOK
  BY DEF Init, TypeOK
<1>2. Inside = {} /\ held = {}
  BY DEF Init, Inside, Entered
<1> QED
  BY <1>1, <1>2, FS_EmptySet, AdmissionAssumption DEF Init, PlacesInv, PlacesExact, WithinMaximum

(* Every step keeps the places in order.                                   *)
LEMMA PlacesNext == PlacesInv /\ [Next]_vars => PlacesInv'
<1> SUFFICES ASSUME PlacesInv, [Next]_vars PROVE PlacesInv'
  OBVIOUS
<1> USE AdmissionAssumption, Finite DEF PlacesInv, stateVars, history
<1>1. ASSUME NEW t \in Threads, LoadActive(t) PROVE PlacesInv'
  <2>1. TypeOK'
    BY <1>1 DEF LoadActive, TypeOK
  <2>2. Inside' = Inside
    BY <1>1, StaysInside, Zenon DEF LoadActive, Entered
  <2> QED
    BY <1>1, <2>1, <2>2 DEF LoadActive, PlacesExact, WithinMaximum
<1>2. ASSUME NEW t \in Threads, Refuse(t) PROVE PlacesInv'
  <2>1. TypeOK'
    BY <1>2 DEF Refuse, TypeOK
  <2>2. Inside' = Inside
    BY <1>2, StaysInside, Zenon DEF Refuse, Entered
  <2> QED
    BY <1>2, <2>1, <2>2 DEF Refuse, PlacesExact, WithinMaximum
<1>3. ASSUME NEW t \in Threads, CountRefused(t) PROVE PlacesInv'
  <2>1. TypeOK'
    BY <1>3 DEF CountRefused, TypeOK
  <2>2. Inside' = Inside
    BY <1>3, StaysInside DEF CountRefused, Entered, Inside
  <2> QED
    BY <1>3, <2>1, <2>2 DEF CountRefused, PlacesExact, WithinMaximum
<1>4. ASSUME NEW t \in Threads, TakePlace(t) PROVE PlacesInv'
  <2>1. TypeOK'
    BY <1>4 DEF TakePlace, TypeOK, Entered
  <2>2. CASE active = value[t]
    <3>1. Cardinality(Inside') = Cardinality(Inside) + 1
      BY <1>4, <2>2, GetsInside DEF TakePlace, Entered
    <3> QED
      BY <1>4, <2>1, <2>2, <3>1 DEF TakePlace, PlacesExact, WithinMaximum, TypeOK
  <2>3. CASE active # value[t]
    BY <1>4, <2>1, <2>3 DEF TakePlace, PlacesExact, WithinMaximum, Inside
  <2> QED
    BY <2>2, <2>3
<1>5. ASSUME NEW t \in Threads, LoadAccepted(t) PROVE PlacesInv'
  <2>1. TypeOK'
    BY <1>5 DEF LoadAccepted, TypeOK, Entered
  <2>2. Inside' = Inside
    BY <1>5, StaysInside, Zenon DEF LoadAccepted, Entered
  <2> QED
    BY <1>5, <2>1, <2>2 DEF LoadAccepted, PlacesExact, WithinMaximum
<1>6. ASSUME NEW t \in Threads, CountAccepted(t) PROVE PlacesInv'
  <2>1. TypeOK'
    BY <1>6 DEF CountAccepted, TypeOK, Entered
  <2>2. Inside' = Inside
    BY <1>6, StaysInside DEF CountAccepted, Entered, Inside
  <2> QED
    BY <1>6, <2>1, <2>2 DEF CountAccepted, PlacesExact, WithinMaximum
<1>7. ASSUME NEW t \in Threads, LoadHigh(t) PROVE PlacesInv'
  <2>1. TypeOK'
    BY <1>7 DEF LoadHigh, TypeOK, Entered
  <2>2. Inside' = Inside
    BY <1>7, StaysInside, Zenon DEF LoadHigh, Entered
  <2> QED
    BY <1>7, <2>1, <2>2 DEF LoadHigh, PlacesExact, WithinMaximum
<1>8. ASSUME NEW t \in Threads, RaiseHigh(t) PROVE PlacesInv'
  <2>1. TypeOK'
    BY <1>8 DEF RaiseHigh, TypeOK, Entered
  <2>2. Inside' = Inside
    BY <1>8, StaysInside DEF RaiseHigh, Entered, Inside
  <2> QED
    BY <1>8, <2>1, <2>2 DEF RaiseHigh, PlacesExact, WithinMaximum
<1>9. ASSUME NEW t \in Threads, NEW h \in Leases, ReturnLease(t, h) PROVE PlacesInv'
  <2>1. TypeOK'
    BY <1>9 DEF ReturnLease, TypeOK
  <2>2. Cardinality(Inside') = Cardinality(Inside) - 1
    BY <1>9, GetsOutside, Zenon DEF ReturnLease, Entered
  <2>3. Cardinality(held') = Cardinality(held) + 1
    BY <1>9, FS_AddElement, Zenon DEF ReturnLease
  <2> QED
    BY <1>9, <2>1, <2>2, <2>3 DEF ReturnLease, PlacesExact, WithinMaximum
<1>10. ASSUME NEW h \in Leases, Reset(h) PROVE PlacesInv'
  <2>1. Inside' = Inside
    BY <1>10 DEF Reset, Inside
  <2>2. Cardinality(held') = Cardinality(held) - 1
    BY <1>10, FS_RemoveElement, Zenon DEF Reset
  <2>3. Cardinality(held) # 0
    BY <1>10, FS_EmptySet DEF Reset
  <2>4. active' \in Nat /\ active' = active - 1
    BY <1>10, <2>3 DEF Reset, PlacesExact
  <2>5. TypeOK'
    BY <1>10, <2>4 DEF Reset, TypeOK
  <2> QED
    BY <1>10, <2>1, <2>2, <2>4, <2>5 DEF Reset, PlacesExact, WithinMaximum, TypeOK
<1>11. ASSUME NEW h \in Leases, NEW g \in Leases, MoveAssign(h, g) PROVE PlacesInv'
  <2>1. Inside' = Inside
    BY <1>11 DEF MoveAssign, Inside
  <2>2. Cardinality(held') = IF g \in held THEN Cardinality(held) - 1 ELSE Cardinality(held)
    BY <1>11, MovedLeases
  <2>3. g \in held => Cardinality(held) # 0
    BY FS_EmptySet
  <2>4. active' \in Nat /\ active' = IF g \in held THEN active - 1 ELSE active
    BY <1>11, <2>3 DEF MoveAssign, PlacesExact, TypeOK
  <2>5. TypeOK'
    BY <1>11, <2>4 DEF MoveAssign, TypeOK
  <2> QED
    BY <1>11, <2>1, <2>2, <2>4, <2>5 DEF MoveAssign, PlacesExact, WithinMaximum, TypeOK
<1>12. ASSUME UNCHANGED vars PROVE PlacesInv'
  BY <1>12 DEF vars, TypeOK, PlacesExact, WithinMaximum, Inside
<1> QED
  BY <1>1, <1>2, <1>3, <1>4, <1>5, <1>6, <1>7, <1>8, <1>9, <1>10, <1>11, <1>12 DEF Next

(* The inductive invariant of the places.                                  *)
LEMMA PlacesHold == Spec => []PlacesInv
  BY PlacesInit, PlacesNext, PTL DEF Spec

(* The variables keep their types: active never goes below zero.           *)
THEOREM TypeCorrect == Spec => []TypeOK
  BY PlacesHold, PTL DEF PlacesInv

(* The bound on live connections holds for any number of threads that call *)
(* try_enter() and drop leases (connection_admission.h:66-75).             *)
THEOREM NeverOverMaximum == Spec => []WithinMaximum
  BY PlacesHold, PTL DEF PlacesInv

(* Every place is given back exactly once, through moves, resets and       *)
(* destructors (connection_admission.h:34-59).                             *)
THEOREM EveryPlaceGivenBackOnce == Spec => []PlacesExact
  BY PlacesHold, PTL DEF PlacesInv

-----------------------------------------------------------------------------
(* Initially nothing was ever active.                                      *)
LEMMA HighWaterInit == Init => HighWaterInv
  BY DEF Init, HighWaterInv, Rising

(* Every step keeps the invariant of high_water: only taking a place and   *)
(* raising the mark touch what it speaks of.                               *)
LEMMA HighWaterNext == TypeOK /\ HighWaterInv /\ [Next]_vars => HighWaterInv'
<1> SUFFICES ASSUME TypeOK, HighWaterInv, [Next]_vars PROVE HighWaterInv'
  OBVIOUS
<1> USE AdmissionAssumption DEF stateVars, history
<1>1. ASSUME NEW t \in Threads, LoadActive(t) PROVE HighWaterInv'
  BY <1>1 DEF LoadActive, TypeOK, HighWaterInv, Rising
<1>2. ASSUME NEW t \in Threads, Refuse(t) PROVE HighWaterInv'
  BY <1>2 DEF Refuse, TypeOK, HighWaterInv, Rising
<1>3. ASSUME NEW t \in Threads, CountRefused(t) PROVE HighWaterInv'
  BY <1>3 DEF CountRefused, TypeOK, HighWaterInv, Rising
<1>4. ASSUME NEW t \in Threads, TakePlace(t) PROVE HighWaterInv'
  <2>1. CASE active = value[t] /\ active + 1 > peak
    <3>1. /\ peak' = value[t] + 1 /\ value' = value /\ seen' = seen
          /\ high_water' = high_water /\ pc' = [pc EXCEPT ![t] = "entered"]
      BY <1>4, <2>1 DEF TakePlace, TypeOK
    <3> QED
      BY <2>1, <3>1 DEF TypeOK, HighWaterInv, Rising
  <2>2. CASE active = value[t] /\ ~(active + 1 > peak)
    <3>1. /\ pc[t] = "loop"
          /\ peak' = peak /\ value' = value /\ seen' = seen
          /\ high_water' = high_water /\ pc' = [pc EXCEPT ![t] = "entered"]
      BY <1>4, <2>2 DEF TakePlace, TypeOK
    <3> QED
      BY <2>2, <3>1 DEF TypeOK, HighWaterInv, Rising
  <2>3. CASE active # value[t]
    BY <1>4, <2>3 DEF TakePlace, TypeOK, HighWaterInv, Rising
  <2> QED
    BY <2>1, <2>2, <2>3
<1>5. ASSUME NEW t \in Threads, LoadAccepted(t) PROVE HighWaterInv'
  BY <1>5 DEF LoadAccepted, TypeOK, HighWaterInv, Rising
<1>6. ASSUME NEW t \in Threads, CountAccepted(t) PROVE HighWaterInv'
  BY <1>6 DEF CountAccepted, TypeOK, HighWaterInv, Rising
<1>7. ASSUME NEW t \in Threads, LoadHigh(t) PROVE HighWaterInv'
  BY <1>7 DEF LoadHigh, TypeOK, HighWaterInv, Rising
<1>8. ASSUME NEW t \in Threads, RaiseHigh(t) PROVE HighWaterInv'
  <2>1. CASE seen[t] >= value[t] + 1
    BY <1>8, <2>1 DEF RaiseHigh, TypeOK, HighWaterInv, Rising
  <2>2. CASE ~(seen[t] >= value[t] + 1) /\ seen[t] = high_water
    BY <1>8, <2>2 DEF RaiseHigh, TypeOK, HighWaterInv, Rising
  <2>3. CASE ~(seen[t] >= value[t] + 1) /\ seen[t] # high_water
    BY <1>8, <2>3 DEF RaiseHigh, TypeOK, HighWaterInv, Rising
  <2> QED
    BY <2>1, <2>2, <2>3
<1>9. ASSUME NEW t \in Threads, NEW h \in Leases, ReturnLease(t, h) PROVE HighWaterInv'
  BY <1>9 DEF ReturnLease, TypeOK, HighWaterInv, Rising
<1>10. ASSUME NEW h \in Leases, Reset(h) PROVE HighWaterInv'
  BY <1>10 DEF Reset, HighWaterInv
<1>11. ASSUME NEW h \in Leases, NEW g \in Leases, MoveAssign(h, g) PROVE HighWaterInv'
  BY <1>11 DEF MoveAssign, HighWaterInv
<1>12. ASSUME UNCHANGED vars PROVE HighWaterInv'
  BY <1>12 DEF vars, HighWaterInv
<1> QED
  BY <1>1, <1>2, <1>3, <1>4, <1>5, <1>6, <1>7, <1>8, <1>9, <1>10, <1>11, <1>12 DEF Next

(* With nobody inside, high_water is the highest number of connections     *)
(* there ever was (connection_admission.h:77-80).                          *)
THEOREM HighWaterIsThePeak == Spec => []HighWaterExact
<1>1. TypeOK /\ HighWaterInv => HighWaterExact
  BY DEF TypeOK, HighWaterInv, HighWaterExact, Rising
<1> QED
  BY <1>1, TypeCorrect, HighWaterInit, HighWaterNext, PTL DEF Spec

-----------------------------------------------------------------------------
(* A thread goes to a place of try_enter() that is neither before          *)
(* increment(accepted) nor before increment(rejected), nor comes from one. *)
LEMMA CountsUntouched ==
  ASSUME TypeOK, NEW t \in Threads, NEW s,
         pc[t] \notin {"entered", "counting", "refused"},
         s \notin {"entered", "counting", "refused"}, pc' = [pc EXCEPT ![t] = s]
  PROVE  Uncounted' = Uncounted /\ Unrefused' = Unrefused
  BY DEF TypeOK, Uncounted, Unrefused

(* Initially nobody called.                                                *)
LEMMA CountersInit == Init => CountersInv
<1> SUFFICES ASSUME Init PROVE CountersInv
  OBVIOUS
<1>1. Uncounted = {} /\ Unrefused = {}
  BY DEF Init, Uncounted, Unrefused
<1> QED
  BY <1>1, FS_EmptySet, AdmissionAssumption DEF Init, CountersInv, Exact

(* Every step keeps the counters and the threads on their way in balance.  *)
LEMMA CountersNext == TypeOK /\ CountersInv /\ [Next]_vars => CountersInv'
<1> SUFFICES ASSUME TypeOK, CountersInv, [Next]_vars PROVE CountersInv'
  OBVIOUS
<1> USE AdmissionAssumption, Finite DEF stateVars, history
<1>1. ASSUME NEW t \in Threads, LoadActive(t) PROVE CountersInv'
  <2>1. Uncounted' = Uncounted /\ Unrefused' = Unrefused
    BY <1>1, CountsUntouched, Zenon DEF LoadActive
  <2> QED
    BY <1>1, <2>1 DEF LoadActive, TypeOK, CountersInv
<1>2. ASSUME NEW t \in Threads, Refuse(t) PROVE CountersInv'
  <2>1. Uncounted' = Uncounted
    BY <1>2 DEF Refuse, TypeOK, Uncounted
  <2>2. Unrefused' = Unrefused \cup {t} /\ t \notin Unrefused
    BY <1>2 DEF Refuse, TypeOK, Unrefused
  <2>3. Cardinality(Unrefused') = Cardinality(Unrefused) + 1
    BY <2>2, FS_AddElement, Zenon
  <2>4. Exact(rejected, Cardinality(Unrefused), refusals)'
    BY <1>2, <2>3 DEF Refuse, TypeOK, CountersInv, Exact
  <2> QED
    BY <1>2, <2>1, <2>4 DEF Refuse, TypeOK, CountersInv
<1>3. ASSUME NEW t \in Threads, CountRefused(t) PROVE CountersInv'
  <2>1. CASE seen[t] = CounterMax \/ seen[t] = rejected
    <3>1. Uncounted' = Uncounted
      BY <1>3, <2>1 DEF CountRefused, TypeOK, Uncounted
    <3>2. Unrefused' = Unrefused \ {t} /\ t \in Unrefused
      BY <1>3, <2>1 DEF CountRefused, TypeOK, Unrefused
    <3>3. Cardinality(Unrefused') = Cardinality(Unrefused) - 1
      BY <3>2, FS_RemoveElement, Zenon
    <3>4. Exact(rejected, Cardinality(Unrefused), refusals)'
      BY <1>3, <2>1, <3>3 DEF CountRefused, TypeOK, CountersInv, Exact
    <3>5. rejected' >= rejected
      BY <1>3, <2>1 DEF CountRefused, TypeOK
    <3> QED
      BY <1>3, <2>1, <3>1, <3>4, <3>5 DEF CountRefused, TypeOK, CountersInv
  <2>2. CASE ~(seen[t] = CounterMax \/ seen[t] = rejected)
    BY <1>3, <2>2 DEF CountRefused, TypeOK, CountersInv, Uncounted, Unrefused
  <2> QED
    BY <2>1, <2>2
<1>4. ASSUME NEW t \in Threads, TakePlace(t) PROVE CountersInv'
  <2>1. CASE active = value[t]
    <3>1. Unrefused' = Unrefused
      BY <1>4, <2>1 DEF TakePlace, TypeOK, Unrefused
    <3>2. Uncounted' = Uncounted \cup {t} /\ t \notin Uncounted
      BY <1>4, <2>1 DEF TakePlace, TypeOK, Uncounted
    <3>3. Cardinality(Uncounted') = Cardinality(Uncounted) + 1
      BY <3>2, FS_AddElement, Zenon
    <3>4. Exact(accepted, Cardinality(Uncounted), admissions)'
      BY <1>4, <2>1, <3>3 DEF TakePlace, TypeOK, CountersInv, Exact
    <3> QED
      BY <1>4, <2>1, <3>1, <3>4 DEF TakePlace, TypeOK, CountersInv
  <2>2. CASE active # value[t]
    BY <1>4, <2>2 DEF TakePlace, TypeOK, CountersInv, Uncounted, Unrefused
  <2> QED
    BY <2>1, <2>2
<1>5. ASSUME NEW t \in Threads, LoadAccepted(t) PROVE CountersInv'
  <2>1. Uncounted' = Uncounted /\ Unrefused' = Unrefused
    BY <1>5 DEF LoadAccepted, TypeOK, Uncounted, Unrefused
  <2> QED
    BY <1>5, <2>1 DEF LoadAccepted, TypeOK, CountersInv
<1>6. ASSUME NEW t \in Threads, CountAccepted(t) PROVE CountersInv'
  <2>1. CASE seen[t] = CounterMax \/ seen[t] = accepted
    <3>1. Unrefused' = Unrefused
      BY <1>6, <2>1 DEF CountAccepted, TypeOK, Unrefused
    <3>2. Uncounted' = Uncounted \ {t} /\ t \in Uncounted
      BY <1>6, <2>1 DEF CountAccepted, TypeOK, Uncounted
    <3>3. Cardinality(Uncounted') = Cardinality(Uncounted) - 1
      BY <3>2, FS_RemoveElement, Zenon
    <3>4. Exact(accepted, Cardinality(Uncounted), admissions)'
      BY <1>6, <2>1, <3>3 DEF CountAccepted, TypeOK, CountersInv, Exact
    <3>5. accepted' >= accepted
      BY <1>6, <2>1 DEF CountAccepted, TypeOK
    <3> QED
      BY <1>6, <2>1, <3>1, <3>4, <3>5 DEF CountAccepted, TypeOK, CountersInv
  <2>2. CASE ~(seen[t] = CounterMax \/ seen[t] = accepted)
    BY <1>6, <2>2 DEF CountAccepted, TypeOK, CountersInv, Uncounted, Unrefused
  <2> QED
    BY <2>1, <2>2
<1>7. ASSUME NEW t \in Threads, LoadHigh(t) PROVE CountersInv'
  <2>1. Uncounted' = Uncounted /\ Unrefused' = Unrefused
    BY <1>7, CountsUntouched, Zenon DEF LoadHigh
  <2> QED
    BY <1>7, <2>1 DEF LoadHigh, TypeOK, CountersInv
<1>8. ASSUME NEW t \in Threads, RaiseHigh(t) PROVE CountersInv'
  <2>1. Uncounted' = Uncounted /\ Unrefused' = Unrefused
    BY <1>8 DEF RaiseHigh, TypeOK, Uncounted, Unrefused
  <2> QED
    BY <1>8, <2>1 DEF RaiseHigh, TypeOK, CountersInv
<1>9. ASSUME NEW t \in Threads, NEW h \in Leases, ReturnLease(t, h) PROVE CountersInv'
  <2>1. Uncounted' = Uncounted /\ Unrefused' = Unrefused
    BY <1>9, CountsUntouched, Zenon DEF ReturnLease
  <2> QED
    BY <1>9, <2>1 DEF ReturnLease, TypeOK, CountersInv
<1>10. ASSUME NEW h \in Leases, Reset(h) PROVE CountersInv'
  BY <1>10 DEF Reset, CountersInv, Uncounted, Unrefused
<1>11. ASSUME NEW h \in Leases, NEW g \in Leases, MoveAssign(h, g) PROVE CountersInv'
  BY <1>11 DEF MoveAssign, CountersInv, Uncounted, Unrefused
<1>12. ASSUME UNCHANGED vars PROVE CountersInv'
  BY <1>12 DEF vars, CountersInv, Uncounted, Unrefused
<1> QED
  BY <1>1, <1>2, <1>3, <1>4, <1>5, <1>6, <1>7, <1>8, <1>9, <1>10, <1>11, <1>12, SMTT(30) DEF Next

(* With nobody inside, accepted and rejected are the calls of each kind,   *)
(* saturated (connection_admission.h:26-31).                               *)
THEOREM CountersCountCalls == Spec => []CountersExact
<1>1. TypeOK /\ CountersInv => CountersExact
  <2> SUFFICES ASSUME TypeOK, CountersInv, \A t \in Threads : pc[t] = "idle"
               PROVE  accepted = Saturated(admissions) /\ rejected = Saturated(refusals)
    BY DEF CountersExact
  <2>1. Uncounted = {} /\ Unrefused = {}
    BY DEF Uncounted, Unrefused
  <2> QED
    BY <2>1, FS_EmptySet, AdmissionAssumption DEF TypeOK, CountersInv, Exact, Saturated
<1> QED
  BY <1>1, TypeCorrect, CountersInit, CountersNext, PTL DEF Spec

-----------------------------------------------------------------------------
(* What the callers see of a step of one thread: its own answer changes.   *)
LEMMA OneAnswer ==
  ASSUME TypeOK, NEW t \in Threads, NEW s, NEW v, NEW a,
         pc' = [pc EXCEPT ![t] = s], value' = [value EXCEPT ![t] = v],
         a = IF s = "idle" THEN "none"
             ELSE IF s \in Entered THEN "admitted"
             ELSE IF s = "refused" \/ v >= Maximum THEN "refused"
             ELSE "asking"
  PROVE  Answers' = [Answers EXCEPT ![t] = a]
  BY Zenon DEF TypeOK, Answers

(* A step that leaves the calls alone leaves the answers alone.            *)
LEMMA SameAnswers ==
  ASSUME UNCHANGED <<pc, value>> PROVE UNCHANGED Answers
  BY DEF Answers

(* Each step of the code is a step of the promise or invisible to the      *)
(* callers.                                                                *)
LEMMA StepKeepsPromise ==
  PlacesInv /\ [Next]_vars => [Promise!Next]_(Promise!vars)
<1> SUFFICES ASSUME PlacesInv, [Next]_vars
             PROVE  Promise!Next \/ UNCHANGED <<active, Cardinality(held), Answers>>
  BY DEF Promise!vars
<1> USE AdmissionAssumption, Finite DEF PlacesInv, stateVars, history
<1>1. ASSUME NEW t \in Threads, LoadActive(t) PROVE Promise!Next
  <2>1. Answers[t] = "none"
    BY <1>1 DEF LoadActive, Answers
  <2>2. CASE active >= Maximum
    <3>1. Answers' = [Answers EXCEPT ![t] = "refused"]
      BY <1>1, <2>2, OneAnswer, Zenon DEF LoadActive, Entered
    <3>2. active = Maximum
      BY <2>2 DEF WithinMaximum, TypeOK
    <3> QED
      BY <1>1, <2>1, <3>1, <3>2, Zenon DEF LoadActive, Promise!Next, Promise!Refuse
  <2>3. CASE ~(active >= Maximum)
    <3>1. Answers' = [Answers EXCEPT ![t] = "asking"]
      BY <1>1, <2>3, OneAnswer, Zenon DEF LoadActive, Entered
    <3> QED
      BY <1>1, <2>1, <3>1, Zenon DEF LoadActive, Promise!Next, Promise!Ask
  <2> QED
    BY <2>2, <2>3
<1>2. ASSUME NEW t \in Threads, Refuse(t) PROVE UNCHANGED <<active, held, Answers>>
  BY <1>2 DEF Refuse, TypeOK, Answers, Entered
<1>3. ASSUME NEW t \in Threads, CountRefused(t)
      PROVE  Promise!Next \/ UNCHANGED <<active, held, Answers>>
  <2>1. Answers[t] = "refused"
    BY <1>3 DEF CountRefused, Answers, Entered
  <2>2. CASE seen[t] = CounterMax \/ seen[t] = rejected
    <3>1. Answers' = [Answers EXCEPT ![t] = "none"]
      BY <1>3, <2>2, Zenon DEF CountRefused, TypeOK, Answers
    <3> QED
      BY <1>3, <2>1, <3>1, Zenon DEF CountRefused, Promise!Next, Promise!Answer
  <2>3. CASE ~(seen[t] = CounterMax \/ seen[t] = rejected)
    BY <1>3, <2>3, SameAnswers DEF CountRefused
  <2> QED
    BY <2>2, <2>3, SMTT(30)
<1>4. ASSUME NEW t \in Threads, TakePlace(t)
      PROVE  Promise!Next \/ UNCHANGED <<active, held, Answers>>
  <2>1. Answers[t] = "asking"
    BY <1>4 DEF TakePlace, TypeOK, Answers, Entered
  <2>2. CASE active = value[t]
    <3>1. Answers' = [Answers EXCEPT ![t] = "admitted"]
      BY <1>4, <2>2, Zenon DEF TakePlace, TypeOK, Answers, Entered
    <3> QED
      BY <1>4, <2>1, <2>2, <3>1, Zenon DEF TakePlace, Promise!Next, Promise!Admit
  <2>3. CASE active # value[t] /\ active >= Maximum
    <3>1. Answers' = [Answers EXCEPT ![t] = "refused"]
      BY <1>4, <2>3, Zenon DEF TakePlace, TypeOK, Answers, Entered
    <3>2. active = Maximum
      BY <2>3 DEF WithinMaximum, TypeOK
    <3> QED
      BY <1>4, <2>1, <2>3, <3>1, <3>2, Zenon DEF TakePlace, Promise!Next, Promise!Refuse
  <2>4. CASE active # value[t] /\ ~(active >= Maximum)
    <3>1. Answers' = Answers
      BY <1>4, <2>4 DEF TakePlace, TypeOK, Answers, Entered
    <3> QED
      BY <1>4, <2>4, <3>1 DEF TakePlace
  <2> QED
    BY <2>2, <2>3, <2>4
<1>5. ASSUME NEW t \in Threads, LoadAccepted(t) \/ CountAccepted(t) \/ LoadHigh(t) \/ RaiseHigh(t)
      PROVE  UNCHANGED <<active, held, Answers>>
  <2>1. /\ UNCHANGED <<active, held, value>>
        /\ pc[t] \in Entered
        /\ pc' = pc \/ \E s \in Entered : pc' = [pc EXCEPT ![t] = s]
    BY <1>5 DEF LoadAccepted, CountAccepted, LoadHigh, RaiseHigh, Entered
  <2>2. CASE pc' = pc
    BY <2>1, <2>2, SameAnswers
  <2>3. ASSUME NEW s \in Entered, pc' = [pc EXCEPT ![t] = s] PROVE UNCHANGED Answers
    BY <2>1, <2>3 DEF TypeOK, Answers, Entered
  <2> QED
    BY <2>1, <2>2, <2>3
<1>6. ASSUME NEW t \in Threads, NEW h \in Leases, ReturnLease(t, h) PROVE Promise!Next
  <2>1. Answers[t] = "admitted"
    BY <1>6 DEF ReturnLease, Answers, Entered
  <2>2. Answers' = [Answers EXCEPT ![t] = "none"]
    BY <1>6, Zenon DEF ReturnLease, TypeOK, Answers
  <2>3. Cardinality(held') = Cardinality(held) + 1
    BY <1>6, FS_AddElement, Zenon DEF ReturnLease
  <2> QED
    BY <1>6, <2>1, <2>2, <2>3, Zenon DEF ReturnLease, Promise!Next, Promise!Answer
<1>7. ASSUME NEW h \in Leases, Reset(h) PROVE Promise!Next
  <2>1. Cardinality(held') = Cardinality(held) - 1
    BY <1>7, FS_RemoveElement, Zenon DEF Reset
  <2>2. Cardinality(held) > 0
    BY <1>7, FS_EmptySet DEF Reset
  <2> QED
    BY <1>7, <2>1, <2>2, SameAnswers DEF Reset, Promise!Next, Promise!GiveBack
<1>8. ASSUME NEW h \in Leases, NEW g \in Leases, MoveAssign(h, g)
      PROVE  Promise!Next \/ UNCHANGED <<active, Cardinality(held), Answers>>
  <2>1. g \in held => Cardinality(held) > 0
    BY FS_EmptySet
  <2> QED
    <3>1. UNCHANGED Answers
      BY <1>8, SameAnswers DEF MoveAssign
    <3>2. Cardinality(held') = IF g \in held THEN Cardinality(held) - 1 ELSE Cardinality(held)
      BY <1>8, MovedLeases
    <3>3. active' = IF g \in held THEN active - 1 ELSE active
      BY <1>8 DEF MoveAssign
    <3> QED
      BY <2>1, <3>1, <3>2, <3>3 DEF Promise!Next, Promise!GiveBack
<1>9. ASSUME UNCHANGED vars PROVE UNCHANGED <<active, held, Answers>>
  BY <1>9, SameAnswers DEF vars
<1> QED
  BY <1>1, <1>2, <1>3, <1>4, <1>5, <1>6, <1>7, <1>8, <1>9 DEF Next

(* ConnectionAdmission implements Admission: try_enter() refuses only at   *)
(* an instant of the call at which Maximum connections were live, for any  *)
(* number of threads (connection_admission.h:65-82).                       *)
THEOREM ImplementsAdmission == Spec => KeepsPromise
<1>1. Init => Promise!Init
  BY FS_EmptySet DEF Init, Promise!Init, Answers
<1> QED
  BY <1>1, PlacesHold, StepKeepsPromise, PTL DEF Spec, KeepsPromise, Promise!Spec

-----------------------------------------------------------------------------
(* PeriodicTimer.                                                          *)

(* The next generation is one.                                             *)
LEMMA BumpedType == TimerTypeOK => Bumped \in 0 .. Generations - 1
  BY PeriodicTimerAssumption DEF TimerTypeOK, Bumped

(* Cancelled waits are waits, of the generation they were.                 *)
LEMMA CancelledType ==
    ASSUME TimerTypeOK
    PROVE  /\ CancelledWaits \subseteq Waits
           /\ \A v \in CancelledWaits : \E w \in waits : v.gen = w.gen
<1>1. ASSUME NEW w \in waits
      PROVE  LET v == [w EXCEPT !.state = IF @ = "waiting" THEN "cancelled" ELSE @]
             IN  v \in Waits /\ v.gen = w.gen
  BY DEF TimerTypeOK, Waits
<1> QED
  BY <1>1, Zenon DEF CancelledWaits

(* Nothing was called.                                                     *)
LEMMA InitType == TimerInit => TimerTypeOK
<1> SUFFICES ASSUME TimerInit PROVE TimerTypeOK
  OBVIOUS
<1>1. live \in BOOLEAN
  BY Zenon DEF TimerInit
<1>2. queue \in Seq(Operations)
  BY DEF TimerInit
<1> QED
  BY <1>1, <1>2, PeriodicTimerAssumption DEF TimerInit, TimerTypeOK, Periods

(* Arming and cancelling keep the types of what they change.               *)
LEMMA ArmType ==
    ASSUME TimerTypeOK, Arm \/ Cancel
    PROVE  generation' \in 0 .. Generations - 1 /\ waits' \subseteq Waits /\ live' \in BOOLEAN
<1>1. [gen |-> Bumped, state |-> "waiting"] \in Waits
  BY BumpedType DEF Waits
<1>2. live' \in BOOLEAN
  BY Zenon DEF Arm, Cancel
<1> QED
  BY <1>1, <1>2, BumpedType, CancelledType DEF Arm, Cancel

(* Every step keeps the types.                                             *)
LEMMA NextType == TimerTypeOK /\ [TimerNext]_periodicVars => TimerTypeOK'
<1> SUFFICES ASSUME TimerTypeOK, [TimerNext]_periodicVars PROVE TimerTypeOK'
  OBVIOUS
<1> USE PeriodicTimerAssumption DEF TimerTypeOK, timerVars, callVars, Periods
<1>1. \A o \in {"arm", "again", "cancel"}, r \in Periods : Append(queue, [op |-> o, repeat |-> r]) \in Seq(Operations)
  BY DEF Operations
<1>2. ASSUME NEW c \in Callers, NEW r \in Periods, StoreRepeat(c, r) PROVE TimerTypeOK'
  BY <1>2 DEF StoreRepeat, ACall
<1>3. ASSUME NEW c \in Callers, PostArm(c) PROVE TimerTypeOK'
  BY <1>1, <1>3 DEF PostArm, Posted
<1>4. CASE Again \/ Stop
  <2>1. queue' \in Seq(Operations)
    <3>1. 0 \in Periods
      OBVIOUS
    <3> QED
      BY <1>1, <1>4, <3>1, Zenon DEF Again, Stop, Posted
  <2> QED
    BY <1>4, <2>1 DEF Again, Stop, ACall
<1>5. ASSUME NEW r \in Periods, SetRepeat(r) PROVE TimerTypeOK'
  BY <1>5 DEF SetRepeat, ACall
<1>6. CASE RunPosted
  <2>1. Arm \/ Cancel
    BY <1>6 DEF RunPosted
  <2>2. Head(queue) \in Operations /\ Tail(queue) \in Seq(Operations)
    BY <1>6, HeadTailProperties DEF RunPosted
  <2>3. lastStart' \in Periods \cup {NoStart, Overridden}
    BY <1>6, <2>2 DEF RunPosted, Operations
  <2> QED
    BY <1>6, <2>1, <2>2, <2>3, ArmType DEF RunPosted
<1>7. CASE EndCallback
  <2>1. generation' \in 0 .. Generations - 1 /\ waits' \subseteq Waits /\ live' \in BOOLEAN
    <3>1. CASE Arm
      BY <3>1, ArmType
    <3>2. CASE live' = FALSE /\ UNCHANGED <<generation, waits>>
      <4>1. live' \in BOOLEAN
        BY <3>2, Zenon
      <4> QED
        BY <3>2, <4>1
    <3> QED
      BY <1>7, <3>1, <3>2, Zenon DEF EndCallback
  <2> QED
    BY <1>7, <2>1 DEF EndCallback
<1>8. ASSUME NEW w \in waits, Complete(w) PROVE TimerTypeOK'
  BY <1>8 DEF Complete, Waits
<1>9. ASSUME NEW w \in waits, Expire(w) PROVE TimerTypeOK'
  <2>1. [w EXCEPT !.state = "expired"] \in Waits
    BY DEF Waits
  <2> QED
    BY <1>9, <2>1 DEF Expire
<1>10. CASE AtRest \/ UNCHANGED periodicVars
  BY <1>10 DEF AtRest, periodicVars
<1> QED
  BY <1>2, <1>3, <1>4, <1>5, <1>6, <1>7, <1>8, <1>9, <1>10, SMTT(30) DEF TimerNext, LoopStep

-----------------------------------------------------------------------------
(* The chain of firings.  A live timer, and no other, has a wait that      *)
(* would call, or is in the callback; there it has no such wait, and the   *)
(* next generation is not in use.                                          *)
ChainInv ==
    /\ \A v, w \in Current : v = w
    /\ live <=> loop = "calling" \/ Current # {}
    /\ loop = "calling" =>
        live /\ firing = generation /\ Current = {} /\ BumpedIsFresh

(* Nothing was armed.                                                      *)
LEMMA InitChain == TimerInit => ChainInv
  BY DEF TimerInit, ChainInv, Current

(* Arming with a fresh generation leaves one wait that would call, and     *)
(* cancelling leaves none.                                                 *)
LEMMA ArmLeavesOne ==
    ASSUME TimerTypeOK, BumpedIsFresh
    PROVE  /\ Cancel => Current' = {} /\ ~live'
           /\ Arm => Current' = {[gen |-> Bumped, state |-> "waiting"]} /\ live'
<1>1. \A v \in CancelledWaits : v.gen # Bumped
  BY CancelledType DEF BumpedIsFresh
<1>2. Cancel => Current' = {} /\ ~live'
  BY <1>1 DEF Cancel, Current
<1>3. Arm => Current' = {[gen |-> Bumped, state |-> "waiting"]} /\ live'
  BY <1>1 DEF Arm, Current
<1> QED
  BY <1>2, <1>3

(* Every step keeps the chain.                                             *)
LEMMA NextChain == TimerTypeOK /\ ChainInv /\ [TimerNext]_periodicVars => ChainInv'
<1> SUFFICES ASSUME TimerTypeOK, ChainInv, [TimerNext]_periodicVars PROVE ChainInv'
  OBVIOUS
<1> USE DEF ChainInv
<1>1. CASE UNCHANGED <<timerVars, loop, firing>>
  BY <1>1 DEF timerVars, Current, BumpedIsFresh, Bumped
<1>2. CASE RunPosted
  <2>1. BumpedIsFresh /\ (Arm \/ Cancel) /\ loop = "idle" /\ loop' = loop
    BY <1>2 DEF RunPosted
  <2>2. (Current' = {} /\ ~live') \/ (Current' = {[gen |-> Bumped, state |-> "waiting"]} /\ live')
    BY <2>1, ArmLeavesOne
  <2> QED
    BY <2>1, <2>2, Zenon
<1>3. CASE EndCallback
  <2>1. loop = "calling" /\ loop' = "idle"
    BY <1>3 DEF EndCallback
  <2>2. CASE Arm
    BY <2>1, <2>2, ArmLeavesOne, Zenon
  <2>3. CASE ~live' /\ UNCHANGED <<generation, waits>>
    BY <2>1, <2>3 DEF Current
  <2> QED
    BY <1>3, <2>2, <2>3 DEF EndCallback
<1>4. ASSUME NEW w \in waits, Complete(w) PROVE ChainInv'
  <2>1. UNCHANGED <<generation, live>> /\ waits' = waits \ {w} /\ loop = "idle"
    BY <1>4 DEF Complete
  <2>2. Current' = Current \ {w}
    BY <2>1 DEF Current
  <2>3. CASE (w.state = "cancelled" \/ w.gen # generation) /\ UNCHANGED loop
    <3>1. Current' = Current
      BY <2>2, <2>3 DEF Current
    <3> QED
      BY <2>1, <2>3, <3>1
  <2>4. CASE w.state # "cancelled" /\ w.gen = generation /\ firing' = w.gen /\ loop' = "calling"
    <3>1. w \in Current
      BY <2>4 DEF Current
    <3>2. Current' = {}
      BY <2>2, <3>1
    <3>3. BumpedIsFresh'
      BY <1>4, <2>1, <2>4 DEF Complete, BumpedIsFresh, Bumped
    <3> QED
      BY <2>1, <2>4, <3>1, <3>2, <3>3
  <2> QED
    BY <1>4, <2>3, <2>4 DEF Complete
<1>5. ASSUME NEW w \in waits, Expire(w) PROVE ChainInv'
  <2> DEFINE x == [w EXCEPT !.state = "expired"]
  <2>1. x.gen = w.gen /\ x.state = "expired"
    BY DEF TimerTypeOK, Waits
  <2> HIDE DEF x
  <2>2. /\ w.state = "waiting" /\ UNCHANGED <<generation, live, loop, firing>>
        /\ waits' = (waits \ {w}) \cup {x}
    BY <1>5 DEF Expire, x
  <2>3. CASE w.gen = generation
    <3>1. Current' = (Current \ {w}) \cup {x} /\ w \in Current
      BY <2>1, <2>2, <2>3 DEF Current
    <3> QED
      BY <2>2, <3>1
  <2>4. CASE w.gen # generation
    <3>1. Current' = Current
      BY <2>1, <2>2, <2>4 DEF Current
    <3>2. BumpedIsFresh => BumpedIsFresh'
      BY <2>1, <2>2 DEF BumpedIsFresh, Bumped
    <3> QED
      BY <2>2, <3>1, <3>2
  <2> QED
    BY <2>3, <2>4
<1> QED
  BY <1>1, <1>2, <1>3, <1>4, <1>5
     DEF TimerNext, LoopStep, StoreRepeat, PostArm, Again, Stop, SetRepeat, AtRest, periodicVars

(* No stale callback, for any number of callers, calls and generations.    *)
THEOREM NeverFiresStale == TimerSpec => []NoStaleFire
<1>1. ChainInv => NoStaleFire
  BY DEF ChainInv, NoStaleFire
<1> QED
  BY <1>1, InitType, NextType, InitChain, NextChain, PTL DEF TimerSpec

(* One chain of firings, for any number of callers, calls and generations. *)
THEOREM FiresAlongOneChain == TimerSpec => []OneChain
<1>1. TimerTypeOK /\ ChainInv => OneChain
  BY DEF ChainInv, OneChain
<1> QED
  BY <1>1, InitType, NextType, InitChain, NextChain, PTL DEF TimerSpec

-----------------------------------------------------------------------------
(* The repeat of the last start().  As long as no start() overlapped       *)
(* another and set_repeat() was not called, the start() between its store  *)
(* and its post has stored the repeat; with none, the last arming in the   *)
(* queue carries it, or with no arming queued the last one that ran did.   *)
NoArm(i) == \A j \in 1 .. Len(queue) : j > i => queue[j].op # "arm"

Starting == {c \in Callers : startPc[c] = "posting"}

StartInv ==
    lastStart # Overridden =>
        /\ \A c, d \in Starting : c = d
        /\ \A c \in Starting : wanted[c] = repeat
        /\ Starting = {} =>
            /\ \A i \in 1 .. Len(queue) : queue[i].op = "arm" /\ NoArm(i) => queue[i].repeat = repeat
            /\ NoArm(0) /\ lastStart \in Periods => repeat = lastStart

(* Nothing was called.                                                     *)
LEMMA InitStart == TimerInit => StartInv
  BY DEF TimerInit, StartInv, Starting, NoArm, NoStart, Periods

(* What is posted goes to the end of the queue, which stays otherwise.     *)
LEMMA PostedLast ==
    ASSUME TimerTypeOK, NEW o \in {"arm", "again", "cancel"}, NEW r \in Periods, Posted(o, r)
    PROVE  /\ Len(queue) \in Nat /\ Len(queue') = Len(queue) + 1
           /\ \A i \in 1 .. Len(queue) : queue'[i] = queue[i]
           /\ queue'[Len(queue) + 1].op = o /\ queue'[Len(queue) + 1].repeat = r
<1>1. [op |-> o, repeat |-> r] \in Operations /\ queue \in Seq(Operations)
  BY DEF Operations, TimerTypeOK
<1>2. Len(queue) \in Nat
  BY <1>1
<1> QED
  BY <1>1, <1>2, AppendProperties DEF Posted

(* The front goes: every other operation moves up by one.                  *)
LEMMA FrontGoes ==
    ASSUME TimerTypeOK, queue # <<>>, queue' = Tail(queue)
    PROVE  /\ Len(queue) \in Nat \ {0} /\ Len(queue') = Len(queue) - 1
           /\ Head(queue) = queue[1]
           /\ \A i \in 1 .. Len(queue') : queue'[i] = queue[i + 1]
<1>1. queue \in Seq(Operations)
  BY DEF TimerTypeOK
<1> QED
  BY <1>1, HeadTailProperties

(* Every step keeps what is said of start().                               *)
LEMMA NextStart == TimerTypeOK /\ StartInv /\ [TimerNext]_periodicVars => StartInv'
<1> SUFFICES ASSUME TimerTypeOK, StartInv, [TimerNext]_periodicVars, lastStart' # Overridden PROVE StartInv'
  BY DEF StartInv
<1>1. CASE UNCHANGED <<repeat, queue, startPc, wanted, lastStart>>
  BY <1>1, SMTT(30) DEF StartInv, Starting, NoArm
<1>2. ASSUME NEW c \in Callers, NEW r \in Periods, StoreRepeat(c, r) PROVE StartInv'
  <2>1. ~Overlap(c) /\ lastStart' = lastStart /\ repeat' = r
    BY <1>2 DEF StoreRepeat
  <2>2. Starting' = {c} /\ wanted'[c] = r
    BY <1>2, <2>1, SMTT(30) DEF StoreRepeat, Overlap, Starting, TimerTypeOK
  <2> QED
    BY <2>1, <2>2 DEF StartInv
<1>3. ASSUME NEW c \in Callers, PostArm(c) PROVE StartInv'
  <2>1. /\ UNCHANGED <<repeat, lastStart, wanted>> /\ c \in Starting
        /\ wanted[c] \in Periods /\ Posted("arm", wanted[c])
    BY <1>3, SMTT(30) DEF PostArm, Starting, TimerTypeOK
  <2>2. Starting' = {} /\ wanted[c] = repeat
    BY <1>3, <2>1 DEF PostArm, Starting, StartInv, TimerTypeOK
  <2>3. /\ Len(queue) \in Nat /\ Len(queue') = Len(queue) + 1
        /\ queue'[Len(queue) + 1].op = "arm" /\ queue'[Len(queue) + 1].repeat = repeat
    BY <2>1, <2>2, PostedLast
  <2>4. ~NoArm(0)'
    BY <2>3 DEF NoArm
  <2>5. ASSUME NEW i \in 1 .. Len(queue'), NoArm(i)' PROVE i = Len(queue) + 1
    BY <2>3, <2>5 DEF NoArm
  <2> QED
    BY <2>1, <2>2, <2>3, <2>4, <2>5 DEF StartInv
<1>4. CASE Again \/ Stop
  <2>1. UNCHANGED <<repeat, lastStart, wanted, startPc>>
    BY <1>4 DEF Again, Stop
  <2>2. PICK o \in {"again", "cancel"} : Posted(o, 0)
    BY <1>4 DEF Again, Stop
  <2>3. /\ Len(queue) \in Nat /\ Len(queue') = Len(queue) + 1
        /\ \A i \in 1 .. Len(queue) : queue'[i] = queue[i]
        /\ queue'[Len(queue) + 1].op # "arm"
    BY <2>2, PostedLast DEF Periods
  <2>4. \A i \in 0 .. Len(queue) : NoArm(i)' => NoArm(i)
    BY <2>3 DEF NoArm
  <2>5. Starting' = Starting
    BY <2>1 DEF Starting
  <2> QED
    BY <2>1, <2>3, <2>4, <2>5 DEF StartInv
<1>5. ASSUME NEW r \in Periods, SetRepeat(r) PROVE StartInv'
  BY <1>5 DEF SetRepeat
<1>6. CASE RunPosted
  <2>1. /\ UNCHANGED <<repeat, wanted, startPc>> /\ queue # <<>> /\ queue' = Tail(queue)
        /\ lastStart # Overridden
    BY <1>6 DEF RunPosted, callVars
  <2>2. lastStart' = IF queue[1].op = "arm" THEN queue[1].repeat ELSE lastStart
    BY <1>6, <2>1, FrontGoes DEF RunPosted
  <2>3. /\ Len(queue) \in Nat \ {0} /\ Len(queue') = Len(queue) - 1
        /\ \A i \in 1 .. Len(queue') : queue'[i] = queue[i + 1]
    BY <2>1, FrontGoes
  <2>4. \A i \in 0 .. Len(queue') : NoArm(i)' => NoArm(i + 1)
    <3> SUFFICES ASSUME NEW i \in 0 .. Len(queue'), NoArm(i)', NEW j \in 1 .. Len(queue), j > i + 1
                 PROVE  queue[j].op # "arm"
      BY DEF NoArm
    <3>1. j - 1 \in 1 .. Len(queue') /\ j - 1 > i /\ queue'[j - 1] = queue[j]
      BY <2>3
    <3> QED
      BY <3>1 DEF NoArm
  <2>5. Starting' = Starting
    BY <2>1 DEF Starting
  <2>6. ASSUME Starting = {}, NEW i \in 1 .. Len(queue'), queue'[i].op = "arm", NoArm(i)'
        PROVE  queue'[i].repeat = repeat
    <3>1. i + 1 \in 1 .. Len(queue) /\ queue'[i] = queue[i + 1] /\ NoArm(i + 1)
      BY <2>3, <2>4, <2>6
    <3> QED
      BY <2>1, <2>6, <3>1 DEF StartInv
  <2>7. ASSUME Starting = {}, NoArm(0)', lastStart' \in Periods PROVE repeat = lastStart'
    <3>1. NoArm(1) /\ 1 \in 1 .. Len(queue)
      BY <2>3, <2>4, <2>7
    <3>2. CASE queue[1].op = "arm"
      BY <2>1, <2>2, <2>7, <3>1, <3>2, SMTT(30) DEF StartInv
    <3>3. CASE queue[1].op # "arm"
      <4>1. NoArm(0)
        BY <2>3, <3>1, <3>3, SMTT(30) DEF NoArm
      <4> QED
        BY <2>1, <2>2, <2>7, <3>3, <4>1 DEF StartInv
    <3> QED
      BY <3>2, <3>3
  <2> QED
    BY <2>1, <2>5, <2>6, <2>7 DEF StartInv
<1> QED
  BY <1>1, <1>2, <1>3, <1>4, <1>5, <1>6, SMTT(30)
     DEF TimerNext, LoopStep, EndCallback, Complete, Expire, AtRest, callVars, periodicVars

(* With every call over, the timer repeats as the last start() asked, for  *)
(* any number of callers and calls.                                        *)
THEOREM LastStartKept == TimerSpec => []StartKept
<1>1. TimerTypeOK /\ StartInv => StartKept
  <2> SUFFICES ASSUME TimerTypeOK, StartInv, Quiescent, lastStart \in Periods PROVE repeat = lastStart
    BY DEF StartKept
  <2>1. Starting = {} /\ lastStart # Overridden
    BY DEF Quiescent, Starting, Periods, Overridden
  <2>2. NoArm(0)
    BY DEF Quiescent, NoArm
  <2> QED
    BY <2>1, <2>2 DEF StartInv
<1> QED
  BY <1>1, InitType, NextType, InitStart, NextStart, PTL DEF TimerSpec

-----------------------------------------------------------------------------
(* Signal.                                                                 *)

(* While pending is set its wake-up is on its way, unless a post failed.   *)
PendingHasWake == ~failed /\ pending => posted > 0 \/ Posting # {}

SignalInv == SignalTypeOK /\ Coalesces /\ PendingHasWake /\ WakeOwed

(* Posting is finite, being a set of senders.                              *)
LEMMA PostingFinite == IsFiniteSet(Posting) /\ Cardinality(Posting) \in Nat
  BY SignalAssumption, FS_Subset, FS_CardinalityType DEF Posting

(* With pending clear nothing is on its way.                               *)
LEMMA ClearMeansNone ==
  ASSUME SignalTypeOK, Coalesces, ~pending
  PROVE  posted = 0 /\ Posting = {}
<1>1. posted = 0 /\ Cardinality(Posting) = 0
  BY PostingFinite DEF SignalTypeOK, Coalesces
<1> QED
  BY <1>1, PostingFinite, FS_EmptySet

(* A thread leaves "posting" for "idle": there is one fewer.               *)
LEMMA PostingLeft ==
  ASSUME SignalTypeOK, NEW t \in Senders, sendPc[t] = "posting",
         sendPc' = [sendPc EXCEPT ![t] = "idle"]
  PROVE  /\ Posting' = Posting \ {t}
         /\ Cardinality(Posting') = Cardinality(Posting) - 1
<1>1. Posting' = Posting \ {t}
  BY DEF Posting, SignalTypeOK
<1>2. t \in Posting
  BY DEF Posting
<1> QED
  BY <1>1, <1>2, PostingFinite, FS_RemoveElement

(* Initially nobody sends.                                                 *)
LEMMA SignalInitInv == SignalInit => SignalInv
<1> SUFFICES ASSUME SignalInit PROVE SignalInv
  OBVIOUS
<1>1. SignalTypeOK
  <2>1. pending \in BOOLEAN /\ failed \in BOOLEAN
    BY Zenon DEF SignalInit
  <2> QED
    BY <2>1, SignalAssumption DEF SignalInit, SignalTypeOK
<1>2. Posting = {}
  BY DEF SignalInit, Posting
<1>3. Coalesces
  BY <1>2, FS_EmptySet DEF SignalInit, Coalesces
<1> QED
  BY <1>1, <1>3 DEF SignalInit, SignalInv, PendingHasWake, WakeOwed

(* Every step keeps the invariant.                                         *)
LEMMA SignalNextInv == SignalInv /\ [SignalNext]_signalVars => SignalInv'
<1> SUFFICES ASSUME SignalInv, [SignalNext]_signalVars PROVE SignalInv'
  OBVIOUS
<1> USE SignalAssumption, PostingFinite DEF SignalInv
<1>1. ASSUME NEW t \in Senders, Leave(t) PROVE SignalInv'
  <2>1. SignalTypeOK'
    BY <1>1 DEF Leave, SignalTypeOK
  <2>2. Posting' = Posting
    BY <1>1 DEF Leave, Posting, SignalTypeOK
  <2>3. WakeOwed'
    BY <1>1 DEF Leave, WakeOwed, SignalTypeOK
  <2> QED
    BY <1>1, <2>1, <2>2, <2>3 DEF Leave, Coalesces, PendingHasWake
<1>2. ASSUME NEW t \in Senders, Exchange(t) PROVE SignalInv'
  <2>1. SignalTypeOK'
    <3>1. pending' \in BOOLEAN
      BY <1>2, Zenon DEF Exchange
    <3> QED
      BY <1>2, <3>1 DEF Exchange, SignalTypeOK
  <2>2. CASE pending
    <3>1. Posting' = Posting
      BY <1>2, <2>2 DEF Exchange, Posting, SignalTypeOK
    <3>2. WakeOwed'
      <4>1. ~failed => posted > 0 \/ \E u \in Senders : sendPc[u] = "posting" /\ u # t
        BY <1>2, <2>2 DEF PendingHasWake, Posting, Exchange
      <4> QED
        BY <1>2, <4>1, <2>1 DEF Exchange, WakeOwed, SignalTypeOK
    <3> QED
      BY <1>2, <2>1, <2>2, <3>1, <3>2 DEF Exchange, Coalesces, PendingHasWake
  <2>3. CASE ~pending
    <3>1. posted = 0 /\ Posting = {}
      BY <2>3, ClearMeansNone
    <3>2. Posting' = {t} /\ sendPc'[t] = "posting"
      BY <1>2, <2>3, <3>1 DEF Exchange, Posting, SignalTypeOK
    <3>3. Cardinality(Posting') = 1
      BY <3>2, FS_Singleton
    <3> QED
      BY <1>2, <2>1, <3>1, <3>2, <3>3
      DEF Exchange, Coalesces, PendingHasWake, WakeOwed
  <2> QED
    BY <2>2, <2>3
<1>3. ASSUME NEW t \in Senders, Post(t) PROVE SignalInv'
  <2>1. SignalTypeOK'
    BY <1>3 DEF Post, SignalTypeOK
  <2>2. Cardinality(Posting') = Cardinality(Posting) - 1
    BY <1>3, PostingLeft, Zenon DEF Post
  <2>3. Coalesces'
    BY <1>3, <2>2 DEF Post, Coalesces, SignalTypeOK
  <2> QED
    BY <1>3, <2>1, <2>3 DEF Post, PendingHasWake, WakeOwed, SignalTypeOK
<1>4. ASSUME NEW t \in Senders, PostThrows(t) PROVE SignalInv'
  <2>1. SignalTypeOK'
    BY <1>4 DEF PostThrows, SignalTypeOK
  <2>2. Cardinality(Posting') = Cardinality(Posting) - 1
    BY <1>4, PostingLeft, Zenon DEF PostThrows
  <2>3. Coalesces'
    BY <1>4, <2>2 DEF PostThrows, Coalesces, SignalTypeOK
  <2> QED
    BY <1>4, <2>1, <2>3 DEF PostThrows, PendingHasWake, WakeOwed
<1>5. ASSUME Wake PROVE SignalInv'
  <2>1. SignalTypeOK'
    <3>1. pending' \in BOOLEAN
      BY <1>5, Zenon DEF Wake
    <3> QED
      BY <1>5, <3>1 DEF Wake, SignalTypeOK
  <2>2. Posting' = Posting
    BY <1>5 DEF Wake, Posting
  <2>3. Coalesces'
    BY <1>5, <2>2 DEF Wake, Coalesces, SignalTypeOK
  <2> QED
    BY <1>5, <2>1, <2>3 DEF Wake, PendingHasWake, WakeOwed
<1>6. ASSUME Callback PROVE SignalInv'
  <2>1. Posting' = Posting
    BY <1>6 DEF Callback, Posting
  <2> QED
    BY <1>6, <2>1 DEF Callback, SignalTypeOK, Coalesces, PendingHasWake, WakeOwed
<1>7. ASSUME UNCHANGED signalVars PROVE SignalInv'
  BY <1>7 DEF signalVars, SignalTypeOK, Coalesces, PendingHasWake, WakeOwed, Posting
<1> QED
  BY <1>1, <1>2, <1>3, <1>4, <1>5, <1>6, <1>7, SMTT(30) DEF SignalNext, Loop, Send, Quiet

(* The inductive invariant holds in every behaviour.                       *)
LEMMA SignalInvHolds == SignalSpec => []SignalInv
  BY SignalInitInv, SignalNextInv, PTL DEF SignalSpec

(* Sends coalesce for any number of senders, whether or not posting fails  *)
(* (Signal::send, reactor_events.h:131-140).                               *)
THEOREM SendsCoalesce == SignalSpec => []Coalesces
  BY SignalInvHolds, PTL DEF SignalInv

(* No wake-up is lost for any number of senders, until a post throws.      *)
THEOREM NoWakeLost == SignalSpec => []WakeOwed
  BY SignalInvHolds, PTL DEF SignalInv

=============================================================================
