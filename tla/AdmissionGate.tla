--------------------------- MODULE AdmissionGate ----------------------------
(***************************************************************************)
(* struct AdmissionGate of reactor.h: the window on the requests in flight *)
(* on one reactor, usable from any thread.  try_enter() counts itself      *)
(* first and takes the count back when it was over the limit.  Each action *)
(* makes one access to one atomic.                                         *)
(***************************************************************************)
EXTENDS Integers, FiniteSets

CONSTANTS
    Threads,      \* threads that call enter()
    Leases,       \* Lease objects, empty or not
    Limits,       \* the limits a gate is built with; 0 or less admits everything
    MaxEntries    \* bound: calls of enter()

ASSUME GateAssumption ==
    /\ IsFiniteSet(Threads)
    /\ IsFiniteSet(Leases)
    /\ Limits \subseteq Int
    /\ MaxEntries \in Nat

VARIABLES
    limit,        \* this gate's limit
    inflight,     \* the atomic inflight
    rejected,     \* the atomic rejected
    enterPc,      \* where each thread is in enter()
    held,         \* the Lease objects whose gate_ is set
    entries,      \* history: calls of enter()
    refusals,     \* history: calls refused
    fewest        \* history: the fewest admissions out when a call was refused

gateVars == <<limit, inflight, rejected, enterPc, held, entries, refusals, fewest>>

Admitted == {t \in Threads : enterPc[t] = "admitted"}
Undoing == {t \in Threads : enterPc[t] = "undo"}
Counting == {t \in Threads : enterPc[t] \in {"undo", "count"}}

(* Admissions out: leases, and calls about to return one.                  *)
Out == Cardinality(held) + Cardinality(Admitted)

GateTypeOK ==
    /\ limit \in Limits
    /\ inflight \in Nat
    /\ rejected \in Nat
    /\ enterPc \in [Threads -> {"idle", "admitted", "undo", "count"}]
    /\ held \subseteq Leases
    /\ entries \in Nat /\ refusals \in Nat
    /\ fewest \in Int

GateInit ==
    /\ limit \in Limits
    /\ inflight = 0
    /\ rejected = 0
    /\ enterPc = [t \in Threads |-> "idle"]
    /\ held = {}
    /\ entries = 0 /\ refusals = 0
    /\ fewest = limit

-----------------------------------------------------------------------------

(* Mutant: the test is off by one.                                         *)
CountItselfOver(t) ==
    /\ enterPc[t] = "idle"
    /\ entries < MaxEntries
    /\ entries' = entries + 1
    /\ inflight' = inflight + 1
    /\ IF inflight > limit /\ limit > 0
       THEN /\ enterPc' = [enterPc EXCEPT ![t] = "undo"]
            /\ refusals' = refusals + 1
            /\ fewest' = IF Out < fewest THEN Out ELSE fewest
       ELSE /\ enterPc' = [enterPc EXCEPT ![t] = "admitted"]
            /\ UNCHANGED <<refusals, fewest>>
    /\ UNCHANGED <<limit, rejected, held>>

(* Mutant: refuses one place early.                                        *)
CountItselfEarly(t) ==
    /\ enterPc[t] = "idle"
    /\ entries < MaxEntries
    /\ entries' = entries + 1
    /\ inflight' = inflight + 1
    /\ IF inflight + 1 >= limit /\ limit > 0
       THEN /\ enterPc' = [enterPc EXCEPT ![t] = "undo"]
            /\ refusals' = refusals + 1
            /\ fewest' = IF Out < fewest THEN Out ELSE fewest
       ELSE /\ enterPc' = [enterPc EXCEPT ![t] = "admitted"]
            /\ UNCHANGED <<refusals, fewest>>
    /\ UNCHANGED <<limit, rejected, held>>

(* try_enter()'s fetch_add and the test of what it returned.               *)
CountItself(t) ==
    /\ enterPc[t] = "idle"
    /\ entries < MaxEntries
    /\ entries' = entries + 1
    /\ inflight' = inflight + 1
    /\ IF inflight >= limit /\ limit > 0
       THEN /\ enterPc' = [enterPc EXCEPT ![t] = "undo"]
            /\ refusals' = refusals + 1
            /\ fewest' = IF Out < fewest THEN Out ELSE fewest
       ELSE /\ enterPc' = [enterPc EXCEPT ![t] = "admitted"]
            /\ UNCHANGED <<refusals, fewest>>
    /\ UNCHANGED <<limit, rejected, held>>

(* Mutant: a refused call stays counted.                                   *)
TakeBackForgotten(t) ==
    /\ enterPc[t] = "undo"
    /\ enterPc' = [enterPc EXCEPT ![t] = "count"]
    /\ UNCHANGED <<limit, inflight, rejected, held, entries, refusals, fewest>>

TakeBack(t) ==
    /\ enterPc[t] = "undo"
    /\ inflight' = inflight - 1
    /\ enterPc' = [enterPc EXCEPT ![t] = "count"]
    /\ UNCHANGED <<limit, rejected, held, entries, refusals, fewest>>

CountRejected(t) ==
    /\ enterPc[t] = "count"
    /\ rejected' = rejected + 1
    /\ enterPc' = [enterPc EXCEPT ![t] = "idle"]
    /\ UNCHANGED <<limit, inflight, held, entries, refusals, fewest>>

(* enter() returns a lease into an empty Lease object of the caller.       *)
ReturnLease(t, h) ==
    /\ enterPc[t] = "admitted"
    /\ h \notin held
    /\ held' = held \cup {h}
    /\ enterPc' = [enterPc EXCEPT ![t] = "idle"]
    /\ UNCHANGED <<limit, inflight, rejected, entries, refusals, fewest>>

(* Lease::reset() or its destructor: leave().                              *)
Reset(h) ==
    /\ h \in held
    /\ inflight' = inflight - 1
    /\ held' = held \ {h}
    /\ UNCHANGED <<limit, rejected, enterPc, entries, refusals, fewest>>

(* g = std::move(h): what g held leaves first, then g takes what h holds;  *)
(* a lease moved onto itself has left by then.                             *)
MoveAssign(h, g) ==
    LET left == held \ {g}
    IN  /\ inflight' = IF g \in held THEN inflight - 1 ELSE inflight
        /\ held' = IF h \in left THEN (left \ {h}) \cup {g} ELSE left
        /\ UNCHANGED <<limit, rejected, enterPc, entries, refusals, fewest>>

GateNext ==
    \/ \E t \in Threads :
        \/ CountItself(t) \/ TakeBack(t) \/ CountRejected(t)
        \/ \E h \in Leases : ReturnLease(t, h)
    \/ \E h \in Leases : Reset(h) \/ \E g \in Leases : MoveAssign(h, g)

GateSpec == GateInit /\ [][GateNext]_gateVars

-----------------------------------------------------------------------------
(* With a limit there are never more admissions out than it allows,        *)
(* although inflight itself passes it while refused calls take back.       *)
OutWithinLimit == limit > 0 => Out <= limit

(* inflight counts exactly the admissions out and the refused calls that   *)
(* have yet to take their count back: nothing leaks and nothing is given   *)
(* back twice, through moves, resets and destructors.                      *)
InflightExact == inflight = Out + Cardinality(Undoing)

(* rejected counts the refused calls, less those still on their way.       *)
RejectedExact == rejected + Cardinality(Counting) = refusals

(* A call may be refused with places free, while other refused calls have  *)
(* yet to take their count back; it never misses by more places than there *)
(* are other threads (docs/API.md:61-64 says that the limit is reached).   *)
RefusesNearlyFull == refusals > 0 => fewest + Cardinality(Threads) > limit
=============================================================================
