------------------------ MODULE ConnectionAdmission -------------------------
(***************************************************************************)
(* connection_admission.h: the bound on live connections.  Any thread may  *)
(* call try_enter() and any thread may drop a lease; every counter is an   *)
(* atomic of its own, changed by compare-and-swap loops.  Each action      *)
(* makes one access to one atomic.  A compare_exchange_weak that fails     *)
(* without cause changes nothing and is a stuttering step.                 *)
(***************************************************************************)
EXTENDS Naturals, FiniteSets

CONSTANTS
    Threads,      \* threads that call try_enter
    Leases,       \* Lease objects, empty or not
    Maximum,      \* State::maximum
    CounterMax,   \* numeric_limits<uint64_t>::max()
    MaxEntries    \* bound: calls of try_enter

ASSUME AdmissionAssumption ==
    /\ IsFiniteSet(Threads)
    /\ IsFiniteSet(Leases)
    /\ Maximum \in Nat \ {0}
    /\ CounterMax \in Nat
    /\ MaxEntries \in Nat

VARIABLES
    active, high_water, accepted, rejected,   \* State's atomics
    pc,           \* where each thread is in try_enter
    value,        \* try_enter's value
    seen,         \* the local copy of the counter being raised
    held,         \* the Lease objects whose state_ is set
    entries,      \* history: calls of try_enter
    admissions,   \* history: places taken
    refusals,     \* history: calls answered with nullopt
    peak          \* history: the highest active so far

stateVars == <<active, high_water, accepted, rejected>>
history == <<entries, admissions, refusals, peak>>
vars == <<stateVars, pc, value, seen, held, history>>

(* Between taking the place and returning the lease.                       *)
Entered == {"entered", "counting", "counted", "raising", "returning"}
Inside == {t \in Threads : pc[t] \in Entered}

TypeOK ==
    /\ active \in Nat /\ high_water \in Nat /\ accepted \in Nat /\ rejected \in Nat
    /\ pc \in [Threads -> Entered \cup {"idle", "loop", "refused"}]
    /\ value \in [Threads -> Nat]
    /\ seen \in [Threads -> Nat]
    /\ held \subseteq Leases
    /\ entries \in Nat /\ admissions \in Nat /\ refusals \in Nat /\ peak \in Nat

Init ==
    /\ active = 0 /\ high_water = 0 /\ accepted = 0 /\ rejected = 0
    /\ pc = [t \in Threads |-> "idle"]
    /\ value = [t \in Threads |-> 0]
    /\ seen = [t \in Threads |-> 0]
    /\ held = {}
    /\ entries = 0 /\ admissions = 0 /\ refusals = 0 /\ peak = 0

-----------------------------------------------------------------------------
LoadActive(t) ==
    /\ pc[t] = "idle"
    /\ entries < MaxEntries
    /\ entries' = entries + 1
    /\ value' = [value EXCEPT ![t] = active]
    /\ pc' = [pc EXCEPT ![t] = "loop"]
    /\ UNCHANGED <<stateVars, seen, held, admissions, refusals, peak>>

(* Mutant: refuses one place early.                                        *)
RefuseEarly(t) ==
    /\ pc[t] = "loop"
    /\ value[t] + 1 >= Maximum
    /\ seen' = [seen EXCEPT ![t] = rejected]
    /\ refusals' = refusals + 1
    /\ pc' = [pc EXCEPT ![t] = "refused"]
    /\ UNCHANGED <<stateVars, value, held, entries, admissions, peak>>

(* value >= maximum: increment(rejected) begins with its load.             *)
Refuse(t) ==
    /\ pc[t] = "loop"
    /\ value[t] >= Maximum
    /\ seen' = [seen EXCEPT ![t] = rejected]
    /\ refusals' = refusals + 1
    /\ pc' = [pc EXCEPT ![t] = "refused"]
    /\ UNCHANGED <<stateVars, value, held, entries, admissions, peak>>

(* increment(rejected), then nullopt.                                      *)
CountRefused(t) ==
    /\ pc[t] = "refused"
    /\ IF seen[t] = CounterMax \/ seen[t] = rejected
       THEN /\ rejected' = IF seen[t] = CounterMax THEN rejected ELSE seen[t] + 1
            /\ pc' = [pc EXCEPT ![t] = "idle"]
            /\ UNCHANGED seen
       ELSE /\ seen' = [seen EXCEPT ![t] = rejected]
            /\ UNCHANGED <<rejected, pc>>
    /\ UNCHANGED <<active, high_water, accepted, value, held, history>>

(* The compare-and-swap on active.                                         *)
TakePlace(t) ==
    /\ pc[t] = "loop"
    /\ value[t] < Maximum
    /\ IF active = value[t]
       THEN /\ active' = value[t] + 1
            /\ pc' = [pc EXCEPT ![t] = "entered"]
            /\ admissions' = admissions + 1
            /\ peak' = IF active' > peak THEN active' ELSE peak
            /\ UNCHANGED value
       ELSE /\ value' = [value EXCEPT ![t] = active]
            /\ UNCHANGED <<active, pc, admissions, peak>>
    /\ UNCHANGED <<high_water, accepted, rejected, seen, held, entries, refusals>>

LoadAccepted(t) ==
    /\ pc[t] = "entered"
    /\ seen' = [seen EXCEPT ![t] = accepted]
    /\ pc' = [pc EXCEPT ![t] = "counting"]
    /\ UNCHANGED <<stateVars, value, held, history>>

(* Mutant: a plain store loses the other threads' increments.              *)
CountAcceptedStored(t) ==
    /\ pc[t] = "counting"
    /\ accepted' = IF seen[t] = CounterMax THEN accepted ELSE seen[t] + 1
    /\ pc' = [pc EXCEPT ![t] = "counted"]
    /\ UNCHANGED <<active, high_water, rejected, value, seen, held, history>>

(* increment(accepted).                                                    *)
CountAccepted(t) ==
    /\ pc[t] = "counting"
    /\ IF seen[t] = CounterMax \/ seen[t] = accepted
       THEN /\ accepted' = IF seen[t] = CounterMax THEN accepted ELSE seen[t] + 1
            /\ pc' = [pc EXCEPT ![t] = "counted"]
            /\ UNCHANGED seen
       ELSE /\ seen' = [seen EXCEPT ![t] = accepted]
            /\ UNCHANGED <<accepted, pc>>
    /\ UNCHANGED <<active, high_water, rejected, value, held, history>>

LoadHigh(t) ==
    /\ pc[t] = "counted"
    /\ seen' = [seen EXCEPT ![t] = high_water]
    /\ pc' = [pc EXCEPT ![t] = "raising"]
    /\ UNCHANGED <<stateVars, value, held, history>>

(* Mutant: a plain store, which a slow thread makes last.                  *)
RaiseHighStored(t) ==
    /\ pc[t] = "raising"
    /\ high_water' = IF seen[t] >= value[t] + 1 THEN high_water ELSE value[t] + 1
    /\ pc' = [pc EXCEPT ![t] = "returning"]
    /\ UNCHANGED <<active, accepted, rejected, value, seen, held, history>>

(* The loop that raises high_water to value + 1 and never lowers it.       *)
RaiseHigh(t) ==
    /\ pc[t] = "raising"
    /\ IF seen[t] >= value[t] + 1 \/ seen[t] = high_water
       THEN /\ high_water' = IF seen[t] >= value[t] + 1 THEN high_water ELSE value[t] + 1
            /\ pc' = [pc EXCEPT ![t] = "returning"]
            /\ UNCHANGED seen
       ELSE /\ seen' = [seen EXCEPT ![t] = high_water]
            /\ UNCHANGED <<high_water, pc>>
    /\ UNCHANGED <<active, accepted, rejected, value, held, history>>

(* The lease reaches an empty Lease object of the caller.                  *)
ReturnLease(t, h) ==
    /\ pc[t] = "returning"
    /\ h \notin held
    /\ held' = held \cup {h}
    /\ pc' = [pc EXCEPT ![t] = "idle"]
    /\ UNCHANGED <<stateVars, value, seen, history>>

(* Lease::reset() or its destructor.                                       *)
Reset(h) ==
    /\ h \in held
    /\ active' = active - 1
    /\ held' = held \ {h}
    /\ UNCHANGED <<high_water, accepted, rejected, pc, value, seen, history>>

(* Mutant: what g held is overwritten, not given back.                     *)
MoveAssignLeaks(h, g) ==
    /\ h # g
    /\ held' = IF h \in held THEN (held \ {h}) \cup {g} ELSE held \ {g}
    /\ UNCHANGED <<active, high_water, accepted, rejected, pc, value, seen, history>>

(* g = std::move(h), on two objects: what g held is given back first.      *)
MoveAssign(h, g) ==
    /\ h # g
    /\ active' = IF g \in held THEN active - 1 ELSE active
    /\ held' = IF h \in held THEN (held \ {h}) \cup {g} ELSE held \ {g}
    /\ UNCHANGED <<high_water, accepted, rejected, pc, value, seen, history>>

Next ==
    \/ \E t \in Threads :
        \/ LoadActive(t) \/ Refuse(t) \/ CountRefused(t) \/ TakePlace(t) \/ LoadAccepted(t)
        \/ CountAccepted(t) \/ LoadHigh(t) \/ RaiseHigh(t)
        \/ \E h \in Leases : ReturnLease(t, h)
    \/ \E h \in Leases : Reset(h) \/ \E g \in Leases : MoveAssign(h, g)

Spec == Init /\ [][Next]_vars

-----------------------------------------------------------------------------
(* There are never more live connections than the bound, however the       *)
(* compare-and-swap loops of several acceptors interleave.                 *)
WithinMaximum == active <= Maximum

(* active counts exactly the leases out and the calls about to return one: *)
(* every place is given back once, through moves, resets and destructors.  *)
PlacesExact == active = Cardinality(held) + Cardinality(Inside)

(* When no call is in progress high_water is the highest number of live    *)
(* connections there ever was: a slow thread neither lowers it nor loses   *)
(* its own value.                                                          *)
HighWaterExact ==
    /\ high_water <= peak
    /\ (\A t \in Threads : pc[t] = "idle") => high_water = peak

Saturated(n) == IF n <= CounterMax THEN n ELSE CounterMax

(* When no call is in progress accepted and rejected are the calls of each *)
(* kind, stopping at the largest value instead of wrapping around.         *)
CountersExact ==
    (\A t \in Threads : pc[t] = "idle") =>
        /\ accepted = Saturated(admissions)
        /\ rejected = Saturated(refusals)

(* Each call is answered by one instant: the load or the failed exchange   *)
(* that saw the bound reached, or the exchange that took the place.        *)
Answers ==
    [t \in Threads |->
        IF pc[t] = "idle" THEN "none"
        ELSE IF pc[t] \in Entered THEN "admitted"
        ELSE IF pc[t] = "refused" \/ value[t] >= Maximum THEN "refused"
        ELSE "asking"]

Promise == INSTANCE Admission WITH
    out <- active, leased <- Cardinality(held), call <- Answers

(* ConnectionAdmission implements the promise: try_enter() refuses only at *)
(* an instant of the call at which Maximum connections were live.          *)
KeepsPromise == Promise!Spec
=============================================================================
