----------------------------- MODULE Admission ------------------------------
(***************************************************************************)
(* What bounded admission promises to its callers: a request is answered   *)
(* by one instant of its own duration, at which a place was taken, or at   *)
(* which all Maximum places were out.                                      *)
(***************************************************************************)
EXTENDS Naturals

CONSTANTS
    Threads,     \* the threads that ask
    Maximum      \* the places there are

VARIABLES
    out,         \* places taken and not given back
    leased,      \* those of them whose request was answered
    call         \* each thread's request

vars == <<out, leased, call>>

Init ==
    /\ out = 0 /\ leased = 0
    /\ call = [t \in Threads |-> "none"]

Ask(t) ==
    /\ call[t] = "none"
    /\ call' = [call EXCEPT ![t] = "asking"]
    /\ UNCHANGED <<out, leased>>

Admit(t) ==
    /\ call[t] \in {"none", "asking"}
    /\ out < Maximum
    /\ out' = out + 1
    /\ call' = [call EXCEPT ![t] = "admitted"]
    /\ UNCHANGED leased

Refuse(t) ==
    /\ call[t] \in {"none", "asking"}
    /\ out = Maximum
    /\ call' = [call EXCEPT ![t] = "refused"]
    /\ UNCHANGED <<out, leased>>

Answer(t) ==
    /\ call[t] \in {"admitted", "refused"}
    /\ leased' = IF call[t] = "admitted" THEN leased + 1 ELSE leased
    /\ call' = [call EXCEPT ![t] = "none"]
    /\ UNCHANGED out

(* A place whose request was answered is given back.                       *)
GiveBack ==
    /\ leased > 0
    /\ out' = out - 1
    /\ leased' = leased - 1
    /\ UNCHANGED call

Next == GiveBack \/ \E t \in Threads : Ask(t) \/ Admit(t) \/ Refuse(t) \/ Answer(t)

Spec == Init /\ [][Next]_vars
=============================================================================
