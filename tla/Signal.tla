------------------------------- MODULE Signal -------------------------------
(***************************************************************************)
(* class Signal of reactor_events.h: a wake-up from any thread that runs   *)
(* one callback on the loop, any number of sends before it runs counting   *)
(* as one.  The host's use is modelled with it: a sender leaves an item    *)
(* where the callback looks for it, then calls send(); the callback takes  *)
(* every item it finds.                                                    *)
(***************************************************************************)
EXTENDS Naturals, FiniteSets

CONSTANTS
    Senders,       \* the threads that send
    MaxSends       \* bound: calls of send()

ASSUME SignalAssumption == IsFiniteSet(Senders) /\ MaxSends \in Nat

VARIABLES
    pending,       \* state_->pending
    posted,        \* wake handlers in the io_context's queue
    wakePc,        \* "idle", or "calling": between the store to pending and the callback
    sendPc,        \* sendPc[t] : "idle", "sending" (its item is left), "posting" (won the exchange)
    work,          \* the senders whose item waits for the callback
    sends,         \* calls of send() so far
    failed         \* history: an asio::post has thrown

signalVars == <<pending, posted, wakePc, sendPc, work, sends, failed>>

SignalTypeOK ==
    /\ pending \in BOOLEAN
    /\ posted \in Nat
    /\ wakePc \in {"idle", "calling"}
    /\ sendPc \in [Senders -> {"idle", "sending", "posting"}]
    /\ work \subseteq Senders
    /\ sends \in 0 .. MaxSends
    /\ failed \in BOOLEAN

SignalInit ==
    /\ pending = FALSE
    /\ posted = 0
    /\ wakePc = "idle"
    /\ sendPc = [t \in Senders |-> "idle"]
    /\ work = {}
    /\ sends = 0
    /\ failed = FALSE

Leave(t) ==
    /\ sendPc[t] = "idle" /\ sends < MaxSends
    /\ work' = work \cup {t}
    /\ sends' = sends + 1
    /\ sendPc' = [sendPc EXCEPT ![t] = "sending"]
    /\ UNCHANGED <<pending, posted, wakePc, failed>>

(* send(): pending.exchange(true), and nothing more if it was set.         *)
Exchange(t) ==
    /\ sendPc[t] = "sending"
    /\ pending' = TRUE
    /\ sendPc' = [sendPc EXCEPT ![t] = IF pending THEN "idle" ELSE "posting"]
    /\ UNCHANGED <<posted, wakePc, work, sends, failed>>

Post(t) ==
    /\ sendPc[t] = "posting"
    /\ posted' = posted + 1
    /\ sendPc' = [sendPc EXCEPT ![t] = "idle"]
    /\ UNCHANGED <<pending, wakePc, work, sends, failed>>

(* asio::post throws to the caller of send(), which knows that its item    *)
(* will not be taken and takes it back.                                    *)
PostThrows(t) ==
    /\ sendPc[t] = "posting"
    /\ work' = work \ {t}
    /\ failed' = TRUE
    /\ sendPc' = [sendPc EXCEPT ![t] = "idle"]
    /\ UNCHANGED <<pending, posted, wakePc, sends>>

(* Mutant: pending is not cleared.                                         *)
WakeKeepsPending ==
    /\ wakePc = "idle" /\ posted > 0
    /\ posted' = posted - 1
    /\ wakePc' = "calling"
    /\ UNCHANGED <<pending, sendPc, work, sends, failed>>

(* Mutant: the handler posts itself again as long as pending is set.       *)
WakeReposts ==
    /\ wakePc = "idle" /\ posted > 0
    /\ IF pending
       THEN UNCHANGED <<pending, posted, wakePc>>
       ELSE posted' = posted - 1 /\ wakePc' = "calling" /\ UNCHANGED pending
    /\ UNCHANGED <<sendPc, work, sends, failed>>

(* The handler: it clears pending first, then runs the callback.           *)
Wake ==
    /\ wakePc = "idle" /\ posted > 0
    /\ posted' = posted - 1
    /\ pending' = FALSE
    /\ wakePc' = "calling"
    /\ UNCHANGED <<sendPc, work, sends, failed>>

(* Mutant: pending is cleared again after the callback.                    *)
CallbackClears ==
    /\ wakePc = "calling"
    /\ work' = {}
    /\ pending' = FALSE
    /\ wakePc' = "idle"
    /\ UNCHANGED <<posted, sendPc, sends, failed>>

Callback ==
    /\ wakePc = "calling"
    /\ work' = {}
    /\ wakePc' = "idle"
    /\ UNCHANGED <<pending, posted, sendPc, sends, failed>>

Send(t) == Exchange(t) \/ Post(t) \/ PostThrows(t)
Loop == Wake \/ Callback

(* All was sent and every run is over.                                     *)
Quiet ==
    /\ sends = MaxSends /\ posted = 0 /\ wakePc = "idle"
    /\ \A t \in Senders : sendPc[t] = "idle"
    /\ UNCHANGED signalVars

SignalNext == Loop \/ Quiet \/ \E t \in Senders : Leave(t) \/ Send(t)

SignalSpec == SignalInit /\ [][SignalNext]_signalVars

(* Threads run, and the loop runs what is posted to it.                    *)
SignalFairSpec == SignalSpec /\ WF_signalVars(Loop) /\ \A t \in Senders : WF_signalVars(Send(t))

-----------------------------------------------------------------------------
Posting == {t \in Senders : sendPc[t] = "posting"}

(* Sends coalesce: of all the threads inside send() and the handlers in    *)
(* the queue there is at most one wake-up on its way, and none when        *)
(* pending is clear, so the queue never holds two                          *)
(* (reactor_events.h:121-123).                                             *)
Coalesces == posted + Cardinality(Posting) <= IF pending THEN 1 ELSE 0

(* No item waits without a callback still to come that will see it: one    *)
(* that has not begun, or a send() that has yet to ask for it.  This is    *)
(* why pending is cleared before the callback and not after.  A post that  *)
(* throws ends it: pending stays set with no run to come                   *)
(* (reactor_events.h:133-136).                                             *)
WakeOwed ==
    work # {} /\ ~failed => \/ wakePc = "calling" \/ posted > 0
                            \/ \E t \in Senders : sendPc[t] \in {"sending", "posting"}

(* What was left before a send() that returned is taken by a callback, as  *)
(* long as no post throws (reactor_events.h:120-121).                      *)
EverySendServed == \A t \in Senders : (t \in work) ~> (t \notin work \/ failed)
=============================================================================
