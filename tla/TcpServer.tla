----------------------------- MODULE TcpServer ------------------------------
(***************************************************************************)
(* class TcpServer of reactor.h with its accept loops and sessions: N      *)
(* reactors, each with a loop thread; one acceptor on the first loop that  *)
(* deals connections out in turn, or one acceptor per loop; a session per  *)
(* connection with its ticket; and the owner's thread through start(),     *)
(* stop() and the phases of teardown.                                      *)
(*                                                                         *)
(* A handler of a loop is one action, from the wait that ends to the next  *)
(* one it starts; the accept loop's is three, since stop() may come        *)
(* between its test of stopping and the launch, and other acceptors meet   *)
(* the ticket of a launch that fails.  Handlers of one loop run in any     *)
(* order, those of different loops and the owner's steps interleave.  The  *)
(* walks of abort_all() and force_all() are one step each, on the loop or  *)
(* on the owner when no thread is inside run(): module LoopSync shows that *)
(* they run once, before the call returns, in no race with the loop.       *)
(***************************************************************************)
EXTENDS Naturals, FiniteSets

CONSTANTS
    N,                \* reactors, numbered as in reactors_
    Conns,            \* connections that clients may open
    Shared,           \* one shared acceptor, else one per reactor (SO_REUSEPORT)
    MaxConnections,   \* set_connection_limit; 0 for none
    StoppableByHost,  \* loops whose io_context a session or the host may stop
    MayMoveAway       \* sessions may move to another server's loop and end there

ASSUME TcpServerAssumption ==
    /\ N \in Nat \ {0}
    /\ IsFiniteSet(Conns)
    /\ Shared \in BOOLEAN
    /\ MaxConnections \in Nat
    /\ StoppableByHost \subseteq 1..N
    /\ MayMoveAway \in BOOLEAN

Reactors == 1..N
LastOwner == IF Shared THEN 1 ELSE N
Owners == 1..LastOwner      \* the reactors with an acceptor

VARIABLES
    owner,      \* the owner's thread: its next step, the index of the loop it is in,
                \* the state of sessions_end_within
    reactor,    \* each Reactor: its thread, its io_context, walked_, forced_, sessions_
    control,    \* each AcceptControl and its accept task
    next,       \* shared_accept_loop's next
    conn,       \* each connection's session
    active      \* the leases out of admission_

vars == <<owner, reactor, control, next, conn, active>>

OwnerSteps == {"new", "threads", "spawn", "first", "listen", "serving", "catch", "abort", "signal",
               "post", "reap", "grace", "force", "halt", "join", "stopped", "close", "roots",
               "destroy", "gone"}
Tasks == {"none", "spawned", "top", "accepting", "launching", "retrying", "finished"}
(* The ticket of the connection is out: with the accept loop that launches *)
(* it, in the posted hand-off, or with the session.                        *)
Ticketed == {"entered", "handoff", "spawned", "running"}

TypeOK ==
    /\ owner \in [step : OwnerSteps, at : Reactors, anyPort : BOOLEAN,
                  drained : BOOLEAN, late : BOOLEAN, rounds : 0..2]
    /\ reactor \in [Reactors -> [thread : {"off", "run", "out"}, stopped : BOOLEAN,
                                 walked : BOOLEAN, forced : BOOLEAN, sessions : Nat]]
    /\ control \in [Owners -> [task : Tasks, ready : BOOLEAN, stopping : BOOLEAN,
                               closing : BOOLEAN, closed : BOOLEAN, target : Reactors]]
    /\ next \in Reactors
    /\ conn \in [Conns -> [state : {"none", "accepted", "refused", "dropped", "ended", "destroyed"}
                                      \cup Ticketed,
                           home : Reactors, away : BOOLEAN, aborted : BOOLEAN, shut : BOOLEAN]]
    /\ active \in Nat

Init ==
    /\ \E anyPort \in BOOLEAN :     \* start(0) or start(port)
        owner = [step |-> "new", at |-> 1, anyPort |-> anyPort,
                 drained |-> TRUE, late |-> FALSE, rounds |-> 0]
    /\ reactor = [r \in Reactors |-> [thread |-> "off", stopped |-> FALSE, walked |-> FALSE,
                                      forced |-> FALSE, sessions |-> 0]]
    /\ control = [r \in Owners |-> [task |-> "none", ready |-> FALSE, stopping |-> FALSE,
                                    closing |-> FALSE, closed |-> FALSE, target |-> r]]
    /\ next = 1
    /\ conn = [c \in Conns |-> [state |-> "none", home |-> 1, away |-> FALSE,
                                aborted |-> FALSE, shut |-> FALSE]]
    /\ active = 0

-----------------------------------------------------------------------------
(* Sessions and tickets.                                                   *)

(* A loop's thread is inside the accept loop's handler, which goes on to   *)
(* its end whatever happens to the io_context.                             *)
Busy(r) == r \in Owners /\ control[r].task = "launching"

(* A loop's thread can run a handler.                                      *)
Live(r) == reactor[r].thread = "run" /\ ~reactor[r].stopped /\ ~Busy(r)

In(c, s) == conn[c].state = s
Home(c) == conn[c].home

(* The leases that go with n tickets.                                      *)
LeasesOf(n) == IF MaxConnections > 0 THEN n ELSE 0

(* ~SessionTicket() for n sessions of reactor r: the admission, then the   *)
(* session count.                                                          *)
ReleaseTickets(n, r) ==
    /\ active' = active - LeasesOf(n)
    /\ reactor' = [reactor EXCEPT ![r].sessions = @ - n]

(* The hand-off runs on the session's own loop: it spawns the session, or  *)
(* runs out of memory and drops the connection.                            *)
HandOff(c) ==
    /\ In(c, "handoff")
    /\ Live(Home(c))
    /\ \/ /\ conn' = [conn EXCEPT ![c].state = "spawned"]
          /\ UNCHANGED <<active, reactor>>
       \/ /\ conn' = [conn EXCEPT ![c].state = "dropped"]
          /\ ReleaseTickets(1, Home(c))
    /\ UNCHANGED <<owner, control, next>>

(* Mutant: track() does not look at walked_.                               *)
StartSessionUnaware(c) ==
    /\ In(c, "spawned")
    /\ Live(Home(c))
    /\ conn' = [conn EXCEPT ![c].state = "running", ![c].shut = reactor[Home(c)].forced]
    /\ UNCHANGED <<active, reactor, owner, control, next>>

(* run_session: track() aborts the control when the abort walk has begun   *)
(* and forces it when the force walk has; an aborted session never runs.   *)
StartSession(c) ==
    LET r == reactor[Home(c)]
    IN  /\ In(c, "spawned")
        /\ Live(Home(c))
        /\ conn' = [conn EXCEPT ![c].state = IF r.walked THEN "ended" ELSE "running",
                                ![c].aborted = r.walked, ![c].shut = r.forced]
        /\ IF r.walked THEN ReleaseTickets(1, Home(c)) ELSE UNCHANGED <<active, reactor>>
        /\ UNCHANGED <<owner, control, next>>

(* A session moves to another server's loop, or back.                      *)
MoveSession(c) ==
    /\ MayMoveAway
    /\ In(c, "running")
    /\ Live(Home(c))
    /\ conn' = [conn EXCEPT ![c].away = ~@]
    /\ UNCHANGED <<owner, reactor, control, next, active>>

(* A session ends, by returning or by an exception: its control leaves the *)
(* list and its ticket is released.  Away from home that happens on the    *)
(* other loop's thread, which runs until the owner has stopped every       *)
(* server; the list is then left without a lock off its own loop.          *)
EndSession(c) ==
    /\ In(c, "running")
    /\ IF conn[c].away
       THEN owner.step \notin {"close", "roots", "destroy", "gone"}
       ELSE Live(Home(c))
    /\ conn' = [conn EXCEPT ![c].state = "ended"]
    /\ ReleaseTickets(1, Home(c))
    /\ UNCHANGED <<owner, control, next>>

SessionStep(c) == HandOff(c) \/ StartSession(c) \/ MoveSession(c) \/ EndSession(c)

-----------------------------------------------------------------------------
(* The accept loops.                                                       *)

(* The accept task waits at t, or has ended: AcceptControl::finish.        *)
GoesTo(r, t) == control' = [control EXCEPT ![r].task = t]

(* The task starts: it returns when stopping, else binds and listens, or   *)
(* fails to.                                                               *)
BeginAccept(r) ==
    /\ control[r].task = "spawned"
    /\ Live(r)
    /\ \/ /\ ~control[r].stopping
          /\ control' = [control EXCEPT ![r].task = "top", ![r].ready = TRUE]
       \/ GoesTo(r, "finished")
    /\ UNCHANGED <<owner, reactor, next, conn, active>>

(* The head of the accept loop: the test of stopping, the choice of the    *)
(* destination, which the shared loop deals out in turn, and async_accept. *)
AcceptNext(r) ==
    /\ control[r].task = "top"
    /\ Live(r)
    /\ IF control[r].stopping
       THEN GoesTo(r, "finished") /\ UNCHANGED next
       ELSE /\ control' = [control EXCEPT ![r].task = "accepting",
                                          ![r].target = IF Shared THEN next ELSE r]
            /\ next' = IF ~Shared THEN next ELSE IF next = N THEN 1 ELSE next + 1
    /\ UNCHANGED <<owner, reactor, conn, active>>

(* A connection is accepted: the test of stopping, after which the socket  *)
(* is dropped and the task returns.                                        *)
AcceptConnection(r, c) ==
    /\ control[r].task = "accepting"
    /\ Live(r)
    /\ In(c, "none")
    /\ IF control[r].stopping
       THEN GoesTo(r, "finished") /\ conn' = [conn EXCEPT ![c].state = "dropped"]
       ELSE /\ GoesTo(r, "launching")
            /\ conn' = [conn EXCEPT ![c].state = "accepted", ![c].home = control[r].target]
    /\ UNCHANGED <<owner, reactor, next, active>>

(* The admission refuses.                                                  *)
Full == MaxConnections > 0 /\ active >= MaxConnections

Launching(r, c, s) ==
    control[r].task = "launching" /\ In(c, s) /\ Home(c) = control[r].target
Becomes(c, s) == conn' = [conn EXCEPT ![c].state = s]

(* try_enter and the ticket: the connection is refused when the admission  *)
(* is full, else it is counted on its own reactor.                         *)
Enter(r, c) ==
    /\ Launching(r, c, "accepted")
    /\ IF Full
       THEN GoesTo(r, "top") /\ Becomes(c, "refused") /\ UNCHANGED <<reactor, active>>
       ELSE /\ Becomes(c, "entered")
            /\ reactor' = [reactor EXCEPT ![Home(c)].sessions = @ + 1]
            /\ active' = active + LeasesOf(1)
            /\ UNCHANGED control
    /\ UNCHANGED <<owner, next>>

(* Mutant: a launch without memory keeps its ticket.                       *)
LaunchLeaks(r, c) ==
    /\ Launching(r, c, "entered")
    /\ \/ GoesTo(r, "top") /\ Becomes(c, IF Home(c) = r THEN "spawned" ELSE "handoff")
       \/ GoesTo(r, IF control[r].stopping THEN "finished" ELSE "retrying") /\ Becomes(c, "dropped")
    /\ UNCHANGED <<owner, next, reactor, active>>

(* launch_session spawns the session here or posts the launch to its own   *)
(* loop.  Without memory for that the ticket is released on the way out    *)
(* and AcceptControl::retry pauses, or ends the task when stopping.        *)
Launch(r, c) ==
    /\ Launching(r, c, "entered")
    /\ \/ /\ GoesTo(r, "top") /\ Becomes(c, IF Home(c) = r THEN "spawned" ELSE "handoff")
          /\ UNCHANGED <<reactor, active>>
       \/ /\ GoesTo(r, IF control[r].stopping THEN "finished" ELSE "retrying")
          /\ Becomes(c, "dropped") /\ ReleaseTickets(1, Home(c))
    /\ UNCHANGED <<owner, next>>

(* The accept fails and AcceptControl::retry decides: the task returns     *)
(* when stopping; an error of one connection is skipped, or pauses; a      *)
(* shortage of resources pauses; any other error ends the task.            *)
AcceptFails(r) ==
    /\ control[r].task = "accepting"
    /\ Live(r)
    /\ \/ GoesTo(r, "finished")
       \/ ~control[r].stopping /\ GoesTo(r, "top")
       \/ ~control[r].stopping /\ GoesTo(r, "retrying")
    /\ UNCHANGED <<owner, reactor, next, conn, active>>

(* The pause ends, by its timer or because stop_on_owner cancelled it.     *)
RetryEnds(r) ==
    /\ control[r].task = "retrying"
    /\ Live(r)
    /\ GoesTo(r, IF control[r].stopping THEN "finished" ELSE "top")
    /\ UNCHANGED <<owner, reactor, next, conn, active>>

(* stop_on_owner runs on the acceptor's loop.                              *)
CloseAcceptor(r) ==
    /\ control[r].closing
    /\ Live(r)
    /\ control' = [control EXCEPT ![r].closing = FALSE, ![r].closed = TRUE]
    /\ UNCHANGED <<owner, reactor, next, conn, active>>

AcceptStep(r) ==
    \/ BeginAccept(r) \/ AcceptNext(r) \/ AcceptFails(r) \/ RetryEnds(r) \/ CloseAcceptor(r)
    \/ \E c \in Conns : AcceptConnection(r, c) \/ Enter(r, c) \/ Launch(r, c)

-----------------------------------------------------------------------------
(* The loops' threads.                                                     *)

(* The host, or a session, stops an io_context it can reach.               *)
HostStops(r) ==
    /\ r \in StoppableByHost
    /\ Live(r)
    /\ reactor' = [reactor EXCEPT ![r].stopped = TRUE]
    /\ UNCHANGED <<owner, control, next, conn, active>>

(* run() returns and the thread releases the loop.                         *)
LeaveRun(r) ==
    /\ reactor[r].thread = "run"
    /\ reactor[r].stopped
    /\ ~Busy(r)
    /\ reactor' = [reactor EXCEPT ![r].thread = "out"]
    /\ UNCHANGED <<owner, control, next, conn, active>>

-----------------------------------------------------------------------------
(* The owner's thread.                                                     *)

At(s) == owner.step = s
Moved(s, i) == [owner EXCEPT !.step = s, !.at = i]
(* The owner's loop over 1..last goes on, or is over and s comes next.     *)
GoOn(last, s) == IF owner.at < last THEN Moved(owner.step, owner.at + 1) ELSE Moved(s, 1)
OwnerOnly == UNCHANGED <<reactor, control, next, conn, active>>

(* start() registers the guards; the sockets and guards it makes may fail  *)
(* as the first thread may.                                                *)
Start == At("new") /\ owner' = Moved("threads", 1) /\ OwnerOnly

StartThread ==
    /\ At("threads")
    /\ reactor' = [reactor EXCEPT ![owner.at].thread = "run"]
    /\ owner' = GoOn(N, "spawn")
    /\ UNCHANGED <<control, next, conn, active>>

(* The thread cannot be created: its claim is released, start() unwinds.   *)
ThreadFails == At("threads") /\ owner' = Moved("catch", 1) /\ OwnerOnly

(* An accept task is spawned.  For start(0) the first listener decides the *)
(* port, so it must listen before the others are spawned.                  *)
SpawnAccept ==
    /\ At("spawn")
    /\ control' = [control EXCEPT ![owner.at].task = "spawned"]
    /\ owner' = IF owner.anyPort /\ ~Shared /\ owner.at = 1
                THEN Moved("first", 1) ELSE GoOn(LastOwner, "listen")
    /\ UNCHANGED <<reactor, next, conn, active>>

(* The control cannot be made, or it is listed and finished because the    *)
(* task cannot be spawned.                                                 *)
SpawnFails ==
    /\ At("spawn")
    /\ GoesTo(owner.at, "finished") \/ UNCHANGED control
    /\ owner' = Moved("catch", 1)
    /\ UNCHANGED <<reactor, next, conn, active>>

(* wait_listening(): the listener is ready, or finished without it, which  *)
(* throws.                                                                 *)
WaitListening ==
    LET listener == control[owner.at]
    IN  /\ \/ /\ At("first") \/ At("listen")
              /\ listener.task = "finished" /\ ~listener.ready
              /\ owner' = Moved("catch", 1)
           \/ /\ At("first") /\ listener.ready
              /\ owner' = IF N = 1 THEN Moved("listen", 1) ELSE Moved("spawn", 2)
           \/ /\ At("listen") /\ listener.ready
              /\ owner' = GoOn(LastOwner, "serving")
        /\ OwnerOnly

(* start() unwinds: the listed controls are told, then stop() runs.        *)
(* Contexts without a thread have nothing queued by then.                  *)
CatchStart ==
    /\ At("catch")
    /\ control' = [control EXCEPT ![owner.at].stopping = control[owner.at].task # "none"]
    /\ owner' = GoOn(LastOwner, "abort")
    /\ UNCHANGED <<reactor, next, conn, active>>

(* stop(), once; also without start().                                     *)
Stop == (At("new") \/ At("serving")) /\ owner' = Moved("abort", 1) /\ OwnerOnly

(* on_loop_sync can run its walk: the loop runs handlers, or no thread is  *)
(* inside run().                                                           *)
WalkRuns(r) == reactor[r].thread = "run" => Live(r)

(* The sessions tracked on the reactor the owner is at.                    *)
TrackedHere(c) == In(c, "running") /\ Home(c) = owner.at

(* Mutant: the first stage shuts the connections down already.             *)
AbortAllForces ==
    /\ At("abort")
    /\ WalkRuns(owner.at)
    /\ reactor' = [reactor EXCEPT ![owner.at].walked = TRUE]
    /\ conn' = [c \in Conns |-> [conn[c] EXCEPT !.aborted = @ \/ TrackedHere(c),
                                                !.shut = @ \/ TrackedHere(c)]]
    /\ owner' = GoOn(N, "signal")
    /\ UNCHANGED <<control, next, active>>

AbortAll ==
    /\ At("abort")
    /\ WalkRuns(owner.at)
    /\ reactor' = [reactor EXCEPT ![owner.at].walked = TRUE]
    /\ conn' = [c \in Conns |-> [conn[c] EXCEPT !.aborted = @ \/ TrackedHere(c)]]
    /\ owner' = GoOn(N, "signal")
    /\ UNCHANGED <<control, next, active>>

(* Each accept: stopping, then stop_on_owner is posted to its loop.        *)
SignalAccept ==
    /\ At("signal")
    /\ IF control[owner.at].task # "none"
       THEN /\ control' = [control EXCEPT ![owner.at].stopping = TRUE]
            /\ owner' = Moved("post", owner.at)
       ELSE owner' = GoOn(LastOwner, "reap") /\ UNCHANGED control
    /\ UNCHANGED <<reactor, next, conn, active>>

(* Mutant: the acceptor is not closed.                                     *)
PostNothing ==
    /\ At("post")
    /\ owner' = IF owner.at < LastOwner THEN Moved("signal", owner.at + 1) ELSE Moved("reap", 1)
    /\ UNCHANGED <<reactor, control, next, conn, active>>

PostClose ==
    /\ At("post")
    /\ control' = [control EXCEPT ![owner.at].closing = TRUE]
    /\ owner' = IF owner.at < LastOwner THEN Moved("signal", owner.at + 1) ELSE Moved("reap", 1)
    /\ UNCHANGED <<reactor, next, conn, active>>

(* sessions_end_within begins.                                             *)
NewRound(o) ==
    IF o.step = "grace"
    THEN [o EXCEPT !.drained = TRUE, !.late = FALSE, !.rounds = @ + 1] ELSE o

(* Mutant: does not wait for the accepts.                                  *)
ReapWithoutWaiting ==
    /\ At("reap")
    /\ owner' = NewRound(GoOn(LastOwner, "grace"))
    /\ OwnerOnly

(* control->wait() for every accept.                                       *)
ReapAccept ==
    /\ At("reap")
    /\ control[owner.at].task \in {"none", "finished"}
    /\ owner' = NewRound(GoOn(LastOwner, "grace"))
    /\ OwnerOnly

(* Mutant: the last reactor alone decides.                                 *)
WaitSessionsLast ==
    LET ended == reactor[owner.at].sessions = 0
    IN  /\ At("grace")
        /\ ended \/ owner.late
        /\ owner' = [GoOn(N, IF ended \/ owner.rounds = 2 THEN "halt" ELSE "force")
                        EXCEPT !.drained = ended]
        /\ OwnerOnly

(* sessions_end_within: each reactor in turn, one deadline for all.  The   *)
(* first time what is left is forced, the second time it is left there.    *)
WaitSessions ==
    LET ended == reactor[owner.at].sessions = 0
        drained == owner.drained /\ ended
    IN  /\ At("grace")
        /\ ended \/ owner.late
        /\ owner' = [GoOn(N, IF drained \/ owner.rounds = 2 THEN "halt" ELSE "force")
                        EXCEPT !.drained = drained]
        /\ OwnerOnly

GraceEnds == At("grace") /\ ~owner.late /\ owner' = [owner EXCEPT !.late = TRUE] /\ OwnerOnly

ForceAll ==
    /\ At("force")
    /\ WalkRuns(owner.at)
    /\ reactor' = [reactor EXCEPT ![owner.at].forced = TRUE]
    /\ conn' = [c \in Conns |-> [conn[c] EXCEPT !.shut = @ \/ TrackedHere(c)]]
    /\ owner' = NewRound(GoOn(N, "grace"))
    /\ UNCHANGED <<control, next, active>>

HaltLoop ==
    /\ At("halt")
    /\ reactor' = [reactor EXCEPT ![owner.at].stopped = TRUE]
    /\ owner' = GoOn(N, "join")
    /\ UNCHANGED <<control, next, conn, active>>

(* Mutant: the threads are not waited for.                                 *)
JoinWithoutWaiting == At("join") /\ owner' = GoOn(N, "stopped") /\ OwnerOnly

Join ==
    /\ At("join")
    /\ reactor[owner.at].thread # "run"
    /\ owner' = GoOn(N, "stopped")
    /\ OwnerOnly

(* The owner goes on to close(), with every server stopped.                *)
BeginClose == At("stopped") /\ owner' = Moved("close", 1) /\ OwnerOnly

(* The reactor the owner is at destroys its sessions in state s.           *)
Destroy(s) ==
    LET S == {c \in Conns : In(c, s) /\ Home(c) = owner.at}
    IN  /\ conn' = [c \in Conns |-> IF c \in S THEN [conn[c] EXCEPT !.state = "destroyed"] ELSE conn[c]]
        /\ ReleaseTickets(Cardinality(S), owner.at)
        /\ UNCHANGED <<control, next>>

(* The scheduler's close() destroys what is spawned and has not run.       *)
CloseScheduler == At("close") /\ Destroy("spawned") /\ owner' = GoOn(N, "roots")

(* Its destroy_roots() destroys the tasks still suspended.                 *)
DestroyRoots == At("roots") /\ Destroy("running") /\ owner' = GoOn(N, "destroy")

(* Mutant: the hand-offs outlive the reactor.                              *)
DestroyReactorLeaks ==
    /\ At("destroy")
    /\ owner' = GoOn(N, "gone")
    /\ OwnerOnly

(* ~Reactor: the io_context destroys the hand-offs it never ran.           *)
DestroyReactor == At("destroy") /\ Destroy("handoff") /\ owner' = GoOn(N, "gone")

(* What start() and stop() do once called.                                 *)
OwnerStep ==
    \/ StartThread \/ ThreadFails \/ SpawnAccept \/ SpawnFails \/ WaitListening \/ CatchStart
    \/ AbortAll \/ SignalAccept \/ PostClose \/ ReapAccept \/ WaitSessions \/ GraceEnds
    \/ ForceAll \/ HaltLoop \/ Join

(* The server is gone: nothing happens any more.                           *)
Gone == At("gone") /\ UNCHANGED vars

Next ==
    \/ Start \/ Stop \/ OwnerStep
    \/ BeginClose \/ CloseScheduler \/ DestroyRoots \/ DestroyReactor \/ Gone
    \/ \E r \in Owners : AcceptStep(r)
    \/ \E r \in Reactors : HostStops(r) \/ LeaveRun(r)
    \/ \E c \in Conns : SessionStep(c)

Spec == Init /\ [][Next]_vars

(* The owner's thread and the loops' threads run.  A timer fires, a posted *)
(* handler runs while its loop lives, an accept on a closed acceptor       *)
(* fails, and the grace passes.  Nothing is assumed of clients and         *)
(* sessions.                                                               *)
Fairness ==
    /\ WF_vars(OwnerStep)
    /\ WF_vars(GraceEnds)
    /\ \A r \in Reactors : WF_vars(LeaveRun(r))
    /\ \A r \in Owners :
        /\ WF_vars(\/ BeginAccept(r) \/ AcceptNext(r) \/ RetryEnds(r)
                   \/ \E c \in Conns : Enter(r, c) \/ Launch(r, c))
        /\ WF_vars(CloseAcceptor(r))
        /\ WF_vars(control[r].closed /\ AcceptFails(r))

FairSpec == Spec /\ Fairness

-----------------------------------------------------------------------------
(* The sessions that hold a ticket, and those of reactor r among them.     *)
Held == {c \in Conns : conn[c].state \in Ticketed}
Tickets(r) == {c \in Held : Home(c) = r}

(* A session is counted, and its admission held, from the accept until its *)
(* frame ends or is destroyed, on every path: a launch or a hand-off that  *)
(* runs out of memory, abort before it ran, end, destruction (invariant 1  *)
(* of docs/mechanisms/sessions-and-schedulers.md).                         *)
TicketsExact ==
    /\ TypeOK
    /\ \A r \in Reactors : reactor[r].sessions = Cardinality(Tickets(r))
    /\ active = LeasesOf(Cardinality(Held))

AfterReap == {"grace", "force", "halt", "join", "stopped", "close", "roots", "destroy", "gone"}
AfterAbort == AfterReap \cup {"signal", "post", "reap"}

(* Once stop() has reaped the accepts no session is added anywhere: the    *)
(* ticket is taken before a hand-off, so the barrier covers it.            *)
AcceptBarrier ==
    [][owner.step \in AfterReap =>
        \A r \in Reactors : reactor'[r].sessions <= reactor[r].sessions]_vars

(* From the abort walks on, every session that runs has been asked to      *)
(* stop, also one launched or handed off after the walk; and once the      *)
(* force walks are over each one's connection is shut down.                *)
ShutdownReachesSessions ==
    \A c \in Conns : In(c, "running") =>
        /\ owner.step \in AfterAbort => conn[c].aborted
        /\ owner.step \in AfterReap /\ owner.rounds = 2 => conn[c].shut

(* Nothing is forced before it was asked to stop, the accepts were reaped  *)
(* and the first wait for the sessions was over without them (invariant 2  *)
(* of docs/mechanisms/stop-and-accept.md).                                 *)
ForceIsLast ==
    \A c \in Conns : conn[c].shut =>
        /\ conn[c].aborted
        /\ At("force") \/ (owner.step \in AfterReap /\ owner.rounds = 2)

(* When stop() halts the loops without having forced, no session is left:  *)
(* sessions_end_within was true of all reactors at once, though it looked  *)
(* at them one after the other.                                            *)
NothingLeftUnforced ==
    owner.step \in {"halt", "join", "stopped"} /\ owner.rounds = 1 =>
        \A r \in Reactors : reactor[r].sessions = 0

(* After destruction every ticket and every admission has been returned.   *)
AllReturned == At("gone") => active = 0 /\ \A r \in Reactors : reactor[r].sessions = 0

(* The accept loop has the connection in its hands.                        *)
InHand(c) == In(c, "accepted") \/ In(c, "entered")

(* Frames are destroyed by the owner alone: from close() on no thread is   *)
(* inside run(), every accept has ended, and no connection is between its  *)
(* accept and its session (reactor.h:598-606).                             *)
TeardownAlone ==
    owner.step \in {"close", "roots", "destroy", "gone"} =>
        /\ \A r \in Reactors : reactor[r].thread # "run"
        /\ \A r \in Owners : control[r].task \in {"none", "finished"}
        /\ \A c \in Conns : ~InHand(c)

(* stop() returns, whatever clients and sessions do (invariant 1 of        *)
(* docs/mechanisms/stop-and-accept.md).                                    *)
StopReturns == At("abort") ~> At("stopped")

(* start() returns with every acceptor listening or, since, ended          *)
(* (reactor.h:653-654).                                                    *)
Listening == At("serving") => \A r \in Owners : control[r].ready

(* A loop's thread runs its handlers, one after the other.                 *)
Runs(r) == reactor[r].thread = "run" /\ ~reactor[r].stopped

(* Everything the owner blocks on is somebody's next step.  A loop that a  *)
(* walk waits for finishes its launch or leaves; a listener that is not    *)
(* ready is spawned on a loop that runs it; an accept that is not finished *)
(* is on a loop that runs it, told to stop, its acceptor closed or about   *)
(* to be; and the threads to join are on stopped loops.  Loops that the    *)
(* host stops under an accept are left out: stop() waits for those.        *)
WaitsEnd ==
    /\ \A r \in Owners : Busy(r) => \E c \in Conns : InHand(c) /\ Home(c) = control[r].target
    /\ (At("first") \/ At("listen")) /\ owner.at \notin StoppableByHost =>
        \/ control[owner.at].ready \/ control[owner.at].task = "finished"
        \/ control[owner.at].task = "spawned" /\ Runs(owner.at)
    /\ At("reap") => \A r \in Owners \ StoppableByHost :
        control[r].task \in {"none", "finished"} \/
            (Runs(r) /\ control[r].stopping /\ (control[r].closing \/ control[r].closed))
    /\ At("join") => \A r \in Reactors : reactor[r].stopped /\ ~Busy(r)

(* The owner's calls do what they say and return: start() returns with     *)
(* every acceptor listening or, since, ended, or throws, whatever fails in *)
(* it; and stop() returns.                                                 *)
CallsReturn ==
    /\ [](/\ Listening /\ WaitsEnd
          /\ At("threads") => <>(At("serving") \/ At("stopped")))
    /\ StopReturns
=============================================================================
