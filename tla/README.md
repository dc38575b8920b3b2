# A TLA+ model of the reactor runtime

Reactor is a header-only C++20 runtime on Asio: one loop per core, TCP and UDP
servers on them, admission, timers and signals, and a shutdown in stages.  This
directory models its concurrent parts, model-checks them with TLC on small
instances, and proves the core for every instance with TLAPS.

Line numbers are those of the files in the repository's root (`reactor.h:275`).

## The system and its modules

| Part of the code | Module | Model checking | Proofs |
|---|---|---|---|
| `Reactor::on_loop_sync`, `claim_loop`, `release_loop` | `LoopSync` | `MCLoopSync` | `LoopSyncProofs` |
| `Reactor::track`, `untrack`, `abort_all`, `force_all` | `Reactor` (uses `LoopSync`) | `MCReactor` | `ReactorProofs` |
| `AbortList` | `AbortList`, implements `TrackedList` | `MCAbortList` | `AbortListProofs` |
| `AdmissionGate` and its lease | `AdmissionGate` | `MCAdmissionGate` | `StatisticsProofs` |
| `ConnectionAdmission` and its lease | `ConnectionAdmission`, implements `Admission` | `MCConnectionAdmission` | `HostProofs` |
| `TcpServer`, the accept loops, sessions, tickets | `TcpServer` | `MCTcpServer` | `TcpServerProofs` |
| `Signal` | `Signal` | `MCSignal` | `HostProofs` |
| `PeriodicTimer` | `PeriodicTimer` | `MCPeriodicTimer` | `HostProofs` |
| `UdpServer` and its receive loop | `UdpServer` (uses `Reactor`) | `MCUdpServer` | `UdpServerProofs` |
| `LagSnapshot`, the histogram | `LagSnapshot` (operators) | `MCLagProbe` | `StatisticsProofs` |
| `LagProbe` | `LagProbe` (uses `LagSnapshot`) | `MCLagProbe` | `StatisticsProofs` |
| TLS, tracing, socket options | not modelled, see the end | | |

How the parts meet: a `TcpServer` owns N `Reactor`s, each with one thread inside
`run()`.  An accept loop admits a connection (`ConnectionAdmission`), takes a
`SessionTicket` and launches the session on its own reactor, through a posted
hand-off when it accepted on another one.  The session tracks a control on its
reactor (`AbortList`).  `stop()` walks those lists on their loops
(`on_loop_sync`), reaps the accepts, waits a grace, walks again with force,
stops the loops and joins.  A `UdpServer` owns one `Reactor` with one thread, a
socket and a receive loop, and stops by the same walk.  The host uses
`AdmissionGate`, `Signal`, `PeriodicTimer` and `LagProbe` from its sessions and
threads.

`Lists` has the four operators on sequences that `Reactor`, `AbortList` and
`TrackedList` share, `ListLemmas` what is proved about them.  They are written
without recursion, so that the prover can reason about them.  `PeriodicTimer`,
`Signal`, `AdmissionGate` and `LagProbe` have names of their own for `Init`,
`Next` and the like, because their proofs stand in a module beside another
component's.

`PROJECT.json` names, for every definition, the lines it models.

### LoopSync

A caller hands `f` to the loop and waits; if the loop's thread leaves `run()`
first, the caller takes the call back and runs `f` itself.  The state is
`loops_`, the two mutexes, `sync_calls_`, `sync_open_`, `sync_done_`, the
io_context's queue, and where each caller and the loop's thread stand.  Every
action is one shared access or one critical section, except that evaluating the
wait predicate and going to sleep are two actions with the mutex held, so a
notification can be lost in the model if it can in the code.  The loop may be
stopped at any time, also before it is claimed, and a host may restart the
io_context and claim the loop again with handlers of earlier calls still queued
(`Restart` is external: nothing in the library calls it).  `claim_loop()` is an
increment and waits for nobody: a loop may be claimed while a caller still runs
its `f`.  `NoRaceWithLoop` is therefore about the moment a caller begins `f`.

### Reactor, AbortList and TrackedList

`Reactor` composes `LoopSync` (by `INSTANCE`; every step of a call is a step of
it) with the flags `aborting_`, `walked_`, `forced_` and the tracked list.  A
walk visits one abortable per step; between two visits the callback may track
and untrack.  There the list is a sequence and the cursor a suffix of it.
`AbortList` has the pointers and shows by refinement to `TrackedList` that they
behave as such a sequence.  Walks nest there: a callback may begin another walk,
which saves the interrupted one's cursor in its local `outer`.  `remove()` looks
at `cursor_` only, so a node removed inside the inner walk may be the one the
outer walk resumes on.  The variable `strayed` records that this happened, and
is the point at which `TrackedList` is released from its promise (`off`); up to
it, nested walks are held to it in full.

`on_loop_sync` takes no lock when it finds no loop (reactor.h:276), so two
callers may walk at once, and a loop claimed in the middle of such a walk may run
handlers beside it.  The list has no lock either: these are data races, which
ARCHITECTURE.md:155-162 leaves to the host to avoid.  `Racing` is the state in
which two threads may touch the list; the model reaches it, and follows the
reactor no further (`Undefined`), since nothing can be said of what the list
holds then.  `OneWalker` says which of these states can be reached: never a
caller's walk beside a handler that `on_loop_sync` posted, and two walks only if
one of the callers found no loop.  `ShutdownReachesAll` and `WalksReturn` hold
up to a race.  A `TcpServer` or `UdpServer` claims its loops before it starts
their threads and walks from its owner's thread only, so that none begins there.

### AdmissionGate, ConnectionAdmission, Admission

Each atomic access is a step.  Relaxed atomics are modelled by the current value
of one location; the properties relate several locations only when no call is in
progress.  A spurious failure of `compare_exchange_weak` reloads the same value
and is a stuttering step.  Leases are objects that hold a place or not; reset,
destruction and move assignment are actions.  `CounterMax` stands for the
largest `uint64_t`, small enough in the runs that the counters reach it.
`Admission` says what a bounded admission promises: every answer is justified by
an instant of its own call.  `ConnectionAdmission` implements it;
`AdmissionGate` does not: it may refuse below its limit.

### TcpServer

The owner's thread goes through `start()`, `stop()`, `close()`,
`destroy_roots()` and destruction, one step per statement that others can see.
Each reactor has its thread, `stopped` for its io_context, `walked_`, `forced_`
and `sessions_`; each acceptor its `AcceptControl` and the point its task waits
at; each connection its session's state.  `Shared` selects
`shared_accept_loop` or one `accept_loop` per reactor.  Failures are choices: a
thread or accept task cannot be created, bind or listen fails, an accept fails
with any class of error, a launch or hand-off runs out of memory.  A handler of
a loop is one step, the accept handler three: the test of `stopping`
(`AcceptConnection`), the admission with the ticket (`Enter`) and the launch
(`Launch`), because `stop()` may set `stopping` and walk between any two of
them.  A launch without memory releases the ticket it took on its way out and
pauses or ends as `retry` decides.  The bound on connections is
`ConnectionAdmission`'s and is shown there, for acceptors on several threads;
here `try_enter` is one step.  The walks are one step each; `LoopSync` and
`Reactor` justify that.  The scheduler is external: a spawned session has not
run yet, `close()` destroys those, `destroy_roots()` the suspended ones, and the
io_context's destruction the hand-offs that never ran.

### Signal and PeriodicTimer

`Signal` models `send()` and its handler together with the host's use: an item
is left before the send, the callback takes every item.  `PeriodicTimer` models
the operations posted from any thread, the waits that may have expired when they
are cancelled, and the generation that tells them apart.  The generation wraps
around at `Generations` (2^64 in the code); the bound is that the loop runs a
stale handler before its generation comes again.  `start()` is two steps, the
store of the repeat and the post of the arming; `lastStart` remembers which
repeat the last arming asked for until calls overlap or `set_repeat()` is
called.

### UdpServer

The owner's thread goes through `start()` with each of its failures (the bind,
the spawn, the thread), `stop()`, `close()` and `destroy_roots()`, in any order
and again.  The reactor is an `INSTANCE` of `Reactor` with the owner as its only
caller, and through it of `LoopSync`: `stop()` is `abort_all()` step by step, not
an abstract walk.  On top of `Reactor` come exceptions.  The thread of
reactor_udp.h catches what escapes `run()` and enters it again, so a handler
that throws ends that handler only (`R!ReenterRun`); an `abort()` that throws
ends the walk it is in (`R!UnwindOnLoop`, `R!UnwindHere`).  The receive loop is
spawned, waiting, ended by an error, or destroyed by the phase that finds it.
The loop may run out of work, and the host may stop it.

### LagSnapshot and LagProbe

`LagSnapshot` has `index_of`, `upper_us`, `quantile_upper_us` and `since` as
operators.  The quantile's rank is computed in a double in the code.  Where the
exact product is a whole number the model takes both roundings.  In a histogram
so large that the product has lost its fraction (`Rough`, 2^51 in the code, 25 in
the run) the rank may be one off in either direction whatever the product is.
The bound is that the total itself is a double: 2^53 wakes.  `LagProbe` is
the timer that arms itself again, the one memory slot its waits are allocated
from, `stop()` from any thread, `note_activity()` and a `snapshot()` that reads
the counters one by one while a tick writes them.  The four counters of a tick
are four steps, each of one atomic access.  Time is when a wait expires and
whether the busy window is over.

## Runs

Passing runs:

| Run | Bounds | States | Shows |
|---|---|---|---|
| `loop_sync` | 2 callers, 3 calls | 20,344 | `RunsOnce`, `NoDanglingCall`, `NoRaceWithLoop`, `EveryCallReturns` |
| `reactor` | 2 callers, 2 abortables, 2 calls | 207,624 | `ShutdownReachesAll`, `OneWalker`, `AbortAllWaits`, `WalksReturn` |
| `abort_list` | 4 nodes, walks two deep | 10,280 | `WellLinked`, `KeepsPromise` |
| `connection_admission` | 3 threads, 3 leases, 2 places, counters up to 2, 5 calls | 19,298 | `PlacesExact`, `HighWaterExact`, `CountersExact`, `KeepsPromise` |
| `admission_gate` | 3 threads, 3 leases, limits 0 to 3, 6 calls | 1,467 | `OutWithinLimit`, `InflightExact`, `RefusesNearlyFull` |
| `tcp_shared` | 2 reactors, 3 connections, limit 2, loop 2 stoppable by the host, sessions may move | 1.5 million | `TicketsExact`, `AcceptBarrier`, `ShutdownReachesSessions`, `ForceIsLast`, `NothingLeftUnforced`, `TeardownAlone`, `AllReturned` |
| `tcp_reuse_port` | 2 reactors, 2 connections, limit 1, sessions may move | 379,006 | `CallsReturn` |
| `signal` | 3 senders, 5 sends, a post may throw | 1,288 | `Coalesces`, `WakeOwed`, `EverySendServed` |
| `timer` | 2 callers, 4 calls, 6 generations | 259,457 | `NoStaleFire`, `OneChain`, `StartKept`, `KeepsFiring` |
| `udp` | 2 abortables, 2 calls of `abort_all()`, 2 datagrams | 90,284 | `RootsOutliveLoop`, `PhasesReturn`, `Hears` |
| `lag` | 1 stopping thread, latenesses 9 and 16 us, 2 wakes, 1 activity, 2 snapshots | 337,817 | `OneWait`, `SinceNeverWraps`, `ActivityNoticed`, `HistogramBounds`, `StopEnds` |

The type invariants of `Reactor`, `AbortList`, `TcpServer`, `PeriodicTimer`,
`UdpServer` and `LagProbe` are conjuncts of `OneWalker`, `WellLinked`,
`TicketsExact`, `OneChain`, `RootsOutliveLoop` and `OneWait`; those of `LoopSync`,
the two admissions and `Signal` are part of the inductive invariants.  All of
them are proved.

Why the bounds are enough for the cases that matter: two callers make one wait
for the other's call and leave stale handlers for it; three calls cover a loop
claimed again with such a handler queued.  Four nodes give a walk a current
node, its successor, one before and one after.  Three threads on two places
have one thread refused while the others move.  Two reactors give the shared
acceptor a local and a remote destination, three connections with a limit of
two a refusal.  `tcp_shared` has one acceptor and `tcp_reuse_port` two; that the
safety properties hold with several is proved.  Limits up to three with three threads make `RefusesNearlyFull`
tight.  Six generations hold one wait per call and the current one.
Four nodes and two nested walks let the inner walk remove the outer one's
resumption point and its neighbours.  Two calls of `abort_all()` give `stop()` a
second run after one that an exception cut short.  A snapshot takes several
steps, a tick five, so two wakes and two snapshots interleave in every way.
The part of `HistogramBounds` that is about operators is evaluated in the first
states only, with two powers of two (the code has 30): the partition at the
values next to every edge, the quantile for all sequences of up to three
latenesses, one from each bucket and one beyond, and all tenths.  The proof has
any number of powers, latenesses and fractions.

Most liveness properties have their safety part beside the promise, under one
`[]`: while a thread waits, what it waits for is still to come
(`NotificationOwed`, `WalkOwed`, `WaitsEnd`, ...), and the wait ends.

Each property is also known to fail for a plausible error in the code: the
definitions marked "Mutant" next to the originals.

The violation run states what a document says, and TLC shows a behaviour of the
code that disagrees.

| Run | The code | The claim |
|---|---|---|
| `tcp_host_stop` | `stop()` waits for ever for an accept task whose io_context a session or host stopped (reactor.h:717) | docs/mechanisms/stop-and-accept.md:80 |

Other disagreements shaped properties of the passing runs, which state what the
code does guarantee:

- a nested walk that removes the node saved in the outer walk's `outer` leaves
  the outer walk to resume on it (reactor.h:129-131, against 112-113);
  `KeepsPromise` holds until then;
- two overlapping `start()` calls of a timer can pair one's arming with the
  other's repeat (reactor_events.h:63-64, against 46-48); `StartKept` holds
  without overlap;
- an `abort()` that throws in the walk `stop()` posted to the UDP loop leaves
  the call taken and never published, and `stop()` waits for ever (reactor.h:283-292
  with reactor_udp.h:147, against ARCHITECTURE.md:218); `PhasesReturn` holds
  without it;
- a second, overlapping `abort_all()` returns before the walk ran
  (reactor.h:242, against 239-240); `AbortAllWaits` is about the one that walks;
- `try_enter()` may refuse below the limit while other refused calls have not
  taken their count back (reactor.h:162, against docs/API.md:61-64);
  `RefusesNearlyFull` says by how much;
- a session that moved to another loop and ends there leaves its list off its
  loop (reactor.h:394, against 95-96; docs/status/task-sessions.md:113 and 145
  record it);
- when `asio::post` throws, `pending` stays set and later sends are never served
  (reactor_events.h:133-136, against 120-121); `WakeOwed` and `EverySendServed`
  hold until then.

A nested walk arises when an `abort()` callback calls `force_all()`, which runs
inline on the loop.  Module `Reactor` leaves that out; `AbortList` has it.

`tcp_host_stop` sets `CHECK_DEADLOCK FALSE` because the state it is about is the
owner waiting for ever, `udp` because an unwound walk leaves the owner in that
state, and `lag` because a probe that was stopped is at rest.  Everywhere else
deadlock is checked.

## Fairness

Only threads that the operating system schedules are fair: the loop's thread,
callers inside a call, the owner inside `start()` or `stop()`.  A posted handler
runs while its loop runs, a timer expires, a grace passes, an accept on a closed
acceptor completes with an error.  Nothing is assumed of clients, of sessions,
of the host, or of the order in which mutexes are granted; nobody has to stop or
claim a loop.  Only claims without end are excluded (`<>[][~Claim]_vars`): a host
that for ever claims and releases a stopped loop could do so each time before a
waiting caller has looked.  `WalksReturn` and `PhasesReturn` assume that callbacks return.

`UdpServer` assumes strong fairness of the posted handler and of the receive:
a handler that throws takes the thread out of `run()` for a moment, so they are
enabled again and again rather than always.  The io_context's queue is first in,
first out, so what is ready runs after finitely many handlers before it.

## Proofs

All theorems hold for every value of the constants that satisfies the named
assumptions; the constants that bound a run (`MaxCalls`, `MaxEntries`,
`MaxSends`, `MaxDepth`) are arbitrary naturals in them.  Every safety property
of the passing runs is proved, the safety parts of the liveness properties
included.

- **LoopSyncProofs** (`LoopSyncAssumption`): `TypeCorrect`, `CallRunsOnce`,
  `HandlerNeverDangles`, `CallerNeverRacesLoop`.  The properties do not follow
  from the steps alone; `Inv` of `LoopSync` adds who owns `sync_call_` and that its owner
  has the newest id, that `sync_open_` is 0 or the owner's call, that a taken
  call's owner waits and `sync_done_` does not name it, that queued handlers
  have old ids or one whose owner waits, and how often `f` ran at each point.
  Uniqueness of ids is what keeps a handler left over from an earlier call from
  taking a later one.  `NoNotificationLost` from `SleepInv` on top of it: a
  waiting call is done, or open with its handler queued, or taken by the loop's
  thread, and a caller sleeps only while its wait is not over or a notification
  is coming.
- **ReactorProofs** (`ReactorAssumption`), the reactor on `LoopSync`:
  - `ReactorUsesLoopSync`: every step of the reactor is one of `LoopSync` or
    leaves its state alone, so `Inv` above holds inside the reactor.
  - `OneThreadWalks` and `AbortAllReturnsLast` from `WalkInv`, which says whose
    walk is in progress as long as no two threads are in the list, and
    `AbortInv`, that at most one call of `abort_all()` walks and has walked once
    its `f` has run.
  - `WalksReachAll` from two more: `OnceInv`, by which the abort walk never
    begins a second time, although both the loop's thread and a caller can begin
    it, and `ReachInv`: during a walk the tracked abortables are reached but for
    those the cursor has still to visit.  What the property says of finished
    walks follows only through what it says of the one in progress.
  - `NoWalkForgotten`: `NoNotificationLost` through the refinement, with
    `WalkInv`: whoever runs `f` walks for a call that has not returned.
  - `ReactorUsesTrackedList`: the list of `Reactor`, its cursor and its walks
    take the steps of `TrackedList`, which `AbortList` is proved to implement.
    So the sequence that `Reactor` has for the list is justified by the
    pointers.  `TrackedList` shows the last item visited, which the reactor does
    not keep; the theorem adds a history variable for it.
- **AbortListProofs** (`AbortListAssumption`), for any set of nodes and any depth
  of nested walks: `LinksConsistent`, and `ImplementsTrackedList` step by step.
  `ListInv` ties the pointers to the list by position, `WalkInv` says that the
  outermost walk saved no cursor, and `OnList` that until `strayed` every
  cursor, current or saved, is in the list or `nullptr`.  Without `OnList` the
  refinement fails: a cursor on a removed node has nothing left to visit in
  `TrackedList`, and a node to visit in `AbortList`.
- **UdpServerProofs** (`UdpServerAssumption`): `RootsDestroyedLast`.  `ThreadInv`
  says that a loop that runs has a thread to join or the owner still inside
  `start()`, and that a receive loop with neither is on a stopped io_context;
  `PhaseInv` that the owner is inside `on_loop_sync` only in the walk of
  `stop()`; `CallInv` that nothing completes the owner's call before it is taken.
  `Inv` of `LoopSync` cannot be used here, since a throwing callback leaves
  `on_loop_sync` half-way, which is no step of `LoopSync`; `CallInv` is what
  remains of it.  The assumption makes the owner the only caller, as in the code.
  `StopAnswered` from `AnswerInv`, the counterpart of `SleepInv` for that one
  caller, which holds until an `abort()` throws in the walk on the loop.
  `KeepsListening` from `ListenInv`: a thread to join is inside the loop until
  the io_context is stopped, and the receive loop ends only with a failed
  receive.
- **HostProofs**, what runs between a host's threads and its loops:
  - of `ConnectionAdmission` (`AdmissionAssumption`), `TypeCorrect`,
    `NeverOverMaximum` and `EveryPlaceGivenBackOnce` from the type invariant with
    the bound and the exact count; `HighWaterIsThePeak` from an invariant that a
    peak above `high_water` is carried by a thread on its way to raise it;
    `CountersCountCalls` from one that counts the threads on their way to an
    increment; `ImplementsAdmission`, the refinement to `Admission`, step by step;
  - of `PeriodicTimer` (`PeriodicTimerAssumption`), `NeverFiresStale` and
    `FiresAlongOneChain` from `ChainInv`: at most one wait carries the current
    generation and is not cancelled, none does while the callback runs, and what
    it waits for was not stopped.  `OneChain` also says that an armed timer has
    such a wait or callback, so that it fires on.  Neither property is inductive
    alone, since the wait that will call must already be the only one.
    `LastStartKept` from `StartInv`, which follows the repeat from a `start()`
    that has stored it, through the last arming in the queue, to the loop.  The
    proofs rest on `BumpedIsFresh`, the bound on generations above;
  - of `Signal` (`SignalAssumption`), `SendsCoalesce`, also when posts throw, and
    `NoWakeLost`.  The invariant adds that a set `pending` has a poster or a
    queued handler behind it until a post throws.
- **StatisticsProofs**, what a host reads to see how its server fares:
  - of `LagProbe` (`LagProbeAssumption`), `WaitsInItsSlot` and
    `CancelEndsCounting` from `WaitInv`, which ties the wait, the slot and the
    place of the loop's thread to how far `stop()` has come;
    `DifferencesNeverWrap` from `ReadInv`: what a reader has read so far is at
    most what the counters hold now, and at least the earlier snapshot;
    `ActivityIsNoticed` from `ActivityInv`, which says which wake has still to
    notice; `CancelIsSingle` from `WaitInv`;
  - of `AdmissionGate` (`GateAssumption`), `NeverOverLimit`, `InflightCountsOut`
    and `RejectedCountsRefusals` from their conjunction, in which the exact
    count makes the test of `inflight` sound; `RefusedNearTheLimit` on top of
    it, because a refused thread is not itself among those taking back;
  - of the histogram, for any number of powers of two, `EdgesPartitionTime` and
    `QuantilesWithinBucket`, and from them `HistogramAddsUp` with `HistogramInv`,
    which says by how much the buckets, `wakes` and `max_us` differ at each step
    of a tick.  Powers of two and sums over buckets are recursive functions; each
    induction over them is made with the least counterexample, which
    `WFMin` of the library gives for a set of naturals.
- **TcpServerProofs** (`TcpServerAssumption`), every safety property of the
  server for any number of reactors and connections, either kind of acceptor,
  with hosts that stop loops and sessions that move away:
  - `TicketsStayExact` from `StateInv`, the types with `Exact` (each counter is
    the number of tickets held) and `OwnerInv` (which indices the owner's loops
    run over, and how often it has begun to wait for sessions).  `Exact` is
    needed for the types already: only it keeps a counter from going below zero.
  - `NoSessionAfterReap` from `ReapInv`: the accepts that `stop()` has reaped so
    far are over and never begin again.
  - `StopReachesEverySession` and `ForceComesLast` from `WalkInv`, which says on
    which reactors each walk has set its flag, and that a session running there
    has been reached; a session that starts later reads the flag.  For
    `ForceIsLast` it also says that a `stop()` that forces has been through its
    first wait.
  - `UnforcedStopLeavesNothing` from `DrainInv`: the reactors found empty so far
    are still empty, which needs `ReapInv`.
  - `DestructionReturnsAll` and `OwnerDestroysAlone` from `GoneInv`: what the
    joins and each phase of the destruction have emptied so far stays empty,
    since no thread is left in `run()`; and from `EmptyHands`: once the accepts
    are reaped no connection is between its accept and its session.  The latter
    rests on `HandInv`, that every such connection belongs to exactly one accept
    handler that is still launching, and on `FreshInv`, that `start()` spawns an
    accept only where there was none.
  - `StartReturnsListening` and `OwnerNeverStuck` from `LoopInv` (a thread leaves
    `run()` only when its io_context is stopped, which the owner does after it
    has reaped the accepts), `ReadyInv` (the listeners seen ready so far, and the task behind the
    one waited for), `ToldInv` (an accept that the owner waits for has been told
    to stop and `stop_on_owner` is on its way) and `LaunchInv` (a handler that
    has accepted has a connection in hand).  `OwnerNeverStuck` leaves out
    the loops that a host may stop: `tcp_host_stop` shows that the wait for an
    accept on one of those may not end.

Only model-checked: liveness (`EveryCallReturns`, `WalksReturn`, `CallsReturn`,
`EverySendServed`, `KeepsFiring`, `PhasesReturn`, `Hears`, `StopEnds`), which the
prover does not do under fairness.  What is proved is the safety part of each:
whoever waits has what ends the wait still to come.  That it comes is TLC's.

## Not modelled

- `reactor_tls.h`: straight-line configuration of an OpenSSL context.
- `reactor_trace.h`: logging macros.
- `BindOptions` and socket options.  `tcp_nodelay` ("applied to accepted
  sockets", reactor.h:86) is declared and never read.
- `ReactorLayout`: a compile-time assertion on the order of members; the order
  of destruction it protects is in `TcpServer`.
- `bad_alloc` from the posts inside `stop()`; `abort()` callbacks that throw on a
  TCP loop, whose threads do not catch; walks begun by a callback, in `Reactor`.
- `AcceptControl::retry`'s delays and skip count; the observer.
- `shutdown_connection()`'s descriptor: the operating system may reuse the
  number between the test and the shutdown (reactor.h:354).
- `UdpServer::send_to` and `start()` after `close()`.
- The example and benchmark programs.
- Asio, OpenSSL and the task runtime, beyond how the code uses them.
