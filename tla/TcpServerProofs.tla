--------------------------- MODULE TcpServerProofs --------------------------
(***************************************************************************)
(* Proofs about TcpServer, for every number of reactors and connections.   *)
(***************************************************************************)
EXTENDS TcpServer, FiniteSetTheorems, TLAPS

-----------------------------------------------------------------------------
(* Tickets.                                                                *)

(* The session counts and the leases are those of the tickets held.        *)
Exact ==
    /\ \A r \in Reactors : reactor[r].sessions = Cardinality(Tickets(r))
    /\ active = LeasesOf(Cardinality(Held))

(* There are finitely many tickets.                                        *)
LEMMA TicketsFinite ==
    /\ IsFiniteSet(Held) /\ Cardinality(Held) \in Nat
    /\ \A r \in Reactors : IsFiniteSet(Tickets(r)) /\ Cardinality(Tickets(r)) \in Nat
<1>1. IsFiniteSet(Held)
  BY FS_Subset, TcpServerAssumption DEF Held
<1>2. \A r \in Reactors : IsFiniteSet(Tickets(r))
  BY <1>1, FS_Subset DEF Tickets
<1> QED
  BY <1>1, <1>2, FS_CardinalityType

(* A step that moves no ticket keeps the counts exact.                     *)
LEMMA TicketsStay ==
    ASSUME Exact, Held' = Held, \A c \in Held : Home(c)' = Home(c), active' = active,
           \A r \in Reactors : reactor'[r].sessions = reactor[r].sessions
    PROVE  Exact'
<1>1. \A r \in Reactors : Tickets(r)' = Tickets(r)
  BY DEF Tickets
<1> QED
  BY <1>1 DEF Exact, LeasesOf

(* Releasing the tickets of a set of sessions of one reactor keeps the     *)
(* counts exact and does not take them below zero.                         *)
LEMMA TicketsLeave ==
    ASSUME Exact, NEW r \in Reactors, NEW S \in SUBSET Tickets(r),
           Held' = Held \ S, \A c \in Held' : Home(c)' = Home(c),
           active' = active - LeasesOf(Cardinality(S)),
           \A q \in Reactors : reactor'[q].sessions =
               IF q = r THEN reactor[r].sessions - Cardinality(S) ELSE reactor[q].sessions
    PROVE  Exact' /\ active' \in Nat /\ (\A q \in Reactors : reactor'[q].sessions \in Nat)
<1>1. Tickets(r)' = Tickets(r) \ S /\ \A q \in Reactors : q # r => Tickets(q)' = Tickets(q)
  BY DEF Tickets
<1>2. S \subseteq Held
  BY DEF Tickets
<1>3. /\ IsFiniteSet(Held) /\ Cardinality(Held) \in Nat
      /\ \A q \in Reactors : IsFiniteSet(Tickets(q)) /\ Cardinality(Tickets(q)) \in Nat
  BY TicketsFinite
<1>4. IsFiniteSet(S) /\ Cardinality(S) \in Nat
  BY <1>2, <1>3, FS_Subset, FS_CardinalityType
<1>5. Held \cap S = S /\ Tickets(r) \cap S = S
  BY <1>2
<1>6. /\ Cardinality(Held \ S) = Cardinality(Held) - Cardinality(S)
      /\ Cardinality(Held \ S) \in Nat
  BY <1>3, <1>4, <1>5, FS_Difference, FS_CardinalityType, ZenonT(40)
<1>7. /\ Cardinality(Tickets(r) \ S) = Cardinality(Tickets(r)) - Cardinality(S)
      /\ Cardinality(Tickets(r) \ S) \in Nat
  BY <1>3, <1>4, <1>5, FS_Difference, FS_CardinalityType, ZenonT(40)
<1>8. \A q \in Reactors : reactor'[q].sessions = Cardinality(Tickets(q)') /\ reactor'[q].sessions \in Nat
  BY <1>1, <1>3, <1>7, Zenon DEF Exact
<1>9. active' = LeasesOf(Cardinality(Held)')  /\ active' \in Nat
  BY <1>3, <1>4, <1>6, TcpServerAssumption DEF Exact, LeasesOf
<1> QED
  BY <1>8, <1>9 DEF Exact

(* A new ticket of one reactor keeps the counts exact.                     *)
LEMMA TicketsJoin ==
    ASSUME Exact, NEW r \in Reactors, NEW c \in Conns, c \notin Held,
           Held' = Held \cup {c}, \A d \in Held' : Home(d)' = Home(d), Home(c) = r,
           active' = active + LeasesOf(1),
           \A q \in Reactors : reactor'[q].sessions =
               IF q = r THEN reactor[r].sessions + 1 ELSE reactor[q].sessions
    PROVE  Exact' /\ active' \in Nat /\ (\A q \in Reactors : reactor'[q].sessions \in Nat)
<1>1. Tickets(r)' = Tickets(r) \cup {c} /\ \A q \in Reactors : q # r => Tickets(q)' = Tickets(q)
  BY DEF Tickets
<1>2. c \notin Tickets(r)
  BY DEF Tickets
<1>3. /\ IsFiniteSet(Held) /\ Cardinality(Held) \in Nat
      /\ \A q \in Reactors : IsFiniteSet(Tickets(q)) /\ Cardinality(Tickets(q)) \in Nat
  BY TicketsFinite
<1>4. Cardinality(Held \cup {c}) = Cardinality(Held) + 1
  BY <1>3, FS_AddElement, Zenon
<1>5. Cardinality(Tickets(r) \cup {c}) = Cardinality(Tickets(r)) + 1
  BY <1>2, <1>3, FS_AddElement, Zenon
<1>6. \A q \in Reactors : reactor'[q].sessions = Cardinality(Tickets(q)') /\ reactor'[q].sessions \in Nat
  <2>1. Cardinality(Tickets(r)') = Cardinality(Tickets(r)) + 1
    BY <1>1, <1>5
  <2>2. \A q \in Reactors : q # r => Cardinality(Tickets(q)') = Cardinality(Tickets(q))
    BY <1>1
  <2> QED
    BY <1>3, <2>1, <2>2 DEF Exact
<1>7. active' = LeasesOf(Cardinality(Held)') /\ active' \in Nat
  BY <1>3, <1>4, TcpServerAssumption DEF Exact, LeasesOf
<1> QED
  BY <1>6, <1>7 DEF Exact

-----------------------------------------------------------------------------
(* The owner's thread.                                                     *)

OwnerStates == [step : OwnerSteps, at : Reactors, anyPort : BOOLEAN,
                drained : BOOLEAN, late : BOOLEAN, rounds : 0..2]

BeforeGrace == OwnerSteps \ AfterReap

(* Where the owner's index is an acceptor's, and how often the owner has   *)
(* begun to wait for the sessions.                                         *)
OwnerInv ==
    /\ owner \in OwnerStates
    /\ owner.step \in {"spawn", "first", "listen", "catch", "signal", "post", "reap"} =>
        owner.at \in Owners
    /\ owner.step \in BeforeGrace => owner.rounds = 0
    /\ owner.step \in AfterReap => owner.rounds \in {1, 2}
    /\ owner.step = "force" => owner.rounds = 1
    /\ owner.step = "first" => ~Shared

(* Reactors are numbered from 1, and the first has an acceptor.            *)
LEMMA Numbers ==
    /\ N \in Nat /\ LastOwner \in Nat /\ 1 <= LastOwner /\ LastOwner <= N
    /\ 1 \in Reactors /\ 1 \in Owners /\ Owners \subseteq Reactors
    /\ \A r \in Owners : r < LastOwner => r + 1 \in Owners
    /\ \A r \in Reactors : r < N => r + 1 \in Reactors
  BY TcpServerAssumption DEF Reactors, Owners, LastOwner

(* The owner goes to step s of index i.                                    *)
LEMMA Moves ==
    ASSUME owner \in OwnerStates, NEW s \in OwnerSteps, NEW i \in Reactors
    PROVE  /\ Moved(s, i) \in OwnerStates
           /\ Moved(s, i).step = s /\ Moved(s, i).at = i
           /\ Moved(s, i).rounds = owner.rounds /\ Moved(s, i).drained = owner.drained
  BY Zenon DEF Moved, OwnerStates

(* The owner's loop goes on with the next index, or to step s.             *)
LEMMA GoesOn ==
    ASSUME owner \in OwnerStates, NEW last \in Reactors, NEW s \in OwnerSteps
    PROVE  /\ GoOn(last, s) \in OwnerStates
           /\ \/ /\ owner.at < last /\ owner.at + 1 \in 1..last
                 /\ GoOn(last, s).step = owner.step /\ GoOn(last, s).at = owner.at + 1
              \/ /\ owner.at >= last
                 /\ GoOn(last, s).step = s /\ GoOn(last, s).at = 1
           /\ GoOn(last, s).rounds = owner.rounds /\ GoOn(last, s).drained = owner.drained
<1>1. owner.at \in Reactors /\ owner.at \in Nat /\ last \in Nat /\ owner.step \in OwnerSteps
  BY TcpServerAssumption DEF Reactors, OwnerStates
<1>2. CASE owner.at < last
  <2>1. owner.at + 1 \in Reactors /\ owner.at + 1 \in 1..last
    BY <1>1, <1>2, TcpServerAssumption DEF Reactors
  <2>2. GoOn(last, s) = Moved(owner.step, owner.at + 1)
    BY <1>2 DEF GoOn
  <2> QED
    BY <1>1, <1>2, <2>1, <2>2, Moves
<1>3. CASE owner.at >= last
  <2>1. GoOn(last, s) = Moved(s, 1)
    BY <1>1, <1>3 DEF GoOn
  <2> QED
    BY <1>3, <2>1, Moves, Numbers
<1> QED
  BY <1>1, <1>2, <1>3

(* NewRound counts an entry into sessions_end_within, and begins it afresh.*)
LEMMA Rounds ==
    ASSUME NEW o \in OwnerStates, o.step = "grace" => o.rounds \in {0, 1}
    PROVE  /\ NewRound(o) \in OwnerStates
           /\ NewRound(o).step = o.step /\ NewRound(o).at = o.at
           /\ o.step = "grace" => NewRound(o).rounds = o.rounds + 1 /\ NewRound(o).drained
           /\ o.step # "grace" => NewRound(o) = o
<1>1. CASE o.step # "grace"
  BY <1>1 DEF NewRound
<1>2. CASE o.step = "grace"
  <2>1. o.rounds + 1 \in 0..2
    BY <1>2
  <2>2. NewRound(o) = [o EXCEPT !.drained = TRUE, !.late = FALSE, !.rounds = o.rounds + 1]
    BY <1>2 DEF NewRound, OwnerStates
  <2> QED
    BY <1>2, <2>1, <2>2, Zenon DEF OwnerStates
<1> QED
  BY <1>1, <1>2

(* The steps of the others leave the owner where it is.                    *)
LEMMA OthersLeaveOwner ==
    ASSUME \/ \E r \in Owners : AcceptStep(r)
           \/ \E r \in Reactors : HostStops(r) \/ LeaveRun(r)
           \/ \E c \in Conns : SessionStep(c)
    PROVE  owner' = owner
  BY Zenon
     DEF AcceptStep, BeginAccept, AcceptNext, AcceptConnection, Enter, Launch, AcceptFails, RetryEnds,
         CloseAcceptor, HostStops, LeaveRun, SessionStep, HandOff, StartSession, MoveSession,
         EndSession

(* A step leaves the owner where it is or is one of the owner's.           *)
LEMMA OwnerCases ==
    ASSUME [Next]_vars
    PROVE  \/ owner' = owner
           \/ Start \/ Stop \/ StartThread \/ ThreadFails \/ SpawnAccept \/ SpawnFails
           \/ WaitListening \/ CatchStart \/ AbortAll \/ SignalAccept \/ PostClose \/ ReapAccept
           \/ WaitSessions \/ GraceEnds \/ ForceAll \/ HaltLoop \/ Join
           \/ BeginClose \/ CloseScheduler \/ DestroyRoots \/ DestroyReactor
<1>1. CASE UNCHANGED vars
  BY <1>1 DEF vars
<1>2. CASE Gone
  BY <1>2 DEF Gone, vars
<1>3. CASE \/ \E r \in Owners : AcceptStep(r)
           \/ \E r \in Reactors : HostStops(r) \/ LeaveRun(r)
           \/ \E c \in Conns : SessionStep(c)
  BY <1>3, OthersLeaveOwner
<1> QED
  BY <1>1, <1>2, <1>3, Zenon DEF Next, OwnerStep

(* Every step keeps the owner on its way.                                  *)
LEMMA NextOwner == OwnerInv /\ [Next]_vars => OwnerInv'
<1> SUFFICES ASSUME OwnerInv, [Next]_vars PROVE OwnerInv'
  OBVIOUS
<1>0. owner \in OwnerStates /\ owner.at \in Reactors /\ LastOwner \in Reactors /\ N \in Reactors
  BY Numbers DEF OwnerInv, OwnerStates, Reactors
<1> USE <1>0, Numbers DEF OwnerInv, OwnerSteps, AfterReap, BeforeGrace, At
<1>1. CASE owner' = owner
  BY <1>1
<1>2. CASE Start \/ Stop \/ ThreadFails \/ SpawnFails \/ BeginClose
  BY <1>2, Moves DEF Start, Stop, ThreadFails, SpawnFails, BeginClose
<1>3. CASE StartThread
  BY <1>3, GoesOn DEF StartThread
<1>4. CASE SpawnAccept
  <2>1. owner.step = "spawn" /\ owner.rounds = 0
    BY <1>4 DEF SpawnAccept
  <2>2. \/ ~Shared /\ owner' = Moved("first", 1)
        \/ owner' = GoOn(LastOwner, "listen")
    BY <1>4 DEF SpawnAccept
  <2>3. CASE ~Shared /\ owner' = Moved("first", 1)
    BY <2>1, <2>3, Moves
  <2>4. CASE owner' = GoOn(LastOwner, "listen")
    BY <2>1, <2>4, GoesOn DEF Owners
  <2> QED
    BY <2>2, <2>3, <2>4
<1>5. CASE WaitListening
  <2>1. CASE owner' = Moved("catch", 1) \/ owner' = Moved("listen", 1)
    BY <1>5, <2>1, Moves DEF WaitListening
  <2>2. CASE owner.step = "first" /\ N # 1 /\ owner' = Moved("spawn", 2)
    <3>1. 2 \in Owners /\ 2 \in Reactors
      BY <2>2 DEF Owners, Reactors, LastOwner
    <3> QED
      BY <2>2, <3>1, Moves
  <2>3. CASE owner.step = "listen" /\ owner' = GoOn(LastOwner, "serving")
    BY <2>3, GoesOn, SMTT(30) DEF Owners
  <2> QED
    BY <1>5, <2>1, <2>2, <2>3 DEF WaitListening
<1>6. CASE CatchStart
  BY <1>6, GoesOn, SMTT(30) DEF CatchStart, Owners
<1>7. CASE AbortAll
  BY <1>7, GoesOn, SMTT(30) DEF AbortAll
<1>8. CASE SignalAccept
  BY <1>8, GoesOn, Moves, SMTT(30) DEF SignalAccept, Owners
<1>9. CASE PostClose
  BY <1>9, Moves DEF PostClose, Owners
<1>10. CASE ReapAccept
  <2> DEFINE o == GoOn(LastOwner, "grace")
  <2>1. /\ o \in OwnerStates /\ o.rounds = 0
        /\ \/ o.step = "reap" /\ o.at \in Owners
           \/ o.step = "grace"
    BY <1>10, GoesOn DEF ReapAccept, Owners
  <2>2. owner' = NewRound(o)
    BY <1>10 DEF ReapAccept
  <2> HIDE DEF o
  <2> QED
    BY <2>1, <2>2, Rounds
<1>11. CASE WaitSessions
  <2> DEFINE drained == owner.drained /\ reactor[owner.at].sessions = 0
             s == IF drained \/ owner.rounds = 2 THEN "halt" ELSE "force"
             o == GoOn(N, s)
  <2>1. s \in OwnerSteps /\ drained \in BOOLEAN
    OBVIOUS
  <2>2. owner' = [o EXCEPT !.drained = drained]
    BY <1>11 DEF WaitSessions
  <2>3. s = "halt" \/ (s = "force" /\ owner.rounds # 2)
    OBVIOUS
  <2>4. owner.step = "grace" /\ owner.rounds \in {1, 2}
    BY <1>11 DEF WaitSessions
  <2> HIDE DEF drained, s
  <2>5. /\ o \in OwnerStates /\ o.rounds = owner.rounds
        /\ o.step = "grace" \/ o.step = s
    BY <2>1, <2>4, GoesOn
  <2> HIDE DEF o
  <2> QED
    BY <2>1, <2>2, <2>3, <2>4, <2>5 DEF OwnerStates
<1>12. CASE GraceEnds
  BY <1>12, Zenon DEF GraceEnds, OwnerStates
<1>13. CASE ForceAll
  <2> DEFINE o == GoOn(N, "grace")
  <2>1. /\ o \in OwnerStates /\ o.rounds = 1
        /\ o.step = "force" \/ o.step = "grace"
    BY <1>13, GoesOn DEF ForceAll
  <2>2. owner' = NewRound(o)
    BY <1>13 DEF ForceAll
  <2> HIDE DEF o
  <2> QED
    BY <2>1, <2>2, Rounds
<1>14. CASE HaltLoop \/ Join
  BY <1>14, GoesOn DEF HaltLoop, Join
<1>15. CASE CloseScheduler \/ DestroyRoots \/ DestroyReactor
  BY <1>15, GoesOn DEF CloseScheduler, DestroyRoots, DestroyReactor
<1> QED
  BY <1>1, <1>2, <1>3, <1>4, <1>5, <1>6, <1>7, <1>8, <1>9, <1>10, <1>11, <1>12, <1>13, <1>14,
     <1>15, OwnerCases, Zenon

-----------------------------------------------------------------------------
(* Types and tickets.                                                      *)

ReactorStates == [thread : {"off", "run", "out"}, stopped : BOOLEAN, walked : BOOLEAN,
                  forced : BOOLEAN, sessions : Nat]
ControlStates == [task : Tasks, ready : BOOLEAN, stopping : BOOLEAN, closing : BOOLEAN,
                  closed : BOOLEAN, target : Reactors]
ConnStates == [state : {"none", "accepted", "refused", "dropped", "ended", "destroyed"}
                          \cup Ticketed,
               home : Reactors, away : BOOLEAN, aborted : BOOLEAN, shut : BOOLEAN]

StateInv == TypeOK /\ Exact /\ OwnerInv

(* The types of the variables one by one.                                  *)
LEMMA Types ==
    TypeOK <=> /\ owner \in OwnerStates
               /\ reactor \in [Reactors -> ReactorStates]
               /\ control \in [Owners -> ControlStates]
               /\ next \in Reactors
               /\ conn \in [Conns -> ConnStates]
               /\ active \in Nat
  BY DEF TypeOK, OwnerStates, ReactorStates, ControlStates, ConnStates

(* And after a step.                                                       *)
LEMMA TypesAfter ==
    ASSUME owner' \in OwnerStates, reactor' \in [Reactors -> ReactorStates],
           control' \in [Owners -> ControlStates], next' \in Reactors,
           conn' \in [Conns -> ConnStates], active' \in Nat
    PROVE  TypeOK'
  BY DEF TypeOK, OwnerStates, ReactorStates, ControlStates, ConnStates

(* Nothing was accepted.                                                   *)
LEMMA InitState == Init => StateInv
<1> SUFFICES ASSUME Init PROVE StateInv
  OBVIOUS
<1>1. owner \in OwnerStates /\ OwnerInv
  BY Numbers DEF Init, OwnerInv, OwnerStates, OwnerSteps, AfterReap, BeforeGrace
<1>2. TypeOK
  <2>1. reactor \in [Reactors -> ReactorStates]
    BY DEF Init, ReactorStates
  <2>2. control \in [Owners -> ControlStates]
    BY Numbers DEF Init, ControlStates, Tasks
  <2>3. conn \in [Conns -> ConnStates]
    BY Numbers DEF Init, ConnStates
  <2>4. next \in Reactors /\ active \in Nat
    BY Numbers DEF Init
  <2> QED
    BY <1>1, <2>1, <2>2, <2>3, <2>4, Types
<1>3. Exact
  <2>1. Held = {}
    BY DEF Init, Held, Ticketed
  <2>2. \A r \in Reactors : Tickets(r) = {}
    BY <2>1 DEF Tickets
  <2> QED
    BY <2>1, <2>2, FS_EmptySet, Zenon DEF Init, Exact, LeasesOf
<1> QED
  BY <1>1, <1>2, <1>3 DEF StateInv

(* A step that leaves the sessions' states, homes and counts alone.        *)
LEMMA StateStays ==
    ASSUME StateInv, OwnerInv', control' \in [Owners -> ControlStates], next' \in Reactors,
           reactor' \in [Reactors -> ReactorStates], conn' \in [Conns -> ConnStates],
           active' = active,
           \A r \in Reactors : reactor'[r].sessions = reactor[r].sessions,
           \A c \in Conns : /\ conn'[c].state \in Ticketed <=> conn[c].state \in Ticketed
                            /\ conn[c].state \in Ticketed => conn'[c].home = conn[c].home
    PROVE  StateInv'
<1>1. active' \in Nat /\ owner' \in OwnerStates
  BY Types DEF StateInv, OwnerInv
<1>2. TypeOK'
  BY <1>1, TypesAfter
<1>3. Held' = Held
  BY DEF Held
<1>4. \A c \in Held : Home(c)' = Home(c)
  BY DEF Held, Home
<1>5. Exact'
  BY <1>3, <1>4, TicketsStay DEF StateInv
<1> QED
  BY <1>2, <1>5 DEF StateInv

(* Sessions of one reactor end and release their tickets.                  *)
LEMMA StateLeaves ==
    ASSUME StateInv, OwnerInv', control' \in [Owners -> ControlStates], next' \in Reactors,
           NEW r \in Reactors, NEW S \in SUBSET Tickets(r), ReleaseTickets(Cardinality(S), r),
           conn' \in [Conns -> ConnStates],
           \A c \in Conns : /\ conn'[c].state \in Ticketed <=> c \in Held \ S
                            /\ conn'[c].home = conn[c].home
    PROVE  StateInv'
<1>1. Held' = Held \ S /\ \A c \in Held' : Home(c)' = Home(c)
  <2>1. Held' = Held \ S
    BY DEF Held
  <2>2. \A c \in Held' : Home(c)' = Home(c)
    BY DEF Held, Home
  <2> QED
    BY <2>1, <2>2
<1>2. reactor \in [Reactors -> ReactorStates]
  BY Types DEF StateInv
<1>3. \A q \in Reactors : reactor'[q].sessions =
          IF q = r THEN reactor[r].sessions - Cardinality(S) ELSE reactor[q].sessions
  BY <1>2 DEF ReleaseTickets, ReactorStates
<1>4. Exact' /\ active' \in Nat /\ \A q \in Reactors : reactor'[q].sessions \in Nat
  BY <1>1, <1>3, TicketsLeave DEF StateInv, ReleaseTickets
<1>5. reactor' \in [Reactors -> ReactorStates]
  BY <1>2, <1>4 DEF ReleaseTickets, ReactorStates
<1>6. owner' \in OwnerStates
  BY DEF OwnerInv
<1> QED
  BY <1>4, <1>5, <1>6, TypesAfter DEF StateInv

(* One session ends.                                                       *)
LEMMA StateLosesOne ==
    ASSUME StateInv, OwnerInv', control' \in [Owners -> ControlStates], next' \in Reactors,
           NEW c \in Conns, c \in Held, ReleaseTickets(1, Home(c)),
           conn' \in [Conns -> ConnStates], conn'[c].state \notin Ticketed,
           conn'[c].home = conn[c].home, \A d \in Conns : d # c => conn'[d] = conn[d]
    PROVE  StateInv'
<1>1. Home(c) \in Reactors
  BY Types DEF StateInv, Home, ConnStates
<1>2. {c} \in SUBSET Tickets(Home(c)) /\ Cardinality({c}) = 1
  <2>1. c \in Tickets(Home(c))
    BY Zenon DEF Tickets
  <2>2. Cardinality({c}) = 1
    BY FS_Singleton, Zenon
  <2> QED
    BY <2>1, <2>2
<1>3. ReleaseTickets(Cardinality({c}), Home(c))
  BY <1>2
<1>4. \A d \in Conns : /\ conn'[d].state \in Ticketed <=> d \in Held \ {c}
                       /\ conn'[d].home = conn[d].home
  BY DEF Held
<1> QED
  BY <1>1, <1>2, <1>3, <1>4, StateLeaves

(* The reactor the owner is at destroys its sessions in a state.           *)
LEMMA StateDestroys ==
    ASSUME StateInv, OwnerInv', NEW s \in Ticketed, Destroy(s)
    PROVE  StateInv'
<1> DEFINE S == {c \in Conns : In(c, s) /\ Home(c) = owner.at}
<1>1. owner.at \in Reactors /\ conn \in [Conns -> ConnStates]
  BY Types DEF StateInv, OwnerStates
<1>2. S \in SUBSET Tickets(owner.at)
  BY DEF Tickets, Held, In
<1>3. /\ conn' = [c \in Conns |-> IF c \in S THEN [conn[c] EXCEPT !.state = "destroyed"] ELSE conn[c]]
      /\ ReleaseTickets(Cardinality(S), owner.at)
      /\ control' \in [Owners -> ControlStates] /\ next' \in Reactors
  BY Types DEF Destroy, StateInv
<1>4. \A c \in Conns : conn[c] \in ConnStates
  BY <1>1
<1> HIDE DEF S
<1>5. conn' \in [Conns -> ConnStates]
  BY <1>3, <1>4 DEF ConnStates
<1>6. \A c \in Conns : /\ conn'[c].state \in Ticketed <=> c \in Held \ S
                       /\ conn'[c].home = conn[c].home
  BY <1>3, <1>4 DEF ConnStates, Held, Ticketed
<1> QED
  BY <1>1, <1>2, <1>3, <1>5, <1>6, StateLeaves

(* The accept task goes to its next wait.                                  *)
LEMMA TaskGoes ==
    ASSUME control \in [Owners -> ControlStates], NEW r \in Owners, NEW t \in Tasks, GoesTo(r, t)
    PROVE  /\ control' \in [Owners -> ControlStates]
           /\ control'[r].task = t /\ control'[r].stopping = control[r].stopping
           /\ \A q \in Owners : q # r => control'[q] = control[q]
  BY DEF GoesTo, ControlStates

(* A connection changes its state.                                         *)
LEMMA ConnBecomes ==
    ASSUME conn \in [Conns -> ConnStates], NEW c \in Conns,
           NEW s \in {"refused", "dropped"} \cup Ticketed, Becomes(c, s)
    PROVE  /\ conn' \in [Conns -> ConnStates]
           /\ conn'[c].state = s /\ conn'[c].home = conn[c].home
           /\ conn'[c].aborted = conn[c].aborted /\ conn'[c].shut = conn[c].shut
           /\ \A d \in Conns : d # c => conn'[d] = conn[d]
  BY DEF Becomes, ConnStates, Ticketed

(* The admission gives the connection a ticket, or leaves it without.      *)
LEMMA StateEnters ==
    ASSUME StateInv, OwnerInv', NEW r \in Owners, NEW c \in Conns, Enter(r, c)
    PROVE  StateInv'
<1>1. /\ reactor \in [Reactors -> ReactorStates] /\ control \in [Owners -> ControlStates]
      /\ conn \in [Conns -> ConnStates] /\ next \in Reactors
  BY Types DEF StateInv
<1>2. Home(c) \in Reactors /\ conn[c].state = "accepted"
  BY <1>1 DEF Enter, Launching, Home, In, ConnStates
<1>3. next' \in Reactors
  BY <1>1 DEF Enter
<1>4. CASE Full
  <2>1. GoesTo(r, "top") /\ Becomes(c, "refused") /\ UNCHANGED <<reactor, active>>
    BY <1>4 DEF Enter
  <2>2. control' \in [Owners -> ControlStates]
    BY <1>1, <2>1, TaskGoes DEF Tasks
  <2>3. /\ conn' \in [Conns -> ConnStates] /\ conn'[c].state = "refused"
        /\ \A d \in Conns : d # c => conn'[d] = conn[d]
    BY <1>1, <2>1, ConnBecomes
  <2> QED
    BY <1>1, <1>2, <1>3, <2>1, <2>2, <2>3, StateStays DEF Ticketed
<1>5. CASE ~Full
  <2>1. /\ Becomes(c, "entered") /\ UNCHANGED control /\ active' = active + LeasesOf(1)
        /\ reactor' = [reactor EXCEPT ![Home(c)].sessions = @ + 1]
    BY <1>5 DEF Enter
  <2>2. /\ conn' \in [Conns -> ConnStates] /\ conn'[c].state = "entered"
        /\ conn'[c].home = conn[c].home /\ \A d \in Conns : d # c => conn'[d] = conn[d]
    BY <1>1, <2>1, ConnBecomes DEF Ticketed
  <2>3. c \notin Held /\ Held' = Held \cup {c}
    BY <1>2, <2>2 DEF Held, Ticketed
  <2>4. \A d \in Held' : Home(d)' = Home(d)
    BY <2>2 DEF Held, Home
  <2>5. \A q \in Reactors : reactor'[q].sessions =
            IF q = Home(c) THEN reactor[Home(c)].sessions + 1 ELSE reactor[q].sessions
    BY <1>1, <1>2, <2>1 DEF ReactorStates
  <2>6. Exact' /\ active' \in Nat /\ \A q \in Reactors : reactor'[q].sessions \in Nat
    BY <1>2, <2>1, <2>3, <2>4, <2>5, TicketsJoin DEF StateInv
  <2>7. reactor' \in [Reactors -> ReactorStates]
    BY <1>1, <1>2, <2>1 DEF ReactorStates
  <2>8. owner' \in OwnerStates /\ control' \in [Owners -> ControlStates]
    BY <1>1, <2>1 DEF OwnerInv
  <2> QED
    BY <1>3, <2>2, <2>6, <2>7, <2>8, TypesAfter DEF StateInv
<1> QED
  BY <1>4, <1>5

(* A launch passes the ticket on, or releases it.                          *)
LEMMA StateLaunches ==
    ASSUME StateInv, OwnerInv', NEW r \in Owners, NEW c \in Conns, Launch(r, c)
    PROVE  StateInv'
<1>1. /\ reactor \in [Reactors -> ReactorStates] /\ control \in [Owners -> ControlStates]
      /\ conn \in [Conns -> ConnStates] /\ next' \in Reactors
  BY Types DEF StateInv, Launch
<1>2. conn[c].state = "entered" /\ c \in Held
  BY DEF Launch, Launching, In, Held, Ticketed
<1>3. control' \in [Owners -> ControlStates]
  <2>1. \E t \in {"top", "finished", "retrying"} : GoesTo(r, t)
    BY DEF Launch
  <2> QED
    BY <1>1, <2>1, TaskGoes DEF Tasks
<1>4. CASE /\ UNCHANGED <<reactor, active>>
           /\ \E s \in {"spawned", "handoff"} : Becomes(c, s)
  <2>1. PICK s \in {"spawned", "handoff"} : Becomes(c, s)
    BY <1>4
  <2>2. /\ conn' \in [Conns -> ConnStates] /\ conn'[c].state = s
        /\ conn'[c].home = conn[c].home /\ \A d \in Conns : d # c => conn'[d] = conn[d]
    BY <1>1, <2>1, ConnBecomes DEF Ticketed
  <2> QED
    BY <1>1, <1>2, <1>3, <1>4, <2>2, StateStays DEF Ticketed
<1>5. CASE Becomes(c, "dropped") /\ ReleaseTickets(1, Home(c))
  <2>1. /\ conn' \in [Conns -> ConnStates] /\ conn'[c].state = "dropped"
        /\ conn'[c].home = conn[c].home /\ \A d \in Conns : d # c => conn'[d] = conn[d]
    BY <1>1, <1>5, ConnBecomes
  <2>2. conn'[c].state \notin Ticketed
    BY <2>1 DEF Ticketed
  <2> QED
    BY <1>1, <1>2, <1>3, <1>5, <2>1, <2>2, StateLosesOne
<1> QED
  BY <1>4, <1>5 DEF Launch

(* A session's own steps.                                                  *)
LEMMA StateSession ==
    ASSUME StateInv, OwnerInv', NEW c \in Conns, SessionStep(c)
    PROVE  StateInv'
<1>1. /\ reactor \in [Reactors -> ReactorStates] /\ control \in [Owners -> ControlStates]
      /\ conn \in [Conns -> ConnStates] /\ next \in Reactors
  BY Types DEF StateInv
<1>2. UNCHANGED <<control, next>>
  BY DEF SessionStep, HandOff, StartSession, MoveSession, EndSession
<1>3. reactor[Home(c)] \in ReactorStates
  BY <1>1 DEF Home, ConnStates
<1>4. /\ c \in Held /\ conn' \in [Conns -> ConnStates] /\ conn'[c].home = conn[c].home
      /\ \A d \in Conns : d # c => conn'[d] = conn[d]
  <2>1. CASE HandOff(c)
    BY <1>1, <2>1 DEF HandOff, Held, In, Ticketed, ConnStates
  <2>2. CASE StartSession(c)
    <3>1. reactor[Home(c)].walked \in BOOLEAN /\ reactor[Home(c)].forced \in BOOLEAN
      BY <1>3 DEF ReactorStates
    <3>2. PICK s \in {"ended", "running"} :
              conn' = [conn EXCEPT ![c].state = s, ![c].aborted = reactor[Home(c)].walked,
                                   ![c].shut = reactor[Home(c)].forced]
      BY <2>2, <3>1, Zenon DEF StartSession
    <3>3. c \in Held
      BY <2>2 DEF StartSession, Held, In, Ticketed
    <3>4. /\ conn'[c] = [conn[c] EXCEPT !.state = s, !.aborted = reactor[Home(c)].walked,
                                        !.shut = reactor[Home(c)].forced]
          /\ \A d \in Conns : d # c => conn'[d] = conn[d]
      BY <1>1, <3>2
    <3>5. conn'[c] \in ConnStates /\ conn'[c].home = conn[c].home
      <4>1. conn[c] \in ConnStates
        BY <1>1
      <4>2. s \in {"ended"} \cup Ticketed
        BY <3>2 DEF Ticketed
      <4> QED
        BY <3>1, <3>4, <4>1, <4>2, Zenon DEF ConnStates
    <3>6. conn' = [d \in Conns |-> conn'[d]]
      BY <1>1, <3>2, Zenon
    <3>7. \A d \in Conns : conn'[d] \in ConnStates
      BY <1>1, <3>4, <3>5
    <3> QED
      BY <3>3, <3>4, <3>5, <3>6, <3>7
  <2>3. CASE MoveSession(c)
    BY <1>1, <2>3, ZenonT(40) DEF MoveSession, Held, In, Ticketed, ConnStates
  <2>4. CASE EndSession(c)
    BY <1>1, <2>4 DEF EndSession, Held, In, Ticketed, ConnStates
  <2> QED
    BY <2>1, <2>2, <2>3, <2>4 DEF SessionStep
<1>5. \/ conn'[c].state \in Ticketed /\ UNCHANGED <<reactor, active>>
      \/ conn'[c].state \notin Ticketed /\ ReleaseTickets(1, Home(c))
  <2>1. CASE HandOff(c)
    BY <1>1, <2>1 DEF HandOff, Ticketed, ConnStates
  <2>2. CASE StartSession(c)
    <3>1. CASE reactor[Home(c)].walked
      BY <1>1, <2>2, <3>1 DEF StartSession, Ticketed, ConnStates
    <3>2. CASE ~reactor[Home(c)].walked
      BY <1>1, <2>2, <3>2 DEF StartSession, Ticketed, ConnStates
    <3> QED
      BY <3>1, <3>2
  <2>3. CASE MoveSession(c)
    BY <1>1, <2>3 DEF MoveSession, In, Ticketed, ConnStates
  <2>4. CASE EndSession(c)
    BY <1>1, <2>4 DEF EndSession, Ticketed, ConnStates
  <2> QED
    BY <2>1, <2>2, <2>3, <2>4 DEF SessionStep
<1>6. CASE conn'[c].state \in Ticketed /\ UNCHANGED <<reactor, active>>
  BY <1>1, <1>2, <1>4, <1>6, StateStays DEF Held
<1>7. CASE conn'[c].state \notin Ticketed /\ ReleaseTickets(1, Home(c))
  <2>1. control' \in [Owners -> ControlStates] /\ next' \in Reactors
    BY <1>1, <1>2
  <2> QED
    BY <1>4, <1>7, <2>1, StateLosesOne
<1> QED
  BY <1>5, <1>6, <1>7

(* The acceptors' steps.                                                   *)
LEMMA StateAccepts ==
    ASSUME StateInv, OwnerInv', NEW r \in Owners, AcceptStep(r)
    PROVE  StateInv'
<1>1. /\ reactor \in [Reactors -> ReactorStates] /\ control \in [Owners -> ControlStates]
      /\ conn \in [Conns -> ConnStates] /\ next \in Reactors /\ r \in Reactors
  BY Types, Numbers DEF StateInv
<1>2. CASE BeginAccept(r) \/ AcceptFails(r) \/ RetryEnds(r) \/ CloseAcceptor(r)
  <2>1. control' \in [Owners -> ControlStates]
    <3>1. CASE BeginAccept(r)
      BY <1>1, <3>1, TaskGoes DEF BeginAccept, ControlStates, Tasks
    <3>2. CASE AcceptFails(r) \/ RetryEnds(r)
      BY <1>1, <3>2, TaskGoes DEF AcceptFails, RetryEnds, Tasks
    <3>3. CASE CloseAcceptor(r)
      BY <1>1, <3>3, ZenonT(40) DEF CloseAcceptor, ControlStates
    <3> QED
      BY <1>2, <3>1, <3>2, <3>3
  <2>2. UNCHANGED <<reactor, next, conn, active>>
    BY <1>2 DEF BeginAccept, AcceptFails, RetryEnds, CloseAcceptor
  <2> QED
    BY <1>1, <2>1, <2>2, StateStays
<1>3. CASE AcceptNext(r)
  <2>1. control' \in [Owners -> ControlStates] /\ next' \in Reactors
    <3>1. CASE control[r].stopping
      BY <1>1, <1>3, <3>1, TaskGoes DEF AcceptNext, Tasks
    <3>2. CASE ~control[r].stopping
      <4>1. next' \in Reactors
        BY <1>1, <1>3, <3>2, Numbers DEF AcceptNext, Reactors
      <4>2. (IF Shared THEN next ELSE r) \in Reactors
        BY <1>1
      <4>3. control' = [control EXCEPT ![r].task = "accepting", ![r].target = IF Shared THEN next ELSE r]
        BY <1>3, <3>2 DEF AcceptNext
      <4>4. control[r] \in ControlStates
        BY <1>1
      <4>5. [control[r] EXCEPT !.task = "accepting", !.target = IF Shared THEN next ELSE r] \in ControlStates
        BY <4>2, <4>4, Zenon DEF ControlStates, Tasks
      <4>6. control' \in [Owners -> ControlStates]
        BY <1>1, <4>3, <4>5
      <4> QED
        BY <4>1, <4>6
    <3> QED
      BY <3>1, <3>2
  <2> QED
    BY <1>1, <1>3, <2>1, StateStays DEF AcceptNext
<1>4. ASSUME NEW c \in Conns, AcceptConnection(r, c) PROVE StateInv'
  <2>1. control' \in [Owners -> ControlStates]
    BY <1>1, <1>4, TaskGoes DEF AcceptConnection, Tasks
  <2>2. control[r].target \in Reactors
    BY <1>1 DEF ControlStates
  <2>3. /\ conn[c].state = "none" /\ conn'[c].state \in {"dropped", "accepted"}
        /\ \A d \in Conns : d # c => conn'[d] = conn[d]
    BY <1>1, <1>4 DEF AcceptConnection, In, ConnStates
  <2>4. conn' \in [Conns -> ConnStates]
    BY <1>1, <1>4, <2>2 DEF AcceptConnection, ConnStates
  <2> QED
    BY <1>1, <1>4, <2>1, <2>3, <2>4, StateStays DEF AcceptConnection, Ticketed
<1> QED
  BY <1>2, <1>3, <1>4, StateEnters, StateLaunches DEF AcceptStep

(* One reactor's thread, io_context or flags change.                       *)
LEMMA ReactorChanges ==
    ASSUME reactor \in [Reactors -> ReactorStates], NEW r \in Reactors,
           \/ reactor' = [reactor EXCEPT ![r].thread = "run"]
           \/ reactor' = [reactor EXCEPT ![r].thread = "out"]
           \/ reactor' = [reactor EXCEPT ![r].stopped = TRUE]
           \/ reactor' = [reactor EXCEPT ![r].walked = TRUE]
           \/ reactor' = [reactor EXCEPT ![r].forced = TRUE]
    PROVE  /\ reactor' \in [Reactors -> ReactorStates]
           /\ \A q \in Reactors : reactor'[q].sessions = reactor[q].sessions
<1>1. PICK s \in ReactorStates : /\ reactor' = [reactor EXCEPT ![r] = s]
                                 /\ s.sessions = reactor[r].sessions
  <2>1. reactor[r] \in ReactorStates
    OBVIOUS
  <2>2. /\ [reactor[r] EXCEPT !.thread = "run"] \in ReactorStates
        /\ [reactor[r] EXCEPT !.thread = "out"] \in ReactorStates
        /\ [reactor[r] EXCEPT !.stopped = TRUE] \in ReactorStates
        /\ [reactor[r] EXCEPT !.walked = TRUE] \in ReactorStates
        /\ [reactor[r] EXCEPT !.forced = TRUE] \in ReactorStates
    BY <2>1, Zenon DEF ReactorStates
  <2>3. /\ [reactor[r] EXCEPT !.thread = "run"].sessions = reactor[r].sessions
        /\ [reactor[r] EXCEPT !.thread = "out"].sessions = reactor[r].sessions
        /\ [reactor[r] EXCEPT !.stopped = TRUE].sessions = reactor[r].sessions
        /\ [reactor[r] EXCEPT !.walked = TRUE].sessions = reactor[r].sessions
        /\ [reactor[r] EXCEPT !.forced = TRUE].sessions = reactor[r].sessions
    BY <2>1 DEF ReactorStates
  <2> QED
    BY <2>2, <2>3, Zenon
<1> QED
  BY <1>1

(* Every step keeps the types and the counts.                              *)
LEMMA NextState == StateInv /\ [Next]_vars => StateInv'
<1> SUFFICES ASSUME StateInv, [Next]_vars PROVE StateInv'
  OBVIOUS
<1>0. OwnerInv'
  BY NextOwner DEF StateInv
<1>1. /\ reactor \in [Reactors -> ReactorStates] /\ control \in [Owners -> ControlStates]
      /\ conn \in [Conns -> ConnStates] /\ next \in Reactors /\ owner.at \in Reactors
  BY Types DEF StateInv, OwnerStates
<1>2. CASE UNCHANGED <<reactor, control, next, conn, active>>
  BY <1>0, <1>1, <1>2, StateStays
<1>3. CASE StartThread \/ HaltLoop \/ \E r \in Reactors : HostStops(r) \/ LeaveRun(r)
  <2>1. /\ reactor' \in [Reactors -> ReactorStates]
        /\ \A r \in Reactors : reactor'[r].sessions = reactor[r].sessions
    BY <1>1, <1>3, ReactorChanges DEF StartThread, HaltLoop, HostStops, LeaveRun
  <2>2. UNCHANGED <<control, next, conn, active>>
    BY <1>3 DEF StartThread, HaltLoop, HostStops, LeaveRun
  <2> QED
    BY <1>0, <1>1, <2>1, <2>2, StateStays
<1>4. CASE SpawnAccept \/ SpawnFails \/ CatchStart \/ SignalAccept \/ PostClose
  <2>1. control' \in [Owners -> ControlStates]
    <3>1. CASE SpawnAccept
      BY <1>1, <3>1, ZenonT(40) DEF SpawnAccept, ControlStates, Tasks
    <3>2. CASE SpawnFails
      BY <1>1, <3>2 DEF SpawnFails, GoesTo, ControlStates, Tasks
    <3>3. CASE CatchStart
      <4> DEFINE told == control[owner.at].task # "none"
      <4>1. told \in BOOLEAN
        OBVIOUS
      <4>2. control' = [control EXCEPT ![owner.at].stopping = told]
        BY <3>3 DEF CatchStart
      <4> HIDE DEF told
      <4> QED
        BY <1>1, <4>1, <4>2, Zenon DEF ControlStates
    <3>4. CASE SignalAccept
      <4>1. \/ control' = [control EXCEPT ![owner.at].stopping = TRUE]
            \/ control' = control
        BY <3>4 DEF SignalAccept
      <4> QED
        BY <1>1, <4>1, ZenonT(40) DEF ControlStates
    <3>5. CASE PostClose
      BY <1>1, <3>5, Zenon DEF PostClose, ControlStates
    <3> QED
      BY <1>4, <3>1, <3>2, <3>3, <3>4, <3>5
  <2>2. UNCHANGED <<reactor, next, conn, active>>
    BY <1>4 DEF SpawnAccept, SpawnFails, CatchStart, SignalAccept, PostClose
  <2> QED
    BY <1>0, <1>1, <2>1, <2>2, StateStays
<1>5. CASE AbortAll \/ ForceAll
  <2>1. /\ reactor' \in [Reactors -> ReactorStates]
        /\ \A r \in Reactors : reactor'[r].sessions = reactor[r].sessions
    BY <1>1, <1>5, ReactorChanges DEF AbortAll, ForceAll
  <2>2. \A c \in Conns : conn[c] \in ConnStates /\ TrackedHere(c) \in BOOLEAN
    BY <1>1 DEF TrackedHere, In
  <2>3. /\ conn' \in [Conns -> ConnStates]
        /\ \A c \in Conns : conn'[c].state = conn[c].state /\ conn'[c].home = conn[c].home
    BY <1>5, <2>2 DEF AbortAll, ForceAll, ConnStates
  <2>4. UNCHANGED <<control, next, active>>
    BY <1>5 DEF AbortAll, ForceAll
  <2> QED
    BY <1>0, <1>1, <2>1, <2>3, <2>4, StateStays
<1>6. CASE CloseScheduler \/ DestroyRoots \/ DestroyReactor
  BY <1>0, <1>6, StateDestroys DEF CloseScheduler, DestroyRoots, DestroyReactor, Ticketed
<1>7. CASE \E r \in Owners : AcceptStep(r)
  BY <1>0, <1>7, StateAccepts
<1>8. CASE \E c \in Conns : SessionStep(c)
  BY <1>0, <1>8, StateSession
<1>9. CASE \/ Start \/ Stop \/ ThreadFails \/ WaitListening \/ ReapAccept \/ WaitSessions
           \/ GraceEnds \/ Join \/ BeginClose \/ Gone
  BY <1>2, <1>9 DEF Start, Stop, ThreadFails, WaitListening, ReapAccept, WaitSessions, GraceEnds,
                    Join, BeginClose, Gone, OwnerOnly, vars
<1> QED
  BY <1>2, <1>3, <1>4, <1>5, <1>6, <1>7, <1>8, <1>9 DEF Next, OwnerStep, vars

(* Every reachable state is typed, with exact counts.                      *)
LEMMA StateHolds == Spec => []StateInv
  BY InitState, NextState, PTL DEF Spec

(* For any number of reactors, connections and any limit, a session is     *)
(* counted, and its admission held, exactly as long as it has its ticket   *)
(* (detail::SessionTicket).                                                *)
THEOREM TicketsStayExact == Spec => []TicketsExact
<1>1. StateInv => TicketsExact
  BY DEF StateInv, TicketsExact, Exact
<1> QED
  BY <1>1, StateHolds, PTL

(* Only an accept loop that launches adds a session.                       *)
LEMMA OnlyLaunchAdds ==
    ASSUME StateInv, [Next]_vars
    PROVE  \/ \A r \in Reactors : reactor'[r].sessions <= reactor[r].sessions
           \/ \E r \in Owners : control[r].task = "launching"
<1>1. /\ reactor \in [Reactors -> ReactorStates]
      /\ conn \in [Conns -> ConnStates] /\ owner.at \in Reactors
  BY Types DEF StateInv, OwnerStates
<1>2. \A r \in Reactors : reactor[r] \in ReactorStates /\ reactor[r].sessions \in Nat
  BY <1>1 DEF ReactorStates
<1>3. ASSUME NEW r \in Reactors, NEW n \in Nat, ReleaseTickets(n, r)
      PROVE  \A q \in Reactors : reactor'[q].sessions <= reactor[q].sessions
  <2>1. \A q \in Reactors : reactor'[q].sessions =
            IF q = r THEN reactor[q].sessions - n ELSE reactor[q].sessions
    BY <1>1, <1>2, <1>3 DEF ReleaseTickets, ReactorStates
  <2> QED
    BY <1>2, <2>1
<1>4. CASE reactor' = reactor
  BY <1>2, <1>4
<1>5. CASE StartThread \/ HaltLoop \/ AbortAll \/ ForceAll
           \/ \E r \in Reactors : HostStops(r) \/ LeaveRun(r)
  <2>1. \A r \in Reactors : reactor'[r].sessions = reactor[r].sessions
    BY <1>1, <1>5, ReactorChanges DEF StartThread, HaltLoop, HostStops, LeaveRun, AbortAll, ForceAll
  <2> QED
    BY <1>2, <2>1
<1>6. ASSUME NEW s, Destroy(s)
      PROVE  \A q \in Reactors : reactor'[q].sessions <= reactor[q].sessions
  <2> DEFINE S == {c \in Conns : In(c, s) /\ Home(c) = owner.at}
  <2>1. Cardinality(S) \in Nat
    BY FS_Subset, FS_CardinalityType, TcpServerAssumption
  <2>2. ReleaseTickets(Cardinality(S), owner.at)
    BY <1>6 DEF Destroy
  <2> HIDE DEF S
  <2> QED
    BY <1>1, <1>3, <2>1, <2>2
<1>7. ASSUME NEW c \in Conns, SessionStep(c)
      PROVE  \A q \in Reactors : reactor'[q].sessions <= reactor[q].sessions
  <2>1. Home(c) \in Reactors
    BY <1>1 DEF Home, ConnStates
  <2>2. reactor' = reactor \/ ReleaseTickets(1, Home(c))
    BY <1>7 DEF SessionStep, HandOff, StartSession, MoveSession, EndSession
  <2> QED
    BY <1>1, <1>2, <1>3, <2>1, <2>2
<1>8. ASSUME NEW r \in Owners, AcceptStep(r)
      PROVE  reactor' = reactor \/ control[r].task = "launching"
  BY <1>8, Zenon DEF AcceptStep, BeginAccept, AcceptNext, AcceptFails, RetryEnds, CloseAcceptor,
              AcceptConnection, Enter, Launch, Launching
<1>9. CASE CloseScheduler \/ DestroyRoots \/ DestroyReactor
  BY <1>6, <1>9 DEF CloseScheduler, DestroyRoots, DestroyReactor
<1>10. CASE \/ Start \/ Stop \/ ThreadFails \/ WaitListening \/ ReapAccept \/ WaitSessions
            \/ GraceEnds \/ Join \/ BeginClose \/ Gone
            \/ SpawnAccept \/ SpawnFails \/ CatchStart \/ SignalAccept \/ PostClose
  BY <1>4, <1>10 DEF Start, Stop, ThreadFails, WaitListening, ReapAccept, WaitSessions, GraceEnds,
                     Join, BeginClose, Gone, OwnerOnly, vars, SpawnAccept, SpawnFails, CatchStart,
                     SignalAccept, PostClose
<1> QED
  BY <1>4, <1>5, <1>7, <1>8, <1>9, <1>10 DEF Next, OwnerStep, vars

-----------------------------------------------------------------------------
(* The accepts are reaped once and for all.                                *)

Resting == {"none", "finished"}

ReapInv ==
    /\ owner.step = "reap" => \A r \in Owners : r < owner.at => control[r].task \in Resting
    /\ owner.step \in AfterReap => \A r \in Owners : control[r].task \in Resting

(* A task that has ended, or was never spawned, stays so once start() is   *)
(* over.                                                                   *)
LEMMA TasksRest ==
    ASSUME StateInv, [Next]_vars, owner.step # "spawn"
    PROVE  \A q \in Owners : control[q].task \in Resting => control'[q].task = control[q].task
<1>1. control \in [Owners -> ControlStates] /\ \A q \in Owners : control[q] \in ControlStates
  BY Types DEF StateInv
<1>2. CASE control' = control
  BY <1>2
<1>3. CASE CatchStart \/ SignalAccept \/ PostClose
  BY <1>1, <1>3 DEF CatchStart, SignalAccept, PostClose, ControlStates
<1>4. ASSUME NEW r \in Owners, AcceptStep(r)
      PROVE  \A q \in Owners : control[q].task \in Resting => control'[q].task = control[q].task
  <2>1. CASE CloseAcceptor(r)
    BY <1>1, <2>1 DEF CloseAcceptor, ControlStates
  <2>2. CASE ~CloseAcceptor(r)
    <3>1. control[r].task \notin Resting
      BY <1>4, <2>2, Zenon DEF AcceptStep, BeginAccept, AcceptNext, AcceptFails, RetryEnds,
                        AcceptConnection, Enter, Launch, Launching, Resting
    <3>2. \A q \in Owners : q # r => control'[q] = control[q]
      BY <1>1, <1>4, <2>2, ZenonT(40)
         DEF AcceptStep, BeginAccept, AcceptNext, AcceptFails, RetryEnds,
                              AcceptConnection, Enter, Launch, GoesTo
    <3> QED
      BY <3>1, <3>2
  <2> QED
    BY <2>1, <2>2
<1>5. CASE \/ Start \/ Stop \/ ThreadFails \/ WaitListening \/ ReapAccept \/ WaitSessions
           \/ GraceEnds \/ Join \/ BeginClose \/ Gone \/ StartThread \/ HaltLoop \/ AbortAll
           \/ ForceAll \/ CloseScheduler \/ DestroyRoots \/ DestroyReactor
  BY <1>2, <1>5 DEF Start, Stop, ThreadFails, WaitListening, ReapAccept, WaitSessions, GraceEnds,
                    Join, BeginClose, Gone, OwnerOnly, vars, StartThread, HaltLoop, AbortAll,
                    ForceAll, CloseScheduler, DestroyRoots, DestroyReactor, Destroy
<1>6. CASE \/ \E r \in Reactors : HostStops(r) \/ LeaveRun(r)
           \/ \E c \in Conns : SessionStep(c)
  BY <1>2, <1>6, Zenon
     DEF HostStops, LeaveRun, SessionStep, HandOff, StartSession, MoveSession, EndSession
<1>7. ~SpawnAccept /\ ~SpawnFails
  BY SMTT(30) DEF SpawnAccept, SpawnFails, At
<1> QED
  BY <1>2, <1>3, <1>4, <1>5, <1>6, <1>7 DEF Next, OwnerStep, vars

(* The owner enters its loops over the accepts and over the reactors at    *)
(* the first index, goes through them one by one, and never goes back.     *)
LEMMA OwnerPath ==
    ASSUME StateInv, [Next]_vars
    PROVE  /\ owner.step \in AfterReap => owner'.step \in AfterReap /\ owner'.step # "spawn"
           /\ owner.step \in AfterAbort => owner'.step \in AfterAbort
           /\ owner'.step \in AfterReap => owner.step \in AfterReap \/ ReapAccept
           /\ owner'.step = "reap" => owner'.at = 1 \/ ReapAccept \/ owner' = owner
<1>1. owner \in OwnerStates /\ LastOwner \in Reactors /\ N \in Reactors
  BY Types, Numbers DEF StateInv, Reactors
<1> USE <1>1, Numbers DEF AfterReap, AfterAbort, OwnerSteps, At
<1>2. CASE owner' = owner
  BY <1>2
<1>3. CASE Start \/ Stop \/ ThreadFails \/ SpawnFails \/ BeginClose
  BY <1>3, Moves DEF Start, Stop, ThreadFails, SpawnFails, BeginClose
<1>4. CASE StartThread \/ SpawnAccept \/ CatchStart
  BY <1>4, GoesOn, Moves, SMTT(30) DEF StartThread, SpawnAccept, CatchStart
<1>5. CASE WaitListening
  <2>1. \/ owner' = Moved("catch", 1) \/ owner' = Moved("listen", 1)
        \/ (N # 1 /\ owner' = Moved("spawn", 2)) \/ owner' = GoOn(LastOwner, "serving")
    BY <1>5 DEF WaitListening
  <2>2. N # 1 => 2 \in Reactors
    BY DEF Reactors
  <2>3. owner.step \in {"first", "listen"}
    BY <1>5, Zenon DEF WaitListening
  <2> QED
    BY <2>1, <2>2, <2>3, GoesOn, Moves, SMTT(30)
<1>6. CASE AbortAll \/ SignalAccept
  BY <1>6, GoesOn, Moves DEF AbortAll, SignalAccept, StateInv, OwnerInv, OwnerStates
<1>7. CASE PostClose
  BY <1>7, Moves DEF PostClose, StateInv, OwnerInv, OwnerStates
<1>8. CASE ReapAccept
  <2>1. owner.step = "reap" /\ owner.rounds = 0
    BY <1>8 DEF ReapAccept, StateInv, OwnerInv, BeforeGrace
  <2>2. /\ GoOn(LastOwner, "grace") \in OwnerStates /\ GoOn(LastOwner, "grace").rounds = 0
        /\ GoOn(LastOwner, "grace").step \in {"reap", "grace"}
    BY <2>1, GoesOn
  <2>3. owner'.step \in {"reap", "grace"}
    BY <1>8, <2>2, Rounds DEF ReapAccept
  <2> QED
    BY <1>8, <2>1, <2>3
<1>9. CASE owner.step \in AfterReap /\ owner'.step \in AfterReap
  BY <1>9, Zenon
<1>10. CASE WaitSessions
  <2> DEFINE s == IF (owner.drained /\ reactor[owner.at].sessions = 0) \/ owner.rounds = 2
                  THEN "halt" ELSE "force"
  <2>1. s \in {"halt", "force"}
    OBVIOUS
  <2>2. GoOn(N, s) \in OwnerStates /\ GoOn(N, s).step \in {owner.step, "halt", "force"}
    BY <2>1, GoesOn
  <2>3. owner.step = "grace" /\ owner'.step = GoOn(N, s).step
    BY <1>10, <2>2 DEF WaitSessions, OwnerStates
  <2> QED
    BY <1>9, <2>2, <2>3
<1>11. CASE GraceEnds
  BY <1>9, <1>11 DEF GraceEnds, OwnerStates
<1>12. CASE ForceAll
  <2>1. owner.step = "force" /\ owner.rounds = 1
    BY <1>12 DEF ForceAll, StateInv, OwnerInv
  <2>2. /\ GoOn(N, "grace") \in OwnerStates /\ GoOn(N, "grace").rounds = 1
        /\ GoOn(N, "grace").step \in {"force", "grace"}
    BY <2>1, GoesOn
  <2>3. owner'.step \in {"force", "grace"}
    BY <1>12, <2>2, Rounds DEF ForceAll
  <2> QED
    BY <1>9, <2>1, <2>3
<1>13. CASE HaltLoop \/ Join \/ CloseScheduler \/ DestroyRoots \/ DestroyReactor
  BY <1>9, <1>13, GoesOn DEF HaltLoop, Join, CloseScheduler, DestroyRoots, DestroyReactor
<1> QED
  BY <1>2, <1>3, <1>4, <1>5, <1>6, <1>7, <1>8, <1>10, <1>11, <1>12, <1>13, OwnerCases, ZenonT(40)

(* Every step keeps what was reaped.                                       *)
LEMMA NextReap == StateInv /\ ReapInv /\ [Next]_vars => ReapInv'
<1> SUFFICES ASSUME StateInv, ReapInv, [Next]_vars PROVE ReapInv'
  OBVIOUS
<1>1. owner \in OwnerStates /\ LastOwner \in Reactors /\ owner' \in OwnerStates
  BY Types, Numbers, NextOwner DEF StateInv, Reactors, OwnerInv
<1>2. CASE ReapAccept
  <2>1. control' = control /\ owner.step = "reap" /\ owner.rounds = 0
        /\ control[owner.at].task \in Resting
    BY <1>2
       DEF ReapAccept, OwnerOnly, At, StateInv, OwnerInv, BeforeGrace, AfterReap, OwnerSteps, Resting
  <2>2. \A r \in Owners : r <= owner.at => control[r].task \in Resting
    BY <1>1, <2>1, Numbers DEF ReapInv, Owners, OwnerStates, Reactors
  <2> DEFINE o == GoOn(LastOwner, "grace")
  <2>3. /\ o \in OwnerStates /\ o.rounds = 0
        /\ \/ o.step = "reap" /\ o.at = owner.at + 1
           \/ o.step = "grace" /\ owner.at >= LastOwner
    BY <1>1, <2>1, GoesOn DEF OwnerSteps
  <2>4. owner' = NewRound(o)
    BY <1>2 DEF ReapAccept
  <2> HIDE DEF o
  <2>5. \/ owner'.step = "reap" /\ owner'.at = owner.at + 1
        \/ owner'.step = "grace" /\ owner.at >= LastOwner
    BY <2>3, <2>4, Rounds
  <2> QED
    BY <1>1, <2>1, <2>2, <2>5, Numbers DEF ReapInv, AfterReap, Owners, OwnerStates, Reactors
<1>3. CASE ~ReapAccept
  <2>1. owner'.step \in AfterReap => \A r \in Owners : control'[r].task \in Resting
    BY <1>3, OwnerPath, TasksRest DEF ReapInv, AfterReap
  <2>2. CASE owner'.step = "reap" /\ owner' = owner
    BY <2>1, <2>2, TasksRest DEF ReapInv
  <2>3. CASE owner'.step = "reap" /\ owner'.at = 1
    BY <2>1, <2>3, Numbers DEF ReapInv, Owners
  <2> QED
    BY <1>3, <2>1, <2>2, <2>3, OwnerPath DEF ReapInv
<1> QED
  BY <1>2, <1>3

(* Every reachable state has it.                                           *)
LEMMA ReapHolds == Spec => []ReapInv
<1>1. Init => ReapInv
  BY DEF Init, ReapInv, AfterReap
<1> QED
  BY <1>1, NextReap, StateHolds, PTL DEF Spec

(* For any number of reactors and connections no session is added anywhere *)
(* once stop() has reaped the accepts (TcpServer::stop()).                 *)
THEOREM NoSessionAfterReap == Spec => AcceptBarrier
<1>1. StateInv /\ ReapInv /\ [Next]_vars =>
        [owner.step \in AfterReap =>
            \A r \in Reactors : reactor'[r].sessions <= reactor[r].sessions]_vars
  BY OnlyLaunchAdds DEF ReapInv, Resting
<1> QED
  BY <1>1, StateHolds, ReapHolds, PTL DEF Spec, AcceptBarrier

-----------------------------------------------------------------------------
(* The walks reach every session.                                          *)

(* The force walks have begun.                                             *)
Forcing == owner.step = "force" \/ (owner.step \in AfterReap /\ owner.rounds = 2)

(* The flags of the reactors are those of the walks done, and the sessions *)
(* that run have what their reactor's flags say.                           *)
WalkInv ==
    /\ owner.step = "abort" => \A r \in Reactors : r < owner.at => reactor[r].walked
    /\ owner.step \in AfterAbort => \A r \in Reactors : reactor[r].walked
    /\ owner.step = "force" => \A r \in Reactors : r < owner.at => reactor[r].forced
    /\ owner.step \in AfterReap /\ owner.rounds = 2 => \A r \in Reactors : reactor[r].forced
    /\ \A r \in Reactors : reactor[r].forced => Forcing
    /\ \A c \in Conns : conn[c].state = "running" =>
        /\ reactor[conn[c].home].walked => conn[c].aborted
        /\ reactor[conn[c].home].forced => conn[c].shut
    /\ \A c \in Conns : conn[c].shut => conn[c].aborted /\ Forcing

(* What the accept loops do to the reactors.                               *)
LEMMA AcceptsCount ==
    ASSUME NEW r \in Owners, AcceptStep(r)
    PROVE  \/ reactor' = reactor
           \/ \E c \in Conns : \/ reactor' = [reactor EXCEPT ![Home(c)].sessions = @ + 1]
                               \/ reactor' = [reactor EXCEPT ![Home(c)].sessions = @ - 1]
  BY Zenon
     DEF AcceptStep, BeginAccept, AcceptNext, AcceptFails, RetryEnds, CloseAcceptor,
         AcceptConnection, Enter, Launch, ReleaseTickets

(* Only the walks set walked_ and forced_.                                 *)
LEMMA FlagsStay ==
    ASSUME StateInv, [Next]_vars, ~AbortAll, ~ForceAll
    PROVE  \A r \in Reactors : /\ reactor'[r].walked = reactor[r].walked
                               /\ reactor'[r].forced = reactor[r].forced
<1>1. /\ reactor \in [Reactors -> ReactorStates] /\ owner.at \in Reactors
      /\ \A r \in Reactors : reactor[r] \in ReactorStates
      /\ conn \in [Conns -> ConnStates] /\ \A c \in Conns : Home(c) \in Reactors
  BY Types DEF StateInv, OwnerStates, Home, ConnStates
<1>2. CASE reactor' = reactor
  BY <1>2
<1>3. ASSUME NEW r \in Reactors, NEW n,
             \/ reactor' = [reactor EXCEPT ![r].thread = n]
             \/ reactor' = [reactor EXCEPT ![r].stopped = n]
             \/ reactor' = [reactor EXCEPT ![r].sessions = n]
      PROVE  \A q \in Reactors : /\ reactor'[q].walked = reactor[q].walked
                                 /\ reactor'[q].forced = reactor[q].forced
  BY <1>1, <1>3 DEF ReactorStates
<1>4. CASE StartThread \/ HaltLoop \/ \E r \in Reactors : HostStops(r) \/ LeaveRun(r)
  BY <1>1, <1>3, <1>4, Zenon DEF StartThread, HaltLoop, HostStops, LeaveRun
<1>5. CASE CloseScheduler \/ DestroyRoots \/ DestroyReactor
  BY <1>1, <1>3, <1>5, Zenon
     DEF CloseScheduler, DestroyRoots, DestroyReactor, Destroy, ReleaseTickets
<1>6. CASE \E c \in Conns : SessionStep(c)
  BY <1>1, <1>2, <1>3, <1>6
     DEF SessionStep, HandOff, StartSession, MoveSession, EndSession, ReleaseTickets
<1>7. ASSUME NEW r \in Owners, AcceptStep(r)
      PROVE  \A q \in Reactors : /\ reactor'[q].walked = reactor[q].walked
                                 /\ reactor'[q].forced = reactor[q].forced
  BY <1>1, <1>2, <1>3, <1>7, AcceptsCount, Zenon
<1>8. CASE \/ Start \/ Stop \/ ThreadFails \/ WaitListening \/ ReapAccept \/ WaitSessions
           \/ GraceEnds \/ Join \/ BeginClose \/ Gone
           \/ SpawnAccept \/ SpawnFails \/ CatchStart \/ SignalAccept \/ PostClose
  BY <1>2, <1>8, Zenon DEF Start, Stop, ThreadFails, WaitListening, ReapAccept, WaitSessions, GraceEnds,
                    Join, BeginClose, Gone, OwnerOnly, vars, SpawnAccept, SpawnFails, CatchStart,
                    SignalAccept, PostClose
<1> QED
  BY <1>2, <1>4, <1>5, <1>6, <1>7, <1>8 DEF Next, OwnerStep, vars

(* Only the walks and run_session set a session's flags or let it run.     *)
LEMMA SessionsKeepFlags ==
    ASSUME StateInv, [Next]_vars, ~AbortAll, ~ForceAll, \A c \in Conns : ~StartSession(c)
    PROVE  \A c \in Conns : /\ conn'[c].aborted = conn[c].aborted
                            /\ conn'[c].shut = conn[c].shut
                            /\ conn'[c].state = "running" =>
                                /\ conn[c].state = "running"
                                /\ conn'[c].home = conn[c].home
<1>1. conn \in [Conns -> ConnStates] /\ \A c \in Conns : conn[c] \in ConnStates
  BY Types DEF StateInv
<1>2. CASE conn' = conn
  BY <1>2
<1>3. CASE \E c \in Conns : SessionStep(c)
  BY <1>1, <1>3 DEF SessionStep, HandOff, MoveSession, EndSession, In, ConnStates
<1>4. ASSUME NEW r \in Owners, NEW c \in Conns, AcceptConnection(r, c) \/ Enter(r, c) \/ Launch(r, c)
      PROVE  \E s \in {"dropped", "accepted", "refused", "entered", "spawned", "handoff"},
                    h \in Reactors :
                 \/ conn' = [conn EXCEPT ![c].state = s]
                 \/ conn' = [conn EXCEPT ![c].state = s, ![c].home = h]
  <2>1. control[r].target \in Reactors
    BY Types DEF StateInv, ControlStates
  <2> QED
    BY <1>4, <2>1 DEF AcceptConnection, Enter, Launch, Becomes
<1>5. CASE \E r \in Owners : AcceptStep(r)
  <2>1. CASE \E r \in Owners, c \in Conns : AcceptConnection(r, c) \/ Enter(r, c) \/ Launch(r, c)
    <3>1. PICK c \in Conns, s \in {"dropped", "accepted", "refused", "entered", "spawned", "handoff"},
                    h \in Reactors :
                 \/ conn' = [conn EXCEPT ![c].state = s]
                 \/ conn' = [conn EXCEPT ![c].state = s, ![c].home = h]
      BY <1>4, <2>1, Zenon
    <3>2. conn'[c].state = s /\ conn'[c].aborted = conn[c].aborted /\ conn'[c].shut = conn[c].shut
      BY <1>1, <3>1 DEF ConnStates
    <3>3. \A d \in Conns : d # c => conn'[d] = conn[d]
      BY <1>1, <3>1
    <3> QED
      BY <3>2, <3>3, SMTT(30)
  <2> QED
    BY <1>2, <1>5, <2>1, Zenon
       DEF AcceptStep, BeginAccept, AcceptNext, AcceptFails, RetryEnds, CloseAcceptor
<1>6. CASE CloseScheduler \/ DestroyRoots \/ DestroyReactor
  <2>1. ASSUME NEW s, Destroy(s)
        PROVE  \A c \in Conns : \/ conn'[c] = conn[c]
                                \/ conn'[c] = [conn[c] EXCEPT !.state = "destroyed"]
    BY <2>1, Zenon DEF Destroy
  <2> QED
    BY <1>1, <1>6, <2>1, ZenonT(40) DEF CloseScheduler, DestroyRoots, DestroyReactor, ConnStates
<1>7. CASE \/ Start \/ Stop \/ ThreadFails \/ WaitListening \/ ReapAccept \/ WaitSessions
           \/ GraceEnds \/ Join \/ BeginClose \/ Gone \/ StartThread \/ HaltLoop
           \/ SpawnAccept \/ SpawnFails \/ CatchStart \/ SignalAccept \/ PostClose
           \/ \E r \in Reactors : HostStops(r) \/ LeaveRun(r)
  BY <1>2, <1>7 DEF Start, Stop, ThreadFails, WaitListening, ReapAccept, WaitSessions, GraceEnds,
                    Join, BeginClose, Gone, OwnerOnly, vars, SpawnAccept, SpawnFails, CatchStart,
                    SignalAccept, PostClose, StartThread, HaltLoop, HostStops, LeaveRun
<1> QED
  BY <1>2, <1>3, <1>5, <1>6, <1>7 DEF Next, OwnerStep, vars

(* The owner's loops over the reactors begin at the first, and only the    *)
(* walks take it through the two it walks in.                              *)
LEMMA OwnerWalks ==
    ASSUME StateInv, [Next]_vars, ~AbortAll, ~ForceAll
    PROVE  /\ owner'.step = "abort" => owner'.at = 1 \/ owner' = owner
           /\ owner'.step \in AfterAbort => owner.step \in AfterAbort
           /\ owner'.step = "force" => owner'.at = 1 \/ owner' = owner
           /\ owner'.rounds = 2 => owner.rounds = 2
           /\ owner'.rounds = 2 => owner.step \in AfterReap
           /\ owner.rounds = 2 => owner'.rounds = 2
           /\ owner.step = "force" => owner' = owner
<1>1. /\ owner \in OwnerStates /\ LastOwner \in Reactors /\ N \in Reactors
      /\ owner.step \notin AfterReap => owner.rounds = 0
  BY Types, Numbers DEF StateInv, Reactors, OwnerInv, OwnerStates, BeforeGrace
<1> USE <1>1, Numbers DEF AfterReap, AfterAbort, OwnerSteps, At
<1>2. CASE owner' = owner
  BY <1>2
<1>3. CASE Start \/ Stop \/ ThreadFails \/ SpawnFails \/ BeginClose
  BY <1>3, Moves DEF Start, Stop, ThreadFails, SpawnFails, BeginClose
<1>4. CASE StartThread \/ SpawnAccept \/ CatchStart
  BY <1>4, GoesOn, Moves, SMTT(30) DEF StartThread, SpawnAccept, CatchStart
<1>5. CASE WaitListening
  <2>1. \/ owner' = Moved("catch", 1) \/ owner' = Moved("listen", 1)
        \/ (N # 1 /\ owner' = Moved("spawn", 2)) \/ owner' = GoOn(LastOwner, "serving")
    BY <1>5 DEF WaitListening
  <2>2. N # 1 => 2 \in Reactors
    BY DEF Reactors
  <2>3. owner.step \in {"first", "listen"}
    BY <1>5, Zenon DEF WaitListening
  <2> QED
    BY <2>1, <2>2, <2>3, GoesOn, Moves, SMTT(30)
<1>6. CASE SignalAccept
  BY <1>6, GoesOn, Moves DEF SignalAccept, StateInv, OwnerInv, OwnerStates
<1>7. CASE PostClose
  BY <1>7, Moves DEF PostClose, StateInv, OwnerInv, OwnerStates
<1>8. CASE ReapAccept
  <2>1. owner.step = "reap" /\ owner.rounds = 0
    BY <1>8 DEF ReapAccept
  <2>2. /\ GoOn(LastOwner, "grace") \in OwnerStates /\ GoOn(LastOwner, "grace").rounds = 0
        /\ GoOn(LastOwner, "grace").step \in {"reap", "grace"}
    BY <2>1, GoesOn
  <2>3. owner'.step \in {"reap", "grace"} /\ owner'.rounds \in {0, 1}
    BY <1>8, <2>2, Rounds DEF ReapAccept
  <2> QED
    BY <1>8, <2>1, <2>3
<1>9. CASE WaitSessions
  <2> DEFINE drained == owner.drained /\ reactor[owner.at].sessions = 0
             s == IF drained \/ owner.rounds = 2 THEN "halt" ELSE "force"
  <2>1. s \in {"halt", "force"}
    OBVIOUS
  <2>2. owner.step = "grace" /\ owner' = [GoOn(N, s) EXCEPT !.drained = drained]
    BY <1>9 DEF WaitSessions
  <2> HIDE DEF s, drained
  <2>3. /\ GoOn(N, s) \in OwnerStates /\ GoOn(N, s).rounds = owner.rounds
        /\ \/ GoOn(N, s).step = "grace"
           \/ GoOn(N, s).step \in {"halt", "force"} /\ GoOn(N, s).at = 1
    BY <2>1, <2>2, GoesOn
  <2>4. /\ owner'.step = GoOn(N, s).step /\ owner'.at = GoOn(N, s).at
        /\ owner'.rounds = GoOn(N, s).rounds
    BY <2>2, <2>3 DEF OwnerStates
  <2> QED
    BY <2>2, <2>3, <2>4
<1>10. CASE GraceEnds
  BY <1>10 DEF GraceEnds, OwnerStates
<1>11. CASE HaltLoop \/ Join \/ CloseScheduler \/ DestroyRoots \/ DestroyReactor
  BY <1>11, GoesOn, SMTT(30) DEF HaltLoop, Join, CloseScheduler, DestroyRoots, DestroyReactor
<1> QED
  BY <1>2, <1>3, <1>4, <1>5, <1>6, <1>7, <1>8, <1>9, <1>10, <1>11, OwnerCases, ZenonT(40)

(* The abort walk of one reactor.                                          *)
LEMMA AbortWalks == StateInv /\ WalkInv /\ AbortAll => WalkInv'
<1> SUFFICES ASSUME StateInv, WalkInv, AbortAll PROVE WalkInv'
  OBVIOUS
<1>1. /\ reactor \in [Reactors -> ReactorStates] /\ conn \in [Conns -> ConnStates]
      /\ owner \in OwnerStates /\ owner.at \in Reactors /\ N \in Reactors
      /\ \A r \in Reactors : reactor[r] \in ReactorStates
      /\ \A c \in Conns : conn[c] \in ConnStates
  BY Types, Numbers DEF StateInv, OwnerStates, Reactors
<1>2. \A r \in Reactors : /\ reactor'[r].walked <=> reactor[r].walked \/ r = owner.at
                          /\ reactor'[r].forced = reactor[r].forced
  BY <1>1 DEF AbortAll, ReactorStates
<1>3. \A c \in Conns : /\ conn'[c].state = conn[c].state /\ conn'[c].home = conn[c].home
                       /\ conn'[c].shut = conn[c].shut
                       /\ conn[c].aborted => conn'[c].aborted
                       /\ conn[c].state = "running" /\ conn[c].home = owner.at => conn'[c].aborted
  <2> TAKE c \in Conns
  <2>1. conn'[c] = [conn[c] EXCEPT !.aborted = conn[c].aborted \/ TrackedHere(c)]
    BY DEF AbortAll
  <2>2. conn'[c].aborted <=> conn[c].aborted \/ TrackedHere(c)
    BY <1>1, <2>1, Zenon DEF ConnStates
  <2>3. /\ conn'[c].state = conn[c].state /\ conn'[c].home = conn[c].home
        /\ conn'[c].shut = conn[c].shut
    BY <1>1, <2>1 DEF ConnStates
  <2> QED
    BY <2>2, <2>3 DEF TrackedHere, In, Home
<1>4. /\ owner.step = "abort" /\ owner.rounds = 0 /\ owner'.rounds = 0
      /\ \/ owner'.step = "abort" /\ owner'.at = owner.at + 1
         \/ owner'.step = "signal" /\ owner.at >= N
  BY <1>1, GoesOn, SMTT(30) DEF AbortAll, At, OwnerSteps, StateInv, OwnerInv, BeforeGrace, AfterReap
<1>5. \A r \in Reactors : r <= owner.at => reactor'[r].walked
  BY <1>1, <1>2, <1>4, Numbers DEF WalkInv, Reactors
<1>6. /\ owner'.step = "abort" => \A r \in Reactors : r < owner'.at => reactor'[r].walked
      /\ owner'.step \in AfterAbort => \A r \in Reactors : reactor'[r].walked
  BY <1>1, <1>4, <1>5, Numbers DEF Reactors, AfterAbort, AfterReap
<1>7. \A c \in Conns : conn[c].home \in Reactors
  BY <1>1 DEF ConnStates
<1>8. \A c \in Conns : conn'[c].state = "running" =>
        /\ reactor'[conn'[c].home].walked => conn'[c].aborted
        /\ reactor'[conn'[c].home].forced => conn'[c].shut
  BY <1>2, <1>3, <1>7, Zenon DEF WalkInv
<1>9. /\ \A r \in Reactors : ~reactor'[r].forced
      /\ \A c \in Conns : ~conn'[c].shut
  BY <1>2, <1>3, <1>4, SMTT(30) DEF WalkInv, Forcing
<1> QED
  BY <1>4, <1>6, <1>8, <1>9 DEF WalkInv, AfterReap

(* The force walk of one reactor.                                          *)
LEMMA ForceWalks == StateInv /\ WalkInv /\ ForceAll => WalkInv'
<1> SUFFICES ASSUME StateInv, WalkInv, ForceAll PROVE WalkInv'
  OBVIOUS
<1>1. /\ reactor \in [Reactors -> ReactorStates] /\ conn \in [Conns -> ConnStates]
      /\ owner \in OwnerStates /\ owner.at \in Reactors /\ N \in Reactors
      /\ \A r \in Reactors : reactor[r] \in ReactorStates
      /\ \A c \in Conns : conn[c] \in ConnStates
  BY Types, Numbers DEF StateInv, OwnerStates, Reactors
<1>2. \A r \in Reactors : /\ reactor'[r].walked = reactor[r].walked
                          /\ reactor'[r].forced <=> reactor[r].forced \/ r = owner.at
  BY <1>1 DEF ForceAll, ReactorStates
<1>3. \A c \in Conns : /\ conn'[c].state = conn[c].state /\ conn'[c].home = conn[c].home
                       /\ conn'[c].aborted = conn[c].aborted
                       /\ conn'[c].shut <=>
                            conn[c].shut \/ (conn[c].state = "running" /\ conn[c].home = owner.at)
  <2> TAKE c \in Conns
  <2>1. conn'[c] = [conn[c] EXCEPT !.shut = conn[c].shut \/ TrackedHere(c)]
    BY DEF ForceAll
  <2>2. conn'[c].shut <=> conn[c].shut \/ TrackedHere(c)
    BY <1>1, <2>1, Zenon DEF ConnStates
  <2>3. /\ conn'[c].state = conn[c].state /\ conn'[c].home = conn[c].home
        /\ conn'[c].aborted = conn[c].aborted
    BY <1>1, <2>1 DEF ConnStates
  <2> QED
    BY <2>2, <2>3 DEF TrackedHere, In, Home
<1>4. /\ owner.step = "force"
      /\ \/ owner'.step = "force" /\ owner'.at = owner.at + 1 /\ owner'.rounds = 1
         \/ owner'.step = "grace" /\ owner.at >= N /\ owner'.rounds = 2
  <2>1. owner.step = "force" /\ owner.rounds = 1
    BY DEF ForceAll, At, StateInv, OwnerInv
  <2> DEFINE o == GoOn(N, "grace")
  <2>2. /\ o \in OwnerStates /\ o.rounds = 1
        /\ \/ o.step = "force" /\ o.at = owner.at + 1
           \/ o.step = "grace" /\ owner.at >= N
    BY <1>1, <2>1, GoesOn DEF OwnerSteps
  <2>3. owner' = NewRound(o)
    BY DEF ForceAll
  <2> HIDE DEF o
  <2> QED
    BY <2>1, <2>2, <2>3, Rounds
<1>5. \A r \in Reactors : r <= owner.at => reactor'[r].forced
  BY <1>1, <1>2, <1>4, Numbers DEF WalkInv, Reactors
<1>6. /\ owner'.step = "force" => \A r \in Reactors : r < owner'.at => reactor'[r].forced
      /\ owner'.rounds = 2 => \A r \in Reactors : reactor'[r].forced
  BY <1>1, <1>4, <1>5, Numbers DEF Reactors
<1>7. \A c \in Conns : conn[c].home \in Reactors
  BY <1>1 DEF ConnStates
<1>8. \A r \in Reactors : reactor'[r].walked
  BY <1>2, <1>4, Zenon DEF WalkInv, AfterAbort, AfterReap
<1>9. \A c \in Conns : conn'[c].state = "running" =>
        /\ reactor'[conn'[c].home].walked => conn'[c].aborted
        /\ reactor'[conn'[c].home].forced => conn'[c].shut
  BY <1>2, <1>3, <1>7, Zenon DEF WalkInv
<1>10. \A c \in Conns : conn'[c].shut => conn'[c].aborted
  BY <1>2, <1>3, <1>7, <1>8, SMTT(30) DEF WalkInv
<1>11. Forcing'
  BY <1>4, Zenon DEF Forcing, AfterReap
<1> QED
  BY <1>4, <1>6, <1>8, <1>9, <1>10, <1>11 DEF WalkInv, AfterReap, AfterAbort

(* Every step keeps what the walks reached.                                *)
LEMMA NextWalk == StateInv /\ WalkInv /\ [Next]_vars => WalkInv'
<1> SUFFICES ASSUME StateInv, WalkInv, [Next]_vars, ~AbortAll, ~ForceAll PROVE WalkInv'
  BY AbortWalks, ForceWalks
<1>1. /\ reactor \in [Reactors -> ReactorStates] /\ conn \in [Conns -> ConnStates]
      /\ owner \in OwnerStates
      /\ \A c \in Conns : conn[c] \in ConnStates /\ conn[c].home \in Reactors
  BY Types DEF StateInv, ConnStates
<1>2. \A r \in Reactors : /\ reactor'[r].walked = reactor[r].walked
                          /\ reactor'[r].forced = reactor[r].forced
  BY FlagsStay
<1>3. Forcing => Forcing'
  <2>1. owner.step \in AfterReap => owner'.step \in AfterReap
    BY OwnerPath, Zenon
  <2> QED
    BY <2>1, OwnerWalks DEF Forcing
<1>4. /\ owner'.step = "abort" => \A r \in Reactors : r < owner'.at => reactor'[r].walked
      /\ owner'.step \in AfterAbort => \A r \in Reactors : reactor'[r].walked
      /\ owner'.step = "force" => \A r \in Reactors : r < owner'.at => reactor'[r].forced
      /\ owner'.step \in AfterReap /\ owner'.rounds = 2 => \A r \in Reactors : reactor'[r].forced
      /\ \A r \in Reactors : reactor'[r].forced => Forcing'
  <2>1. \A r \in Reactors : ~(r < 1)
    BY Numbers DEF Reactors
  <2> QED
    BY <1>2, <1>3, <2>1, OwnerWalks DEF WalkInv
<1>5. /\ \A c \in Conns : conn'[c].state = "running" =>
            /\ reactor'[conn'[c].home].walked => conn'[c].aborted
            /\ reactor'[conn'[c].home].forced => conn'[c].shut
      /\ \A c \in Conns : conn'[c].shut => conn'[c].aborted /\ Forcing'
  <2>1. CASE \A c \in Conns : ~StartSession(c)
    BY <1>1, <1>2, <1>3, <2>1, SessionsKeepFlags DEF WalkInv
  <2>2. ASSUME NEW c \in Conns, StartSession(c)
        PROVE  /\ \A d \in Conns : d # c => conn'[d] = conn[d]
               /\ conn'[c].home = conn[c].home
               /\ conn'[c].state = "running" => ~reactor[conn[c].home].walked
               /\ conn'[c].aborted = reactor[conn[c].home].walked
               /\ conn'[c].shut = reactor[conn[c].home].forced
    <3> DEFINE r == reactor[conn[c].home]
               s == IF r.walked THEN "ended" ELSE "running"
    <3>1. conn' = [conn EXCEPT ![c].state = s, ![c].aborted = r.walked, ![c].shut = r.forced]
      BY <2>2 DEF StartSession, Home
    <3>2. s = "running" => ~r.walked
      OBVIOUS
    <3> HIDE DEF r, s
    <3>3. /\ conn'[c] = [conn[c] EXCEPT !.state = s, !.aborted = r.walked, !.shut = r.forced]
          /\ \A d \in Conns : d # c => conn'[d] = conn[d]
      BY <1>1, <3>1
    <3>4. /\ conn'[c].home = conn[c].home /\ conn'[c].state = s
          /\ conn'[c].aborted = r.walked /\ conn'[c].shut = r.forced
      <4>1. conn[c] \in ConnStates
        BY <1>1
      <4> QED
        BY <3>3, <4>1 DEF ConnStates
    <3> QED
      BY <3>2, <3>3, <3>4 DEF r
  <2>3. \A q \in Reactors : reactor[q].forced => reactor[q].walked /\ Forcing
    BY DEF WalkInv, Forcing, AfterAbort, AfterReap
  <2>4. \A q \in Reactors : reactor[q].forced \in BOOLEAN /\ reactor[q].walked \in BOOLEAN
    BY <1>1, Zenon DEF ReactorStates
  <2>5. CASE \E c \in Conns : StartSession(c)
    BY <1>1, <1>2, <1>3, <2>2, <2>3, <2>4, <2>5, SMTT(30) DEF WalkInv
  <2> QED
    BY <2>1, <2>5, Zenon
<1> QED
  BY <1>4, <1>5 DEF WalkInv

(* Every reachable state has it.                                           *)
LEMMA WalkHolds == Spec => []WalkInv
<1>1. Init => WalkInv
  BY DEF Init, WalkInv, AfterReap, AfterAbort
<1> QED
  BY <1>1, NextWalk, StateHolds, PTL DEF Spec

(* For any number of reactors and connections, every session that runs     *)
(* after the abort walks was asked to stop, and after the force walks its  *)
(* connection is shut down (TcpServer::stop(), Reactor::track()).          *)
THEOREM StopReachesEverySession == Spec => []ShutdownReachesSessions
<1>1. StateInv /\ WalkInv => ShutdownReachesSessions
  <2> SUFFICES ASSUME StateInv, WalkInv PROVE ShutdownReachesSessions
    OBVIOUS
  <2>1. \A c \in Conns : conn[c].home \in Reactors
    BY Types, SMTT(30) DEF StateInv, ConnStates
  <2> QED
    BY <2>1 DEF WalkInv, ShutdownReachesSessions, In
<1> QED
  BY <1>1, StateHolds, WalkHolds, PTL

(* For any number of reactors and connections, nothing is forced before it *)
(* was asked to stop, the accepts were reaped and the first wait for the   *)
(* sessions was over without them (TcpServer::stop()).                     *)
THEOREM ForceComesLast == Spec => []ForceIsLast
<1>1. WalkInv => ForceIsLast
  BY SMTT(30) DEF WalkInv, ForceIsLast, Forcing, At
<1> QED
  BY <1>1, WalkHolds, PTL

-----------------------------------------------------------------------------
(* sessions_end_within and the destruction.                                *)

(* While the owner looks at the reactors one by one, those it found empty  *)
(* stay empty.                                                             *)
DrainInv ==
    owner.rounds = 1 =>
        /\ owner.step = "grace" /\ owner.drained =>
            \A r \in Reactors : r < owner.at => reactor[r].sessions = 0
        /\ owner.step \in {"halt", "join", "stopped"} =>
            \A r \in Reactors : reactor[r].sessions = 0

(* Every step keeps the empty reactors empty.                              *)
LEMMA NextDrain == StateInv /\ ReapInv /\ DrainInv /\ [Next]_vars => DrainInv'
<1> SUFFICES ASSUME StateInv, ReapInv, DrainInv, [Next]_vars, owner'.rounds = 1
             PROVE  /\ owner'.step = "grace" /\ owner'.drained =>
                        \A r \in Reactors : r < owner'.at => reactor'[r].sessions = 0
                    /\ owner'.step \in {"halt", "join", "stopped"} =>
                        \A r \in Reactors : reactor'[r].sessions = 0
  BY DEF DrainInv
<1>1. /\ owner \in OwnerStates /\ N \in Reactors /\ LastOwner \in Reactors
      /\ owner.at \in Nat /\ owner.at <= N /\ \A r \in Reactors : r \in Nat /\ r <= N /\ ~(r < 1)
  BY Types, Numbers DEF StateInv, Reactors, OwnerStates
<1>2. \A r \in Reactors : reactor[r].sessions \in Nat /\ reactor'[r].sessions \in Nat
  BY Types, NextState DEF StateInv, TypeOK, ReactorStates
<1>3. owner.step \in AfterReap =>
        \A r \in Reactors : reactor[r].sessions = 0 => reactor'[r].sessions = 0
  BY <1>2, OnlyLaunchAdds DEF ReapInv, Resting
<1> USE <1>1 DEF AfterReap, OwnerSteps, At
<1>4. CASE owner' = owner
  BY <1>3, <1>4 DEF DrainInv
<1>5. CASE owner'.step \notin {"grace", "halt", "join", "stopped"}
  BY <1>5
<1>6. CASE owner'.step = "grace" /\ owner'.at = 1
  BY <1>6, Zenon
<1>7. CASE \/ Start \/ Stop \/ ThreadFails \/ SpawnFails \/ BeginClose \/ StartThread
           \/ SpawnAccept \/ CatchStart \/ AbortAll \/ SignalAccept
  BY <1>5, <1>7, GoesOn, Moves, Numbers, SMTT(30)
     DEF Start, Stop, ThreadFails, SpawnFails, BeginClose, StartThread, SpawnAccept, CatchStart,
         AbortAll, SignalAccept, OwnerStates
<1>8. CASE WaitListening
  <2>1. \/ owner' = Moved("catch", 1) \/ owner' = Moved("listen", 1)
        \/ (N # 1 /\ owner' = Moved("spawn", 2)) \/ owner' = GoOn(LastOwner, "serving")
    BY <1>8 DEF WaitListening
  <2>2. (N # 1 => 2 \in Reactors) /\ owner.step \in {"first", "listen"}
    BY <1>8, Numbers DEF Reactors, WaitListening
  <2>3. owner'.step \in {"catch", "spawn", "first", "listen", "serving"}
    <3>1. CASE owner' = GoOn(LastOwner, "serving")
      BY <2>2, <3>1, GoesOn
    <3>2. CASE owner' # GoOn(LastOwner, "serving")
      BY <2>1, <2>2, <3>2, Moves, Numbers, SMTT(30)
    <3> QED
      BY <3>1, <3>2, Zenon
  <2> QED
    BY <1>5, <2>3
<1>9. CASE PostClose
  <2>1. \/ owner.at < LastOwner /\ owner' = Moved("signal", owner.at + 1)
        \/ owner' = Moved("reap", 1)
    BY <1>9 DEF PostClose
  <2>2. owner.at < LastOwner => owner.at + 1 \in Reactors
    BY Numbers DEF Reactors
  <2> QED
    BY <1>5, <2>1, <2>2, Moves, Numbers
<1>10. CASE ReapAccept
  <2>1. owner.step = "reap" /\ owner.rounds = 0
    BY <1>10, Zenon DEF ReapAccept, StateInv, OwnerInv, BeforeGrace
  <2>2. /\ GoOn(LastOwner, "grace") \in OwnerStates /\ GoOn(LastOwner, "grace").rounds = 0
        /\ \/ GoOn(LastOwner, "grace").step = "reap"
           \/ GoOn(LastOwner, "grace").step = "grace" /\ GoOn(LastOwner, "grace").at = 1
    BY <2>1, GoesOn
  <2>3. owner'.step = "reap" \/ (owner'.step = "grace" /\ owner'.at = 1)
    BY <1>10, <2>2, Rounds, Zenon DEF ReapAccept
  <2> QED
    BY <1>5, <1>6, <2>3, Zenon
<1>11. CASE WaitSessions
  <2> DEFINE drained == owner.drained /\ reactor[owner.at].sessions = 0
             s == IF drained \/ owner.rounds = 2 THEN "halt" ELSE "force"
  <2>1. s \in {"halt", "force"} /\ (s = "halt" => drained \/ owner.rounds = 2)
    OBVIOUS
  <2>2. /\ owner.step = "grace" /\ reactor' = reactor
        /\ owner' = [GoOn(N, s) EXCEPT !.drained = drained]
    BY <1>11 DEF WaitSessions, OwnerOnly
  <2>3. drained => owner.drained /\ reactor[owner.at].sessions = 0
    OBVIOUS
  <2> HIDE DEF s, drained
  <2>4. /\ GoOn(N, s) \in OwnerStates /\ GoOn(N, s).rounds = owner.rounds
        /\ \/ GoOn(N, s).step = "grace" /\ GoOn(N, s).at = owner.at + 1
           \/ GoOn(N, s).step = s /\ owner.at >= N
    BY <2>1, <2>2, GoesOn
  <2>5. /\ owner'.step = GoOn(N, s).step /\ owner'.at = GoOn(N, s).at
        /\ owner'.rounds = GoOn(N, s).rounds /\ owner'.drained = drained
    BY <2>2, <2>4 DEF OwnerStates
  <2>6. owner.rounds = 1
    BY <2>4, <2>5
  <2>7. drained => \A r \in Reactors : r <= owner.at => reactor[r].sessions = 0
    <3> SUFFICES ASSUME drained, NEW r \in Reactors, r <= owner.at PROVE reactor[r].sessions = 0
      OBVIOUS
    <3>1. CASE r = owner.at
      BY <2>3, <3>1
    <3>2. CASE r < owner.at
      BY <2>2, <2>3, <2>6, <3>2 DEF DrainInv
    <3> QED
      BY <3>1, <3>2
  <2>8. CASE owner'.step = "grace" /\ owner'.at = owner.at + 1
    BY <2>2, <2>5, <2>7, <2>8
  <2>9. CASE owner'.step = s /\ owner.at >= N
    BY <2>1, <2>2, <2>6, <2>7, <2>9
  <2> QED
    BY <2>4, <2>5, <2>8, <2>9
<1>12. CASE GraceEnds
  <2>1. /\ owner'.step = owner.step /\ owner'.at = owner.at /\ owner'.rounds = owner.rounds
        /\ owner'.drained = owner.drained /\ owner.step = "grace"
    BY <1>12 DEF GraceEnds, OwnerStates
  <2> QED
    BY <1>3, <2>1 DEF DrainInv
<1>13. CASE ForceAll
  <2>1. owner.step = "force" /\ owner.rounds = 1
    BY <1>13, Zenon DEF ForceAll, StateInv, OwnerInv
  <2>2. /\ GoOn(N, "grace") \in OwnerStates /\ GoOn(N, "grace").rounds = 1
        /\ \/ GoOn(N, "grace").step = "force"
           \/ GoOn(N, "grace").step = "grace" /\ GoOn(N, "grace").at = 1
    BY <2>1, GoesOn
  <2>3. owner'.step = "force" \/ (owner'.step = "grace" /\ owner'.at = 1)
    BY <1>13, <2>2, Rounds DEF ForceAll
  <2> QED
    BY <1>5, <1>6, <2>3
<1>14. CASE HaltLoop \/ Join
  <2>1. /\ owner.step \in {"halt", "join"} /\ owner'.step \in {"halt", "join", "stopped"}
        /\ owner'.rounds = owner.rounds
    BY <1>14, GoesOn DEF HaltLoop, Join
  <2> QED
    BY <1>3, <2>1 DEF DrainInv
<1>15. CASE CloseScheduler \/ DestroyRoots \/ DestroyReactor
  BY <1>5, <1>15, GoesOn DEF CloseScheduler, DestroyRoots, DestroyReactor
<1> QED
  BY <1>4, <1>7, <1>8, <1>9, <1>10, <1>11, <1>12, <1>13, <1>14, <1>15, OwnerCases, ZenonT(40)

(* For any number of reactors and connections, stop() halts the loops      *)
(* without having forced only when no session is left on any of them       *)
(* (TcpServer::sessions_end_within).                                       *)
THEOREM UnforcedStopLeavesNothing == Spec => []NothingLeftUnforced
<1>1. Init => DrainInv
  BY DEF Init, DrainInv
<1>2. DrainInv => NothingLeftUnforced
  BY DEF DrainInv, NothingLeftUnforced
<1> QED
  BY <1>1, <1>2, NextDrain, StateHolds, ReapHolds, PTL DEF Spec

Dead == {"stopped", "close", "roots", "destroy", "gone"}

(* What the joins and the phases of the destruction have done so far.  The *)
(* order of the phases matters: each relies on what the one before left.   *)
GoneInv ==
    /\ owner.step = "join" => \A r \in Reactors : r < owner.at => reactor[r].thread # "run"
    /\ owner.step \in Dead => \A r \in Reactors : reactor[r].thread # "run"
    /\ owner.step = "close" => \A c \in Conns : In(c, "spawned") => Home(c) >= owner.at
    /\ owner.step = "roots" =>
        \A c \in Conns : ~In(c, "spawned") /\ (In(c, "running") => Home(c) >= owner.at)
    /\ owner.step = "destroy" =>
        \A c \in Conns : /\ ~In(c, "spawned") /\ ~In(c, "running")
                         /\ In(c, "handoff") => Home(c) >= owner.at
    /\ owner.step = "gone" => \A c \in Conns : conn[c].state \notin {"spawned", "running", "handoff"}

(* The steps by which the owner comes to the joins and beyond.             *)
LEMMA OwnerEnds ==
    ASSUME StateInv, [Next]_vars
    PROVE  \/ owner' = owner \/ owner'.step \notin Dead \cup {"join"}
           \/ HaltLoop \/ Join \/ BeginClose \/ CloseScheduler \/ DestroyRoots \/ DestroyReactor
<1>1. owner \in OwnerStates /\ LastOwner \in Reactors /\ N \in Reactors
  BY Types, Numbers DEF StateInv, Reactors
<1> USE <1>1, Numbers DEF AfterReap, OwnerSteps, At, Dead
<1>2. CASE ReapAccept
  <2>1. owner.step = "reap" /\ owner.rounds = 0
    BY <1>2 DEF ReapAccept, StateInv, OwnerInv, BeforeGrace
  <2>2. /\ GoOn(LastOwner, "grace") \in OwnerStates /\ GoOn(LastOwner, "grace").rounds = 0
        /\ GoOn(LastOwner, "grace").step \in {"reap", "grace"}
    BY <2>1, GoesOn
  <2>3. owner'.step \in {"reap", "grace"}
    BY <1>2, <2>2, Rounds DEF ReapAccept
  <2> QED
    BY <2>3, Zenon
<1>3. CASE owner.step \notin AfterReap /\ ~ReapAccept
  BY <1>3, OwnerPath
<1>4. CASE WaitSessions
  <2> DEFINE s == IF (owner.drained /\ reactor[owner.at].sessions = 0) \/ owner.rounds = 2
                  THEN "halt" ELSE "force"
  <2>1. s \in {"halt", "force"}
    OBVIOUS
  <2>2. GoOn(N, s) \in OwnerStates /\ GoOn(N, s).step \in {owner.step, "halt", "force"}
    BY <2>1, GoesOn
  <2>3. owner.step = "grace" /\ owner'.step = GoOn(N, s).step
    BY <1>4, <2>2 DEF WaitSessions, OwnerStates
  <2> QED
    BY <2>2, <2>3
<1>5. CASE GraceEnds
  BY <1>5 DEF GraceEnds, OwnerStates
<1>6. CASE ForceAll
  <2>1. owner.step = "force" /\ owner.rounds = 1
    BY <1>6 DEF ForceAll, StateInv, OwnerInv
  <2>2. /\ GoOn(N, "grace") \in OwnerStates /\ GoOn(N, "grace").rounds = 1
        /\ GoOn(N, "grace").step \in {"force", "grace"}
    BY <2>1, GoesOn
  <2>3. owner'.step \in {"force", "grace"}
    BY <1>6, <2>2, Rounds DEF ForceAll
  <2> QED
    BY <2>3, Zenon
<1>7. CASE \/ Start \/ Stop \/ ThreadFails \/ SpawnFails \/ StartThread \/ SpawnAccept
           \/ CatchStart \/ WaitListening \/ AbortAll \/ SignalAccept \/ PostClose
  <2>1. owner.step \notin AfterReap \cup {"reap"}
    BY <1>7 DEF Start, Stop, ThreadFails, SpawnFails, StartThread, SpawnAccept, CatchStart,
                WaitListening, AbortAll, SignalAccept, PostClose
  <2> QED
    BY <1>2, <1>3, <2>1
<1> QED
  BY <1>2, <1>4, <1>5, <1>6, <1>7, OwnerCases, Zenon

(* Once no thread is inside run(), and the owner goes on to close(), no    *)
(* session and no accept moves any more.                                   *)
LEMMA NothingMoves ==
    ASSUME StateInv, ReapInv, GoneInv, owner.step \in Dead \ {"stopped"}
    PROVE  /\ \A r \in Owners : ~AcceptStep(r)
           /\ \A r \in Reactors : ~HostStops(r) /\ ~LeaveRun(r)
           /\ \A c \in Conns : ~SessionStep(c)
<1>1. \A r \in Reactors : reactor[r].thread # "run" /\ ~Live(r)
  BY DEF GoneInv, Live
<1>2. \A r \in Owners : control[r].task # "launching" /\ ~Live(r)
  BY <1>1, Numbers DEF ReapInv, AfterReap, Dead, Resting
<1>3. \A c \in Conns : ~Live(Home(c))
  BY <1>1, Types DEF StateInv, Home, ConnStates
<1>4. \A r \in Owners : ~AcceptStep(r)
  BY <1>2, Zenon DEF AcceptStep, BeginAccept, AcceptNext, AcceptFails, RetryEnds, CloseAcceptor,
              AcceptConnection, Enter, Launch, Launching
<1>5. \A r \in Reactors : ~HostStops(r) /\ ~LeaveRun(r)
  BY <1>1 DEF HostStops, LeaveRun
<1>6. \A c \in Conns : ~SessionStep(c)
  BY <1>3 DEF SessionStep, HandOff, StartSession, MoveSession, EndSession, Dead
<1> QED
  BY <1>4, <1>5, <1>6

(* A thread that left run() does not enter it again.                       *)
LEMMA ThreadsStayOut ==
    ASSUME StateInv, [Next]_vars, owner.step # "threads"
    PROVE  \A r \in Reactors : reactor[r].thread # "run" => reactor'[r].thread # "run"
<1>1. /\ reactor \in [Reactors -> ReactorStates] /\ owner.at \in Reactors
      /\ conn \in [Conns -> ConnStates]
  BY Types DEF StateInv, OwnerStates
<1>2. \A r \in Reactors : reactor[r] \in ReactorStates
  BY <1>1
<1>3. CASE reactor' = reactor
  BY <1>3
<1>4. ASSUME NEW r \in Reactors, NEW n, ReleaseTickets(n, r)
      PROVE  \A q \in Reactors : reactor'[q].thread = reactor[q].thread
  BY <1>1, <1>2, <1>4 DEF ReleaseTickets, ReactorStates
<1>5. CASE HaltLoop \/ AbortAll \/ ForceAll \/ \E r \in Reactors : HostStops(r) \/ LeaveRun(r)
  BY <1>1, <1>2, <1>5 DEF HaltLoop, AbortAll, ForceAll, HostStops, LeaveRun, ReactorStates
<1>6. ASSUME NEW r \in Owners, AcceptStep(r)
      PROVE  \A q \in Reactors : reactor'[q].thread = reactor[q].thread
  <2>1. CASE reactor' = reactor
    BY <2>1
  <2>2. ASSUME NEW c \in Conns, \/ reactor' = [reactor EXCEPT ![Home(c)].sessions = @ + 1]
                                \/ reactor' = [reactor EXCEPT ![Home(c)].sessions = @ - 1]
        PROVE  \A q \in Reactors : reactor'[q].thread = reactor[q].thread
    BY <1>1, <1>2, <2>2 DEF ReactorStates
  <2> QED
    BY <1>6, <2>1, <2>2, AcceptsCount, Zenon
<1>7. ASSUME NEW c \in Conns, SessionStep(c)
      PROVE  \A q \in Reactors : reactor'[q].thread = reactor[q].thread
  <2>1. Home(c) \in Reactors
    BY <1>1 DEF Home, ConnStates
  <2>2. reactor' = reactor \/ ReleaseTickets(1, Home(c))
    BY <1>7 DEF SessionStep, HandOff, StartSession, MoveSession, EndSession
  <2> QED
    BY <1>4, <2>1, <2>2
<1>8. CASE CloseScheduler \/ DestroyRoots \/ DestroyReactor
  BY <1>1, <1>4, <1>8, Zenon DEF CloseScheduler, DestroyRoots, DestroyReactor, Destroy
<1>9. CASE \/ Start \/ Stop \/ ThreadFails \/ WaitListening \/ ReapAccept \/ WaitSessions
           \/ GraceEnds \/ Join \/ BeginClose \/ Gone
           \/ SpawnAccept \/ SpawnFails \/ CatchStart \/ SignalAccept \/ PostClose
  BY <1>3, <1>9 DEF Start, Stop, ThreadFails, WaitListening, ReapAccept, WaitSessions, GraceEnds,
                    Join, BeginClose, Gone, OwnerOnly, vars, SpawnAccept, SpawnFails, CatchStart,
                    SignalAccept, PostClose
<1>10. ~StartThread
  BY DEF StartThread, At
<1> QED
  BY <1>3, <1>5, <1>6, <1>7, <1>8, <1>9, <1>10, Zenon DEF Next, OwnerStep, vars

(* What destroying the sessions in state s of the owner's reactor changes. *)
LEMMA Destroys ==
    ASSUME StateInv, NEW s \in Ticketed, Destroy(s)
    PROVE  \A c \in Conns :
               /\ conn'[c].home = conn[c].home
               /\ In(c, s) /\ Home(c) = owner.at => conn'[c].state = "destroyed"
               /\ ~(In(c, s) /\ Home(c) = owner.at) => conn'[c].state = conn[c].state
<1> SUFFICES ASSUME NEW c \in Conns
             PROVE  /\ conn'[c].home = conn[c].home
                    /\ In(c, s) /\ Home(c) = owner.at => conn'[c].state = "destroyed"
                    /\ ~(In(c, s) /\ Home(c) = owner.at) => conn'[c].state = conn[c].state
  OBVIOUS
<1>1. conn[c] \in ConnStates
  BY Types DEF StateInv
<1>2. conn'[c] = IF In(c, s) /\ Home(c) = owner.at
                 THEN [conn[c] EXCEPT !.state = "destroyed"] ELSE conn[c]
  BY DEF Destroy
<1> QED
  BY <1>1, <1>2, Zenon DEF ConnStates

(* Every step keeps what the joins and the phases have done.               *)
LEMMA NextGone == StateInv /\ ReapInv /\ GoneInv /\ [Next]_vars => GoneInv'
<1> SUFFICES ASSUME StateInv, ReapInv, GoneInv, [Next]_vars PROVE GoneInv'
  OBVIOUS
<1>1. /\ owner \in OwnerStates /\ N \in Reactors /\ owner.at \in Nat /\ owner.at <= N
      /\ \A r \in Reactors : r \in Nat /\ r <= N /\ r >= 1
      /\ \A c \in Conns : conn[c] \in ConnStates /\ conn[c].home \in Reactors
  BY Types, Numbers DEF StateInv, Reactors, OwnerStates, ConnStates
<1>2. owner.step # "threads" =>
        \A r \in Reactors : reactor[r].thread # "run" => reactor'[r].thread # "run"
  BY ThreadsStayOut, Zenon
<1>3. CASE owner'.step \notin Dead \cup {"join"}
  BY <1>3, Zenon DEF GoneInv, Dead
<1>4. CASE owner' = owner /\ owner.step \in {"join", "stopped"}
  BY <1>2, <1>4, Zenon DEF GoneInv, Dead
<1>5. CASE owner' = owner /\ conn' = conn
  BY <1>2, <1>5 DEF GoneInv, Dead, In, Home
<1>6. CASE owner' = owner /\ owner.step \in Dead \ {"stopped"} /\ conn' # conn
  <2>1. CASE CloseScheduler
    <3>1. owner.step = "close" /\ Destroy("spawned")
      BY <2>1, Zenon DEF CloseScheduler, At
    <3> QED
      BY <1>1, <1>2, <1>6, <3>1, Destroys DEF GoneInv, Dead, In, Home, Ticketed
  <2>2. CASE DestroyRoots
    <3>1. owner.step = "roots" /\ Destroy("running")
      BY <2>2, Zenon DEF DestroyRoots, At
    <3> QED
      BY <1>1, <1>2, <1>6, <3>1, Destroys DEF GoneInv, Dead, In, Home, Ticketed
  <2>3. CASE DestroyReactor
    <3>1. owner.step = "destroy" /\ Destroy("handoff")
      BY <2>3, Zenon DEF DestroyReactor, At
    <3> QED
      BY <1>1, <1>2, <1>6, <3>1, Destroys DEF GoneInv, Dead, In, Home, Ticketed
  <2>4. CASE ~CloseScheduler /\ ~DestroyRoots /\ ~DestroyReactor
    BY <1>6, <2>4, NothingMoves, Zenon
       DEF Next, OwnerStep, vars, Gone, Start, Stop, StartThread, ThreadFails, SpawnAccept,
           SpawnFails, WaitListening, CatchStart, AbortAll, SignalAccept, PostClose, ReapAccept,
           WaitSessions, GraceEnds, ForceAll, HaltLoop, Join, BeginClose, OwnerOnly, At, Dead
  <2> QED
    BY <2>1, <2>2, <2>3, <2>4, Zenon
<1> USE <1>1 DEF OwnerSteps, At
<1>7. CASE HaltLoop
  <2>1. owner'.step = "halt" \/ (owner'.step = "join" /\ owner'.at = 1)
    BY <1>7, GoesOn, Zenon DEF HaltLoop
  <2> QED
    BY <2>1 DEF GoneInv, Dead
<1>8. CASE Join
  <2>1. owner.step = "join" /\ reactor' = reactor /\ reactor[owner.at].thread # "run"
    BY <1>8, Zenon DEF Join, OwnerOnly
  <2>2. \A r \in Reactors : r <= owner.at => reactor[r].thread # "run"
    BY <2>1, SMTT(30) DEF GoneInv
  <2>3. \/ owner'.step = "join" /\ owner'.at = owner.at + 1
        \/ owner'.step = "stopped" /\ owner.at >= N
    BY <1>8, <2>1, GoesOn, Zenon DEF Join
  <2> QED
    BY <2>1, <2>2, <2>3 DEF GoneInv, Dead
<1>9. CASE BeginClose
  <2>1. owner.step = "stopped" /\ reactor' = reactor /\ conn' = conn
    BY <1>9, Zenon DEF BeginClose, OwnerOnly
  <2>2. owner'.step = "close" /\ owner'.at = 1
    BY <1>9, Moves, Numbers, SMTT(30) DEF BeginClose
  <2> QED
    BY <2>1, <2>2, SMTT(30) DEF GoneInv, Dead, In, Home
<1>10. CASE CloseScheduler
  <2>1. owner.step = "close" /\ Destroy("spawned")
    BY <1>10, Zenon DEF CloseScheduler
  <2>2. \/ owner'.step = "close" /\ owner'.at = owner.at + 1
        \/ owner'.step = "roots" /\ owner'.at = 1 /\ owner.at >= N
    BY <1>10, <2>1, GoesOn, SMTT(30) DEF CloseScheduler
  <2>3. \A c \in Conns : conn'[c].state = "spawned" => conn'[c].home > owner.at
    BY <2>1, Destroys, SMTT(30) DEF GoneInv, In, Home, Ticketed
  <2>4. \A c \in Conns : conn'[c].home \in Reactors
    BY <2>1, Destroys, Zenon DEF Ticketed
  <2> QED
    BY <1>2, <2>1, <2>2, <2>3, <2>4 DEF GoneInv, Dead, In, Home
<1>11. CASE DestroyRoots
  <2>1. owner.step = "roots" /\ Destroy("running")
    BY <1>11, Zenon DEF DestroyRoots
  <2>2. \/ owner'.step = "roots" /\ owner'.at = owner.at + 1
        \/ owner'.step = "destroy" /\ owner'.at = 1 /\ owner.at >= N
    BY <1>11, <2>1, GoesOn, Zenon DEF DestroyRoots
  <2>3. \A c \in Conns : /\ conn'[c].state = "running" => conn'[c].home > owner.at
                         /\ conn'[c].state # "spawned"
    BY <2>1, Destroys, SMTT(30) DEF GoneInv, In, Home, Ticketed
  <2>4. \A c \in Conns : conn'[c].home \in Reactors
    BY <2>1, Destroys, Zenon DEF Ticketed
  <2> QED
    BY <1>2, <2>1, <2>2, <2>3, <2>4 DEF GoneInv, Dead, In, Home
<1>12. CASE DestroyReactor
  <2>1. owner.step = "destroy" /\ Destroy("handoff")
    BY <1>12, Zenon DEF DestroyReactor
  <2>2. \/ owner'.step = "destroy" /\ owner'.at = owner.at + 1
        \/ owner'.step = "gone" /\ owner.at >= N
    BY <1>12, <2>1, GoesOn, Zenon DEF DestroyReactor
  <2>3. \A c \in Conns : /\ conn'[c].state = "handoff" => conn'[c].home > owner.at
                         /\ conn'[c].state \notin {"spawned", "running"}
    BY <2>1, Destroys, SMTT(30) DEF GoneInv, In, Home, Ticketed
  <2>4. \A c \in Conns : conn'[c].home \in Reactors
    BY <2>1, Destroys DEF Ticketed
  <2> QED
    BY <1>2, <2>1, <2>2, <2>3, <2>4 DEF GoneInv, Dead, In, Home, Ticketed
<1> QED
  BY <1>3, <1>4, <1>5, <1>6, <1>7, <1>8, <1>9, <1>10, <1>11, <1>12, OwnerEnds, Zenon DEF Dead

-----------------------------------------------------------------------------
(* Everything the owner blocks on is somebody's next step.                 *)

(* Threads begin and leave, and an io_context stays stopped: the owner     *)
(* stops them in turn, the host those it may.                              *)
LEMMA ReactorMoves ==
    ASSUME StateInv, [Next]_vars
    PROVE  \A r \in Reactors :
               /\ reactor[r].thread # "off" => reactor'[r].thread # "off"
               /\ reactor'[r].thread = "out" => reactor[r].thread = "out" \/ reactor[r].stopped
               /\ reactor[r].stopped => reactor'[r].stopped
               /\ reactor'[r].stopped => reactor[r].stopped \/ r \in StoppableByHost \/ HaltLoop
<1>1. /\ reactor \in [Reactors -> ReactorStates] /\ owner.at \in Reactors
      /\ conn \in [Conns -> ConnStates] /\ \A r \in Reactors : reactor[r] \in ReactorStates
  BY Types DEF StateInv, OwnerStates
<1> DEFINE Same == \A q \in Reactors : /\ reactor'[q].thread = reactor[q].thread
                                       /\ reactor'[q].stopped = reactor[q].stopped
<1>2. reactor' = reactor => Same
  OBVIOUS
<1>3. ASSUME NEW r \in Reactors, NEW n, ReleaseTickets(n, r) PROVE Same
  BY <1>1, <1>3 DEF ReleaseTickets, ReactorStates
<1>4. AbortAll \/ ForceAll => Same
  <2>1. AbortAll \/ ForceAll =>
            \/ reactor' = [reactor EXCEPT ![owner.at].walked = TRUE]
            \/ reactor' = [reactor EXCEPT ![owner.at].forced = TRUE]
    BY Zenon DEF AbortAll, ForceAll
  <2> QED
    BY <1>1, <2>1 DEF ReactorStates
<1>5. ASSUME NEW r \in Owners, AcceptStep(r) PROVE Same
  <2>1. ASSUME NEW c \in Conns, \/ reactor' = [reactor EXCEPT ![Home(c)].sessions = @ + 1]
                                \/ reactor' = [reactor EXCEPT ![Home(c)].sessions = @ - 1]
        PROVE  Same
    BY <1>1, <2>1 DEF ReactorStates
  <2> HIDE DEF Same
  <2> QED
    BY <1>2, <1>5, <2>1, AcceptsCount, Zenon
<1>6. ASSUME NEW c \in Conns, SessionStep(c) PROVE Same
  <2>1. Home(c) \in Reactors
    BY <1>1 DEF Home, ConnStates
  <2>2. reactor' = reactor \/ ReleaseTickets(1, Home(c))
    BY <1>6, Zenon DEF SessionStep, HandOff, StartSession, MoveSession, EndSession
  <2> QED
    BY <1>2, <1>3, <2>1, <2>2, Zenon
<1>7. CloseScheduler \/ DestroyRoots \/ DestroyReactor => Same
  BY <1>1, <1>3, Zenon DEF CloseScheduler, DestroyRoots, DestroyReactor, Destroy
<1>8. CASE \/ Start \/ Stop \/ ThreadFails \/ WaitListening \/ ReapAccept \/ WaitSessions
           \/ GraceEnds \/ Join \/ BeginClose \/ Gone
           \/ SpawnAccept \/ SpawnFails \/ CatchStart \/ SignalAccept \/ PostClose \/ UNCHANGED vars
  <2>1. reactor' = reactor
    BY <1>8, Zenon
       DEF Start, Stop, ThreadFails, WaitListening, ReapAccept, WaitSessions, GraceEnds,
           Join, BeginClose, Gone, OwnerOnly, vars, SpawnAccept, SpawnFails, CatchStart,
           SignalAccept, PostClose
  <2> QED
    BY <2>1
<1>9. CASE StartThread \/ HaltLoop \/ \E r \in Reactors : HostStops(r) \/ LeaveRun(r)
  <2>1. CASE StartThread
    BY <1>1, <2>1 DEF StartThread, ReactorStates
  <2>2. CASE HaltLoop
    <3>1. reactor' = [reactor EXCEPT ![owner.at].stopped = TRUE]
      BY <2>2 DEF HaltLoop
    <3> QED
      BY <1>1, <2>2, <3>1 DEF ReactorStates
  <2>3. ASSUME NEW r \in Reactors, HostStops(r) PROVE \A q \in Reactors :
            /\ reactor'[q].thread = reactor[q].thread
            /\ reactor'[q].stopped = (IF q = r THEN TRUE ELSE reactor[q].stopped)
            /\ r \in StoppableByHost
    BY <1>1, <2>3 DEF HostStops, ReactorStates
  <2>4. ASSUME NEW r \in Reactors, LeaveRun(r) PROVE \A q \in Reactors :
            /\ reactor'[q].thread = (IF q = r THEN "out" ELSE reactor[q].thread)
            /\ reactor'[q].stopped = reactor[q].stopped
            /\ reactor[r].stopped
    BY <1>1, <2>4, Zenon DEF LeaveRun, ReactorStates
  <2> QED
    BY <1>9, <2>1, <2>2, <2>3, <2>4, Zenon
<1> QED
  BY <1>4, <1>5, <1>6, <1>7, <1>8, <1>9, ZenonT(40) DEF Next, OwnerStep

(* A step leaves the accept controls alone, or is one of an accept loop's  *)
(* or of the owner's that change them.                                     *)
LEMMA ControlCases ==
    ASSUME [Next]_vars
    PROVE  \/ control' = control \/ \E r \in Owners : AcceptStep(r)
           \/ SpawnAccept \/ SpawnFails \/ CatchStart \/ SignalAccept \/ PostClose
<1>1. ASSUME NEW c \in Conns, SessionStep(c) PROVE control' = control
  BY <1>1, Zenon DEF SessionStep, HandOff, StartSession, MoveSession, EndSession
<1>2. ASSUME NEW r \in Reactors, HostStops(r) \/ LeaveRun(r) PROVE control' = control
  BY <1>2, Zenon DEF HostStops, LeaveRun
<1>3. UNCHANGED vars => control' = control
  BY DEF vars
<1> QED
  BY <1>1, <1>2, <1>3, ZenonT(40)
     DEF Next, OwnerStep, Start, Stop, ThreadFails, WaitListening, ReapAccept, WaitSessions,
         GraceEnds, Join, BeginClose, Gone, OwnerOnly, StartThread, HaltLoop, AbortAll, ForceAll,
         CloseScheduler, DestroyRoots, DestroyReactor, Destroy

(* The accept task has not bound its port, or could not.                   *)
Unbound == {"none", "spawned", "finished"}

(* What an accept control keeps: that it is ready, told and closed; an     *)
(* accept begins in the owner's loop over the acceptors only.              *)
LEMMA ControlMoves ==
    ASSUME StateInv, [Next]_vars
    PROVE  \A r \in Owners :
               /\ control[r].ready => control'[r].ready
               /\ control[r].task # "none" => control'[r].task # "none"
               /\ control'[r].task # "none" => control[r].task # "none" \/ owner.step = "spawn"
               /\ owner.step # "catch" => (control[r].stopping => control'[r].stopping)
               /\ (control[r].closing \/ control[r].closed) =>
                      (control'[r].closing \/ control'[r].closed)
               /\ (control[r].ready \/ control[r].task \in Unbound) =>
                      (control'[r].ready \/ control'[r].task \in Unbound)
<1>1. /\ control \in [Owners -> ControlStates]
      /\ \A r \in Owners : control[r] \in ControlStates
  BY Types DEF StateInv
<1>2. CASE control' = control
  BY <1>2
<1>3. ASSUME NEW r \in Owners, AcceptStep(r)
      PROVE  \/ \E t \in Tasks : /\ GoesTo(r, t) /\ t # "none" /\ control[r].task # "none"
                                 /\ t = "finished" \/ control[r].task \notin Unbound
             \/ control' = [control EXCEPT ![r].task = "top", ![r].ready = TRUE] /\ control[r].task # "none"
             \/ \E q \in Reactors :
                    /\ control' = [control EXCEPT ![r].task = "accepting", ![r].target = q]
                    /\ control[r].task = "top"
             \/ control' = [control EXCEPT ![r].closing = FALSE, ![r].closed = TRUE]
             \/ control' = control
  <2>1. BeginAccept(r) => \/ control' = [control EXCEPT ![r].task = "top", ![r].ready = TRUE]
                             /\ control[r].task # "none"
                          \/ GoesTo(r, "finished") /\ control[r].task # "none"
    BY DEF BeginAccept
  <2>2. AcceptNext(r) => \/ GoesTo(r, "finished") /\ control[r].task = "top"
                         \/ \E q \in Reactors :
                               /\ control' = [control EXCEPT ![r].task = "accepting", ![r].target = q]
                               /\ control[r].task = "top"
    BY Numbers, Types, Zenon DEF AcceptNext, StateInv
  <2>3. AcceptFails(r) => /\ \E t \in {"finished", "top", "retrying"} : GoesTo(r, t)
                          /\ control[r].task = "accepting"
    BY DEF AcceptFails
  <2>4. RetryEnds(r) => /\ \E t \in {"finished", "top"} : GoesTo(r, t)
                        /\ control[r].task = "retrying"
    BY DEF RetryEnds
  <2>5. ASSUME NEW c \in Conns, AcceptConnection(r, c) \/ Enter(r, c) \/ Launch(r, c)
        PROVE  \/ control' = control
               \/ /\ \E t \in {"finished", "launching", "top", "retrying"} : GoesTo(r, t)
                  /\ control[r].task \in {"accepting", "launching"}
    BY <2>5 DEF AcceptConnection, Enter, Launch, Launching
  <2>6. CloseAcceptor(r) => control' = [control EXCEPT ![r].closing = FALSE, ![r].closed = TRUE]
    BY DEF CloseAcceptor
  <2> QED
    BY <1>3, <2>1, <2>2, <2>3, <2>4, <2>5, <2>6, Zenon DEF AcceptStep, Unbound, Tasks
<1>4. CASE \E r \in Owners : AcceptStep(r)
  <2>1. PICK r \in Owners : AcceptStep(r)
    BY <1>4
  <2>2. ASSUME NEW t \in Tasks, GoesTo(r, t), t # "none", control[r].task # "none",
               t = "finished" \/ control[r].task \notin Unbound
        PROVE  \A q \in Owners : /\ control'[q].ready = control[q].ready
                                 /\ control'[q].stopping = control[q].stopping
                                 /\ control'[q].closing = control[q].closing
                                 /\ control'[q].closed = control[q].closed
                                 /\ control'[q].task = IF q = r THEN t ELSE control[q].task
    BY <1>1, <2>2 DEF GoesTo, ControlStates
  <2>3. CASE control' = [control EXCEPT ![r].task = "top", ![r].ready = TRUE] /\ control[r].task # "none"
    BY <1>1, <2>3 DEF ControlStates
  <2>4. CASE control' = [control EXCEPT ![r].closing = FALSE, ![r].closed = TRUE]
    BY <1>1, <2>4 DEF ControlStates
  <2>5. ASSUME NEW q \in Reactors, control[r].task = "top",
               control' = [control EXCEPT ![r].task = "accepting", ![r].target = q]
        PROVE  \A p \in Owners : /\ control'[p].ready = control[p].ready
                                 /\ control'[p].stopping = control[p].stopping
                                 /\ control'[p].closing = control[p].closing
                                 /\ control'[p].closed = control[p].closed
                                 /\ control'[p].task = IF p = r THEN "accepting" ELSE control[p].task
    BY <1>1, <2>5, Zenon DEF ControlStates
  <2> QED
    BY <1>2, <1>3, <2>1, <2>2, <2>3, <2>4, <2>5 DEF Unbound
<1>5. CASE SpawnAccept \/ SpawnFails \/ CatchStart \/ SignalAccept \/ PostClose
  <2>1. owner.at \in Owners
    BY <1>5 DEF SpawnAccept, SpawnFails, CatchStart, SignalAccept, PostClose, At, StateInv, OwnerInv
  <2>2. CASE SpawnAccept \/ SpawnFails
    <3>1. /\ owner.step = "spawn"
          /\ \/ control' = control
             \/ \E t \in {"spawned", "finished"} : control' = [control EXCEPT ![owner.at].task = t]
      BY <2>2 DEF SpawnAccept, SpawnFails, GoesTo, At
    <3> QED
      BY <1>1, <1>2, <2>1, <3>1 DEF ControlStates, Unbound
  <2>3. CASE CatchStart
    BY <1>1, <2>1, <2>3 DEF CatchStart, At, ControlStates
  <2>4. CASE SignalAccept \/ PostClose
    <3>1. \/ control' = control
          \/ control' = [control EXCEPT ![owner.at].stopping = TRUE]
          \/ control' = [control EXCEPT ![owner.at].closing = TRUE]
      BY <2>4 DEF SignalAccept, PostClose
    <3> QED
      BY <1>1, <1>2, <2>1, <3>1 DEF ControlStates
  <2> QED
    BY <1>5, <2>2, <2>3, <2>4
<1> QED
  BY <1>2, <1>4, <1>5, ControlCases, Zenon

(* A thread leaves run() only when its io_context is stopped; the owner    *)
(* stops each from "halt" on, after every start.                           *)
LoopInv ==
    /\ \A r \in Reactors :
        /\ reactor[r].thread = "out" => reactor[r].stopped
        /\ reactor[r].stopped => r \in StoppableByHost \/ owner.step \in {"halt", "join"} \cup Dead
    /\ \A r \in Owners : control[r].task # "none" => reactor[r].thread # "off"
    /\ owner.step = "threads" =>
        \A r \in Reactors : r < owner.at => reactor[r].thread # "off"
    /\ owner.step \in {"spawn", "first", "listen", "serving"} =>
        \A r \in Reactors : reactor[r].thread # "off"
    /\ owner.step = "halt" => \A r \in Reactors : r < owner.at => reactor[r].stopped
    /\ owner.step \in {"join"} \cup Dead => \A r \in Reactors : reactor[r].stopped

(* The listeners the owner has seen ready, and those it waits for.         *)
ReadyInv ==
    /\ \A r \in Owners : control[r].ready \/ control[r].task \in Unbound
    /\ owner.step = "spawn" => \A r \in Owners : r < owner.at => control[r].task # "none"
    /\ owner.step = "first" => owner.at = 1 /\ control[1].task # "none"
    /\ owner.step = "listen" => \A r \in Owners : control[r].task # "none"
    /\ owner.step = "listen" => \A r \in Owners : r < owner.at => control[r].ready
    /\ owner.step = "serving" => \A r \in Owners : control[r].ready

(* The accept is told to stop and stop_on_owner is on its way.             *)
Told(r) ==
    control[r].task # "none" =>
        control[r].stopping /\ (control[r].closing \/ control[r].closed)

ToldInv ==
    /\ owner.step \in {"signal", "post"} => \A r \in Owners : r < owner.at => Told(r)
    /\ owner.step = "post" => control[owner.at].stopping
    /\ owner.step = "reap" => \A r \in Owners : Told(r)

(* A handler that has accepted has a connection to launch.                 *)
LaunchInv ==
    /\ ~Shared => \A r \in Owners : control[r].target = r
    /\ \A r \in Owners : control[r].task = "launching" =>
        \E c \in Conns : InHand(c) /\ Home(c) = control[r].target

(* The owner's step and index after this step.                             *)
Went(s, i) == owner'.step = s /\ owner'.at = i

(* The steps at which no invariant above says anything of the index.       *)
Elsewhere == {"catch", "abort", "grace", "force"}

(* The owner's way from step to step.                                      *)
OwnerWay ==
    \/ Went(owner.step, owner.at)
    \/ Start /\ owner.step = "new" /\ Went("threads", 1)
    \/ /\ StartThread /\ owner.step = "threads"
       /\ \/ Went("threads", owner.at + 1)
          \/ owner.at >= N /\ Went("spawn", 1)
    \/ /\ SpawnAccept /\ owner.step = "spawn"
       /\ \/ owner.at = 1 /\ Went("first", 1)
          \/ Went("spawn", owner.at + 1)
          \/ owner.at >= LastOwner /\ Went("listen", 1)
    \/ /\ owner.step = "first" /\ control[owner.at].ready
       /\ (N = 1 /\ Went("listen", 1)) \/ Went("spawn", 2)
    \/ /\ owner.step = "listen" /\ control[owner.at].ready
       /\ \/ Went("listen", owner.at + 1)
          \/ owner.at >= LastOwner /\ Went("serving", 1)
    \/ owner.step = "abort" /\ Went("signal", 1)
    \/ /\ SignalAccept /\ owner.step = "signal"
       /\ \/ control[owner.at].task # "none" /\ Went("post", owner.at)
          \/ control[owner.at].task = "none" /\ Went("signal", owner.at + 1)
          \/ /\ control[owner.at].task = "none"
             /\ owner.at >= LastOwner /\ Went("reap", 1)
    \/ /\ PostClose /\ owner.step = "post"
       /\ \/ Went("signal", owner.at + 1)
          \/ owner.at >= LastOwner /\ Went("reap", 1)
    \/ owner.step = "reap" /\ Went("reap", owner.at + 1)
    \/ owner.step = "grace" /\ Went("halt", 1)
    \/ /\ HaltLoop /\ owner.step = "halt"
       /\ \/ Went("halt", owner.at + 1)
          \/ owner.at >= N /\ Went("join", 1)
    \/ owner.step \in {"join"} \cup Dead /\ owner'.step \in {"join"} \cup Dead
    \/ owner.step \notin {"halt", "join"} \cup Dead /\ owner'.step \in Elsewhere

(* What the owner's assignments make of its step and index.                *)
LEMMA OwnerWent ==
    ASSUME owner \in OwnerStates
    PROVE  /\ \A s, i : owner' = Moved(s, i) => Went(s, i)
           /\ \A last \in {LastOwner, N}, s \in OwnerSteps : owner' = GoOn(last, s) =>
                  Went(owner.step, owner.at + 1) \/ (owner.at >= last /\ Went(s, 1))
<1>1. \A s, i : Moved(s, i).step = s /\ Moved(s, i).at = i
  BY Zenon DEF Moved, OwnerStates
<1>2. N \in Reactors /\ LastOwner \in Reactors
  BY Numbers DEF Reactors
<1>3. ASSUME NEW last \in {LastOwner, N}, NEW s \in OwnerSteps, owner' = GoOn(last, s)
      PROVE  Went(owner.step, owner.at + 1) \/ (owner.at >= last /\ Went(s, 1))
  BY <1>2, <1>3, GoesOn DEF Went
<1>4. ASSUME NEW s, NEW i, owner' = Moved(s, i) PROVE Went(s, i)
  BY <1>1, <1>4 DEF Went
<1> QED
  BY <1>3, <1>4, Zenon

LEMMA OwnerGoes ==
    ASSUME StateInv, [Next]_vars
    PROVE  OwnerWay
<1>0. owner \in OwnerStates /\ owner.at \in Reactors /\ LastOwner \in Reactors /\ N \in Reactors
  BY Numbers, Types DEF StateInv, OwnerStates, Reactors
<1>a. \A s, i : owner' = Moved(s, i) => Went(s, i)
  BY <1>0, OwnerWent, Zenon
<1>b. \A last \in {LastOwner, N}, s \in OwnerSteps : owner' = GoOn(last, s) =>
          Went(owner.step, owner.at + 1) \/ (owner.at >= last /\ Went(s, 1))
  BY <1>0, OwnerWent, Zenon
<1>c. \A x \in {"spawn", "listen", "serving", "abort", "signal", "reap", "grace", "halt", "force",
               "join", "stopped", "roots", "destroy", "gone"} : x \in OwnerSteps
  BY DEF OwnerSteps
<1>d. owner.step \notin {"halt", "join"} \cup Dead /\ owner'.step \in Elsewhere => OwnerWay
  BY Zenon DEF OwnerWay
<1>e. owner.step \in {"join"} \cup Dead /\ owner'.step \in {"join"} \cup Dead => OwnerWay
  BY Zenon DEF OwnerWay
<1>1. CASE owner' = owner
  <2>1. Went(owner.step, owner.at)
    BY <1>1 DEF Went
  <2> QED
    BY <2>1, Zenon DEF OwnerWay
<1>2. CASE Start
  <2>1. owner.step = "new" /\ Went("threads", 1)
    BY <1>2, <1>a DEF Start, At
  <2> QED
    BY <1>2, <2>1, Zenon DEF OwnerWay
<1>3. CASE Stop \/ ThreadFails \/ SpawnFails
  <2>1. /\ owner.step \in {"new", "serving", "threads", "spawn"}
        /\ Went("abort", 1) \/ Went("catch", 1)
    BY <1>3, <1>a DEF Stop, ThreadFails, SpawnFails, At
  <2>2. owner.step \notin {"halt", "join"} \cup Dead /\ owner'.step \in Elsewhere
    BY <2>1 DEF Went, Dead, Elsewhere
  <2> QED
    BY <1>d, <2>2
<1>4. CASE StartThread
  <2>1. /\ owner.step = "threads"
        /\ Went(owner.step, owner.at + 1) \/ (owner.at >= N /\ Went("spawn", 1))
    BY <1>4, <1>b, <1>c DEF StartThread, At
  <2> QED
    BY <1>4, <2>1, Zenon DEF OwnerWay
<1>5. CASE SpawnAccept
  <2>1. /\ owner.step = "spawn"
        /\ \/ owner.at = 1 /\ owner' = Moved("first", 1)
           \/ owner' = GoOn(LastOwner, "listen")
    BY <1>5 DEF SpawnAccept, At
  <2>2. \/ owner.at = 1 /\ Went("first", 1)
        \/ Went(owner.step, owner.at + 1)
        \/ owner.at >= LastOwner /\ Went("listen", 1)
    BY <2>1, <1>a, <1>b, <1>c
  <2> QED
    BY <1>5, <2>1, <2>2, Zenon DEF OwnerWay
<1>6. CASE WaitListening
  <2>1. \/ owner.step \in {"first", "listen"} /\ owner' = Moved("catch", 1)
        \/ /\ owner.step = "first" /\ control[owner.at].ready
           /\ (N = 1 /\ owner' = Moved("listen", 1)) \/ owner' = Moved("spawn", 2)
        \/ owner.step = "listen" /\ control[owner.at].ready /\ owner' = GoOn(LastOwner, "serving")
    BY <1>6 DEF WaitListening, At
  <2>2. CASE owner.step \in {"first", "listen"} /\ owner' = Moved("catch", 1)
    BY <1>a, <1>d, <2>2 DEF Went, Dead, Elsewhere
  <2>3. CASE /\ owner.step = "first" /\ control[owner.at].ready
             /\ (N = 1 /\ owner' = Moved("listen", 1)) \/ owner' = Moved("spawn", 2)
    BY <1>a, <2>3, Zenon DEF OwnerWay
  <2>4. CASE owner.step = "listen" /\ control[owner.at].ready /\ owner' = GoOn(LastOwner, "serving")
    <3>1. Went(owner.step, owner.at + 1) \/ (owner.at >= LastOwner /\ Went("serving", 1))
      BY <1>b, <1>c, <2>4
    <3> QED
      BY <2>4, <3>1, Zenon DEF OwnerWay
  <2> QED
    BY <2>1, <2>2, <2>3, <2>4, Zenon
<1>7. CASE CatchStart
  <2>1. owner.step = "catch" /\ (Went(owner.step, owner.at + 1) \/ Went("abort", 1))
    BY <1>7, <1>b, <1>c DEF CatchStart, At
  <2> QED
    BY <1>d, <2>1 DEF Went, Dead, Elsewhere
<1>8. CASE AbortAll
  <2>1. owner.step = "abort" /\ (Went(owner.step, owner.at + 1) \/ Went("signal", 1))
    BY <1>8, <1>b, <1>c DEF AbortAll, At
  <2>2. CASE Went(owner.step, owner.at + 1)
    BY <1>d, <2>1, <2>2 DEF Went, Dead, Elsewhere
  <2>3. CASE Went("signal", 1)
    BY <2>1, <2>3, Zenon DEF OwnerWay
  <2> QED
    BY <2>1, <2>2, <2>3
<1>9. CASE SignalAccept
  <2>1. /\ owner.step = "signal"
        /\ \/ control[owner.at].task # "none" /\ owner' = Moved("post", owner.at)
           \/ control[owner.at].task = "none" /\ owner' = GoOn(LastOwner, "reap")
    BY <1>9 DEF SignalAccept, At
  <2>2. \/ control[owner.at].task # "none" /\ Went("post", owner.at)
        \/ control[owner.at].task = "none" /\ Went(owner.step, owner.at + 1)
        \/ control[owner.at].task = "none" /\ owner.at >= LastOwner /\ Went("reap", 1)
    BY <1>a, <1>b, <1>c, <2>1
  <2> QED
    BY <1>9, <2>1, <2>2, Zenon DEF OwnerWay
<1>10. CASE PostClose
  <2>1. /\ owner.step = "post"
        /\ \/ owner' = Moved("signal", owner.at + 1)
           \/ owner.at >= LastOwner /\ owner' = Moved("reap", 1)
    BY <1>0, <1>10, Numbers DEF PostClose, At, Reactors
  <2> QED
    BY <1>a, <1>10, <2>1, Zenon DEF OwnerWay
<1>11. CASE ReapAccept
  <2> DEFINE o == GoOn(LastOwner, "grace")
  <2>1. /\ o \in OwnerStates /\ o.rounds = 0 /\ owner.step = "reap"
        /\ \/ o.step = "reap" /\ o.at = owner.at + 1
           \/ o.step = "grace"
    BY <1>0, <1>11, <1>c, GoesOn, SMTT(30) DEF ReapAccept, StateInv, OwnerInv, BeforeGrace, AfterReap, At
  <2>2. owner' = NewRound(o)
    BY <1>11 DEF ReapAccept
  <2> HIDE DEF o
  <2>3. Went("reap", owner.at + 1) \/ owner'.step = "grace"
    BY <2>1, <2>2, Rounds DEF Went
  <2>4. CASE Went("reap", owner.at + 1)
    BY <2>1, <2>4, Zenon DEF OwnerWay
  <2>5. CASE owner'.step = "grace"
    BY <1>d, <2>1, <2>5, Zenon DEF Dead, Elsewhere
  <2> QED
    BY <2>3, <2>4, <2>5, Zenon
<1>12. CASE WaitSessions
  <2> DEFINE drained == owner.drained /\ reactor[owner.at].sessions = 0
             s == IF drained \/ owner.rounds = 2 THEN "halt" ELSE "force"
             o == GoOn(N, s)
  <2>1. s \in OwnerSteps /\ s \in {"halt", "force"}
    BY <1>c
  <2>2. owner' = [o EXCEPT !.drained = drained] /\ owner.step = "grace"
    BY <1>12 DEF WaitSessions, At
  <2> HIDE DEF drained, s
  <2>3. /\ o \in OwnerStates
        /\ o.step = "grace" \/ (o.step = s /\ o.at = 1)
    BY <1>0, <2>1, <2>2, GoesOn
  <2> HIDE DEF o
  <2>4. owner'.step = o.step /\ owner'.at = o.at
    BY <2>2, <2>3, Zenon DEF OwnerStates
  <2>5. owner'.step \in {"grace", "force"} \/ Went("halt", 1)
    BY <2>1, <2>3, <2>4 DEF Went
  <2>6. CASE owner'.step \in {"grace", "force"}
    BY <1>d, <2>2, <2>6 DEF Dead, Elsewhere
  <2>7. CASE Went("halt", 1)
    BY <2>2, <2>7, Zenon DEF OwnerWay
  <2> QED
    BY <2>5, <2>6, <2>7
<1>13. CASE GraceEnds
  <2>1. owner.step = "grace" /\ owner'.step = "grace"
    BY <1>0, <1>13 DEF GraceEnds, OwnerStates, At
  <2> QED
    BY <1>d, <2>1 DEF Dead, Elsewhere
<1>14. CASE ForceAll
  <2> DEFINE o == GoOn(N, "grace")
  <2>1. /\ o \in OwnerStates /\ o.rounds = 1 /\ owner.step = "force"
        /\ o.step = "force" \/ o.step = "grace"
    BY <1>0, <1>14, <1>c, GoesOn DEF ForceAll, StateInv, OwnerInv, At
  <2>2. owner' = NewRound(o)
    BY <1>14 DEF ForceAll
  <2> HIDE DEF o
  <2>3. owner'.step \in {"force", "grace"}
    BY <2>1, <2>2, Rounds
  <2> QED
    BY <1>d, <2>1, <2>3 DEF Dead, Elsewhere
<1>15. CASE HaltLoop
  <2>1. /\ owner.step = "halt"
        /\ Went(owner.step, owner.at + 1) \/ (owner.at >= N /\ Went("join", 1))
    BY <1>15, <1>b, <1>c DEF HaltLoop, At
  <2> QED
    BY <1>15, <2>1, Zenon DEF OwnerWay
<1>16. CASE Join \/ CloseScheduler \/ DestroyRoots \/ DestroyReactor
  <2>1. PICK x \in {"stopped", "roots", "destroy", "gone"} :
            owner.step \in {"join", "close", "roots", "destroy"} /\ owner' = GoOn(N, x)
    BY <1>16 DEF Join, CloseScheduler, DestroyRoots, DestroyReactor, At
  <2>2. Went(owner.step, owner.at + 1) \/ Went(x, 1)
    BY <1>b, <1>c, <2>1
  <2> QED
    BY <1>e, <2>1, <2>2, Zenon DEF Went, Dead
<1>17. CASE BeginClose
  BY <1>17, <1>a, <1>e DEF BeginClose, At, Went, Dead
<1> QED
  BY <1>1, <1>2, <1>3, <1>4, <1>5, <1>6, <1>7, <1>8, <1>9, <1>10, <1>11, <1>12, <1>13, <1>14,
     <1>15, <1>16, <1>17, OwnerCases, Zenon

LEMMA NextLoop == StateInv /\ LoopInv /\ [Next]_vars => LoopInv'
<1> SUFFICES ASSUME StateInv, LoopInv, [Next]_vars PROVE LoopInv'
  OBVIOUS
<1>0. /\ owner.at \in Nat /\ N \in Nat /\ \A r \in Reactors : r \in Nat /\ r <= N
      /\ Owners \subseteq Reactors
  BY Numbers, Types, SMTT(30) DEF StateInv, OwnerInv, OwnerStates, Reactors
<1> DEFINE Ended == {"halt", "join"} \cup Dead
           Bound == {"spawn", "first", "listen", "serving"}
<1>1. owner.step \in Ended => owner'.step \in Ended
  BY OwnerGoes, ZenonT(30) DEF OwnerWay, Went, Dead, Elsewhere
<1>2. \A r \in Reactors :
          /\ reactor'[r].thread = "out" => reactor'[r].stopped
          /\ reactor'[r].stopped => r \in StoppableByHost \/ owner'.step \in Ended
  <2>1. HaltLoop => owner.step \in Ended
    BY Zenon DEF HaltLoop, At
  <2> HIDE DEF Ended
  <2> QED
    BY <1>1, <2>1, ReactorMoves, Zenon DEF LoopInv, Ended
<1>3. \A r \in Owners : control'[r].task # "none" => reactor'[r].thread # "off"
  BY <1>0, ReactorMoves, ControlMoves, Zenon DEF LoopInv
<1>4. /\ owner'.step = "threads" => \A r \in Reactors : r < owner'.at => reactor'[r].thread # "off"
      /\ owner'.step \in Bound => \A r \in Reactors : reactor'[r].thread # "off"
  <2>1. StartThread => reactor'[owner.at].thread = "run"
    BY Types, SMTT(30) DEF StartThread, StateInv, OwnerInv, OwnerStates, ReactorStates
  <2>2. \/ Went(owner.step, owner.at)
        \/ Went("threads", 1)
        \/ /\ StartThread /\ owner.step = "threads"
           /\ Went("threads", owner.at + 1) \/ (owner.at >= N /\ Went("spawn", 1))
        \/ owner.step \in Bound
        \/ owner'.step \notin {"threads"} \cup Bound
    BY OwnerGoes, ZenonT(30) DEF OwnerWay, Went, Dead, Elsewhere
  <2>3. \A r \in Reactors : reactor[r].thread # "off" => reactor'[r].thread # "off"
    BY ReactorMoves, Zenon
  <2>4. owner.step \in Bound => \A r \in Reactors : reactor'[r].thread # "off"
    BY <2>3 DEF LoopInv
  <2>5. CASE Went(owner.step, owner.at)
    BY <2>3, <2>5 DEF Went, LoopInv
  <2>6. CASE Went("threads", 1)
    BY <1>0, <2>6, Numbers DEF Went, Reactors
  <2>7. CASE /\ StartThread /\ owner.step = "threads"
             /\ Went("threads", owner.at + 1) \/ (owner.at >= N /\ Went("spawn", 1))
    <3>1. \A r \in Reactors : r < owner.at + 1 => reactor'[r].thread # "off"
      BY <1>0, <2>1, <2>3, <2>7, SMTT(30) DEF LoopInv
    <3> QED
      BY <1>0, <2>7, <3>1, SMTT(30) DEF Went
  <2>8. CASE owner.step \in Bound
    <3>1. owner'.step # "threads"
      BY <2>8, OwnerGoes, ZenonT(30) DEF OwnerWay, Went, Dead, Elsewhere
    <3> QED
      BY <2>4, <2>8, <3>1, Zenon
  <2> QED
    BY <2>2, <2>5, <2>6, <2>7, <2>8, Zenon
<1>5. /\ owner'.step = "halt" => \A r \in Reactors : r < owner'.at => reactor'[r].stopped
      /\ owner'.step \in {"join"} \cup Dead => \A r \in Reactors : reactor'[r].stopped
  <2>1. HaltLoop => reactor'[owner.at].stopped
    BY Types, SMTT(30) DEF HaltLoop, StateInv, OwnerInv, OwnerStates, ReactorStates
  <2>2. \/ Went(owner.step, owner.at)
        \/ Went("halt", 1)
        \/ /\ HaltLoop /\ owner.step = "halt"
           /\ Went("halt", owner.at + 1) \/ (owner.at >= N /\ Went("join", 1))
        \/ owner.step \in {"join"} \cup Dead /\ owner'.step \in {"join"} \cup Dead
        \/ owner'.step \notin {"halt", "join"} \cup Dead
    BY OwnerGoes, ZenonT(30) DEF OwnerWay, Went, Dead, Elsewhere
  <2>3. \A r \in Reactors : reactor[r].stopped => reactor'[r].stopped
    BY ReactorMoves
  <2>4. CASE Went(owner.step, owner.at)
    BY <2>3, <2>4 DEF Went, LoopInv
  <2>5. CASE Went("halt", 1)
    BY <1>0, <2>5, Numbers DEF Went, Reactors, Dead
  <2>6. CASE /\ HaltLoop /\ owner.step = "halt"
             /\ Went("halt", owner.at + 1) \/ (owner.at >= N /\ Went("join", 1))
    <3>1. \A r \in Reactors : r < owner.at + 1 => reactor'[r].stopped
      BY <1>0, <2>1, <2>3, <2>6, SMTT(30) DEF LoopInv
    <3> QED
      BY <1>0, <2>6, <3>1, SMTT(30) DEF Went, Dead
  <2>7. CASE owner.step \in {"join"} \cup Dead /\ owner'.step \in {"join"} \cup Dead
    BY <2>3, <2>7 DEF LoopInv, Dead
  <2> QED
    BY <2>2, <2>4, <2>5, <2>6, <2>7, Zenon
<1> QED
  BY <1>2, <1>3, <1>4, <1>5, Zenon DEF LoopInv

LEMMA NextReady == StateInv /\ ReadyInv /\ [Next]_vars => ReadyInv'
<1> SUFFICES ASSUME StateInv, ReadyInv, [Next]_vars PROVE ReadyInv'
  OBVIOUS
<1>0. /\ owner.at \in Nat /\ N \in Nat /\ LastOwner \in Nat /\ 1 \in Owners
      /\ \A r \in Owners : r \in Nat /\ 1 <= r /\ r <= LastOwner
      /\ N = 1 => LastOwner = 1
  BY Numbers, Types DEF StateInv, OwnerInv, OwnerStates, Reactors, Owners
<1>1. \A r \in Owners : control'[r].ready \/ control'[r].task \in Unbound
  BY ControlMoves, Zenon DEF ReadyInv
<1>2. \A r \in Owners : /\ control[r].task # "none" => control'[r].task # "none"
                        /\ control[r].ready => control'[r].ready
  BY ControlMoves, Zenon
<1>3. SpawnAccept => control'[owner.at].task # "none"
  BY Types, Zenon DEF SpawnAccept, At, StateInv, OwnerInv, ControlStates
<1>4. \/ Went(owner.step, owner.at)
      \/ Went("spawn", 1)
      \/ /\ SpawnAccept /\ owner.step = "spawn"
         /\ \/ owner.at = 1 /\ Went("first", 1)
            \/ Went("spawn", owner.at + 1)
            \/ owner.at >= LastOwner /\ Went("listen", 1)
      \/ /\ owner.step = "first"
         /\ (N = 1 /\ Went("listen", 1)) \/ Went("spawn", 2)
      \/ /\ owner.step = "listen" /\ control[owner.at].ready
         /\ \/ Went("listen", owner.at + 1)
            \/ owner.at >= LastOwner /\ Went("serving", 1)
      \/ owner'.step \notin {"spawn", "first", "listen", "serving"}
  BY OwnerGoes, ZenonT(30) DEF OwnerWay, Went, Dead, Elsewhere
<1> DEFINE Goal ==
        /\ owner'.step = "spawn" => \A r \in Owners : r < owner'.at => control'[r].task # "none"
        /\ owner'.step = "first" => owner'.at = 1 /\ control'[1].task # "none"
        /\ owner'.step = "listen" => \A r \in Owners : control'[r].task # "none"
        /\ owner'.step = "listen" => \A r \in Owners : r < owner'.at => control'[r].ready
        /\ owner'.step = "serving" => \A r \in Owners : control'[r].ready
<1>5. Goal
  <2>1. CASE Went(owner.step, owner.at)
    BY <1>0, <1>2, <2>1, Zenon DEF Went, ReadyInv
  <2>2. CASE Went("spawn", 1)
    BY <1>0, <2>2, SMTT(30) DEF Went
  <2>3. CASE /\ SpawnAccept /\ owner.step = "spawn"
             /\ \/ owner.at = 1 /\ Went("first", 1)
                \/ Went("spawn", owner.at + 1)
                \/ owner.at >= LastOwner /\ Went("listen", 1)
    <3>1. \A r \in Owners : r < owner.at + 1 => control'[r].task # "none"
      BY <1>0, <1>2, <1>3, <2>3, SMTT(30) DEF ReadyInv
    <3> QED
      BY <1>0, <2>3, <3>1, SMTT(30) DEF Went
  <2>4. CASE /\ owner.step = "first"
             /\ (N = 1 /\ Went("listen", 1)) \/ Went("spawn", 2)
    <3>1. control'[1].task # "none"
      BY <1>0, <1>2, <2>4, Zenon DEF ReadyInv
    <3> QED
      BY <1>0, <2>4, <3>1, SMTT(30) DEF Went
  <2>5. CASE /\ owner.step = "listen" /\ control[owner.at].ready
             /\ \/ Went("listen", owner.at + 1)
                \/ owner.at >= LastOwner /\ Went("serving", 1)
    <3>1. \A r \in Owners : r < owner.at + 1 => control'[r].ready
      BY <1>0, <1>2, <2>5, SMTT(30) DEF ReadyInv
    <3>2. \A r \in Owners : control'[r].task # "none"
      BY <1>2, <2>5 DEF ReadyInv
    <3> QED
      BY <1>0, <2>5, <3>1, <3>2, SMTT(30) DEF Went
  <2> QED
    BY <1>4, <2>1, <2>2, <2>3, <2>4, <2>5, Zenon
<1> QED
  BY <1>1, <1>5, Zenon DEF ReadyInv

LEMMA NextTold == StateInv /\ ToldInv /\ [Next]_vars => ToldInv'
<1> SUFFICES ASSUME StateInv, ToldInv, [Next]_vars PROVE ToldInv'
  OBVIOUS
<1>0. /\ owner.at \in Nat /\ LastOwner \in Nat
      /\ \A r \in Owners : r \in Nat /\ 1 <= r /\ r <= LastOwner
      /\ owner.step \in {"signal", "post"} => owner.at \in Owners
  BY Numbers, Types DEF StateInv, OwnerInv, OwnerStates, Reactors, Owners
<1>1. owner.step \in {"signal", "post", "reap"} =>
          \A r \in Owners : /\ Told(r) => Told(r)'
                            /\ control[r].stopping => control'[r].stopping
                            /\ control[r].task = "none" => control'[r].task = "none"
  <2>1. owner.step \in {"signal", "post", "reap"} => owner.step # "spawn" /\ owner.step # "catch"
    OBVIOUS
  <2> QED
    BY <2>1, ControlMoves, Zenon DEF Told
<1>2. SignalAccept /\ control[owner.at].task # "none" => control'[owner.at].stopping
  BY Types DEF SignalAccept, At, StateInv, OwnerInv, ControlStates
<1>3. PostClose => control'[owner.at].closing
  BY Types, Zenon DEF PostClose, At, StateInv, OwnerInv, ControlStates
<1>4. \/ Went(owner.step, owner.at)
      \/ Went("signal", 1)
      \/ /\ SignalAccept /\ owner.step = "signal"
         /\ \/ control[owner.at].task # "none" /\ Went("post", owner.at)
            \/ control[owner.at].task = "none" /\ Went("signal", owner.at + 1)
            \/ /\ control[owner.at].task = "none"
               /\ owner.at >= LastOwner /\ Went("reap", 1)
      \/ /\ PostClose /\ owner.step = "post"
         /\ \/ Went("signal", owner.at + 1)
            \/ owner.at >= LastOwner /\ Went("reap", 1)
      \/ owner.step = "reap" /\ Went("reap", owner.at + 1)
      \/ owner'.step \notin {"signal", "post", "reap"}
  BY OwnerGoes, ZenonT(30) DEF OwnerWay, Went, Dead, Elsewhere
<1> DEFINE Goal ==
        /\ owner'.step \in {"signal", "post"} => \A r \in Owners : r < owner'.at => Told(r)'
        /\ owner'.step = "post" => control'[owner'.at].stopping
        /\ owner'.step = "reap" => \A r \in Owners : Told(r)'
<1>5. Goal
  <2>1. CASE Went(owner.step, owner.at)
    BY <1>0, <1>1, <2>1 DEF Went, ToldInv
  <2>2. CASE Went("signal", 1)
    BY <1>0, <2>2 DEF Went
  <2>3. CASE /\ SignalAccept /\ owner.step = "signal"
             /\ control[owner.at].task # "none" /\ Went("post", owner.at)
    BY <1>0, <1>1, <1>2, <2>3, Zenon DEF Went, ToldInv
  <2>4. CASE /\ owner.step = "signal" /\ control[owner.at].task = "none"
             /\ Went("signal", owner.at + 1) \/ (owner.at >= LastOwner /\ Went("reap", 1))
    <3>1. \A r \in Owners : r < owner.at + 1 => Told(r)'
      <4>1. \A r \in Owners : r = owner.at => Told(r)'
        BY <1>1, <2>4 DEF Told
      <4> QED
        BY <1>0, <1>1, <2>4, <4>1, SMTT(30) DEF ToldInv
    <3> QED
      BY <1>0, <2>4, <3>1, SMTT(30) DEF Went
  <2>5. CASE /\ PostClose /\ owner.step = "post"
             /\ Went("signal", owner.at + 1) \/ (owner.at >= LastOwner /\ Went("reap", 1))
    <3>1. \A r \in Owners : r < owner.at + 1 => Told(r)'
      <4>1. \A r \in Owners : r = owner.at => Told(r)'
        BY <1>1, <1>3, <2>5, Zenon DEF Told, ToldInv
      <4> QED
        BY <1>0, <1>1, <2>5, <4>1, SMTT(30) DEF ToldInv
    <3> QED
      BY <1>0, <2>5, <3>1 DEF Went
  <2>6. CASE owner.step = "reap" /\ Went("reap", owner.at + 1)
    BY <1>1, <2>6 DEF Went, ToldInv
  <2> QED
    BY <1>4, <2>1, <2>2, <2>3, <2>4, <2>5, <2>6, Zenon
<1> QED
  BY <1>5, Zenon DEF ToldInv

(* The destination is chosen at the head of the accept loop, and stays     *)
(* until the connection is launched.                                       *)
LEMMA TargetMoves ==
    ASSUME StateInv, [Next]_vars
    PROVE  \A r \in Owners :
               /\ ~Shared /\ control[r].target = r => control'[r].target = r
               /\ control'[r].task = "launching" =>
                      /\ control'[r].target = control[r].target
                      /\ control[r].task = "launching" \/ \E c \in Conns : AcceptConnection(r, c)
<1>1. /\ control \in [Owners -> ControlStates]
      /\ \A r \in Owners : control[r] \in ControlStates
  BY Types DEF StateInv
<1>2. CASE control' = control
  BY <1>2
<1>3. ASSUME NEW r \in Owners, NEW t, GoesTo(r, t)
      PROVE  \A q \in Owners : /\ control'[q].target = control[q].target
                               /\ control'[q].task = IF q = r THEN t ELSE control[q].task
  BY <1>1, <1>3 DEF GoesTo, ControlStates
<1>4. CASE \E r \in Owners : AcceptStep(r)
  <2>1. PICK r \in Owners : AcceptStep(r)
    BY <1>4
  <2>2. ASSUME NEW t \in {"top", "retrying", "finished"}, GoesTo(r, t)
        PROVE  \A q \in Owners : /\ control'[q].target = control[q].target
                                 /\ control'[q].task = "launching" => control[q].task = "launching"
    BY <1>3, <2>2, Zenon
  <2>3. CASE AcceptFails(r) \/ RetryEnds(r) \/ \E c \in Conns : Enter(r, c) \/ Launch(r, c)
    <3>1. control' = control \/ \E t \in {"top", "retrying", "finished"} : GoesTo(r, t)
      BY <2>3 DEF AcceptFails, RetryEnds, Enter, Launch
    <3> QED
      BY <1>2, <2>2, <3>1
  <2>4. CASE BeginAccept(r) \/ CloseAcceptor(r)
    <3>1. \/ GoesTo(r, "finished")
          \/ control' = [control EXCEPT ![r].task = "top", ![r].ready = TRUE]
          \/ control' = [control EXCEPT ![r].closing = FALSE, ![r].closed = TRUE]
      BY <2>4, Zenon DEF BeginAccept, CloseAcceptor
    <3> QED
      BY <1>1, <2>2, <3>1 DEF ControlStates
  <2>5. CASE AcceptNext(r)
    <3>1. CASE GoesTo(r, "finished")
      BY <2>2, <3>1
    <3>2. CASE control' = [control EXCEPT ![r].task = "accepting",
                                          ![r].target = IF Shared THEN next ELSE r]
      BY <1>1, <3>2 DEF ControlStates
    <3> QED
      BY <2>5, <3>1, <3>2, Zenon DEF AcceptNext
  <2>6. ASSUME NEW c \in Conns, AcceptConnection(r, c)
        PROVE  \A q \in Owners :
                   /\ control'[q].target = control[q].target
                   /\ control'[q].task = "launching" => control[q].task = "launching" \/ q = r
    <3>1. GoesTo(r, "finished") \/ GoesTo(r, "launching")
      BY <2>6, Zenon DEF AcceptConnection
    <3> QED
      BY <1>3, <2>2, <3>1
  <2>7. CASE \E c \in Conns : AcceptConnection(r, c)
    BY <2>6, <2>7
  <2> QED
    BY <2>1, <2>3, <2>4, <2>5, <2>7, Zenon DEF AcceptStep
<1>5. CASE SpawnAccept \/ SpawnFails \/ CatchStart \/ SignalAccept \/ PostClose
  <2>1. owner.at \in Owners
    BY <1>5 DEF SpawnAccept, SpawnFails, CatchStart, SignalAccept, PostClose, At, StateInv, OwnerInv
  <2>2. \/ control' = control
        \/ \E t \in {"spawned", "finished"} : GoesTo(owner.at, t)
        \/ control' = [control EXCEPT ![owner.at].stopping = control[owner.at].task # "none"]
        \/ control' = [control EXCEPT ![owner.at].stopping = TRUE]
        \/ control' = [control EXCEPT ![owner.at].closing = TRUE]
    BY <1>5, Zenon DEF SpawnAccept, SpawnFails, CatchStart, SignalAccept, PostClose, GoesTo
  <2> QED
    BY <1>1, <1>2, <1>3, <2>1, <2>2, SMTT(30) DEF ControlStates
<1> QED
  BY <1>2, <1>4, <1>5, ControlCases, Zenon

(* The connection leaves the accept loop's hands: refused, or launched.    *)
Leaves(r, c) == (Enter(r, c) \/ Launch(r, c)) /\ ~InHand(c)'

LEMMA LeavesHand ==
    ASSUME StateInv, NEW r \in Owners, NEW c \in Conns, Leaves(r, c)
    PROVE  /\ InHand(c) /\ Home(c) = control[r].target
           /\ control'[r].task # "launching"
<1>1. control \in [Owners -> ControlStates] /\ conn \in [Conns -> ConnStates]
  BY Types DEF StateInv
<1>2. InHand(c) /\ Home(c) = control[r].target
  BY Zenon DEF Leaves, Enter, Launch, Launching, InHand
<1>3. ~Becomes(c, "entered")
  <2> SUFFICES ASSUME Becomes(c, "entered") PROVE FALSE
    OBVIOUS
  <2>1. conn'[c].state = "entered"
    BY <1>1, ConnBecomes DEF Ticketed
  <2> QED
    BY <2>1 DEF Leaves, InHand, In
<1>4. \E t \in {"top", "finished", "retrying"} : GoesTo(r, t)
  BY <1>3, Zenon DEF Leaves, Enter, Launch
<1> QED
  BY <1>1, <1>2, <1>4, TaskGoes, Zenon DEF Tasks

(* A connection comes into the accept loop's hands by an accept, stays on  *)
(* its reactor, and leaves them by Leaves.                                 *)
LEMMA HandMoves ==
    ASSUME StateInv, [Next]_vars, NEW c \in Conns
    PROVE  /\ InHand(c)' /\ InHand(c) => Home(c)' = Home(c)
           /\ InHand(c)' /\ ~InHand(c) => \E r \in Owners : AcceptConnection(r, c)
           /\ ~InHand(c)' /\ InHand(c) => \E r \in Owners : Leaves(r, c)
<1>1. conn \in [Conns -> ConnStates] /\ conn[c] \in ConnStates
  BY Types DEF StateInv
<1> DEFINE Stays == Home(c)' = Home(c) /\ (InHand(c)' <=> InHand(c))
<1>2. ASSUME conn'[c] = conn[c] PROVE Stays
  BY <1>2 DEF InHand, In, Home
<1>3. ASSUME NEW d \in Conns, SessionStep(d) PROVE Stays
  <2>1. CASE d # c
    <3>1. conn'[c] = conn[c]
      BY <1>1, <1>3, <2>1, Zenon DEF SessionStep, HandOff, StartSession, MoveSession, EndSession
    <3> QED
      BY <1>2, <3>1
  <2>2. CASE d = c
    <3>1. conn[c].state \in {"handoff", "spawned", "running"}
      BY <1>3, <2>2 DEF SessionStep, HandOff, StartSession, MoveSession, EndSession, In
    <3>2. /\ conn'[c].state \in {"spawned", "dropped", "ended", "running"}
          /\ conn'[c].home = conn[c].home
      <4>1. CASE HandOff(c)
        BY <1>1, <4>1 DEF HandOff, ConnStates
      <4>2. CASE StartSession(c)
        BY <1>1, <4>2 DEF StartSession, ConnStates
      <4>3. CASE MoveSession(c)
        BY <1>1, <4>3 DEF MoveSession, In, ConnStates
      <4>4. CASE EndSession(c)
        BY <1>1, <4>4 DEF EndSession, ConnStates
      <4> QED
        BY <1>3, <2>2, <4>1, <4>2, <4>3, <4>4, Zenon DEF SessionStep
    <3> QED
      BY <3>1, <3>2 DEF InHand, In, Home
  <2> QED
    BY <2>1, <2>2, Zenon
<1>4. ASSUME NEW r \in Owners, AcceptStep(r)
      PROVE  Stays \/ AcceptConnection(r, c) \/ Leaves(r, c)
                   \/ (InHand(c) /\ InHand(c)' /\ Home(c)' = Home(c))
  <2>1. ASSUME NEW d \in Conns, AcceptConnection(r, d), d # c PROVE conn'[c] = conn[c]
    BY <1>1, <2>1 DEF AcceptConnection
  <2>2. ASSUME NEW d \in Conns, Enter(r, d) \/ Launch(r, d), d # c PROVE conn'[c] = conn[c]
    BY <1>1, <2>2, Zenon DEF Enter, Launch, Becomes
  <2>3. ASSUME Enter(r, c) \/ Launch(r, c) PROVE InHand(c) /\ Home(c)' = Home(c)
    <3>1. InHand(c)
      BY <2>3 DEF Enter, Launch, Launching, InHand
    <3>2. \E s \in {"refused", "entered", "spawned", "handoff", "dropped"} : Becomes(c, s)
      BY <2>3 DEF Enter, Launch
    <3>3. conn'[c].home = conn[c].home
      BY <1>1, <3>2, ConnBecomes, Zenon DEF Ticketed
    <3> QED
      BY <3>1, <3>3 DEF Home
  <2>4. CASE conn' = conn
    BY <1>2, <2>4
  <2> QED
    BY <1>2, <1>4, <2>1, <2>2, <2>3, <2>4, Zenon
       DEF AcceptStep, BeginAccept, AcceptNext, AcceptFails, RetryEnds, CloseAcceptor, Leaves
<1>5. ASSUME AbortAll \/ ForceAll PROVE Stays
  BY <1>1, <1>5 DEF AbortAll, ForceAll, ConnStates, InHand, In, Home
<1>6. ASSUME CloseScheduler \/ DestroyRoots \/ DestroyReactor PROVE Stays
  BY <1>1, <1>6 DEF CloseScheduler, DestroyRoots, DestroyReactor, Destroy, ConnStates, InHand, In, Home
<1>7. ASSUME \/ Start \/ Stop \/ ThreadFails \/ WaitListening \/ ReapAccept \/ WaitSessions
             \/ GraceEnds \/ Join \/ BeginClose \/ Gone \/ StartThread \/ HaltLoop
             \/ SpawnAccept \/ SpawnFails \/ CatchStart \/ SignalAccept \/ PostClose \/ UNCHANGED vars
             \/ \E r \in Reactors : HostStops(r) \/ LeaveRun(r)
      PROVE  Stays
  <2>1. conn' = conn
    BY <1>7, Zenon
       DEF Start, Stop, ThreadFails, WaitListening, ReapAccept, WaitSessions, GraceEnds,
           Join, BeginClose, Gone, OwnerOnly, vars, SpawnAccept, SpawnFails, CatchStart,
           SignalAccept, PostClose, StartThread, HaltLoop, HostStops, LeaveRun
  <2> QED
    BY <1>2, <2>1
<1> HIDE DEF Stays
<1>8. Stays \/ \E r \in Owners : AcceptStep(r)
  BY <1>3, <1>5, <1>6, <1>7, ZenonT(40) DEF Next, OwnerStep
<1>9. CASE Stays
  BY <1>9, Zenon DEF Stays
<1>10. CASE \E r \in Owners : AcceptStep(r)
  <2>1. PICK r \in Owners : AcceptStep(r)
    BY <1>10
  <2>2. AcceptConnection(r, c) => ~InHand(c)
    BY DEF AcceptConnection, InHand, In
  <2>3. Leaves(r, c) => InHand(c) /\ ~InHand(c)'
    BY LeavesHand, Zenon DEF Leaves
  <2> QED
    BY <1>4, <1>9, <2>1, <2>2, <2>3, Zenon
<1> QED
  BY <1>8, <1>9, <1>10, Zenon

LEMMA NextLaunch == StateInv /\ LaunchInv /\ [Next]_vars => LaunchInv'
<1> SUFFICES ASSUME StateInv, LaunchInv, [Next]_vars PROVE LaunchInv'
  OBVIOUS
<1>1. ~Shared => \A r \in Owners : control'[r].target = r
  BY TargetMoves, Zenon DEF LaunchInv
<1>2. ASSUME NEW r \in Owners, control'[r].task = "launching"
      PROVE  \E c \in Conns : InHand(c)' /\ Home(c)' = control'[r].target
  <2>1. /\ control'[r].target = control[r].target
        /\ control[r].task = "launching" \/ \E c \in Conns : AcceptConnection(r, c)
    BY <1>2, TargetMoves, Zenon
  <2>2. ASSUME NEW c \in Conns, AcceptConnection(r, c)
        PROVE  InHand(c)' /\ Home(c)' = control[r].target
    <3>1. conn' = [conn EXCEPT ![c].state = "accepted", ![c].home = control[r].target]
      <4>1. control'[r].task = "finished" \/
                conn' = [conn EXCEPT ![c].state = "accepted", ![c].home = control[r].target]
        BY <2>2, Types DEF AcceptConnection, GoesTo, StateInv, ControlStates
      <4> QED
        BY <1>2, <4>1
    <3> QED
      BY <3>1, Types DEF InHand, In, Home, StateInv, ConnStates
  <2>3. CASE control[r].task = "launching"
    <3>1. PICK c \in Conns : InHand(c) /\ Home(c) = control[r].target
      BY <2>3, Zenon DEF LaunchInv
    <3>2. ASSUME NEW q \in Owners, Leaves(q, c) PROVE FALSE
      <4>1. Home(c) = control[q].target /\ control'[q].task # "launching"
        BY <3>2, LeavesHand
      <4>2. q # r
        BY <1>2, <4>1
      <4>3. ~Shared
        BY <4>2, Numbers DEF Owners, LastOwner
      <4> QED
        BY <3>1, <4>1, <4>2, <4>3, Zenon DEF LaunchInv
    <3>3. InHand(c)' /\ Home(c)' = Home(c)
      BY <3>1, <3>2, HandMoves, Zenon
    <3> QED
      BY <2>1, <3>1, <3>3, Zenon
  <2> QED
    BY <2>1, <2>2, <2>3, Zenon
<1> QED
  BY <1>1, <1>2, Zenon DEF LaunchInv

(* What makes every wait of the owner end, or start() return listening.    *)
WaitInv == LoopInv /\ ReadyInv /\ ToldInv /\ LaunchInv

LEMMA WaitHolds == Spec => [](StateInv /\ ReapInv /\ WaitInv)
<1>1. Init => WaitInv
  <2> SUFFICES ASSUME Init PROVE WaitInv
    OBVIOUS
  <2>1. /\ owner.step = "new"
        /\ \A r \in Reactors : reactor[r].thread = "off" /\ ~reactor[r].stopped
        /\ \A r \in Owners : control[r].task = "none" /\ control[r].target = r
    BY DEF Init
  <2> QED
    BY <2>1, Zenon DEF WaitInv, LoopInv, ReadyInv, ToldInv, LaunchInv, Unbound, Dead
<1>2. StateInv /\ WaitInv /\ [Next]_vars => WaitInv'
  BY NextLoop, NextReady, NextTold, NextLaunch, Zenon DEF WaitInv
<1> QED
  BY <1>1, <1>2, StateHolds, ReapHolds, PTL DEF Spec

(* A start() that returns has left every listener ready.                   *)
THEOREM StartReturnsListening == Spec => []Listening
<1>1. WaitInv => Listening
  BY Zenon DEF WaitInv, ReadyInv, Listening, At
<1> QED
  BY <1>1, WaitHolds, PTL

(* Every wait of the owner, in start() and in stop(), is for something a   *)
(* thread that runs will do; a handler that has accepted has a connection  *)
(* to launch.                                                              *)
THEOREM OwnerNeverStuck == Spec => []WaitsEnd
<1>1. StateInv /\ ReapInv /\ WaitInv => WaitsEnd
  <2> SUFFICES ASSUME StateInv, ReapInv, WaitInv PROVE WaitsEnd
    OBVIOUS
  <2>1. \A r \in Owners : Busy(r) => \E c \in Conns : InHand(c) /\ Home(c) = control[r].target
    BY Zenon DEF WaitInv, LaunchInv, Busy
  <2>2. \A r \in Owners \ StoppableByHost :
            control[r].task # "none" /\ owner.step \notin {"halt", "join"} \cup Dead => Runs(r)
    <3> TAKE r \in Owners \ StoppableByHost
    <3> HAVE control[r].task # "none" /\ owner.step \notin {"halt", "join"} \cup Dead
    <3>1. r \in Reactors /\ reactor[r].thread \in {"off", "run", "out"}
      BY Numbers, Types DEF StateInv, ReactorStates
    <3>2. ~reactor[r].stopped /\ reactor[r].thread # "off" /\ reactor[r].thread # "out"
      BY <3>1, Zenon DEF WaitInv, LoopInv
    <3> QED
      BY <3>1, <3>2 DEF Runs
  <2>3. (At("first") \/ At("listen")) /\ owner.at \notin StoppableByHost =>
            \/ control[owner.at].ready \/ control[owner.at].task = "finished"
            \/ control[owner.at].task = "spawned" /\ Runs(owner.at)
    <3> HAVE (At("first") \/ At("listen")) /\ owner.at \notin StoppableByHost
    <3>1. owner.at \in Owners /\ control[owner.at].task # "none"
      BY Zenon DEF At, StateInv, OwnerInv, WaitInv, ReadyInv
    <3>2. Runs(owner.at)
      BY <2>2, <3>1 DEF At, Dead
    <3>3. control[owner.at].ready \/ control[owner.at].task \in Unbound
      BY <3>1, Zenon DEF WaitInv, ReadyInv
    <3> QED
      BY <3>1, <3>2, <3>3, Zenon DEF Unbound
  <2>4. At("reap") => \A r \in Owners \ StoppableByHost :
            control[r].task \in {"none", "finished"} \/
                (Runs(r) /\ control[r].stopping /\ (control[r].closing \/ control[r].closed))
    <3> HAVE At("reap")
    <3> TAKE r \in Owners \ StoppableByHost
    <3>1. CASE control[r].task # "none"
      <4>1. Runs(r)
        BY <2>2, <3>1 DEF At, Dead
      <4>2. control[r].stopping /\ (control[r].closing \/ control[r].closed)
        BY <3>1, Zenon DEF WaitInv, ToldInv, Told, At
      <4> QED
        BY <4>1, <4>2
    <3> QED
      BY <3>1
  <2>5. At("join") => \A r \in Reactors : reactor[r].stopped /\ ~Busy(r)
    <3>1. At("join") => \A r \in Reactors : reactor[r].stopped
      BY DEF At, WaitInv, LoopInv
    <3>2. At("join") => \A r \in Owners : control[r].task \in Resting
      BY DEF At, ReapInv, AfterReap
    <3> QED
      BY <3>1, <3>2, Zenon DEF Busy, Resting
  <2> QED
    BY <2>1, <2>3, <2>4, <2>5, Zenon DEF WaitsEnd
<1> QED
  BY <1>1, WaitHolds, PTL

-----------------------------------------------------------------------------
(* Nothing is in an accept loop's hands once the accepts are reaped.       *)

(* The accepts that are still to be spawned.                               *)
FreshInv ==
    /\ owner.step \in {"new", "threads"} => \A r \in Owners : control[r].task = "none"
    /\ owner.step = "spawn" => \A r \in Owners : r >= owner.at => control[r].task = "none"
    /\ owner.step = "first" => \A r \in Owners : r >= 2 => control[r].task = "none"

LEMMA NextFresh == StateInv /\ FreshInv /\ [Next]_vars => FreshInv'
<1> SUFFICES ASSUME StateInv, FreshInv, [Next]_vars PROVE FreshInv'
  OBVIOUS
<1>0. /\ owner \in OwnerStates /\ owner.at \in Nat /\ LastOwner \in Nat
      /\ \A r \in Owners : r \in Nat /\ 1 <= r
      /\ control \in [Owners -> ControlStates]
      /\ owner.step = "spawn" => owner.at \in Owners
  BY Numbers, Types, SMTT(30) DEF StateInv, OwnerInv, OwnerStates, Reactors, Owners
<1>1. CASE SpawnAccept
  <2>1. owner.step = "spawn" /\ \A r \in Owners : r # owner.at => control'[r] = control[r]
    BY <1>0, <1>1, Zenon DEF SpawnAccept, At
  <2>2. \/ owner.at = 1 /\ Went("first", 1)
        \/ Went("spawn", owner.at + 1)
        \/ Went("listen", 1)
    <3>1. \/ owner.at = 1 /\ owner' = Moved("first", 1)
          \/ owner' = GoOn(LastOwner, "listen")
      BY <1>1 DEF SpawnAccept
    <3> QED
      BY <1>0, <2>1, <3>1, OwnerWent DEF OwnerSteps
  <2> QED
    BY <1>0, <2>1, <2>2 DEF FreshInv, Went
<1>2. CASE SpawnFails
  <2>1. Went("catch", 1)
    BY <1>0, <1>2, OwnerWent, Zenon DEF SpawnFails
  <2> QED
    BY <2>1 DEF FreshInv, Went
<1>3. CASE ~SpawnAccept /\ ~SpawnFails
  <2>1. \A r \in Owners : control[r].task = "none" => control'[r].task = "none"
    <3>1. CASE control' = control
      BY <3>1
    <3>2. ASSUME NEW q \in Owners, AcceptStep(q)
          PROVE  \A r \in Owners : control[r].task = "none" => control'[r].task = "none"
      <4>1. CASE CloseAcceptor(q)
        BY <1>0, <4>1, Zenon DEF CloseAcceptor, ControlStates
      <4>2. CASE ~CloseAcceptor(q)
        <5>1. control[q].task # "none"
          BY <3>2, <4>2, Zenon DEF AcceptStep, BeginAccept, AcceptNext, AcceptFails, RetryEnds,
                            AcceptConnection, Enter, Launch, Launching
        <5>2. \A r \in Owners : r # q => control'[r] = control[r]
          BY <1>0, <3>2, <4>2, ZenonT(40)
             DEF AcceptStep, BeginAccept, AcceptNext, AcceptFails, RetryEnds,
                 AcceptConnection, Enter, Launch, GoesTo
        <5> QED
          BY <5>1, <5>2
      <4> QED
        BY <4>1, <4>2
    <3>3. CASE CatchStart \/ SignalAccept \/ PostClose
      BY <1>0, <3>3, SMTT(30) DEF CatchStart, SignalAccept, PostClose, ControlStates
    <3> QED
      BY <1>3, <3>1, <3>2, <3>3, ControlCases, Zenon
  <2>2. \/ Went(owner.step, owner.at)
        \/ owner.step = "new" /\ Went("threads", 1)
        \/ owner.step = "threads" /\ (Went("threads", owner.at + 1) \/ Went("spawn", 1))
        \/ owner.step = "first" /\ Went("spawn", 2)
        \/ owner'.step \notin {"new", "threads", "spawn", "first"}
    <3>1. \A s, i : Went(s, i) => owner'.step = s
      BY Zenon DEF Went
    <3>2. \/ Went(owner.step, owner.at)
          \/ owner.step = "new" /\ Went("threads", 1)
          \/ owner.step = "threads" /\ (Went("threads", owner.at + 1) \/ Went("spawn", 1))
          \/ owner.step = "first" /\ Went("spawn", 2)
          \/ owner'.step \in {"listen", "serving", "signal", "post", "reap", "halt", "join"}
          \/ owner'.step \in {"join"} \cup Dead
          \/ owner'.step \in Elsewhere
      BY <1>3, <3>1, OwnerGoes, Zenon DEF OwnerWay
    <3> QED
      BY <3>2 DEF Dead, Elsewhere
  <2> QED
    BY <1>0, <2>1, <2>2 DEF FreshInv, Went
<1> QED
  BY <1>1, <1>2, <1>3, SMTT(30)

(* A handler that launches goes on until the connection leaves its hands.  *)
LEMMA LaunchingStays ==
    ASSUME StateInv, FreshInv, [Next]_vars, NEW r \in Owners, control[r].task = "launching"
    PROVE  \/ control'[r].task = "launching" /\ control'[r].target = control[r].target
           \/ \E c \in Conns : Leaves(r, c)
<1>0. control \in [Owners -> ControlStates] /\ conn \in [Conns -> ConnStates]
  BY Types DEF StateInv
<1>1. CASE control' = control
  BY <1>1
<1>2. ASSUME NEW q \in Owners, AcceptStep(q), control' # control, q # r PROVE control'[r] = control[r]
  BY <1>0, <1>2, ZenonT(40)
     DEF AcceptStep, BeginAccept, AcceptNext, AcceptFails, RetryEnds, CloseAcceptor,
         AcceptConnection, Enter, Launch, GoesTo
<1>3. ASSUME AcceptStep(r), control' # control
      PROVE  CloseAcceptor(r) \/ \E c \in Conns : Leaves(r, c)
  <2>1. CloseAcceptor(r) \/ \E c \in Conns : Enter(r, c) \/ Launch(r, c)
    BY <1>3, Zenon DEF AcceptStep, BeginAccept, AcceptNext, AcceptFails, RetryEnds, AcceptConnection
  <2>2. ASSUME NEW c \in Conns, Enter(r, c) \/ Launch(r, c) PROVE ~InHand(c)'
    <3>1. \E s \in {"refused", "spawned", "handoff", "dropped"} : Becomes(c, s)
      BY <1>3, <2>2 DEF Enter, Launch
    <3>2. conn'[c].state \in {"refused", "spawned", "handoff", "dropped"}
      BY <1>0, <3>1, ConnBecomes DEF Ticketed
    <3> QED
      BY <3>2 DEF InHand, In
  <2> QED
    BY <2>1, <2>2, Zenon DEF Leaves
<1>4. CASE CloseAcceptor(r)
  BY <1>0, <1>4 DEF CloseAcceptor, ControlStates
<1>5. CASE SpawnAccept \/ SpawnFails
  <2>1. owner.step = "spawn" /\ owner.at \in Owners /\ owner.at \in Nat
    BY <1>5, Types, Numbers DEF SpawnAccept, SpawnFails, At, StateInv, OwnerInv, OwnerStates, Reactors
  <2>2. r # owner.at
    BY <2>1 DEF FreshInv
  <2> QED
    BY <1>0, <1>5, <2>2 DEF SpawnAccept, SpawnFails, GoesTo
<1>6. CASE CatchStart \/ SignalAccept \/ PostClose
  BY <1>0, <1>6 DEF CatchStart, SignalAccept, PostClose, ControlStates
<1> QED
  BY <1>1, <1>2, <1>3, <1>4, <1>5, <1>6, ControlCases, SMTT(30)

(* The acceptor whose handler has the connection in its hands.             *)
Launcher(c) == IF Shared THEN 1 ELSE Home(c)

(* Every connection in hand is a launching handler's, and its only one.    *)
HandInv ==
    /\ \A c \in Conns : InHand(c) =>
        /\ Launcher(c) \in Owners
        /\ control[Launcher(c)].task = "launching" /\ control[Launcher(c)].target = Home(c)
    /\ \A c, d \in Conns : InHand(c) /\ InHand(d) /\ Launcher(c) = Launcher(d) => c = d

LEMMA NextHand == StateInv /\ FreshInv /\ LaunchInv /\ HandInv /\ [Next]_vars => HandInv'
<1> SUFFICES ASSUME StateInv, FreshInv, LaunchInv, HandInv, [Next]_vars PROVE HandInv'
  OBVIOUS
<1>0. control \in [Owners -> ControlStates] /\ conn \in [Conns -> ConnStates]
  BY Types DEF StateInv
<1>1. ASSUME NEW c \in Conns, InHand(c)', InHand(c)
      PROVE  /\ Launcher(c)' = Launcher(c) /\ Home(c)' = Home(c) /\ Launcher(c) \in Owners
             /\ control'[Launcher(c)].task = "launching"
             /\ control'[Launcher(c)].target = Home(c)
  <2>1. Home(c)' = Home(c)
    BY <1>1, HandMoves, Zenon
  <2>2. Launcher(c)' = Launcher(c)
    BY <2>1, Zenon DEF Launcher
  <2>3. /\ Launcher(c) \in Owners
        /\ control[Launcher(c)].task = "launching" /\ control[Launcher(c)].target = Home(c)
    BY <1>1, Zenon DEF HandInv
  <2>4. ASSUME NEW d \in Conns, Leaves(Launcher(c), d) PROVE FALSE
    <3>1. InHand(d) /\ Home(d) = Home(c) /\ ~InHand(d)'
      BY <2>3, <2>4, LeavesHand, Zenon DEF Leaves
    <3>2. Launcher(d) = Launcher(c)
      BY <3>1, Zenon DEF Launcher
    <3>3. d = c
      BY <1>1, <3>1, <3>2, Zenon DEF HandInv
    <3> QED
      BY <1>1, <3>1, <3>3
  <2>5. control'[Launcher(c)].task = "launching" /\ control'[Launcher(c)].target = Home(c)
    BY <2>3, <2>4, LaunchingStays, Zenon
  <2> QED
    BY <2>1, <2>2, <2>3, <2>5
<1>2. ASSUME NEW c \in Conns, InHand(c)', ~InHand(c)
      PROVE  /\ Launcher(c)' \in Owners
             /\ control[Launcher(c)'].task = "accepting"
             /\ control'[Launcher(c)'].task = "launching"
             /\ control'[Launcher(c)'].target = Home(c)'
             /\ \A d \in Conns : d # c => conn'[d] = conn[d]
  <2>1. PICK r \in Owners : AcceptConnection(r, c)
    BY <1>2, HandMoves, Zenon
  <2>2. /\ GoesTo(r, "launching") /\ control[r].task = "accepting"
        /\ conn' = [conn EXCEPT ![c].state = "accepted", ![c].home = control[r].target]
    <3>1. conn' # [conn EXCEPT ![c].state = "dropped"]
      BY <1>0, <1>2 DEF InHand, In, ConnStates
    <3> QED
      BY <2>1, <3>1 DEF AcceptConnection
  <2>3. Home(c)' = control[r].target /\ \A d \in Conns : d # c => conn'[d] = conn[d]
    BY <1>0, <2>2 DEF Home, ConnStates
  <2>4. Launcher(c)' = r
    <3>1. CASE Shared
      BY <3>1, Numbers DEF Launcher, Owners, LastOwner
    <3>2. CASE ~Shared
      BY <2>3, <3>2, Zenon DEF Launcher, LaunchInv
    <3> QED
      BY <3>1, <3>2
  <2>5. control'[r].task = "launching" /\ control'[r].target = control[r].target
    BY <1>0, <2>2 DEF GoesTo, ControlStates
  <2> QED
    BY <2>2, <2>3, <2>4, <2>5
<1>3. ASSUME NEW c \in Conns, InHand(c)'
      PROVE  /\ Launcher(c)' \in Owners
             /\ control'[Launcher(c)'].task = "launching"
             /\ control'[Launcher(c)'].target = Home(c)'
  <2>1. CASE InHand(c)
    BY <1>1, <1>3, <2>1, SMTT(30)
  <2>2. CASE ~InHand(c)
    BY <1>2, <1>3, <2>2
  <2> QED
    BY <2>1, <2>2, SMTT(30)
<1>4. ASSUME NEW c \in Conns, NEW d \in Conns, InHand(c)', InHand(d)', InHand(c),
             Launcher(c)' = Launcher(d)'
      PROVE  c = d
  <2>1. Launcher(c)' = Launcher(c) /\ control[Launcher(c)].task = "launching"
    BY <1>1, <1>4, Zenon DEF HandInv
  <2>2. CASE InHand(d)
    <3>1. Launcher(d)' = Launcher(d)
      BY <1>1, <1>4, <2>2, Zenon
    <3> QED
      BY <1>4, <2>1, <2>2, <3>1, Zenon DEF HandInv
  <2>3. CASE ~InHand(d)
    <3>1. control[Launcher(d)'].task = "accepting"
      BY <1>2, <1>4, <2>3, Zenon
    <3> QED
      BY <1>4, <2>1, <3>1
  <2> QED
    BY <2>2, <2>3
<1>5. ASSUME NEW c \in Conns, NEW d \in Conns, InHand(c)', InHand(d)', Launcher(c)' = Launcher(d)'
      PROVE  c = d
  <2>1. CASE InHand(c) \/ InHand(d)
    BY <1>4, <1>5, <2>1, Zenon
  <2>2. CASE ~InHand(c) /\ ~InHand(d)
    <3> SUFFICES ASSUME d # c PROVE FALSE
      BY SMTT(30)
    <3>1. conn'[d] = conn[d]
      BY <1>2, <1>5, <2>2, SMTT(30)
    <3> QED
      BY <1>5, <2>2, <3>1, SMTT(30) DEF InHand, In
  <2> QED
    BY <2>1, <2>2
<1> QED
  BY <1>3, <1>5, Zenon DEF HandInv

(* Once the accepts are reaped no connection is in their hands.            *)
LEMMA EmptyHands == Spec => [](owner.step \in AfterReap => \A c \in Conns : ~InHand(c))
<1>1. Init => FreshInv /\ HandInv
  <2> SUFFICES ASSUME Init PROVE FreshInv /\ HandInv
    BY SMTT(30)
  <2>1. /\ owner.step = "new" /\ \A r \in Owners : control[r].task = "none"
        /\ \A c \in Conns : ~InHand(c)
    BY DEF Init, InHand, In
  <2> QED
    BY <2>1 DEF FreshInv, HandInv
<1>2. StateInv /\ WaitInv /\ FreshInv /\ HandInv /\ [Next]_vars => FreshInv' /\ HandInv'
  BY NextFresh, NextHand, SMTT(30) DEF WaitInv
<1>3. ReapInv /\ HandInv => (owner.step \in AfterReap => \A c \in Conns : ~InHand(c))
  BY DEF ReapInv, HandInv, Resting
<1> QED
  BY <1>1, <1>2, <1>3, WaitHolds, PTL DEF Spec

(* Every reachable state has what the phases of the destruction rely on.   *)
LEMMA GoneHolds == Spec => []GoneInv
<1>1. Init => GoneInv
  BY DEF Init, GoneInv, Dead
<1> QED
  BY <1>1, NextGone, StateHolds, ReapHolds, PTL DEF Spec

(* For any number of reactors and connections, once the server is          *)
(* destroyed every ticket and every admission has been returned, also      *)
(* those of sessions that never ran (close(), destroy_roots(), ~Reactor).  *)
THEOREM DestructionReturnsAll == Spec => []AllReturned
<1>1. StateInv /\ GoneInv /\ (owner.step \in AfterReap => \A c \in Conns : ~InHand(c)) => AllReturned
  <2> SUFFICES ASSUME StateInv, GoneInv, \A c \in Conns : ~InHand(c), owner.step = "gone"
               PROVE  active = 0 /\ \A r \in Reactors : reactor[r].sessions = 0
    BY SMTT(30) DEF AllReturned, At, AfterReap
  <2>1. Held = {}
    BY DEF GoneInv, Held, Ticketed, InHand, In
  <2>2. \A r \in Reactors : Tickets(r) = {}
    BY <2>1 DEF Tickets
  <2> QED
    BY <2>1, <2>2, FS_EmptySet, SMTT(30) DEF StateInv, Exact, LeasesOf
<1> QED
  BY <1>1, EmptyHands, GoneHolds, StateHolds, PTL

(* For any number of reactors and connections, frames are destroyed with   *)
(* no thread inside run(), every accept ended and no connection on its way *)
(* to a session (TcpServer::close(), destroy_roots(), ~Reactor).           *)
THEOREM OwnerDestroysAlone == Spec => []TeardownAlone
<1>1. /\ ReapInv /\ GoneInv /\ (owner.step \in AfterReap => \A c \in Conns : ~InHand(c))
      => TeardownAlone
  BY DEF TeardownAlone, ReapInv, GoneInv, Resting, AfterReap, Dead
<1> QED
  BY <1>1, EmptyHands, GoneHolds, ReapHolds, PTL

=============================================================================
