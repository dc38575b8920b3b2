----------------------------- MODULE AbortList ------------------------------
(***************************************************************************)
(* class AbortList of reactor.h: the intrusive list behind                 *)
(* Reactor::track(), with the cursor that lets a walk survive removals     *)
(* made by its callbacks.  Everything happens on one thread; a callback is *)
(* what happens between two visits of a walk.                              *)
(***************************************************************************)
EXTENDS Lists

CONSTANTS
    Nodes,       \* the Abortable objects
    Null,        \* nullptr
    MaxDepth     \* bound: walks in progress, one inside a callback of the other

ASSUME AbortListAssumption == Null \notin Nodes /\ MaxDepth \in Nat

VARIABLES
    head,        \* head_
    cursor,      \* cursor_
    linked,      \* the nodes whose list_ is this list
    prev, succ,  \* prev_ and next_ of each node
    list,        \* history: the nodes added and not removed, the last added first
    frames,      \* the calls of each(): its local outer, and whether it is in a callback
    visited,     \* history: the node the innermost walk visited last
    strayed      \* history: a node was removed that an outer walk had saved as its cursor

vars == <<head, cursor, linked, prev, succ, list, frames, visited, strayed>>

Pointers == Nodes \cup {Null}

TypeOK ==
    /\ head \in Pointers /\ cursor \in Pointers
    /\ linked \subseteq Nodes
    /\ prev \in [Nodes -> Pointers] /\ succ \in [Nodes -> Pointers]
    /\ list \in Seq(Nodes) /\ IsInjective(list)
    /\ frames \in Seq([outer : Pointers, calling : BOOLEAN]) /\ Len(frames) <= MaxDepth
    /\ frames = <<>> => cursor = Null
    /\ visited \in Nodes /\ strayed \in BOOLEAN

Init ==
    /\ head = Null /\ cursor = Null
    /\ linked = {}
    /\ prev = [n \in Nodes |-> Null] /\ succ = [n \in Nodes |-> Null]
    /\ list = <<>> /\ frames = <<>>
    /\ visited \in Nodes /\ strayed = FALSE

(* Host code runs: outside of any walk, or inside a callback.              *)
HostRuns == frames # <<>> => Last(frames).calling

(* f with n mapped to v, unless n is nullptr.                              *)
SetAt(f, n, v) == [m \in Nodes |-> IF m = n THEN v ELSE f[m]]

(* add(): the host adds a node that is in no list.                         *)
Add(a) ==
    /\ HostRuns
    /\ a \notin linked
    /\ linked' = linked \cup {a}
    /\ prev' = SetAt(SetAt(prev, a, Null), head, a)
    /\ succ' = SetAt(succ, a, head)
    /\ head' = a
    /\ list' = <<a>> \o list
    /\ UNCHANGED <<cursor, frames, visited, strayed>>

(* Mutant: the cursor stays on the removed node.                           *)
EraseUnderCursor(a) ==
    /\ HostRuns
    /\ a \in linked
    /\ head' = IF prev[a] = Null THEN succ[a] ELSE head
    /\ succ' = SetAt(SetAt(succ, prev[a], succ[a]), a, Null)
    /\ prev' = SetAt(SetAt(prev, succ[a], prev[a]), a, Null)
    /\ linked' = linked \ {a}
    /\ list' = Without(list, a)
    /\ UNCHANGED <<cursor, frames, visited, strayed>>

(* Mutant: the successor keeps its way back to the removed node.           *)
EraseOneWay(a) ==
    /\ HostRuns
    /\ a \in linked
    /\ cursor' = IF cursor = a THEN succ[a] ELSE cursor
    /\ head' = IF prev[a] = Null THEN succ[a] ELSE head
    /\ succ' = SetAt(SetAt(succ, prev[a], succ[a]), a, Null)
    /\ prev' = SetAt(prev, a, Null)
    /\ linked' = linked \ {a}
    /\ list' = Without(list, a)
    /\ UNCHANGED <<frames, visited, strayed>>

(* remove(), from untrack() or from the node's destructor.                 *)
Erase(a) ==
    /\ HostRuns
    /\ a \in linked
    /\ cursor' = IF cursor = a THEN succ[a] ELSE cursor
    /\ head' = IF prev[a] = Null THEN succ[a] ELSE head
    /\ succ' = SetAt(SetAt(succ, prev[a], succ[a]), a, Null)
    /\ prev' = SetAt(SetAt(prev, succ[a], prev[a]), a, Null)
    /\ linked' = linked \ {a}
    /\ list' = Without(list, a)
    /\ strayed' = (strayed \/ \E i \in DOMAIN frames : frames[i].outer = a)
    /\ UNCHANGED <<frames, visited>>

(* each(): it saves the cursor of a walk it interrupts.                    *)
BeginEach ==
    /\ HostRuns
    /\ Len(frames) < MaxDepth
    /\ frames' = Append(frames, [outer |-> cursor, calling |-> FALSE])
    /\ cursor' = head
    /\ UNCHANGED <<head, linked, prev, succ, list, visited, strayed>>

(* The callback in progress returns and the next node's begins, the cursor *)
(* already past it.                                                        *)
VisitNext ==
    /\ frames # <<>>
    /\ cursor # Null
    /\ visited' = cursor
    /\ cursor' = succ[cursor]
    /\ frames' = [frames EXCEPT ![Len(frames)].calling = TRUE]
    /\ UNCHANGED <<head, linked, prev, succ, list, strayed>>

EndEach ==
    /\ frames # <<>>
    /\ cursor = Null
    /\ cursor' = Last(frames).outer
    /\ frames' = Front(frames)
    /\ UNCHANGED <<head, linked, prev, succ, list, visited, strayed>>

Next == BeginEach \/ VisitNext \/ EndEach \/ \E a \in Nodes : Add(a) \/ Erase(a)

Spec == Init /\ [][Next]_vars

-----------------------------------------------------------------------------
(* The links are those of one list of exactly the nodes in it: head_ is    *)
(* the last one added, next_ leads from each node to the one added before  *)
(* it and ends in nullptr, prev_ is the way back, and a node out of the    *)
(* list points nowhere.                                                    *)
WellLinked ==
    /\ TypeOK
    /\ Range(list) = linked
    /\ head = IF list = <<>> THEN Null ELSE list[1]
    /\ \A i \in 1 .. Len(list) :
        /\ prev[list[i]] = IF i = 1 THEN Null ELSE list[i - 1]
        /\ succ[list[i]] = IF i = Len(list) THEN Null ELSE list[i + 1]
    /\ \A n \in Nodes \ linked : prev[n] = Null /\ succ[n] = Null

(* The nodes of l from p on.                                               *)
From(l, p) ==
    LET k == CHOOSE i \in DOMAIN l : l[i] = p
    IN  IF p \in Range(l) THEN SubSeq(l, k, Len(l)) ELSE <<>>

(* What each walk in progress has still to visit: the innermost one's      *)
(* cursor is cursor_, the others' were saved by the next one.              *)
Walks == [i \in DOMAIN frames |->
            From(list, IF i = Len(frames) THEN cursor ELSE frames[i + 1].outer)]

Promise == INSTANCE TrackedList
    WITH Items <- Nodes, items <- list, walks <- Walks, off <- strayed

(* AbortList is a list of what is tracked, and its walks, one inside a     *)
(* callback of another too, visit exactly what was there when they began   *)
(* and has not been removed since, so never a node that was removed and    *)
(* perhaps destroyed (reactor.h:112-113).  This holds until a nested walk  *)
(* removes the very node at which an outer one would go on: remove() moves *)
(* cursor_, but not the cursors that each() saved in outer.                *)
KeepsPromise == Promise!Spec
=============================================================================
