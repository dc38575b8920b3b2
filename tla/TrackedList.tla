---------------------------- MODULE TrackedList -----------------------------
(***************************************************************************)
(* What AbortList promises: a sequence of items, and walks over it, nested *)
(* or not, each of which visits what was there when it began and has not   *)
(* been removed since.  The promise holds until it is called off.          *)
(***************************************************************************)
EXTENDS Lists

CONSTANT Items

VARIABLES
    items,    \* the list, head first
    walks,    \* for each walk in progress, outermost first: what it has still to visit
    visited,  \* the item the innermost walk visited last
    off       \* the promise is off

vars == <<items, walks, visited, off>>

Init == items = <<>> /\ walks = <<>> /\ visited \in Items /\ ~off

Add(a) ==
    /\ a \notin Range(items)
    /\ items' = <<a>> \o items
    /\ UNCHANGED <<walks, visited, off>>

Erase(a) ==
    /\ items' = Without(items, a)
    /\ walks' = [i \in DOMAIN walks |-> Without(walks[i], a)]
    /\ UNCHANGED <<visited, off>>

Begin == walks' = Append(walks, items) /\ UNCHANGED <<items, visited, off>>

Visit ==
    /\ walks # <<>>
    /\ Last(walks) # <<>>
    /\ visited' = Head(Last(walks))
    /\ walks' = [walks EXCEPT ![Len(walks)] = Tail(@)]
    /\ UNCHANGED <<items, off>>

End ==
    /\ walks # <<>>
    /\ Last(walks) = <<>>
    /\ walks' = Front(walks)
    /\ UNCHANGED <<items, visited, off>>

Next == Begin \/ Visit \/ End \/ \E a \in Items : Add(a) \/ Erase(a)

Spec == Init /\ [][Next \/ off']_vars
=============================================================================
