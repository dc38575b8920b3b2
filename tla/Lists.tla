------------------------------- MODULE Lists --------------------------------
(***************************************************************************)
(* The few operators on sequences that the tracked lists need.  A proof    *)
(* carries every definition of the modules it extends, so they stand here  *)
(* without the rest of a library.                                          *)
(***************************************************************************)
EXTENDS Naturals, Sequences, Functions

Last(s) == s[Len(s)]

Front(s) == SubSeq(s, 1, Len(s) - 1)

IsSuffix(c, s) == Len(c) <= Len(s) /\ c = SubSeq(s, (Len(s) - Len(c)) + 1, Len(s))

(* s without its element a, if it has one.                                 *)
Without(s, a) ==
    LET k == CHOOSE i \in DOMAIN s : s[i] = a
    IN  IF a \in Range(s) THEN SubSeq(s, 1, k - 1) \o SubSeq(s, k + 1, Len(s)) ELSE s
=============================================================================
