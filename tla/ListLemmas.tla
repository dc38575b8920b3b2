----------------------------- MODULE ListLemmas -----------------------------
(***************************************************************************)
(* Lists as sequences with no element twice: what adding at the head,      *)
(* removing an element and moving a cursor along do to the elements and to *)
(* the part of the list that is still to visit.  For module AbortList and  *)
(* the reactor's list of abortables.                                       *)
(***************************************************************************)
EXTENDS Lists, SequenceTheorems, TLAPS

(* The facts about a sequence that the others start from.                  *)
LEMMA ListType ==
    ASSUME NEW S, NEW s \in Seq(S)
    PROVE  /\ Len(s) \in Nat /\ DOMAIN s = 1 .. Len(s)
           /\ \A i \in 1 .. Len(s) : s[i] \in S /\ s[i] \in Range(s)
           /\ Range(s) \subseteq S
           /\ s = <<>> <=> Len(s) = 0
           /\ s = <<>> <=> Range(s) = {}
<1>1. /\ Len(s) \in Nat /\ DOMAIN s = 1 .. Len(s)
      /\ \A i \in 1 .. Len(s) : s[i] \in S /\ s[i] \in Range(s)
      /\ s = <<>> <=> Len(s) = 0
  BY EmptySeq, LenProperties DEF Range
<1>2. Range(s) \subseteq S
  BY <1>1 DEF Range
<1>3. CASE Len(s) = 0
  BY <1>1, <1>2, <1>3 DEF Range
<1>4. CASE Len(s) # 0
  <2>1. 1 \in 1 .. Len(s)
    BY <1>1, <1>4
  <2>2. s[1] \in Range(s)
    BY <1>1, <2>1
  <2> QED
    BY <1>1, <1>2, <1>4, <2>2
<1> QED
  BY <1>3, <1>4

(* The empty list.                                                         *)
LEMMA EmptyList == \A S : <<>> \in Seq(S) /\ IsInjective(<<>>) /\ Range(<<>>) = {}
  BY EmptySeq DEF IsInjective, Range

(* Adding at the head.                                                     *)
LEMMA AddedAtHead ==
    ASSUME NEW S, NEW s \in Seq(S), IsInjective(s), NEW a \in S, a \notin Range(s)
    PROVE  LET n == <<a>> \o s
           IN  /\ n \in Seq(S) /\ IsInjective(n) /\ Range(n) = Range(s) \cup {a}
               /\ Len(n) = Len(s) + 1 /\ n[1] = a
               /\ \A i \in 1 .. Len(s) : n[i + 1] = s[i]
<1> DEFINE n == <<a>> \o s
<1>1. <<a>> \in Seq(S) /\ Len(<<a>>) = 1 /\ <<a>>[1] = a
  OBVIOUS
<1>2. /\ n \in Seq(S) /\ Len(n) = Len(s) + 1 /\ Len(s) \in Nat
      /\ \A i \in 1 .. Len(s) + 1 : n[i] = IF i = 1 THEN a ELSE s[i - 1]
  BY <1>1, ConcatProperties, ListType
<1> HIDE DEF n
<1>3. n[1] = a /\ \A i \in 1 .. Len(s) : n[i + 1] = s[i]
  BY <1>2
<1>4. DOMAIN n = 1 .. Len(s) + 1 /\ DOMAIN s = 1 .. Len(s)
  BY <1>2, ListType
<1>5. IsInjective(n)
  <2> SUFFICES ASSUME NEW i \in 1 .. Len(s) + 1, NEW j \in 1 .. Len(s) + 1, n[i] = n[j] PROVE i = j
    BY <1>4 DEF IsInjective
  <2>1. \A k \in 1 .. Len(s) : s[k] # a
    BY <1>4 DEF Range
  <2>2. \A k \in 1 .. Len(s) + 1 : k # 1 => k - 1 \in 1 .. Len(s) /\ n[k] = s[k - 1]
    BY <1>2
  <2>3. CASE i = 1 \/ j = 1
    BY <1>3, <2>1, <2>2, <2>3
  <2>4. CASE i # 1 /\ j # 1
    <3>1. i - 1 = j - 1
      BY <1>4, <2>2, <2>4 DEF IsInjective
    <3> QED
      BY <1>2, <3>1
  <2> QED
    BY <2>3, <2>4
<1>6. Range(n) = Range(s) \cup {a}
  <2>1. ASSUME NEW x \in Range(n) PROVE x \in Range(s) \cup {a}
    <3>1. PICK i \in 1 .. Len(s) + 1 : x = n[i]
      BY <1>4, <2>1 DEF Range
    <3> QED
      BY <1>2, <1>4, <3>1, ListType
  <2>2. ASSUME NEW x \in Range(s) PROVE x \in Range(n)
    <3>1. PICK i \in 1 .. Len(s) : x = s[i]
      BY <1>4, <2>2 DEF Range
    <3>2. i + 1 \in DOMAIN n /\ n[i + 1] = x
      BY <1>2, <1>3, <1>4, <3>1
    <3> QED
      BY <3>2 DEF Range
  <2>3. a \in Range(n)
    BY <1>2, <1>3, <1>4 DEF Range
  <2> QED
    BY <2>1, <2>2, <2>3
<1> QED
  BY <1>2, <1>3, <1>5, <1>6 DEF n

(* Removing the element at a position.                                     *)
LEMMA RemovedByParts ==
    ASSUME NEW S, NEW s \in Seq(S), IsInjective(s), NEW p \in 1 .. Len(s)
    PROVE  Without(s, s[p]) = SubSeq(s, 1, p - 1) \o SubSeq(s, p + 1, Len(s))
<1>1. DOMAIN s = 1 .. Len(s) /\ s[p] \in Range(s)
  BY ListType
<1>2. \A i \in DOMAIN s : s[i] = s[p] <=> i = p
  BY <1>1 DEF IsInjective
<1>3. (CHOOSE i \in DOMAIN s : s[i] = s[p]) = p
  BY <1>1, <1>2
<1> QED
  BY <1>1, <1>3, Zenon DEF Without

LEMMA RemovedAt ==
    ASSUME NEW S, NEW s \in Seq(S), IsInjective(s), NEW p \in 1 .. Len(s)
    PROVE  LET r == Without(s, s[p])
           IN  /\ r \in Seq(S) /\ Len(r) = Len(s) - 1
               /\ \A i \in 1 .. Len(s) - 1 : r[i] = IF i < p THEN s[i] ELSE s[i + 1]
<1> DEFINE r == SubSeq(s, 1, p - 1) \o SubSeq(s, p + 1, Len(s))
<1>1. Without(s, s[p]) = r
  BY RemovedByParts
<1> DEFINE u == SubSeq(s, 1, p - 1)
           v == SubSeq(s, p + 1, Len(s))
<1>2. u \in Seq(S) /\ Len(u) = p - 1 /\ \A i \in 1 .. p - 1 : u[i] = s[i]
  BY ListType, SubSeqProperties
<1>3. v \in Seq(S) /\ Len(v) = Len(s) - p /\ \A i \in 1 .. Len(s) - p : v[i] = s[p + i]
  BY ListType, SubSeqProperties
<1>4. /\ r \in Seq(S) /\ Len(r) = Len(s) - 1
      /\ \A i \in 1 .. Len(s) - 1 : r[i] = IF i < p THEN s[i] ELSE s[i + 1]
  <2>1. r = u \o v
    OBVIOUS
  <2> HIDE DEF r, u, v
  <2>2. /\ r \in Seq(S) /\ Len(r) = Len(u) + Len(v)
        /\ \A i \in 1 .. Len(u) + Len(v) : r[i] = IF i <= Len(u) THEN u[i] ELSE v[i - Len(u)]
    BY <1>2, <1>3, <2>1, ConcatProperties
  <2>3. Len(u) + Len(v) = Len(s) - 1 /\ Len(s) \in Nat
    BY <1>2, <1>3, ListType
  <2>4. /\ Len(r) = Len(s) - 1
        /\ \A i \in 1 .. Len(s) - 1 : r[i] = IF i <= p - 1 THEN u[i] ELSE v[i - (p - 1)]
    BY <1>2, <2>2, <2>3
  <2>5. ASSUME NEW i \in 1 .. Len(s) - 1 PROVE r[i] = IF i < p THEN s[i] ELSE s[i + 1]
    <3>1. CASE i < p
      <4>1. i \in 1 .. p - 1
        BY <3>1
      <4> QED
        BY <1>2, <2>4, <3>1, <4>1
    <3>2. CASE i >= p
      <4>1. i - (p - 1) \in 1 .. Len(s) - p /\ p + (i - (p - 1)) = i + 1
        BY <2>3, <3>2
      <4>2. r[i] = v[i - (p - 1)]
        BY <2>4, <3>2
      <4>3. v[i - (p - 1)] = s[p + (i - (p - 1))]
        BY <1>3, <4>1
      <4> QED
        BY <3>2, <4>1, <4>2, <4>3
    <3> QED
      BY <3>1, <3>2
  <2> QED
    BY <2>2, <2>4, <2>5
<1> QED
  BY <1>1, <1>4

(* So it leaves the other elements, once each; an element that is not      *)
(* there is not missed.                                                    *)
LEMMA Removed ==
    ASSUME NEW S, NEW s \in Seq(S), IsInjective(s), NEW a
    PROVE  LET r == Without(s, a)
           IN  /\ r \in Seq(S) /\ IsInjective(r) /\ Range(r) = Range(s) \ {a}
               /\ a \notin Range(s) => r = s
<1> DEFINE r == Without(s, a)
<1>1. CASE a \notin Range(s)
  <2>1. r = s
    BY <1>1, ListType DEF Without
  <2> QED
    BY <1>1, <2>1
<1>2. CASE a \in Range(s)
  <2>1. PICK p \in 1 .. Len(s) : a = s[p]
    BY <1>2, ListType DEF Range
  <2>2. /\ r \in Seq(S) /\ Len(r) = Len(s) - 1
        /\ \A i \in 1 .. Len(s) - 1 : r[i] = IF i < p THEN s[i] ELSE s[i + 1]
    BY <2>1, RemovedAt
  <2> HIDE DEF r
  <2>3. Len(s) \in Nat /\ DOMAIN s = 1 .. Len(s) /\ DOMAIN r = 1 .. Len(s) - 1
    BY <2>2, ListType
  <2>4. IsInjective(r)
    <3> SUFFICES ASSUME NEW i \in 1 .. Len(s) - 1, NEW j \in 1 .. Len(s) - 1, r[i] = r[j]
                 PROVE  i = j
      BY <2>3 DEF IsInjective
    <3>1. /\ i \in 1 .. Len(s) /\ i + 1 \in 1 .. Len(s)
          /\ j \in 1 .. Len(s) /\ j + 1 \in 1 .. Len(s)
      BY <2>3
    <3>2. \A k, l \in 1 .. Len(s) : s[k] = s[l] => k = l
      BY <2>3 DEF IsInjective
    <3>3. (IF i < p THEN i ELSE i + 1) = (IF j < p THEN j ELSE j + 1)
      BY <2>2, <3>1, <3>2
    <3> QED
      BY <3>3
  <2>5. ASSUME NEW x \in Range(r) PROVE x \in Range(s) /\ x # a
    <3>1. PICK i \in 1 .. Len(s) - 1 : x = r[i]
      BY <2>3, <2>5 DEF Range
    <3>2. PICK k \in 1 .. Len(s) : x = s[k] /\ k # p
      <4>1. CASE i < p
        BY <2>2, <2>3, <3>1, <4>1
      <4>2. CASE i >= p
        BY <2>2, <2>3, <3>1, <4>2
      <4> QED
        BY <4>1, <4>2
    <3> QED
      BY <2>1, <2>3, <3>2 DEF IsInjective, Range
  <2>6. ASSUME NEW x \in Range(s), x # a PROVE x \in Range(r)
    <3>1. PICK k \in 1 .. Len(s) : x = s[k] /\ k # p
      BY <2>1, <2>3, <2>6 DEF Range
    <3>2. CASE k < p
      <4>1. k \in 1 .. Len(s) - 1 /\ r[k] = x
        BY <2>2, <2>3, <3>1, <3>2
      <4> QED
        BY <2>3, <4>1 DEF Range
    <3>3. CASE k > p
      <4>1. k - 1 \in 1 .. Len(s) - 1 /\ r[k - 1] = x
        BY <2>2, <2>3, <3>1, <3>3
      <4> QED
        BY <2>3, <4>1 DEF Range
    <3> QED
      BY <3>1, <3>2, <3>3
  <2>7. Range(r) = Range(s) \ {a}
    BY <2>5, <2>6
  <2> QED
    BY <1>2, <2>2, <2>4, <2>7 DEF r
<1> QED
  BY <1>1, <1>2

(* The walk goes past the head.                                            *)
LEMMA TailOfList ==
    ASSUME NEW S, NEW s \in Seq(S), IsInjective(s), s # <<>>
    PROVE  /\ Head(s) \in Range(s) /\ Head(s) \in S /\ Head(s) = s[1]
           /\ Tail(s) \in Seq(S) /\ IsInjective(Tail(s)) /\ Range(Tail(s)) = Range(s) \ {Head(s)}
           /\ Len(Tail(s)) = Len(s) - 1
           /\ \A i \in 1 .. Len(s) - 1 : Tail(s)[i] = s[i + 1]
           /\ Tail(s) = Without(s, Head(s))
<1>1. Len(s) \in Nat \ {0} /\ 1 \in 1 .. Len(s) /\ Head(s) = s[1]
  BY ListType
<1>2. /\ Tail(s) \in Seq(S) /\ Len(Tail(s)) = Len(s) - 1
      /\ \A i \in 1 .. Len(s) - 1 : Tail(s)[i] = s[i + 1]
  BY HeadTailProperties
<1>3. Tail(s) = Without(s, Head(s))
  <2> DEFINE r == Without(s, s[1])
  <2>1. /\ r \in Seq(S) /\ Len(r) = Len(s) - 1
        /\ \A i \in 1 .. Len(s) - 1 : r[i] = IF i < 1 THEN s[i] ELSE s[i + 1]
    BY <1>1, RemovedAt
  <2> HIDE DEF r
  <2>2. \A i \in 1 .. Len(s) - 1 : r[i] = Tail(s)[i]
    BY <1>2, <2>1
  <2>3. r = Tail(s)
    BY <1>2, <2>1, <2>2, SeqEqual
  <2> QED
    BY <1>1, <2>3 DEF r
<1>4. Head(s) \in Range(s) /\ Head(s) \in S
  BY <1>1, ListType
<1>5. IsInjective(Tail(s)) /\ Range(Tail(s)) = Range(s) \ {Head(s)}
  BY <1>3, Removed, Zenon
<1> QED
  BY <1>1, <1>2, <1>3, <1>4, <1>5

-----------------------------------------------------------------------------
(* What a walk has still to visit is a suffix of the list.                 *)

(* A suffix by its elements.                                               *)
LEMMA SuffixElements ==
    ASSUME NEW S, NEW c \in Seq(S), NEW s \in Seq(S)
    PROVE  IsSuffix(c, s) <=>
             /\ Len(c) <= Len(s)
             /\ \A i \in 1 .. Len(c) : c[i] = s[(Len(s) - Len(c)) + i]
<1> DEFINE k == (Len(s) - Len(c)) + 1
           e == SubSeq(s, k, Len(s))
<1>1. Len(c) \in Nat /\ Len(s) \in Nat
  BY ListType
<1>2. ASSUME Len(c) <= Len(s)
      PROVE  /\ e \in Seq(S) /\ Len(e) = Len(c)
             /\ \A i \in 1 .. Len(c) : e[i] = s[(Len(s) - Len(c)) + i]
  <2>1. k \in Int /\ Len(s) \in Int /\ k >= 1 /\ (k <= Len(s) <=> Len(c) # 0)
        /\ Len(s) - k + 1 = Len(c) /\ \A i \in 1 .. Len(c) : k + i - 1 = (Len(s) - Len(c)) + i
    BY <1>1, <1>2
  <2> HIDE DEF k
  <2>2. \A i \in k .. Len(s) : s[i] \in S
    BY <1>1, <2>1, ListType
  <2>3. /\ e \in Seq(S) /\ Len(e) = IF k <= Len(s) THEN Len(s) - k + 1 ELSE 0
        /\ \A i \in 1 .. Len(s) - k + 1 : e[i] = s[k + i - 1]
    BY <2>1, <2>2, SubSeqProperties
  <2> HIDE DEF e
  <2> QED
    BY <1>1, <2>1, <2>3
<1>3. IsSuffix(c, s) <=> Len(c) <= Len(s) /\ c = e
  BY DEF IsSuffix
<1> HIDE DEF k, e
<1>4. ASSUME Len(c) <= Len(s), \A i \in 1 .. Len(c) : c[i] = s[(Len(s) - Len(c)) + i]
      PROVE  c = e
  BY <1>2, <1>4, SeqEqual
<1> QED
  BY <1>2, <1>3, <1>4

(* A suffix of a list is a list of some of its elements.                   *)
LEMMA SuffixIsList ==
    ASSUME NEW S, NEW c \in Seq(S), NEW s \in Seq(S), IsInjective(s), IsSuffix(c, s)
    PROVE  IsInjective(c) /\ Range(c) \subseteq Range(s)
<1>1. /\ Len(c) <= Len(s) /\ Len(c) \in Nat /\ Len(s) \in Nat
      /\ \A i \in 1 .. Len(c) : c[i] = s[(Len(s) - Len(c)) + i]
  BY SuffixElements, ListType
<1>2. DOMAIN c = 1 .. Len(c) /\ DOMAIN s = 1 .. Len(s)
  BY ListType
<1>3. \A i \in 1 .. Len(c) : (Len(s) - Len(c)) + i \in 1 .. Len(s)
  BY <1>1
<1>4. IsInjective(c)
  <2> SUFFICES ASSUME NEW i \in 1 .. Len(c), NEW j \in 1 .. Len(c), c[i] = c[j] PROVE i = j
    BY <1>2 DEF IsInjective
  <2>1. (Len(s) - Len(c)) + i = (Len(s) - Len(c)) + j
    BY <1>1, <1>2, <1>3 DEF IsInjective
  <2> QED
    BY <1>1, <2>1
<1>5. Range(c) \subseteq Range(s)
  BY <1>1, <1>2, <1>3 DEF Range
<1> QED
  BY <1>4, <1>5

(* A walk begins with the whole list and ends with nothing.                *)
LEMMA WholeIsSuffix ==
    ASSUME NEW S, NEW s \in Seq(S)
    PROVE  IsSuffix(s, s) /\ IsSuffix(<<>>, s)
<1>1. Len(s) \in Nat /\ <<>> \in Seq(S) /\ Len(<<>>) = 0
  BY ListType, EmptySeq
<1>2. IsSuffix(s, s)
  BY <1>1, SuffixElements
<1>3. IsSuffix(<<>>, s)
  <2> DEFINE e == <<>>
  <2>1. e \in Seq(S) /\ Len(e) = 0
    BY <1>1
  <2> HIDE DEF e
  <2>2. Len(e) <= Len(s) /\ \A i \in 1 .. Len(e) : e[i] = s[(Len(s) - Len(e)) + i]
    BY <1>1, <2>1
  <2>3. IsSuffix(e, s)
    BY <2>1, <2>2, SuffixElements, Zenon
  <2> QED
    BY <2>3 DEF e
<1> QED
  BY <1>2, <1>3

(* It moves past one.                                                      *)
LEMMA TailIsSuffix ==
    ASSUME NEW S, NEW c \in Seq(S), NEW s \in Seq(S), IsSuffix(c, s), c # <<>>
    PROVE  IsSuffix(Tail(c), s)
<1>1. /\ Len(c) <= Len(s) /\ Len(c) \in Nat \ {0} /\ Len(s) \in Nat
      /\ \A i \in 1 .. Len(c) : c[i] = s[(Len(s) - Len(c)) + i]
  BY SuffixElements, ListType
<1>2. /\ Tail(c) \in Seq(S) /\ Len(Tail(c)) = Len(c) - 1
      /\ \A i \in 1 .. Len(c) - 1 : Tail(c)[i] = c[i + 1]
  BY HeadTailProperties
<1>3. ASSUME NEW i \in 1 .. Len(c) - 1 PROVE Tail(c)[i] = s[(Len(s) - (Len(c) - 1)) + i]
  <2>1. i + 1 \in 1 .. Len(c) /\ (Len(s) - Len(c)) + (i + 1) = (Len(s) - (Len(c) - 1)) + i
    BY <1>1
  <2>2. c[i + 1] = s[(Len(s) - Len(c)) + (i + 1)]
    BY <1>1, <2>1
  <2> QED
    BY <1>2, <2>1, <2>2
<1>4. Len(Tail(c)) <= Len(s)
  BY <1>1, <1>2
<1> QED
  BY <1>2, <1>3, <1>4, SuffixElements

(* What is added at the head is not before it.                             *)
LEMMA HeadKeepsSuffix ==
    ASSUME NEW S, NEW c \in Seq(S), NEW s \in Seq(S), IsInjective(s), IsSuffix(c, s),
           NEW a \in S, a \notin Range(s)
    PROVE  IsSuffix(c, <<a>> \o s)
<1> DEFINE n == <<a>> \o s
<1>1. /\ Len(c) <= Len(s) /\ Len(c) \in Nat /\ Len(s) \in Nat
      /\ \A i \in 1 .. Len(c) : c[i] = s[(Len(s) - Len(c)) + i]
  BY SuffixElements, ListType
<1>2. /\ n \in Seq(S) /\ Len(n) = Len(s) + 1
      /\ \A i \in 1 .. Len(s) : n[i + 1] = s[i]
  BY AddedAtHead
<1> HIDE DEF n
<1>3. ASSUME NEW i \in 1 .. Len(c) PROVE c[i] = n[(Len(n) - Len(c)) + i]
  <2>1. /\ (Len(s) - Len(c)) + i \in 1 .. Len(s)
        /\ (Len(n) - Len(c)) + i = ((Len(s) - Len(c)) + i) + 1
    BY <1>1, <1>2
  <2> QED
    BY <1>1, <1>2, <2>1
<1>4. Len(c) <= Len(n)
  BY <1>1, <1>2
<1>5. IsSuffix(c, n)
  BY <1>2, <1>3, <1>4, SuffixElements, Zenon
<1> QED
  BY <1>5 DEF n

(* Removing an element from the list and from what is to visit.            *)
LEMMA RemovedKeepsSuffix ==
    ASSUME NEW S, NEW c \in Seq(S), NEW s \in Seq(S), IsInjective(s), IsSuffix(c, s), NEW a
    PROVE  IsSuffix(Without(c, a), Without(s, a))
<1> DEFINE rc == Without(c, a)
           rs == Without(s, a)
           d == Len(s) - Len(c)
<1>1. IsInjective(c) /\ Range(c) \subseteq Range(s)
  BY SuffixIsList
<1>2. /\ d \in Nat /\ Len(c) \in Nat /\ Len(s) \in Nat /\ Len(s) = d + Len(c)
      /\ \A i \in 1 .. Len(c) : c[i] = s[d + i]
  BY SuffixElements, ListType
<1> HIDE DEF d
<1>3. CASE a \notin Range(s)
  BY <1>1, <1>3, Removed
<1>4. ASSUME a \in Range(s), a \notin Range(c) PROVE IsSuffix(rc, rs)
  <2>1. PICK p \in 1 .. Len(s) : a = s[p]
    BY <1>4, ListType DEF Range
  <2>2. /\ rs \in Seq(S) /\ Len(rs) = Len(s) - 1
        /\ \A i \in 1 .. Len(s) - 1 : rs[i] = IF i < p THEN s[i] ELSE s[i + 1]
    BY <2>1, RemovedAt
  <2> HIDE DEF rs
  <2>3. rc = c
    BY <1>1, <1>4, Removed
  <2>4. p <= d
    <3> SUFFICES ASSUME p > d PROVE FALSE
      BY <1>2
    <3>1. p - d \in 1 .. Len(c) /\ d + (p - d) = p
      BY <1>2
    <3>2. c[p - d] = a
      BY <1>2, <2>1, <3>1
    <3> QED
      BY <1>4, <3>1, <3>2, ListType
  <2>5. Len(c) <= Len(rs)
    BY <1>2, <2>1, <2>2, <2>4
  <2>6. ASSUME NEW i \in 1 .. Len(c) PROVE c[i] = rs[(Len(rs) - Len(c)) + i]
    <3>1. /\ (Len(rs) - Len(c)) + i \in 1 .. Len(s) - 1
          /\ (Len(rs) - Len(c)) + i >= p
          /\ ((Len(rs) - Len(c)) + i) + 1 = d + i
      BY <1>2, <2>1, <2>2, <2>4
    <3>2. rs[(Len(rs) - Len(c)) + i] = s[((Len(rs) - Len(c)) + i) + 1]
      BY <2>2, <3>1
    <3> QED
      BY <1>2, <3>1, <3>2
  <2> QED
    BY <2>2, <2>3, <2>5, <2>6, SuffixElements, Zenon
<1>5. ASSUME a \in Range(c) PROVE IsSuffix(rc, rs)
  <2>1. PICK q \in 1 .. Len(c) : a = c[q]
    BY <1>5, ListType DEF Range
  <2>2. d + q \in 1 .. Len(s) /\ a = s[d + q]
    BY <1>2, <2>1
  <2>3. /\ rc \in Seq(S) /\ Len(rc) = Len(c) - 1
        /\ \A i \in 1 .. Len(c) - 1 : rc[i] = IF i < q THEN c[i] ELSE c[i + 1]
    BY <1>1, <2>1, RemovedAt
  <2>4. /\ rs \in Seq(S) /\ Len(rs) = Len(s) - 1
        /\ \A i \in 1 .. Len(s) - 1 : rs[i] = IF i < d + q THEN s[i] ELSE s[i + 1]
    BY <2>2, RemovedAt
  <2> HIDE DEF rc, rs
  <2>5. Len(rs) - Len(rc) = d /\ Len(rc) <= Len(rs)
    BY <1>2, <2>3, <2>4
  <2>6. ASSUME NEW i \in 1 .. Len(rc) PROVE rc[i] = rs[(Len(rs) - Len(rc)) + i]
    <3>1. /\ i \in 1 .. Len(c) /\ i + 1 \in 1 .. Len(c) /\ d + i \in 1 .. Len(s) - 1
          /\ (d + i < d + q) <=> i < q
          /\ d + (i + 1) = (d + i) + 1
      BY <1>2, <2>1, <2>3
    <3>2. rc[i] = IF i < q THEN s[d + i] ELSE s[(d + i) + 1]
      BY <1>2, <2>3, <3>1
    <3>3. rs[d + i] = IF i < q THEN s[d + i] ELSE s[(d + i) + 1]
      BY <2>4, <3>1
    <3> QED
      BY <2>5, <3>2, <3>3
  <2> QED
    BY <2>3, <2>4, <2>5, <2>6, SuffixElements, Zenon
<1> QED
  BY <1>3, <1>4, <1>5

(* Removing what is not the first element keeps the first.                 *)
LEMMA RemovedKeepsHead ==
    ASSUME NEW S, NEW s \in Seq(S), IsInjective(s), s # <<>>, NEW a, Head(s) # a
    PROVE  Without(s, a) # <<>> /\ Head(Without(s, a)) = Head(s)
<1>1. CASE a \notin Range(s)
  BY <1>1, Removed
<1>2. CASE a \in Range(s)
  <2> DEFINE r == Without(s, a)
  <2>1. PICK p \in 1 .. Len(s) : a = s[p]
    BY <1>2, ListType DEF Range
  <2>2. r \in Seq(S) /\ Len(r) = Len(s) - 1
        /\ \A i \in 1 .. Len(s) - 1 : r[i] = IF i < p THEN s[i] ELSE s[i + 1]
    BY <2>1, RemovedAt
  <2> HIDE DEF r
  <2>3. Head(s) = s[1] /\ Len(s) \in Nat /\ p > 1
    BY <2>1, TailOfList, ListType
  <2>4. 1 \in 1 .. Len(s) - 1 /\ Len(r) # 0
    BY <2>2, <2>3
  <2>5. r # <<>> /\ Head(r) = r[1] /\ r[1] = s[1]
    BY <2>2, <2>3, <2>4, ListType
  <2> QED
    BY <2>3, <2>5 DEF r
<1> QED
  BY <1>1, <1>2

(* There is a suffix for each position.                                    *)
LEMMA SuffixAt ==
    ASSUME NEW S, NEW s \in Seq(S), NEW l \in 1 .. Len(s)
    PROVE  LET c == SubSeq(s, l, Len(s))
           IN  c \in Seq(S) /\ IsSuffix(c, s) /\ c # <<>> /\ Head(c) = s[l]
<1> DEFINE c == SubSeq(s, l, Len(s))
<1>1. /\ c \in Seq(S) /\ Len(c) = (Len(s) - l) + 1 /\ Len(s) \in Nat
      /\ \A i \in 1 .. (Len(s) - l) + 1 : c[i] = s[(l + i) - 1]
  BY ListType, SubSeqProperties
<1> HIDE DEF c
<1>2. Len(c) <= Len(s) /\ \A i \in 1 .. Len(c) : c[i] = s[(Len(s) - Len(c)) + i]
  BY <1>1
<1>3. IsSuffix(c, s)
  BY <1>1, <1>2, SuffixElements, Zenon
<1>4. c # <<>> /\ Head(c) = c[1] /\ c[1] = s[l]
  BY <1>1, ListType
<1> QED
  BY <1>1, <1>3, <1>4 DEF c

(* The suffix that begins with an element of the list is the only one.     *)
LEMMA SuffixUnique ==
    ASSUME NEW S, NEW s \in Seq(S), IsInjective(s),
           NEW c \in Seq(S), IsSuffix(c, s), c # <<>>,
           NEW e \in Seq(S), IsSuffix(e, s), e # <<>>, Head(e) = Head(c)
    PROVE  e = c
<1>1. /\ Len(c) <= Len(s) /\ Len(c) \in Nat \ {0} /\ Len(s) \in Nat
      /\ \A i \in 1 .. Len(c) : c[i] = s[(Len(s) - Len(c)) + i]
  BY SuffixElements, ListType
<1>2. /\ Len(e) <= Len(s) /\ Len(e) \in Nat \ {0}
      /\ \A i \in 1 .. Len(e) : e[i] = s[(Len(s) - Len(e)) + i]
  BY SuffixElements, ListType
<1>3. Head(c) = c[1] /\ Head(e) = e[1] /\ DOMAIN s = 1 .. Len(s)
  BY ListType
<1>4. /\ (Len(s) - Len(c)) + 1 \in DOMAIN s /\ (Len(s) - Len(e)) + 1 \in DOMAIN s
      /\ s[(Len(s) - Len(c)) + 1] = s[(Len(s) - Len(e)) + 1]
  BY <1>1, <1>2, <1>3
<1>5. (Len(s) - Len(c)) + 1 = (Len(s) - Len(e)) + 1
  BY <1>4 DEF IsInjective
<1>6. Len(c) = Len(e)
  BY <1>1, <1>2, <1>5
<1>7. \A i \in 1 .. Len(e) : e[i] = c[i]
  BY <1>1, <1>2, <1>6
<1> QED
  BY <1>6, <1>7, SeqEqual

-----------------------------------------------------------------------------
(* Sequences used as stacks.                                               *)

LEMMA Pushed ==
    ASSUME NEW S, NEW s \in Seq(S), NEW e \in S
    PROVE  /\ Append(s, e) \in Seq(S) /\ Append(s, e) # <<>>
           /\ Len(s) \in Nat /\ Len(Append(s, e)) = Len(s) + 1
           /\ Append(s, e)[Len(s) + 1] = e
           /\ \A i \in 1 .. Len(s) : Append(s, e)[i] = s[i]
  BY AppendProperties, LenProperties

LEMMA Popped ==
    ASSUME NEW S, NEW s \in Seq(S), s # <<>>
    PROVE  /\ Last(s) \in S /\ Last(s) = s[Len(s)]
           /\ Len(s) \in Nat \ {0} /\ Front(s) \in Seq(S) /\ Len(Front(s)) = Len(s) - 1
           /\ \A i \in 1 .. Len(s) - 1 : Front(s)[i] = s[i]
<1>1. Len(s) \in Nat \ {0} /\ \A i \in 1 .. Len(s) : s[i] \in S
  BY ListType
<1>2. Len(s) \in 1 .. Len(s)
  BY <1>1
<1>3. /\ SubSeq(s, 1, Len(s) - 1) \in Seq(S) /\ Len(SubSeq(s, 1, Len(s) - 1)) = Len(s) - 1
      /\ \A i \in 1 .. Len(s) - 1 : SubSeq(s, 1, Len(s) - 1)[i] = s[i]
  <2> DEFINE m == Len(s) - 1
             f == SubSeq(s, 1, m)
  <2>1. 1 \in Int /\ m \in Nat /\ m \in Int /\ \A i \in 1 .. m : s[i] \in S
    BY <1>1
  <2> HIDE DEF m
  <2>2. /\ f \in Seq(S) /\ Len(f) = IF 1 <= m THEN m - 1 + 1 ELSE 0
        /\ \A i \in 1 .. m - 1 + 1 : f[i] = s[1 + i - 1]
    BY <2>1, SubSeqProperties
  <2> HIDE DEF f
  <2>3. Len(f) = m /\ m - 1 + 1 = m /\ \A i \in 1 .. m : 1 + i - 1 = i
    BY <2>1, <2>2
  <2> QED
    BY <2>2, <2>3 DEF m, f
<1> QED
  BY <1>1, <1>2, <1>3 DEF Last, Front
=============================================================================
