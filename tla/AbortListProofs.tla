--------------------------- MODULE AbortListProofs ---------------------------
(***************************************************************************)
(* Proofs about AbortList, for any set of nodes and any depth of nested    *)
(* walks: the links are those of one list, and the list with its walks is  *)
(* what TrackedList promises.                                              *)
(***************************************************************************)
EXTENDS AbortList, ListLemmas, TLAPS

-----------------------------------------------------------------------------
(* The links.                                                              *)

(* The links are those of the list l from h on.                            *)
Links(l, h, p, s) ==
    /\ h = IF l = <<>> THEN Null ELSE l[1]
    /\ \A i \in 1 .. Len(l) :
        /\ p[l[i]] = IF i = 1 THEN Null ELSE l[i - 1]
        /\ s[l[i]] = IF i = Len(l) THEN Null ELSE l[i + 1]
    /\ \A n \in Nodes \ Range(l) : p[n] = Null /\ s[n] = Null

(* add() links a new node before the first.                                *)
LEMMA AddLinks ==
    ASSUME NEW l \in Seq(Nodes), IsInjective(l), NEW h, NEW p, NEW s, Links(l, h, p, s),
           NEW a \in Nodes, a \notin Range(l)
    PROVE  Links(<<a>> \o l, a, SetAt(SetAt(p, a, Null), h, a), SetAt(s, a, h))
<1> DEFINE n == <<a>> \o l
           q == SetAt(SetAt(p, a, Null), h, a)
           t == SetAt(s, a, h)
<1>1. /\ n \in Seq(Nodes) /\ Range(n) = Range(l) \cup {a} /\ Len(n) = Len(l) + 1
      /\ n[1] = a /\ \A i \in 1 .. Len(l) : n[i + 1] = l[i]
  BY AddedAtHead
<1>2. /\ Len(l) \in Nat /\ \A i \in 1 .. Len(l) : l[i] \in Nodes /\ l[i] \in Range(l)
      /\ l = <<>> <=> Len(l) = 0
  BY ListType
<1>3. \A m \in Nodes : q[m] = IF m = h THEN a ELSE IF m = a THEN Null ELSE p[m]
  BY DEF SetAt
<1>4. \A m \in Nodes : t[m] = IF m = a THEN h ELSE s[m]
  BY DEF SetAt
<1>5. h # a /\ (h \in Range(l) \/ h = Null)
  BY <1>2, AbortListAssumption DEF Links
<1>6. \A i \in 1 .. Len(l) : l[i] = h <=> i = 1
  BY <1>2, AbortListAssumption DEF Links, IsInjective
<1> HIDE DEF n, q, t
<1>7. n # <<>>
  BY <1>1, <1>2, ListType
<1>8. ASSUME NEW i \in 1 .. Len(n)
      PROVE  /\ q[n[i]] = IF i = 1 THEN Null ELSE n[i - 1]
             /\ t[n[i]] = IF i = Len(n) THEN Null ELSE n[i + 1]
  <2>1. CASE i = 1
    BY <1>1, <1>2, <1>3, <1>4, <1>5, <2>1 DEF Links
  <2>2. CASE i # 1
    <3>1. PICK j \in 1 .. Len(l) : i = j + 1
      BY <1>1, <1>2, <2>2
    <3>2. n[i] = l[j] /\ l[j] \in Nodes /\ l[j] # a
      BY <1>1, <1>2, <3>1
    <3>3. q[n[i]] = n[i - 1]
      <4>1. CASE j = 1
        BY <1>1, <1>3, <1>6, <3>1, <3>2, <4>1
      <4>2. CASE j # 1
        <5>1. q[n[i]] = l[j - 1]
          BY <1>3, <1>6, <3>2, <4>2, Zenon DEF Links
        <5>2. j - 1 \in 1 .. Len(l) /\ i - 1 = (j - 1) + 1
          BY <1>2, <3>1, <4>2
        <5> QED
          BY <1>1, <5>1, <5>2
      <4> QED
        BY <4>1, <4>2
    <3>4. t[n[i]] = IF i = Len(n) THEN Null ELSE n[i + 1]
      <4>1. t[n[i]] = IF j = Len(l) THEN Null ELSE l[j + 1]
        BY <1>4, <3>2 DEF Links
      <4>2. (i = Len(n) <=> j = Len(l)) /\ (j # Len(l) => j + 1 \in 1 .. Len(l))
        BY <1>1, <1>2, <3>1
      <4> QED
        BY <1>1, <3>1, <4>1, <4>2
    <3> QED
      BY <2>2, <3>3, <3>4
  <2> QED
    BY <2>1, <2>2
<1>9. ASSUME NEW m \in Nodes \ Range(n) PROVE q[m] = Null /\ t[m] = Null
  <2>1. m # a /\ m \notin Range(l) /\ m # h
    BY <1>1, <1>5, <1>9, AbortListAssumption
  <2>2. p[m] = Null /\ s[m] = Null
    BY <2>1 DEF Links
  <2> QED
    BY <1>3, <1>4, <2>1, <2>2
<1>10. Links(n, a, q, t)
  BY <1>1, <1>7, <1>8, <1>9 DEF Links
<1> QED
  BY <1>10 DEF n, q, t

(* remove() joins the neighbours of the node.                              *)
LEMMA EraseLinks ==
    ASSUME NEW l \in Seq(Nodes), IsInjective(l), NEW h, NEW p, NEW s, Links(l, h, p, s),
           NEW a \in Range(l)
    PROVE  Links(Without(l, a), IF p[a] = Null THEN s[a] ELSE h,
                 SetAt(SetAt(p, s[a], p[a]), a, Null), SetAt(SetAt(s, p[a], s[a]), a, Null))
<1> DEFINE r == Without(l, a)
           g == IF p[a] = Null THEN s[a] ELSE h
           q == SetAt(SetAt(p, s[a], p[a]), a, Null)
           t == SetAt(SetAt(s, p[a], s[a]), a, Null)
<1>1. PICK k \in 1 .. Len(l) : l[k] = a
  BY ListType DEF Range
<1>2. /\ Len(l) \in Nat /\ \A i \in 1 .. Len(l) : l[i] \in Nodes /\ l[i] # Null
      /\ \A i, j \in 1 .. Len(l) : l[i] = l[j] => i = j
  BY ListType, AbortListAssumption DEF IsInjective
<1>3. /\ r \in Seq(Nodes) /\ Range(r) = Range(l) \ {a} /\ Len(r) = Len(l) - 1
      /\ \A i \in 1 .. Len(l) - 1 : r[i] = IF i < k THEN l[i] ELSE l[i + 1]
  BY <1>1, Removed, RemovedAt, Zenon
<1>4. /\ p[a] = IF k = 1 THEN Null ELSE l[k - 1]
      /\ s[a] = IF k = Len(l) THEN Null ELSE l[k + 1]
  BY <1>1 DEF Links
<1>5. \A m \in Nodes : q[m] = IF m = a THEN Null ELSE IF m = s[a] THEN p[a] ELSE p[m]
  BY DEF SetAt
<1>6. \A m \in Nodes : t[m] = IF m = a THEN Null ELSE IF m = p[a] THEN s[a] ELSE s[m]
  BY DEF SetAt
<1>7. \A i \in 1 .. Len(l) : l[i] = s[a] <=> i = k + 1
  BY <1>1, <1>2, <1>4
<1>8. \A i \in 1 .. Len(l) : l[i] = p[a] <=> i = k - 1
  BY <1>1, <1>2, <1>4
<1> HIDE DEF r, q, t
<1>9. g = IF r = <<>> THEN Null ELSE r[1]
  <2>1. r = <<>> <=> Len(l) = 1
    BY <1>1, <1>2, <1>3, ListType
  <2>2. CASE k = 1
    BY <1>2, <1>3, <1>4, <2>1, <2>2
  <2>3. CASE k # 1
    <3>1. k - 1 \in 1 .. Len(l) /\ 1 \in 1 .. Len(l) - 1 /\ 1 < k /\ Len(l) # 1
      BY <1>1, <1>2, <2>3
    <3>2. p[a] # Null /\ l # <<>>
      BY <1>2, <1>4, <2>3, <3>1, ListType
    <3> QED
      BY <1>3, <2>1, <3>1, <3>2 DEF Links
  <2> QED
    BY <2>2, <2>3
<1> HIDE DEF g
<1>10. ASSUME NEW i \in 1 .. Len(r)
       PROVE  /\ q[r[i]] = IF i = 1 THEN Null ELSE r[i - 1]
              /\ t[r[i]] = IF i = Len(r) THEN Null ELSE r[i + 1]
  <2>1. CASE i < k
    <3>1. r[i] = l[i] /\ l[i] \in Nodes /\ i \in 1 .. Len(l) /\ l[i] # a /\ l[i] # s[a]
      BY <1>1, <1>2, <1>3, <1>7, <2>1
    <3>2. q[r[i]] = IF i = 1 THEN Null ELSE l[i - 1]
      BY <1>5, <3>1 DEF Links
    <3>3. i # 1 => r[i - 1] = l[i - 1]
      BY <1>1, <1>2, <1>3, <2>1
    <3>4. CASE i = k - 1
      <4>1. t[r[i]] = IF k = Len(l) THEN Null ELSE l[k + 1]
        BY <1>4, <1>6, <1>8, <3>1, <3>4
      <4>2. k # Len(l) => r[i + 1] = l[k + 1]
        BY <1>1, <1>2, <1>3, <3>4
      <4>3. k = Len(l) <=> i = Len(r)
        BY <1>1, <1>2, <1>3, <3>4
      <4> QED
        BY <3>2, <3>3, <4>1, <4>2, <4>3
    <3>5. CASE i # k - 1
      <4>1. i + 1 < k /\ i # Len(l) /\ i # Len(r) /\ i + 1 \in 1 .. Len(l) - 1
        BY <1>1, <1>2, <1>3, <2>1, <3>5
      <4>2. t[r[i]] = l[i + 1]
        BY <1>6, <1>8, <3>1, <3>5, <4>1 DEF Links
      <4> QED
        BY <1>3, <3>2, <3>3, <4>1, <4>2
    <3> QED
      BY <3>4, <3>5
  <2>2. CASE ~(i < k)
    <3>1. /\ r[i] = l[i + 1] /\ l[i + 1] \in Nodes /\ i + 1 \in 1 .. Len(l)
          /\ l[i + 1] # a /\ l[i + 1] # p[a] /\ (l[i + 1] = s[a] <=> i = k)
      BY <1>1, <1>2, <1>3, <1>7, <1>8, <2>2
    <3>2. t[r[i]] = IF i + 1 = Len(l) THEN Null ELSE l[(i + 1) + 1]
      BY <1>6, <3>1 DEF Links
    <3>3. i = Len(r) <=> i + 1 = Len(l)
      BY <1>1, <1>2, <1>3
    <3>4. i # Len(r) => r[i + 1] = l[(i + 1) + 1]
      BY <1>1, <1>2, <1>3, <2>2
    <3>5. CASE i = k
      <4>1. q[r[i]] = IF k = 1 THEN Null ELSE l[k - 1]
        BY <1>4, <1>5, <3>1, <3>5
      <4>2. k # 1 => r[i - 1] = l[k - 1]
        BY <1>1, <1>2, <1>3, <3>5
      <4> QED
        BY <3>2, <3>3, <3>4, <3>5, <4>1, <4>2
    <3>6. CASE i # k
      <4>1. p[l[i + 1]] = l[(i + 1) - 1] /\ i # 1
        BY <1>1, <1>2, <2>2, <3>1, <3>6 DEF Links
      <4>2. q[r[i]] = p[l[i + 1]]
        BY <1>5, <3>1, <3>6
      <4>3. r[i - 1] = l[(i - 1) + 1] /\ (i - 1) + 1 = (i + 1) - 1
        BY <1>1, <1>2, <1>3, <2>2, <3>6
      <4> QED
        BY <3>2, <3>3, <3>4, <4>1, <4>2, <4>3
    <3> QED
      BY <3>5, <3>6
  <2> QED
    BY <2>1, <2>2
<1>11. ASSUME NEW m \in Nodes \ Range(r) PROVE q[m] = Null /\ t[m] = Null
  <2>1. CASE m = a
    BY <1>5, <1>6, <2>1
  <2>2. CASE m # a
    <3>1. m \notin Range(l) /\ m # Null
      BY <1>3, <1>11, <2>2, AbortListAssumption
    <3>2. m # s[a] /\ m # p[a]
      BY <1>1, <1>2, <1>4, <3>1, ListType
    <3> QED
      BY <1>5, <1>6, <2>2, <3>1, <3>2 DEF Links
  <2> QED
    BY <2>1, <2>2
<1>12. Links(r, g, q, t)
  BY <1>9, <1>10, <1>11 DEF Links
<1> QED
  BY <1>12 DEF r, g, q, t

-----------------------------------------------------------------------------
(* The nodes from a pointer on.                                            *)

LEMMA FromNode ==
    ASSUME NEW l \in Seq(Nodes), IsInjective(l), NEW p \in Range(l)
    PROVE  /\ From(l, p) \in Seq(Nodes) /\ IsSuffix(From(l, p), l)
           /\ From(l, p) # <<>> /\ Head(From(l, p)) = p
<1> DEFINE k == CHOOSE i \in DOMAIN l : l[i] = p
<1>1. k \in 1 .. Len(l) /\ l[k] = p
  <2>1. \E i \in DOMAIN l : l[i] = p
    BY DEF Range
  <2> QED
    BY <2>1, ListType
<1>2. From(l, p) = SubSeq(l, k, Len(l))
  BY DEF From
<1> HIDE DEF k
<1> QED
  BY <1>1, <1>2, SuffixAt

LEMMA FromHead ==
    ASSUME NEW l \in Seq(Nodes), IsInjective(l),
           NEW c \in Seq(Nodes), IsSuffix(c, l), c # <<>>
    PROVE  From(l, Head(c)) = c
<1>1. Head(c) \in Range(l)
  BY SuffixIsList, TailOfList
<1> QED
  BY <1>1, FromNode, SuffixUnique

(* next_ leads to the rest, and head_ to everything.                       *)
LEMMA FromLinks ==
    ASSUME NEW l \in Seq(Nodes), IsInjective(l), NEW h, NEW q, NEW s, Links(l, h, q, s)
    PROVE  /\ From(l, h) = l
           /\ \A p \in Range(l) : /\ From(l, s[p]) = Tail(From(l, p))
                                  /\ s[p] \in (Range(l) \ {p}) \cup {Null}
<1>1. Len(l) \in Nat /\ (\A i \in 1 .. Len(l) : l[i] \in Range(l)) /\ Range(l) \subseteq Nodes
  BY ListType
<1>2. Null \notin Range(l) /\ From(l, Null) = <<>>
  BY <1>1, AbortListAssumption DEF From
<1>3. From(l, h) = l
  <2>1. CASE l = <<>>
    BY <1>2, <2>1 DEF Links
  <2>2. CASE l # <<>>
    BY <2>2, FromHead, WholeIsSuffix, TailOfList DEF Links
  <2> QED
    BY <2>1, <2>2
<1>4. ASSUME NEW p \in Range(l)
      PROVE  From(l, s[p]) = Tail(From(l, p)) /\ s[p] \in (Range(l) \ {p}) \cup {Null}
  <2> DEFINE c == From(l, p)
  <2>1. c \in Seq(Nodes) /\ IsSuffix(c, l) /\ c # <<>> /\ Head(c) = p
    BY FromNode
  <2> HIDE DEF c
  <2>2. /\ Len(c) <= Len(l) /\ Len(c) \in Nat \ {0}
        /\ \A i \in 1 .. Len(c) : c[i] = l[(Len(l) - Len(c)) + i]
    BY <2>1, SuffixElements, ListType
  <2>3. /\ Head(c) = c[1] /\ Tail(c) \in Seq(Nodes) /\ Len(Tail(c)) = Len(c) - 1
        /\ \A i \in 1 .. Len(c) - 1 : Tail(c)[i] = c[i + 1]
    BY <2>1, SuffixIsList, TailOfList
  <2>4. PICK k \in 1 .. Len(l) : l[k] = p /\ k + Len(c) = Len(l) + 1
    <3>1. (Len(l) - Len(c)) + 1 \in 1 .. Len(l) /\ ((Len(l) - Len(c)) + 1) + Len(c) = Len(l) + 1
      BY <1>1, <2>2
    <3>2. l[(Len(l) - Len(c)) + 1] = p
      BY <2>1, <2>2, <2>3
    <3> QED
      BY <3>1, <3>2
  <2>5. s[p] = IF k = Len(l) THEN Null ELSE l[k + 1]
    BY <2>4 DEF Links
  <2>6. Len(l) \in Nat /\ Len(c) \in Nat \ {0}
    BY <1>1, <2>2
  <2>7. /\ k = Len(l) => Len(c) = 1
        /\ k # Len(l) => /\ k + 1 \in 1 .. Len(l) /\ 2 \in 1 .. Len(c)
                         /\ k + 1 = (Len(l) - Len(c)) + 2
    <3> DEFINE n == Len(l)
               d == Len(c)
    <3>1. n \in Nat /\ d \in Nat \ {0} /\ k \in 1 .. n /\ k + d = n + 1
      BY <2>4, <2>6
    <3> HIDE DEF n, d
    <3>2. /\ k = n => d = 1
          /\ k # n => k + 1 \in 1 .. n /\ 2 \in 1 .. d /\ k + 1 = (n - d) + 2
      BY <3>1
    <3> QED
      BY <3>2 DEF n, d
  <2>8. CASE k = Len(l)
    <3>1. Len(c) = 1
      BY <2>7, <2>8
    <3>2. Tail(c) = <<>>
      BY <2>3, <3>1, ListType
    <3> QED
      BY <1>2, <2>5, <2>8, <3>2 DEF c
  <2>9. CASE k # Len(l)
    <3>1. k + 1 \in 1 .. Len(l) /\ 2 \in 1 .. Len(c) /\ k + 1 = (Len(l) - Len(c)) + 2
      BY <2>7, <2>9
    <3>2. Tail(c) # <<>> /\ 1 \in 1 .. Len(c) - 1
      <4>1. Len(c) - 1 # 0 /\ 1 \in 1 .. Len(c) - 1
        <5> DEFINE d == Len(c)
        <5>1. d \in Nat /\ 2 \in 1 .. d
          BY <3>1, <2>6
        <5> HIDE DEF d
        <5>2. d - 1 # 0 /\ 1 \in 1 .. d - 1
          BY <5>1
        <5> QED
          BY <5>2 DEF d
      <4> QED
        BY <2>3, <4>1, ListType, Zenon
    <3>3. Head(Tail(c)) = Tail(c)[1] /\ Tail(c)[1] = c[2]
      <4>1. IsSuffix(Tail(c), l)
        BY <2>1, TailIsSuffix
      <4>2. IsInjective(Tail(c))
        BY <2>3, <4>1, SuffixIsList, Zenon
      <4> QED
        BY <2>3, <3>2, <4>2, TailOfList
    <3>4. c[2] = l[k + 1]
      BY <2>2, <3>1
    <3>5. Head(Tail(c)) = l[k + 1]
      BY <3>3, <3>4, Zenon
    <3>6. l[k + 1] # l[k] /\ l[k + 1] \in Range(l)
      BY <1>1, <2>4, <3>1, ListType DEF IsInjective
    <3>7. From(l, l[k + 1]) = Tail(c)
      BY <2>1, <2>3, <3>2, <3>5, TailIsSuffix, FromHead, Zenon
    <3>8. s[p] = l[k + 1]
      BY <2>5, <2>9
    <3> QED
      BY <2>4, <3>6, <3>7, <3>8 DEF c
  <2> QED
    BY <2>8, <2>9
<1> QED
  BY <1>3, <1>4

(* Adding a node in front changes no other's rest.                         *)
LEMMA FromAdded ==
    ASSUME NEW l \in Seq(Nodes), IsInjective(l), NEW a \in Nodes, a \notin Range(l),
           NEW p, p # a
    PROVE  From(<<a>> \o l, p) = From(l, p)
<1> DEFINE n == <<a>> \o l
<1>1. n \in Seq(Nodes) /\ IsInjective(n) /\ Range(n) = Range(l) \cup {a}
  BY AddedAtHead
<1>2. CASE p \notin Range(l)
  BY <1>1, <1>2 DEF From
<1>3. CASE p \in Range(l)
  <2> DEFINE c == From(l, p)
  <2>1. c \in Seq(Nodes) /\ IsSuffix(c, l) /\ c # <<>> /\ Head(c) = p
    BY <1>3, FromNode
  <2> HIDE DEF c
  <2>2. IsSuffix(c, n)
    BY <2>1, HeadKeepsSuffix
  <2> HIDE DEF n
  <2>3. From(n, p) = c
    BY <1>1, <2>1, <2>2, FromHead
  <2> QED
    BY <2>3 DEF c, n
<1> QED
  BY <1>2, <1>3

(* Removing a node removes it from every other's rest.                     *)
LEMMA FromRemoved ==
    ASSUME NEW l \in Seq(Nodes), IsInjective(l), NEW a, NEW p, p # a
    PROVE  From(Without(l, a), p) = Without(From(l, p), a)
<1> DEFINE r == Without(l, a)
<1>1. r \in Seq(Nodes) /\ IsInjective(r) /\ Range(r) = Range(l) \ {a}
  BY Removed
<1>2. CASE p \notin Range(l)
  <2>1. From(l, p) = <<>> /\ From(r, p) = <<>>
    BY <1>1, <1>2 DEF From
  <2>2. Without(<<>>, a) = <<>>
    <3>1. <<>> \in Seq(Nodes) /\ IsInjective(<<>>) /\ a \notin Range(<<>>)
      BY EmptyList
    <3> QED
      BY <3>1, Removed, Zenon
  <2> QED
    BY <2>1, <2>2
<1>3. CASE p \in Range(l)
  <2> DEFINE c == From(l, p)
             e == Without(c, a)
  <2>1. c \in Seq(Nodes) /\ IsSuffix(c, l) /\ c # <<>> /\ Head(c) = p
    BY <1>3, FromNode
  <2> HIDE DEF c
  <2>2. IsInjective(c)
    BY <2>1, SuffixIsList
  <2>3. e \in Seq(Nodes) /\ e # <<>> /\ Head(e) = p /\ IsSuffix(e, r)
    BY <2>1, <2>2, Removed, RemovedKeepsHead, RemovedKeepsSuffix
  <2> HIDE DEF r, e
  <2>4. From(r, p) = e
    BY <1>1, <2>3, FromHead
  <2> QED
    BY <2>4 DEF r, e, c
<1> QED
  BY <1>2, <1>3

-----------------------------------------------------------------------------
(* The inductive invariant.                                                *)

(* WellLinked, of the list.                                                *)
ListInv ==
    /\ head \in Pointers /\ linked \subseteq Nodes
    /\ prev \in [Nodes -> Pointers] /\ succ \in [Nodes -> Pointers]
    /\ list \in Seq(Nodes) /\ IsInjective(list) /\ Range(list) = linked
    /\ Links(list, head, prev, succ)

Frame == [outer : Pointers, calling : BOOLEAN]

(* The types of the walks.  The outermost one saved no cursor, so none is  *)
(* left when it ends.                                                      *)
WalkInv ==
    /\ cursor \in Pointers /\ visited \in Nodes
    /\ frames \in Seq(Frame) /\ Len(frames) <= MaxDepth
    /\ frames = <<>> => cursor = Null
    /\ frames # <<>> => frames[1].outer = Null

(* Until the promise is off every cursor, current or saved, is at a node   *)
(* of the list or at its end.                                              *)
OnList ==
    /\ strayed \in BOOLEAN
    /\ ~strayed => /\ cursor \in linked \cup {Null}
                   /\ \A i \in 1 .. Len(frames) : frames[i].outer \in linked \cup {Null}

Inv == ListInv /\ WalkInv /\ OnList

LEMMA InitInv == Init => Inv
<1> SUFFICES ASSUME Init PROVE Inv
  OBVIOUS
<1>1. <<>> \in Seq(Nodes) /\ IsInjective(<<>>) /\ Range(<<>>) = {}
  BY EmptyList
<1>2. <<>> \in Seq(Frame) /\ Len(<<>>) = 0
  BY EmptySeq
<1>3. 1 .. 0 = {} /\ 0 <= MaxDepth
  BY AbortListAssumption
<1>4. Links(list, head, prev, succ)
  BY <1>1, <1>2, <1>3 DEF Init, Links
<1>5. ListInv
  BY <1>1, <1>4 DEF Init, ListInv, Pointers
<1>6. WalkInv
  BY <1>2, <1>3 DEF Init, WalkInv, Pointers
<1>7. OnList
  BY <1>2, <1>3, Zenon DEF Init, OnList
<1> QED
  BY <1>5, <1>6, <1>7 DEF Inv

LEMMA ListKept == ListInv /\ [Next]_vars => ListInv'
<1> SUFFICES ASSUME ListInv, [Next]_vars PROVE ListInv'
  OBVIOUS
<1>1. CASE UNCHANGED <<head, linked, prev, succ, list>>
  BY <1>1 DEF ListInv
<1>2. ASSUME NEW a \in Nodes, Add(a) PROVE ListInv'
  <2>1. Links(<<a>> \o list, a, SetAt(SetAt(prev, a, Null), head, a), SetAt(succ, a, head))
    BY <1>2, AddLinks DEF ListInv, Add
  <2>2. Links(list', head', prev', succ')
    BY <1>2, <2>1 DEF Add
  <2>3. list' \in Seq(Nodes) /\ IsInjective(list') /\ Range(list') = linked'
    BY <1>2, AddedAtHead DEF ListInv, Add
  <2>4. prev' \in [Nodes -> Pointers] /\ succ' \in [Nodes -> Pointers]
    BY <1>2 DEF ListInv, Add, SetAt, Pointers
  <2>5. head' \in Pointers /\ linked' \subseteq Nodes
    BY <1>2 DEF ListInv, Add, Pointers
  <2> QED
    BY <2>2, <2>3, <2>4, <2>5 DEF ListInv
<1>3. ASSUME NEW a \in Nodes, Erase(a) PROVE ListInv'
  <2>1. a \in Range(list)
    BY <1>3 DEF ListInv, Erase
  <2>2. Links(list', head', prev', succ')
    <3>1. Links(Without(list, a), IF prev[a] = Null THEN succ[a] ELSE head,
                SetAt(SetAt(prev, succ[a], prev[a]), a, Null),
                SetAt(SetAt(succ, prev[a], succ[a]), a, Null))
      BY <2>1, EraseLinks DEF ListInv
    <3> QED
      BY <1>3, <3>1 DEF Erase
  <2>3. list' \in Seq(Nodes) /\ IsInjective(list') /\ Range(list') = linked'
    BY <1>3, Removed DEF ListInv, Erase
  <2>4. prev' \in [Nodes -> Pointers] /\ succ' \in [Nodes -> Pointers]
    BY <1>3 DEF ListInv, Erase, SetAt, Pointers
  <2>5. head' \in Pointers /\ linked' \subseteq Nodes
    BY <1>3 DEF ListInv, Erase
  <2> QED
    BY <2>2, <2>3, <2>4, <2>5 DEF ListInv
<1> QED
  BY <1>1, <1>2, <1>3 DEF Next, vars, BeginEach, VisitNext, EndEach

(* A step of a walk: the frames change as a stack does.                    *)
LEMMA BeginFrames ==
    ASSUME WalkInv, BeginEach
    PROVE  /\ frames' \in Seq(Frame) /\ frames' # <<>>
           /\ Len(frames) \in Nat /\ Len(frames') = Len(frames) + 1
           /\ frames'[Len(frames) + 1] = [outer |-> cursor, calling |-> FALSE]
           /\ \A i \in 1 .. Len(frames) : frames'[i] = frames[i]
<1>1. [outer |-> cursor, calling |-> FALSE] \in Frame
  BY DEF WalkInv, Frame
<1> QED
  BY <1>1, Pushed DEF WalkInv, BeginEach

LEMMA VisitFrames ==
    ASSUME WalkInv, VisitNext
    PROVE  /\ frames' \in Seq(Frame) /\ frames' # <<>>
           /\ Len(frames) \in Nat \ {0} /\ Len(frames') = Len(frames)
           /\ \A i \in 1 .. Len(frames) : frames'[i].outer = frames[i].outer
<1>1. /\ Len(frames) \in Nat \ {0} /\ DOMAIN frames = 1 .. Len(frames)
      /\ \A i \in 1 .. Len(frames) : frames[i] \in Frame
  BY ListType DEF WalkInv, VisitNext
<1>2. Len(frames) \in 1 .. Len(frames)
  BY <1>1
<1>3. frames' = [frames EXCEPT ![Len(frames)] = [frames[Len(frames)] EXCEPT !.calling = TRUE]]
  BY DEF VisitNext
<1> DEFINE e == [frames[Len(frames)] EXCEPT !.calling = TRUE]
<1>4. e \in Frame /\ e.outer = frames[Len(frames)].outer
  BY <1>1, <1>2, Zenon DEF Frame
<1> HIDE DEF e
<1>5. /\ frames' \in Seq(Frame) /\ Len(frames') = Len(frames)
      /\ \A i \in 1 .. Len(frames) :
            frames'[i] = IF i = Len(frames) THEN e ELSE frames[i]
  BY <1>2, <1>3, <1>4, ExceptSeq DEF e, WalkInv
<1> QED
  BY <1>1, <1>4, <1>5, ListType

LEMMA EndFrames ==
    ASSUME WalkInv, EndEach
    PROVE  /\ frames' \in Seq(Frame)
           /\ Len(frames) \in Nat \ {0} /\ Len(frames') = Len(frames) - 1
           /\ Last(frames) = frames[Len(frames)]
           /\ \A i \in 1 .. Len(frames) - 1 : frames'[i] = frames[i]
  BY Popped DEF WalkInv, EndEach

LEMMA WalkKept == ListInv /\ WalkInv /\ [Next]_vars => WalkInv'
<1> SUFFICES ASSUME ListInv, WalkInv, [Next]_vars PROVE WalkInv'
  OBVIOUS
<1>1. CASE BeginEach
  <2>1. cursor' \in Pointers /\ visited' \in Nodes
    BY <1>1 DEF ListInv, WalkInv, BeginEach
  <2>2. frames' \in Seq(Frame) /\ frames' # <<>>
    BY <1>1, BeginFrames
  <2>3. Len(frames') <= MaxDepth
    BY <1>1, BeginFrames, AbortListAssumption DEF BeginEach
  <2>4. frames'[1].outer = Null
    <3>1. CASE frames = <<>>
      <4>1. Len(frames) + 1 = 1 /\ cursor = Null
        BY <3>1, EmptySeq DEF WalkInv
      <4> QED
        BY <1>1, <4>1, BeginFrames
    <3>2. CASE frames # <<>>
      <4>1. 1 \in 1 .. Len(frames)
        BY <3>2, ListType DEF WalkInv
      <4> QED
        BY <1>1, <3>2, <4>1, BeginFrames DEF WalkInv
    <3> QED
      BY <3>1, <3>2
  <2> QED
    BY <2>1, <2>2, <2>3, <2>4 DEF WalkInv
<1>2. CASE VisitNext
  <2>1. cursor \in Nodes
    BY <1>2 DEF WalkInv, VisitNext, Pointers
  <2>2. cursor' \in Pointers /\ visited' \in Nodes
    BY <1>2, <2>1 DEF ListInv, VisitNext
  <2>3. 1 \in 1 .. Len(frames)
    BY <1>2, VisitFrames
  <2>4. frames'[1].outer = Null
    BY <1>2, <2>3, VisitFrames DEF WalkInv, VisitNext
  <2> QED
    BY <1>2, <2>2, <2>4, VisitFrames DEF WalkInv
<1>3. CASE EndEach
  <2>1. Last(frames) \in Frame
    BY <1>3, Popped DEF WalkInv, EndEach
  <2>2. cursor' \in Pointers /\ visited' \in Nodes
    BY <1>3, <2>1 DEF WalkInv, EndEach, Frame
  <2>3. Len(frames') <= MaxDepth
    BY <1>3, EndFrames, AbortListAssumption DEF WalkInv
  <2>4. ASSUME frames' = <<>> PROVE cursor' = Null
    <3>1. Len(frames) = 1
      BY <1>3, <2>4, EndFrames, EmptySeq
    <3> QED
      BY <1>3, <3>1, EndFrames DEF WalkInv, EndEach
  <2>5. ASSUME frames' # <<>> PROVE frames'[1].outer = Null
    <3>1. 1 \in 1 .. Len(frames) - 1
      BY <1>3, <2>5, EndFrames, ListType
    <3> QED
      BY <1>3, <3>1, EndFrames DEF WalkInv, EndEach
  <2> QED
    BY <1>3, <2>2, <2>3, <2>4, <2>5, EndFrames DEF WalkInv
<1>4. ASSUME NEW a \in Nodes, Add(a) PROVE WalkInv'
  BY <1>4 DEF WalkInv, Add
<1>5. ASSUME NEW a \in Nodes, Erase(a) PROVE WalkInv'
  <2>1. cursor' \in Pointers /\ (cursor = Null => cursor' = Null)
    BY <1>5, AbortListAssumption DEF ListInv, WalkInv, Erase
  <2> QED
    BY <1>5, <2>1 DEF WalkInv, Erase
<1>6. CASE UNCHANGED vars
  BY <1>6 DEF WalkInv, vars
<1> QED
  BY <1>1, <1>2, <1>3, <1>4, <1>5, <1>6 DEF Next

LEMMA OnListKept == Inv /\ [Next]_vars => OnList'
<1> SUFFICES ASSUME ListInv, WalkInv, OnList, [Next]_vars PROVE OnList'
  BY DEF Inv
<1>1. head \in linked \cup {Null}
  <2>1. list # <<>> => 1 \in 1 .. Len(list)
    BY ListType DEF ListInv
  <2> QED
    BY <2>1, ListType DEF ListInv, Links
<1>2. \A n \in linked : succ[n] \in (linked \ {n}) \cup {Null}
  BY FromLinks DEF ListInv
<1>3. CASE BeginEach
  <2>1. strayed' = strayed /\ linked' = linked /\ cursor' = head
    BY <1>3 DEF BeginEach
  <2>2. ASSUME ~strayed, NEW i \in 1 .. Len(frames') PROVE frames'[i].outer \in linked \cup {Null}
    <3>1. CASE i = Len(frames) + 1
      BY <1>3, <2>2, <3>1, BeginFrames DEF OnList
    <3>2. CASE i # Len(frames) + 1
      <4>1. i \in 1 .. Len(frames)
        BY <1>3, <3>2, BeginFrames
      <4> QED
        BY <1>3, <2>2, <4>1, BeginFrames DEF OnList
    <3> QED
      BY <3>1, <3>2
  <2> QED
    BY <1>1, <2>1, <2>2 DEF OnList
<1>4. CASE VisitNext
  <2>1. strayed' = strayed /\ linked' = linked /\ cursor' = succ[cursor] /\ cursor # Null
    BY <1>4 DEF VisitNext
  <2>2. ~strayed => cursor' \in linked \cup {Null}
    BY <1>2, <2>1 DEF OnList
  <2>3. ~strayed => \A i \in 1 .. Len(frames') : frames'[i].outer \in linked \cup {Null}
    BY <1>4, VisitFrames DEF OnList
  <2> QED
    BY <2>1, <2>2, <2>3 DEF OnList
<1>5. CASE EndEach
  <2>1. strayed' = strayed /\ linked' = linked /\ cursor' = Last(frames).outer
    BY <1>5 DEF EndEach
  <2>2. Len(frames) \in 1 .. Len(frames) /\ \A i \in 1 .. Len(frames') : i \in 1 .. Len(frames) - 1 /\ i \in 1 .. Len(frames)
    BY <1>5, EndFrames
  <2>3. ~strayed => cursor' \in linked \cup {Null}
    BY <1>5, <2>1, <2>2, EndFrames DEF OnList
  <2>4. ~strayed => \A i \in 1 .. Len(frames') : frames'[i].outer \in linked \cup {Null}
    BY <1>5, <2>2, EndFrames DEF OnList
  <2> QED
    BY <2>1, <2>3, <2>4 DEF OnList
<1>6. ASSUME NEW a \in Nodes, Add(a) PROVE OnList'
  BY <1>6 DEF OnList, Add
<1>7. ASSUME NEW a \in Nodes, Erase(a) PROVE OnList'
  <2>1. strayed' \in BOOLEAN
    BY <1>7, Zenon DEF Erase, OnList
  <2>2. ASSUME ~strayed'
        PROVE  ~strayed /\ \A i \in 1 .. Len(frames) : frames[i].outer # a
    <3>1. DOMAIN frames = 1 .. Len(frames)
      BY ListType DEF WalkInv
    <3> QED
      BY <1>7, <2>2, <3>1, Zenon DEF Erase
  <2>3. a \in linked /\ linked' = linked \ {a} /\ frames' = frames
    BY <1>7 DEF Erase
  <2>4. ~strayed' => cursor' \in linked' \cup {Null}
    BY <1>2, <1>7, <2>2, <2>3 DEF Erase, OnList
  <2>5. ~strayed' => \A i \in 1 .. Len(frames') : frames'[i].outer \in linked' \cup {Null}
    BY <2>2, <2>3 DEF OnList
  <2> QED
    BY <2>1, <2>4, <2>5 DEF OnList
<1>8. CASE UNCHANGED vars
  BY <1>8 DEF OnList, vars
<1> QED
  BY <1>3, <1>4, <1>5, <1>6, <1>7, <1>8 DEF Next

LEMMA InvHolds == Spec => []Inv
<1>1. Inv /\ [Next]_vars => Inv'
  BY ListKept, WalkKept, OnListKept DEF Inv
<1> QED
  BY <1>1, InitInv, PTL DEF Spec

(* AbortList's links stay those of one list, whatever its callbacks do:    *)
(* add() and remove() keep head_, prev_ and next_ consistent with what was *)
(* added and not removed.                                                  *)
THEOREM LinksConsistent == Spec => []WellLinked
<1>1. Inv => WellLinked
  BY DEF Inv, ListInv, WalkInv, OnList, WellLinked, TypeOK, Links, Frame
<1> QED
  BY <1>1, InvHolds, PTL

-----------------------------------------------------------------------------
(* The refinement.                                                         *)

(* TrackedList's operators on sequences are AbortList's.                   *)
LEMMA SameOperators ==
    /\ \A s : Promise!Last(s) = Last(s) /\ Promise!Front(s) = Front(s)
    /\ \A s : Promise!Range(s) = Range(s)
    /\ \A s, a : Promise!Without(s, a) = Without(s, a)
  BY Zenon DEF Promise!Last, Promise!Front, Last, Front, Promise!Range, Range,
     Promise!Without, Without

(* What the walks with the frames f, the innermost at c, have still to     *)
(* visit of l.                                                             *)
WalksOf(l, f, c) ==
    [i \in DOMAIN f |-> From(l, IF i = Len(f) THEN c ELSE f[i + 1].outer)]

LEMMA WalksOfType ==
    ASSUME NEW l \in Seq(Nodes), IsInjective(l), NEW f \in Seq(Frame), NEW c
    PROVE  /\ Len(f) \in Nat /\ DOMAIN WalksOf(l, f, c) = 1 .. Len(f)
           /\ WalksOf(l, f, c) \in Seq(Seq(Nodes)) /\ Len(WalksOf(l, f, c)) = Len(f)
           /\ \A i \in 1 .. Len(f) :
                WalksOf(l, f, c)[i] = From(l, IF i = Len(f) THEN c ELSE f[i + 1].outer)
<1>1. Len(f) \in Nat /\ DOMAIN f = 1 .. Len(f)
  BY ListType
<1>2. \A p : From(l, p) \in Seq(Nodes)
  BY FromNode, EmptyList DEF From
<1> DEFINE w == WalksOf(l, f, c)
<1>3. w = [i \in 1 .. Len(f) |-> From(l, IF i = Len(f) THEN c ELSE f[i + 1].outer)]
  BY <1>1 DEF WalksOf
<1> HIDE DEF w
<1>4. w \in [1 .. Len(f) -> Seq(Nodes)]
  BY <1>2, <1>3
<1>5. w \in Seq(Seq(Nodes)) /\ Len(w) = Len(f)
  BY <1>1, <1>4
<1> QED
  BY <1>1, <1>3, <1>4, <1>5, Zenon DEF w

(* The innermost walk.                                                     *)
LEMMA WalksLast ==
    ASSUME NEW l \in Seq(Nodes), IsInjective(l), NEW f \in Seq(Frame), NEW c, f # <<>>
    PROVE  /\ WalksOf(l, f, c) # <<>> /\ Len(f) \in Nat \ {0}
           /\ WalksOf(l, f, c)[Len(f)] = From(l, c)
<1>1. Len(f) \in Nat \ {0} /\ Len(f) \in 1 .. Len(f)
  BY ListType
<1> DEFINE w == WalksOf(l, f, c)
<1>2. w \in Seq(Seq(Nodes)) /\ Len(w) = Len(f) /\ w[Len(f)] = From(l, c)
  BY <1>1, WalksOfType
<1> HIDE DEF w
<1>3. w # <<>>
  BY <1>1, <1>2, ListType
<1> QED
  BY <1>1, <1>2, <1>3 DEF w

LEMMA BeginPromised ==
    ASSUME ListInv, WalkInv, BeginEach
    PROVE  Promise!Begin
<1> DEFINE w == Walks
           n == Len(frames)
<1>1. w = WalksOf(list, frames, cursor) /\ Walks' = WalksOf(list, frames', head)
  BY DEF Walks, WalksOf, BeginEach
<1>2. From(list, head) = list
  BY FromLinks DEF ListInv
<1>3. list \in Seq(Nodes) /\ IsInjective(list) /\ frames \in Seq(Frame)
  BY DEF ListInv, WalkInv
<1>4. /\ frames' \in Seq(Frame) /\ n \in Nat /\ Len(frames') = n + 1
      /\ frames'[n + 1].outer = cursor
      /\ \A i \in 1 .. n : frames'[i] = frames[i]
  BY BeginFrames
<1>5. w \in Seq(Seq(Nodes)) /\ Len(w) = n
  BY <1>1, <1>3, WalksOfType
<1>6. /\ Append(w, list) \in Seq(Seq(Nodes)) /\ Len(Append(w, list)) = n + 1
      /\ Append(w, list)[n + 1] = list
      /\ \A i \in 1 .. n : Append(w, list)[i] = w[i]
  BY <1>3, <1>5, Pushed
<1>7. /\ Walks' \in Seq(Seq(Nodes)) /\ Len(Walks') = n + 1
      /\ \A i \in 1 .. n + 1 :
            Walks'[i] = From(list, IF i = n + 1 THEN head ELSE frames'[i + 1].outer)
  <2> DEFINE g == frames'
             v == WalksOf(list, g, head)
  <2>1. g \in Seq(Frame)
    BY <1>4
  <2>2. Len(g) = n + 1
    BY <1>4
  <2> HIDE DEF g, n
  <2>3. /\ v \in Seq(Seq(Nodes)) /\ Len(v) = Len(g)
        /\ \A i \in 1 .. Len(g) :
            v[i] = From(list, IF i = Len(g) THEN head ELSE g[i + 1].outer)
    BY <1>3, <2>1, WalksOfType
  <2> HIDE DEF v
  <2>4. Walks' = v
    BY <1>1 DEF v, g
  <2> QED
    BY <2>3, <2>4, <2>2 DEF g
<1>8. \A i \in 1 .. n : w[i] = From(list, IF i = n THEN cursor ELSE frames[i + 1].outer)
  BY <1>1, <1>3, WalksOfType
<1> HIDE DEF w, n
<1>9. ASSUME NEW i \in 1 .. n + 1 PROVE Walks'[i] = Append(w, list)[i]
  <2>1. CASE i = n + 1
    BY <1>2, <1>6, <1>7, <2>1
  <2>2. CASE i # n + 1
    <3>1. i \in 1 .. n /\ i \in 1 .. n + 1 /\ (i # n => i + 1 \in 1 .. n)
      BY <1>4, <2>2
    <3>2. frames'[i + 1].outer = IF i = n THEN cursor ELSE frames[i + 1].outer
      BY <1>4, <3>1
    <3>3. Walks'[i] = From(list, frames'[i + 1].outer)
      BY <1>7, <2>2, <3>1
    <3> QED
      BY <1>6, <1>8, <3>1, <3>2, <3>3
  <2> QED
    BY <2>1, <2>2, Zenon
<1>10. Walks' = Append(w, list)
  BY <1>6, <1>7, <1>9, SeqEqual
<1> QED
  BY <1>10 DEF Promise!Begin, w, BeginEach


LEMMA VisitPromised ==
    ASSUME ListInv, WalkInv, OnList, VisitNext, ~strayed
    PROVE  Promise!Visit
<1> DEFINE c == From(list, cursor)
           g == frames'
           n == Len(frames)
           w == WalksOf(list, frames, cursor)
           v == WalksOf(list, g, succ[cursor])
<1>1. Walks = w /\ Walks' = v
  BY DEF Walks, WalksOf, VisitNext
<1>2. list \in Seq(Nodes) /\ IsInjective(list) /\ frames \in Seq(Frame) /\ frames # <<>>
  BY DEF ListInv, WalkInv, VisitNext
<1>3. cursor \in Range(list)
  BY DEF OnList, ListInv, VisitNext
<1>4. c # <<>> /\ Head(c) = cursor
  BY <1>2, <1>3, FromNode
<1>5. From(list, succ[cursor]) = Tail(c)
  BY <1>3, FromLinks DEF ListInv
<1>6. g \in Seq(Frame) /\ g # <<>>
  BY VisitFrames
<1>7. Len(g) = n /\ n \in Nat \ {0} /\ \A i \in 1 .. n : g[i].outer = frames[i].outer
  BY VisitFrames
<1> HIDE DEF c, g, n
<1>8. w # <<>> /\ w[n] = c
  BY <1>2, WalksLast DEF c, n
<1>9. v[n] = Tail(c)
  BY <1>2, <1>5, <1>6, <1>7, WalksLast
<1>10. w \in Seq(Seq(Nodes)) /\ Len(w) = n /\ v \in Seq(Seq(Nodes)) /\ Len(v) = n
  BY <1>2, <1>6, <1>7, WalksOfType DEF n
<1>11. \A i \in 1 .. n - 1 : w[i] = v[i]
  <2>1. \A i \in 1 .. n : w[i] = From(list, IF i = n THEN cursor ELSE frames[i + 1].outer)
    BY <1>2, WalksOfType DEF n
  <2>2. \A i \in 1 .. Len(g) :
            v[i] = From(list, IF i = Len(g) THEN succ[cursor] ELSE g[i + 1].outer)
    BY <1>2, <1>6, WalksOfType
  <2> HIDE DEF w, v
  <2>3. \A i \in 1 .. n - 1 :
            i \in 1 .. n /\ i # n /\ i \in 1 .. Len(g) /\ i # Len(g) /\ i + 1 \in 1 .. n
    BY <1>7
  <2> QED
    BY <1>7, <2>1, <2>2, <2>3
<1> HIDE DEF w, v
<1>12. v = [w EXCEPT ![n] = Tail(w[n])]
  <2> DEFINE u == [w EXCEPT ![n] = Tail(c)]
  <2>1. n \in 1 .. Len(w) /\ Tail(c) \in Seq(Nodes) /\ \A i \in 1 .. n : i = n \/ i \in 1 .. n - 1
    <3>1. Tail(c) \in Seq(Nodes)
      BY <1>2, <1>3, FromNode, SuffixIsList, TailOfList DEF c
    <3>2. n \in 1 .. n /\ \A i \in 1 .. n : i = n \/ i \in 1 .. n - 1
      BY <1>7
    <3> QED
      BY <1>10, <3>1, <3>2
  <2>2. /\ u \in Seq(Seq(Nodes)) /\ Len(u) = n
        /\ \A i \in 1 .. n : u[i] = IF i = n THEN Tail(c) ELSE w[i]
    BY <1>10, <2>1, ExceptSeq
  <2> HIDE DEF u
  <2>3. \A i \in 1 .. n : v[i] = u[i]
    BY <1>9, <1>11, <2>1, <2>2, Zenon
  <2>4. v = u
    BY <1>10, <2>2, <2>3, SeqEqual
  <2> QED
    BY <1>8, <2>4 DEF u
<1>13. visited' = Head(w[n]) /\ UNCHANGED <<list, strayed>>
  BY <1>4, <1>8 DEF VisitNext
<1> QED
  BY <1>1, <1>4, <1>8, <1>10, <1>12, <1>13, SameOperators, Zenon DEF Promise!Visit, Last

LEMMA EndPromised ==
    ASSUME ListInv, WalkInv, EndEach
    PROVE  Promise!End
<1> DEFINE g == frames'
           n == Len(frames)
           d == frames[n].outer
           w == WalksOf(list, frames, cursor)
           v == WalksOf(list, g, d)
<1>1. list \in Seq(Nodes) /\ IsInjective(list) /\ frames \in Seq(Frame) /\ frames # <<>>
  BY DEF ListInv, WalkInv, EndEach
<1>2. g \in Seq(Frame)
  BY EndFrames
<1>3. /\ Len(g) = n - 1 /\ n \in Nat \ {0} /\ Last(frames) = frames[n]
      /\ \A i \in 1 .. n - 1 : g[i] = frames[i]
  BY EndFrames
<1>4. Walks = w /\ Walks' = v
  BY <1>3 DEF Walks, WalksOf, EndEach
<1>5. From(list, cursor) = <<>>
  <2>1. Null \notin Range(list)
    BY <1>1, ListType, AbortListAssumption
  <2> QED
    BY <2>1 DEF From, EndEach
<1> HIDE DEF g, d
<1>6. w # <<>> /\ w[n] = <<>> /\ w \in Seq(Seq(Nodes)) /\ Len(w) = n
  BY <1>1, <1>5, WalksLast, WalksOfType
<1>7. \A i \in 1 .. n : w[i] = From(list, IF i = n THEN cursor ELSE frames[i + 1].outer)
  BY <1>1, WalksOfType
<1>8. /\ v \in Seq(Seq(Nodes)) /\ Len(v) = Len(g)
      /\ \A i \in 1 .. Len(g) : v[i] = From(list, IF i = Len(g) THEN d ELSE g[i + 1].outer)
  BY <1>1, <1>2, WalksOfType
<1>9. d = frames[n].outer
  BY DEF d
<1> HIDE DEF w, v, n
<1>10. ASSUME NEW i \in 1 .. n - 1 PROVE v[i] = w[i]
  <2>1. i \in 1 .. n /\ i # n /\ i \in 1 .. Len(g) /\ (i = n - 1 => i + 1 = n)
        /\ (i # n - 1 => i + 1 \in 1 .. n - 1)
    BY <1>3
  <2>2. v[i] = From(list, frames[i + 1].outer)
    BY <1>3, <1>8, <1>9, <2>1
  <2> QED
    BY <1>7, <2>1, <2>2
<1>11. /\ Front(w) \in Seq(Seq(Nodes)) /\ Len(Front(w)) = n - 1
       /\ \A i \in 1 .. n - 1 : Front(w)[i] = w[i]
  BY <1>6, Popped, Zenon
<1>12. v = Front(w)
  BY <1>3, <1>8, <1>10, <1>11, SeqEqual
<1>13. Last(w) = <<>>
  BY <1>6 DEF Last
<1> QED
  BY <1>4, <1>6, <1>12, <1>13, SameOperators DEF Promise!End, EndEach


LEMMA AddPromised ==
    ASSUME ListInv, WalkInv, OnList, NEW a \in Nodes, Add(a), ~strayed
    PROVE  Promise!Add(a)
<1> DEFINE m == <<a>> \o list
           n == Len(frames)
           w == WalksOf(list, frames, cursor)
           v == WalksOf(m, frames, cursor)
<1>1. Walks = w /\ Walks' = v
  BY DEF Walks, WalksOf, Add
<1>2. list \in Seq(Nodes) /\ IsInjective(list) /\ frames \in Seq(Frame)
  BY DEF ListInv, WalkInv
<1>3. a \notin Range(list)
  BY DEF ListInv, Add
<1>4. m \in Seq(Nodes) /\ IsInjective(m)
  BY <1>2, <1>3, AddedAtHead
<1>5. cursor # a /\ \A i \in 1 .. n : frames[i].outer # a
  BY AbortListAssumption DEF OnList, Add
<1>6. \A p : p # a => From(m, p) = From(list, p)
  BY <1>2, <1>3, FromAdded
<1> HIDE DEF m
<1>7. /\ n \in Nat /\ w \in Seq(Seq(Nodes)) /\ Len(w) = n
      /\ \A i \in 1 .. n : w[i] = From(list, IF i = n THEN cursor ELSE frames[i + 1].outer)
  BY <1>2, WalksOfType
<1>8. /\ v \in Seq(Seq(Nodes)) /\ Len(v) = n
      /\ \A i \in 1 .. n : v[i] = From(m, IF i = n THEN cursor ELSE frames[i + 1].outer)
  BY <1>2, <1>4, WalksOfType
<1> HIDE DEF w, v, n
<1>9. ASSUME NEW i \in 1 .. n PROVE v[i] = w[i]
  <2>1. i # n => i + 1 \in 1 .. n
    BY <1>7
  <2> QED
    BY <1>5, <1>6, <1>7, <1>8, <2>1, Zenon
<1>10. v = w
  BY <1>7, <1>8, <1>9, SeqEqual
<1> QED
  BY <1>1, <1>3, <1>10, SameOperators DEF Promise!Add, Add

LEMMA ErasePromised ==
    ASSUME ListInv, WalkInv, OnList, NEW a \in Nodes, Erase(a), ~strayed'
    PROVE  Promise!Erase(a)
<1> DEFINE r == Without(list, a)
           d == IF cursor = a THEN succ[a] ELSE cursor
           n == Len(frames)
           w == WalksOf(list, frames, cursor)
           v == WalksOf(r, frames, d)
<1>1. Walks = w /\ Walks' = v
  BY DEF Walks, WalksOf, Erase
<1>2. list \in Seq(Nodes) /\ IsInjective(list) /\ frames \in Seq(Frame)
  BY DEF ListInv, WalkInv
<1>3. a \in Range(list)
  BY DEF ListInv, Erase
<1>4. r \in Seq(Nodes) /\ IsInjective(r)
  BY <1>2, Removed
<1>5. strayed' = strayed /\ \A i \in 1 .. n : frames[i].outer # a
  <2>1. DOMAIN frames = 1 .. n
    BY <1>2, ListType
  <2> QED
    BY <2>1, Zenon DEF Erase, OnList
<1>6. \A p : p # a => From(r, p) = Without(From(list, p), a)
  BY <1>2, FromRemoved
<1>7. From(r, d) = Without(From(list, cursor), a)
  <2>1. CASE cursor # a
    BY <1>6, <2>1
  <2>2. CASE cursor = a
    <3> DEFINE c == From(list, a)
    <3>1. From(list, succ[a]) = Tail(c) /\ succ[a] # a
      BY <1>3, FromLinks, AbortListAssumption DEF ListInv
    <3>2. c \in Seq(Nodes) /\ IsInjective(c) /\ c # <<>> /\ Head(c) = a
      BY <1>2, <1>3, FromNode, SuffixIsList
    <3> HIDE DEF c
    <3>3. /\ Tail(c) \in Seq(Nodes) /\ IsInjective(Tail(c)) /\ a \notin Range(Tail(c))
          /\ Tail(c) = Without(c, a)
      BY <3>2, TailOfList
    <3>4. Without(Tail(c), a) = Tail(c)
      BY <3>3, Removed, Zenon
    <3>5. From(r, succ[a]) = Without(c, a)
      BY <1>6, <3>1, <3>3, <3>4, Zenon
    <3> QED
      BY <2>2, <3>5 DEF c
  <2> QED
    BY <2>1, <2>2
<1> HIDE DEF r, d
<1>8. /\ n \in Nat /\ w \in Seq(Seq(Nodes)) /\ DOMAIN w = 1 .. n
      /\ \A i \in 1 .. n : w[i] = From(list, IF i = n THEN cursor ELSE frames[i + 1].outer)
  BY <1>2, WalksOfType
<1>9. /\ v \in Seq(Seq(Nodes)) /\ DOMAIN v = 1 .. n
      /\ \A i \in 1 .. n : v[i] = From(r, IF i = n THEN d ELSE frames[i + 1].outer)
  BY <1>2, <1>4, WalksOfType
<1> HIDE DEF w, v, n
<1>10. ASSUME NEW i \in 1 .. n PROVE v[i] = Without(w[i], a)
  <2>1. i # n => i + 1 \in 1 .. n
    BY <1>8
  <2> QED
    BY <1>5, <1>6, <1>7, <1>8, <1>9, <2>1, Zenon
<1>11. v = [i \in DOMAIN w |-> Without(w[i], a)]
  BY <1>8, <1>9, <1>10
<1>12. list' = Without(list, a) /\ visited' = visited
  BY DEF Erase
<1> QED
  BY <1>1, <1>5, <1>11, <1>12, SameOperators DEF Promise!Erase


(* AbortList implements TrackedList: each(), add() and remove() are steps  *)
(* of the promised list and its walks, until a nested walk removes the     *)
(* node at which an outer one would go on.                                 *)
THEOREM ImplementsTrackedList == Spec => KeepsPromise
<1>1. Init => Promise!Init
  <2> SUFFICES ASSUME Init PROVE Promise!Init
    OBVIOUS
  <2>1. DOMAIN <<>> = {}
    BY EmptySeq
  <2>2. Walks = <<>>
    BY <2>1 DEF Init, Walks
  <2> QED
    BY <2>2 DEF Init, Promise!Init
<1>2. Inv /\ [Next]_vars => [Promise!Next \/ strayed']_(Promise!vars)
  <2> SUFFICES ASSUME ListInv, WalkInv, OnList, [Next]_vars, ~strayed',
                      ~ UNCHANGED Promise!vars
               PROVE  Promise!Next
    BY DEF Inv
  <2>1. CASE BeginEach
    BY <2>1, BeginPromised DEF Promise!Next
  <2>2. CASE VisitNext
    BY <2>2, VisitPromised DEF Promise!Next, VisitNext
  <2>3. CASE EndEach
    BY <2>3, EndPromised DEF Promise!Next
  <2>4. ASSUME NEW a \in Nodes, Add(a) PROVE Promise!Next
    <3>1. ~strayed
      BY <2>4 DEF Add
    <3> QED
      BY <2>4, <3>1, AddPromised DEF Promise!Next
  <2>5. ASSUME NEW a \in Nodes, Erase(a) PROVE Promise!Next
    BY <2>5, ErasePromised DEF Promise!Next
  <2>6. CASE UNCHANGED vars
    BY <2>6 DEF vars, Promise!vars, Walks
  <2> QED
    BY <2>1, <2>2, <2>3, <2>4, <2>5, <2>6 DEF Next
<1> QED
  BY <1>1, <1>2, InvHolds, PTL DEF Spec, KeepsPromise, Promise!Spec
=============================================================================
