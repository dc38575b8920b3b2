---------------------------- MODULE LagSnapshot -----------------------------
(***************************************************************************)
(* struct LagSnapshot of reactor_lag.h: a histogram of latenesses in       *)
(* microseconds, with four exact buckets for 0 to 3 and then four for each *)
(* power of two, the quantile read from it, and the difference of two.     *)
(* Buckets are numbered from 0, as in the code.                            *)
(***************************************************************************)
EXTENDS Integers, Sequences, FiniteSets

CONSTANTS
    Powers,   \* powers of two with buckets of their own; 30 in the code
    Rough     \* from here on den * total is too large for a double; 2^51 in the code

ASSUME LagSnapshotAssumption == Powers \in Nat /\ Rough \in Nat

(* 1 << n.                                                                 *)
Pow2[n \in Nat] == IF n = 0 THEN 1 ELSE 2 * Pow2[n - 1]

buckets == 4 + Powers * 4

Buckets == 0 .. buckets - 1

(* Where the last bucket's range ends in name; it holds all above too.     *)
Top == Pow2[Powers + 2]

(* The place of the highest bit.                                           *)
Exponent(us) == CHOOSE e \in 2 .. Powers + 1 : Pow2[e] <= us /\ us < Pow2[e + 1]

index_of(us) ==
    IF us < 4 THEN us
    ELSE IF us >= Top THEN buckets - 1
    ELSE LET e == Exponent(us) IN 4 + (e - 2) * 4 + ((us \div Pow2[e - 2]) % 4)

(* The exclusive upper edge of bucket i, and the inclusive lower one.      *)
upper_us(i) == IF i < 4 THEN i + 1 ELSE (5 + ((i - 4) % 4)) * Pow2[(i - 4) \div 4]

lower_us(i) == IF i = 0 THEN 0 ELSE upper_us(i - 1)

(* count summed over buckets 0 .. i.                                       *)
Seen(count, i) ==
    LET seen[k \in Buckets] == count[k] + IF k = 0 THEN 0 ELSE seen[k - 1]
    IN  seen[i]

Total(count) == Seen(count, buckets - 1)

(* How many wakes the quantile q = num/den asks for: q * total rounded up, *)
(* and at least one.  The product is a double.  Where it is a whole number *)
(* the rounding of q and of the product may put it just above, so that one *)
(* more is asked for (round = 1).  In a histogram so large that a fraction *)
(* is lost in the rounding, it may end on the other side of a whole number *)
(* either way (round = 1 or -1), by one as long as the total itself is a   *)
(* double (bound: 2^53 wakes).  q = 1 is exact, and no q < 1 is rounded    *)
(* above it.                                                               *)
Need(num, den, total, round) ==
    LET product == num * total
        crosses == den * total >= Rough \/ ((product % den) = 0 /\ round = 1)
        need == (product + den - 1) \div den + IF num < den /\ crosses THEN round ELSE 0
    IN  IF need <= 0 THEN 1 ELSE IF need > total THEN total ELSE need

(* The first of a set of buckets.                                          *)
First(S) == CHOOSE i \in S : \A j \in S : i <= j

(* Mutant: the bucket in which the rank is passed, not reached.            *)
quantile_upper_us_Past(count, num, den, round) ==
    LET total == Total(count)
        need == Need(num, den, total, round)
        enough == {i \in Buckets : Seen(count, i) > need}
    IN  IF total = 0 THEN 0
        ELSE IF enough = {} THEN upper_us(buckets - 1) ELSE upper_us(First(enough))

quantile_upper_us(count, num, den, round) ==
    LET total == Total(count)
        need == Need(num, den, total, round)
        enough == {i \in Buckets : Seen(count, i) >= need}
    IN  IF total = 0 THEN 0
        ELSE IF enough = {} THEN upper_us(buckets - 1) ELSE upper_us(First(enough))

(* A snapshot less an earlier one of the same probe.                       *)
since(s, earlier) ==
    [count |-> [i \in Buckets |-> s.count[i] - earlier.count[i]],
     wakes |-> s.wakes - earlier.wakes,
     sum_us |-> s.sum_us - earlier.sum_us,
     max_us |-> s.max_us]

-----------------------------------------------------------------------------
(* The values next to an edge of some bucket.                              *)
NearEdges == UNION {{upper_us(i) - 1, upper_us(i), upper_us(i) + 1} : i \in Buckets}

(* The edges cut the microseconds into buckets: every lateness lies within *)
(* the edges of the bucket it is counted in (the last one is open above),  *)
(* and the edges ascend, so the buckets neither overlap nor leave a gap    *)
(* (reactor_lag.h:60-74).                                                  *)
EdgesPartition(lates) ==
    /\ \A i \in Buckets : lower_us(i) < upper_us(i)
    /\ \A us \in lates :
        LET i == index_of(us)
        IN  i \in Buckets /\ lower_us(i) <= us /\ (us < upper_us(i) \/ i = buckets - 1)

(* The histogram of a sequence of latenesses, and how many of them are     *)
(* earlier than us.                                                        *)
Histogram(lates) == [i \in Buckets |-> Cardinality({k \in DOMAIN lates : index_of(lates[k]) = i})]

Earlier(lates, us) == Cardinality({k \in DOMAIN lates : lates[k] < us})

(* The quantile num/den of the latenesses is right to within a bucket.     *)
(* The rank asked for is the fraction's to within one, and not below it    *)
(* unless the histogram is too large for a double; the result is an upper  *)
(* edge, that many were earlier than it (unless the bucket is the last,    *)
(* which is open), and fewer than the bucket's lower edge                  *)
(* (reactor_lag.h:76-91).                                                  *)
QuantileWithinBucket(lates, num, den, round) ==
    LET edge == quantile_upper_us(Histogram(lates), num, den, round)
        need == Need(num, den, Len(lates), round)
        lost == IF den * Len(lates) >= Rough THEN 1 ELSE 0
    IN  IF lates = <<>> THEN edge = 0
        ELSE /\ den * (need + lost) >= num * Len(lates)
             /\ den * (need - 1 - lost) <= num * Len(lates)
             /\ \E i \in Buckets :
                    /\ edge = upper_us(i)
                    /\ Earlier(lates, lower_us(i)) < need
                    /\ i = buckets - 1 \/ Earlier(lates, edge) >= need
=============================================================================
