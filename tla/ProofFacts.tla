----------------------------- MODULE ProofFacts -----------------------------
(***************************************************************************)
(* Facts about numbers and sequences that the proofs of several components  *)
(* rest on.  The induction theorems of the library take an operator as a    *)
(* parameter; here induction is over a set of numbers instead.             *)
(***************************************************************************)
EXTENDS Integers, Sequences, FiniteSetTheorems, TLAPS

(* The natural numbers, by the least of those that are not in a set.       *)

LEMMA LeastNumber ==
  ASSUME NEW S \in SUBSET Nat, S # {}
  PROVE  \E x \in S : \A y \in S : x <= y
  <1> DEFINE R == {ss \in Nat \X Nat : ss[1] < ss[2]}
  <1>1. IsWellFoundedOn(R, Nat)
    BY NatLessThanWellFounded DEF OpToRel
  <1>2. PICK x \in S : \A y \in S : ~(<<y, x>> \in R)
    <2> HIDE DEF R
    <2> QED
      BY <1>1, WFMin
  <1>3. ASSUME NEW y \in S PROVE x <= y
    <2>1. ~(<<y, x>> \in R) /\ x \in Nat /\ y \in Nat
      BY <1>2
    <2>2. <<y, x>> \in R <=> y < x
      BY <2>1
    <2> QED
      BY <2>1, <2>2
  <1> QED
    BY <1>2, <1>3

LEMMA AllNumbers ==
  ASSUME NEW S \in SUBSET Nat, 0 \in S, \A n \in S : n + 1 \in S
  PROVE  S = Nat
  <1> SUFFICES ASSUME S # Nat PROVE FALSE
    OBVIOUS
  <1>1. PICK x \in Nat \ S : \A y \in Nat \ S : x <= y
    BY LeastNumber
  <1>2. x # 0 /\ x - 1 \in Nat
    BY <1>1
  <1>3. x - 1 \in S
    BY <1>1, <1>2
  <1>4. x - 1 + 1 = x
    BY <1>1
  <1> QED
    BY <1>1, <1>3, <1>4

-----------------------------------------------------------------------------
(* Sequences.                                                              *)

LEMMA Concatenation ==
  ASSUME NEW S, NEW s \in Seq(S), NEW t \in Seq(S)
  PROVE  s \o t \in Seq(S) /\ Len(s \o t) = Len(s) + Len(t)
  OBVIOUS

\* A sequence without its k-th element has the others, in their order.
LEMMA Removal ==
  ASSUME NEW S, NEW s \in Seq(S), NEW k \in 1..Len(s)
  PROVE  LET t == SubSeq(s, 1, k - 1) \o SubSeq(s, k + 1, Len(s))
         IN  /\ t \in Seq(S) /\ Len(t) = Len(s) - 1
             /\ \A i \in 1..Len(t) : t[i] = IF i < k THEN s[i] ELSE s[i + 1]
  <1> DEFINE a == SubSeq(s, 1, k - 1)
             b == SubSeq(s, k + 1, Len(s))
  <1>1. Len(s) \in Nat /\ k \in Nat /\ k >= 1 /\ k <= Len(s)
    OBVIOUS
  <1>2. a \in Seq(S) /\ Len(a) = k - 1 /\ \A i \in 1..(k - 1) : a[i] = s[i]
    BY <1>1
  <1>3. /\ b \in Seq(S) /\ Len(b) = Len(s) - k
        /\ \A i \in 1..(Len(s) - k) : b[i] = s[k + i]
    BY <1>1
  <1> HIDE DEF a, b
  <1>4. a \o b \in Seq(S) /\ Len(a \o b) = Len(s) - 1
    <2>1. a \o b \in Seq(S) /\ Len(a \o b) = Len(a) + Len(b)
      BY <1>2, <1>3, Concatenation, Zenon
    <2> QED
      BY <1>1, <1>2, <1>3, <2>1
  <1>5. \A i \in 1..(Len(s) - 1) : (a \o b)[i] = IF i < k THEN s[i] ELSE s[i + 1]
    <2> SUFFICES ASSUME NEW i \in 1..(Len(s) - 1)
                 PROVE  (a \o b)[i] = IF i < k THEN s[i] ELSE s[i + 1]
      OBVIOUS
    <2>1. CASE i < k
      BY <1>1, <1>2, <1>3, <2>1
    <2>2. CASE i >= k
      <3>1. (a \o b)[i] = b[i - (k - 1)] /\ i - (k - 1) \in 1..(Len(s) - k)
        BY <1>1, <1>2, <1>3, <2>2
      <3>2. b[i - (k - 1)] = s[k + (i - (k - 1))] /\ k + (i - (k - 1)) = i + 1
        BY <1>1, <1>3, <3>1
      <3> QED
        BY <1>1, <2>2, <3>1, <3>2
    <2>3. i \in Int /\ k \in Int
      BY <1>1
    <2>4. i < k \/ i >= k
      BY <2>3
    <2> QED
      BY <2>1, <2>2, <2>4, Zenon
  <1> QED
    BY <1>4, <1>5 DEF a, b

-----------------------------------------------------------------------------
(* Linked lists: q lists the n members of S that are reached from h along   *)
(* the links nx, of which the last is end.                                 *)

Chained(S, h, nx, end, n, q) ==
  /\ n \in Nat
  /\ q \in [1..n -> S]
  /\ \A j, k \in 1..n : q[j] = q[k] => j = k
  /\ h = IF n = 0 THEN end ELSE q[1]
  /\ \A k \in 1..n : nx[q[k]] = IF k < n THEN q[k + 1] ELSE end

Members(n, q) == {q[k] : k \in 1..n}

\* The members themselves, without their order.
List(S, h, nx, end, n, M) ==
  \E q : Chained(S, h, nx, end, n, q) /\ Members(n, q) = M

\* The k-th place from h, counted from 0.
PlaceOf(n, q, end) == [k \in Nat |-> IF k < n THEN q[k + 1] ELSE end]

\* A walk from h along the links of members, until end.
Follows(f, h, nx, end, members) ==
  /\ f[0] = h
  /\ \A k \in Nat \ {0} : /\ f[k - 1] = end => f[k] = end
                          /\ f[k - 1] \in members => f[k] = nx[f[k - 1]]

LEMMA PlaceIsNext ==
  ASSUME NEW S, NEW h, NEW nx, NEW end, end \notin S, NEW n, NEW q, Chained(S, h, nx, end, n, q)
  PROVE  Follows(PlaceOf(n, q, end), h, nx, end, Members(n, q))
  <1> DEFINE f == PlaceOf(n, q, end)
  <1>1. n \in Nat /\ q \in [1..n -> S]
    BY DEF Chained
  <1>2. \A k \in Nat : f[k] = IF k < n THEN q[k + 1] ELSE end
    BY DEF PlaceOf
  <1>3. f[0] = h
    BY <1>1, <1>2 DEF Chained
  <1>4. ASSUME NEW k \in Nat \ {0}
        PROVE  /\ f[k - 1] = end => f[k] = end
               /\ f[k - 1] \in Members(n, q) => f[k] = nx[f[k - 1]]
    <2>1. k - 1 \in Nat /\ (k - 1) + 1 = k
      OBVIOUS
    <2>2. CASE k - 1 < n
      <3>1. k \in 1..n /\ f[k - 1] = q[k] /\ q[k] \in S
        BY <1>1, <1>2, <2>1, <2>2
      <3>2. f[k] = nx[q[k]]
        BY <1>2, <3>1 DEF Chained
      <3> QED
        BY <3>1, <3>2
    <2>3. CASE ~(k - 1 < n)
      <3>1. f[k - 1] = end /\ f[k] = end
        BY <1>1, <1>2, <2>1, <2>3
      <3>2. end \notin Members(n, q)
        BY <1>1 DEF Members
      <3> QED
        BY <3>1, <3>2
    <2> QED
      BY <2>2, <2>3
  <1> HIDE DEF f
  <1> QED
    BY <1>3, <1>4 DEF Follows, f

LEMMA WalkExists ==
  ASSUME NEW S, NEW h, NEW nx, NEW end, end \notin S, NEW n, NEW M, List(S, h, nx, end, n, M)
  PROVE  \E f \in [Nat -> M \cup {end}] : Follows(f, h, nx, end, M)
  <1>1. PICK q : Chained(S, h, nx, end, n, q) /\ Members(n, q) = M
    BY DEF List
  <1>2. \A k \in Nat : k < n => q[k + 1] \in M
    <2>1. n \in Nat
      BY <1>1 DEF Chained
    <2>2. \A k \in Nat : k < n => k + 1 \in 1..n
      BY <2>1
    <2> QED
      BY <1>1, <2>2 DEF Members
  <1>3. PlaceOf(n, q, end) \in [Nat -> M \cup {end}]
    BY <1>2 DEF PlaceOf
  <1> QED
    BY <1>1, <1>3, PlaceIsNext

\* Whatever follows the links from h runs through the list and ends.
RunsThrough(f, n, end, M) ==
  /\ {f[k] : k \in 0..(n - 1)} = M
  /\ \A k \in Nat : k >= n => f[k] = end

LEMMA WalkIsList ==
  ASSUME NEW S, NEW h, NEW nx, NEW end, end \notin S, NEW n, NEW M, List(S, h, nx, end, n, M),
         NEW f, Follows(f, h, nx, end, M)
  PROVE  RunsThrough(f, n, end, M)
  <1> PICK q : Chained(S, h, nx, end, n, q) /\ Members(n, q) = M
    BY DEF List
  <1> DEFINE g == PlaceOf(n, q, end)
             N == {k \in Nat : f[k] = g[k]}
  <1>1. n \in Nat /\ \A k \in Nat : g[k] = IF k < n THEN q[k + 1] ELSE end
    BY DEF PlaceOf, Chained
  <1>2. Follows(g, h, nx, end, M)
    BY PlaceIsNext
  <1>3. \A k \in Nat : g[k] = end \/ g[k] \in M
    <2>1. \A k \in Nat : k < n => k + 1 \in 1..n
      BY <1>1
    <2> QED
      BY <1>1, <2>1 DEF Members
  <1> HIDE DEF g
  <1>4. 0 \in N
    BY <1>2 DEF Follows
  <1>5. ASSUME NEW k \in N PROVE k + 1 \in N
    <2>1. k \in Nat /\ f[k] = g[k] /\ k + 1 \in Nat \ {0} /\ (k + 1) - 1 = k
      OBVIOUS
    <2>2. /\ g[k] = end => g[k + 1] = end
          /\ g[k] \in M => g[k + 1] = nx[g[k]]
      BY <1>2, <2>1 DEF Follows
    <2>3. /\ f[k] = end => f[k + 1] = end
          /\ f[k] \in M => f[k + 1] = nx[f[k]]
      BY <2>1 DEF Follows
    <2> QED
      BY <1>3, <2>1, <2>2, <2>3
  <1>6. N = Nat
    <2> N \in SUBSET Nat
      OBVIOUS
    <2> HIDE DEF N
    <2> QED
      BY <1>4, <1>5, AllNumbers
  <1>7. \A k \in Nat : f[k] = IF k < n THEN q[k + 1] ELSE end
    BY <1>1, <1>6
  <1>8. {f[k] : k \in 0..(n - 1)} = M
    <2>1. ASSUME NEW k \in 0..(n - 1) PROVE f[k] \in M
      <3>1. k \in Nat /\ k < n /\ k + 1 \in 1..n
        BY <1>1
      <3> QED
        BY <1>7, <3>1 DEF Members
    <2>2. ASSUME NEW y \in M PROVE \E k \in 0..(n - 1) : f[k] = y
      <3>1. PICK k \in 1..n : q[k] = y
        BY DEF Members
      <3>2. k - 1 \in 0..(n - 1) /\ k - 1 \in Nat /\ k - 1 < n /\ (k - 1) + 1 = k
        BY <1>1
      <3> QED
        BY <1>7, <3>1, <3>2
    <2> QED
      BY <2>1, <2>2
  <1> QED
    BY <1>1, <1>7, <1>8 DEF RunsThrough

\* Two ways of linking that agree on a set.
Agree(nx, ny, on) == \A y \in on : ny[y] = nx[y]

\* The links of members decide.
LEMMA ListStays ==
  ASSUME NEW S, NEW h, NEW nx, NEW end, NEW n, NEW M, List(S, h, nx, end, n, M),
         NEW ny, Agree(nx, ny, M)
  PROVE  List(S, h, ny, end, n, M)
  <1> PICK q : Chained(S, h, nx, end, n, q) /\ Members(n, q) = M
    BY DEF List
  <1>1. \A k \in 1..n : ny[q[k]] = nx[q[k]]
    BY DEF Members, Agree
  <1>2. Chained(S, h, ny, end, n, q)
    BY <1>1 DEF Chained
  <1> QED
    BY <1>2 DEF List

LEMMA NoList ==
  ASSUME NEW S, NEW nx, NEW end
  PROVE  List(S, end, nx, end, 0, {})
  <1> DEFINE q == [k \in 1..0 |-> 0]
  <1>1. Chained(S, end, nx, end, 0, q) /\ Members(0, q) = {}
    BY DEF Chained, Members
  <1> QED
    BY <1>1 DEF List

\* A new first member.
LEMMA ListGrows ==
  ASSUME NEW S, NEW h, NEW nx, NEW end, NEW n, NEW M, List(S, h, nx, end, n, M),
         NEW x \in S, x \notin M, NEW ny, ny[x] = h, Agree(nx, ny, M)
  PROVE  List(S, x, ny, end, n + 1, M \cup {x})
  <1> PICK q : Chained(S, h, nx, end, n, q) /\ Members(n, q) = M
    BY DEF List
  <1> DEFINE p == [k \in 1..(n + 1) |-> IF k = 1 THEN x ELSE q[k - 1]]
  <1>1. /\ n \in Nat /\ q \in [1..n -> S]
        /\ \A j, k \in 1..n : q[j] = q[k] => j = k
        /\ h = IF n = 0 THEN end ELSE q[1]
        /\ \A k \in 1..n : nx[q[k]] = IF k < n THEN q[k + 1] ELSE end
    BY DEF Chained
  <1>2. \A k \in 1..n : q[k] \in Members(n, q)
    BY DEF Members
  <1>3. \A k \in 1..(n + 1) : k # 1 => k - 1 \in 1..n
    BY <1>1
  <1>4. p[1] = x /\ \A k \in 1..n : k + 1 \in 1..(n + 1) /\ p[k + 1] = q[k]
    BY <1>1
  <1>5. \A k \in 1..(n + 1) : p[k] = IF k = 1 THEN x ELSE q[k - 1]
    OBVIOUS
  <1>6. p \in [1..(n + 1) -> S]
    BY <1>1, <1>3
  <1> HIDE DEF p
  <1>7. ASSUME NEW j \in 1..(n + 1), NEW k \in 1..(n + 1), p[j] = p[k]
        PROVE  j = k
    BY <1>1, <1>2, <1>3, <1>5, <1>7
  <1>8. ASSUME NEW k \in 1..(n + 1)
        PROVE  ny[p[k]] = IF k < n + 1 THEN p[k + 1] ELSE end
    <2>1. CASE k = 1
      <3>1. ny[p[k]] = h
        BY <1>5, <2>1
      <3>2. CASE n = 0
        BY <1>1, <2>1, <3>1, <3>2
      <3>3. CASE n # 0
        <4>1. 1 \in 1..n
          BY <1>1, <3>3
        <4> QED
          BY <1>1, <1>4, <2>1, <3>1, <3>3, <4>1
      <3> QED
        BY <3>2, <3>3
    <2>2. CASE k # 1
      <3>1. k - 1 \in 1..n /\ (k - 1) + 1 = k /\ k \in Int
        BY <1>1, <1>3, <2>2
      <3>2. ny[p[k]] = nx[q[k - 1]]
        BY <1>2, <1>5, <2>2, <3>1 DEF Agree
      <3>3. nx[q[k - 1]] = IF k - 1 < n THEN q[k] ELSE end
        BY <1>1, <3>1
      <3>4. CASE k < n + 1
        <4>1. k - 1 < n /\ k \in 1..n
          BY <1>1, <3>1, <3>4
        <4> QED
          BY <1>4, <3>2, <3>3, <3>4, <4>1
      <3>5. CASE ~(k < n + 1)
        BY <1>1, <3>1, <3>2, <3>3, <3>5
      <3> QED
        BY <3>4, <3>5
    <2> QED
      BY <2>1, <2>2
  <1>9. n + 1 \in Nat /\ n + 1 # 0
    BY <1>1
  <1>10. Chained(S, x, ny, end, n + 1, p)
    BY <1>4, <1>6, <1>7, <1>8, <1>9 DEF Chained
  <1>11. Members(n + 1, p) = Members(n, q) \cup {x}
    <2>1. 1 \in 1..(n + 1)
      BY <1>1
    <2> QED
      BY <1>3, <1>4, <1>5, <2>1 DEF Members
  <1> QED
    BY <1>10, <1>11 DEF List

\* The first member goes.
LEMMA ListShrinks ==
  ASSUME NEW S, NEW h, NEW nx, NEW end, NEW n, NEW M, List(S, h, nx, end, n, M),
         h # end, NEW ny, Agree(nx, ny, M \ {h})
  PROVE  List(S, nx[h], ny, end, n - 1, M \ {h})
  <1> PICK q : Chained(S, h, nx, end, n, q) /\ Members(n, q) = M
    BY DEF List
  <1> DEFINE p == [k \in 1..(n - 1) |-> q[k + 1]]
  <1>1. /\ n \in Nat /\ q \in [1..n -> S]
        /\ \A j, k \in 1..n : q[j] = q[k] => j = k
        /\ h = IF n = 0 THEN end ELSE q[1]
        /\ \A k \in 1..n : nx[q[k]] = IF k < n THEN q[k + 1] ELSE end
    BY DEF Chained
  <1>2. n # 0 /\ n - 1 \in Nat /\ h = q[1] /\ 1 \in 1..n
    BY <1>1
  <1>3. \A k \in 1..(n - 1) : p[k] = q[k + 1] /\ k + 1 \in 1..n /\ k + 1 # 1
    BY <1>1
  <1>4. p \in [1..(n - 1) -> S]
    BY <1>1, <1>3
  <1> HIDE DEF p
  <1>5. ASSUME NEW k \in 1..(n - 1) PROVE p[k] \in Members(n, q) \ {h}
    BY <1>1, <1>2, <1>3 DEF Members
  <1>6. ASSUME NEW j \in 1..(n - 1), NEW k \in 1..(n - 1), p[j] = p[k] PROVE j = k
    <2>1. j + 1 = k + 1
      BY <1>1, <1>3, <1>6
    <2> QED
      BY <2>1
  <1>7. nx[h] = IF n - 1 = 0 THEN end ELSE p[1]
    <2>1. nx[h] = IF 1 < n THEN q[2] ELSE end
      BY <1>1, <1>2
    <2>2. CASE n = 1
      BY <2>1, <2>2
    <2>3. CASE n # 1
      <3>1. 1 \in 1..(n - 1) /\ 1 < n /\ n - 1 # 0 /\ 1 + 1 = 2
        BY <1>1, <1>2, <2>3
      <3> QED
        BY <1>3, <2>1, <3>1
    <2> QED
      BY <2>2, <2>3
  <1>8. ASSUME NEW k \in 1..(n - 1)
        PROVE  ny[p[k]] = IF k < n - 1 THEN p[k + 1] ELSE end
    <2>1. ny[p[k]] = nx[q[k + 1]]
      BY <1>3, <1>5 DEF Agree
    <2>2. nx[q[k + 1]] = IF k + 1 < n THEN q[(k + 1) + 1] ELSE end
      BY <1>1, <1>3
    <2>3. CASE k < n - 1
      <3>1. k + 1 \in 1..(n - 1) /\ k + 1 < n
        BY <1>1, <2>3
      <3> QED
        BY <1>3, <2>1, <2>2, <2>3, <3>1
    <2>4. CASE ~(k < n - 1)
      <3>1. ~(k + 1 < n)
        BY <1>1, <2>4
      <3> QED
        BY <2>1, <2>2, <2>4, <3>1
    <2> QED
      BY <2>3, <2>4
  <1>9. Chained(S, nx[h], ny, end, n - 1, p)
    BY <1>2, <1>4, <1>6, <1>7, <1>8 DEF Chained
  <1>10. Members(n - 1, p) = Members(n, q) \ {h}
    <2>1. ASSUME NEW y \in Members(n, q) \ {h} PROVE y \in Members(n - 1, p)
      <3>1. PICK k \in 1..n : y = q[k]
        BY DEF Members
      <3>2. k # 1
        BY <1>2, <3>1
      <3>3. k - 1 \in 1..(n - 1) /\ (k - 1) + 1 = k
        BY <1>1, <3>2
      <3>4. y = p[k - 1]
        BY <1>3, <3>1, <3>3
      <3> QED
        BY <3>3, <3>4 DEF Members
    <2>2. ASSUME NEW y \in Members(n - 1, p) PROVE y \in Members(n, q) \ {h}
      BY <1>5 DEF Members
    <2> QED
      BY <2>1, <2>2
  <1> QED
    BY <1>9, <1>10 DEF List

LEMMA FirstIsMember ==
  ASSUME NEW S, NEW h, NEW nx, NEW end, NEW n, NEW M, List(S, h, nx, end, n, M)
  PROVE  n \in Nat /\ M \subseteq S /\ (h = end \/ h \in M)
  BY DEF List, Chained, Members

LEMMA ListEnds ==
  ASSUME NEW S, NEW nx, NEW end, end \notin S, NEW n, NEW M, List(S, end, nx, end, n, M)
  PROVE  M = {}
  <1> PICK q : Chained(S, end, nx, end, n, q) /\ Members(n, q) = M
    BY DEF List
  <1>1. n \in Nat /\ q \in [1..n -> S] /\ end = IF n = 0 THEN end ELSE q[1]
    BY DEF Chained
  <1>2. n = 0
    <2> SUFFICES ASSUME n # 0 PROVE FALSE
      OBVIOUS
    <2>1. 1 \in 1..n
      BY <1>1
    <2> QED
      BY <1>1, <2>1
  <1> QED
    BY <1>2 DEF Members

\* The list has n members.
LEMMA ListCounts ==
  ASSUME NEW S, NEW h, NEW nx, NEW end, NEW n, NEW T, List(S, h, nx, end, n, T)
  PROVE  IsFiniteSet(T) /\ Cardinality(T) = n
  <1> PICK q : Chained(S, h, nx, end, n, q) /\ Members(n, q) = T
    BY DEF List
  <1>1. n \in Nat /\ q \in [1..n -> S] /\ \A j, k \in 1..n : q[j] = q[k] => j = k
    BY DEF Chained
  <1>2. q \in Bijection(1..n, T)
    <2>1. q \in [1..n -> T]
      BY <1>1 DEF Members
    <2>2. \A t \in T : \E k \in 1..n : q[k] = t
      BY DEF Members
    <2> QED
      BY <1>1, <2>1, <2>2 DEF Bijection, Injection, Surjection, IsInjective
  <1>3. IsFiniteSet(1..n) /\ Cardinality(1..n) = IF 1 > n THEN 0 ELSE n - 1 + 1
    BY <1>1, FS_Interval
  <1>4. ExistsBijection(1..n, T)
    BY <1>2 DEF ExistsBijection
  <1>5. IsFiniteSet(T) /\ Cardinality(T) = Cardinality(1..n)
    BY <1>3, <1>4, FS_Bijection, Zenon
  <1> QED
    BY <1>1, <1>3, <1>5
-----------------------------------------------------------------------------
(* Sums: s[k] is the sum of the first k values of g, as a recursive         *)
(* function gives it.                                                      *)

SumTo(s, g, n) == s = [k \in 0..n |-> IF k = 0 THEN 0 ELSE s[k - 1] + g[k]]

LEMMA SumStep ==
  ASSUME NEW n \in Nat, NEW g, NEW s, SumTo(s, g, n)
  PROVE  s[0] = 0 /\ \A k \in 1..n : s[k] = s[k - 1] + g[k]
  <1>1. 0 \in 0..n /\ \A k \in 1..n : k \in 0..n /\ k # 0
    OBVIOUS
  <1>2. \A k \in 0..n : s[k] = IF k = 0 THEN 0 ELSE s[k - 1] + g[k]
    BY DEF SumTo
  <1> QED
    BY <1>1, <1>2

\* There is one, and it grows.
LEMMA SumExists ==
  ASSUME NEW n \in Nat, NEW g \in [1..n -> Nat]
  PROVE  \E s : SumTo(s, g, n)
  <1> DEFINE Sum(m) == \E s \in [0..m -> Nat] : SumTo(s, g, m)
             N == {m \in Nat : m <= n => Sum(m)}
  <1>1. 0 \in N
    <2> DEFINE s == [k \in 0..0 |-> 0]
    <2>1. s \in [0..0 -> Nat] /\ SumTo(s, g, 0)
      BY DEF SumTo
    <2> QED
      BY <2>1
  <1>2. ASSUME NEW m \in N PROVE m + 1 \in N
    <2> SUFFICES ASSUME m + 1 <= n
                 PROVE  Sum(m + 1)
      <3> HIDE DEF Sum
      <3> QED
        OBVIOUS
    <2>1. m \in Nat /\ m <= n /\ Sum(m)
      <3> HIDE DEF Sum
      <3> QED
        OBVIOUS
    <2> PICK s \in [0..m -> Nat] : SumTo(s, g, m)
      BY <2>1
    <2>2. s[0] = 0 /\ \A k \in 1..m : s[k] = s[k - 1] + g[k]
      BY <2>1, SumStep
    <2> DEFINE t == [k \in 0..(m + 1) |-> IF k <= m THEN s[k] ELSE s[m] + g[m + 1]]
    <2>3. m + 1 \in 1..n /\ g[m + 1] \in Nat /\ s[m] \in Nat
      BY <2>1
    <2>4. t \in [0..(m + 1) -> Nat]
      BY <2>1, <2>3
    <2>5. \A k \in 0..(m + 1) : t[k] = IF k <= m THEN s[k] ELSE s[m] + g[m + 1]
      OBVIOUS
    <2> HIDE DEF t
    <2>6. ASSUME NEW k \in 0..(m + 1)
          PROVE  t[k] = IF k = 0 THEN 0 ELSE t[k - 1] + g[k]
      <3>1. CASE k = 0
        BY <2>1, <2>2, <2>5, <3>1
      <3>2. CASE k \in 1..m
        <4>1. k <= m /\ k - 1 <= m /\ k - 1 \in 0..(m + 1) /\ k # 0
          BY <2>1, <3>2
        <4> QED
          BY <2>2, <2>5, <3>2, <4>1
      <3>3. CASE k = m + 1
        <4>1. ~(k <= m) /\ k - 1 = m /\ m \in 0..(m + 1) /\ k # 0
          BY <2>1, <3>3
        <4>2. t[k] = s[m] + g[m + 1] /\ t[m] = s[m]
          BY <2>1, <2>5, <4>1
        <4> QED
          BY <3>3, <4>1, <4>2
      <3>4. k = 0 \/ k \in 1..m \/ k = m + 1
        BY <2>1
      <3> QED
        BY <3>1, <3>2, <3>3, <3>4
    <2>7. SumTo(t, g, m + 1)
      <3>1. t = [k \in 0..(m + 1) |-> t[k]]
        BY <2>4
      <3> QED
        BY <2>6, <3>1 DEF SumTo
    <2> QED
      BY <2>4, <2>7
  <1>3. N \in SUBSET Nat
    OBVIOUS
  <1>4. N = Nat
    <2> HIDE DEF N
    <2> QED
      BY <1>1, <1>2, <1>3, AllNumbers
  <1> QED
    BY <1>4

LEMMA SumGrows ==
  ASSUME NEW n \in Nat, NEW g \in [1..n -> Nat], NEW s, SumTo(s, g, n)
  PROVE  /\ s \in [0..n -> Nat]
         /\ \A k \in 0..n : s[k] <= s[n]
  <1>1. s[0] = 0 /\ \A k \in 1..n : s[k] = s[k - 1] + g[k]
    BY SumStep
  <1> DEFINE N == {m \in Nat : m <= n => \A k \in 0..m : s[k] \in Nat /\ s[k] <= s[m]}
  <1>2. 0 \in N
    BY <1>1
  <1>3. ASSUME NEW m \in N PROVE m + 1 \in N
    <2> SUFFICES ASSUME m + 1 <= n
                 PROVE  \A k \in 0..(m + 1) : s[k] \in Nat /\ s[k] <= s[m + 1]
      OBVIOUS
    <2> TAKE k \in 0..(m + 1)
    <2>1. m \in Nat /\ m <= n /\ m + 1 \in 1..n /\ (m + 1) - 1 = m /\ m \in 0..m
      OBVIOUS
    <2>2. \A j \in 0..m : s[j] \in Nat /\ s[j] <= s[m]
      BY <2>1
    <2>3. s[m + 1] = s[m] + g[m + 1] /\ g[m + 1] \in Nat /\ s[m] \in Nat
      BY <1>1, <2>1, <2>2
    <2>4. CASE k = m + 1
      BY <2>3, <2>4
    <2>5. CASE k \in 0..m
      <3>1. s[k] \in Nat /\ s[k] <= s[m]
        BY <2>2, <2>5
      <3> QED
        BY <2>3, <3>1
    <2> QED
      BY <2>1, <2>4, <2>5
  <1>4. N \in SUBSET Nat
    OBVIOUS
  <1>5. N = Nat
    <2> HIDE DEF N
    <2> QED
      BY <1>2, <1>3, <1>4, AllNumbers
  <1>6. \A k \in 0..n : s[k] \in Nat /\ s[k] <= s[n]
    BY <1>5
  <1>7. s = [k \in 0..n |-> s[k]]
    BY DEF SumTo
  <1> QED
    BY <1>6, <1>7
=============================================================================
