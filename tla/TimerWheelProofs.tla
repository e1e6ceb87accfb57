-------------------------- MODULE TimerWheelProofs --------------------------
(***************************************************************************)
(* Proofs about the timer wheel and its walk, for any number of entries,    *)
(* any delays and any clock.                                               *)
(***************************************************************************)
EXTENDS TimerWheel, ProofFacts

EntryType == [deadline : Times, canceled : BOOLEAN]

WalkType ==
  [at : Nat \ {0}, now : Nat, cb : Ids \cup {NULL}, min : Ids \cup {NULL}, old : SUBSET Ids]

RunType == [at : {"out", "sleep", "handler", "walk"}, wake : Nat, deadline : Nat]

\* The first n elements of a sequence.
First(s, n) == {s[k] : k \in 1..n}

\* The entries that the walk w stands behind are not due if it found them linked,
\* nor nearer than the one it keeps as the minimum, which is one of them.
HasPassed(s, e, w) ==
  LET passed == First(s, w.at - 1)
  IN  /\ w.min # NULL => w.min \in passed /\ w.now < e[w.min].deadline
      /\ \A i \in w.old \cap passed : w.min # NULL /\ e[w.min].deadline <= e[i].deadline

\* A list s of entries e that the walk w runs over.
WalkFits(s, e, w) ==
  /\ s \in Seq(Ids) /\ IsInjective(s)
  /\ e \in [Ids -> EntryType]
  /\ w \in WalkType
  /\ w.at <= Len(s) + 1
  /\ w.cb \notin First(s, Len(s))
  /\ w.old \subseteq First(s, Len(s))
  /\ HasPassed(s, e, w)

ClockInv ==
  /\ now \in 0..MaxTime
  /\ mindeadline \in Times
  /\ poll \in Nat
  /\ run \in RunType

IInv ==
  /\ WalkFits(list, entry, walk)
  /\ walk.now <= now
  /\ run.at # "walk" => walk = NoWalk
  /\ ClockInv

-----------------------------------------------------------------------------
(* The list.                                                               *)

LEMMA FirstGrows ==
  ASSUME NEW s, NEW n \in Nat
  PROVE  First(s, n + 1) = First(s, n) \cup {s[n + 1]}
  <1>1. \A k : k \in 1..(n + 1) <=> (k \in 1..n \/ k = n + 1)
    OBVIOUS
  <1> QED
    BY <1>1 DEF First

LEMMA FirstIsOfAll ==
  ASSUME NEW s, NEW n \in Nat, NEW m \in Nat, n <= m
  PROVE  First(s, n) \subseteq First(s, m)
  BY DEF First

\* Adding at the head.
LEMMA Pushed ==
  ASSUME NEW s \in Seq(Ids), IsInjective(s), NEW i \in Ids, i \notin First(s, Len(s))
  PROVE  LET t == <<i>> \o s
         IN  /\ t \in Seq(Ids) /\ IsInjective(t) /\ Len(t) = Len(s) + 1
             /\ \A n \in 0..Len(s) : First(t, n + 1) = First(s, n) \cup {i}
  <1> DEFINE t == <<i>> \o s
  <1>1. t \in Seq(Ids) /\ Len(t) = Len(s) + 1 /\ Len(s) \in Nat
    OBVIOUS
  <1>2. t[1] = i /\ \A k \in 2..Len(t) : t[k] = s[k - 1] /\ k - 1 \in 1..Len(s)
    OBVIOUS
  <1> HIDE DEF t
  <1>3. \A k \in 1..Len(t) : k = 1 \/ k \in 2..Len(t)
    BY <1>1
  <1>4. IsInjective(t)
    <2>1. \A k \in 1..Len(s) : s[k] # i
      BY DEF First
    <2>2. \A a, b \in 1..Len(s) : s[a] = s[b] => a = b
      BY DEF IsInjective
    <2>3. \A a, b \in 1..Len(t) : t[a] = t[b] => a = b
      BY <1>1, <1>2, <1>3, <2>1, <2>2
    <2> QED
      BY <1>1, <2>3 DEF IsInjective
  <1>5. ASSUME NEW n \in 0..Len(s) PROVE First(t, n + 1) = First(s, n) \cup {i}
    <2>1. \A k \in 1..(n + 1) : t[k] = i \/ (k - 1 \in 1..n /\ t[k] = s[k - 1])
      BY <1>1, <1>2, <1>3
    <2>2. \A k \in 1..n : k + 1 \in 1..(n + 1) /\ t[k + 1] = s[k]
      BY <1>1, <1>2
    <2>3. 1 \in 1..(n + 1) /\ t[1] = i
      BY <1>2
    <2>4. \A x : (\E k \in 1..(n + 1) : t[k] = x) <=> (x = i \/ \E k \in 1..n : s[k] = x)
      BY <2>1, <2>2, <2>3
    <2> QED
      BY <2>4 DEF First
  <1> QED
    BY <1>1, <1>4, <1>5 DEF t

\* Unlinking.
LEMMA Unlinked ==
  ASSUME NEW s \in Seq(Ids), IsInjective(s), NEW k \in 1..Len(s),
         NEW t, t = RemoveAt(s, k)
  PROVE  /\ t \in Seq(Ids) /\ IsInjective(t) /\ Len(t) = Len(s) - 1
         /\ First(t, Len(t)) = First(s, Len(s)) \ {s[k]}
         /\ First(t, k - 1) = First(s, k - 1)
  <1>1. /\ t \in Seq(Ids) /\ Len(t) = Len(s) - 1
        /\ \A j \in 1..Len(t) : t[j] = IF j < k THEN s[j] ELSE s[j + 1]
    BY Removal, Zenon DEF RemoveAt
  <1>2. Len(s) \in Nat /\ k \in Nat /\ k >= 1 /\ k <= Len(s)
    OBVIOUS
  <1>3. \A a, b \in 1..Len(s) : s[a] = s[b] => a = b
    BY DEF IsInjective
  <1>4. \A j \in 1..Len(t) : \E l \in 1..Len(s) : l # k /\ t[j] = s[l] /\ l = (IF j < k THEN j ELSE j + 1)
    BY <1>1, <1>2
  <1>5. IsInjective(t)
    <2>1. \A a, b \in 1..Len(t) : t[a] = t[b] => a = b
      BY <1>1, <1>2, <1>3, <1>4
    <2> QED
      BY <1>1, <2>1 DEF IsInjective
  <1>6. First(t, Len(t)) = First(s, Len(s)) \ {s[k]}
    <2>1. \A l \in 1..Len(s) : l # k => \E j \in 1..Len(t) : t[j] = s[l]
      <3> SUFFICES ASSUME NEW l \in 1..Len(s), l # k PROVE \E j \in 1..Len(t) : t[j] = s[l]
        OBVIOUS
      <3>1. CASE l < k
        BY <1>1, <1>2, <3>1
      <3>2. CASE l > k
        <4>1. l - 1 \in 1..Len(t) /\ t[l - 1] = s[l]
          BY <1>1, <1>2, <3>2
        <4> QED
          BY <4>1
      <3> QED
        BY <1>2, <3>1, <3>2
    <2>2. \A x : (\E j \in 1..Len(t) : t[j] = x) <=> ((\E l \in 1..Len(s) : s[l] = x) /\ x # s[k])
      BY <1>3, <1>4, <2>1
    <2> QED
      BY <2>2 DEF First
  <1>7. First(t, k - 1) = First(s, k - 1)
    <2>1. \A j \in 1..(k - 1) : t[j] = s[j]
      BY <1>1, <1>2
    <2> QED
      BY <2>1 DEF First
  <1> QED
    BY <1>1, <1>5, <1>6, <1>7

-----------------------------------------------------------------------------
(* The records of a walk.                                                  *)

Walk(v, at, t, cb, min, old) ==
  v \in WalkType /\ v.at = at /\ v.now = t /\ v.cb = cb /\ v.min = min /\ v.old = old

LEMMA WalkIsAt ==
  ASSUME NEW w \in WalkType, NEW x \in Nat \ {0}
  PROVE  Walk([w EXCEPT !.at = x], x, w.now, w.cb, w.min, w.old)
  BY DEF WalkType, Walk

LEMMA WalkCalls ==
  ASSUME NEW w \in WalkType, NEW c \in Ids \cup {NULL}, NEW o \in SUBSET Ids
  PROVE  Walk([w EXCEPT !.cb = c, !.old = o], w.at, w.now, c, w.min, o)
  BY DEF WalkType, Walk

LEMMA WalkGoesOn ==
  ASSUME NEW w \in WalkType, NEW x \in Nat \ {0}, NEW m \in Ids \cup {NULL}
  PROVE  Walk([w EXCEPT !.at = x, !.min = m], x, w.now, w.cb, m, w.old)
  BY DEF WalkType, Walk

LEMMA WalkBegins ==
  ASSUME NEW t \in Nat, NEW old \in SUBSET Ids
  PROVE  Walk([NoWalk EXCEPT !.now = t, !.old = old], 1, t, NULL, NULL, old)
  <1> DEFINE v == [NoWalk EXCEPT !.now = t, !.old = old]
  <1>1. NoWalk \in WalkType
    BY DEF NoWalk, WalkType
  <1>2. v \in WalkType
    BY <1>1 DEF WalkType
  <1>3. v.at = 1 /\ v.now = t /\ v.cb = NULL /\ v.min = NULL /\ v.old = old
    BY DEF NoWalk
  <1> HIDE DEF v
  <1>4. Walk(v, 1, t, NULL, NULL, old)
    BY <1>2, <1>3 DEF Walk
  <1> QED
    BY <1>4 DEF v

-----------------------------------------------------------------------------
(* What each operation on the wheel leaves of it.                          *)

\* An entry is added, whether or not a walk is under way.
LEMMA AddFits ==
  ASSUME NEW s, NEW e, NEW w, WalkFits(s, e, w),
         NEW i \in Ids, i \notin First(s, Len(s)), i # w.cb,
         NEW d \in Times,
         NEW f, f = [e EXCEPT ![i] = [deadline |-> d, canceled |-> FALSE]]
  PROVE  WalkFits(<<i>> \o s, f, [w EXCEPT !.at = IF @ > 1 THEN @ + 1 ELSE 1])
  <1> DEFINE v == [w EXCEPT !.at = IF @ > 1 THEN @ + 1 ELSE 1]
  <1>1. /\ s \in Seq(Ids) /\ IsInjective(s) /\ Len(s) \in Nat
        /\ e \in [Ids -> EntryType] /\ w \in WalkType /\ w.at <= Len(s) + 1
        /\ w.cb \notin First(s, Len(s)) /\ w.old \subseteq First(s, Len(s))
    BY DEF WalkFits
  <1>2. /\ w.min # NULL => w.min \in First(s, w.at - 1) /\ w.now < e[w.min].deadline
        /\ \A j \in w.old \cap First(s, w.at - 1) :
             w.min # NULL /\ e[w.min].deadline <= e[j].deadline
    BY DEF WalkFits, HasPassed
  <1>3. PICK t : t = <<i>> \o s
    OBVIOUS
  <1>4. /\ t \in Seq(Ids) /\ IsInjective(t) /\ Len(t) = Len(s) + 1
        /\ \A n \in 0..Len(s) : First(t, n + 1) = First(s, n) \cup {i}
    BY <1>1, <1>3, Pushed, Zenon
  <1>5. /\ w.at \in Nat \ {0} /\ w.at - 1 \in 0..Len(s)
        /\ w.at = IF w.at > 1 THEN w.at ELSE 1
    BY <1>1 DEF WalkType
  <1>6. Walk(v, IF w.at > 1 THEN w.at + 1 ELSE 1, w.now, w.cb, w.min, w.old)
    <2>1. (IF w.at > 1 THEN w.at + 1 ELSE 1) \in Nat \ {0}
      BY <1>5
    <2> QED
      BY <1>1, <2>1, WalkIsAt, Zenon
  <1> HIDE DEF v
  <1> USE DEF Walk
  <1>7. /\ f \in [Ids -> EntryType]
        /\ \A j \in First(s, Len(s)) : f[j] = e[j]
    <2>1. [deadline |-> d, canceled |-> FALSE] \in EntryType
      BY DEF EntryType
    <2>2. \A j \in First(s, Len(s)) : j \in Ids /\ j # i
      BY <1>1 DEF First
    <2> QED
      BY <1>1, <2>1, <2>2
  <1>8. First(t, Len(t)) = First(s, Len(s)) \cup {i}
    BY <1>1, <1>4
  <1>9. First(s, w.at - 1) \subseteq First(s, Len(s))
    BY <1>1, <1>5, FirstIsOfAll
  <1>10. /\ First(s, w.at - 1) \subseteq First(t, v.at - 1)
         /\ First(t, v.at - 1) \subseteq First(s, w.at - 1) \cup {i}
    <2>1. CASE w.at > 1
      <3>1. v.at - 1 = (w.at - 1) + 1
        BY <1>5, <1>6, <2>1
      <3> QED
        BY <1>4, <1>5, <3>1
    <2>2. CASE ~(w.at > 1)
      <3>1. w.at = 1 /\ v.at = 1
        BY <1>5, <1>6, <2>2
      <3> QED
        BY <3>1 DEF First
    <2> QED
      BY <2>1, <2>2
  <1>11. HasPassed(t, f, v)
    <2>1. w.min # NULL => w.min \in First(t, v.at - 1) /\ w.now < f[w.min].deadline
      BY <1>2, <1>7, <1>9, <1>10
    <2>2. ASSUME NEW j \in w.old \cap First(t, v.at - 1)
          PROVE  w.min # NULL /\ f[w.min].deadline <= f[j].deadline
      <3>1. j \in First(s, Len(s)) /\ j \in First(s, w.at - 1)
        BY <1>1, <1>10
      <3>2. w.min # NULL /\ e[w.min].deadline <= e[j].deadline /\ w.min \in First(s, w.at - 1)
        BY <1>2, <3>1
      <3>3. f[j] = e[j] /\ f[w.min] = e[w.min]
        BY <1>7, <1>9, <3>1, <3>2
      <3> QED
        BY <3>2, <3>3
    <2> QED
      BY <1>6, <2>1, <2>2 DEF HasPassed
  <1>12. v.at <= Len(t) + 1
    BY <1>1, <1>4, <1>5, <1>6
  <1> QED
    <2>1. WalkFits(<<i>> \o s, f, v)
      BY <1>1, <1>3, <1>4, <1>6, <1>7, <1>8, <1>11, <1>12 DEF WalkFits
    <2> QED
      BY <2>1, Zenon DEF v

\* An entry is marked canceled.
LEMMA CancelFits ==
  ASSUME NEW s, NEW e, NEW w, WalkFits(s, e, w), NEW i,
         NEW f, f = [e EXCEPT ![i].canceled = TRUE]
  PROVE  WalkFits(s, f, w)
  <1>1. e \in [Ids -> EntryType]
    BY DEF WalkFits
  <1>2. f \in [Ids -> EntryType] /\ \A j \in Ids : f[j].deadline = e[j].deadline
    BY <1>1 DEF EntryType
  <1>3. \A j \in First(s, w.at - 1) : j \in Ids
    <2>1. s \in Seq(Ids) /\ Len(s) \in Nat /\ w.at - 1 \in Nat /\ w.at - 1 <= Len(s)
      BY DEF WalkFits, WalkType
    <2> QED
      BY <2>1 DEF First
  <1>4. HasPassed(s, f, w)
    BY <1>2, <1>3 DEF WalkFits, HasPassed
  <1> QED
    BY <1>2, <1>4 DEF WalkFits

\* The entry where the walk stands is unlinked.
LEMMA ResolveFits ==
  ASSUME NEW s, NEW e, NEW w, WalkFits(s, e, w), w.at <= Len(s),
         NEW c \in {NULL, s[w.at]}
  PROVE  WalkFits(RemoveAt(s, w.at), e, [w EXCEPT !.cb = c, !.old = @ \ {s[w.at]}])
  <1> DEFINE v == [w EXCEPT !.cb = c, !.old = w.old \ {s[w.at]}]
  <1>1. /\ s \in Seq(Ids) /\ IsInjective(s) /\ Len(s) \in Nat
        /\ e \in [Ids -> EntryType] /\ w \in WalkType /\ w.at \in 1..Len(s)
        /\ w.old \subseteq First(s, Len(s))
    BY DEF WalkFits, WalkType
  <1>2. PICK t : t = RemoveAt(s, w.at)
    OBVIOUS
  <1>3. /\ t \in Seq(Ids) /\ IsInjective(t) /\ Len(t) = Len(s) - 1
        /\ First(t, Len(t)) = First(s, Len(s)) \ {s[w.at]}
        /\ First(t, w.at - 1) = First(s, w.at - 1)
    BY <1>1, <1>2, Unlinked, Zenon
  <1>4. Walk(v, w.at, w.now, c, w.min, w.old \ {s[w.at]})
    <2>1. w \in WalkType /\ c \in Ids \cup {NULL} /\ w.old \ {s[w.at]} \in SUBSET Ids
      BY <1>1 DEF WalkType
    <2> QED
      BY <2>1, WalkCalls, Zenon
  <1> HIDE DEF v
  <1> USE DEF Walk
  <1>5. HasPassed(t, e, v)
    BY <1>3, <1>4 DEF WalkFits, HasPassed
  <1>6. v.cb \notin First(t, Len(t))
    <2>1. First(s, Len(s)) \subseteq Ids
      BY <1>1 DEF First
    <2> QED
      BY <1>3, <1>4, <2>1, NullIsNoId
  <1>7. v.old \subseteq First(t, Len(t))
    BY <1>1, <1>3, <1>4
  <1>8. v.at <= Len(t) + 1
    BY <1>1, <1>3, <1>4
  <1> QED
    <2>1. WalkFits(RemoveAt(s, w.at), e, v)
      BY <1>1, <1>2, <1>3, <1>4, <1>5, <1>6, <1>7, <1>8 DEF WalkFits
    <2> QED
      BY <2>1, Zenon DEF v

\* The entry where the walk stands is kept.
LEMMA KeepFits ==
  ASSUME NEW s, NEW e, NEW w, WalkFits(s, e, w), w.at <= Len(s),
         w.now < e[s[w.at]].deadline,
         NEW m, m = IF w.min = NULL \/ e[s[w.at]].deadline < e[w.min].deadline
                      THEN s[w.at] ELSE w.min
  PROVE  WalkFits(s, e, [w EXCEPT !.at = @ + 1, !.min = m])
  <1> DEFINE v == [w EXCEPT !.at = w.at + 1, !.min = m]
  <1>1. /\ s \in Seq(Ids) /\ IsInjective(s) /\ Len(s) \in Nat
        /\ e \in [Ids -> EntryType] /\ w \in WalkType /\ w.at \in 1..Len(s)
        /\ w.old \subseteq First(s, Len(s))
    BY DEF WalkFits, WalkType
  <1>2. /\ w.min # NULL => w.min \in First(s, w.at - 1) /\ w.now < e[w.min].deadline
        /\ \A j \in w.old \cap First(s, w.at - 1) :
             w.min # NULL /\ e[w.min].deadline <= e[j].deadline
    BY DEF WalkFits, HasPassed
  <1>3. PICK c : c = s[w.at]
    OBVIOUS
  <1>4. c \in Ids /\ c # NULL /\ w.now < e[c].deadline
    BY <1>1, <1>3, NullIsNoId
  <1>5. m = IF w.min = NULL \/ e[c].deadline < e[w.min].deadline THEN c ELSE w.min
    BY <1>3
  <1>6. m \in Ids
    BY <1>1, <1>4, <1>5 DEF WalkType
  <1>7. Walk(v, w.at + 1, w.now, w.cb, m, w.old)
    <2>1. w \in WalkType /\ m \in Ids \cup {NULL} /\ w.at + 1 \in Nat \ {0}
      BY <1>1, <1>6
    <2> QED
      BY <2>1, WalkGoesOn, Zenon
  <1> HIDE DEF v
  <1> USE DEF Walk
  <1>8. First(s, v.at - 1) = First(s, w.at - 1) \cup {c}
    <2>1. w.at - 1 \in Nat /\ (w.at - 1) + 1 = w.at /\ v.at - 1 = (w.at - 1) + 1
      BY <1>1, <1>7
    <2> QED
      BY <1>3, <2>1, FirstGrows
  <1>9. \A j \in Ids : e[j].deadline \in Int
    BY <1>1, TimesAreMs DEF EntryType, Times
  <1>10. m \in First(s, v.at - 1) /\ w.now < e[m].deadline
    BY <1>2, <1>4, <1>5, <1>8
  <1>11. e[m].deadline <= e[c].deadline
    <2>1. CASE m = c
      BY <1>4, <1>9, <2>1
    <2>2. CASE m # c
      BY <1>4, <1>5, <1>6, <1>9, <2>2
    <2> QED
      BY <2>1, <2>2
  <1>12. ASSUME NEW j \in w.old \cap First(s, w.at - 1) PROVE e[m].deadline <= e[j].deadline
    <2>1. w.min # NULL /\ e[w.min].deadline <= e[j].deadline
      BY <1>2
    <2>2. w.min \in Ids /\ j \in Ids
      BY <1>1, <2>1 DEF WalkType
    <2>3. e[m].deadline <= e[w.min].deadline
      BY <1>4, <1>5, <1>9, <2>1, <2>2
    <2> QED
      BY <1>6, <1>9, <2>1, <2>2, <2>3
  <1>13. HasPassed(s, e, v)
    BY <1>6, <1>7, <1>8, <1>10, <1>11, <1>12, NullIsNoId DEF HasPassed
  <1>14. v.at <= Len(s) + 1
    BY <1>1, <1>7
  <1> QED
    <2>1. WalkFits(s, e, v)
      BY <1>1, <1>7, <1>13, <1>14 DEF WalkFits
    <2> QED
      BY <2>1, Zenon DEF v

\* The callback returns.
LEMMA ReturnFits ==
  ASSUME NEW s, NEW e, NEW w, WalkFits(s, e, w), NEW v, v = [w EXCEPT !.cb = NULL]
  PROVE  WalkFits(s, e, v)
  <1>1. s \in Seq(Ids) /\ w \in WalkType
    BY DEF WalkFits
  <1>2. /\ v \in WalkType /\ v.at = w.at /\ v.now = w.now /\ v.min = w.min
        /\ v.cb = NULL /\ v.old = w.old
    BY <1>1 DEF WalkType
  <1>3. NULL \notin First(s, Len(s))
    BY <1>1, NullIsNoId DEF First
  <1> QED
    BY <1>2, <1>3 DEF WalkFits, HasPassed

\* A walk that has gone nowhere: one that begins, and no walk.
LEMMA NewFits ==
  ASSUME NEW s \in Seq(Ids), IsInjective(s), NEW e \in [Ids -> EntryType],
         NEW t \in Nat, NEW old, old \subseteq First(s, Len(s)),
         NEW v, Walk(v, 1, t, NULL, NULL, old)
  PROVE  WalkFits(s, e, v)
  <1>1. First(s, Len(s)) \subseteq Ids /\ Len(s) \in Nat
    BY DEF First
  <1>2. First(s, v.at - 1) = {}
    BY DEF First, Walk
  <1>3. HasPassed(s, e, v)
    BY <1>2 DEF HasPassed, Walk
  <1> QED
    BY <1>1, <1>3, NullIsNoId DEF WalkFits, Walk

LEMMA NoWalkIs == Walk(NoWalk, 1, 0, NULL, NULL, {})
  <1>1. NoWalk \in WalkType
    BY DEF NoWalk, WalkType
  <1>2. /\ NoWalk.at = 1 /\ NoWalk.now = 0 /\ NoWalk.cb = NULL /\ NoWalk.min = NULL
        /\ NoWalk.old = {}
    BY DEF NoWalk
  <1> QED
    BY <1>1, <1>2 DEF Walk

LEMMA NoWalkFits ==
  ASSUME NEW s \in Seq(Ids), IsInjective(s), NEW e \in [Ids -> EntryType]
  PROVE  WalkFits(s, e, NoWalk)
  <1>1. PICK old : old = {}
    OBVIOUS
  <1>2. old \subseteq First(s, Len(s)) /\ Walk(NoWalk, 1, 0, NULL, NULL, old) /\ 0 \in Nat
    BY <1>1, NoWalkIs
  <1> QED
    BY <1>2, NewFits, Zenon

-----------------------------------------------------------------------------
(* The clock, and what the loop does with it.                              *)

LEMMA MinimumIsNat ==
  ASSUME NEW a \in Nat, NEW b \in Nat
  PROVE  Minimum(a, b) \in Nat
  BY DEF Minimum

LEMMA SleepKeeps ==
  ASSUME NEW p \in Nat, NEW d \in Nat, now \in Nat, Sleep(p, d)
  PROVE  poll' \in Nat /\ run' \in RunType /\ run'.at # "walk"
  <1>1. next_timeout(p, d) \in Nat
    <2> DEFINE nearest == Minimum(p, d)
    <2>1. nearest \in Nat
      BY MinimumIsNat
    <2> HIDE DEF nearest
    <2>2. ASSUME ~(nearest <= now) PROVE Minimum(nearest - now, MaxTimeout) \in Nat
      <3>1. nearest - now \in Nat /\ MaxTimeout \in Nat
        BY <2>1, <2>2, TimesAreMs
      <3> QED
        BY <3>1, MinimumIsNat, Zenon
    <2> QED
      BY <2>1, <2>2 DEF next_timeout, nearest
  <1>2. PICK n \in Nat : n = next_timeout(p, d)
    BY <1>1
  <1>3. run' = [at |-> "sleep", wake |-> now + n, deadline |-> d] /\ now + n \in Nat
    BY <1>2 DEF Sleep
  <1>4. poll' = p \/ poll' = END
    BY DEF Sleep
  <1> QED
    BY <1>3, <1>4, TimesAreMs DEF RunType

LEMMA SleepOrReturnKeeps ==
  ASSUME NEW p \in Nat, now \in Nat, run \in RunType, SleepOrReturn(p)
  PROVE  poll' \in Nat /\ run' \in RunType /\ run'.at # "walk"
  <1>1. CASE run' = Outside /\ poll' = p
    BY <1>1 DEF Outside, RunType
  <1>2. CASE Sleep(p, run.deadline)
    BY <1>2, SleepKeeps DEF RunType
  <1> QED
    BY <1>1, <1>2 DEF SleepOrReturn

-----------------------------------------------------------------------------
(* Each step.                                                              *)

LEMMA InitIsRight == Init => IInv
  <1> SUFFICES ASSUME Init PROVE IInv
    OBVIOUS
  <1>1. <<>> \in Seq(Ids) /\ IsInjective(<<>>)
    BY DEF IsInjective
  <1>2. entry \in [Ids -> EntryType]
    BY TimesAreMs DEF Init, EntryType, Times
  <1>3. WalkFits(list, entry, walk)
    BY <1>1, <1>2, NoWalkFits DEF Init
  <1>4. walk.now <= now
    BY DEF Init, NoWalk
  <1>5. ClockInv
    BY TimesAreMs DEF Init, ClockInv, Times, Outside, RunType
  <1> QED
    BY <1>3, <1>4, <1>5 DEF IInv, Init

LEMMA UserCodeKeeps ==
  ASSUME IInv, UserCode
  PROVE  IInv'
  <1>1. /\ WalkFits(list, entry, walk) /\ walk.now <= now
        /\ (run.at # "walk" => walk = NoWalk) /\ ClockInv /\ run' = run
    BY DEF IInv, UserCode
  <1>2. now \in Nat /\ now <= MaxTime /\ mindeadline \in Times /\ poll \in Nat /\ run \in RunType
    BY <1>1, TimesAreMs DEF ClockInv
  <1>3. CASE \E ms \in Delays : _trip_set_timeout(ms)
    <2>1. PICK ms \in Delays : _trip_set_timeout(ms)
      BY <1>3
    <2>2. PICK i \in Ids \ (Linked \cup {walk.cb}) : timerwheel_add(i, ms)
      BY <2>1 DEF _trip_set_timeout
    <2>3. /\ now' = now /\ mindeadline' = mindeadline
          /\ poll' = IF now + ms < mindeadline THEN now + ms ELSE poll
      BY <2>1 DEF _trip_set_timeout
    <2>4. now + ms \in Times
      BY <1>2, EndIsLast, DelaysAreMs, TimesAreMs DEF Times
    <2>5. PICK f : f = [entry EXCEPT ![i] = [deadline |-> now + ms, canceled |-> FALSE]]
      OBVIOUS
    <2>6. PICK v : v = [walk EXCEPT !.at = IF @ > 1 THEN @ + 1 ELSE 1]
      OBVIOUS
    <2>7. i \notin First(list, Len(list)) /\ i # walk.cb
      BY <2>2 DEF Linked, First
    <2>8. WalkFits(<<i>> \o list, f, v)
      <3>1. WalkFits(<<i>> \o list, f, [walk EXCEPT !.at = IF @ > 1 THEN @ + 1 ELSE 1])
        BY <1>1, <2>4, <2>5, <2>7, AddFits, Zenon
      <3> QED
        BY <2>6, <3>1, Zenon
    <2>9. list' = <<i>> \o list /\ entry' = f /\ walk' = v
      BY <2>2, <2>5, <2>6, Zenon DEF timerwheel_add
    <2>10. v.now = walk.now /\ (run.at # "walk" => v = NoWalk)
      <3>1. walk \in WalkType
        BY <1>1 DEF WalkFits
      <3>2. v.now = walk.now
        BY <2>6, <3>1 DEF WalkType
      <3>3. walk = NoWalk => v = NoWalk
        BY <2>6 DEF NoWalk
      <3> QED
        BY <1>1, <3>2, <3>3
    <2>11. WalkFits(list', entry', walk')
      BY <2>8, <2>9, Zenon
    <2>12. ClockInv'
      BY <1>1, <1>2, <2>3, <2>4 DEF ClockInv, Times
    <2> QED
      BY <1>1, <2>3, <2>9, <2>10, <2>11, <2>12 DEF IInv
  <1>4. CASE \E i \in Ids : timerwheel_cancel(i)
    <2>1. PICK i \in Ids : timerwheel_cancel(i)
      BY <1>4
    <2>2. UNCHANGED <<now, list, walk, mindeadline, poll>>
      BY <2>1 DEF timerwheel_cancel
    <2>3. PICK f : f = [entry EXCEPT ![i].canceled = TRUE]
      OBVIOUS
    <2>4. WalkFits(list, f, walk)
      BY <1>1, <2>3, CancelFits, Zenon
    <2>5. entry' = f
      BY <2>1, <2>3, Zenon DEF timerwheel_cancel
    <2> QED
      BY <1>1, <2>2, <2>4, <2>5 DEF IInv, ClockInv
  <1> QED
    BY <1>3, <1>4 DEF UserCode

\* What a step of the walk leaves alone.
Unwalked == UNCHANGED <<now, mindeadline, poll, run>>

LEMMA WalkResolveKeeps ==
  ASSUME IInv, WalkResolve
  PROVE  IInv'
  <1>1. /\ WalkFits(list, entry, walk) /\ walk.now <= now /\ ClockInv
        /\ run.at = "walk" /\ walk.at <= Len(list)
    BY DEF IInv, WalkResolve, AtEntry
  <1>2. PICK c : c = IF entry[Curr].canceled THEN NULL ELSE Curr
    OBVIOUS
  <1>3. c \in {NULL, list[walk.at]}
    BY <1>2 DEF Curr
  <1>4. WalkFits(RemoveAt(list, walk.at), entry,
                 [walk EXCEPT !.cb = c, !.old = @ \ {list[walk.at]}])
    BY <1>1, <1>3, ResolveFits, Zenon
  <1>5. PICK v : v = [walk EXCEPT !.cb = c, !.old = @ \ {list[walk.at]}]
    OBVIOUS
  <1>6. list' = RemoveAt(list, walk.at) /\ walk' = v /\ entry' = entry /\ Unwalked
    BY <1>2, <1>5, Zenon DEF WalkResolve, Curr, Unwalked
  <1>7. v.now = walk.now
    BY <1>1, <1>5 DEF WalkFits, WalkType
  <1>8. WalkFits(list', entry', walk')
    BY <1>4, <1>5, <1>6, Zenon
  <1> QED
    BY <1>1, <1>6, <1>7, <1>8 DEF IInv, ClockInv, Unwalked

LEMMA CallbackReturnsKeeps ==
  ASSUME IInv, CallbackReturns
  PROVE  IInv'
  <1>1. WalkFits(list, entry, walk) /\ walk.now <= now /\ ClockInv
    BY DEF IInv
  <1>2. run.at = "walk"
    BY DEF IInv, CallbackReturns, NoWalk
  <1>3. PICK v : v = [walk EXCEPT !.cb = NULL]
    OBVIOUS
  <1>4. WalkFits(list, entry, v)
    BY <1>1, <1>3, ReturnFits, Zenon
  <1>5. walk' = v /\ list' = list /\ entry' = entry /\ Unwalked
    BY <1>3, Zenon DEF CallbackReturns, Unwalked
  <1>6. v.now = walk.now
    BY <1>1, <1>3 DEF WalkFits, WalkType
  <1>7. WalkFits(list', entry', walk')
    BY <1>4, <1>5, Zenon
  <1> QED
    BY <1>1, <1>2, <1>5, <1>6, <1>7 DEF IInv, ClockInv, Unwalked

LEMMA WalkKeepKeeps ==
  ASSUME IInv, WalkKeep
  PROVE  IInv'
  <1>1. /\ WalkFits(list, entry, walk) /\ walk.now <= now /\ ClockInv
        /\ run.at = "walk" /\ walk.at <= Len(list)
    BY DEF IInv, WalkKeep, AtEntry
  <1>2. walk.now < entry[list[walk.at]].deadline
    <2>1. walk.at \in 1..Len(list) /\ walk.now \in Nat /\ list \in Seq(Ids)
      BY <1>1 DEF WalkFits, WalkType
    <2>2. list[walk.at] \in Ids
      BY <2>1
    <2>3. entry[list[walk.at]].deadline \in Int
      BY <1>1, <2>2, TimesAreMs DEF WalkFits, EntryType, Times
    <2>4. ~(walk.now >= entry[list[walk.at]].deadline)
      BY DEF WalkKeep, Resolves, Curr
    <2> QED
      BY <2>1, <2>3, <2>4
  <1>3. PICK m : m = IF walk.min = NULL \/ entry[list[walk.at]].deadline < entry[walk.min].deadline
                       THEN list[walk.at] ELSE walk.min
    OBVIOUS
  <1>4. WalkFits(list, entry, [walk EXCEPT !.at = @ + 1, !.min = m])
    BY <1>1, <1>2, <1>3, KeepFits, Zenon
  <1>5. PICK v : v = [walk EXCEPT !.at = @ + 1, !.min = m]
    OBVIOUS
  <1>6. walk' = v /\ list' = list /\ entry' = entry /\ Unwalked
    BY <1>3, <1>5, Zenon DEF WalkKeep, Curr, Unwalked
  <1>7. v.now = walk.now
    BY <1>1, <1>5 DEF WalkFits, WalkType
  <1>8. WalkFits(list', entry', walk')
    BY <1>4, <1>5, <1>6, Zenon
  <1> QED
    BY <1>1, <1>6, <1>7, <1>8 DEF IInv, ClockInv, Unwalked

\* The loop sleeps, wakes for a descriptor, or returns; the wheel stays.
LEMMA LoopKeeps ==
  ASSUME IInv, trip_run \/ trip_action \/ trip_action_returns
  PROVE  IInv'
  <1>1. /\ WalkFits(list, entry, walk) /\ walk.now <= now
        /\ (run.at # "walk" => walk = NoWalk)
        /\ now \in 0..MaxTime /\ now \in Nat /\ mindeadline \in Times /\ poll \in Nat
        /\ run \in RunType
    BY TimesAreMs DEF IInv, ClockInv
  <1>2. UNCHANGED <<now, list, entry, walk, mindeadline>> /\ walk = NoWalk
    BY <1>1 DEF trip_run, trip_action, trip_action_returns
  <1>3. CASE trip_run
    <2>1. PICK t \in RunTimeouts : Sleep(poll, IF t < 0 THEN END ELSE now + t)
      BY <1>3 DEF trip_run
    <2>2. (IF t < 0 THEN END ELSE now + t) \in Nat
      BY <1>1, DelaysAreMs, TimesAreMs
    <2>3. poll' \in Nat /\ run' \in RunType /\ run'.at # "walk"
      BY <1>1, <2>1, <2>2, SleepKeeps
    <2> QED
      BY <1>1, <1>2, <2>3 DEF IInv, ClockInv
  <1>4. CASE trip_action
    <2>1. run' \in RunType /\ run'.at # "walk" /\ poll' = poll
      BY <1>1, <1>4 DEF trip_action, RunType
    <2> QED
      BY <1>1, <1>2, <2>1 DEF IInv, ClockInv
  <1>5. CASE trip_action_returns
    <2>1. poll' \in Nat /\ run' \in RunType /\ run'.at # "walk"
      BY <1>1, <1>5, SleepOrReturnKeeps DEF trip_action_returns
    <2> QED
      BY <1>1, <1>2, <2>1 DEF IInv, ClockInv
  <1> QED
    BY <1>3, <1>4, <1>5

LEMMA TimeoutKeeps ==
  ASSUME IInv, trip_timeout
  PROVE  IInv'
  <1>1. /\ WalkFits(list, entry, walk) /\ ClockInv /\ now \in Nat /\ run \in RunType
    BY TimesAreMs DEF IInv, ClockInv
  <1>2. list \in Seq(Ids) /\ IsInjective(list) /\ entry \in [Ids -> EntryType]
    BY <1>1 DEF WalkFits
  <1>3. PICK old : old = First(list, Len(list))
    OBVIOUS
  <1>4. PICK v : v = [NoWalk EXCEPT !.now = now, !.old = old]
    OBVIOUS
  <1>5. Walk(v, 1, now, NULL, NULL, old)
    <2>1. old \in SUBSET Ids
      BY <1>2, <1>3 DEF First
    <2>2. Walk([NoWalk EXCEPT !.now = now, !.old = old], 1, now, NULL, NULL, old)
      BY <1>1, <2>1, WalkBegins, Zenon
    <2> QED
      BY <1>4, <2>2, Zenon
  <1>6. WalkFits(list, entry, v)
    <2>1. old \subseteq First(list, Len(list))
      BY <1>3
    <2> QED
      BY <1>1, <1>2, <1>5, <2>1, NewFits, Zenon
  <1>7. walk' = v /\ UNCHANGED <<now, list, entry, mindeadline, poll>>
    BY <1>3, <1>4, Zenon DEF trip_timeout, Linked, First
  <1>8. WalkFits(list', entry', walk') /\ walk'.now <= now'
    BY <1>1, <1>5, <1>6, <1>7 DEF Walk
  <1>9. run' \in RunType /\ run'.at = "walk"
    BY <1>1 DEF trip_timeout, RunType
  <1> QED
    BY <1>1, <1>7, <1>8, <1>9 DEF IInv, ClockInv

LEMMA TimeoutReturnsKeeps ==
  ASSUME IInv, trip_timeout_returns
  PROVE  IInv'
  <1>1. /\ WalkFits(list, entry, walk) /\ walk.now <= now
        /\ now \in 0..MaxTime /\ now \in Nat /\ run \in RunType
    BY TimesAreMs DEF IInv, ClockInv
  <1>2. /\ list \in Seq(Ids) /\ IsInjective(list) /\ entry \in [Ids -> EntryType]
        /\ walk \in WalkType
    BY <1>1 DEF WalkFits
  <1>3. /\ walk' = NoWalk /\ UNCHANGED <<now, list, entry>>
        /\ mindeadline' = IF walk.min = NULL THEN END ELSE entry[walk.min].deadline
        /\ SleepOrReturn(now + Minimum(mindeadline' - walk.now, MaxTimeout))
    BY DEF trip_timeout_returns
  <1>4. mindeadline' \in Times /\ mindeadline' - walk.now \in Nat
    <2>1. walk.now \in Nat /\ walk.now <= MaxTime /\ MaxTime < END /\ END \in Nat /\ MaxTime \in Nat
      BY <1>1, <1>2, EndIsLast, TimesAreMs DEF WalkType
    <2>2. CASE walk.min = NULL
      BY <1>3, <2>1, <2>2 DEF Times
    <2>3. CASE walk.min # NULL
      <3>1. walk.now < entry[walk.min].deadline /\ walk.min \in Ids
        BY <1>1, <1>2, <2>3 DEF WalkFits, HasPassed, WalkType
      <3>2. entry[walk.min].deadline \in Times
        BY <1>2, <3>1 DEF EntryType
      <3> QED
        BY <1>3, <2>1, <2>3, <3>1, <3>2 DEF Times
    <2> QED
      BY <2>2, <2>3
  <1>5. poll' \in Nat /\ run' \in RunType
    <2>1. PICK k \in Nat : k = mindeadline' - walk.now
      BY <1>4
    <2>2. Minimum(k, MaxTimeout) \in Nat
      BY MinimumIsNat, TimesAreMs
    <2>3. PICK p : p = now + Minimum(k, MaxTimeout)
      OBVIOUS
    <2>4. p \in Nat /\ SleepOrReturn(p)
      BY <1>1, <1>3, <2>1, <2>2, <2>3
    <2> QED
      BY <1>1, <2>4, SleepOrReturnKeeps
  <1>6. WalkFits(list', entry', walk')
    BY <1>2, <1>3, NoWalkFits
  <1>7. walk'.now <= now'
    BY <1>1, <1>3, NoWalkIs DEF Walk
  <1> QED
    BY <1>1, <1>3, <1>4, <1>5, <1>6, <1>7 DEF IInv, ClockInv

LEMMA TickKeeps ==
  ASSUME IInv, Tick
  PROVE  IInv'
  <1>1. walk.now \in Nat
    BY DEF IInv, WalkFits, WalkType
  <1> QED
    BY <1>1, TimesAreMs DEF IInv, ClockInv, Tick

LEMMA NextKeeps ==
  ASSUME IInv, [Next]_vars
  PROVE  IInv'
  <1>1. CASE UNCHANGED vars
    BY <1>1 DEF vars, IInv, ClockInv
  <1> QED
    BY <1>1, UserCodeKeeps, WalkResolveKeeps, CallbackReturnsKeeps, WalkKeepKeeps, LoopKeeps,
       TimeoutKeeps, TimeoutReturnsKeeps, TickKeeps
    DEF Next

THEOREM Invariant == Spec => []IInv
  <1>1. Init => IInv
    BY InitIsRight
  <1>2. IInv /\ [Next]_vars => IInv'
    BY NextKeeps
  <1> QED
    BY <1>1, <1>2, PTL DEF Spec

\* However callbacks add to and cancel entries of the list being walked, the list
\* stays one without an entry linked twice, and the walk stands in it
\* (timerwheel.c:44-120).
THEOREM TypeCorrect == Spec => []TypeOK
  <1>1. ASSUME IInv PROVE TypeOK
    <2>1. Linked = First(list, Len(list))
      BY DEF Linked, First
    <2>2. /\ list \in Seq(Ids) /\ IsInjective(list) /\ Len(list) \in Nat
          /\ entry \in [Ids -> EntryType] /\ walk \in WalkType
          /\ walk.at <= Len(list) + 1
          /\ walk.cb \notin Linked
          /\ walk.min # NULL => walk.min \in First(list, walk.at - 1)
      BY <1>1, <2>1 DEF IInv, WalkFits, HasPassed
    <2>3. walk.min \in Linked \cup {NULL}
      <3>1. walk.at - 1 \in Nat /\ walk.at - 1 <= Len(list)
        BY <2>2 DEF WalkType
      <3> QED
        BY <2>1, <2>2, <3>1, FirstIsOfAll
    <2>4. walk.at \in 1..(Len(list) + 1) /\ walk.cb \in (Ids \ Linked) \cup {NULL}
      BY <2>2 DEF WalkType
    <2> QED
      BY <1>1, <2>2, <2>3, <2>4 DEF IInv, ClockInv, RunType, EntryType, TypeOK
  <1> QED
    BY <1>1, Invariant, PTL

\* A walk that ends has passed every entry.
LEMMA HasPassedAll ==
  ASSUME IInv, trip_timeout_returns, NEW i \in walk.old
  PROVE  /\ i \in Ids
         /\ walk.min # NULL /\ walk.min \in Ids
         /\ walk.now < entry[walk.min].deadline
         /\ entry[walk.min].deadline <= entry[i].deadline
  <1>1. /\ walk \in WalkType /\ Len(list) \in Nat /\ walk.at <= Len(list) + 1
        /\ walk.old \subseteq First(list, Len(list)) /\ HasPassed(list, entry, walk)
    BY DEF IInv, WalkFits
  <1>2. walk.at - 1 = Len(list)
    BY <1>1 DEF trip_timeout_returns, WalkType
  <1>3. i \in First(list, walk.at - 1)
    BY <1>1, <1>2
  <1> QED
    BY <1>1, <1>3 DEF HasPassed, WalkType

\* No walk ends while an entry it found linked is due, wherever in the list it
\* was and whatever the callbacks did around it.
THEOREM WalkResolvesAllDueHolds == Spec => WalkResolvesAllDue
  <1>1. ASSUME IInv, [Next]_vars
        PROVE  [trip_timeout_returns => \A i \in walk.old : entry[i].deadline > walk.now]_vars
    <2> SUFFICES ASSUME trip_timeout_returns, NEW i \in walk.old
                 PROVE  entry[i].deadline > walk.now
      OBVIOUS
    <2>1. /\ walk.now \in Int
          /\ \A j \in Ids : entry[j].deadline \in Int
      BY <1>1, TimesAreMs DEF IInv, WalkFits, WalkType, EntryType, Times
    <2> QED
      BY <1>1, <2>1, HasPassedAll
  <1> QED
    BY <1>1, Invariant, PTL DEF Spec, WalkResolvesAllDue

\* What a walk tells the router of the nearest entry is right for all it found.
THEOREM MinIsNearestHolds == Spec => MinIsNearest
  <1>1. ASSUME IInv, [Next]_vars
        PROVE  [trip_timeout_returns => \A i \in walk.old : mindeadline' <= entry[i].deadline]_vars
    <2> SUFFICES ASSUME trip_timeout_returns, NEW i \in walk.old
                 PROVE  mindeadline' <= entry[i].deadline
      OBVIOUS
    <2>1. walk.min # NULL /\ entry[walk.min].deadline <= entry[i].deadline
      BY <1>1, HasPassedAll
    <2>2. mindeadline' = entry[walk.min].deadline
      BY <2>1 DEF trip_timeout_returns
    <2> QED
      BY <2>1, <2>2
  <1> QED
    BY <1>1, Invariant, PTL DEF Spec, MinIsNearest

-----------------------------------------------------------------------------
(* The wheel as a set of timers.                                           *)

StatusOf(linked, e) ==
  [i \in Ids |-> IF i \notin linked THEN "free" ELSE IF e[i].canceled THEN "canceled" ELSE "set"]

DeadlineOf(e) == [i \in Ids |-> e[i].deadline]

LEMMA UnlinkFrees ==
  ASSUME NEW linked, NEW e, NEW i \in Ids, i \in linked
  PROVE  /\ StatusOf(linked, e)[i] = IF e[i].canceled THEN "canceled" ELSE "set"
         /\ StatusOf(linked \ {i}, e) = [StatusOf(linked, e) EXCEPT ![i] = "free"]
  BY DEF StatusOf

\* The state of the wheel, and what it is as a set of timers.
LEMMA LinkedIs ==
  ASSUME IInv
  PROVE  /\ Linked = First(list, Len(list)) /\ Linked \subseteq Ids
         /\ entry \in [Ids -> EntryType]
         /\ list \in Seq(Ids) /\ IsInjective(list)
         /\ walk \in WalkType
  BY DEF IInv, WalkFits, Linked, First

LEMMA SetTimeoutSets ==
  ASSUME IInv, NEW ms \in Delays, _trip_set_timeout(ms)
  PROVE  AsSet!Next
  <1>1. PICK i \in Ids \ (Linked \cup {walk.cb}) : timerwheel_add(i, ms)
    BY DEF _trip_set_timeout
  <1>2. PICK f : f = [entry EXCEPT ![i] = [deadline |-> now + ms, canceled |-> FALSE]]
    OBVIOUS
  <1>3. entry' = f /\ list' = <<i>> \o list /\ now' = now
    BY <1>1, <1>2, Zenon DEF timerwheel_add, _trip_set_timeout
  <1>4. walk'.cb = walk.cb
    BY <1>1, LinkedIs DEF timerwheel_add, WalkType
  <1>5. Linked' = Linked \cup {i}
    <2>1. First(list', Len(list')) = First(list, Len(list)) \cup {i}
      <3>1. i \notin First(list, Len(list)) /\ list \in Seq(Ids) /\ IsInjective(list) /\ i \in Ids
        BY <1>1, LinkedIs
      <3>2. PICK t : t = <<i>> \o list
        OBVIOUS
      <3>3. Len(t) = Len(list) + 1 /\ \A n \in 0..Len(list) : First(t, n + 1) = First(list, n) \cup {i}
        BY <3>1, <3>2, Pushed, Zenon
      <3>4. Len(list) \in 0..Len(list)
        BY <3>1
      <3> QED
        BY <1>3, <3>2, <3>3, <3>4
    <2>2. Linked' = First(list', Len(list'))
      BY DEF Linked, First
    <2> QED
      BY <2>1, <2>2, LinkedIs
  <1>6. PICK l : l = Linked
    OBVIOUS
  <1>7. /\ StatusOf(l, entry)[i] = "free"
        /\ StatusOf(Linked', entry') = [StatusOf(l, entry) EXCEPT ![i] = "set"]
        /\ DeadlineOf(entry') = [DeadlineOf(entry) EXCEPT ![i] = now + ms]
    <2>1. i \in Ids /\ i \notin l /\ entry \in [Ids -> EntryType]
      BY <1>1, <1>6, LinkedIs
    <2>2. StatusOf(l, entry)[i] = "free"
      BY <1>2, <2>1 DEF StatusOf, DeadlineOf
    <2>3. StatusOf(l \cup {i}, f) = [StatusOf(l, entry) EXCEPT ![i] = "set"]
      BY <1>2, <2>1 DEF StatusOf, DeadlineOf
    <2>4. DeadlineOf(f) = [DeadlineOf(entry) EXCEPT ![i] = now + ms]
      BY <1>2, <2>1 DEF StatusOf, DeadlineOf
    <2> QED
      BY <1>3, <1>5, <1>6, <2>2, <2>3, <2>4, Zenon
  <1>8. AsSet!Set(i, ms)
    BY <1>1, <1>3, <1>4, <1>6, <1>7 DEF AsSet!Set, StatusOf, DeadlineOf
  <1> QED
    BY <1>1, <1>8 DEF AsSet!Next

LEMMA CancelIsCancel ==
  ASSUME IInv, NEW i \in Ids, timerwheel_cancel(i)
  PROVE  AsSet!Next
  <1>1. i \in Linked /\ ~entry[i].canceled /\ UNCHANGED <<now, list, walk>>
    BY DEF timerwheel_cancel, Live
  <1>2. PICK f : f = [entry EXCEPT ![i].canceled = TRUE]
    OBVIOUS
  <1>3. entry' = f
    BY <1>2, Zenon DEF timerwheel_cancel
  <1>4. PICK l : l = Linked
    OBVIOUS
  <1>5. Linked' = l
    BY <1>1, <1>4 DEF Linked
  <1>6. /\ StatusOf(l, entry)[i] = "set"
        /\ StatusOf(l, f) = [StatusOf(l, entry) EXCEPT ![i] = "canceled"]
        /\ DeadlineOf(f) = DeadlineOf(entry)
    <2>1. i \in l /\ entry \in [Ids -> EntryType]
      BY <1>1, <1>4, LinkedIs
    <2>2. StatusOf(l, entry)[i] = "set"
      BY <1>1, <1>2, <2>1 DEF StatusOf, DeadlineOf, EntryType
    <2>3. StatusOf(l, f) = [StatusOf(l, entry) EXCEPT ![i] = "canceled"]
      BY <1>1, <1>2, <2>1 DEF StatusOf, DeadlineOf, EntryType
    <2>4. DeadlineOf(f) = DeadlineOf(entry)
      BY <1>1, <1>2, <2>1 DEF StatusOf, DeadlineOf, EntryType
    <2> QED
      BY <2>2, <2>3, <2>4
  <1>7. AsSet!Cancel(i)
    BY <1>1, <1>3, <1>4, <1>5, <1>6 DEF AsSet!Cancel, StatusOf, DeadlineOf
  <1> QED
    BY <1>7 DEF AsSet!Next

\* An entry that was canceled is dropped; any other is called, and is due.
LEMMA ResolveDropsOrCalls ==
  ASSUME IInv, WalkResolve
  PROVE  AsSet!Next
  <1>1. /\ walk.at \in 1..Len(list) /\ walk \in WalkType /\ walk.now <= now
        /\ list \in Seq(Ids) /\ IsInjective(list)
    BY DEF IInv, WalkFits, WalkType, WalkResolve, AtEntry
  <1>2. PICK i : i = list[walk.at]
    OBVIOUS
  <1>3. i \in Ids /\ i \in Linked
    BY <1>1, <1>2 DEF Linked
  <1>4. list' = RemoveAt(list, walk.at) /\ UNCHANGED <<now, entry>>
    BY DEF WalkResolve
  <1>5. walk'.cb = IF entry[i].canceled THEN NULL ELSE i
    BY <1>1, <1>2 DEF WalkResolve, Curr, WalkType
  <1>6. Linked' = Linked \ {i}
    <2>1. PICK t : t = RemoveAt(list, walk.at)
      OBVIOUS
    <2>2. First(t, Len(t)) = First(list, Len(list)) \ {list[walk.at]}
      BY <1>1, <2>1, Unlinked, Zenon
    <2>3. Linked' = First(t, Len(t))
      BY <1>4, <2>1 DEF Linked, First
    <2> QED
      BY <1>2, <2>2, <2>3, LinkedIs
  <1>7. PICK l : l = Linked
    OBVIOUS
  <1>8. /\ StatusOf(l, entry)[i] = IF entry[i].canceled THEN "canceled" ELSE "set"
        /\ StatusOf(l \ {i}, entry) = [StatusOf(l, entry) EXCEPT ![i] = "free"]
    BY <1>3, <1>7, UnlinkFrees
  <1>9. CASE entry[i].canceled
    <2>1. walk'.cb = walk.cb
      BY <1>5, <1>9 DEF WalkResolve, AtEntry
    <2>2. AsSet!Drop(i)
      BY <1>4, <1>6, <1>7, <1>8, <1>9, <2>1 DEF AsSet!Drop, StatusOf
    <2> QED
      BY <1>3, <2>2 DEF AsSet!Next
  <1>10. CASE ~entry[i].canceled
    <2>1. walk.now >= entry[i].deadline
      BY <1>2, <1>10 DEF WalkResolve, Resolves, Curr
    <2>2. now >= entry[i].deadline
      <3>1. entry[i].deadline \in Int /\ walk.now \in Int /\ now \in Int
        BY <1>1, <1>3, TimesAreMs, LinkedIs DEF EntryType, Times, WalkType, IInv, ClockInv
      <3> QED
        BY <1>1, <2>1, <3>1
    <2>3. walk.cb = NULL
      BY DEF WalkResolve, AtEntry
    <2>4. AsSet!Call(i)
      BY <1>3, <1>4, <1>5, <1>6, <1>7, <1>8, <1>10, <2>2, <2>3 DEF AsSet!Call, StatusOf
    <2> QED
      BY <1>3, <2>4 DEF AsSet!Next
  <1> QED
    BY <1>9, <1>10

\* The other steps return from a callback, let time pass, or change nothing that
\* a timer can tell.
LEMMA OthersMap ==
  ASSUME IInv,
         \/ CallbackReturns \/ WalkKeep \/ trip_run \/ trip_action \/ trip_action_returns
         \/ trip_timeout \/ trip_timeout_returns \/ Tick \/ UNCHANGED vars
  PROVE  [AsSet!Next]_(AsSet!vars)
  <1>1. walk \in WalkType /\ (run.at # "walk" => walk.cb = NULL)
    BY NoWalkIs, LinkedIs DEF IInv, Walk
  <1>2. list' = list /\ entry' = entry
    BY DEF CallbackReturns, WalkKeep, trip_run, trip_action, trip_action_returns, trip_timeout,
           trip_timeout_returns, Tick, vars
  <1>3. Linked' = Linked
    BY <1>2 DEF Linked
  <1>4. CASE CallbackReturns
    <2>1. walk.cb # NULL /\ walk'.cb = NULL /\ now' = now
      BY <1>1, <1>4 DEF CallbackReturns, WalkType
    <2>2. AsSet!Return
      BY <1>2, <1>3, <2>1 DEF AsSet!Return
    <2> QED
      BY <2>2 DEF AsSet!Next
  <1>5. CASE Tick
    <2>1. AsSet!Tick
      BY <1>2, <1>3, <1>5 DEF Tick, AsSet!Tick
    <2> QED
      BY <2>1 DEF AsSet!Next
  <1>6. CASE \/ WalkKeep \/ trip_run \/ trip_action \/ trip_action_returns
             \/ trip_timeout \/ trip_timeout_returns \/ UNCHANGED vars
    <2>1. now' = now
      BY <1>6 DEF WalkKeep, trip_run, trip_action, trip_action_returns, trip_timeout,
                  trip_timeout_returns, vars
    <2>2. walk'.cb = walk.cb
      <3>1. CASE WalkKeep
        BY <1>1, <3>1 DEF WalkKeep, WalkType
      <3>2. CASE trip_timeout
        BY <1>1, <3>2 DEF trip_timeout, NoWalk
      <3>3. CASE trip_timeout_returns
        BY <1>1, <3>3 DEF trip_timeout_returns, NoWalk
      <3> QED
        BY <1>6, <3>1, <3>2, <3>3 DEF trip_run, trip_action, trip_action_returns, vars
    <2> QED
      BY <1>2, <1>3, <2>1, <2>2 DEF AsSet!vars
  <1> QED
    BY <1>4, <1>5, <1>6

\* Each timer is called once, not before it is due and not after it was canceled,
\* and none is lost, whatever callbacks do to the list being walked
\* (timerwheel.c:44-120).
THEOREM WheelImplementsTimerSet == Spec => ImplementsTimerSet
  <1>1. Init => AsSet!Init
    <2> SUFFICES ASSUME Init PROVE AsSet!Init
      OBVIOUS
    <2>1. Linked = {}
      BY DEF Init, Linked
    <2>2. \A i \in Ids : entry[i].deadline \in Nat
      BY DEF Init
    <2> QED
      BY <2>1, <2>2, NoWalkIs DEF Init, AsSet!Init, Walk
  <1>2. IInv /\ [Next]_vars => [AsSet!Next]_(AsSet!vars)
    <2> SUFFICES ASSUME IInv, [Next]_vars PROVE [AsSet!Next]_(AsSet!vars)
      OBVIOUS
    <2>1. CASE UserCode
      BY <2>1, SetTimeoutSets, CancelIsCancel DEF UserCode
    <2>2. CASE WalkResolve
      BY <2>2, ResolveDropsOrCalls
    <2> QED
      BY <2>1, <2>2, OthersMap DEF Next
  <1> QED
    BY <1>1, <1>2, Invariant, PTL DEF Spec, ImplementsTimerSet, AsSet!Spec
=============================================================================
