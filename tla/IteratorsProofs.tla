-------------------------- MODULE IteratorsProofs --------------------------
(***************************************************************************)
(* The iterators for any account, range, window, page size and any rows    *)
(* booked while they run: nothing is yielded twice, a range is complete    *)
(* where no second holds a whole page, and a list is complete.             *)
(***************************************************************************)
EXTENDS Iterators, FiniteSetTheorems, SequenceTheorems, WellFoundedInduction, TLAPS

-----------------------------------------------------------------------------
(* Numbers and sequences. *)

\* A set of natural numbers has a least element: what induction is used for here.
LEMMA LeastElement ==
    ASSUME NEW S, S \subseteq Nat, S # {}
    PROVE  \E m \in S : \A k \in S : m <= k
  <1> DEFINE F == {0..n : n \in S}
             R == StrictSubsetOrdering(Nat)
  <1>1. F \subseteq FiniteSubsetsOf(Nat) /\ F # {}
    <2>1. ASSUME NEW n \in S PROVE 0..n \in SUBSET Nat /\ IsFiniteSet(0..n)
      BY FS_Interval
    <2> QED BY <2>1 DEF FiniteSubsetsOf
  <1>2. IsWellFoundedOn(R, FiniteSubsetsOf(Nat))
    BY FS_StrictSubsetOrderingWellFounded
  <1> HIDE DEF F, R
  <1>3. PICK I \in F : \A J \in F : <<J, I>> \notin R
    BY <1>1, <1>2, WFMin
  <1>4. PICK m \in S : I = 0..m
    BY DEF F
  <1>5. ASSUME NEW k \in S, k < m PROVE FALSE
    <2>1. 0..k \in F
      BY DEF F
    <2>2. 0..k \subseteq 0..m /\ 0..k # 0..m
      BY <1>5, SMT
    <2>3. 0..k \in SUBSET Nat /\ 0..m \in SUBSET Nat
      OBVIOUS
    <2>4. <<0..k, 0..m>> \in R
      BY <2>2, <2>3 DEF R, StrictSubsetOrdering
    <2> QED BY <1>3, <1>4, <2>1, <2>4
  <1> QED BY <1>5

\* A stretch of a sequence.
LEMMA Stretch ==
    ASSUME NEW S, NEW s \in Seq(S), NEW i \in Nat, NEW j \in Int, j <= Len(s)
    PROVE  LET p == SubSeq(s, i + 1, j) IN
           /\ p \in Seq(S)
           /\ Len(p) = IF j < i THEN 0 ELSE j - i
           /\ \A k \in 1..Len(p) : i + k \in 1..Len(s) /\ p[k] = s[i + k]
  OBVIOUS

\* A prefix and what follows it.
LEMMA PrefixGrows ==
    ASSUME NEW S, NEW s \in Seq(S), NEW i \in Nat, NEW j \in Nat, i <= j, j <= Len(s)
    PROVE  SubSeq(s, 1, i) \o SubSeq(s, i + 1, j) = SubSeq(s, 1, j)
  OBVIOUS

\* Concatenation.
LEMMA Joined ==
    ASSUME NEW S, NEW s \in Seq(S), NEW t \in Seq(S)
    PROVE  /\ s \o t \in Seq(S) /\ Len(s \o t) = Len(s) + Len(t)
           /\ \A i \in 1..Len(s) : (s \o t)[i] = s[i]
           /\ \A i \in 1..Len(t) : (s \o t)[Len(s) + i] = t[i]
           /\ Elements(s \o t) = Elements(s) \cup Elements(t)
  <1> DEFINE q == s \o t
  <1>1. /\ q \in Seq(S) /\ Len(q) = Len(s) + Len(t)
        /\ \A i \in 1..Len(s) : q[i] = s[i]
        /\ \A i \in 1..Len(t) : q[Len(s) + i] = t[i]
    OBVIOUS
  <1>0. DOMAIN s = 1..Len(s) /\ DOMAIN t = 1..Len(t) /\ Len(s) \in Nat /\ Len(t) \in Nat
        /\ DOMAIN q = 1..(Len(s) + Len(t))
    BY <1>1
  <1> HIDE DEF q
  <1>2. Elements(s) \cup Elements(t) \subseteq Elements(q)
    <2>1. \A i \in 1..Len(s) : i \in DOMAIN q
      BY <1>0
    <2>2. \A i \in 1..Len(t) : Len(s) + i \in DOMAIN q
      BY <1>0
    <2> QED BY <1>0, <1>1, <2>1, <2>2 DEF Elements
  <1>3. Elements(q) \subseteq Elements(s) \cup Elements(t)
    <2> SUFFICES ASSUME NEW i \in 1..Len(q) PROVE q[i] \in Elements(s) \cup Elements(t)
      BY <1>0, <1>1 DEF Elements
    <2>1. CASE i <= Len(s)
      BY <1>0, <1>1, <2>1 DEF Elements
    <2>2. CASE i > Len(s)
      <3>1. i - Len(s) \in 1..Len(t) /\ Len(s) + (i - Len(s)) = i
        BY <1>0, <1>1, <2>2
      <3> QED BY <1>0, <1>1, <3>1 DEF Elements
    <2> QED BY <1>0, <1>1, <2>1, <2>2
  <1> QED BY <1>1, <1>2, <1>3 DEF q

\* No element stands in two places.
Injective(s) == \A i, j \in DOMAIN s : s[i] = s[j] => i = j

\* Which is what NoRepetition counts.
LEMMA InjectiveCounts ==
    ASSUME NEW S, NEW s \in Seq(S), Injective(s)
    PROVE  IsFiniteSet(Elements(s)) /\ Cardinality(Elements(s)) = Len(s)
  <1> DEFINE n == Len(s)
  <1>1. n \in Nat /\ s \in [1..n -> S] /\ DOMAIN s = 1..n
    OBVIOUS
  <1>2. IsFiniteSet(1..n) /\ Cardinality(1..n) = n
    BY <1>1, FS_Interval, SMTT(30)
  <1>3. s \in Bijection(1..n, Elements(s))
    BY <1>1 DEF Bijection, Injection, Surjection, IsInjective, Elements, Injective
  <1>4. ExistsBijection(1..n, Elements(s))
    BY <1>3 DEF ExistsBijection
  <1> QED BY <1>1, <1>2, <1>4, FS_Bijection

\* Two sequences without repetition and without a common element.
LEMMA InjectiveJoined ==
    ASSUME NEW S, NEW s \in Seq(S), NEW t \in Seq(S), Injective(s), Injective(t),
           Elements(s) \cap Elements(t) = {}
    PROVE  Injective(s \o t)
  <1> DEFINE q == s \o t
             n == Len(s)
  <1>1. /\ q \in Seq(S) /\ Len(q) = n + Len(t)
        /\ \A i \in 1..n : q[i] = s[i]
        /\ \A i \in 1..Len(t) : q[n + i] = t[i]
    BY Joined
  <1>2. n \in Nat /\ Len(t) \in Nat /\ DOMAIN s = 1..n /\ DOMAIN t = 1..Len(t)
        /\ DOMAIN q = 1..(n + Len(t))
    BY <1>1
  <1> HIDE DEF q, n
  <1>3. \A i \in DOMAIN q : \/ i \in DOMAIN s /\ q[i] = s[i] /\ q[i] \in Elements(s)
                            \/ i - n \in DOMAIN t /\ q[i] = t[i - n] /\ q[i] \in Elements(t)
    <2> SUFFICES ASSUME NEW i \in DOMAIN q
                 PROVE  \/ i \in DOMAIN s /\ q[i] = s[i] /\ q[i] \in Elements(s)
                        \/ i - n \in DOMAIN t /\ q[i] = t[i - n] /\ q[i] \in Elements(t)
      OBVIOUS
    <2>1. CASE i <= n
      BY <1>1, <1>2, <2>1 DEF Elements
    <2>2. CASE i > n
      <3>1. i - n \in 1..Len(t) /\ n + (i - n) = i
        BY <1>2, <2>2
      <3> QED BY <1>1, <1>2, <3>1 DEF Elements
    <2> QED BY <1>2, <2>1, <2>2
  <1>4. ASSUME NEW i \in DOMAIN q, NEW j \in DOMAIN q, q[i] = q[j] PROVE i = j
    <2>1. CASE i \in DOMAIN s /\ j \in DOMAIN s /\ q[i] = s[i] /\ q[j] = s[j]
      BY <1>4, <2>1 DEF Injective
    <2>2. CASE i - n \in DOMAIN t /\ j - n \in DOMAIN t /\ q[i] = t[i - n] /\ q[j] = t[j - n]
      <3>1. i - n = j - n
        BY <1>4, <2>2 DEF Injective
      <3> QED BY <1>2, <3>1
    <2> QED BY <1>3, <1>4, <2>1, <2>2
  <1> QED BY <1>4 DEF Injective, q

-----------------------------------------------------------------------------
(* The rows of a response that are new. *)

\* The unlisted rows among the first n of a response, for every n.
Filters(first, chunk, ids, m) ==
    first = [n \in 0..m |-> IF n = 0 THEN <<>>
                            ELSE IF chunk[n].id \in ids THEN first[n - 1]
                            ELSE Append(first[n - 1], chunk[n])]

\* There is such a function: the recursion of Unlisted is sound.
LEMMA FilterExists ==
    ASSUME NEW chunk, NEW ids, NEW n \in Nat
    PROVE  \E first : Filters(first, chunk, ids, n)
  <1> DEFINE Bad == {m \in Nat : ~\E first : Filters(first, chunk, ids, m)}
  <1> SUFFICES ASSUME Bad # {} PROVE FALSE
    OBVIOUS
  <1>1. PICK m \in Bad : \A k \in Bad : m <= k
    BY LeastElement
  <1>2. m # 0
    <2>1. Filters([k \in 0..0 |-> <<>>], chunk, ids, 0)
      BY DEF Filters
    <2> QED BY <1>1, <2>1
  <1>3. m - 1 \in Nat /\ m - 1 \notin Bad
    BY <1>1, <1>2
  <1>4. PICK g : Filters(g, chunk, ids, m - 1)
    BY <1>3
  <1> DEFINE f == [k \in 0..m |-> IF k < m THEN g[k]
                                  ELSE IF chunk[m].id \in ids THEN g[m - 1]
                                  ELSE Append(g[m - 1], chunk[m])]
  <1>5. \A k \in 0..(m - 1) : f[k] = g[k] /\ k \in 0..m
    BY <1>1
  <1>6. \A k \in 0..(m - 1) : g[k] = IF k = 0 THEN <<>>
                                     ELSE IF chunk[k].id \in ids THEN g[k - 1]
                                     ELSE Append(g[k - 1], chunk[k])
    BY <1>4 DEF Filters
  <1>7. \A k \in 0..m : f[k] = IF k = 0 THEN <<>>
                               ELSE IF chunk[k].id \in ids THEN f[k - 1]
                               ELSE Append(f[k - 1], chunk[k])
    <2> SUFFICES ASSUME NEW k \in 0..m
                 PROVE  f[k] = IF k = 0 THEN <<>>
                               ELSE IF chunk[k].id \in ids THEN f[k - 1]
                               ELSE Append(f[k - 1], chunk[k])
      OBVIOUS
    <2>1. CASE k = m
      <3>1. f[m - 1] = g[m - 1]
        BY <1>3, <1>5
      <3> QED BY <1>2, <2>1, <3>1
    <2>2. CASE k # m /\ k # 0
      <3>1. k \in 0..(m - 1) /\ k - 1 \in 0..(m - 1)
        BY <1>1, <2>2
      <3>2. f[k] = g[k] /\ f[k - 1] = g[k - 1]
        BY <1>5, <3>1
      <3> QED BY <1>6, <2>2, <3>1, <3>2
    <2>3. CASE k # m /\ k = 0
      <3>1. k \in 0..(m - 1)
        BY <1>3, <2>3
      <3> QED BY <1>5, <1>6, <2>3, <3>1
    <2> QED BY <2>1, <2>2, <2>3
  <1>8. f = [k \in 0..m |-> f[k]]
    OBVIOUS
  <1> HIDE DEF f
  <1>9. Filters(f, chunk, ids, m)
    BY <1>7, <1>8 DEF Filters
  <1> QED BY <1>1, <1>9

\* What Unlisted returns: the rows whose id is not listed, each once if the
\* response had each once.
LEMMA UnlistedIs ==
    ASSUME NEW S, NEW chunk \in Seq(S), NEW ids
    PROVE  LET new == Unlisted(chunk, ids) IN
           /\ new \in Seq(S)
           /\ Elements(new) = {r \in Elements(chunk) : r.id \notin ids}
           /\ Injective(chunk) => Injective(new)
  <1> DEFINE n == Len(chunk)
             f == CHOOSE first : Filters(first, chunk, ids, n)
             Firsts(m) == {chunk[k] : k \in 1..m}
             Good(m) == /\ f[m] \in Seq(S)
                        /\ Elements(f[m]) = {r \in Firsts(m) : r.id \notin ids}
                        /\ Injective(chunk) => Injective(f[m])
             Bad == {m \in 0..n : ~Good(m)}
  <1>1. n \in Nat /\ DOMAIN chunk = 1..n /\ chunk \in [1..n -> S]
    OBVIOUS
  <1>2. Filters(f, chunk, ids, n)
    BY <1>1, FilterExists
  <1>3. Unlisted(chunk, ids) = f[n]
    BY DEF Unlisted, Filters
  <1>4. Firsts(n) = Elements(chunk)
    BY <1>1 DEF Elements
  <1> HIDE DEF n, f
  <1>5. f[0] = <<>>
    BY <1>1, <1>2 DEF Filters
  <1>6. Good(0)
    BY <1>5 DEF Elements, Injective
  <1>7. ASSUME NEW m \in 1..n, Good(m - 1) PROVE Good(m)
    <2>1. f[m] = IF chunk[m].id \in ids THEN f[m - 1] ELSE Append(f[m - 1], chunk[m])
      <3>1. \A k \in 0..n : f[k] = IF k = 0 THEN <<>>
                                   ELSE IF chunk[k].id \in ids THEN f[k - 1]
                                   ELSE Append(f[k - 1], chunk[k])
        BY <1>2 DEF Filters
      <3>2. m \in 0..n /\ m # 0
        BY <1>1
      <3> QED BY <3>1, <3>2
    <2>2. Firsts(m) = Firsts(m - 1) \cup {chunk[m]}
      <3>1. 1..m = 1..(m - 1) \cup {m}
        BY <1>1
      <3> QED BY <3>1
    <2>3. chunk[m] \in S
      BY <1>1
    <2>4. Injective(chunk) => chunk[m] \notin Firsts(m - 1)
      <3>1. \A k \in 1..(m - 1) : k \in 1..n /\ k # m
        BY <1>1
      <3> QED BY <1>1, <3>1 DEF Injective
    <2> HIDE DEF Firsts
    <2>5. CASE chunk[m].id \in ids
      BY <1>7, <2>1, <2>2, <2>5
    <2>6. CASE chunk[m].id \notin ids
      <3> DEFINE a == f[m - 1]
                 one == <<chunk[m]>>
      <3>1. a \in Seq(S) /\ one \in Seq(S) /\ f[m] = a \o one
        <4>1. a \in Seq(S)
          BY <1>7
        <4>2. f[m] = Append(a, chunk[m])
          BY <2>1, <2>6
        <4> HIDE DEF a
        <4>3. one \in Seq(S) /\ Append(a, chunk[m]) = a \o one
          BY <2>3, <4>1
        <4> QED BY <4>1, <4>2, <4>3
      <3>2. Elements(one) = {chunk[m]} /\ Injective(one)
        BY DEF Elements, Injective
      <3>3. Elements(f[m]) = Elements(a) \cup {chunk[m]} /\ f[m] \in Seq(S)
        <4> HIDE DEF a, one
        <4>1. a \o one \in Seq(S) /\ Elements(a \o one) = Elements(a) \cup Elements(one)
          BY <3>1, Joined
        <4> QED BY <3>1, <3>2, <4>1
      <3>4. Elements(f[m]) = {r \in Firsts(m) : r.id \notin ids}
        BY <1>7, <2>2, <2>6, <3>3
      <3>5. Injective(chunk) => Injective(f[m])
        <4> SUFFICES ASSUME Injective(chunk) PROVE Injective(f[m])
          OBVIOUS
        <4>1. Elements(a) \cap Elements(one) = {}
          BY <1>7, <2>4, <3>2
        <4>2. Injective(a)
          BY <1>7
        <4> HIDE DEF a, one
        <4> QED BY <3>1, <3>2, <4>1, <4>2, InjectiveJoined
      <3> QED BY <3>3, <3>4, <3>5
    <2> QED BY <2>5, <2>6
  <1> HIDE DEF Good
  <1>8. Bad = {}
    <2> SUFFICES ASSUME Bad # {} PROVE FALSE
      OBVIOUS
    <2>0. Bad \subseteq Nat
      BY <1>1
    <2>1. PICK m \in Bad : \A k \in Bad : m <= k
      <3> HIDE DEF Bad
      <3> QED BY <2>0, LeastElement
    <2>2. m # 0 /\ m \in 0..n
      BY <1>6, <2>1
    <2>3. m \in 1..n /\ m - 1 \in 0..n /\ ~(m <= m - 1)
      BY <1>1, <2>2
    <2>4. Good(m - 1)
      BY <2>1, <2>3
    <2> QED BY <1>7, <2>1, <2>3, <2>4
  <1>9. Good(n)
    BY <1>1, <1>8
  <1> QED BY <1>3, <1>4, <1>9 DEF Good

-----------------------------------------------------------------------------
(* A response. *)

\* Newest first.
Sorted(l) == \A i, j \in DOMAIN l : i <= j => l[i].t >= l[j].t

\* No id is given twice.
Unique(l) == \A i, j \in DOMAIN l : l[i].id = l[j].id => i = j

\* What comes first in a sorted list is an initial stretch of it.
LEMMA HeadIs ==
    ASSUME NEW n \in Nat, NEW A \in SUBSET (1..n),
           \A i \in A : \A j \in 1..i : j \in A
    PROVE  Cardinality(A) \in 0..n /\ A = 1..Cardinality(A)
  <1> DEFINE Out == {k \in 0..n : k + 1 \notin A}
  <1>1. Out \subseteq Nat /\ n \in Out
    OBVIOUS
  <1>2. PICK m \in Out : \A k \in Out : m <= k
    <2> HIDE DEF Out
    <2> QED BY <1>1, LeastElement
  <1>3. ASSUME NEW i \in A PROVE i \in 1..m
    <2>1. CASE i > m
      <3>1. m + 1 \in 1..i
        BY <1>2, <2>1
      <3> QED BY <1>2, <3>1
    <2> QED BY <1>2, <2>1
  <1>4. ASSUME NEW i \in 1..m PROVE i \in A
    <2>1. i - 1 \in 0..n /\ ~(m <= i - 1) /\ (i - 1) + 1 = i
      BY <1>2
    <2> QED BY <1>2, <2>1
  <1>5. A = 1..m
    BY <1>3, <1>4
  <1>6. Cardinality(1..m) = m
    BY <1>2, FS_Interval
  <1> QED BY <1>2, <1>5, <1>6

\* And what comes last a final one.
LEMMA TailIs ==
    ASSUME NEW n \in Nat, NEW A \in SUBSET (1..n),
           \A i \in A : \A j \in i..n : j \in A
    PROVE  Cardinality(A) \in 0..n /\ A = (n - Cardinality(A) + 1)..n
  <1> DEFINE B == (1..n) \ A
  <1>1. \A i \in B : \A j \in 1..i : j \in B
    <2> SUFFICES ASSUME NEW i \in B, NEW j \in 1..i, j \in A PROVE FALSE
      OBVIOUS
    <2>1. i \in j..n
      OBVIOUS
    <2> QED BY <2>1
  <1>2. Cardinality(B) \in 0..n /\ B = 1..Cardinality(B)
    <2> HIDE DEF B
    <2>1. B \in SUBSET (1..n)
      BY DEF B
    <2> QED BY <1>1, <2>1, HeadIs
  <1> DEFINE m == Cardinality(B)
  <1>3. A = (m + 1)..n
    <2>1. A = (1..n) \ (1..m)
      BY <1>2
    <2> HIDE DEF m
    <2>2. m \in 0..n
      BY <1>2 DEF m
    <2> QED BY <2>1, <2>2
  <1> HIDE DEF m
  <1>4. m \in 0..n
    BY <1>2 DEF m
  <1>5. Cardinality((m + 1)..n) = n - m
    <2>1. m + 1 \in Int /\ n \in Int
      BY <1>4
    <2>2. Cardinality((m + 1)..n) = IF m + 1 > n THEN 0 ELSE n - (m + 1) + 1
      BY <2>1, FS_Interval
    <2> QED BY <1>4, <2>2
  <1> QED BY <1>3, <1>4, <1>5

\* p is a stretch of l.
StretchOf(p, l) ==
    \E i \in Nat : \A k \in 1..Len(p) : i + k \in DOMAIN l /\ p[k] = l[i + k]

\* A page of [f, t]: a stretch of the account, whose rows are of [f, t]; what it
\* leaves out of [f, t] is not newer than its last row, and only a full page
\* leaves anything out.
LEMMA PageIs ==
    ASSUME NEW T \in SUBSET Int, NEW l \in Seq(Rows(T)), Sorted(l),
           NEW f \in Int, NEW t \in Int, NEW cap \in Nat \ {0}
    PROVE  LET p == Page(l, f, t, cap) IN
           /\ p \in Seq(Rows(T)) /\ Len(p) <= cap
           /\ StretchOf(p, l)
           /\ \A r \in Elements(p) : r \in Elements(l) /\ f <= r.t /\ r.t <= t
           /\ \A r \in Elements(l) : f <= r.t /\ r.t <= t /\ r \notin Elements(p) =>
                Len(p) = cap /\ r.t <= p[Len(p)].t
  <1> DEFINE n == Len(l)
             newer == {i \in DOMAIN l : l[i].t > t}
             older == {i \in DOMAIN l : l[i].t < f}
             a == Cardinality(newer)
             b == n - Cardinality(older)
             all == SubSeq(l, a + 1, b)
             m == IF Len(all) < cap THEN Len(all) ELSE cap
             p == SubSeq(all, 1, m)
  <1>1. n \in Nat /\ DOMAIN l = 1..n /\ l \in [1..n -> Rows(T)]
    OBVIOUS
  <1>2. \A i \in 1..n : l[i].t \in Int
    BY <1>1 DEF Rows
  <1>3. \A i, j \in 1..n : i <= j => l[i].t >= l[j].t
    BY <1>1 DEF Sorted
  <1>4. a \in 0..n /\ newer = 1..a
    <2>1. newer \in SUBSET (1..n)
      BY <1>1
    <2>2. ASSUME NEW i \in newer, NEW j \in 1..i PROVE j \in newer
      <3>1. i \in 1..n /\ j \in 1..n /\ j <= i /\ l[i].t > t
        BY <1>1
      <3> QED BY <1>1, <1>2, <1>3, <3>1
    <2> HIDE DEF newer
    <2> QED BY <1>1, <2>1, <2>2, HeadIs
  <1>5. b \in 0..n /\ older = (b + 1)..n
    <2>1. older \in SUBSET (1..n)
      BY <1>1
    <2>2. ASSUME NEW i \in older, NEW j \in i..n PROVE j \in older
      <3>1. i \in 1..n /\ j \in 1..n /\ i <= j /\ l[i].t < f
        BY <1>1
      <3> QED BY <1>1, <1>2, <1>3, <3>1
    <2> HIDE DEF older
    <2>3. Cardinality(older) \in 0..n /\ older = (n - Cardinality(older) + 1)..n
      BY <1>1, <2>1, <2>2, TailIs
    <2> QED BY <1>1, <2>3
  <1>6. Page(l, f, t, cap) = p
    BY DEF Page, Between
  <1>7. \A i \in 1..n : (l[i].t > t <=> i <= a) /\ (l[i].t < f <=> i > b)
    <2>1. \A i \in 1..n : (l[i].t > t <=> i \in newer) /\ (l[i].t < f <=> i \in older)
      BY <1>1
    <2> HIDE DEF newer, older
    <2> QED BY <1>1, <1>4, <1>5, <2>1
  <1> HIDE DEF newer, older, a, b, n
  <1>8. /\ all \in Seq(Rows(T)) /\ Len(all) = IF b < a THEN 0 ELSE b - a
        /\ \A k \in 1..Len(all) : a + k \in 1..n /\ all[k] = l[a + k]
    BY <1>1, <1>4, <1>5, Stretch DEF n
  <1> HIDE DEF all
  <1>9. /\ p \in Seq(Rows(T)) /\ Len(p) = m /\ m \in Nat /\ m <= cap /\ m <= Len(all)
        /\ \A k \in 1..m : p[k] = all[k]
    BY <1>8
  <1>10. m = cap \/ m = Len(all)
    OBVIOUS
  <1> HIDE DEF p, m
  <1>11. \A k \in 1..m : a + k \in 1..n /\ p[k] = l[a + k]
    BY <1>8, <1>9
  <1>12. ASSUME NEW k \in 1..m PROVE p[k] \in Elements(l) /\ f <= p[k].t /\ p[k].t <= t
    <2>1. a + k \in 1..n /\ p[k] = l[a + k] /\ k \in 1..Len(all)
      BY <1>9, <1>11
    <2>2. ~(a + k <= a) /\ ~(a + k > b)
      BY <1>4, <1>5, <1>8, <2>1
    <2>3. ~(l[a + k].t > t) /\ ~(l[a + k].t < f)
      BY <1>7, <2>1, <2>2
    <2> QED BY <1>1, <1>2, <2>1, <2>3 DEF Elements
  <1>13. ASSUME NEW r \in Elements(l), f <= r.t, r.t <= t, r \notin Elements(p)
         PROVE  m = cap /\ r.t <= p[m].t
    <2>1. PICK i \in 1..n : r = l[i]
      BY <1>1 DEF Elements
    <2>2. ~(i <= a) /\ ~(i > b)
      BY <1>2, <1>7, <1>13, <2>1
    <2>3. i - a \in 1..Len(all) /\ a + (i - a) = i
      BY <1>1, <1>4, <1>5, <1>8, <2>2
    <2>4. i - a > m
      <3>1. CASE i - a <= m
        <4>1. i - a \in 1..m
          BY <1>9, <2>3, <3>1
        <4>2. p[i - a] = r
          BY <1>11, <2>1, <2>3, <4>1
        <4> QED BY <1>9, <1>13, <4>1, <4>2 DEF Elements
      <3> QED BY <1>9, <2>3, <3>1
    <2>5. m = cap
      BY <1>9, <1>10, <2>3, <2>4
    <2>6. m \in 1..m /\ a + m \in 1..n /\ a + m <= i /\ p[m] = l[a + m]
      BY <1>1, <1>4, <1>9, <1>11, <2>3, <2>4, <2>5
    <2> QED BY <1>2, <1>3, <2>1, <2>5, <2>6
  <1>14. Elements(p) = {p[k] : k \in 1..m} /\ a \in Nat
    BY <1>4, <1>9 DEF Elements
  <1>15. StretchOf(p, l)
    BY <1>1, <1>9, <1>11, <1>14 DEF StretchOf
  <1>16. \A r \in Elements(p) : r \in Elements(l) /\ f <= r.t /\ r.t <= t
    BY <1>12, <1>14
  <1>17. \A r \in Elements(l) : f <= r.t /\ r.t <= t /\ r \notin Elements(p) =>
           Len(p) = cap /\ r.t <= p[Len(p)].t
    BY <1>9, <1>13
  <1> QED BY <1>6, <1>9, <1>15, <1>16, <1>17

\* So a page is as sorted and as free of repetition as the account.
LEMMA PageOrder ==
    ASSUME NEW T \in SUBSET Int, NEW l \in Seq(Rows(T)), Sorted(l), Unique(l),
           NEW f \in Int, NEW t \in Int, NEW cap \in Nat \ {0}
    PROVE  LET p == Page(l, f, t, cap) IN
           /\ Injective(p)
           /\ p # <<>> => p[Len(p)] \in Elements(p) /\ \A r \in Elements(p) : p[Len(p)].t <= r.t
  <1> DEFINE p == Page(l, f, t, cap)
  <1>1. p \in Seq(Rows(T))
    BY PageIs
  <1>0. StretchOf(p, l)
    BY PageIs
  <1> HIDE DEF p
  <1>2. PICK i \in Nat : \A k \in 1..Len(p) : i + k \in DOMAIN l /\ p[k] = l[i + k]
    BY <1>0 DEF StretchOf
  <1>3. DOMAIN p = 1..Len(p) /\ Len(p) \in Nat /\ (p # <<>> => Len(p) \in 1..Len(p))
    BY <1>1
  <1>4. Injective(p)
    <2> SUFFICES ASSUME NEW j \in 1..Len(p), NEW k \in 1..Len(p), p[j] = p[k] PROVE j = k
      BY <1>3 DEF Injective
    <2>1. l[i + j].id = l[i + k].id /\ i + j \in DOMAIN l /\ i + k \in DOMAIN l
      BY <1>2
    <2>2. i + j = i + k
      BY <2>1 DEF Unique
    <2> QED BY <2>2
  <1>5. ASSUME p # <<>>, NEW k \in 1..Len(p) PROVE p[Len(p)].t <= p[k].t
    <2>1. /\ i + k \in DOMAIN l /\ i + Len(p) \in DOMAIN l /\ i + k <= i + Len(p)
          /\ p[k] = l[i + k] /\ p[Len(p)] = l[i + Len(p)]
      BY <1>2, <1>3, <1>5
    <2>2. l[i + k].t >= l[i + Len(p)].t
      BY <2>1 DEF Sorted
    <2>3. p[k].t \in Int /\ p[Len(p)].t \in Int
      <3>1. p[k] \in Rows(T) /\ p[Len(p)] \in Rows(T)
        BY <1>1, <1>3, <1>5
      <3> QED BY <3>1 DEF Rows
    <2> QED BY <2>1, <2>2, <2>3
  <1> QED BY <1>3, <1>4, <1>5 DEF p, Elements

-----------------------------------------------------------------------------
(* What is true while an iterator runs. *)

\* The account is in order, and what was yielded are rows of it, none twice.
Account ==
    /\ ledger \in Seq(Rows(Times)) /\ Sorted(ledger) /\ Unique(ledger)
    /\ \A r \in Elements(ledger) : r.id <= Len(ledger)
    /\ from \in Times /\ to \in Times
    /\ iter \in Lists \cup {"TransactionsRange", "StatementAll"}
    /\ pc \in {"call", "window", "fetch", "next", "done", "failed", "stopped"}
    /\ out \in Seq(Rows(Times)) /\ Elements(out) \subseteq Elements(ledger)
    /\ Injective(out)

\* The ids that are remembered are those of the upper bound's second.
Anchored ==
    /\ boundarySecond \in {NoTime, cursorTo}
    /\ boundarySecond = NoTime => seen = {}

\* A range goes forward window by window and back within a window: what was
\* yielded is before the window, or after the upper bound, or remembered.
RangeYields ==
    iter = "TransactionsRange" =>
        /\ cursor \in Nat /\ end \in Nat /\ cursorTo \in Nat
        /\ pc = "call" => cursor = from /\ out = <<>>
        /\ pc = "window" => \A r \in Elements(out) : r.t < cursor
        /\ pc = "fetch" =>
             /\ cursor <= end /\ cursorTo <= end /\ Anchored
             /\ \A x \in seen : x \in Nat /\ x <= Len(ledger)
             /\ \A r \in Elements(out) :
                  \/ r.t < cursor
                  \/ r.t <= end /\ (r.t > cursorTo \/ (r.t = cursorTo /\ r.id \in seen))
             /\ \A r \in Elements(ledger) :
                  r.id \in seen => r \in Elements(out) /\ r.t = cursorTo
        /\ pc = "next" => \A r \in Elements(out) : r.t <= end

\* Nothing of the start is left behind, as long as no second holds a whole page.
RangeCovers ==
    iter = "TransactionsRange" =>
        /\ initial \subseteq Elements(ledger)
        /\ \A r \in initial : from <= r.t /\ r.t <= to
        /\ Crowded = {} =>
             /\ pc = "window" => \A r \in initial : r.t < cursor => r \in Elements(out)
             /\ pc = "fetch" =>
                  \A r \in initial :
                     r.t < cursor \/ (cursorTo < r.t /\ r.t <= end) => r \in Elements(out)
             /\ pc = "next" => \A r \in initial : r.t <= end => r \in Elements(out)
             /\ (pc = "done" /\ to > from) => initial \subseteq Elements(out)

\* StatementAll goes back only.
StatementYields ==
    iter = "StatementAll" =>
        /\ cursorTo \in Int
        /\ pc = "call" => out = <<>> /\ Anchored /\ boundarySecond = NoTime
        /\ pc = "fetch" =>
             /\ Anchored
             /\ \A r \in Elements(out) : r.t > cursorTo \/ (r.t = cursorTo /\ r.id \in seen)

\* The rows before page n of a list.
Before(n) ==
    LET k == (n - 1) * StatementMaxRows IN IF k < Len(ledger) THEN k ELSE Len(ledger)

\* A list is yielded from its start.
ListYields ==
    iter \in Lists =>
        /\ at \in Nat
        /\ (iter \in ByOffset /\ pc \in {"call", "fetch"}) =>
              at <= Len(ledger) /\ out = SubSeq(ledger, 1, at)
        /\ (iter \in ByPage /\ pc = "call") => out = <<>>
        /\ (iter \in ByPage /\ pc = "fetch") => at >= 1 /\ out = SubSeq(ledger, 1, Before(at))
        /\ pc = "done" => out = ledger

\* The constants.
LEMMA Constants ==
    /\ Times \subseteq Nat /\ Times \in SUBSET Int
    /\ StatementMaxRows \in Nat \ {0} /\ MaxStatementWindow \in Nat
    /\ NoTime \notin Nat
  BY DrainAssumption

\* Rows have whole seconds.
LEMMA RowTimes ==
    ASSUME NEW s \in Seq(Rows(Times))
    PROVE  \A r \in Elements(s) : r \in Rows(Times) /\ r.t \in Times /\ r.t \in Nat /\ r.id \in Nat
  <1>1. \A r \in Elements(s) : r \in Rows(Times)
    BY DEF Elements
  <1>2. \A r \in Rows(Times) : r.t \in Times /\ r.id \in Nat
    BY DEF Rows
  <1> QED BY <1>1, <1>2, Constants

\* The response to a request, and the rows of it that are new.
LEMMA Response ==
    ASSUME Account, NEW f \in Int, NEW t \in Int
    PROVE  LET chunk == Page(ledger, f, t, StatementMaxRows)
               new == Unlisted(chunk, seen)
           IN  /\ chunk \in Seq(Rows(Times)) /\ Injective(chunk)
               /\ \A r \in Elements(chunk) : r \in Elements(ledger) /\ f <= r.t /\ r.t <= t
               /\ \A r \in Elements(ledger) : f <= r.t /\ r.t <= t /\ r \notin Elements(chunk) =>
                    Len(chunk) = StatementMaxRows /\ r.t <= chunk[Len(chunk)].t
               /\ chunk # <<>> => /\ chunk[Len(chunk)] \in Elements(chunk)
                                  /\ \A r \in Elements(chunk) : chunk[Len(chunk)].t <= r.t
               /\ new \in Seq(Rows(Times)) /\ Injective(new)
               /\ Elements(new) = {r \in Elements(chunk) : r.id \notin seen}
               /\ chunk = <<>> <=> Len(chunk) = 0
  <1> DEFINE chunk == Page(ledger, f, t, StatementMaxRows)
  <1>1. /\ ledger \in Seq(Rows(Times)) /\ Sorted(ledger) /\ Unique(ledger)
        /\ Times \in SUBSET Int /\ StatementMaxRows \in Nat \ {0}
    BY Constants DEF Account
  <1>2. /\ chunk \in Seq(Rows(Times))
        /\ \A r \in Elements(chunk) : r \in Elements(ledger) /\ f <= r.t /\ r.t <= t
        /\ \A r \in Elements(ledger) : f <= r.t /\ r.t <= t /\ r \notin Elements(chunk) =>
             Len(chunk) = StatementMaxRows /\ r.t <= chunk[Len(chunk)].t
    BY <1>1, PageIs
  <1>3. /\ Injective(chunk)
        /\ chunk # <<>> => /\ chunk[Len(chunk)] \in Elements(chunk)
                           /\ \A r \in Elements(chunk) : chunk[Len(chunk)].t <= r.t
    BY <1>1, PageOrder
  <1> HIDE DEF chunk
  <1>4. /\ Unlisted(chunk, seen) \in Seq(Rows(Times))
        /\ Elements(Unlisted(chunk, seen)) = {r \in Elements(chunk) : r.id \notin seen}
        /\ Injective(Unlisted(chunk, seen))
    BY <1>2, <1>3, UnlistedIs
  <1>5. chunk = <<>> <=> Len(chunk) = 0
    BY <1>2
  <1> QED BY <1>2, <1>3, <1>4, <1>5 DEF chunk

\* Yielding n of some new rows.
LEMMA Yielding ==
    ASSUME NEW o \in Seq(Rows(Times)), Injective(o),
           NEW new \in Seq(Rows(Times)), Injective(new), Elements(new) \cap Elements(o) = {},
           NEW n \in 0..Len(new)
    PROVE  LET p == o \o SubSeq(new, 1, n) IN
           /\ p \in Seq(Rows(Times)) /\ Injective(p)
           /\ Elements(p) \subseteq Elements(o) \cup Elements(new)
           /\ Elements(o) \subseteq Elements(p)
           /\ n = Len(new) => p = o \o new /\ Elements(p) = Elements(o) \cup Elements(new)
  <1> DEFINE s == SubSeq(new, 1, n)
  <1>1. /\ s \in Seq(Rows(Times)) /\ Len(s) = n /\ \A k \in 1..n : s[k] = new[k] /\ k \in 1..Len(new)
        /\ (n = Len(new) => s = new)
    OBVIOUS
  <1> HIDE DEF s
  <1>2. DOMAIN s = 1..n /\ DOMAIN new = 1..Len(new)
    BY <1>1
  <1>3. Injective(s) /\ Elements(s) \subseteq Elements(new)
    <2>1. \A k \in DOMAIN s : k \in DOMAIN new /\ s[k] = new[k]
      BY <1>1, <1>2
    <2>2. Injective(s)
      BY <2>1 DEF Injective
    <2>3. Elements(s) \subseteq Elements(new)
      BY <2>1 DEF Elements
    <2> QED BY <2>2, <2>3
  <1>4. Elements(o) \cap Elements(s) = {}
    BY <1>3
  <1>5. /\ o \o s \in Seq(Rows(Times)) /\ Elements(o \o s) = Elements(o) \cup Elements(s)
        /\ Injective(o \o s)
    BY <1>1, <1>3, <1>4, Joined, InjectiveJoined
  <1> QED BY <1>1, <1>3, <1>5 DEF s

\* A row is booked: it goes to the head, with a new id.
LEMMA Booked ==
    ASSUME Account, NEW t \in Times, Book(t)
    PROVE  /\ ledger' \in Seq(Rows(Times)) /\ Sorted(ledger)' /\ Unique(ledger)'
           /\ \A r \in Elements(ledger') : r.id <= Len(ledger')
           /\ Elements(ledger') = Elements(ledger) \cup {[id |-> Len(ledger) + 1, t |-> t]}
           /\ Len(ledger') = Len(ledger) + 1
           /\ UNCHANGED <<from, to, initial, cursor, end, cursorTo, boundarySecond, seen, out, pc>>
  <1> DEFINE n == Len(ledger)
             row == [id |-> n + 1, t |-> t]
             one == <<row>>
  <1>1. ledger \in Seq(Rows(Times)) /\ n \in Nat /\ DOMAIN ledger = 1..n
    BY DEF Account
  <1>2. row \in Rows(Times) /\ row.t = t /\ row.id = n + 1 /\ t \in Nat
    BY <1>1, Constants DEF Rows
  <1>3. ledger' = one \o ledger /\ (ledger # <<>> => t >= ledger[1].t)
    BY DEF Book
  <1> HIDE DEF row
  <1>4. one \in Seq(Rows(Times)) /\ Len(one) = 1 /\ one[1] = row /\ Elements(one) = {row}
    BY <1>2 DEF Elements
  <1> HIDE DEF one
  <1>5. /\ one \o ledger \in Seq(Rows(Times)) /\ Len(one \o ledger) = 1 + n
        /\ (one \o ledger)[1] = row
        /\ \A i \in 1..n : (one \o ledger)[1 + i] = ledger[i]
        /\ Elements(one \o ledger) = {row} \cup Elements(ledger)
    BY <1>1, <1>4, Joined
  <1>6. /\ ledger' \in Seq(Rows(Times)) /\ Len(ledger') = n + 1 /\ DOMAIN ledger' = 1..(n + 1)
        /\ ledger'[1] = row
        /\ \A i \in 1..n : ledger'[1 + i] = ledger[i]
        /\ Elements(ledger') = Elements(ledger) \cup {row}
    BY <1>1, <1>3, <1>5
  <1>7. \A i \in 1..(n + 1) : i = 1 \/ (i - 1 \in 1..n /\ ledger'[i] = ledger[i - 1])
    BY <1>1, <1>6
  <1>8. \A i \in 1..n : ledger[i].t \in Nat /\ ledger[i].id \in Nat /\ ledger[i].id <= n /\ t >= ledger[i].t
    <2> SUFFICES ASSUME NEW i \in 1..n
                 PROVE  ledger[i].t \in Nat /\ ledger[i].id \in Nat /\ ledger[i].id <= n /\ t >= ledger[i].t
      OBVIOUS
    <2>1. 1 \in 1..n /\ 1 <= i /\ ledger # <<>>
      BY <1>1
    <2>2. ledger[i] \in Elements(ledger) /\ ledger[1] \in Elements(ledger)
      BY <1>1, <2>1 DEF Elements
    <2>3. ledger[1].t >= ledger[i].t
      BY <1>1, <2>1 DEF Account, Sorted
    <2>4. ledger[1].t \in Nat /\ ledger[i].t \in Nat /\ ledger[i].id \in Nat
      BY <1>1, <2>2, RowTimes
    <2>5. ledger[i].id <= n
      BY <2>2 DEF Account
    <2> QED BY <1>2, <1>3, <2>1, <2>3, <2>4, <2>5
  <1>9. Sorted(ledger)'
    <2> SUFFICES ASSUME NEW i \in 1..(n + 1), NEW j \in 1..(n + 1), i <= j
                 PROVE  ledger'[i].t >= ledger'[j].t
      BY <1>6 DEF Sorted
    <2>1. CASE i = 1
      <3>1. ledger'[i].t = t
        BY <1>2, <1>6, <2>1
      <3>2. j = 1 \/ (j - 1 \in 1..n /\ ledger'[j] = ledger[j - 1])
        BY <1>7
      <3>3. CASE j = 1
        BY <1>2, <2>1, <3>1, <3>3
      <3>4. CASE j - 1 \in 1..n /\ ledger'[j] = ledger[j - 1]
        <4>1. t >= ledger[j - 1].t
          BY <1>8, <3>4
        <4> QED BY <3>1, <3>4, <4>1
      <3> QED BY <3>2, <3>3, <3>4
    <2>2. CASE i # 1
      <3>1. i - 1 \in 1..n /\ j - 1 \in 1..n /\ i - 1 <= j - 1 /\ j # 1
        BY <1>1, <2>2
      <3>2. ledger[i - 1].t >= ledger[j - 1].t
        BY <1>1, <3>1 DEF Account, Sorted
      <3> QED BY <1>7, <2>2, <3>1, <3>2
    <2> QED BY <2>1, <2>2
  <1>10. Unique(ledger)'
    <2> SUFFICES ASSUME NEW i \in 1..(n + 1), NEW j \in 1..(n + 1), ledger'[i].id = ledger'[j].id
                 PROVE  i = j
      BY <1>6 DEF Unique
    <2>1. CASE i # 1 /\ j # 1
      <3>1. i - 1 \in 1..n /\ j - 1 \in 1..n /\ ledger[i - 1].id = ledger[j - 1].id
        BY <1>7, <2>1
      <3>2. i - 1 = j - 1
        BY <1>1, <3>1 DEF Account, Unique
      <3> QED BY <3>2
    <2>2. CASE i = 1 \/ j = 1
      <3>1. \A k \in 1..(n + 1) : k # 1 => ledger'[k].id # n + 1
        <4> SUFFICES ASSUME NEW k \in 1..(n + 1), k # 1 PROVE ledger'[k].id # n + 1
          OBVIOUS
        <4>1. k - 1 \in 1..n /\ ledger'[k] = ledger[k - 1]
          BY <1>7
        <4>2. ledger[k - 1].id \in Nat /\ ledger[k - 1].id <= n
          BY <1>8, <4>1
        <4> QED BY <1>1, <4>1, <4>2
      <3> QED BY <1>2, <1>6, <2>2, <3>1
    <2> QED BY <2>1, <2>2
  <1>11. \A r \in Elements(ledger') : r.id <= Len(ledger')
    <2> SUFFICES ASSUME NEW r \in Elements(ledger) \cup {row} PROVE r.id <= n + 1
      BY <1>6
    <2>1. CASE r = row
      BY <1>1, <1>2, <2>1
    <2>2. CASE r \in Elements(ledger)
      <3>1. r.id <= n /\ r.id \in Nat
        BY <1>1, <2>2, RowTimes DEF Account
      <3> QED BY <1>1, <3>1
    <2> QED BY <2>1, <2>2
  <1>12. UNCHANGED <<from, to, initial, cursor, end, cursorTo, boundarySecond, seen, out, pc>>
    BY DEF Book
  <1> QED BY <1>6, <1>9, <1>10, <1>11, <1>12 DEF row

\* An id names one row.
LEMMA SameRow ==
    ASSUME NEW l, Unique(l), NEW q \in Elements(l), NEW r \in Elements(l), q.id = r.id
    PROVE  q = r
  BY DEF Elements, Unique

\* The rows of an account are finitely many, one per place.
LEMMA AccountCounts ==
    ASSUME NEW l \in Seq(Rows(Times)), Unique(l)
    PROVE  IsFiniteSet(Elements(l))
  <1>1. Injective(l)
    BY DEF Injective, Unique
  <1> QED BY <1>1, InjectiveCounts

\* A second is not crowded after a booking unless it was before, or now is.
LEMMA CrowdedGrows ==
    ASSUME Account, ledger' \in Seq(Rows(Times)), Unique(ledger)',
           Elements(ledger) \subseteq Elements(ledger'), Crowded' = {}
    PROVE  Crowded = {}
  <1> SUFFICES ASSUME NEW s \in Times,
                      Cardinality(AtSecond(Elements(ledger), s)) >= StatementMaxRows
               PROVE  FALSE
    BY DEF Crowded
  <1> DEFINE A == AtSecond(Elements(ledger), s)
             B == AtSecond(Elements(ledger'), s)
  <1>1. IsFiniteSet(Elements(ledger'))
    <2>1. Unique(ledger')
      BY DEF Unique
    <2> QED BY <2>1, AccountCounts
  <1>2. A \subseteq B /\ B \subseteq Elements(ledger')
    BY DEF AtSecond
  <1>3. IsFiniteSet(B)
    BY <1>1, <1>2, FS_Subset
  <1>4. IsFiniteSet(A) /\ Cardinality(A) <= Cardinality(B)
    <2> HIDE DEF A, B
    <2> QED BY <1>2, <1>3, FS_Subset
  <1>5. Cardinality(A) \in Nat /\ Cardinality(B) \in Nat
    <2> HIDE DEF A, B
    <2> QED BY <1>3, <1>4, FS_CardinalityType
  <1>6. Cardinality(A) >= StatementMaxRows
    OBVIOUS
  <1>7. Cardinality(B) >= StatementMaxRows
    <2> HIDE DEF A, B
    <2> QED BY <1>4, <1>5, <1>6, Constants
  <1>8. s \in Crowded'
    BY <1>7 DEF Crowded
  <1> QED BY <1>8

-----------------------------------------------------------------------------
(* A pass of DrainWindow. *)

\* What a fetch brings, in one place: chunk and new are the response and the
\* rows of it that are yielded.
Fetched(chunk, new) ==
    /\ chunk \in Seq(Rows(Times)) /\ Injective(chunk)
    /\ \A r \in Elements(chunk) : r \in Elements(ledger) /\ cursor <= r.t /\ r.t <= cursorTo
    /\ \A r \in Elements(ledger) : cursor <= r.t /\ r.t <= cursorTo /\ r \notin Elements(chunk) =>
         Len(chunk) = StatementMaxRows /\ r.t <= chunk[Len(chunk)].t
    /\ chunk # <<>> => /\ chunk[Len(chunk)] \in Elements(chunk)
                       /\ \A r \in Elements(chunk) : chunk[Len(chunk)].t <= r.t
    /\ new \in Seq(Rows(Times)) /\ Injective(new)
    /\ Elements(new) = {r \in Elements(chunk) : r.id \notin seen}
    /\ Elements(new) \cap Elements(out) = {}
    /\ chunk = <<>> <=> Len(chunk) = 0

\* Nothing of what a fetch yields was yielded before.
LEMMA RangeResponse ==
    ASSUME Account, RangeYields, iter = "TransactionsRange", pc = "fetch"
    PROVE  Fetched(Page(ledger, cursor, cursorTo, StatementMaxRows),
                   Unlisted(Page(ledger, cursor, cursorTo, StatementMaxRows), seen))
  <1> DEFINE chunk == Page(ledger, cursor, cursorTo, StatementMaxRows)
             new == Unlisted(chunk, seen)
  <1>1. cursor \in Int /\ cursorTo \in Int
    BY DEF RangeYields
  <1>2. /\ chunk \in Seq(Rows(Times)) /\ Injective(chunk)
        /\ \A r \in Elements(chunk) : r \in Elements(ledger) /\ cursor <= r.t /\ r.t <= cursorTo
        /\ \A r \in Elements(ledger) : cursor <= r.t /\ r.t <= cursorTo /\ r \notin Elements(chunk) =>
             Len(chunk) = StatementMaxRows /\ r.t <= chunk[Len(chunk)].t
        /\ chunk # <<>> => /\ chunk[Len(chunk)] \in Elements(chunk)
                           /\ \A r \in Elements(chunk) : chunk[Len(chunk)].t <= r.t
        /\ new \in Seq(Rows(Times)) /\ Injective(new)
        /\ Elements(new) = {r \in Elements(chunk) : r.id \notin seen}
        /\ chunk = <<>> <=> Len(chunk) = 0
    BY <1>1, Response
  <1> HIDE DEF chunk, new
  <1>3. ASSUME NEW r \in Elements(new), r \in Elements(out) PROVE FALSE
    <2>1. r \in Elements(chunk) /\ r.id \notin seen
      BY <1>2
    <2>2. cursor <= r.t /\ r.t <= cursorTo /\ r.t \in Nat
      BY <1>2, <2>1, RowTimes
    <2>3. \/ r.t < cursor
          \/ r.t <= end /\ (r.t > cursorTo \/ (r.t = cursorTo /\ r.id \in seen))
      BY <1>3 DEF RangeYields
    <2> QED BY <1>1, <2>1, <2>2, <2>3
  <1>4. Elements(new) \cap Elements(out) = {}
    BY <1>3
  <1>5. Fetched(chunk, new)
    BY <1>2, <1>4 DEF Fetched
  <1> QED BY <1>5 DEF chunk, new

\* A full page with nothing new on it comes from a crowded second.
LEMMA NoProgress ==
    ASSUME Account, RangeYields, iter = "TransactionsRange", pc = "fetch",
           NEW chunk, NEW new, Fetched(chunk, new), new = <<>>, Len(chunk) = StatementMaxRows
    PROVE  Crowded # {}
  <1> DEFINE A == AtSecond(Elements(ledger), cursorTo)
  <1>1. Elements(new) = {}
    BY DEF Elements
  <1>2. \A r \in Elements(chunk) : r \in Elements(ledger) /\ r.id \in seen
    BY <1>1 DEF Fetched
  <1>3. \A r \in Elements(chunk) : r.t = cursorTo
    BY <1>2 DEF RangeYields
  <1>4. Elements(chunk) \subseteq A /\ A \subseteq Elements(ledger)
    BY <1>2, <1>3 DEF AtSecond
  <1>5. cursorTo \in Times
    <2>1. chunk[Len(chunk)] \in Elements(chunk) /\ chunk \in Seq(Rows(Times))
      BY Constants DEF Fetched
    <2> QED BY <1>3, <2>1, RowTimes
  <1>6. IsFiniteSet(Elements(chunk)) /\ Cardinality(Elements(chunk)) = StatementMaxRows
    BY InjectiveCounts DEF Fetched
  <1>7. IsFiniteSet(A)
    <2>1. IsFiniteSet(Elements(ledger))
      BY AccountCounts DEF Account
    <2> HIDE DEF A
    <2> QED BY <1>4, <2>1, FS_Subset
  <1>8. Cardinality(Elements(chunk)) <= Cardinality(A) /\ Cardinality(A) \in Nat
    <2> HIDE DEF A
    <2> QED BY <1>4, <1>7, FS_Subset, FS_CardinalityType
  <1>9. Cardinality(A) >= StatementMaxRows
    <2> HIDE DEF A
    <2> QED BY <1>6, <1>8, Constants
  <1> QED BY <1>5, <1>9 DEF Crowded

\* Yielding some of the new rows keeps the account.
LEMMA AccountYields ==
    ASSUME Account, NEW new \in Seq(Rows(Times)), Injective(new),
           Elements(new) \cap Elements(out) = {}, Elements(new) \subseteq Elements(ledger),
           NEW n \in 0..Len(new), out' = out \o SubSeq(new, 1, n),
           UNCHANGED <<ledger, from, to, iter>>,
           pc' \in {"call", "window", "fetch", "next", "done", "failed", "stopped"}
    PROVE  Account'
  <1>1. /\ out' \in Seq(Rows(Times)) /\ Injective(out')
        /\ Elements(out') \subseteq Elements(out) \cup Elements(new)
    <2>1. out \in Seq(Rows(Times)) /\ Injective(out)
      BY DEF Account
    <2> QED BY <2>1, Yielding
  <1>2. Elements(out') \subseteq Elements(ledger)
    BY <1>1 DEF Account
  <1>3. /\ (ledger \in Seq(Rows(Times)))' /\ Sorted(ledger)' /\ Unique(ledger)'
        /\ \A r \in Elements(ledger') : r.id <= Len(ledger')
    BY DEF Account, Sorted, Unique
  <1>4. Injective(out)'
    BY <1>1 DEF Injective
  <1> QED BY <1>1, <1>2, <1>3, <1>4 DEF Account

\* All of the new rows.
LEMMA AccountTakes ==
    ASSUME Account, NEW new \in Seq(Rows(Times)), Injective(new),
           Elements(new) \cap Elements(out) = {}, Elements(new) \subseteq Elements(ledger),
           out' = out \o new,
           UNCHANGED <<ledger, from, to, iter>>,
           pc' \in {"call", "window", "fetch", "next", "done", "failed", "stopped"}
    PROVE  Account' /\ Elements(out') = Elements(out) \cup Elements(new)
  <1>1. SubSeq(new, 1, Len(new)) = new /\ Len(new) \in 0..Len(new)
    OBVIOUS
  <1>2. out' = out \o SubSeq(new, 1, Len(new))
    BY <1>1
  <1>3. Account'
    BY <1>1, <1>2, AccountYields
  <1>4. Elements(out') = Elements(out) \cup Elements(new)
    BY Joined DEF Account
  <1> QED BY <1>3, <1>4

\* A pass of the loop.
LEMMA RangeFetch ==
    ASSUME Account, RangeYields, RangeCovers, RangeStep(Fetch)
    PROVE  Account' /\ RangeYields' /\ RangeCovers'
  <1>0. iter = "TransactionsRange" /\ pc = "fetch" /\ UNCHANGED <<ledger, from, to, initial, cursor, end, iter>>
    BY DEF RangeStep, Fetch
  <1>1. PICK chunk, new :
          /\ Fetched(chunk, new)
          /\ out' = out \o new
          /\ IF Drained(chunk, new)
             THEN pc' = "next" /\ UNCHANGED <<cursorTo, boundarySecond, seen>>
             ELSE reanchor(chunk) /\ UNCHANGED pc
    BY <1>0, RangeResponse DEF RangeStep, Fetch
  <1>2. Elements(new) \subseteq Elements(ledger) /\ new \in Seq(Rows(Times)) /\ chunk \in Seq(Rows(Times))
    BY <1>1 DEF Fetched
  <1>3. Account' /\ Elements(out') = Elements(out) \cup Elements(new)
    <2>1. pc' \in {"fetch", "next"}
      BY <1>0, <1>1
    <2> QED BY <1>0, <1>1, <1>2, <2>1, AccountTakes DEF Fetched
  <1>4. /\ cursor \in Nat /\ end \in Nat /\ cursorTo \in Nat /\ cursor <= end /\ cursorTo <= end
        /\ boundarySecond \in {NoTime, cursorTo} /\ (boundarySecond = NoTime => seen = {})
    BY <1>0 DEF RangeYields, Anchored
  <1>5. \A r \in Elements(out) :
           \/ r.t < cursor
           \/ r.t <= end /\ (r.t > cursorTo \/ (r.t = cursorTo /\ r.id \in seen))
    BY <1>0 DEF RangeYields
  <1>6. \A r \in Elements(ledger) : r.id \in seen => r \in Elements(out) /\ r.t = cursorTo
    BY <1>0 DEF RangeYields
  <1>7. \A r \in Elements(chunk) : /\ r \in Elements(ledger) /\ r \in Elements(out') /\ r.t \in Nat
                                   /\ cursor <= r.t /\ r.t <= cursorTo
    BY <1>1, <1>2, <1>3, <1>6, RowTimes DEF Fetched
  <1>8. \A r \in Elements(new) : r \in Elements(chunk)
    BY <1>1 DEF Fetched
  <1>9. \A r \in Elements(out) : r.t \in Nat
    BY RowTimes DEF Account
  <1>10. \A r \in Elements(ledger) : r.t \in Nat
    BY RowTimes DEF Account
  <1>11. Crowded' = Crowded
    BY <1>0 DEF Crowded
  <1>12. ASSUME Crowded = {}, NEW r \in initial, r.t < cursor \/ (cursorTo < r.t /\ r.t <= end)
         PROVE  r \in Elements(out')
    <2>1. r \in Elements(out)
      BY <1>0, <1>12 DEF RangeCovers
    <2> QED BY <1>3, <2>1
  <1>13. initial \subseteq Elements(ledger) /\ \A r \in initial : from <= r.t /\ r.t <= to
    BY <1>0 DEF RangeCovers
  <1>14. CASE Drained(chunk, new)
    <2>1. pc' = "next" /\ UNCHANGED <<cursorTo, boundarySecond, seen>>
      BY <1>1, <1>14
    <2>2. \A r \in Elements(out') : r.t <= end
      <3> SUFFICES ASSUME NEW r \in Elements(out') PROVE r.t <= end
        OBVIOUS
      <3>1. CASE r \in Elements(out)
        BY <1>4, <1>5, <1>9, <3>1
      <3>2. CASE r \in Elements(new)
        <4>1. r.t \in Nat /\ r.t <= cursorTo
          BY <1>7, <1>8, <3>2
        <4> QED BY <1>4, <4>1
      <3> QED BY <1>3, <3>1, <3>2
    <2>3. RangeYields'
      BY <1>0, <1>4, <2>1, <2>2 DEF RangeYields
    <2>4. ASSUME Crowded = {}, NEW r \in initial, r.t <= end PROVE r \in Elements(out')
      <3>1. r \in Elements(ledger) /\ r.t \in Nat
        BY <1>10, <1>13
      <3>2. CASE r.t < cursor \/ cursorTo < r.t
        BY <1>12, <2>4, <3>2
      <3>3. CASE cursor <= r.t /\ r.t <= cursorTo
        <4>1. ASSUME r \notin Elements(chunk) PROVE FALSE
          <5>1. Len(chunk) = StatementMaxRows
            BY <1>1, <3>1, <3>3, <4>1 DEF Fetched
          <5>2. new = <<>>
            BY <1>14, <5>1, Constants DEF Drained
          <5> QED BY <1>0, <1>1, <2>4, <5>1, <5>2, NoProgress
        <4> QED BY <1>7, <4>1
      <3> QED BY <1>4, <3>1, <3>2, <3>3
    <2>5. RangeCovers'
      BY <1>0, <1>11, <1>13, <2>1, <2>4 DEF RangeCovers
    <2> QED BY <1>3, <2>3, <2>5
  <1>15. CASE ~Drained(chunk, new)
    <2> DEFINE ids(x) == {r.id : r \in AtSecond(Elements(chunk), x)}
    <2>0. chunk # <<>>
      BY <1>1, <1>15, Constants DEF Fetched, Drained
    <2>1. PICK oldest : oldest = chunk[Len(chunk)].t
      OBVIOUS
    <2>2. /\ cursorTo' = oldest /\ boundarySecond' = oldest
          /\ seen' = (IF oldest = boundarySecond THEN seen \cup ids(oldest) ELSE ids(oldest))
          /\ pc' = "fetch"
      BY <1>0, <1>1, <1>15, <2>1 DEF reanchor
    <2>3. oldest \in Nat /\ cursor <= oldest /\ oldest <= cursorTo
      BY <1>1, <1>7, <2>0, <2>1 DEF Fetched
    <2>4. \A r \in Elements(chunk) : oldest <= r.t
      BY <1>1, <2>0, <2>1 DEF Fetched
    <2>5. \A x \in ids(oldest) : \E q \in Elements(chunk) : q.id = x /\ q.t = oldest
      BY DEF AtSecond
    <2>6. \A q \in Elements(chunk) : q.t = oldest => q.id \in ids(oldest)
      BY DEF AtSecond
    <2> HIDE DEF ids
    <2>7. \A x \in seen' : x \in Nat /\ x <= Len(ledger)
      <3> SUFFICES ASSUME NEW x \in seen' PROVE x \in Nat /\ x <= Len(ledger)
        OBVIOUS
      <3>1. CASE x \in seen
        BY <1>0, <3>1 DEF RangeYields
      <3>2. CASE x \in ids(oldest)
        <4>1. PICK q \in Elements(chunk) : q.id = x
          BY <2>5, <3>2
        <4> QED BY <1>2, <1>7, <4>1, RowTimes DEF Account
      <3> QED BY <2>2, <3>1, <3>2
    <2>8. \A r \in Elements(out') :
            \/ r.t < cursor
            \/ r.t <= end /\ (r.t > oldest \/ (r.t = oldest /\ r.id \in seen'))
      <3> SUFFICES ASSUME NEW r \in Elements(out'), ~(r.t < cursor)
                   PROVE  r.t <= end /\ (r.t > oldest \/ (r.t = oldest /\ r.id \in seen'))
        OBVIOUS
      <3>1. CASE r \in Elements(new)
        <4>1. r \in Elements(chunk) /\ r.t \in Nat /\ r.t <= cursorTo /\ oldest <= r.t
          BY <1>7, <1>8, <2>4, <3>1
        <4>2. r.t = oldest => r.id \in seen'
          BY <2>2, <2>6, <4>1
        <4> QED BY <1>4, <2>3, <4>1, <4>2
      <3>2. CASE r \in Elements(out)
        <4>1. r.t \in Nat /\ r.t <= end /\ (r.t > cursorTo \/ (r.t = cursorTo /\ r.id \in seen))
          BY <1>5, <1>9, <3>2
        <4>2. CASE r.t = cursorTo /\ r.id \in seen /\ oldest = cursorTo
          <5>1. boundarySecond = oldest
            BY <1>4, <4>2
          <5> QED BY <2>2, <4>1, <4>2, <5>1
        <4>3. CASE r.t > cursorTo \/ oldest # cursorTo
          BY <1>4, <2>3, <4>1, <4>3
        <4> QED BY <4>1, <4>2, <4>3
      <3> QED BY <1>3, <3>1, <3>2
    <2>9. \A r \in Elements(ledger) : r.id \in seen' => r \in Elements(out') /\ r.t = oldest
      <3> SUFFICES ASSUME NEW r \in Elements(ledger), r.id \in seen'
                   PROVE  r \in Elements(out') /\ r.t = oldest
        OBVIOUS
      <3>1. CASE r.id \in ids(oldest)
        <4>1. PICK q \in Elements(chunk) : q.id = r.id /\ q.t = oldest
          BY <2>5, <3>1
        <4>2. q = r
          BY <1>7, <4>1, SameRow DEF Account
        <4> QED BY <1>7, <4>1, <4>2
      <3>2. CASE oldest = boundarySecond /\ r.id \in seen
        <4>1. oldest = cursorTo
          BY <1>4, <2>3, <3>2, Constants
        <4> QED BY <1>3, <1>6, <3>2, <4>1
      <3> QED BY <2>2, <3>1, <3>2
    <2>10. boundarySecond' # NoTime
      BY <2>2, <2>3, Constants
    <2>11. RangeYields'
      BY <1>0, <1>4, <2>2, <2>3, <2>7, <2>8, <2>9, <2>10 DEF RangeYields, Anchored
    <2>12. ASSUME Crowded = {}, NEW r \in initial, r.t < cursor \/ (oldest < r.t /\ r.t <= end)
           PROVE  r \in Elements(out')
      <3>1. r \in Elements(ledger) /\ r.t \in Nat
        BY <1>10, <1>13
      <3>2. CASE r.t < cursor \/ cursorTo < r.t
        BY <1>4, <1>12, <2>3, <2>12, <3>1, <3>2
      <3>3. CASE cursor <= r.t /\ r.t <= cursorTo
        <4>1. oldest < r.t
          BY <1>4, <2>12, <3>1, <3>3
        <4>2. ~(r.t <= oldest)
          BY <2>3, <3>1, <4>1
        <4>3. r \in Elements(chunk)
          BY <1>1, <2>1, <3>1, <3>3, <4>2 DEF Fetched
        <4> QED BY <1>7, <4>3
      <3> QED BY <1>4, <3>1, <3>2, <3>3
    <2>13. RangeCovers'
      BY <1>0, <1>11, <1>13, <2>2, <2>12 DEF RangeCovers
    <2> QED BY <1>3, <2>11, <2>13
  <1> QED BY <1>14, <1>15

\* A step that yields nothing and leaves the account alone.
LEMMA AccountStays ==
    ASSUME Account, UNCHANGED <<ledger, from, to, iter, out>>,
           pc' \in {"call", "window", "fetch", "next", "done", "failed", "stopped"}
    PROVE  Account'
  <1>1. /\ (ledger \in Seq(Rows(Times)))' /\ Sorted(ledger)' /\ Unique(ledger)'
        /\ \A r \in Elements(ledger') : r.id <= Len(ledger')
    BY DEF Account, Sorted, Unique
  <1>2. Injective(out)'
    BY DEF Account, Injective
  <1> QED BY <1>1, <1>2 DEF Account

\* The range functions begin.
LEMMA RangeCall ==
    ASSUME Account, RangeYields, RangeCovers, RangeStep(Call)
    PROVE  Account' /\ RangeYields' /\ RangeCovers'
  <1>1. /\ iter = "TransactionsRange" /\ pc = "call"
        /\ pc' = IF to > from THEN "window" ELSE "done"
        /\ UNCHANGED <<ledger, from, to, initial, cursor, end, cursorTo, boundarySecond, seen, out, iter>>
    BY DEF RangeStep, Call
  <1>2. Account'
    BY <1>1, AccountStays
  <1>3. cursor = from /\ out = <<>> /\ cursor \in Nat /\ end \in Nat /\ cursorTo \in Nat
    BY <1>1 DEF RangeYields
  <1>4. Elements(out) = {}
    BY <1>3 DEF Elements
  <1>5. RangeYields'
    BY <1>1, <1>3, <1>4 DEF RangeYields
  <1>6. /\ initial \subseteq Elements(ledger)
        /\ \A r \in initial : from <= r.t /\ r.t <= to
    BY <1>1 DEF RangeCovers
  <1>7. \A r \in initial : ~(r.t < cursor)
    <2>1. \A r \in initial : r.t \in Nat
      BY <1>6, RowTimes DEF Account
    <2> QED BY <1>3, <1>6, <2>1
  <1>8. RangeCovers'
    BY <1>1, <1>6, <1>7 DEF RangeCovers
  <1> QED BY <1>2, <1>5, <1>8

\* The next window, or the end.
LEMMA RangeWindow ==
    ASSUME Account, RangeYields, RangeCovers, RangeStep(Window)
    PROVE  Account' /\ RangeYields' /\ RangeCovers'
  <1>1. /\ iter = "TransactionsRange" /\ pc = "window"
        /\ UNCHANGED <<ledger, from, to, initial, cursor, out, iter>>
    BY DEF RangeStep, Window
  <1>2. /\ cursor \in Nat /\ end \in Nat /\ cursorTo \in Nat
        /\ \A r \in Elements(out) : r.t < cursor
    BY <1>1 DEF RangeYields
  <1>3. /\ initial \subseteq Elements(ledger)
        /\ \A r \in initial : from <= r.t /\ r.t <= to
        /\ Crowded = {} => \A r \in initial : r.t < cursor => r \in Elements(out)
    BY <1>1 DEF RangeCovers
  <1>4. \A r \in initial : r.t \in Nat
    BY <1>3, RowTimes DEF Account
  <1>5. Crowded' = Crowded
    BY <1>1 DEF Crowded
  <1>6. to \in Nat
    BY Constants DEF Account
  <1>7. CASE cursor > to
    <2>1. pc' = "done" /\ UNCHANGED <<end, cursorTo, boundarySecond, seen>>
      BY <1>7 DEF RangeStep, Window
    <2>2. Account'
      BY <1>1, <2>1, AccountStays
    <2>3. RangeYields'
      BY <1>1, <1>2, <2>1 DEF RangeYields
    <2>4. \A r \in initial : r.t < cursor
      BY <1>2, <1>3, <1>4, <1>6, <1>7
    <2>5. RangeCovers'
      BY <1>1, <1>3, <1>5, <2>1, <2>4 DEF RangeCovers
    <2> QED BY <2>2, <2>3, <2>5
  <1>8. CASE ~(cursor > to)
    <2>1. /\ end' = (IF cursor + MaxStatementWindow > to THEN to ELSE cursor + MaxStatementWindow)
          /\ cursorTo' = end' /\ boundarySecond' = NoTime /\ seen' = {} /\ pc' = "fetch"
      BY <1>8 DEF RangeStep, Window
    <2>2. end' \in Nat /\ cursor <= end'
      BY <1>2, <1>6, <1>8, <2>1, Constants
    <2>3. Account'
      BY <1>1, <2>1, AccountStays
    <2>4. RangeYields'
      BY <1>1, <1>2, <2>1, <2>2 DEF RangeYields, Anchored
    <2>5. \A r \in initial : ~(cursorTo' < r.t /\ r.t <= end')
      BY <1>4, <2>1, <2>2
    <2>6. RangeCovers'
      BY <1>1, <1>3, <1>5, <2>1, <2>5 DEF RangeCovers
    <2> QED BY <2>3, <2>4, <2>6
  <1> QED BY <1>7, <1>8

\* A window is drained.
LEMMA RangeNextWindow ==
    ASSUME Account, RangeYields, RangeCovers, RangeStep(NextWindow)
    PROVE  Account' /\ RangeYields' /\ RangeCovers'
  <1>1. /\ iter = "TransactionsRange" /\ pc = "next" /\ pc' = "window" /\ cursor' = end + 1
        /\ UNCHANGED <<ledger, from, to, initial, end, cursorTo, boundarySecond, seen, out, iter>>
    BY DEF RangeStep, NextWindow
  <1>2. Account'
    BY <1>1, AccountStays
  <1>3. /\ cursor \in Nat /\ end \in Nat /\ cursorTo \in Nat
        /\ \A r \in Elements(out) : r.t <= end
    BY <1>1 DEF RangeYields
  <1>4. \A r \in Elements(out) : r.t < end + 1
    <2>1. \A r \in Elements(out) : r.t \in Nat
      BY RowTimes DEF Account
    <2> QED BY <1>3, <2>1
  <1>5. RangeYields'
    BY <1>1, <1>3, <1>4 DEF RangeYields
  <1>6. /\ initial \subseteq Elements(ledger)
        /\ \A r \in initial : from <= r.t /\ r.t <= to
        /\ Crowded = {} => \A r \in initial : r.t <= end => r \in Elements(out)
    BY <1>1 DEF RangeCovers
  <1>7. \A r \in initial : r.t < end + 1 => r.t <= end
    <2>1. \A r \in initial : r.t \in Nat
      BY <1>6, RowTimes DEF Account
    <2> QED BY <1>3, <2>1
  <1>8. Crowded' = Crowded
    BY <1>1 DEF Crowded
  <1>9. RangeCovers'
    BY <1>1, <1>6, <1>7, <1>8 DEF RangeCovers
  <1> QED BY <1>2, <1>5, <1>9

\* The consumer leaves, or the fetch fails.
LEMMA RangeEnds ==
    ASSUME Account, RangeYields, RangeCovers, RangeStep(Break) \/ RangeStep(FetchFails)
    PROVE  Account' /\ RangeYields' /\ RangeCovers'
  <1>1. /\ iter = "TransactionsRange" /\ pc' \in {"stopped", "failed"}
        /\ UNCHANGED <<ledger, from, to, initial, cursor, end, cursorTo, boundarySecond, seen, iter>>
    BY DEF RangeStep, Break, FetchFails
  <1>2. Account'
    <2>1. CASE RangeStep(Break)
      <3>1. pc = "fetch"
        BY <2>1 DEF RangeStep, Break
      <3>2. PICK chunk, new : Fetched(chunk, new) /\ \E n \in 1..Len(new) : out' = out \o SubSeq(new, 1, n)
        BY <1>1, <2>1, <3>1, RangeResponse DEF RangeStep, Break
      <3>3. PICK n \in 1..Len(new) : out' = out \o SubSeq(new, 1, n)
        BY <3>2
      <3>4. /\ new \in Seq(Rows(Times)) /\ Injective(new) /\ Elements(new) \subseteq Elements(ledger)
            /\ Elements(new) \cap Elements(out) = {} /\ n \in 0..Len(new)
        BY <3>2 DEF Fetched
      <3> QED BY <1>1, <3>3, <3>4, AccountYields
    <2>2. CASE RangeStep(FetchFails)
      <3>1. UNCHANGED out
        BY <2>2 DEF RangeStep, FetchFails
      <3> QED BY <1>1, <3>1, AccountStays
    <2> QED BY <2>1, <2>2
  <1>3. RangeYields'
    BY <1>1 DEF RangeYields
  <1>4. RangeCovers'
    BY <1>1 DEF RangeCovers
  <1> QED BY <1>2, <1>3, <1>4

\* A row is booked meanwhile.
LEMMA RangeBook ==
    ASSUME Account, RangeYields, RangeCovers, NEW t \in Times, Book(t), iter' = iter
    PROVE  Account' /\ RangeYields' /\ RangeCovers'
  <1> DEFINE row == [id |-> Len(ledger) + 1, t |-> t]
  <1>1. /\ ledger' \in Seq(Rows(Times)) /\ Sorted(ledger)' /\ Unique(ledger)'
        /\ \A r \in Elements(ledger') : r.id <= Len(ledger')
        /\ Elements(ledger') = Elements(ledger) \cup {row}
        /\ Len(ledger') = Len(ledger) + 1
        /\ UNCHANGED <<from, to, initial, cursor, end, cursorTo, boundarySecond, seen, out, pc>>
    BY Booked
  <1>2. row.id = Len(ledger) + 1 /\ Len(ledger) \in Nat
    BY DEF Account
  <1> HIDE DEF row
  <1>3. Injective(out)' /\ Elements(out') = Elements(out)
    BY <1>1 DEF Account, Injective
  <1>4. Account'
    BY <1>1, <1>3 DEF Account
  <1>5. RangeYields'
    <2> SUFFICES ASSUME iter = "TransactionsRange" PROVE RangeYields'
      BY DEF RangeYields
    <2>1. CASE pc = "fetch"
      <3>1. \A x \in seen : x \in Nat /\ x <= Len(ledger)
        BY <2>1 DEF RangeYields
      <3>2. row.id \notin seen
        BY <1>2, <3>1
      <3>3. \A x \in seen : x \in Nat /\ x <= Len(ledger')
        BY <1>1, <1>2, <3>1
      <3> QED BY <1>1, <1>3, <2>1, <3>2, <3>3 DEF RangeYields, Anchored
    <2>2. CASE pc # "fetch"
      BY <1>1, <1>3, <2>2 DEF RangeYields
    <2> QED BY <2>1, <2>2
  <1>6. RangeCovers'
    <2>1. Crowded' = {} => Crowded = {}
      BY <1>1, CrowdedGrows
    <2> QED BY <1>1, <1>3, <2>1 DEF RangeCovers
  <1> QED BY <1>4, <1>5, <1>6

-----------------------------------------------------------------------------
(* StatementAll. *)

\* What a page of StatementAll brings, and that none of it was yielded before.
LEMMA StatementResponse ==
    ASSUME Account, StatementYields, iter = "StatementAll", pc = "fetch"
    PROVE  /\ Operations \in Seq(Rows(Times))
           /\ \A r \in Elements(Operations) : r \in Elements(ledger) /\ r.t <= cursorTo /\ r.t \in Nat
           /\ Operations # <<>> =>
                /\ Operations[Len(Operations)] \in Elements(Operations)
                /\ Operations[1] \in Elements(Operations)
                /\ \A r \in Elements(Operations) : Operations[Len(Operations)].t <= r.t
           /\ Unseen \in Seq(Rows(Times)) /\ Injective(Unseen)
           /\ Elements(Unseen) = {r \in Elements(Operations) : r.id \notin seen}
           /\ Elements(Unseen) \cap Elements(out) = {}
  <1>1. from \in Int /\ cursorTo \in Int
    BY Constants DEF Account, StatementYields
  <1>2. /\ Operations \in Seq(Rows(Times)) /\ Injective(Operations)
        /\ \A r \in Elements(Operations) : r \in Elements(ledger) /\ from <= r.t /\ r.t <= cursorTo
        /\ Operations # <<>> => /\ Operations[Len(Operations)] \in Elements(Operations)
                           /\ \A r \in Elements(Operations) : Operations[Len(Operations)].t <= r.t
        /\ Unseen \in Seq(Rows(Times)) /\ Injective(Unseen)
        /\ Elements(Unseen) = {r \in Elements(Operations) : r.id \notin seen}
    BY <1>1, Response DEF Operations, Unseen
  <1>3. \A r \in Elements(Operations) : r.t \in Nat
    BY <1>2, RowTimes
  <1>4. Operations # <<>> => Operations[1] \in Elements(Operations)
    <2>1. Operations # <<>> => 1 \in DOMAIN Operations
      BY <1>2
    <2> QED BY <2>1 DEF Elements
  <1>5. ASSUME NEW r \in Elements(Unseen), r \in Elements(out) PROVE FALSE
    <2>1. r \in Elements(Operations) /\ r.id \notin seen /\ r.t <= cursorTo /\ r.t \in Nat
      BY <1>2, <1>3
    <2>2. r.t > cursorTo \/ (r.t = cursorTo /\ r.id \in seen)
      BY <1>5 DEF StatementYields
    <2> QED BY <1>1, <2>1, <2>2
  <1> QED BY <1>2, <1>3, <1>4, <1>5

\* A pass of its loop.
LEMMA StatementFetch ==
    ASSUME Account, StatementYields, StatementAllFetch
    PROVE  Account' /\ StatementYields'
  <1>1. /\ iter = "StatementAll" /\ pc = "fetch" /\ pc' \in {"fetch", "done"}
        /\ UNCHANGED <<ledger, from, to, iter>>
    BY DEF StatementAllFetch, Fixed
  <1>2. PICK ops, new :
          /\ ops = Operations /\ new = Unseen
          /\ ops \in Seq(Rows(Times))
          /\ \A r \in Elements(ops) : r \in Elements(ledger) /\ r.t <= cursorTo /\ r.t \in Nat
          /\ ops # <<>> => /\ ops[Len(ops)] \in Elements(ops)
                           /\ ops[1] \in Elements(ops)
                           /\ \A r \in Elements(ops) : ops[Len(ops)].t <= r.t
          /\ new \in Seq(Rows(Times)) /\ Injective(new)
          /\ Elements(new) = {r \in Elements(ops) : r.id \notin seen}
          /\ Elements(new) \cap Elements(out) = {}
    BY <1>1, StatementResponse
  <1>3. /\ cursorTo \in Int /\ boundarySecond \in {NoTime, cursorTo}
        /\ boundarySecond = NoTime => seen = {}
        /\ \A r \in Elements(out) : r.t > cursorTo \/ (r.t = cursorTo /\ r.id \in seen)
    BY <1>1 DEF StatementYields, Anchored
  <1>4. \A r \in Elements(out) : r.t \in Nat
    BY RowTimes DEF Account
  <1>5. CASE ~(cursorTo > from /\ ops # <<>>)
    <2>1. out' = out /\ pc' = "done" /\ UNCHANGED cursorTo
      BY <1>2, <1>5 DEF StatementAllFetch
    <2>2. Account'
      BY <1>1, <2>1, AccountStays
    <2>3. StatementYields'
      BY <1>1, <1>3, <2>1 DEF StatementYields
    <2> QED BY <2>2, <2>3
  <1>6. CASE cursorTo > from /\ ops # <<>>
    <2>1. out' = out \o new
      BY <1>2, <1>6 DEF StatementAllFetch
    <2>2. Elements(new) \subseteq Elements(ledger)
      BY <1>2
    <2>3. Account' /\ Elements(out') = Elements(out) \cup Elements(new)
      BY <1>1, <1>2, <2>1, <2>2, AccountTakes
    <2>4. CASE Overflow /\ new = <<>>
      <3>1. pc' = "done" /\ UNCHANGED cursorTo
        BY <1>2, <1>6, <2>4 DEF StatementAllFetch
      <3>2. StatementYields'
        BY <1>1, <1>3, <3>1 DEF StatementYields
      <3> QED BY <2>3, <3>2
    <2>5. CASE Overflow /\ new # <<>>
      <3>1. sameSecond /\ pc' = "fetch"
        BY <1>1, <1>2, <1>6, <2>5 DEF StatementAllFetch
      <3>2. PICK s : s = ops[1].t
        OBVIOUS
      <3>3. /\ seen' = (IF s = boundarySecond THEN seen ELSE {}) \cup {r.id : r \in Elements(ops)}
            /\ boundarySecond' = s /\ cursorTo' = s
        BY <1>2, <3>1, <3>2 DEF sameSecond
      <3>4. s = ops[Len(ops)].t
        BY <1>2, <2>5, <3>2 DEF Overflow
      <3>5. s \in Nat /\ s <= cursorTo /\ s # NoTime
        BY <1>2, <1>6, <3>2, Constants
      <3>6. \A r \in Elements(out') : r.t > s \/ (r.t = s /\ r.id \in seen')
        <4> SUFFICES ASSUME NEW r \in Elements(out') PROVE r.t > s \/ (r.t = s /\ r.id \in seen')
          OBVIOUS
        <4>1. CASE r \in Elements(new)
          <5>1. r \in Elements(ops) /\ r.t \in Nat /\ s <= r.t
            BY <1>2, <1>6, <3>4, <4>1
          <5>2. r.id \in seen'
            BY <3>3, <5>1
          <5> QED BY <3>5, <5>1, <5>2
        <4>2. CASE r \in Elements(out)
          <5>1. r.t \in Nat /\ (r.t > cursorTo \/ (r.t = cursorTo /\ r.id \in seen))
            BY <1>3, <1>4, <4>2
          <5>2. CASE r.t = cursorTo /\ r.id \in seen /\ s = cursorTo
            <6>1. boundarySecond = s
              BY <1>3, <5>2
            <6> QED BY <3>3, <5>1, <5>2, <6>1
          <5>3. CASE r.t > cursorTo \/ s # cursorTo
            BY <1>3, <3>5, <5>1, <5>3
          <5> QED BY <5>1, <5>2, <5>3
        <4> QED BY <2>3, <4>1, <4>2
      <3>7. StatementYields'
        BY <1>1, <3>1, <3>3, <3>5, <3>6 DEF StatementYields, Anchored
      <3> QED BY <2>3, <3>7
    <2>6. CASE ~Overflow
      <3>1. /\ seen' = {} /\ boundarySecond' = NoTime /\ pc' = "fetch"
            /\ cursorTo' = ops[Len(ops)].t - 1
        BY <1>1, <1>2, <1>6, <2>6 DEF StatementAllFetch
      <3>2. PICK s : s = ops[Len(ops)].t
        OBVIOUS
      <3>3. s \in Nat /\ s <= cursorTo
        BY <1>2, <1>6, <3>2
      <3>4. \A r \in Elements(out') : r.t > s - 1
        <4> SUFFICES ASSUME NEW r \in Elements(out') PROVE r.t > s - 1
          OBVIOUS
        <4>1. CASE r \in Elements(new)
          <5>1. r \in Elements(ops) /\ r.t \in Nat /\ s <= r.t
            BY <1>2, <1>6, <3>2, <4>1
          <5> QED BY <3>3, <5>1
        <4>2. CASE r \in Elements(out)
          <5>1. r.t \in Nat /\ (r.t > cursorTo \/ r.t = cursorTo)
            BY <1>3, <1>4, <4>2
          <5> QED BY <1>3, <3>3, <5>1
        <4> QED BY <2>3, <4>1, <4>2
      <3>5. cursorTo' = s - 1 /\ cursorTo' \in Int
        BY <3>1, <3>2, <3>3
      <3>6. StatementYields'
        BY <1>1, <3>1, <3>4, <3>5 DEF StatementYields, Anchored
      <3> QED BY <2>3, <3>6
    <2> QED BY <2>4, <2>5, <2>6
  <1> QED BY <1>5, <1>6

\* It begins.
LEMMA StatementCall ==
    ASSUME Account, StatementYields, StatementAllCall
    PROVE  Account' /\ StatementYields'
  <1>1. /\ iter = "StatementAll" /\ pc = "call" /\ pc' = "fetch" /\ cursorTo' = to
        /\ UNCHANGED <<ledger, from, to, iter, boundarySecond, seen, out>>
    BY DEF StatementAllCall, Fixed
  <1>2. Account'
    BY <1>1, AccountStays
  <1>3. out = <<>> /\ boundarySecond = NoTime /\ seen = {}
    BY <1>1 DEF StatementYields, Anchored
  <1>4. Elements(out) = {}
    BY <1>3 DEF Elements
  <1>5. to \in Int
    BY Constants DEF Account
  <1> QED BY <1>1, <1>2, <1>3, <1>4, <1>5 DEF StatementYields, Anchored

\* A row is booked meanwhile.
LEMMA StatementBook ==
    ASSUME Account, StatementYields, NEW t \in Times, Book(t), iter' = iter
    PROVE  StatementYields'
  <1>1. UNCHANGED <<cursorTo, boundarySecond, seen, out, pc>>
    BY DEF Book
  <1> QED BY <1>1 DEF StatementYields, Anchored

-----------------------------------------------------------------------------
(* Lists. *)

\* rows go on where the first i rows of the list end, up to j.
Continue(rows, i, j) ==
    /\ rows \in Seq(Rows(Times)) /\ Len(rows) = j - i /\ Injective(rows)
    /\ Elements(rows) \subseteq Elements(ledger)
    /\ Elements(rows) \cap Elements(out) = {}
    /\ out \o rows = SubSeq(ledger, 1, j)
    /\ j = Len(ledger) => out \o rows = ledger
    /\ rows = <<>> <=> i = j

\* A further stretch of a list that was yielded up to i.
LEMMA Further ==
    ASSUME Account, NEW i \in Nat, NEW j \in Nat, i <= j, j <= Len(ledger),
           out = SubSeq(ledger, 1, i)
    PROVE  Continue(SubSeq(ledger, i + 1, j), i, j)
  <1> DEFINE rows == SubSeq(ledger, i + 1, j)
  <1>1. ledger \in Seq(Rows(Times)) /\ Unique(ledger) /\ DOMAIN ledger = 1..Len(ledger) /\ Len(ledger) \in Nat
    BY DEF Account
  <1>2. /\ rows \in Seq(Rows(Times)) /\ Len(rows) = j - i
        /\ \A k \in 1..Len(rows) : i + k \in 1..Len(ledger) /\ rows[k] = ledger[i + k]
    <2> DEFINE R == Rows(Times)
    <2>1. ledger \in Seq(R) /\ j \in Int /\ ~(j < i)
      BY <1>1
    <2> HIDE DEF R
    <2>2. rows \in Seq(R)
      BY <2>1, Stretch
    <2>3. Len(rows) = j - i
      BY <2>1, Stretch
    <2>4. \A k \in 1..Len(rows) : i + k \in 1..Len(ledger) /\ rows[k] = ledger[i + k]
      BY <2>1, Stretch
    <2> HIDE DEF rows
    <2> QED BY <2>2, <2>3, <2>4 DEF R
  <1>3. /\ out \in Seq(Rows(Times)) /\ Len(out) = i
        /\ \A k \in 1..i : k \in 1..Len(ledger) /\ out[k] = ledger[k]
    BY <1>1
  <1>4. out \o rows = SubSeq(ledger, 1, j)
    BY <1>1, PrefixGrows
  <1>5. j = Len(ledger) => SubSeq(ledger, 1, j) = ledger
    BY <1>1
  <1> HIDE DEF rows
  <1>6. DOMAIN rows = 1..(j - i) /\ DOMAIN out = 1..i
    BY <1>2, <1>3
  <1>7. Injective(rows)
    <2> SUFFICES ASSUME NEW x \in DOMAIN rows, NEW y \in DOMAIN rows, rows[x] = rows[y] PROVE x = y
      BY DEF Injective
    <2>1. i + x \in DOMAIN ledger /\ i + y \in DOMAIN ledger /\ ledger[i + x].id = ledger[i + y].id
      BY <1>1, <1>2, <1>6
    <2>2. i + x = i + y
      BY <1>1, <2>1 DEF Unique
    <2> QED BY <1>6, <2>2
  <1>8. Elements(rows) \subseteq Elements(ledger)
    BY <1>1, <1>2, <1>6 DEF Elements
  <1>9. ASSUME NEW x \in DOMAIN rows, NEW y \in DOMAIN out, rows[x] = out[y] PROVE FALSE
    <2>1. i + x \in DOMAIN ledger /\ y \in DOMAIN ledger /\ ledger[i + x].id = ledger[y].id
      BY <1>1, <1>2, <1>3, <1>6, <1>9
    <2>2. i + x = y
      BY <1>1, <2>1 DEF Unique
    <2> QED BY <1>6, <2>2
  <1>10. Elements(rows) \cap Elements(out) = {}
    BY <1>9 DEF Elements
  <1>11. rows = <<>> <=> i = j
    BY <1>2
  <1>12. Continue(rows, i, j)
    BY <1>2, <1>4, <1>5, <1>7, <1>8, <1>10, <1>11 DEF Continue
  <1> QED BY <1>12 DEF rows

\* The pages of a list at an offset.
LEMMA OffsetPage ==
    ASSUME Account, ListYields, iter \in ByOffset, pc = "fetch", NEW p \in OffsetPages
    PROVE  /\ at \in Nat /\ at <= Len(ledger) /\ out = SubSeq(ledger, 1, at)
           /\ \E j \in Nat : /\ at <= j /\ j <= Len(ledger) /\ p.rows = SubSeq(ledger, at + 1, j)
                             /\ j = at => j = Len(ledger)
                             /\ ~p.more => j = Len(ledger)
  <1>1. at \in Nat /\ at <= Len(ledger) /\ out = SubSeq(ledger, 1, at)
    BY DEF ListYields, Lists
  <1>2. PICK k \in 1..StatementMaxRows : p.rows = Rest(at, at + k)
    BY DEF OffsetPages
  <1>3. p.more \/ at + Len(p.rows) >= Len(ledger)
    BY DEF OffsetPages
  <1> DEFINE j == IF at + k > Len(ledger) THEN Len(ledger) ELSE at + k
  <1>4. p.rows = SubSeq(ledger, at + 1, j)
    BY <1>2 DEF Rest
  <1>5. Len(ledger) \in Nat /\ ledger \in Seq(Rows(Times))
    BY DEF Account
  <1>6. j \in Nat /\ at <= j /\ j <= Len(ledger) /\ (j = at => j = Len(ledger))
    BY <1>1, <1>5, Constants
  <1> HIDE DEF j
  <1>7. Len(p.rows) = j - at
    BY <1>1, <1>4, <1>6, Further
  <1>8. ~p.more => j = Len(ledger)
    BY <1>1, <1>3, <1>5, <1>6, <1>7
  <1> QED BY <1>1, <1>4, <1>6, <1>8

\* A step of the contact iterators.
LEMMA OffsetStep ==
    ASSUME Account, ListYields, NEW name \in ByOffset, OffsetIterator(name)
    PROVE  Account' /\ ListYields'
  <1>1. /\ iter \in ByOffset /\ iter \in Lists /\ iter \notin ByPage /\ UNCHANGED <<ledger, from, to, iter>>
        /\ pc \in {"call", "fetch"}
    BY DEF OffsetIterator, Fixed, Lists, ByOffset, ByPage
  <1>2. CASE pc = "call"
    <2>1. pc' = "fetch" /\ UNCHANGED <<out, at>>
      BY <1>2 DEF OffsetIterator
    <2>2. Account'
      BY <1>1, <2>1, AccountStays
    <2>3. ListYields'
      BY <1>1, <1>2, <2>1 DEF ListYields
    <2> QED BY <2>2, <2>3
  <1>3. CASE pc = "fetch"
    <2>1. PICK p \in OffsetPages : offsetPass(p)
      BY <1>3 DEF OffsetIterator
    <2>2. at \in Nat /\ at <= Len(ledger) /\ out = SubSeq(ledger, 1, at)
      BY <1>1, <1>3, <2>1, OffsetPage
    <2>3. PICK j \in Nat : /\ at <= j /\ j <= Len(ledger) /\ p.rows = SubSeq(ledger, at + 1, j)
                           /\ j = at => j = Len(ledger)
                           /\ ~p.more => j = Len(ledger)
      BY <1>1, <1>3, <2>1, OffsetPage
    <2>4. PICK rows : rows = p.rows
      OBVIOUS
    <2>5. /\ rows \in Seq(Rows(Times)) /\ Len(rows) = j - at /\ Injective(rows)
          /\ Elements(rows) \subseteq Elements(ledger)
          /\ Elements(rows) \cap Elements(out) = {}
          /\ out \o rows = SubSeq(ledger, 1, j)
          /\ j = Len(ledger) => out \o rows = ledger
          /\ rows = <<>> <=> at = j
      <3>1. at <= j /\ j <= Len(ledger)
        BY <2>3
      <3>2. rows = SubSeq(ledger, at + 1, j)
        BY <2>3, <2>4
      <3>3. Continue(SubSeq(ledger, at + 1, j), at, j)
        BY <1>1, <2>2, <3>1, Further
      <3> QED BY <3>2, <3>3 DEF Continue
    <2>6. /\ out' = out \o rows
          /\ IF ~p.more \/ rows = <<>> THEN pc' = "done" /\ UNCHANGED at
             ELSE at' = at + Len(rows) /\ UNCHANGED pc
      BY <2>1, <2>4 DEF offsetPass
    <2>7. Account'
      <3>1. pc' \in {"done", "fetch"}
        BY <1>3, <2>6
      <3> QED BY <1>1, <2>5, <2>6, <3>1, AccountTakes
    <2>8. CASE ~p.more \/ rows = <<>>
      <3>1. j = Len(ledger)
        BY <2>3, <2>5, <2>8
      <3>2. out' = ledger' /\ pc' = "done" /\ at' \in Nat
        BY <1>1, <2>2, <2>5, <2>6, <2>8, <3>1
      <3>3. ListYields'
        BY <1>1, <3>2 DEF ListYields
      <3> QED BY <2>7, <3>3
    <2>9. CASE ~(~p.more \/ rows = <<>>)
      <3>1. at' = j /\ pc' = "fetch" /\ out' = SubSeq(ledger, 1, j)
        BY <1>3, <2>2, <2>3, <2>5, <2>6, <2>9
      <3>2. ListYields'
        BY <1>1, <2>3, <3>1 DEF ListYields
      <3> QED BY <2>7, <3>2
    <2> QED BY <2>8, <2>9
  <1> QED BY <1>1, <1>2, <1>3

\* So many pages hold the whole list.
LEMMA PagesHold ==
    ASSUME NEW n \in Nat, NEW c \in Nat \ {0}, NEW a \in Nat, a >= (n + c - 1) \div c
    PROVE  a * c >= n
  <1> DEFINE q == (n + c - 1) \div c
             m == (n + c - 1) % c
  <1>1. q \in Int /\ m \in 0..(c - 1) /\ n + c - 1 = c * q + m
    OBVIOUS
  <1> HIDE DEF q, m
  <1>2. c * q >= n
    BY <1>1
  <1>3. a >= q
    BY DEF q
  <1>4. PICK d \in Nat : a = q + d
    <2>1. a - q \in Nat /\ a = q + (a - q)
      BY <1>1, <1>3
    <2> QED BY <2>1
  <1>5. a * c = c * q + d * c
    BY <1>1, <1>4
  <1>6. d * c \in Nat
    BY <1>4
  <1>7. PICK x : x = d * c
    OBVIOUS
  <1>8. PICK y : y = c * q
    OBVIOUS
  <1>9. y \in Int
    BY <1>1, <1>8
  <1> QED BY <1>2, <1>5, <1>6, <1>7, <1>8, <1>9

\* Where a page begins and ends.
LEMMA PageBounds ==
    ASSUME Account, NEW a \in Nat, a >= 1
    PROVE  /\ Before(a) \in Nat /\ Before(a + 1) \in Nat
           /\ Before(a) <= Before(a + 1) /\ Before(a + 1) <= Len(ledger)
           /\ Rest((a - 1) * StatementMaxRows, a * StatementMaxRows)
                = SubSeq(ledger, Before(a) + 1, Before(a + 1))
           /\ Before(a) = Before(a + 1) => Before(a + 1) = Len(ledger)
           /\ a * StatementMaxRows >= Len(ledger) => Before(a + 1) = Len(ledger)
  <1>1. PICK c \in Nat \ {0} : c = StatementMaxRows
    BY Constants
  <1>2. PICK n \in Nat : n = Len(ledger)
    BY DEF Account
  <1>3. PICK x \in Nat : x = (a - 1) * c
    <2>1. a - 1 \in Nat
      OBVIOUS
    <2>2. (a - 1) * c \in Nat
      BY <2>1
    <2> QED BY <2>2
  <1>4. PICK y \in Nat : y = x + c
    OBVIOUS
  <1>5. a * c = y /\ ((a + 1) - 1) * c = y
    <2>1. a * c = (a - 1) * c + c
      OBVIOUS
    <2>2. (a + 1) - 1 = a
      OBVIOUS
    <2> QED BY <1>3, <1>4, <2>1, <2>2
  <1>6. /\ Before(a) = (IF x < n THEN x ELSE n)
        /\ Before(a + 1) = (IF y < n THEN y ELSE n)
    BY <1>1, <1>2, <1>3, <1>5 DEF Before
  <1>7. Rest((a - 1) * StatementMaxRows, a * StatementMaxRows)
          = SubSeq(ledger, x + 1, IF y > n THEN n ELSE y)
    BY <1>1, <1>2, <1>3, <1>5 DEF Rest
  <1>8. /\ Before(a) \in Nat /\ Before(a + 1) \in Nat
        /\ Before(a) <= Before(a + 1) /\ Before(a + 1) <= n
        /\ (Before(a) = Before(a + 1) => Before(a + 1) = n)
        /\ (y >= n => Before(a + 1) = n)
        /\ Before(a + 1) = (IF y > n THEN n ELSE y)
    BY <1>4, <1>6
  <1>9. SubSeq(ledger, x + 1, Before(a + 1)) = SubSeq(ledger, Before(a) + 1, Before(a + 1))
    <2>1. CASE x < n
      BY <1>6, <2>1
    <2>2. CASE ~(x < n)
      <3>1. Before(a) = n /\ Before(a + 1) = n /\ n < x + 1
        BY <1>4, <1>6, <2>2
      <3>2. SubSeq(ledger, x + 1, n) = <<>> /\ SubSeq(ledger, n + 1, n) = <<>>
        BY <1>2, <3>1 DEF Account
      <3> QED BY <3>1, <3>2
    <2> QED BY <2>1, <2>2
  <1> QED BY <1>1, <1>2, <1>5, <1>7, <1>8, <1>9

\* The pages of a list by number.
LEMMA NumberedPage ==
    ASSUME Account, ListYields, iter \in ByPage, pc = "fetch", NEW p \in NumberedPages
    PROVE  /\ at \in Nat /\ at >= 1 /\ out = SubSeq(ledger, 1, Before(at))
           /\ p.rows = SubSeq(ledger, Before(at) + 1, Before(at + 1))
           /\ Before(at) \in Nat /\ Before(at + 1) \in Nat
           /\ Before(at) <= Before(at + 1) /\ Before(at + 1) <= Len(ledger)
           /\ Before(at) = Before(at + 1) => Before(at + 1) = Len(ledger)
           /\ at >= p.total => Before(at + 1) = Len(ledger)
  <1>1. at \in Nat /\ at >= 1 /\ out = SubSeq(ledger, 1, Before(at))
    BY DEF ListYields, Lists
  <1> DEFINE pages == (Len(ledger) + StatementMaxRows - 1) \div StatementMaxRows
  <1>2. /\ p.rows = Rest((at - 1) * StatementMaxRows, at * StatementMaxRows)
        /\ p.total = pages \/ p.total = pages + 2
    BY DEF NumberedPages
  <1>3. Len(ledger) \in Nat /\ StatementMaxRows \in Nat \ {0}
    BY Constants DEF Account
  <1>4. pages \in Int
    BY <1>3
  <1> HIDE DEF pages
  <1>5. at >= p.total => at >= pages
    BY <1>1, <1>2, <1>4
  <1>6. at >= pages => at * StatementMaxRows >= Len(ledger)
    BY <1>1, <1>3, PagesHold DEF pages
  <1> QED BY <1>1, <1>2, <1>5, <1>6, PageBounds

\* A step of the subscription iterators.
LEMMA PageStep ==
    ASSUME Account, ListYields, NEW name \in ByPage, PageIterator(name)
    PROVE  Account' /\ ListYields'
  <1>1. /\ iter \in ByPage /\ iter \in Lists /\ iter \notin ByOffset /\ UNCHANGED <<ledger, from, to, iter>>
        /\ pc \in {"call", "fetch"}
    BY DEF PageIterator, Fixed, Lists, ByOffset, ByPage
  <1>2. CASE pc = "call"
    <2>1. pc' = "fetch" /\ at' = 1 /\ UNCHANGED out
      BY <1>2 DEF PageIterator
    <2>2. Account'
      BY <1>1, <2>1, AccountStays
    <2>3. out = <<>>
      BY <1>1, <1>2 DEF ListYields
    <2>4. Before(1)' = 0
      <3>1. Len(ledger') \in Nat /\ (1 - 1) * StatementMaxRows = 0
        BY <1>1, Constants DEF Account
      <3> QED BY <3>1 DEF Before
    <2>5. SubSeq(ledger', 1, 0) = <<>>
      BY <1>1 DEF Account
    <2>6. out' = SubSeq(ledger, 1, Before(at))'
      BY <2>1, <2>3, <2>4, <2>5
    <2>7. ListYields'
      BY <1>1, <2>1, <2>6 DEF ListYields
    <2> QED BY <2>2, <2>7
  <1>3. CASE pc = "fetch"
    <2>1. PICK p \in NumberedPages : numberedPass(p)
      BY <1>3 DEF PageIterator
    <2>2. PICK i, j : i = Before(at) /\ j = Before(at + 1)
      OBVIOUS
    <2>3. /\ at \in Nat /\ at >= 1 /\ out = SubSeq(ledger, 1, i)
          /\ p.rows = SubSeq(ledger, i + 1, j)
          /\ i \in Nat /\ j \in Nat /\ i <= j /\ j <= Len(ledger)
          /\ i = j => j = Len(ledger)
          /\ at >= p.total => j = Len(ledger)
      BY <1>1, <1>3, <2>1, <2>2, NumberedPage
    <2>4. PICK rows : rows = p.rows
      OBVIOUS
    <2>5. /\ rows \in Seq(Rows(Times)) /\ Len(rows) = j - i /\ Injective(rows)
          /\ Elements(rows) \subseteq Elements(ledger)
          /\ Elements(rows) \cap Elements(out) = {}
          /\ out \o rows = SubSeq(ledger, 1, j)
          /\ j = Len(ledger) => out \o rows = ledger
          /\ rows = <<>> <=> i = j
      <3>1. /\ out = SubSeq(ledger, 1, i) /\ rows = SubSeq(ledger, i + 1, j)
        BY <2>3, <2>4
      <3>2. i \in Nat /\ j \in Nat /\ i <= j /\ j <= Len(ledger)
        BY <2>3
      <3>3. Continue(SubSeq(ledger, i + 1, j), i, j)
        BY <1>1, <3>1, <3>2, Further
      <3> QED BY <3>1, <3>3 DEF Continue
    <2>6. /\ out' = out \o rows
          /\ IF rows = <<>> \/ at >= p.total THEN pc' = "done" /\ UNCHANGED at
             ELSE at' = at + 1 /\ UNCHANGED pc
      BY <2>1, <2>4 DEF numberedPass
    <2>7. Account'
      <3>1. pc' \in {"done", "fetch"}
        BY <1>3, <2>6
      <3> QED BY <1>1, <2>5, <2>6, <3>1, AccountTakes
    <2>8. CASE rows = <<>> \/ at >= p.total
      <3>1. j = Len(ledger)
        BY <2>3, <2>5, <2>8
      <3>2. out' = ledger' /\ pc' = "done" /\ at' \in Nat
        BY <1>1, <2>3, <2>5, <2>6, <2>8, <3>1
      <3>3. ListYields'
        BY <1>1, <3>2 DEF ListYields
      <3> QED BY <2>7, <3>3
    <2>9. CASE ~(rows = <<>> \/ at >= p.total)
      <3>1. at' = at + 1 /\ pc' = "fetch" /\ out' = SubSeq(ledger, 1, j)
        BY <1>3, <2>5, <2>6, <2>9
      <3>2. at' \in Nat /\ at' >= 1
        BY <2>3, <3>1
      <3>3. Before(at)' = j
        BY <1>1, <2>2, <3>1 DEF Before
      <3>4. ListYields'
        BY <1>1, <3>1, <3>2, <3>3 DEF ListYields
      <3> QED BY <2>7, <3>4
    <2> QED BY <2>8, <2>9
  <1> QED BY <1>1, <1>2, <1>3

-----------------------------------------------------------------------------
(* The consumer leaves, or a fetch fails. *)

\* Leaving after some rows of a response.
LEMMA LeaveStep ==
    ASSUME Account, StatementYields, ListYields, Leave
    PROVE  Account' /\ StatementYields' /\ ListYields'
  <1>1. /\ iter # "TransactionsRange" /\ pc = "fetch" /\ pc' = "stopped"
        /\ UNCHANGED <<ledger, from, to, iter, at, cursorTo>>
    BY DEF Leave, Fixed
  <1>2. PICK rows \in Served : \E n \in 1..Len(rows) : out' = out \o SubSeq(rows, 1, n)
    BY DEF Leave
  <1>3. PICK n \in 1..Len(rows) : out' = out \o SubSeq(rows, 1, n)
    BY <1>2
  <1>4. iter = "StatementAll" \/ iter \in ByOffset \/ iter \in ByPage
    BY <1>1 DEF Account, Lists
  <1>5. /\ rows \in Seq(Rows(Times)) /\ Injective(rows)
        /\ Elements(rows) \subseteq Elements(ledger) /\ Elements(rows) \cap Elements(out) = {}
    <2>1. CASE iter = "StatementAll"
      <3>1. rows = Unseen
        BY <1>2, <2>1 DEF Served, ByOffset, ByPage
      <3> QED BY <1>1, <2>1, <3>1, StatementResponse
    <2>2. CASE iter \in ByOffset
      <3>1. Served = {p.rows : p \in OffsetPages}
        BY <2>2 DEF Served, ByOffset, ByPage
      <3>2. PICK p \in OffsetPages : rows = p.rows
        BY <1>2, <3>1
      <3>3. at \in Nat /\ out = SubSeq(ledger, 1, at)
        BY <1>1, <2>2, <3>2, OffsetPage
      <3>4. PICK j \in Nat : at <= j /\ j <= Len(ledger) /\ p.rows = SubSeq(ledger, at + 1, j)
        BY <1>1, <2>2, <3>2, OffsetPage
      <3>5. rows = SubSeq(ledger, at + 1, j)
        BY <3>2, <3>4
      <3>6. Continue(SubSeq(ledger, at + 1, j), at, j)
        BY <1>1, <3>3, <3>4, Further
      <3> QED BY <3>5, <3>6 DEF Continue
    <2>3. CASE iter \in ByPage
      <3>1. Served = {p.rows : p \in NumberedPages}
        BY <2>3 DEF Served, ByOffset, ByPage
      <3>2. PICK p \in NumberedPages : rows = p.rows
        BY <1>2, <3>1
      <3>3. PICK i, j : i = Before(at) /\ j = Before(at + 1)
        OBVIOUS
      <3>4. /\ out = SubSeq(ledger, 1, i) /\ rows = SubSeq(ledger, i + 1, j)
            /\ i \in Nat /\ j \in Nat /\ i <= j /\ j <= Len(ledger)
        BY <1>1, <2>3, <3>2, <3>3, NumberedPage
      <3>5. Continue(SubSeq(ledger, i + 1, j), i, j)
        BY <1>1, <3>4, Further
      <3> QED BY <3>4, <3>5 DEF Continue
    <2> QED BY <1>4, <2>1, <2>2, <2>3
  <1>6. Account'
    <2>1. n \in 0..Len(rows)
      OBVIOUS
    <2> QED BY <1>1, <1>3, <1>5, <2>1, AccountYields
  <1>7. StatementYields'
    BY <1>1 DEF StatementYields
  <1>8. ListYields'
    BY <1>1 DEF ListYields
  <1> QED BY <1>6, <1>7, <1>8

\* An error ends the iteration.
LEMMA FailStep ==
    ASSUME Account, StatementYields, ListYields, Fail
    PROVE  Account' /\ StatementYields' /\ ListYields'
  <1>1. /\ iter # "TransactionsRange" /\ pc' = "failed"
        /\ UNCHANGED <<ledger, from, to, iter, at, cursorTo, out>>
    BY DEF Fail, Fixed
  <1>2. Account'
    BY <1>1, AccountStays
  <1> QED BY <1>1, <1>2 DEF StatementYields, ListYields

-----------------------------------------------------------------------------
(* The start. *)

\* The rows of [f, t] are rows of the account, and of [f, t].
LEMMA BetweenIs ==
    ASSUME NEW T \in SUBSET Int, NEW l \in Seq(Rows(T)), Sorted(l), NEW f \in Int, NEW t \in Int
    PROVE  \A r \in Elements(Between(l, f, t)) : r \in Elements(l) /\ f <= r.t /\ r.t <= t
  <1> DEFINE n == Len(l)
             newer == {i \in DOMAIN l : l[i].t > t}
             older == {i \in DOMAIN l : l[i].t < f}
             all == Between(l, f, t)
  <1>1. n \in Nat /\ DOMAIN l = 1..n /\ IsFiniteSet(1..n)
    BY FS_Interval
  <1>2. Cardinality(newer) \in Nat /\ Cardinality(older) \in Nat
    <2>1. newer \subseteq 1..n /\ older \subseteq 1..n
      BY <1>1
    <2> HIDE DEF newer, older
    <2>2. IsFiniteSet(newer) /\ IsFiniteSet(older)
      BY <1>1, <2>1, FS_Subset
    <2> QED BY <2>2, FS_CardinalityType
  <1>3. all = SubSeq(l, Cardinality(newer) + 1, n - Cardinality(older))
    BY DEF Between
  <1>4. all \in Seq(Rows(T))
    <2>1. PICK a \in Nat : a = Cardinality(newer)
      BY <1>2
    <2>2. PICK b \in Int : b = n - Cardinality(older) /\ b <= n
      <3> HIDE DEF n, older
      <3>1. n - Cardinality(older) \in Int /\ n - Cardinality(older) <= n
        BY <1>1, <1>2
      <3> QED BY <3>1
    <2>3. SubSeq(l, a + 1, b) \in Seq(Rows(T))
      BY <2>1, <2>2, Stretch
    <2> HIDE DEF all, newer, older
    <2> QED BY <1>3, <2>1, <2>2, <2>3
  <1>5. PICK cap \in Nat \ {0} : cap = Len(all) + 1
    <2> HIDE DEF all
    <2>1. Len(all) + 1 \in Nat \ {0}
      BY <1>4
    <2> QED BY <2>1
  <1>6. Page(l, f, t, cap) = all
    <2>1. Page(l, f, t, cap) = SubSeq(all, 1, IF Len(all) < cap THEN Len(all) ELSE cap)
      BY DEF Page
    <2> HIDE DEF all
    <2>2. SubSeq(all, 1, Len(all)) = all /\ Len(all) < cap
      BY <1>4, <1>5
    <2> QED BY <2>1, <2>2
  <1>7. \A r \in Elements(Page(l, f, t, cap)) : r \in Elements(l) /\ f <= r.t /\ r.t <= t
    BY PageIs
  <1> QED BY <1>6, <1>7

\* An account before the iteration.
LEMMA LedgersIs ==
    ASSUME NEW l \in Ledgers(Times, MaxRows)
    PROVE  /\ l \in Seq(Rows(Times)) /\ Sorted(l) /\ Unique(l)
           /\ \A r \in Elements(l) : r.id <= Len(l)
  <1>0. PICK k \in 0..MaxRows : \E s \in [1..k -> Times] :
          /\ \A i, j \in 1..k : i <= j => s[i] >= s[j]
          /\ l = [i \in 1..k |-> [id |-> i, t |-> s[i]]]
    BY DEF Ledgers
  <1>1. PICK s \in [1..k -> Times] :
          /\ \A i, j \in 1..k : i <= j => s[i] >= s[j]
          /\ l = [i \in 1..k |-> [id |-> i, t |-> s[i]]]
    BY <1>0
  <1>2. k \in Nat
    BY DrainAssumption
  <1>3. \A i \in 1..k : l[i] \in Rows(Times) /\ l[i].id = i /\ l[i].t = s[i]
    BY <1>1, <1>2 DEF Rows
  <1>4. l \in [1..k -> Rows(Times)]
    BY <1>1, <1>3
  <1>5. l \in Seq(Rows(Times)) /\ Len(l) = k /\ DOMAIN l = 1..k
    BY <1>2, <1>4
  <1>6. Sorted(l)
    BY <1>1, <1>3, <1>5 DEF Sorted
  <1>7. Unique(l)
    BY <1>3, <1>5 DEF Unique
  <1>8. \A r \in Elements(l) : r.id <= Len(l)
    BY <1>2, <1>3, <1>5 DEF Elements
  <1> QED BY <1>5, <1>6, <1>7, <1>8

\* The invariant.
IInv == Account /\ RangeYields /\ RangeCovers /\ StatementYields /\ ListYields

\* It holds at the start.
LEMMA InitInv == IteratorsInit => IInv
  <1> SUFFICES ASSUME IteratorsInit PROVE IInv
    OBVIOUS
  <1> USE DEF IteratorsInit, Init
  <1>1. /\ ledger \in Seq(Rows(Times)) /\ Sorted(ledger) /\ Unique(ledger)
        /\ \A r \in Elements(ledger) : r.id <= Len(ledger)
    BY LedgersIs
  <1>2. Elements(out) = {} /\ out \in Seq(Rows(Times)) /\ Injective(out)
    BY DEF Elements, Injective
  <1>3. Account
    BY <1>1, <1>2 DEF Account
  <1>4. from \in Nat /\ to \in Nat /\ from \in Int /\ to \in Int
    BY Constants
  <1>5. RangeYields
    BY <1>4 DEF RangeYields
  <1>6. \A r \in initial : r \in Elements(ledger) /\ from <= r.t /\ r.t <= to
    BY <1>1, <1>4, Constants, BetweenIs
  <1>7. RangeCovers
    BY <1>6 DEF RangeCovers
  <1>8. StatementYields
    BY <1>4 DEF StatementYields, Anchored
  <1>9. SubSeq(ledger, 1, 0) = <<>> /\ 0 <= Len(ledger)
    BY <1>1
  <1>10. ListYields
    BY <1>9 DEF ListYields
  <1> QED BY <1>3, <1>5, <1>7, <1>8, <1>10 DEF IInv

\* What belongs to another iterator is not touched.
LEMMA OfRange ==
    ASSUME iter = "TransactionsRange", iter' = iter
    PROVE  StatementYields' /\ ListYields'
  BY DEF StatementYields, ListYields, Lists, ByOffset, ByPage

\* And the other way round.
LEMMA OfOther ==
    ASSUME iter # "TransactionsRange", iter' = iter
    PROVE  RangeYields' /\ RangeCovers'
  BY DEF RangeYields, RangeCovers

\* And every step keeps it: one case per iterator, one for the consumer, one
\* for the bank.
LEMMA NextInv == IInv /\ [IteratorsNext]_ivars => IInv'
  <1> SUFFICES ASSUME IInv, [IteratorsNext]_ivars PROVE IInv'
    OBVIOUS
  <1>0. Account /\ RangeYields /\ RangeCovers /\ StatementYields /\ ListYields
    BY DEF IInv
  <1>1. CASE \/ RangeStep(Call) \/ RangeStep(Window) \/ RangeStep(Fetch) \/ RangeStep(NextWindow)
             \/ RangeStep(Break) \/ RangeStep(FetchFails)
    <2>1. Account' /\ RangeYields' /\ RangeCovers'
      BY <1>0, <1>1, RangeCall, RangeWindow, RangeFetch, RangeNextWindow, RangeEnds
    <2>2. iter = "TransactionsRange" /\ iter' = iter
      BY <1>1 DEF RangeStep
    <2> QED BY <2>1, <2>2, OfRange DEF IInv
  <1>2. CASE StatementAllCall \/ StatementAllFetch
    <2>1. Account' /\ StatementYields'
      BY <1>0, <1>2, StatementCall, StatementFetch
    <2>2. iter = "StatementAll" /\ iter' = iter
      BY <1>2 DEF StatementAllCall, StatementAllFetch, Fixed
    <2>3. RangeYields' /\ RangeCovers'
      BY <2>2, OfOther
    <2>4. ListYields'
      BY <2>2 DEF ListYields, Lists, ByOffset, ByPage
    <2> QED BY <2>1, <2>3, <2>4 DEF IInv
  <1>3. CASE ContactsAll \/ SearchContactsAll \/ SubscriptionListAll \/ SubscriptionPaymentsAll
    <2>1. \/ \E name \in ByOffset : OffsetIterator(name)
          \/ \E name \in ByPage : PageIterator(name)
      BY <1>3 DEF ContactsAll, SearchContactsAll, SubscriptionListAll, SubscriptionPaymentsAll,
                  ByOffset, ByPage
    <2>2. Account' /\ ListYields'
      BY <1>0, <2>1, OffsetStep, PageStep
    <2>3. iter \in Lists /\ iter' = iter
      BY <2>1 DEF OffsetIterator, PageIterator, Fixed, Lists
    <2>4. iter # "TransactionsRange" /\ iter # "StatementAll"
      BY <2>3 DEF Lists, ByOffset, ByPage
    <2>5. StatementYields'
      BY <2>3, <2>4 DEF StatementYields
    <2> QED BY <2>2, <2>3, <2>4, <2>5, OfOther DEF IInv
  <1>4. CASE Leave \/ Fail
    <2>1. Account' /\ StatementYields' /\ ListYields'
      BY <1>0, <1>4, LeaveStep, FailStep
    <2>2. iter # "TransactionsRange" /\ iter' = iter
      BY <1>4 DEF Leave, Fail, Fixed
    <2> QED BY <2>1, <2>2, OfOther DEF IInv
  <1>5. CASE iter \notin Lists /\ (\E t \in Times : Book(t)) /\ UNCHANGED <<iter, pageSize, at>>
    <2>1. PICK t \in Times : Book(t)
      BY <1>5
    <2>2. Account' /\ RangeYields' /\ RangeCovers' /\ StatementYields'
      BY <1>0, <1>5, <2>1, RangeBook, StatementBook
    <2>3. ListYields'
      BY <1>5 DEF ListYields
    <2> QED BY <2>2, <2>3 DEF IInv
  <1>6. CASE UNCHANGED ivars
    <2>1. UNCHANGED <<ledger, from, to, initial, cursor, end, cursorTo, boundarySecond, seen, out, pc, iter, at>>
      BY <1>6 DEF ivars
    <2>2. Account'
      <3>1. pc' \in {"call", "window", "fetch", "next", "done", "failed", "stopped"}
        BY <1>0, <2>1 DEF Account
      <3> QED BY <1>0, <2>1, <3>1, AccountStays
    <2>3. RangeYields'
      BY <1>0, <2>1 DEF RangeYields, Anchored
    <2>4. RangeCovers'
      <3>1. Crowded' = Crowded
        BY <2>1 DEF Crowded
      <3> QED BY <1>0, <2>1, <3>1 DEF RangeCovers
    <2>5. StatementYields'
      BY <1>0, <2>1 DEF StatementYields, Anchored
    <2>6. ListYields'
      <3>1. Before(at)' = Before(at)
        BY <2>1 DEF Before
      <3> QED BY <1>0, <2>1, <3>1 DEF ListYields
    <2> QED BY <2>2, <2>3, <2>4, <2>5, <2>6 DEF IInv
  <1>7. \/ RangeStep(Call) \/ RangeStep(Window) \/ RangeStep(Fetch) \/ RangeStep(NextWindow)
        \/ RangeStep(Break) \/ RangeStep(FetchFails)
        \/ StatementAllCall \/ StatementAllFetch
        \/ ContactsAll \/ SearchContactsAll \/ SubscriptionListAll \/ SubscriptionPaymentsAll
        \/ Leave \/ Fail
        \/ iter \notin Lists /\ (\E t \in Times : Book(t)) /\ UNCHANGED <<iter, pageSize, at>>
        \/ UNCHANGED ivars
    BY DEF IteratorsNext, Advance, Iterate, RangeStep
  <1> QED BY <1>1, <1>2, <1>3, <1>4, <1>5, <1>6, <1>7

-----------------------------------------------------------------------------

\* The iterators keep the account, their cursors and what they yielded in order:
\* the invariant the results below follow from.
THEOREM IteratorsInvariant == IteratorsSpec => []IInv
  <1> QED BY InitInv, NextInv, PTL DEF IteratorsSpec

\* "Each transaction is passed to yield once": no iterator yields a row twice,
\* for any account, window, page size and rows booked meanwhile, also when its
\* consumer leaves or a fetch fails.
THEOREM YieldedOnceHolds == IteratorsSpec => []YieldedOnce
  <1>1. IInv => YieldedOnce
    <2> SUFFICES ASSUME IInv PROVE YieldedOnce
      OBVIOUS
    <2>1. out \in Seq(Rows(Times)) /\ Injective(out)
      BY DEF IInv, Account
    <2>2. Cardinality(Elements(out)) = Len(out)
      BY <2>1, InjectiveCounts
    <2> QED BY <2>2 DEF YieldedOnce, NoRepetition
  <1> QED BY <1>1, IteratorsInvariant, PTL

\* DrainWindow "yields every transaction in [from, to]": a range that ended
\* without an error has yielded every row that was there at its start, unless a
\* second holds a whole page.
THEOREM RangeCompleteHolds == IteratorsSpec => []RangeComplete
  <1>1. IInv => RangeComplete
    BY DEF IInv, RangeCovers, RangeComplete, DrainComplete
  <1> QED BY <1>1, IteratorsInvariant, PTL

\* A list read by offset or by page number to its end is the whole list, in
\* order, although pages come short and the totals are stale.
THEOREM ListCompleteHolds == IteratorsSpec => []ListComplete
  <1>1. IInv => ListComplete
    BY DEF IInv, ListYields, ListComplete
  <1> QED BY <1>1, IteratorsInvariant, PTL
=============================================================================
