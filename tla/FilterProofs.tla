---------------------------- MODULE FilterProofs ----------------------------
(***************************************************************************)
(* What Drop returns, for every sequence: the elements outside the set, in *)
(* their order.  The library's induction rules take an operator, so each   *)
(* induction here looks at the least counterexample.                       *)
(***************************************************************************)
EXTENDS Filter, NaturalsInduction, WellFoundedInduction, TLAPS

\* A set of naturals that is not empty has a least element.
LEMMA LeastNatural ==
    ASSUME NEW N, N \subseteq Nat, N # {}
    PROVE  \E n \in N : \A m \in N : n <= m
<1>1. IsWellFoundedOn(OpToRel(<, Nat), Nat)
  BY NatLessThanWellFounded
<1>2. PICK n \in N : \A m \in N : ~ (<<m, n>> \in OpToRel(<, Nat))
  BY <1>1, WFMin
<1>3. ASSUME NEW m \in N PROVE ~ (m < n)
  <2>1. ~ (<<m, n>> \in OpToRel(<, Nat))
    BY <1>2
  <2>2. m \in Nat /\ n \in Nat
    OBVIOUS
  <2> QED BY <2>1, <2>2 DEF OpToRel
<1> QED BY <1>3

\* The defining equation of the recursion in Drop.
Step(s, S, f) ==
    [n \in 0..Len(s) |->
        IF n = 0 THEN <<>>
        ELSE IF s[n] \in S THEN f[n - 1] ELSE Append(f[n - 1], s[n])]

\* f solves it up to n.
Solves(s, S, f, n) ==
    \A i \in 0..n : f[i] = IF i = 0 THEN <<>>
                           ELSE IF s[i] \in S THEN f[i - 1] ELSE Append(f[i - 1], s[i])

LEMMA StepHasSolution ==
    ASSUME NEW T, NEW s \in Seq(T), NEW S
    PROVE  \E f : f = Step(s, S, f)
<1> DEFINE L == Len(s)
           Bad == {n \in 0..L : ~ \E f \in [0..L -> Seq(T)] : Solves(s, S, f, n)}
<1>0. L \in Nat
  OBVIOUS
<1> HIDE DEF L
<1>1. SUFFICES ASSUME Bad # {} PROVE FALSE
  <2>1. L \notin Bad
    BY <1>1
  <2>2. PICK f \in [0..L -> Seq(T)] : Solves(s, S, f, L)
    BY <2>1, <1>0
  <2>3. f = Step(s, S, f)
    BY <2>2, <1>0 DEF Solves, Step, L
  <2> QED BY <2>3
<1>2. PICK n \in Bad : \A m \in Bad : n <= m
  <2>1. Bad \subseteq Nat
    BY <1>0
  <2> QED BY <1>1, <2>1, LeastNatural
<1>3. n \in Nat /\ n <= L
  BY <1>0
<1>4. n # 0
  <2>1. [i \in 0..L |-> <<>>] \in [0..L -> Seq(T)]
    OBVIOUS
  <2>2. Solves(s, S, [i \in 0..L |-> <<>>], 0)
    BY <1>0 DEF Solves
  <2> QED BY <2>1, <2>2, <1>0
<1>5. PICK f \in [0..L -> Seq(T)] : Solves(s, S, f, n - 1)
  <2>1. n - 1 \in 0..L /\ ~ (n <= n - 1)
    BY <1>3, <1>4, <1>0
  <2> QED BY <2>1, <1>2
<1> DEFINE v == IF s[n] \in S THEN f[n - 1] ELSE Append(f[n - 1], s[n])
           g == [f EXCEPT ![n] = v]
<1>6. v \in Seq(T)
  <2>1. n - 1 \in 0..L /\ n \in 1..L
    BY <1>3, <1>4, <1>0
  <2>2. f[n - 1] \in Seq(T)
    BY <2>1
  <2>3. s[n] \in T
    BY <2>1 DEF L
  <2> QED BY <2>2, <2>3
<1>7. g \in [0..L -> Seq(T)]
  BY <1>6
<1>8. g[n] = v /\ \A i \in 0..(n - 1) : g[i] = f[i]
  BY <1>3, <1>4, <1>0
<1>9. Solves(s, S, g, n)
  <2> SUFFICES ASSUME NEW i \in 0..n
               PROVE  g[i] = IF i = 0 THEN <<>>
                             ELSE IF s[i] \in S THEN g[i - 1] ELSE Append(g[i - 1], s[i])
    BY DEF Solves
  <2> HIDE DEF g
  <2>1. CASE i = n
    <3>1. g[n - 1] = f[n - 1]
      BY <1>3, <1>4, <1>8
    <3> QED BY <2>1, <3>1, <1>8, <1>4
  <2>2. CASE i # n
    <3>1. i \in 0..(n - 1)
      BY <2>2, <1>3
    <3>2. g[i] = f[i] /\ (i # 0 => g[i - 1] = f[i - 1])
      BY <3>1, <1>8, <1>3
    <3> QED BY <3>1, <3>2, <1>5 DEF Solves
  <2> QED BY <2>1, <2>2
<1> QED BY <1>7, <1>9, <1>2

\* Positions n of d are taken from s, in order, and they are all those whose
\* element is not in S.
Picks(d, s, S, n) ==
    \E h \in [1..Len(d) -> 1..n] :
        /\ \A i, j \in 1..Len(d) : i < j => h[i] < h[j]
        /\ \A i \in 1..Len(d) : d[i] = s[h[i]] /\ s[h[i]] \notin S
        /\ \A k \in 1..n : s[k] \notin S => \E i \in 1..Len(d) : h[i] = k

LEMMA PicksNext ==
    ASSUME NEW T, NEW s \in Seq(T), NEW S, NEW n \in 1..Len(s),
           NEW d \in Seq(T), Picks(d, s, S, n - 1)
    PROVE  /\ s[n] \in S => Picks(d, s, S, n)
           /\ s[n] \notin S => Picks(Append(d, s[n]), s, S, n)
<1>1. PICK h \in [1..Len(d) -> 1..(n - 1)] :
        /\ \A i, j \in 1..Len(d) : i < j => h[i] < h[j]
        /\ \A i \in 1..Len(d) : d[i] = s[h[i]] /\ s[h[i]] \notin S
        /\ \A k \in 1..(n - 1) : s[k] \notin S => \E i \in 1..Len(d) : h[i] = k
  BY DEF Picks
<1>0. n \in Nat /\ Len(d) \in Nat /\ Len(s) \in Nat
  OBVIOUS
<1>2. ASSUME s[n] \in S PROVE Picks(d, s, S, n)
  <2>1. h \in [1..Len(d) -> 1..n]
    BY <1>0
  <2>2. \A k \in 1..n : s[k] \notin S => k \in 1..(n - 1)
    BY <1>2, <1>0
  <2> QED BY <2>1, <2>2, <1>1 DEF Picks
<1>3. ASSUME s[n] \notin S PROVE Picks(Append(d, s[n]), s, S, n)
  <2> DEFINE e == Append(d, s[n])
             g == [i \in 1..(Len(d) + 1) |-> IF i <= Len(d) THEN h[i] ELSE n]
  <2>1. s[n] \in T
    OBVIOUS
  <2>2. Len(e) = Len(d) + 1 /\ e[Len(d) + 1] = s[n] /\ \A i \in 1..Len(d) : e[i] = d[i]
    BY <2>1
  <2>3. g[Len(d) + 1] = n /\ \A i \in 1..Len(d) : g[i] = h[i]
    BY <1>0
  <2>4. g \in [1..(Len(d) + 1) -> 1..n]
    <3>1. \A i \in 1..Len(d) : h[i] \in 1..n
      BY <1>0
    <3> QED BY <3>1, <1>0
  <2> HIDE DEF e, g
  <2>5. \A i, j \in 1..Len(e) : i < j => g[i] < g[j]
    <3> SUFFICES ASSUME NEW i \in 1..Len(e), NEW j \in 1..Len(e), i < j PROVE g[i] < g[j]
      OBVIOUS
    <3>1. i \in 1..Len(d) /\ g[i] = h[i] /\ h[i] \in 1..(n - 1)
      BY <2>2, <2>3, <1>0, SMTT(30)
    <3>2. CASE j = Len(d) + 1
      BY <3>1, <3>2, <2>3, <1>0
    <3>3. CASE j \in 1..Len(d)
      BY <3>1, <3>3, <2>3, <1>1
    <3> QED BY <3>2, <3>3, <2>2, <1>0
  <2>6. \A i \in 1..Len(e) : e[i] = s[g[i]] /\ s[g[i]] \notin S
    <3> SUFFICES ASSUME NEW i \in 1..Len(e) PROVE e[i] = s[g[i]] /\ s[g[i]] \notin S
      OBVIOUS
    <3>2. CASE i = Len(d) + 1
      BY <3>2, <2>2, <2>3, <1>3
    <3>3. CASE i \in 1..Len(d)
      BY <3>3, <2>2, <2>3, <1>1
    <3> QED BY <3>2, <3>3, <2>2, <1>0
  <2>7. ASSUME NEW k \in 1..n, s[k] \notin S PROVE \E i \in 1..Len(e) : g[i] = k
    <3>1. CASE k = n
      BY <3>1, <2>2, <2>3, <1>0
    <3>2. CASE k \in 1..(n - 1)
      <4>1. PICK i \in 1..Len(d) : h[i] = k
        BY <3>2, <2>7, <1>1
      <4>2. g[i] = k /\ i \in 1..Len(e)
        BY <4>1, <2>2, <2>3, <1>0
      <4> QED BY <4>2
    <3> QED BY <3>1, <3>2, <1>0
  <2>8. g \in [1..Len(e) -> 1..n]
    BY <2>2, <2>4
  <2>9. Picks(e, s, S, n)
    BY <2>5, <2>6, <2>7, <2>8 DEF Picks
  <2> QED BY <2>9 DEF e
<1> QED BY <1>2, <1>3

\* Drop(s, S) consists of the elements of s outside S, in the order of s.
LEMMA DropPicks ==
    ASSUME NEW T, NEW s \in Seq(T), NEW S
    PROVE  Drop(s, S) \in Seq(T) /\ Picks(Drop(s, S), s, S, Len(s))
<1>1. PICK f : f = Step(s, S, f) /\ Drop(s, S) = f[Len(s)]
  <2> DEFINE c == CHOOSE f : f = Step(s, S, f)
  <2>1. c = Step(s, S, c)
    BY StepHasSolution
  <2>2. Drop(s, S) = c[Len(s)]
    BY DEF Drop, Step
  <2> QED BY <2>1, <2>2
<1> DEFINE Good(n) == f[n] \in Seq(T) /\ Picks(f[n], s, S, n)
           Bad == {n \in 0..Len(s) : ~ Good(n)}
<1>2. Len(s) \in Nat /\ Bad \subseteq Nat
  OBVIOUS
<1>3. \A n \in 0..Len(s) : f[n] = IF n = 0 THEN <<>>
                                  ELSE IF s[n] \in S THEN f[n - 1] ELSE Append(f[n - 1], s[n])
  BY <1>1 DEF Step
<1>4. SUFFICES ASSUME Bad # {} PROVE FALSE
  <2>1. Good(Len(s))
    BY <1>4, <1>2
  <2> QED BY <2>1, <1>1
<1>5. PICK n \in Bad : \A m \in Bad : n <= m
  BY <1>2, <1>4, LeastNatural
<1>6. n # 0
  <2>1. Good(0)
    <3>1. f[0] = <<>>
      BY <1>2, <1>3
    <3>2. Picks(<<>>, s, S, 0)
      <4>1. [i \in 1..0 |-> 0] \in [1..Len(<<>>) -> 1..0]
        OBVIOUS
      <4>2. Len(<<>>) = 0 /\ \A i : i \notin 1..0
        OBVIOUS
      <4>3. \A i \in 1..Len(<<>>) : FALSE
        BY <4>2
      <4>4. \A k \in 1..0 : FALSE
        BY <4>2
      <4> QED BY <4>1, <4>3, <4>4, Zenon DEF Picks
    <3> QED BY <3>1, <3>2
  <2> QED BY <2>1
<1>7. n \in 1..Len(s) /\ n - 1 \in 0..Len(s) /\ ~ (n <= n - 1)
  BY <1>2, <1>6
<1>8. Good(n - 1)
  <2>1. n - 1 \notin Bad
    BY <1>5, <1>7
  <2> QED BY <2>1, <1>7
<1>9. s[n] \in T
  BY <1>7
<1>10. Good(n)
  <2>1. f[n] = IF s[n] \in S THEN f[n - 1] ELSE Append(f[n - 1], s[n])
    BY <1>3, <1>6, <1>7
  <2>2. /\ s[n] \in S => Picks(f[n - 1], s, S, n)
        /\ s[n] \notin S => Picks(Append(f[n - 1], s[n]), s, S, n)
    BY <1>7, <1>8, PicksNext
  <2>3. f[n] \in Seq(T)
    BY <2>1, <1>8, <1>9
  <2> QED BY <2>1, <2>2, <2>3
<1> QED BY <1>10

Elements(s) == {s[i] : i \in 1..Len(s)}
Distinct(s) == \A i, j \in 1..Len(s) : s[i] = s[j] => i = j

\* Drop takes out S and nothing else.
LEMMA DropElements ==
    ASSUME NEW T, NEW s \in Seq(T), NEW S
    PROVE  Elements(Drop(s, S)) = Elements(s) \ S
<1> DEFINE d == Drop(s, S)
<1>1. PICK h \in [1..Len(d) -> 1..Len(s)] :
        /\ \A i \in 1..Len(d) : d[i] = s[h[i]] /\ s[h[i]] \notin S
        /\ \A k \in 1..Len(s) : s[k] \notin S => \E i \in 1..Len(d) : h[i] = k
  BY DropPicks DEF Picks
<1> HIDE DEF d
<1>2. ASSUME NEW x \in Elements(d) PROVE x \in Elements(s) \ S
  <2>1. PICK i \in 1..Len(d) : x = d[i]
    BY DEF Elements
  <2>2. h[i] \in 1..Len(s) /\ x = s[h[i]] /\ x \notin S
    BY <1>1, <2>1
  <2> QED BY <2>2 DEF Elements
<1>3. ASSUME NEW x \in Elements(s) \ S PROVE x \in Elements(d)
  <2>1. PICK k \in 1..Len(s) : x = s[k]
    BY DEF Elements
  <2>2. PICK i \in 1..Len(d) : h[i] = k
    BY <1>1, <2>1
  <2>3. d[i] = x
    BY <1>1, <2>1, <2>2
  <2> QED BY <2>3 DEF Elements
<1> QED BY <1>2, <1>3 DEF d

\* Drop duplicates nothing.
LEMMA DropDistinct ==
    ASSUME NEW T, NEW s \in Seq(T), NEW S, Distinct(s)
    PROVE  Distinct(Drop(s, S))
<1> DEFINE d == Drop(s, S)
<1>1. PICK h \in [1..Len(d) -> 1..Len(s)] :
        /\ \A i, j \in 1..Len(d) : i < j => h[i] < h[j]
        /\ \A i \in 1..Len(d) : d[i] = s[h[i]] /\ s[h[i]] \notin S
  BY DropPicks DEF Picks
<1>2. d \in Seq(T)
  BY DropPicks
<1> HIDE DEF d
<1>3. ASSUME NEW i \in 1..Len(d), NEW j \in 1..Len(d), d[i] = d[j] PROVE i = j
  <2>1. h[i] = h[j]
    BY <1>1, <1>3 DEF Distinct
  <2>2. i \in Nat /\ j \in Nat /\ h[i] \in Nat /\ h[j] \in Nat
    BY <1>2
  <2> QED BY <1>1, <2>1, <2>2
<1> QED BY <1>3 DEF Distinct, d
=============================================================================
