-------------------------- MODULE InMemStoreProofs --------------------------
(***************************************************************************)
(* The accounting of the payload store, for any buckets, keys, folders,    *)
(* byte limit and number of AddFolder calls.                               *)
(***************************************************************************)
EXTENDS InMemStore, FilterProofs, FiniteSetTheorems, TLAPS

-----------------------------------------------------------------------------
(***************************************************************************)
(* Sums over finite sets: MapThenSumSet does not depend on the order in    *)
(* which it picks the elements.                                            *)
(***************************************************************************)
Sum(f, S) == MapThenSumSet(LAMBDA x : f[x], S)

First(s) == CHOOSE x \in s : TRUE

\* The defining equation of the recursion in MapThenSumSet.
Fold(f, S, g) ==
    [s \in SUBSET S |-> IF s = {} THEN 0 ELSE f[First(s)] + g[s \ {First(s)}]]

\* A family of finite sets that is not empty has a smallest member.
LEMMA SmallestSet ==
    ASSUME NEW B, B # {}, \A s \in B : IsFiniteSet(s)
    PROVE  \E s \in B : \A t \in B : Cardinality(s) <= Cardinality(t)
<1> DEFINE N == {Cardinality(s) : s \in B}
<1>1. N \subseteq Nat /\ N # {}
  BY FS_CardinalityType
<1>2. PICK n \in N : \A m \in N : n <= m
  BY <1>1, LeastNatural
<1> QED BY <1>2

LEMMA FirstOf ==
    ASSUME NEW s, s # {}, IsFiniteSet(s)
    PROVE  /\ First(s) \in s
           /\ IsFiniteSet(s \ {First(s)})
           /\ Cardinality(s) \in Nat /\ Cardinality(s \ {First(s)}) = Cardinality(s) - 1
           /\ Cardinality(s) # 0
<1>1. First(s) \in s
  BY DEF First
<1>2. Cardinality(s) \in Nat /\ Cardinality(s) # 0
  BY FS_CardinalityType, FS_EmptySet
<1> QED BY <1>1, <1>2, FS_RemoveElement

\* Two solutions, for sets that share s and functions that agree on s, agree on s.
LEMMA FoldUnique ==
    ASSUME NEW f, NEW e, NEW S, NEW T, NEW g, NEW h,
           g = Fold(f, S, g), h = Fold(e, T, h),
           NEW r, IsFiniteSet(r), r \subseteq S, r \subseteq T,
           \A x \in r : f[x] \in Int /\ f[x] = e[x]
    PROVE  g[r] = h[r] /\ g[r] \in Int
<1> DEFINE Bad == {s \in SUBSET r : ~ (g[s] = h[s] /\ g[s] \in Int)}
<1>1. SUFFICES ASSUME Bad # {} PROVE FALSE
  OBVIOUS
<1>2. \A s \in Bad : IsFiniteSet(s)
  BY FS_Subset
<1>3. PICK s \in Bad : \A t \in Bad : Cardinality(s) <= Cardinality(t)
  BY <1>1, <1>2, SmallestSet
<1>4. /\ g[s] = IF s = {} THEN 0 ELSE f[First(s)] + g[s \ {First(s)}]
      /\ h[s] = IF s = {} THEN 0 ELSE e[First(s)] + h[s \ {First(s)}]
  <2>1. s \in SUBSET S /\ s \in SUBSET T
    OBVIOUS
  <2> QED BY <2>1 DEF Fold
<1>5. s # {}
  BY <1>4
<1> DEFINE p == First(s)
           t == s \ {p}
<1>6. p \in s /\ Cardinality(t) = Cardinality(s) - 1 /\ Cardinality(s) \in Nat
  BY <1>2, <1>5, FirstOf
<1>7. t \notin Bad /\ t \subseteq r
  BY <1>3, <1>6
<1>8. g[t] = h[t] /\ g[t] \in Int /\ f[p] = e[p] /\ f[p] \in Int
  BY <1>6, <1>7
<1>9. g[s] = f[p] + g[t] /\ h[s] = e[p] + h[t]
  BY <1>4, <1>5
<1> HIDE DEF p, t
<1> QED BY <1>8, <1>9

LEMMA FoldHasSolution ==
    ASSUME NEW f, NEW S, IsFiniteSet(S), \A x \in S : f[x] \in Int
    PROVE  \E g : g = Fold(f, S, g)
<1> DEFINE Val(g, s) == IF s = {} THEN 0 ELSE f[First(s)] + g[s \ {First(s)}]
           Good(n) == \E g \in [SUBSET S -> Int] :
                         \A s \in SUBSET S : Cardinality(s) <= n => g[s] = Val(g, s)
           Bad == {n \in Nat : ~ Good(n)}
<1>f. \A s \in SUBSET S : IsFiniteSet(s) /\ Cardinality(s) \in Nat /\ Cardinality(s) <= Cardinality(S)
  BY FS_Subset, FS_CardinalityType
<1>1. SUFFICES ASSUME Bad # {} PROVE FALSE
  <2>1. Cardinality(S) \in Nat
    BY FS_CardinalityType
  <2>2. Good(Cardinality(S))
    BY <1>1, <2>1
  <2>3. PICK g \in [SUBSET S -> Int] :
          \A s \in SUBSET S : Cardinality(s) <= Cardinality(S) => g[s] = Val(g, s)
    BY <2>2
  <2>4. \A s \in SUBSET S : g[s] = Val(g, s)
    BY <2>3, <1>f
  <2>5. g = [s \in SUBSET S |-> Val(g, s)]
    BY <2>4
  <2> QED BY <2>5 DEF Fold
<1>2. PICK n \in Bad : \A m \in Bad : n <= m
  BY <1>1, LeastNatural
<1>3. n # 0
  <2>1. [s \in SUBSET S |-> 0] \in [SUBSET S -> Int]
    OBVIOUS
  <2>2. \A s \in SUBSET S : Cardinality(s) <= 0 => s = {}
    BY <1>f, FS_EmptySet
  <2>3. \A s \in SUBSET S : Cardinality(s) <= 0 =>
           [t \in SUBSET S |-> 0][s] = Val([t \in SUBSET S |-> 0], s)
    BY <2>2
  <2>4. Good(0)
    BY <2>1, <2>3
  <2> QED BY <2>4
<1>4. n \in Nat /\ n - 1 \in Nat /\ ~ (n <= n - 1)
  BY <1>3
<1>5. Good(n - 1)
  BY <1>2, <1>4
<1>6. PICK g \in [SUBSET S -> Int] :
        \A s \in SUBSET S : Cardinality(s) <= n - 1 => g[s] = Val(g, s)
  BY <1>5
<1> DEFINE h == [s \in SUBSET S |-> Val(g, s)]
<1>7. ASSUME NEW s \in SUBSET S PROVE Val(g, s) \in Int
  <2>1. CASE s # {}
    <3>1. First(s) \in S /\ s \ {First(s)} \in SUBSET S
      BY <2>1, <1>f, FirstOf
    <3> QED BY <3>1
  <2> QED BY <2>1
<1>8. h \in [SUBSET S -> Int]
  BY <1>7
<1>9. ASSUME NEW s \in SUBSET S, Cardinality(s) <= n PROVE h[s] = Val(h, s)
  <2>1. CASE s = {}
    BY <2>1
  <2>2. CASE s # {}
    <3> DEFINE t == s \ {First(s)}
    <3>1. t \in SUBSET S /\ Cardinality(t) <= n - 1
      <4>1. Cardinality(t) = Cardinality(s) - 1 /\ Cardinality(s) \in Nat
        BY <2>2, <1>f, FirstOf
      <4> QED BY <4>1, <1>4, <1>9
    <3>2. h[t] = g[t]
      <4>1. h[t] = Val(g, t)
        BY <3>1
      <4> QED BY <3>1, <4>1, <1>6
    <3>3. h[s] = f[First(s)] + g[t]
      BY <2>2
    <3>4. Val(h, s) = f[First(s)] + h[t]
      BY <2>2
    <3> QED BY <3>2, <3>3, <3>4
  <2> QED BY <2>1, <2>2
<1> QED BY <1>2, <1>8, <1>9

LEMMA SumIsFold ==
    ASSUME NEW f, NEW S, IsFiniteSet(S), \A x \in S : f[x] \in Int
    PROVE  \E g : g = Fold(f, S, g) /\ Sum(f, S) = g[S]
<1> DEFINE c == CHOOSE g : g = Fold(f, S, g)
<1>1. c = Fold(f, S, c)
  BY FoldHasSolution
<1>2. Sum(f, S) = c[S]
  BY DEF Sum, MapThenSumSet, MapThenFoldSet, Fold, First
<1> QED BY <1>1, <1>2

\* A sum depends on what is summed only.
LEMMA SumSame ==
    ASSUME NEW f, NEW e, NEW S, IsFiniteSet(S), \A x \in S : f[x] \in Int /\ f[x] = e[x]
    PROVE  Sum(f, S) = Sum(e, S) /\ Sum(f, S) \in Int
<1>1. PICK g : g = Fold(f, S, g) /\ Sum(f, S) = g[S]
  BY SumIsFold
<1>2. \A x \in S : e[x] \in Int
  OBVIOUS
<1>3. PICK h : h = Fold(e, S, h) /\ Sum(e, S) = h[S]
  BY <1>2, SumIsFold
<1>4. g[S] = h[S] /\ g[S] \in Int
  BY <1>1, <1>3, FoldUnique
<1> QED BY <1>1, <1>3, <1>4

LEMMA SumEmpty == ASSUME NEW f PROVE Sum(f, {}) = 0
<1>1. IsFiniteSet({})
  BY FS_EmptySet
<1>2. PICK g : g = Fold(f, {}, g) /\ Sum(f, {}) = g[{}]
  BY <1>1, SumIsFold
<1> QED BY <1>2 DEF Fold

LEMMA SumFirst ==
    ASSUME NEW f, NEW S, IsFiniteSet(S), S # {}, \A x \in S : f[x] \in Int
    PROVE  Sum(f, S) = f[First(S)] + Sum(f, S \ {First(S)})
<1> DEFINE t == S \ {First(S)}
<1>1. PICK g : g = Fold(f, S, g) /\ Sum(f, S) = g[S]
  BY SumIsFold
<1>2. IsFiniteSet(t)
  BY FirstOf
<1>3. PICK h : h = Fold(f, t, h) /\ Sum(f, t) = h[t]
  BY <1>2, SumIsFold
<1>4. g[t] = h[t]
  BY <1>1, <1>2, <1>3, FoldUnique
<1>5. g[S] = f[First(S)] + g[t]
  BY <1>1 DEF Fold
<1> QED BY <1>1, <1>3, <1>4, <1>5

\* Any element can be taken out of a sum first.
LEMMA SumRemove ==
    ASSUME NEW f, NEW S, IsFiniteSet(S), \A x \in S : f[x] \in Int, NEW a \in S
    PROVE  Sum(f, S) = f[a] + Sum(f, S \ {a})
<1> DEFINE Bad == {s \in SUBSET S : \E x \in s : Sum(f, s) # f[x] + Sum(f, s \ {x})}
<1>1. SUFFICES ASSUME Bad # {} PROVE FALSE
  OBVIOUS
<1>f. \A s \in SUBSET S : IsFiniteSet(s) /\ Cardinality(s) \in Nat
  BY FS_Subset, FS_CardinalityType
<1>2. PICK s \in Bad : \A t \in Bad : Cardinality(s) <= Cardinality(t)
  BY <1>1, <1>f, SmallestSet
<1>3. PICK x \in s : Sum(f, s) # f[x] + Sum(f, s \ {x})
  OBVIOUS
<1> DEFINE p == First(s)
<1>4. p \in s /\ Cardinality(s \ {p}) = Cardinality(s) - 1
  BY <1>3, <1>f, FirstOf
<1>5. Sum(f, s) = f[p] + Sum(f, s \ {p})
  BY <1>3, <1>f, SumFirst
<1>6. x # p
  BY <1>3, <1>5
<1>7. Cardinality(s \ {x}) = Cardinality(s) - 1
  BY <1>f, <1>3, FS_RemoveElement
<1>8. s \ {p} \notin Bad /\ s \ {x} \notin Bad
  <2>1. Cardinality(s) \in Nat
    BY <1>f
  <2>2. ~ (Cardinality(s) <= Cardinality(s \ {p})) /\ ~ (Cardinality(s) <= Cardinality(s \ {x}))
    BY <2>1, <1>4, <1>7
  <2> HIDE DEF Bad, p
  <2> QED BY <2>2, <1>2
<1>9. /\ Sum(f, s \ {p}) = f[x] + Sum(f, (s \ {p}) \ {x})
      /\ Sum(f, s \ {x}) = f[p] + Sum(f, (s \ {x}) \ {p})
  BY <1>4, <1>6, <1>8
<1>10. (s \ {p}) \ {x} = (s \ {x}) \ {p}
  OBVIOUS
<1>11. PICK z : z = Sum(f, (s \ {x}) \ {p})
  OBVIOUS
<1>12. z \in Int /\ f[x] \in Int /\ f[p] \in Int
  <2>1. (s \ {x}) \ {p} \in SUBSET S
    OBVIOUS
  <2> QED BY <2>1, <1>f, <1>4, <1>11, SumSame
<1>13. f[p] + (f[x] + z) = f[x] + (f[p] + z)
  BY <1>12
<1> QED BY <1>3, <1>5, <1>9, <1>10, <1>11, <1>13

\* A sum splits into the sums over a part and over the rest.
LEMMA SumSplit ==
    ASSUME NEW f, NEW S, IsFiniteSet(S), \A x \in S : f[x] \in Int, NEW A, A \subseteq S
    PROVE  Sum(f, S) = Sum(f, A) + Sum(f, S \ A)
<1> DEFINE Bad == {s \in SUBSET A : Sum(f, S) # Sum(f, s) + Sum(f, S \ s)}
<1>f. \A s \in SUBSET S : IsFiniteSet(s) /\ Cardinality(s) \in Nat /\ Sum(f, s) \in Int
  BY FS_Subset, FS_CardinalityType, SumSame
<1>1. SUFFICES ASSUME Bad # {} PROVE FALSE
  OBVIOUS
<1>2. PICK s \in Bad : \A t \in Bad : Cardinality(s) <= Cardinality(t)
  BY <1>1, <1>f, SmallestSet
<1>3. s # {}
  <2>1. Sum(f, S) = Sum(f, {}) + Sum(f, S \ {})
    <3>1. S \ {} = S /\ Sum(f, S) \in Int
      BY <1>f
    <3> QED BY <3>1, SumEmpty
  <2> QED BY <2>1
<1>4. PICK x \in s : TRUE
  BY <1>3
<1>5. Cardinality(s \ {x}) = Cardinality(s) - 1
  BY <1>f, FS_RemoveElement
<1>6. s \ {x} \notin Bad
  BY <1>2, <1>5, <1>f
<1>7. Sum(f, S) = Sum(f, s \ {x}) + Sum(f, S \ (s \ {x}))
  BY <1>6
<1>8. Sum(f, s) = f[x] + Sum(f, s \ {x})
  <2>1. IsFiniteSet(s) /\ \A y \in s : f[y] \in Int
    BY <1>f
  <2> QED BY <2>1, SumRemove
<1>9. Sum(f, S \ (s \ {x})) = f[x] + Sum(f, S \ s)
  <2> DEFINE r == S \ (s \ {x})
  <2>1. x \in r /\ r \ {x} = S \ s /\ r \in SUBSET S
    OBVIOUS
  <2>2. IsFiniteSet(r) /\ \A y \in r : f[y] \in Int
    BY <2>1, <1>f
  <2>3. Sum(f, r) = f[x] + Sum(f, r \ {x})
    BY <2>1, <2>2, SumRemove
  <2> QED BY <2>1, <2>3
<1>10. PICK y, z : y = Sum(f, s \ {x}) /\ z = Sum(f, S \ s)
  OBVIOUS
<1>11. y \in Int /\ z \in Int /\ f[x] \in Int
  <2>1. s \ {x} \in SUBSET S /\ S \ s \in SUBSET S
    OBVIOUS
  <2> QED BY <2>1, <1>f, <1>10
<1>12. y + (f[x] + z) = (f[x] + y) + z
  BY <1>11
<1> QED BY <1>7, <1>8, <1>9, <1>10, <1>12

LEMMA SumNat ==
    ASSUME NEW f, NEW S, IsFiniteSet(S), \A x \in S : f[x] \in Nat
    PROVE  Sum(f, S) \in Nat
<1> DEFINE Bad == {s \in SUBSET S : Sum(f, s) \notin Nat}
<1>f. \A s \in SUBSET S : IsFiniteSet(s) /\ Cardinality(s) \in Nat
  BY FS_Subset, FS_CardinalityType
<1>1. SUFFICES ASSUME Bad # {} PROVE FALSE
  OBVIOUS
<1>2. PICK s \in Bad : \A t \in Bad : Cardinality(s) <= Cardinality(t)
  BY <1>1, <1>f, SmallestSet
<1>0. Sum(f, {}) \in Nat
  BY SumEmpty
<1>3. PICK x \in s : TRUE
  <2>1. s # {}
    BY <1>0
  <2> QED BY <2>1
<1>4. Cardinality(s \ {x}) = Cardinality(s) - 1
  BY <1>f, FS_RemoveElement
<1>5. Sum(f, s \ {x}) \in Nat
  BY <1>2, <1>4, <1>f
<1>6. Sum(f, s) = f[x] + Sum(f, s \ {x})
  <2>1. IsFiniteSet(s) /\ \A y \in s : f[y] \in Int
    BY <1>f
  <2> QED BY <2>1, SumRemove
<1>7. f[x] \in Nat
  OBVIOUS
<1> QED BY <1>5, <1>6, <1>7

-----------------------------------------------------------------------------
(***************************************************************************)
(* The store's methods.                                                    *)
(***************************************************************************)
\* The accounting: the eviction list has every resident object once, usedBytes is
\* the sum of their sizes and within the limit.
AccountInv ==
    /\ size \in [Ids -> Nat \cup {Absent}]
    /\ fifo \in Seq(Ids)
    /\ Elements(fifo) = Resident
    /\ Distinct(fifo)
    /\ used = Sum(size, Resident)
    /\ MaxBytes > 0 => used <= MaxBytes

LEMMA SizeOf == ASSUME AccountInv, NEW x \in Resident PROVE x \in Ids /\ size[x] \in Nat
BY DEF AccountInv, Resident, Absent

LEMMA ListCounts ==
    ASSUME NEW T, NEW s \in Seq(T)
    PROVE  /\ IsFiniteSet(Elements(s))
           /\ Distinct(s) => Cardinality(Elements(s)) = Len(s)
<1> DEFINE f == [i \in 1..Len(s) |-> s[i]]
<1>1. IsFiniteSet(1..Len(s)) /\ Len(s) \in Nat
  BY FS_Interval
<1>2. f \in Surjection(1..Len(s), Elements(s))
  BY DEF Surjection, Elements
<1>3. IsFiniteSet(Elements(s))
  BY <1>1, <1>2, FS_Surjection DEF ExistsSurjection
<1>4. ASSUME Distinct(s) PROVE Cardinality(Elements(s)) = Len(s)
  <2>0. f \in [1..Len(s) -> Elements(s)] /\ \A i, j \in 1..Len(s) : f[i] = f[j] => i = j
    BY <1>4 DEF Distinct, Elements
  <2>1. f \in Bijection(1..Len(s), Elements(s))
    <3> HIDE DEF f
    <3> QED BY <2>0, <1>2 DEF Bijection, Injection, IsInjective
  <2>2. ExistsBijection(1..Len(s), Elements(s))
    BY <2>1 DEF ExistsBijection
  <2> QED BY <1>1, <2>2, FS_CountingElements
<1> QED BY <1>3, <1>4

LEMMA ResidentFinite ==
    ASSUME AccountInv
    PROVE  /\ IsFiniteSet(Resident) /\ used \in Nat
           /\ \A A \in SUBSET Resident :
                /\ IsFiniteSet(A) /\ Sum(size, A) \in Nat
                /\ used = Sum(size, A) + Sum(size, Resident \ A)
<1>1. IsFiniteSet(Resident)
  BY ListCounts DEF AccountInv
<1>2. \A x \in Resident : size[x] \in Nat /\ size[x] \in Int
  BY SizeOf
<1>3. ASSUME NEW A \in SUBSET Resident
      PROVE  /\ IsFiniteSet(A) /\ Sum(size, A) \in Nat
             /\ used = Sum(size, A) + Sum(size, Resident \ A)
  <2>1. IsFiniteSet(A)
    BY <1>1, FS_Subset
  <2>2. Sum(size, A) \in Nat
    BY <1>2, <2>1, SumNat
  <2>3. Sum(size, Resident) = Sum(size, A) + Sum(size, Resident \ A)
    BY <1>1, <1>2, SumSplit
  <2> QED BY <2>1, <2>2, <2>3 DEF AccountInv
<1>4. used \in Nat
  BY <1>1, <1>2, SumNat DEF AccountInv
<1> QED BY <1>1, <1>3, <1>4

LEMMA TotalIsSum == ASSUME NEW A PROVE Total(A) = Sum(size, A)
BY DEF Total, Sum

\* removeObjectLocked, DeleteBucket and DeleteObject.
LEMMA RemoveKeeps ==
    ASSUME AccountInv, NEW A \in SUBSET Resident, RemoveObjects(A), MaxBytes \in Nat
    PROVE  AccountInv' /\ Resident' = Resident \ A
<1>1. /\ size' = [x \in Ids |-> IF x \in A THEN Absent ELSE size[x]]
      /\ used' = used - Sum(size, A)
      /\ fifo' = Drop(fifo, A)
  BY TotalIsSum DEF RemoveObjects
<1>2. size' \in [Ids -> Nat \cup {Absent}]
  BY <1>1 DEF AccountInv
<1>3. Resident' = Resident \ A
  BY <1>1 DEF Resident
<1>4. fifo' \in Seq(Ids) /\ Elements(fifo') = Resident' /\ Distinct(fifo')
  BY <1>1, <1>3, DropPicks, DropElements, DropDistinct DEF AccountInv
<1>5. Sum(size', Resident') = Sum(size, Resident \ A)
  <2>1. IsFiniteSet(Resident \ A)
    BY ResidentFinite
  <2>2. \A x \in Resident \ A : size[x] \in Int /\ size[x] = size'[x]
    BY <1>1, SizeOf DEF Resident
  <2> QED BY <1>3, <2>1, <2>2, SumSame
<1>6. PICK a, r : a = Sum(size, A) /\ r = Sum(size, Resident \ A)
  OBVIOUS
<1>7. a \in Nat /\ r \in Nat /\ used = a + r
  <2>1. Resident \ A \in SUBSET Resident
    OBVIOUS
  <2> QED BY <1>6, <2>1, ResidentFinite
<1>8. used' = r /\ used' <= used
  BY <1>1, <1>6, <1>7
<1>9. used' = Sum(size', Resident') /\ (MaxBytes > 0 => used' <= MaxBytes)
  <2>1. MaxBytes > 0 => used <= MaxBytes
    BY DEF AccountInv
  <2>2. MaxBytes > 0 => used' <= MaxBytes
    BY <1>7, <1>8, <2>1
  <2> QED BY <1>5, <1>6, <1>8, <2>2
<1> QED BY <1>2, <1>3, <1>4, <1>9 DEF AccountInv

\* PutObject, once it knows what to evict: if what goes makes room for n bytes, the
\* limit is kept.
LEMMA InsertKeeps ==
    ASSUME AccountInv, NEW x \in Ids, NEW n \in Nat, NEW S \in SUBSET Resident, x \notin S,
           Insert(x, n, S), MaxBytes \in Nat,
           MaxBytes > 0 => used - Sum(size, S \cup ({x} \cap Resident)) + n <= MaxBytes
    PROVE  AccountInv' /\ Resident' = (Resident \ S) \cup {x}
<1> DEFINE gone == S \cup ({x} \cap Resident)
           rest == Resident \ gone
<1>0. gone \in SUBSET Resident
  OBVIOUS
<1>1. /\ size' = [y \in Ids |-> IF y = x THEN n ELSE IF y \in gone THEN Absent ELSE size[y]]
      /\ used' = used - Sum(size, gone) + n
      /\ fifo' = Append(Drop(fifo, gone), x)
  BY TotalIsSum DEF Insert
<1>2. size' \in [Ids -> Nat \cup {Absent}]
  BY <1>1 DEF AccountInv
<1>3. Resident' = rest \cup {x} /\ x \notin rest /\ rest \cup {x} = (Resident \ S) \cup {x}
  BY <1>1 DEF Resident, Absent
<1>4. PICK q : q = Drop(fifo, gone)
  OBVIOUS
<1>5. q \in Seq(Ids) /\ Elements(q) = rest /\ Distinct(q)
  BY <1>4, DropPicks, DropElements, DropDistinct DEF AccountInv
<1>6. fifo' = Append(q, x)
  BY <1>1, <1>4
<1>7. fifo' \in Seq(Ids)
  BY <1>5, <1>6
<1>8. /\ Len(fifo') = Len(q) + 1 /\ Len(q) \in Nat /\ fifo'[Len(q) + 1] = x
      /\ \A i \in 1..Len(q) : fifo'[i] = q[i]
      /\ \A i \in 1..Len(fifo') : i \in 1..Len(q) \/ i = Len(q) + 1
      /\ \A i \in 1..Len(q) : i \in 1..Len(fifo')
      /\ Len(q) + 1 \in 1..Len(fifo')
  BY <1>5, <1>6
<1>9. Elements(fifo') = rest \cup {x}
  <2>1. ASSUME NEW y \in Elements(fifo') PROVE y \in rest \cup {x}
    <3>1. PICK i \in 1..Len(fifo') : y = fifo'[i]
      BY DEF Elements
    <3> QED BY <3>1, <1>5, <1>8 DEF Elements
  <2>2. ASSUME NEW y \in rest \cup {x} PROVE y \in Elements(fifo')
    <3>1. CASE y = x
      BY <3>1, <1>8 DEF Elements
    <3>2. CASE y \in rest
      <4>1. PICK i \in 1..Len(q) : y = q[i]
        BY <3>2, <1>5 DEF Elements
      <4> QED BY <4>1, <1>8 DEF Elements
    <3> QED BY <3>1, <3>2
  <2> QED BY <2>1, <2>2
<1>10. Distinct(fifo')
  <2> SUFFICES ASSUME NEW i \in 1..Len(fifo'), NEW j \in 1..Len(fifo'), fifo'[i] = fifo'[j]
               PROVE  i = j
    BY DEF Distinct
  <2>1. \A k \in 1..Len(q) : q[k] # x
    BY <1>3, <1>5 DEF Elements
  <2> QED BY <2>1, <1>5, <1>8 DEF Distinct
<1>11. PICK a, r : a = Sum(size, gone) /\ r = Sum(size, rest)
  OBVIOUS
<1>12. a \in Nat /\ r \in Nat /\ used = a + r /\ IsFiniteSet(rest)
  <2>1. rest \in SUBSET Resident
    OBVIOUS
  <2> QED BY <1>0, <1>11, <2>1, ResidentFinite
<1>13. used' = r + n
  BY <1>1, <1>11, <1>12
<1>14. Sum(size', rest) = r
  <2>1. \A y \in rest : size[y] \in Int /\ size[y] = size'[y]
    BY <1>1, SizeOf DEF Resident
  <2> QED BY <1>11, <1>12, <2>1, SumSame
<1>15. Sum(size', Resident') = n + r
  <2>1. \A y \in Resident' : size'[y] \in Int
    BY <1>2 DEF Resident, Absent
  <2>2. IsFiniteSet(Resident')
    BY <1>3, <1>12, FS_AddElement
  <2>3. Sum(size', Resident') = size'[x] + Sum(size', Resident' \ {x})
    BY <1>3, <2>1, <2>2, SumRemove
  <2>4. Resident' \ {x} = rest /\ size'[x] = n
    BY <1>1, <1>3
  <2> QED BY <2>3, <2>4, <1>14
<1>16. used' = Sum(size', Resident')
  BY <1>12, <1>13, <1>15
<1>17. MaxBytes > 0 => used' <= MaxBytes
  BY <1>1
<1> QED BY <1>2, <1>3, <1>7, <1>9, <1>10, <1>16, <1>17 DEF AccountInv

LEMMA OldestAre ==
    ASSUME AccountInv, NEW x, NEW i \in 0..Len(Others(x))
    PROVE  /\ Others(x) \in Seq(Ids)
           /\ Oldest(x, i) = {Others(x)[k] : k \in 1..i}
           /\ Oldest(x, i) \subseteq Resident \ {x}
<1>1. PICK q : q = Others(x)
  OBVIOUS
<1>2. q \in Seq(Ids) /\ Elements(q) = Resident \ {x}
  BY <1>1, DropPicks, DropElements DEF Others, AccountInv
<1>3. Len(q) \in Nat /\ i \in Nat /\ i <= Len(q)
  BY <1>1, <1>2
<1>4. PICK z : z = SubSeq(q, 1, i)
  OBVIOUS
<1>5. z \in Seq(Ids) /\ Len(z) = i /\ \A k \in 1..i : z[k] = q[k]
  BY <1>2, <1>3, <1>4
<1>6. ToSet(z) = {q[k] : k \in 1..i}
  BY <1>5 DEF ToSet
<1>7. {q[k] : k \in 1..i} \subseteq Elements(q)
  BY <1>3 DEF Elements
<1> QED BY <1>1, <1>2, <1>4, <1>6, <1>7 DEF Oldest

\* What PutObject does to the set of objects.
LEMMA PutOkKeeps ==
    ASSUME AccountInv, NEW x \in Ids, NEW n \in Nat, PutOk(x, n), MaxBytes \in Nat
    PROVE  /\ AccountInv' /\ x \in Resident' /\ Resident' \subseteq Resident \cup {x}
           /\ policy = "reject" => Resident \subseteq Resident'
<1> DEFINE xr == {x} \cap Resident
<1>1. NeedFree(x, n) = (used - Sum(size, xr) + n) - MaxBytes
  BY TotalIsSum DEF NeedFree
<1>2. PICK a : a = Sum(size, xr)
  OBVIOUS
<1>3. a \in Nat /\ used \in Nat
  <2>1. xr \in SUBSET Resident
    OBVIOUS
  <2> QED BY <1>2, <2>1, ResidentFinite
<1>4. CASE Fits(x, n) /\ Insert(x, n, {})
  <2>1. {} \cup xr = xr
    OBVIOUS
  <2>2. MaxBytes > 0 => used - Sum(size, xr) + n <= MaxBytes
    BY <1>1, <1>2, <1>3, <1>4 DEF Fits
  <2>3. AccountInv' /\ Resident' = (Resident \ {}) \cup {x}
    <3>1. {} \in SUBSET Resident /\ x \notin {}
      OBVIOUS
    <3>2. MaxBytes > 0 => used - Sum(size, {} \cup xr) + n <= MaxBytes
      BY <2>1, <2>2
    <3> QED BY <1>4, <3>1, <3>2, InsertKeeps
  <2> QED BY <2>3
<1>5. ASSUME NEW S \in SUBSET Resident, Evicts(x, n, S), Insert(x, n, S)
      PROVE  /\ AccountInv' /\ x \in Resident' /\ Resident' \subseteq Resident \cup {x}
             /\ policy # "reject"
  <2>1. PICK i \in 1..Len(Others(x)) : S = Oldest(x, i) /\ Total(S) >= NeedFree(x, n)
    BY <1>5 DEF Evicts
  <2>2. x \notin S
    <3>1. i \in 0..Len(Others(x))
      OBVIOUS
    <3> QED BY <2>1, <3>1, OldestAre
  <2>3. PICK b, c : b = Sum(size, S) /\ c = Sum(size, S \cup xr)
    OBVIOUS
  <2>4. c = b + a /\ b \in Nat
    <3> DEFINE g == S \cup xr
    <3>1. g \in SUBSET Resident /\ S \subseteq g /\ g \ S = xr
      BY <2>2
    <3>2. IsFiniteSet(g) /\ Sum(size, S) \in Nat
      BY <3>1, ResidentFinite
    <3>3. \A y \in g : size[y] \in Int
      BY <3>1, SizeOf
    <3>4. Sum(size, g) = Sum(size, S) + Sum(size, g \ S)
      BY <3>1, <3>2, <3>3, SumSplit
    <3> QED BY <1>2, <2>3, <3>1, <3>2, <3>4
  <2>5. b >= (used - a + n) - MaxBytes
    BY <1>1, <1>2, <2>1, <2>3, TotalIsSum
  <2>6. MaxBytes > 0 => used - Sum(size, S \cup xr) + n <= MaxBytes
    BY <1>3, <2>3, <2>4, <2>5
  <2>7. AccountInv' /\ Resident' = (Resident \ S) \cup {x}
    BY <1>5, <2>2, <2>6, InsertKeeps
  <2> QED BY <1>5, <2>7 DEF Evicts
<1> QED BY <1>4, <1>5 DEF PutOk

-----------------------------------------------------------------------------
(***************************************************************************)
(* Every step.                                                             *)
(***************************************************************************)
LoadPcs == {"idle", "bucket", "create", "put", "ok", "err"}

LoadInv ==
    /\ load \in [Loads -> [pc: LoadPcs, i: Nat, j: Nat]]
    /\ \A l \in Loads : /\ load[l].i >= 1 /\ load[l].j >= 1
                        /\ load[l].pc \in {"create", "put"} => load[l].i <= Len(Folder[l])
                        /\ load[l].pc \in {"bucket", "create"} => load[l].j = 1

BucketInv == /\ buckets \subseteq Buckets
             /\ \A x \in Resident : x[1] \in buckets

EnvInv == clearing \subseteq Buckets /\ policy \in Policies /\ deleted \in BOOLEAN

StoreInv == AccountInv /\ BucketInv /\ LoadInv /\ EnvInv

LEMMA ElementType == ASSUME NEW T, NEW s \in Seq(T), NEW i \in 1..Len(s) PROVE s[i] \in T
OBVIOUS

\* What the listing gives an AddFolder call.
LEMMA ListingTypes ==
    ASSUME NEW l \in Loads, NEW i \in 1..Len(Folder[l])
    PROVE  /\ Folder[l][i].b \in Buckets
           /\ Len(Folder[l][i].objs) \in Nat
           /\ \A j \in 1..Len(Folder[l][i].objs) :
                 Folder[l][i].objs[j].k \in Keys /\ Folder[l][i].objs[j].n \in Nat
<1>1. Folder[l] \in Seq([b: Buckets, objs: Seq([k: Keys, n: Nat])])
  BY StoreAssumption DEF Listing
<1>2. Folder[l][i] \in [b: Buckets, objs: Seq([k: Keys, n: Nat])]
  BY <1>1, ElementType
<1>3. Folder[l][i].b \in Buckets /\ Folder[l][i].objs \in Seq([k: Keys, n: Nat])
  BY <1>2
<1>4. ASSUME NEW j \in 1..Len(Folder[l][i].objs)
      PROVE  Folder[l][i].objs[j] \in [k: Keys, n: Nat]
  BY <1>3, ElementType
<1> QED BY <1>3, <1>4, SMTT(30)

LEMMA GotoKeeps ==
    ASSUME LoadInv, NEW l \in Loads, NEW pc \in LoadPcs, NEW i \in Nat, NEW j \in Nat,
           i >= 1, j >= 1, pc \in {"create", "put"} => i <= Len(Folder[l]),
           pc \in {"bucket", "create"} => j = 1,
           Goto(l, pc, i, j)
    PROVE  LoadInv'
<1>1. load' = [load EXCEPT ![l] = [pc |-> pc, i |-> i, j |-> j]]
  BY DEF Goto
<1>2. [pc |-> pc, i |-> i, j |-> j] \in [pc: LoadPcs, i: Nat, j: Nat]
  OBVIOUS
<1>3. load' \in [Loads -> [pc: LoadPcs, i: Nat, j: Nat]]
  BY <1>1, <1>2 DEF LoadInv
<1>4. ASSUME NEW m \in Loads
      PROVE  /\ load'[m].i >= 1 /\ load'[m].j >= 1
             /\ load'[m].pc \in {"create", "put"} => load'[m].i <= Len(Folder[m])
             /\ load'[m].pc \in {"bucket", "create"} => load'[m].j = 1
  <2>1. CASE m = l
    <3>1. load'[m] = [pc |-> pc, i |-> i, j |-> j]
      BY <1>1, <2>1 DEF LoadInv
    <3> QED BY <2>1, <3>1
  <2>2. CASE m # l
    <3>1. load'[m] = load[m]
      BY <1>1, <2>2 DEF LoadInv
    <3> QED BY <3>1 DEF LoadInv
  <2> QED BY <2>1, <2>2
<1> QED BY <1>3, <1>4 DEF LoadInv

LEMMA LoadTypes ==
    ASSUME LoadInv, NEW l \in Loads
    PROVE  /\ load[l].i \in Nat /\ load[l].j \in Nat /\ load[l].i >= 1 /\ load[l].j >= 1
           /\ Len(Folder[l]) \in Nat
           /\ load[l].pc \in {"create", "put"} => load[l].i \in 1..Len(Folder[l])
           /\ load[l].pc \in {"bucket", "create"} => load[l].j = 1
<1>1. load[l] \in [pc: LoadPcs, i: Nat, j: Nat]
  BY DEF LoadInv
<1>2. Folder[l] \in Seq([b: Buckets, objs: Seq([k: Keys, n: Nat])])
  BY StoreAssumption DEF Listing
<1>3. Len(Folder[l]) \in Nat
  BY <1>2
<1> QED BY <1>1, <1>3 DEF LoadInv

LEMMA DeleteBucketKeeps ==
    ASSUME AccountInv, BucketInv, NEW b, DeleteBucket(b)
    PROVE  AccountInv' /\ BucketInv' /\ Resident' = {x \in Resident : x[1] # b}
<1> DEFINE A == {x \in Resident : x[1] = b}
<1>1. AccountInv' /\ Resident' = Resident \ A
  BY StoreAssumption, RemoveKeeps DEF DeleteBucket
<1>2. BucketInv'
  BY <1>1 DEF BucketInv, DeleteBucket
<1> QED BY <1>1, <1>2

LEMMA CreateBucketKeeps ==
    ASSUME AccountInv, BucketInv, NEW b \in Buckets, CreateBucket(b)
    PROVE  AccountInv' /\ BucketInv' /\ Resident' = Resident
<1>1. UNCHANGED <<size, used, fifo>> /\ buckets' = buckets \cup {b}
  BY DEF CreateBucket
<1>2. Resident' = Resident
  BY <1>1 DEF Resident
<1>3. AccountInv'
  BY <1>1, <1>2 DEF AccountInv
<1>4. BucketInv'
  BY <1>1, <1>2 DEF BucketInv
<1> QED BY <1>2, <1>3, <1>4

LEMMA UnmovedKeeps ==
    ASSUME AccountInv, BucketInv, UNCHANGED storeVars
    PROVE  AccountInv' /\ BucketInv' /\ Resident' = Resident
<1>1. UNCHANGED <<buckets, size, used, fifo>>
  BY DEF storeVars
<1>2. Resident' = Resident
  BY <1>1 DEF Resident
<1> QED BY <1>1, <1>2 DEF AccountInv, BucketInv

\* One PutObject of AddFolder: which object, and what becomes of the store.
LEMMA LoadPutCases ==
    ASSUME StoreInv, NEW l \in Loads, LoadPut(l)
    PROVE  LET i == load[l].i
               j == load[l].j
               o == Folder[l][i].objs[j]
               x == <<Folder[l][i].b, o.k>>
           IN /\ i \in 1..Len(Folder[l]) /\ i \in Nat /\ j \in Nat /\ j >= 1
              /\ Len(Folder[l][i].objs) \in Nat
              /\ UNCHANGED <<clearing, policy, deleted>>
              /\ \/ /\ j > Len(Folder[l][i].objs)
                    /\ Goto(l, "bucket", i + 1, 1)
                    /\ UNCHANGED storeVars
                 \/ /\ j \in 1..Len(Folder[l][i].objs)
                    /\ x \in Ids /\ x[1] = Folder[l][i].b /\ x[1] \in Buckets /\ o.n \in Nat
                    /\ \/ PutOk(x, o.n) /\ Goto(l, "put", i, j + 1)
                       \/ /\ PutFails(x, o.n) /\ CreateBucket(x[1])
                          /\ Goto(l, "err", i, j)
<1> DEFINE i == load[l].i
           j == load[l].j
           o == Folder[l][i].objs[j]
           x == <<Folder[l][i].b, o.k>>
<1>1. /\ i \in 1..Len(Folder[l]) /\ i \in Nat /\ j \in Nat /\ j >= 1
  BY LoadTypes DEF StoreInv, LoadPut
<1>2. Len(Folder[l][i].objs) \in Nat /\ Folder[l][i].b \in Buckets
  BY <1>1, ListingTypes
<1>3. UNCHANGED <<clearing, policy, deleted>>
  BY DEF LoadPut, env
<1>4. ASSUME j <= Len(Folder[l][i].objs)
      PROVE  /\ j \in 1..Len(Folder[l][i].objs) /\ x \in Ids
             /\ x[1] = Folder[l][i].b /\ x[1] \in Buckets /\ o.n \in Nat
  <2>1. j \in 1..Len(Folder[l][i].objs)
    BY <1>1, <1>2, <1>4
  <2>2. o.k \in Keys /\ o.n \in Nat
    BY <1>1, <2>1, ListingTypes
  <2> QED BY <1>2, <2>1, <2>2 DEF Ids
<1>5. \/ /\ j > Len(Folder[l][i].objs)
         /\ Goto(l, "bucket", i + 1, 1)
         /\ UNCHANGED storeVars
      \/ /\ j <= Len(Folder[l][i].objs)
         /\ \/ PutOk(x, o.n) /\ Goto(l, "put", i, j + 1)
            \/ PutFails(x, o.n) /\ Goto(l, "err", i, j)
  BY DEF LoadPut, Bucket, Objs
<1>6. PutFails(x, o.n) => CreateBucket(x[1])
  BY DEF PutFails
<1> HIDE DEF i, j, o, x
<1>7. \/ /\ j > Len(Folder[l][i].objs)
         /\ Goto(l, "bucket", i + 1, 1)
         /\ UNCHANGED storeVars
      \/ /\ j \in 1..Len(Folder[l][i].objs)
         /\ x \in Ids /\ x[1] = Folder[l][i].b /\ x[1] \in Buckets /\ o.n \in Nat
         /\ \/ PutOk(x, o.n) /\ Goto(l, "put", i, j + 1)
            \/ /\ PutFails(x, o.n) /\ CreateBucket(x[1])
               /\ Goto(l, "err", i, j)
  BY <1>4, <1>5, <1>6
<1> QED BY <1>1, <1>2, <1>3, <1>7 DEF i, j, o, x

LEMMA PutOkBuckets ==
    ASSUME AccountInv, BucketInv, NEW x \in Ids, NEW n \in Nat, PutOk(x, n), x[1] \in Buckets
    PROVE  AccountInv' /\ BucketInv'
<1>1. AccountInv' /\ Resident' \subseteq Resident \cup {x}
  BY StoreAssumption, PutOkKeeps
<1>2. buckets' = buckets \cup {x[1]}
  BY DEF PutOk
<1> QED BY <1>1, <1>2 DEF BucketInv

LEMMA LoadKeepsStore ==
    ASSUME StoreInv, NEW l \in Loads,
           AddFolder(l) \/ LoadBucket(l) \/ LoadCreate(l) \/ LoadPut(l)
    PROVE  StoreInv'
<1>0. AccountInv /\ BucketInv /\ LoadInv /\ EnvInv
  BY DEF StoreInv
<1>l. /\ load[l].i \in Nat /\ load[l].j \in Nat /\ load[l].i >= 1 /\ load[l].j >= 1
      /\ Len(Folder[l]) \in Nat
      /\ load[l].pc \in {"create", "put"} => load[l].i \in 1..Len(Folder[l])
  BY <1>0, LoadTypes
<1>e. EnvInv'
  BY <1>0 DEF AddFolder, LoadBucket, LoadCreate, LoadPut, EnvInv, env
<1>1. CASE AddFolder(l)
  <2>1. LoadInv'
    BY <1>0, <1>1, GotoKeeps DEF AddFolder, LoadPcs
  <2>2. AccountInv' /\ BucketInv'
    BY <1>0, <1>1, UnmovedKeeps DEF AddFolder
  <2> QED BY <1>e, <2>1, <2>2 DEF StoreInv
<1>2. CASE LoadBucket(l)
  <2>1. CASE Goto(l, "ok", load[l].i, 1) /\ UNCHANGED storeVars
    <3>1. LoadInv'
      BY <1>0, <1>l, <2>1, GotoKeeps DEF LoadPcs
    <3> QED BY <1>0, <1>e, <2>1, <3>1, UnmovedKeeps DEF StoreInv
  <2>2. CASE Goto(l, "err", load[l].i, 1) /\ UNCHANGED storeVars
    <3>1. LoadInv'
      BY <1>0, <1>l, <2>2, GotoKeeps DEF LoadPcs
    <3> QED BY <1>0, <1>e, <2>2, <3>1, UnmovedKeeps DEF StoreInv
  <2>3. CASE /\ load[l].i <= Len(Folder[l]) /\ DeleteBucket(Bucket(l))
             /\ Goto(l, "create", load[l].i, 1)
    <3>1. LoadInv'
      BY <1>0, <1>l, <2>3, GotoKeeps DEF LoadPcs
    <3> QED BY <1>0, <1>e, <2>3, <3>1, DeleteBucketKeeps DEF StoreInv
  <2> QED BY <1>2, <2>1, <2>2, <2>3 DEF LoadBucket
<1>3. CASE LoadCreate(l)
  <2>1. LoadInv'
    BY <1>0, <1>l, <1>3, GotoKeeps DEF LoadCreate, LoadPcs
  <2>2. Bucket(l) \in Buckets
    BY <1>l, <1>3, ListingTypes DEF LoadCreate, Bucket
  <2>3. AccountInv' /\ BucketInv'
    BY <1>0, <1>3, <2>2, CreateBucketKeeps DEF LoadCreate
  <2> QED BY <1>e, <2>1, <2>3 DEF StoreInv
<1>4. CASE LoadPut(l)
  <2> DEFINE i == load[l].i
             j == load[l].j
             o == Folder[l][i].objs[j]
             x == <<Folder[l][i].b, o.k>>
  <2>0. i \in 1..Len(Folder[l]) /\ i \in Nat /\ j \in Nat /\ j >= 1
    BY <1>4, LoadPutCases
  <2>1. CASE Goto(l, "bucket", i + 1, 1) /\ UNCHANGED storeVars
    <3>1. LoadInv'
      BY <1>0, <2>0, <2>1, GotoKeeps DEF LoadPcs
    <3> QED BY <1>0, <1>e, <2>1, <3>1, UnmovedKeeps DEF StoreInv
  <2>2. CASE /\ x \in Ids /\ x[1] \in Buckets /\ o.n \in Nat
             /\ PutOk(x, o.n) /\ Goto(l, "put", i, j + 1)
    <3>0. /\ Goto(l, "put", i, j + 1) /\ i >= 1 /\ j + 1 >= 1 /\ j + 1 \in Nat
          /\ i <= Len(Folder[l]) /\ "put" \in LoadPcs
      <4>1. Goto(l, "put", i, j + 1)
        BY <2>2
      <4> HIDE DEF i, j
      <4> QED BY <4>1, <1>l, <2>0 DEF LoadPcs
    <3>1. LoadInv'
      <4> HIDE DEF i, j
      <4> QED BY <1>0, <2>0, <3>0, GotoKeeps
    <3>2. AccountInv' /\ BucketInv'
      BY <1>0, <2>2, PutOkBuckets
    <3> QED BY <1>e, <3>1, <3>2 DEF StoreInv
  <2>3. CASE x[1] \in Buckets /\ CreateBucket(x[1]) /\ Goto(l, "err", i, j)
    <3>1. LoadInv'
      BY <1>0, <2>0, <2>3, GotoKeeps DEF LoadPcs
    <3>2. AccountInv' /\ BucketInv'
      BY <1>0, <2>3, CreateBucketKeeps
    <3> QED BY <1>e, <3>1, <3>2 DEF StoreInv
  <2>4. \/ Goto(l, "bucket", i + 1, 1) /\ UNCHANGED storeVars
        \/ /\ x \in Ids /\ x[1] \in Buckets /\ o.n \in Nat
           /\ PutOk(x, o.n) /\ Goto(l, "put", i, j + 1)
        \/ x[1] \in Buckets /\ CreateBucket(x[1]) /\ Goto(l, "err", i, j)
    BY <1>4, LoadPutCases
  <2> QED BY <2>1, <2>2, <2>3, <2>4
<1> QED BY <1>1, <1>2, <1>3, <1>4

LEMMA NextKeepsStore == StoreInv /\ [Next]_vars => StoreInv'
<1> SUFFICES ASSUME StoreInv, [Next]_vars PROVE StoreInv'
  OBVIOUS
<1>0. AccountInv /\ BucketInv /\ LoadInv /\ EnvInv
  BY DEF StoreInv
<1>1. ASSUME NEW l \in Loads, AddFolder(l) \/ LoadBucket(l) \/ LoadCreate(l) \/ LoadPut(l)
      PROVE  StoreInv'
  BY <1>1, LoadKeepsStore
<1>2. CASE ClearAll
  <2>1. AccountInv' /\ BucketInv'
    BY <1>0, <1>2, UnmovedKeeps DEF ClearAll
  <2>2. LoadInv' /\ EnvInv'
    BY <1>0, <1>2 DEF ClearAll, env, LoadInv, EnvInv, BucketInv
  <2> QED BY <2>1, <2>2 DEF StoreInv
<1>3. CASE ClearNext
  <2>1. PICK b \in clearing : DeleteBucket(b) /\ clearing' = clearing \ {b}
    BY <1>3 DEF ClearNext
  <2>2. AccountInv' /\ BucketInv'
    BY <1>0, <2>1, DeleteBucketKeeps
  <2>3. LoadInv' /\ EnvInv'
    BY <1>0, <1>3, <2>1 DEF ClearNext, LoadInv, EnvInv
  <2> QED BY <2>2, <2>3 DEF StoreInv
<1>4. ASSUME NEW b \in Buckets, ApiCreate(b) PROVE StoreInv'
  <2>1. AccountInv' /\ BucketInv'
    BY <1>0, <1>4, CreateBucketKeeps DEF ApiCreate
  <2>2. LoadInv' /\ EnvInv'
    BY <1>0, <1>4 DEF ApiCreate, env, LoadInv, EnvInv
  <2> QED BY <2>1, <2>2 DEF StoreInv
<1>5. ASSUME NEW b \in Buckets, ApiDeleteBucket(b) PROVE StoreInv'
  <2>1. AccountInv' /\ BucketInv'
    BY <1>0, <1>5, DeleteBucketKeeps DEF ApiDeleteBucket
  <2>2. LoadInv' /\ EnvInv'
    BY <1>0, <1>5 DEF ApiDeleteBucket, LoadInv, EnvInv
  <2> QED BY <2>1, <2>2 DEF StoreInv
<1>6. ASSUME NEW x \in Ids, ApiDeleteObject(x) PROVE StoreInv'
  <2>0. {x} \cap Resident \in SUBSET Resident /\ RemoveObjects({x} \cap Resident)
    BY <1>6 DEF ApiDeleteObject, DeleteObject
  <2>1. AccountInv' /\ Resident' = Resident \ ({x} \cap Resident)
    BY <1>0, <2>0, StoreAssumption, RemoveKeeps
  <2>2. BucketInv'
    BY <1>0, <1>6, <2>1 DEF ApiDeleteObject, DeleteObject, BucketInv
  <2>3. LoadInv' /\ EnvInv'
    BY <1>0, <1>6 DEF ApiDeleteObject, LoadInv, EnvInv
  <2> QED BY <2>1, <2>2, <2>3 DEF StoreInv
<1>7. CASE UNCHANGED vars
  <2>1. UNCHANGED storeVars /\ UNCHANGED <<load, clearing, policy, deleted>>
    BY <1>7 DEF vars, env
  <2>2. AccountInv' /\ BucketInv'
    BY <1>0, <2>1, UnmovedKeeps
  <2>3. LoadInv' /\ EnvInv'
    BY <1>0, <2>1 DEF LoadInv, EnvInv
  <2> QED BY <2>2, <2>3 DEF StoreInv
<1> QED BY <1>1, <1>2, <1>3, <1>4, <1>5, <1>6, <1>7 DEF Next

LEMMA InitStore == Init => StoreInv
<1> SUFFICES ASSUME Init PROVE StoreInv
  OBVIOUS
<1>1. Resident = {} /\ fifo = <<>> /\ used = 0
  BY DEF Init, Resident
<1>2. Elements(fifo) = {} /\ Distinct(fifo) /\ fifo \in Seq(Ids)
  BY <1>1 DEF Elements, Distinct
<1>3. used = Sum(size, Resident) /\ (MaxBytes > 0 => used <= MaxBytes)
  BY <1>1, SumEmpty, StoreAssumption
<1>4. size \in [Ids -> Nat \cup {Absent}]
  BY DEF Init
<1>5. AccountInv
  BY <1>1, <1>2, <1>3, <1>4 DEF AccountInv
<1>6. load \in [Loads -> [pc: LoadPcs, i: Nat, j: Nat]]
  BY DEF Init, LoadPcs
<1>7. LoadInv
  BY <1>6 DEF Init, LoadInv
<1>8. BucketInv /\ EnvInv
  BY <1>1 DEF Init, BucketInv, EnvInv
<1> QED BY <1>5, <1>7, <1>8 DEF StoreInv

\* The inductive invariant of the store.
THEOREM StoreInvariant == Spec => []StoreInv
BY InitStore, NextKeepsStore, PTL DEF Spec

LEMMA ElementsAre == ASSUME NEW T, NEW s \in Seq(T) PROVE ToSet(s) = Elements(s)
BY DEF ToSet, Elements

\* TypeOK: among other things every resident object is in a bucket that exists.
THEOREM StoreTypes == Spec => []TypeOK
<1>1. StoreInv => TypeOK
  <2> SUFFICES ASSUME StoreInv PROVE TypeOK
    OBVIOUS
  <2>1. used \in Nat
    BY ResidentFinite DEF StoreInv
  <2> QED BY <2>1 DEF StoreInv, TypeOK, AccountInv, BucketInv, LoadInv, EnvInv, LoadPcs
<1> QED BY <1>1, StoreInvariant, PTL

\* usedBytes is the sum of the sizes of the resident objects after any sequence of
\* PutObject, DeleteObject, DeleteBucket and evictions.
THEOREM UsedIsExact == Spec => []UsedExact
<1>1. StoreInv => UsedExact
  BY TotalIsSum DEF StoreInv, AccountInv, UsedExact
<1> QED BY <1>1, StoreInvariant, PTL

\* fifoOrder has every resident object exactly once and nothing else.
THEOREM OrderIsExact == Spec => []OrderExact
<1>1. StoreInv => OrderExact
  BY ListCounts, ElementsAre DEF StoreInv, AccountInv, OrderExact
<1> QED BY <1>1, StoreInvariant, PTL

\* The resident objects never hold more than --store-max-bytes.
THEOREM CapacityIsRespected == Spec => []CapacityRespected
<1>1. StoreInv => CapacityRespected
  BY TotalIsSum DEF StoreInv, AccountInv, CapacityRespected
<1> QED BY <1>1, StoreInvariant, PTL

-----------------------------------------------------------------------------
(***************************************************************************)
(* What AddFolder has counted stays.                                       *)
(***************************************************************************)
LoadedInv ==
    policy = "reject" /\ ~deleted =>
        \A l \in Loads : {x \in Counted(l) : x[1] \in Private(l)} \subseteq Resident

\* Counted(l) when AddFolder is at object j of bucket i.
CountedAt(l, i, j) ==
    {x \in Ids : \E p \in 1..Len(Folder[l]) : \E q \in 1..Len(Folder[l][p].objs) :
        /\ x = <<Folder[l][p].b, Folder[l][p].objs[q].k>>
        /\ p < i \/ (p = i /\ q < j)}

LEMMA CountedIs == ASSUME NEW l PROVE Counted(l) = CountedAt(l, load[l].i, load[l].j)
BY DEF Counted, CountedAt

\* A step that leaves what every call has counted, and every object, where it was.
LEMMA NothingLost ==
    ASSUME LoadedInv, Resident \subseteq Resident', UNCHANGED <<policy, deleted>>,
           \A l \in Loads : Counted(l)' \subseteq Counted(l)
    PROVE  LoadedInv'
<1>1. \A l : Private(l)' = Private(l)
  BY DEF Private
<1> QED BY <1>1 DEF LoadedInv

LEMMA GotoCounts ==
    ASSUME LoadInv, NEW l \in Loads, NEW pc, NEW i, NEW j, Goto(l, pc, i, j)
    PROVE  /\ Counted(l)' = CountedAt(l, i, j)
           /\ \A m \in Loads \ {l} : Counted(m)' = Counted(m)
<1>1. load' = [load EXCEPT ![l] = [pc |-> pc, i |-> i, j |-> j]]
  BY DEF Goto
<1>2. load'[l].i = i /\ load'[l].j = j /\ \A m \in Loads \ {l} : load'[m] = load[m]
  BY <1>1 DEF LoadInv
<1> QED BY <1>2 DEF Counted, CountedAt

\* The next object, and the next bucket, of a listing.
LEMMA CountedNext ==
    ASSUME NEW l \in Loads, NEW i \in 1..Len(Folder[l]), NEW j \in Nat, i \in Nat
    PROVE  /\ CountedAt(l, i, j + 1) \subseteq
                CountedAt(l, i, j) \cup {<<Folder[l][i].b, Folder[l][i].objs[j].k>>}
           /\ j > Len(Folder[l][i].objs) => CountedAt(l, i + 1, 1) \subseteq CountedAt(l, i, j)
<1>0. Len(Folder[l]) \in Nat /\ \A p \in 1..Len(Folder[l]) : Len(Folder[l][p].objs) \in Nat
  <2>1. Folder[l] \in Seq([b: Buckets, objs: Seq([k: Keys, n: Nat])])
    BY StoreAssumption DEF Listing
  <2> QED BY <2>1, ListingTypes
<1>1. ASSUME NEW x \in CountedAt(l, i, j + 1)
      PROVE  x \in CountedAt(l, i, j) \cup {<<Folder[l][i].b, Folder[l][i].objs[j].k>>}
  <2>0. PICK p \in 1..Len(Folder[l]) : \E q \in 1..Len(Folder[l][p].objs) :
          /\ x = <<Folder[l][p].b, Folder[l][p].objs[q].k>>
          /\ p < i \/ (p = i /\ q < j + 1)
    BY <1>1 DEF CountedAt
  <2>1. PICK q \in 1..Len(Folder[l][p].objs) :
          /\ x = <<Folder[l][p].b, Folder[l][p].objs[q].k>>
          /\ p < i \/ (p = i /\ q < j + 1)
    BY <2>0
  <2>2. q \in Nat /\ p \in Nat
    BY <1>0
  <2>3. p < i \/ (p = i /\ q < j) \/ (p = i /\ q = j)
    BY <2>1, <2>2
  <2>4. x \in Ids
    BY <1>1 DEF CountedAt
  <2>5. CASE p < i \/ (p = i /\ q < j)
    BY <2>1, <2>4, <2>5 DEF CountedAt
  <2>6. CASE p = i /\ q = j
    BY <2>1, <2>6
  <2> QED BY <2>3, <2>5, <2>6
<1>2. ASSUME j > Len(Folder[l][i].objs), NEW x \in CountedAt(l, i + 1, 1)
      PROVE  x \in CountedAt(l, i, j)
  <2>0. PICK p \in 1..Len(Folder[l]) : \E q \in 1..Len(Folder[l][p].objs) :
          /\ x = <<Folder[l][p].b, Folder[l][p].objs[q].k>>
          /\ p < i + 1 \/ (p = i + 1 /\ q < 1)
    BY <1>2 DEF CountedAt
  <2>1. PICK q \in 1..Len(Folder[l][p].objs) :
          /\ x = <<Folder[l][p].b, Folder[l][p].objs[q].k>>
          /\ p < i + 1 \/ (p = i + 1 /\ q < 1)
    BY <2>0
  <2>2. q \in Nat /\ p \in Nat /\ q >= 1 /\ q <= Len(Folder[l][p].objs)
    BY <1>0
  <2>3. p < i \/ p = i
    BY <2>1, <2>2
  <2>4. p = i => q < j
    BY <1>0, <1>2, <2>2
  <2>5. x \in Ids
    BY <1>2 DEF CountedAt
  <2> QED BY <2>1, <2>3, <2>4, <2>5 DEF CountedAt
<1> QED BY <1>1, <1>2

LEMMA LoadKeepsCounted ==
    ASSUME StoreInv, LoadedInv, NEW l \in Loads,
           AddFolder(l) \/ LoadBucket(l) \/ LoadCreate(l) \/ LoadPut(l)
    PROVE  LoadedInv'
<1>0. AccountInv /\ BucketInv /\ LoadInv
  BY DEF StoreInv
<1>l. /\ load[l].i \in Nat /\ load[l].j \in Nat /\ load[l].i >= 1 /\ load[l].j >= 1
      /\ Len(Folder[l]) \in Nat
      /\ load[l].pc \in {"bucket", "create"} => load[l].j = 1
  BY <1>0, LoadTypes
<1>e. UNCHANGED <<policy, deleted>>
  BY DEF AddFolder, LoadBucket, LoadCreate, LoadPut, env
<1>p. \A m : Private(m)' = Private(m)
  BY DEF Private
<1>c. Counted(l) = CountedAt(l, load[l].i, load[l].j)
  BY CountedIs
<1>1. CASE AddFolder(l)
  <2>1. Resident' = Resident
    BY <1>0, <1>1, UnmovedKeeps DEF AddFolder
  <2>2. CountedAt(l, 1, 1) = {}
    BY DEF CountedAt
  <2>3. \A m \in Loads : Counted(m)' \subseteq Counted(m)
    BY <1>0, <1>1, <2>2, GotoCounts DEF AddFolder
  <2> QED BY <1>e, <2>1, <2>3, NothingLost
<1>2. CASE LoadBucket(l)
  <2>j. load[l].j = 1
    BY <1>l, <1>2 DEF LoadBucket
  <2>1. CASE /\ Goto(l, "ok", load[l].i, 1) \/ Goto(l, "err", load[l].i, 1)
             /\ UNCHANGED storeVars
    <3>1. Resident' = Resident
      BY <1>0, <2>1, UnmovedKeeps
    <3>2. \A m \in Loads : Counted(m)' \subseteq Counted(m)
      BY <1>0, <1>c, <2>j, <2>1, GotoCounts
    <3> QED BY <1>e, <3>1, <3>2, NothingLost
  <2>2. CASE /\ load[l].i <= Len(Folder[l]) /\ DeleteBucket(Bucket(l))
             /\ Goto(l, "create", load[l].i, 1)
    <3>1. Resident' = {x \in Resident : x[1] # Folder[l][load[l].i].b}
      BY <1>0, <2>2, DeleteBucketKeeps DEF Bucket
    <3>2. \A m \in Loads : Counted(m)' = Counted(m)
      BY <1>0, <1>c, <2>j, <2>2, GotoCounts
    <3>3. ASSUME NEW m \in Loads, NEW x \in Counted(m), x[1] \in Private(m)
          PROVE  x[1] # Folder[l][load[l].i].b
      <4>0. PICK p \in 1..Len(Folder[m]) : \E q \in 1..Len(Folder[m][p].objs) :
              /\ x = <<Folder[m][p].b, Folder[m][p].objs[q].k>>
              /\ p < load[m].i \/ (p = load[m].i /\ q < load[m].j)
        BY <3>3 DEF Counted
      <4>1. PICK q \in 1..Len(Folder[m][p].objs) :
              /\ x = <<Folder[m][p].b, Folder[m][p].objs[q].k>>
              /\ p < load[m].i \/ (p = load[m].i /\ q < load[m].j)
        BY <4>0
      <4>2. SUFFICES ASSUME x[1] = Folder[l][load[l].i].b PROVE FALSE
        OBVIOUS
      <4>3. load[l].i \in 1..Len(Folder[l])
        BY <1>l, <2>2
      <4>4. x[1] = Folder[m][p].b
        BY <4>1
      <4>5. m = l /\ p = load[l].i
        BY <3>3, <4>2, <4>3, <4>4 DEF Private
      <4>6. q \in Nat /\ q >= 1
        <5>1. Len(Folder[m][p].objs) \in Nat
          BY ListingTypes
        <5> QED BY <5>1
      <4> QED BY <4>1, <4>5, <4>6, <2>j, <1>l
    <3> QED BY <1>e, <1>p, <3>1, <3>2, <3>3 DEF LoadedInv
  <2> QED BY <1>2, <2>1, <2>2 DEF LoadBucket
<1>3. CASE LoadCreate(l)
  <2>0. load[l].i \in 1..Len(Folder[l]) /\ load[l].j = 1
    BY <1>0, <1>l, <1>3, LoadTypes DEF LoadCreate
  <2>1. Resident' = Resident
    BY <1>3 DEF LoadCreate, CreateBucket, Resident
  <2>2. \A m \in Loads : Counted(m)' \subseteq Counted(m)
    BY <1>0, <1>c, <1>3, <2>0, GotoCounts DEF LoadCreate
  <2> QED BY <1>e, <2>1, <2>2, NothingLost
<1>4. CASE LoadPut(l)
  <2> DEFINE i == load[l].i
             j == load[l].j
             o == Folder[l][i].objs[j]
             x == <<Folder[l][i].b, o.k>>
  <2>0. i \in 1..Len(Folder[l]) /\ i \in Nat /\ j \in Nat /\ j >= 1
    BY <1>4, LoadPutCases
  <2>n. /\ CountedAt(l, i, j + 1) \subseteq CountedAt(l, i, j) \cup {x}
        /\ j > Len(Folder[l][i].objs) => CountedAt(l, i + 1, 1) \subseteq CountedAt(l, i, j)
    BY <2>0, CountedNext
  <2>c. Counted(l) = CountedAt(l, i, j)
    BY <1>c
  <2>1. CASE /\ j > Len(Folder[l][i].objs) /\ Goto(l, "bucket", i + 1, 1)
             /\ UNCHANGED storeVars
    <3>1. Resident' = Resident
      BY <1>0, <2>1, UnmovedKeeps
    <3>2. Counted(l)' = CountedAt(l, i + 1, 1) /\ \A m \in Loads \ {l} : Counted(m)' = Counted(m)
      BY <1>0, <2>1, GotoCounts
    <3>3. \A m \in Loads : Counted(m)' \subseteq Counted(m)
      BY <2>n, <2>c, <2>1, <3>2
    <3> QED BY <1>e, <3>1, <3>3, NothingLost
  <2>2. CASE /\ x \in Ids /\ o.n \in Nat
             /\ PutOk(x, o.n) /\ Goto(l, "put", i, j + 1)
    <3>1. x \in Resident' /\ (policy = "reject" => Resident \subseteq Resident')
      BY <1>0, <2>2, StoreAssumption, PutOkKeeps
    <3>2. Counted(l)' = CountedAt(l, i, j + 1) /\ \A m \in Loads \ {l} : Counted(m)' = Counted(m)
      BY <1>0, <2>2, GotoCounts
    <3>3. \A m \in Loads : Counted(m)' \subseteq Counted(m) \cup {x}
      BY <2>n, <2>c, <3>2
    <3> HIDE DEF x
    <3> QED BY <1>e, <1>p, <3>1, <3>3 DEF LoadedInv
  <2>3. CASE CreateBucket(x[1]) /\ Goto(l, "err", i, j)
    <3>1. Resident' = Resident
      BY <2>3 DEF CreateBucket, Resident
    <3>2. \A m \in Loads : Counted(m)' \subseteq Counted(m)
      BY <1>0, <2>c, <2>3, GotoCounts
    <3> QED BY <1>e, <3>1, <3>2, NothingLost
  <2>4. \/ j > Len(Folder[l][i].objs) /\ Goto(l, "bucket", i + 1, 1) /\ UNCHANGED storeVars
        \/ /\ x \in Ids /\ o.n \in Nat
           /\ PutOk(x, o.n) /\ Goto(l, "put", i, j + 1)
        \/ CreateBucket(x[1]) /\ Goto(l, "err", i, j)
    BY <1>4, LoadPutCases
  <2> QED BY <2>1, <2>2, <2>3, <2>4
<1> QED BY <1>1, <1>2, <1>3, <1>4

LEMMA NextKeepsCounted == StoreInv /\ LoadedInv /\ [Next]_vars => LoadedInv'
<1> SUFFICES ASSUME StoreInv, LoadedInv, [Next]_vars PROVE LoadedInv'
  OBVIOUS
<1>1. ASSUME NEW l \in Loads, AddFolder(l) \/ LoadBucket(l) \/ LoadCreate(l) \/ LoadPut(l)
      PROVE  LoadedInv'
  BY <1>1, LoadKeepsCounted
<1>2. CASE \/ ClearAll \/ UNCHANGED vars
           \/ \E b \in Buckets : ApiCreate(b)
  <2>1. UNCHANGED <<size, load, policy, deleted>>
    BY <1>2 DEF ClearAll, ApiCreate, CreateBucket, vars, storeVars, env
  <2>2. Resident' = Resident
    BY <2>1 DEF Resident
  <2>3. \A l \in Loads : Counted(l)' = Counted(l)
    BY <2>1 DEF Counted
  <2> QED BY <2>1, <2>2, <2>3, NothingLost
<1>3. CASE \/ ClearNext
           \/ \E b \in Buckets : ApiDeleteBucket(b)
           \/ \E x \in Ids : ApiDeleteObject(x)
  <2>1. deleted' = TRUE
    BY <1>3 DEF ClearNext, ApiDeleteBucket, ApiDeleteObject
  <2> QED BY <2>1 DEF LoadedInv
<1> QED BY <1>1, <1>2, <1>3 DEF Next

\* With the reject policy an object that AddFolder has counted stays resident until
\* somebody deletes, for any number of concurrent AddFolder calls and any listings:
\* PutObject of another call never takes its place, and only an entry that names the
\* same bucket replaces it.
THEOREM LoadedStays == Spec => []LoadedResident
<1>1. Init => LoadedInv
  <2> SUFFICES ASSUME Init PROVE LoadedInv
    OBVIOUS
  <2>1. \A l \in Loads : load[l].i = 1 /\ load[l].j = 1
    BY DEF Init
  <2>2. ASSUME NEW l \in Loads PROVE CountedAt(l, 1, 1) = {}
    BY DEF CountedAt
  <2>3. \A l \in Loads : Counted(l) = {}
    BY <2>1, <2>2, CountedIs
  <2> QED BY <2>3 DEF LoadedInv
<1>2. LoadedInv => LoadedResident
  BY DEF LoadedInv, LoadedResident
<1> QED BY <1>1, <1>2, StoreInvariant, NextKeepsCounted, PTL DEF Spec

-----------------------------------------------------------------------------
(***************************************************************************)
(* The oldest objects go first.                                            *)
(***************************************************************************)
LEMMA AgeOf ==
    ASSUME AccountInv, NEW i \in 1..Len(fifo)
    PROVE  Age(fifo[i]) = i
<1>1. \A j \in 1..Len(fifo) : fifo[j] = fifo[i] => j = i
  BY DEF AccountInv, Distinct
<1> QED BY <1>1 DEF Age

\* An earlier candidate of ensureCapacityLocked is an older object.
LEMMA OthersByAge ==
    ASSUME AccountInv, NEW x, NEW a \in 1..Len(Others(x)), NEW b \in 1..Len(Others(x)), a < b
    PROVE  Age(Others(x)[a]) < Age(Others(x)[b])
<1>0. fifo \in Seq(Ids)
  BY DEF AccountInv
<1>1. PICK h \in [1..Len(Others(x)) -> 1..Len(fifo)] :
        /\ \A i, j \in 1..Len(Others(x)) : i < j => h[i] < h[j]
        /\ \A i \in 1..Len(Others(x)) : Others(x)[i] = fifo[h[i]]
  <2>1. Picks(Others(x), fifo, {x}, Len(fifo))
    BY <1>0, DropPicks DEF Others
  <2> QED BY <2>1 DEF Picks
<1>2. h[a] < h[b] /\ h[a] \in 1..Len(fifo) /\ h[b] \in 1..Len(fifo)
  BY <1>1
<1>3. Others(x)[a] = fifo[h[a]] /\ Others(x)[b] = fifo[h[b]]
  BY <1>1
<1> QED BY <1>2, <1>3, AgeOf

LEMMA EvictsOldest ==
    ASSUME AccountInv, NEW x, NEW n, NEW S, Evicts(x, n, S),
           NEW y \in S, NEW z \in Resident \ (S \cup {x})
    PROVE  Age(y) < Age(z)
<1>1. PICK i \in 1..Len(Others(x)) : S = Oldest(x, i)
  BY DEF Evicts
<1>2. /\ Others(x) \in Seq(Ids)
      /\ S = {Others(x)[k] : k \in 1..i}
  <2>1. i \in 0..Len(Others(x))
    OBVIOUS
  <2> QED BY <1>1, <2>1, OldestAre
<1>3. PICK a \in 1..i : y = Others(x)[a]
  BY <1>2
<1>4. Elements(Others(x)) = Resident \ {x}
  BY DropElements DEF Others, AccountInv
<1>5. PICK b \in 1..Len(Others(x)) : z = Others(x)[b]
  BY <1>4 DEF Elements
<1>6. b \notin 1..i
  BY <1>2, <1>5
<1>7. a \in 1..Len(Others(x)) /\ a < b
  <2>1. Len(Others(x)) \in Nat
    BY <1>2
  <2> QED BY <2>1, <1>6
<1> QED BY <1>3, <1>5, <1>7, OthersByAge

\* What OldestEvicted says of one call.
EvictedWell(l) ==
    load[l].pc = "put" /\ load'[l] # load[l] =>
       LET cur == IF load[l].j <= Len(Objs(l))
                  THEN {<<Bucket(l), Objs(l)[load[l].j].k>>} ELSE {}
           old  == ToSet(fifo) \ cur
           kept == ToSet(fifo') \ cur
       IN /\ kept \subseteq old
          /\ \A x \in old \ kept, y \in kept : Age(x) < Age(y)
          /\ load'[l].pc = "err" => size' = size

\* PutObject replaces x itself and evicts older objects only.
LEMMA PutEvictsOldest ==
    ASSUME AccountInv, NEW x \in Ids, NEW n \in Nat, PutOk(x, n)
    PROVE  /\ Resident' \ {x} \subseteq Resident \ {x}
           /\ \A y \in (Resident \ {x}) \ (Resident' \ {x}), z \in Resident' \ {x} : Age(y) < Age(z)
<1>0. ASSUME NEW S \in SUBSET Resident, Insert(x, n, S)
      PROVE  Resident' \ {x} = Resident \ (S \cup {x})
  BY <1>0 DEF Insert, Resident, Absent
<1>1. CASE Insert(x, n, {})
  <2>1. Resident' \ {x} = Resident \ ({} \cup {x})
    BY <1>0, <1>1
  <2> QED BY <2>1
<1>2. ASSUME NEW S \in SUBSET Resident, Evicts(x, n, S), Insert(x, n, S)
      PROVE  /\ Resident' \ {x} \subseteq Resident \ {x}
             /\ \A y \in (Resident \ {x}) \ (Resident' \ {x}), z \in Resident' \ {x} : Age(y) < Age(z)
  <2>1. Resident' \ {x} = Resident \ (S \cup {x})
    BY <1>0, <1>2
  <2>2. (Resident \ {x}) \ (Resident' \ {x}) \subseteq S
    BY <2>1
  <2> QED BY <1>2, <2>1, <2>2, EvictsOldest
<1> QED BY <1>1, <1>2 DEF PutOk

LEMMA LoadPutEvicts ==
    ASSUME StoreInv, StoreInv', NEW l \in Loads, LoadPut(l)
    PROVE  EvictedWell(l)
<1> DEFINE i == load[l].i
           j == load[l].j
           o == Folder[l][i].objs[j]
           x == <<Folder[l][i].b, o.k>>
           cur == IF load[l].j <= Len(Objs(l))
                  THEN {<<Bucket(l), Objs(l)[load[l].j].k>>} ELSE {}
<1>0. AccountInv /\ AccountInv' /\ load \in [Loads -> [pc: LoadPcs, i: Nat, j: Nat]]
  BY DEF StoreInv, LoadInv
<1>1. ToSet(fifo) = Resident /\ ToSet(fifo') = Resident'
  <2>1. fifo \in Seq(Ids) /\ Elements(fifo) = Resident
    BY <1>0 DEF AccountInv
  <2>2. fifo' \in Seq(Ids) /\ Elements(fifo') = Resident'
    BY <1>0 DEF AccountInv
  <2> QED BY <2>1, <2>2, ElementsAre
<1>2. SUFFICES /\ Resident' \ cur \subseteq Resident \ cur
               /\ \A y \in (Resident \ cur) \ (Resident' \ cur), z \in Resident' \ cur : Age(y) < Age(z)
               /\ load'[l].pc = "err" => size' = size
  BY <1>1 DEF EvictedWell
<1>3. i \in 1..Len(Folder[l]) /\ i \in Nat /\ j \in Nat /\ Len(Folder[l][i].objs) \in Nat
  BY LoadPutCases
<1>4. cur = IF j <= Len(Folder[l][i].objs) THEN {x} ELSE {}
  BY DEF Objs, Bucket
<1>g. ASSUME NEW pc, NEW a, NEW b, Goto(l, pc, a, b) PROVE load'[l].pc = pc
  BY <1>0, <1>g DEF Goto
<1>5. CASE Goto(l, "bucket", i + 1, 1) /\ UNCHANGED storeVars
  <2>1. Resident' = Resident
    BY <1>5 DEF storeVars, Resident
  <2>2. load'[l].pc = "bucket"
    BY <1>5, <1>g
  <2> QED BY <2>1, <2>2
<1>6. CASE /\ j \in 1..Len(Folder[l][i].objs) /\ x \in Ids /\ o.n \in Nat
           /\ PutOk(x, o.n) /\ Goto(l, "put", i, j + 1)
  <2>0. j <= Len(Folder[l][i].objs)
    <3>1. j \in 1..Len(Folder[l][i].objs)
      BY <1>6
    <3> HIDE DEF i, j
    <3> QED BY <3>1, <1>3
  <2>1. cur = {x}
    BY <1>4, <2>0
  <2>2. load'[l].pc = "put"
    BY <1>6, <1>g
  <2>3. /\ Resident' \ {x} \subseteq Resident \ {x}
        /\ \A y \in (Resident \ {x}) \ (Resident' \ {x}), z \in Resident' \ {x} : Age(y) < Age(z)
    BY <1>0, <1>6, PutEvictsOldest
  <2> HIDE DEF cur, x
  <2> QED BY <2>1, <2>2, <2>3
<1>7. CASE CreateBucket(x[1])
  <2>1. Resident' = Resident /\ size' = size
    BY <1>7 DEF CreateBucket, Resident
  <2> QED BY <2>1
<1>8. \/ Goto(l, "bucket", i + 1, 1) /\ UNCHANGED storeVars
      \/ /\ j \in 1..Len(Folder[l][i].objs) /\ x \in Ids /\ o.n \in Nat
         /\ PutOk(x, o.n) /\ Goto(l, "put", i, j + 1)
      \/ CreateBucket(x[1])
  BY LoadPutCases
<1> QED BY <1>5, <1>6, <1>7, <1>8

\* A PutObject of the loader (ensureCapacityLocked) evicts only objects that are
\* older than every one it leaves, and a failed one touches no object, for any
\* limit and any contents of the store.
THEOREM OldestGoFirst == Spec => OldestEvicted
<1>1. StoreInv /\ StoreInv' /\ [Next]_vars => [\A l \in Loads : EvictedWell(l)]_vars
  <2> SUFFICES ASSUME StoreInv, StoreInv', [Next]_vars, NEW l \in Loads
               PROVE  EvictedWell(l) \/ UNCHANGED vars
    OBVIOUS
  <2>0. load \in [Loads -> [pc: LoadPcs, i: Nat, j: Nat]]
    BY DEF StoreInv, LoadInv
  <2>1. CASE LoadPut(l)
    BY <2>1, LoadPutEvicts
  <2>2. ASSUME NEW m \in Loads, AddFolder(m) \/ LoadBucket(m) \/ LoadCreate(m) \/ LoadPut(m),
               m # l
        PROVE  EvictedWell(l)
    <3>1. load'[l] = load[l]
      BY <2>0, <2>2 DEF AddFolder, LoadBucket, LoadCreate, LoadPut, Goto
    <3> QED BY <3>1 DEF EvictedWell
  <2>3. CASE AddFolder(l) \/ LoadBucket(l) \/ LoadCreate(l)
    BY <2>3 DEF AddFolder, LoadBucket, LoadCreate, EvictedWell
  <2>4. CASE \/ ClearAll \/ ClearNext
             \/ \E b \in Buckets : ApiCreate(b) \/ ApiDeleteBucket(b)
             \/ \E x \in Ids : ApiDeleteObject(x)
    <3>1. load' = load
      BY <2>4 DEF ClearAll, ClearNext, ApiCreate, ApiDeleteBucket, ApiDeleteObject
    <3> QED BY <3>1 DEF EvictedWell
  <2> QED BY <2>1, <2>2, <2>3, <2>4 DEF Next
<1>2. StoreInv /\ [Next]_vars => StoreInv'
  BY NextKeepsStore
<1>3. [\A l \in Loads : EvictedWell(l)]_vars <=>
        [\A l \in Loads :
          load[l].pc = "put" /\ load'[l] # load[l] =>
             LET cur == IF load[l].j <= Len(Objs(l))
                        THEN {<<Bucket(l), Objs(l)[load[l].j].k>>} ELSE {}
                 old  == ToSet(fifo) \ cur
                 kept == ToSet(fifo') \ cur
             IN /\ kept \subseteq old
                /\ \A x \in old \ kept, y \in kept : Age(x) < Age(y)
                /\ load'[l].pc = "err" => size' = size]_vars
  BY DEF EvictedWell
<1> QED BY <1>1, <1>2, <1>3, StoreInvariant, PTL DEF Spec, OldestEvicted
=============================================================================
