----------------------------- MODULE SumProofs -----------------------------
(***************************************************************************)
(* What MapThenSumSet computes: the sum over a finite set does not depend  *)
(* on the order in which it is taken, so that it can be followed as the    *)
(* set grows by one element.  The inductions are on a least                *)
(* counterexample, a number of elements.                                   *)
(***************************************************************************)
EXTENDS Integers, FiniteSets, FiniteSetsExt, FiniteSetTheorems, WellFoundedInduction, TLAPS

\* The element that the fold takes out of a set first.
Chosen(s) == CHOOSE x \in s : TRUE

\* The function g, on sets, that the fold of f computes.
IsFold(g, f, Sets) ==
    g = [s \in Sets |-> IF s = {} THEN 0 ELSE f[Chosen(s)] + g[s \ {Chosen(s)}]]

\* The sum of the values of f over S.
Sum(f, S) == MapThenSumSet(LAMBDA x : f[x], S)

\* A set of numbers has a least one.
LEMMA LeastNumber ==
  ASSUME NEW C, C \subseteq Nat, C # {}
  PROVE  \E m \in C : \A n \in C : m <= n
<1>1. PICK m \in C : \A n \in C : ~(<<n, m>> \in OpToRel(<, Nat))
  BY NatLessThanWellFounded, WFMin
<1>2. \A n \in C : m <= n
  <2> TAKE n \in C
  <2>1. n \in Nat /\ m \in Nat
    OBVIOUS
  <2>2. ~(n < m)
    BY <1>1, <2>1 DEF OpToRel
  <2> QED
    BY <2>1, <2>2
<1> QED
  BY <1>2

\* The first element of a set is in it, and the rest is smaller.
LEMMA ChosenIn ==
  ASSUME NEW s, IsFiniteSet(s), s # {}
  PROVE  /\ Chosen(s) \in s
         /\ IsFiniteSet(s \ {Chosen(s)})
         /\ Cardinality(s) \in Nat \ {0}
         /\ Cardinality(s \ {Chosen(s)}) = Cardinality(s) - 1
<1>1. Chosen(s) \in s
  BY DEF Chosen
<1>2. Cardinality(s) \in Nat /\ Cardinality(s) # 0
  BY FS_CardinalityType, FS_EmptySet
<1> QED
  BY <1>1, <1>2, FS_RemoveElement

\* There is such a function.
LEMMA FoldExists ==
  ASSUME NEW S, IsFiniteSet(S), NEW f
  PROVE  \E g : IsFold(g, f, SUBSET S)
<1> DEFINE Small(n) == {s \in SUBSET S : Cardinality(s) <= n}
           Bad == {n \in Nat : ~\E g : IsFold(g, f, Small(n))}
<1>0. \A s \in SUBSET S : IsFiniteSet(s) /\ Cardinality(s) \in Nat
  BY FS_Subset, FS_CardinalityType
<1>1. Bad = {}
  <2> SUFFICES ASSUME Bad # {} PROVE FALSE
    OBVIOUS
  <2>1. PICK n \in Bad : \A m \in Bad : n <= m
    BY LeastNumber
  <2>2. CASE n = 0
    <3> DEFINE g == [s \in Small(0) |-> 0]
    <3>1. \A s \in Small(0) : s = {}
      <4> TAKE s \in Small(0)
      <4>1. Cardinality(s) = 0 /\ IsFiniteSet(s)
        BY <1>0
      <4> QED
        BY <4>1, FS_EmptySet
    <3>2. IsFold(g, f, Small(0))
      BY <3>1 DEF IsFold
    <3> QED
      BY <2>1, <2>2, <3>2
  <2>3. CASE n # 0
    <3> DEFINE m == n - 1
    <3>1. m \in Nat /\ m \notin Bad
      <4>1. n \in Nat /\ m \in Nat /\ ~(n <= m)
        BY <2>1, <2>3
      <4> HIDE DEF m, Bad
      <4> QED
        BY <2>1, <4>1
    <3>2. PICK g : IsFold(g, f, Small(m))
      BY <3>1
    <3> DEFINE h == [s \in Small(n) |->
                       IF s = {} THEN 0 ELSE f[Chosen(s)] + g[s \ {Chosen(s)}]]
    <3>3. ASSUME NEW s \in Small(n), s # {}
          PROVE  s \ {Chosen(s)} \in Small(n) /\ s \ {Chosen(s)} \in Small(m)
      BY <1>0, <2>1, <3>3, ChosenIn
    <3>4. \A s \in Small(m) : h[s] = g[s]
      <4> TAKE s \in Small(m)
      <4>1. s \in Small(n)
        BY <1>0, <2>1
      <4> QED
        BY <3>2, <4>1 DEF IsFold
    <3>5. IsFold(h, f, Small(n))
      BY <3>3, <3>4 DEF IsFold
    <3> QED
      BY <2>1, <3>5
  <2> QED
    BY <2>2, <2>3
<1>2. Small(Cardinality(S)) = SUBSET S
  BY <1>0, FS_Subset
<1>3. Cardinality(S) \in Nat
  BY <1>0
<1> QED
  BY <1>1, <1>2, <1>3

\* And only one, whatever it is a fold over: sums over the subsets of S are
\* the same as seen from a larger set, and for functions that agree on S.
LEMMA FoldUnique ==
  ASSUME NEW S, NEW T, NEW U, IsFiniteSet(S), S \subseteq T, S \subseteq U,
         NEW f, NEW e, \A x \in S : f[x] = e[x],
         NEW g, NEW h, IsFold(g, f, SUBSET T), IsFold(h, e, SUBSET U)
  PROVE  g[S] = h[S]
<1> DEFINE Bad == {n \in Nat : \E s \in SUBSET S : Cardinality(s) = n /\ g[s] # h[s]}
<1>0. \A s \in SUBSET S : IsFiniteSet(s) /\ Cardinality(s) \in Nat
  BY FS_Subset, FS_CardinalityType
<1>1. Bad = {}
  <2> SUFFICES ASSUME Bad # {} PROVE FALSE
    OBVIOUS
  <2>1. PICK n \in Bad : \A m \in Bad : n <= m
    BY LeastNumber
  <2>2. PICK s \in SUBSET S : Cardinality(s) = n /\ g[s] # h[s]
    BY <2>1
  <2>3. s \in SUBSET T /\ s \in SUBSET U
    OBVIOUS
  <2>4. s # {}
    BY <2>2, <2>3 DEF IsFold
  <2> DEFINE r == s \ {Chosen(s)}
  <2>5. Chosen(s) \in s /\ Cardinality(r) = n - 1 /\ n \in Nat \ {0}
    BY <1>0, <2>2, <2>4, ChosenIn
  <2>6. n - 1 \notin Bad /\ n - 1 \in Nat
    BY <2>1, <2>5
  <2>7. g[r] = h[r]
    BY <2>5, <2>6
  <2>8. g[s] = f[Chosen(s)] + g[r] /\ h[s] = e[Chosen(s)] + h[r]
    BY <2>3, <2>4 DEF IsFold
  <2> QED
    BY <2>2, <2>5, <2>7, <2>8
<1> QED
  BY <1>0, <1>1

\* The library's sum is that of the fold.
LEMMA SumIsFold ==
  ASSUME NEW S, IsFiniteSet(S), NEW f
  PROVE  \E g : IsFold(g, f, SUBSET S) /\ Sum(f, S) = g[S]
<1> DEFINE iter == CHOOSE g : IsFold(g, f, SUBSET S)
<1>1. IsFold(iter, f, SUBSET S)
  BY FoldExists
<1>2. Sum(f, S) = iter[S]
  BY DEF Sum, MapThenSumSet, MapThenFoldSet, IsFold, Chosen
<1> QED
  BY <1>1, <1>2

\* Sums of integers are integers; the sum over no element is 0.
LEMMA SumType ==
  ASSUME NEW S, IsFiniteSet(S), NEW f \in [S -> Int]
  PROVE  Sum(f, S) \in Int
<1>1. PICK g : IsFold(g, f, SUBSET S) /\ Sum(f, S) = g[S]
  BY SumIsFold
<1> DEFINE Bad == {n \in Nat : \E s \in SUBSET S : Cardinality(s) = n /\ g[s] \notin Int}
<1>0. \A s \in SUBSET S : IsFiniteSet(s) /\ Cardinality(s) \in Nat
  BY FS_Subset, FS_CardinalityType
<1>2. Bad = {}
  <2> SUFFICES ASSUME Bad # {} PROVE FALSE
    OBVIOUS
  <2>1. PICK n \in Bad : \A m \in Bad : n <= m
    BY LeastNumber
  <2>2. PICK s \in SUBSET S : Cardinality(s) = n /\ g[s] \notin Int
    BY <2>1
  <2>3. s # {}
    BY <1>1, <2>2 DEF IsFold
  <2> DEFINE r == s \ {Chosen(s)}
  <2>4. Chosen(s) \in s /\ Cardinality(r) = n - 1 /\ n \in Nat \ {0}
    BY <1>0, <2>2, <2>3, ChosenIn
  <2>5. n - 1 \notin Bad /\ n - 1 \in Nat
    BY <2>1, <2>4
  <2>6. g[r] \in Int
    BY <2>4, <2>5
  <2>7. g[s] = f[Chosen(s)] + g[r]
    BY <1>1, <2>3 DEF IsFold
  <2> QED
    BY <2>2, <2>4, <2>6, <2>7
<1> QED
  BY <1>0, <1>1, <1>2

\* Nothing adds up to zero.
LEMMA SumEmpty == ASSUME NEW f PROVE Sum(f, {}) = 0
<1>1. PICK g : IsFold(g, f, SUBSET {}) /\ Sum(f, {}) = g[{}]
  BY SumIsFold, FS_EmptySet
<1> QED
  BY <1>1 DEF IsFold

\* Only the values on S matter.
LEMMA SumSame ==
  ASSUME NEW S, IsFiniteSet(S), NEW f, NEW e, \A x \in S : f[x] = e[x]
  PROVE  Sum(f, S) = Sum(e, S)
<1>1. PICK g : IsFold(g, f, SUBSET S) /\ Sum(f, S) = g[S]
  BY SumIsFold
<1>2. PICK h : IsFold(h, e, SUBSET S) /\ Sum(e, S) = h[S]
  BY SumIsFold
<1>3. g[S] = h[S]
  BY <1>1, <1>2, FoldUnique
<1> QED
  BY <1>1, <1>2, <1>3

\* The fold takes its first element.
LEMMA SumFirst ==
  ASSUME NEW S, IsFiniteSet(S), S # {}, NEW f
  PROVE  Sum(f, S) = f[Chosen(S)] + Sum(f, S \ {Chosen(S)})
<1> DEFINE R == S \ {Chosen(S)}
<1>1. IsFiniteSet(R) /\ R \subseteq S
  BY ChosenIn
<1>2. PICK g : IsFold(g, f, SUBSET S) /\ Sum(f, S) = g[S]
  BY SumIsFold
<1>3. PICK h : IsFold(h, f, SUBSET R) /\ Sum(f, R) = h[R]
  BY <1>1, SumIsFold
<1>4. g[R] = h[R]
  <2> HIDE DEF R
  <2>1. R \subseteq R /\ \A x \in R : f[x] = f[x]
    OBVIOUS
  <2> QED
    BY <1>1, <1>2, <1>3, <2>1, FoldUnique
<1>5. g[S] = f[Chosen(S)] + g[R]
  BY <1>2 DEF IsFold
<1> QED
  BY <1>2, <1>3, <1>4, <1>5

\* It could have taken any other first.
LEMMA SumRemove ==
  ASSUME NEW S, IsFiniteSet(S), NEW f \in [S -> Int], NEW x \in S
  PROVE  Sum(f, S) = f[x] + Sum(f, S \ {x})
<1> DEFINE Holds(s, y) == Sum(f, s) = f[y] + Sum(f, s \ {y})
           Bad == {n \in Nat : \E s \in SUBSET S : Cardinality(s) = n
                                   /\ \E y \in s : ~Holds(s, y)}
<1>0. \A s \in SUBSET S : IsFiniteSet(s) /\ Cardinality(s) \in Nat
  BY FS_Subset, FS_CardinalityType
<1>t. ASSUME NEW s \in SUBSET S PROVE Sum(f, s) \in Int
  <2> DEFINE e == [y \in s |-> f[y]]
  <2>1. e \in [s -> Int] /\ IsFiniteSet(s)
    BY <1>0
  <2>2. Sum(e, s) \in Int
    BY <2>1, SumType
  <2>3. Sum(f, s) = Sum(e, s)
    BY <2>1, SumSame
  <2> QED
    BY <2>2, <2>3
<1>1. Bad = {}
  <2> SUFFICES ASSUME Bad # {} PROVE FALSE
    OBVIOUS
  <2>1. PICK n \in Bad : \A m \in Bad : n <= m
    BY LeastNumber
  <2>2. PICK s \in SUBSET S : Cardinality(s) = n /\ \E y \in s : ~Holds(s, y)
    BY <2>1
  <2>3. PICK y \in s : ~Holds(s, y)
    BY <2>2
  <2> HIDE DEF Holds
  <2> DEFINE c == Chosen(s)
             r == s \ {c}
             q == s \ {y}
             p == s \ {c, y}
  <2>4. c \in s /\ Cardinality(r) = n - 1 /\ n \in Nat \ {0}
    BY <1>0, <2>2, ChosenIn
  <2>5. Cardinality(q) = n - 1
    BY <1>0, <2>2, FS_RemoveElement
  <2>6. n - 1 \notin Bad /\ n - 1 \in Nat
    <3>1. n - 1 \in Nat /\ n \in Nat /\ ~(n <= n - 1)
      BY <2>4
    <3> HIDE DEF Bad
    <3> QED
      BY <2>1, <3>1
  <2>7. Holds(s, c)
    BY <1>0, <2>2, SumFirst DEF Holds
  <2>8. c # y
    BY <2>3, <2>7
  <2>9. Holds(r, y) /\ Holds(q, c)
    <3>1. r \in SUBSET S /\ q \in SUBSET S /\ y \in r /\ c \in q
      BY <2>4, <2>8
    <3> QED
      BY <2>4, <2>5, <2>6, <3>1
  <2>10. r \ {y} = p /\ q \ {c} = p
    OBVIOUS
  <2>11. f[c] \in Int /\ f[y] \in Int /\ Sum(f, p) \in Int
    BY <1>t, <2>4
  <2> HIDE DEF c, r, q, p
  <2>12. Sum(f, r) = f[y] + Sum(f, p) /\ Sum(f, q) = f[c] + Sum(f, p)
    BY <2>9, <2>10 DEF Holds
  <2>13. Sum(f, s) = f[c] + Sum(f, r)
    BY <2>7 DEF Holds, r
  <2>14. Sum(f, s) = f[y] + Sum(f, q)
    BY <2>11, <2>12, <2>13
  <2> QED
    BY <2>3, <2>14 DEF Holds, q
<1> QED
  BY <1>0, <1>1

\* One element more adds its value.
LEMMA SumAdd ==
  ASSUME NEW S, IsFiniteSet(S), NEW x, x \notin S, NEW f \in [S \cup {x} -> Int]
  PROVE  Sum(f, S \cup {x}) = f[x] + Sum(f, S)
<1>1. IsFiniteSet(S \cup {x})
  BY FS_AddElement
<1>2. (S \cup {x}) \ {x} = S /\ x \in S \cup {x}
  OBVIOUS
<1>3. Sum(f, S \cup {x}) = f[x] + Sum(f, (S \cup {x}) \ {x})
  BY <1>1, <1>2, SumRemove
<1> QED
  BY <1>2, <1>3

\* A sum of naturals is a natural.
LEMMA SumNat ==
  ASSUME NEW S, IsFiniteSet(S), NEW f \in [S -> Nat]
  PROVE  Sum(f, S) \in Nat
<1>1. PICK g : IsFold(g, f, SUBSET S) /\ Sum(f, S) = g[S]
  BY SumIsFold
<1> DEFINE Bad == {n \in Nat : \E s \in SUBSET S : Cardinality(s) = n /\ g[s] \notin Nat}
<1>0. \A s \in SUBSET S : IsFiniteSet(s) /\ Cardinality(s) \in Nat
  BY FS_Subset, FS_CardinalityType
<1>2. Bad = {}
  <2> SUFFICES ASSUME Bad # {} PROVE FALSE
    OBVIOUS
  <2>1. PICK n \in Bad : \A m \in Bad : n <= m
    BY LeastNumber
  <2>2. PICK s \in SUBSET S : Cardinality(s) = n /\ g[s] \notin Nat
    BY <2>1
  <2>3. s # {}
    BY <1>1, <2>2 DEF IsFold
  <2> DEFINE r == s \ {Chosen(s)}
  <2>4. Chosen(s) \in s /\ Cardinality(r) = n - 1 /\ n \in Nat \ {0}
    BY <1>0, <2>2, <2>3, ChosenIn
  <2>5. n - 1 \notin Bad /\ n - 1 \in Nat
    BY <2>1, <2>4
  <2>6. g[r] \in Nat
    BY <2>4, <2>5
  <2>7. g[s] = f[Chosen(s)] + g[r]
    BY <1>1, <2>3 DEF IsFold
  <2> QED
    BY <2>2, <2>4, <2>6, <2>7
<1> QED
  BY <1>0, <1>1, <1>2

\* Changing one value changes the sum by the difference.
LEMMA SumChange ==
  ASSUME NEW S, IsFiniteSet(S), NEW f \in [S -> Int], NEW e \in [S -> Int],
         NEW x \in S, \A y \in S \ {x} : e[y] = f[y]
  PROVE  Sum(e, S) = Sum(f, S) + (e[x] - f[x])
<1> DEFINE R == S \ {x}
<1>1. Sum(f, S) = f[x] + Sum(f, R) /\ Sum(e, S) = e[x] + Sum(e, R)
  BY SumRemove
<1>2. IsFiniteSet(R)
  BY FS_RemoveElement
<1>3. Sum(e, R) = Sum(f, R)
  BY <1>2, SumSame
<1>4. Sum(f, R) \in Int
  <2> DEFINE h == [y \in R |-> f[y]]
  <2>1. h \in [R -> Int]
    OBVIOUS
  <2>2. Sum(h, R) \in Int
    BY <1>2, <2>1, SumType
  <2>3. Sum(h, R) = Sum(f, R)
    BY <1>2, SumSame
  <2> QED
    BY <2>2, <2>3
<1>5. f[x] \in Int /\ e[x] \in Int
  OBVIOUS
<1> HIDE DEF R
<1> QED
  BY <1>1, <1>3, <1>4, <1>5

\* The partial sums of a sequence of naturals.
LEMMA SumUpTo ==
  ASSUME NEW n \in Nat, NEW f \in [1 .. n -> Nat]
  PROVE  /\ Sum(f, 1 .. 0) = 0
         /\ \A k \in 0 .. n : Sum(f, 1 .. k) \in Nat
         /\ \A k \in 1 .. n : Sum(f, 1 .. k) = Sum(f, 1 .. k - 1) + f[k]
<1>1. \A k \in 0 .. n : IsFiniteSet(1 .. k) /\ 1 .. k \subseteq 1 .. n
  BY FS_Interval
<1>2. ASSUME NEW k \in 0 .. n PROVE Sum(f, 1 .. k) \in Nat
  <2> DEFINE e == [x \in 1 .. k |-> f[x]]
  <2>1. e \in [1 .. k -> Nat]
    BY <1>1
  <2>2. Sum(e, 1 .. k) \in Nat
    BY <1>1, <2>1, SumNat
  <2>3. Sum(e, 1 .. k) = Sum(f, 1 .. k)
    BY <1>1, SumSame
  <2> QED
    BY <2>2, <2>3
<1>3. ASSUME NEW k \in 1 .. n PROVE Sum(f, 1 .. k) = Sum(f, 1 .. k - 1) + f[k]
  <2> DEFINE S == 1 .. k - 1
             e == [x \in S \cup {k} |-> f[x]]
  <2>1. k - 1 \in 0 .. n /\ k \in 0 .. n
    OBVIOUS
  <2>2. 1 .. k = S \cup {k} /\ k \notin S /\ IsFiniteSet(S) /\ S \subseteq 1 .. n
    BY <1>1, <2>1
  <2>3. e \in [S \cup {k} -> Int]
    BY <2>2
  <2>4. Sum(e, S \cup {k}) = e[k] + Sum(e, S)
    BY <2>2, <2>3, SumAdd
  <2>5. Sum(e, S) = Sum(f, S)
    BY <2>2, SumSame
  <2>6. Sum(e, S \cup {k}) = Sum(f, S \cup {k})
    <3>1. IsFiniteSet(S \cup {k})
      BY <2>2, FS_AddElement
    <3> QED
      BY <3>1, SumSame
  <2>7. e[k] = f[k] /\ f[k] \in Nat
    OBVIOUS
  <2>8. Sum(f, S) \in Nat
    BY <1>2, <2>1
  <2> HIDE DEF e, S
  <2>9. Sum(f, S \cup {k}) = Sum(f, S) + f[k]
    BY <2>4, <2>5, <2>6, <2>7, <2>8
  <2> QED
    BY <2>2, <2>9 DEF S
<1>4. Sum(f, 1 .. 0) = 0
  <2>1. 1 .. 0 = {}
    OBVIOUS
  <2> QED
    BY <2>1, SumEmpty
<1> QED
  BY <1>2, <1>3, <1>4

\* Adding the values of another function on some of the elements adds its sum
\* over them.
LEMMA SumSplit ==
  ASSUME NEW S, IsFiniteSet(S), NEW T, T \subseteq S,
         NEW f \in [S -> Int], NEW g \in [T -> Int], NEW e \in [S -> Int],
         \A x \in S : e[x] = f[x] + (IF x \in T THEN g[x] ELSE 0)
  PROVE  Sum(e, S) = Sum(f, S) + Sum(g, T)
<1> DEFINE Holds(s) == Sum(e, s) = Sum(f, s) + Sum(g, s \cap T)
           Bad == {n \in Nat : \E s \in SUBSET S : Cardinality(s) = n /\ ~Holds(s)}
<1>0. \A s \in SUBSET S : /\ IsFiniteSet(s) /\ Cardinality(s) \in Nat
                          /\ IsFiniteSet(s \cap T)
  BY FS_Subset, FS_CardinalityType, FS_Intersection
<1>1. ASSUME NEW s \in SUBSET S, NEW y \in s
      PROVE  /\ Sum(f, s) = f[y] + Sum(f, s \ {y}) /\ Sum(f, s \ {y}) \in Int
             /\ Sum(e, s) = e[y] + Sum(e, s \ {y})
  <2> DEFINE r == s \ {y}
             fs == [x \in s |-> f[x]]
             es == [x \in s |-> e[x]]
             fr == [x \in r |-> f[x]]
  <2>1. IsFiniteSet(s) /\ IsFiniteSet(r)
    BY <1>0
  <2>2. fs \in [s -> Int] /\ es \in [s -> Int] /\ fr \in [r -> Int]
    OBVIOUS
  <2>3. Sum(fs, s) = fs[y] + Sum(fs, r) /\ Sum(es, s) = es[y] + Sum(es, r)
    <3> HIDE DEF fs, es
    <3> QED
      BY <2>1, <2>2, SumRemove
  <2>4. Sum(fs, s) = Sum(f, s) /\ Sum(es, s) = Sum(e, s)
    BY <2>1, SumSame
  <2>5. Sum(fs, r) = Sum(f, r) /\ Sum(es, r) = Sum(e, r) /\ Sum(fr, r) = Sum(f, r)
    BY <2>1, SumSame
  <2>6. Sum(fr, r) \in Int
    BY <2>1, <2>2, SumType
  <2>7. fs[y] = f[y] /\ es[y] = e[y]
    OBVIOUS
  <2> QED
    BY <2>3, <2>4, <2>5, <2>6, <2>7
<1>2. ASSUME NEW s \in SUBSET S, NEW y \in s \cap T
      PROVE  /\ Sum(g, s \cap T) = g[y] + Sum(g, (s \cap T) \ {y})
             /\ Sum(g, (s \cap T) \ {y}) \in Int
  <2> DEFINE q == s \cap T
             r == q \ {y}
             gq == [x \in q |-> g[x]]
             gr == [x \in r |-> g[x]]
  <2>1. IsFiniteSet(q) /\ IsFiniteSet(r)
    BY <1>0, FS_RemoveElement
  <2>2. gq \in [q -> Int] /\ gr \in [r -> Int]
    OBVIOUS
  <2>3. Sum(gq, q) = gq[y] + Sum(gq, r)
    <3> HIDE DEF gq
    <3> QED
      BY <2>1, <2>2, SumRemove
  <2>4. Sum(gq, q) = Sum(g, q) /\ Sum(gq, r) = Sum(g, r) /\ Sum(gr, r) = Sum(g, r)
    BY <2>1, SumSame
  <2>5. Sum(gr, r) \in Int
    BY <2>1, <2>2, SumType
  <2>6. gq[y] = g[y]
    OBVIOUS
  <2> QED
    BY <2>3, <2>4, <2>5, <2>6
<1>3. ASSUME NEW s \in SUBSET S PROVE Sum(g, s \cap T) \in Int
  <2> DEFINE gq == [x \in s \cap T |-> g[x]]
  <2>1. gq \in [s \cap T -> Int] /\ IsFiniteSet(s \cap T)
    BY <1>0
  <2>2. Sum(gq, s \cap T) \in Int
    BY <2>1, SumType
  <2>3. Sum(gq, s \cap T) = Sum(g, s \cap T)
    BY <2>1, SumSame
  <2> QED
    BY <2>2, <2>3
<1>4. Bad = {}
  <2> SUFFICES ASSUME Bad # {} PROVE FALSE
    OBVIOUS
  <2>1. PICK n \in Bad : \A m \in Bad : n <= m
    BY LeastNumber
  <2>2. PICK s \in SUBSET S : Cardinality(s) = n /\ ~Holds(s)
    BY <2>1
  <2>3. s # {}
    <3> SUFFICES ASSUME s = {} PROVE FALSE
      OBVIOUS
    <3>1. s \cap T = {}
      OBVIOUS
    <3>2. Sum(e, s) = 0 /\ Sum(f, s) = 0 /\ Sum(g, s \cap T) = 0
      BY <3>1, SumEmpty
    <3> QED
      BY <2>2, <3>2
  <2>4. PICK y \in s : TRUE
    BY <2>3
  <2> DEFINE r == s \ {y}
  <2>5. Cardinality(r) = n - 1 /\ n \in Nat \ {0} /\ r \in SUBSET S
    <3>1. Cardinality(s) \in Nat /\ Cardinality(s) # 0 /\ IsFiniteSet(s)
      BY <1>0, <2>3, FS_EmptySet
    <3> QED
      BY <2>2, <3>1, FS_RemoveElement
  <2>6. Holds(r)
    <3>1. n - 1 \in Nat /\ ~(n <= n - 1)
      BY <2>5
    <3>2. n - 1 \notin Bad
      <4> HIDE DEF Bad
      <4> QED
        BY <2>1, <3>1
    <3> HIDE DEF Holds, r
    <3> QED
      BY <2>5, <3>1, <3>2
  <2>7. /\ Sum(f, s) = f[y] + Sum(f, r) /\ Sum(e, s) = e[y] + Sum(e, r)
        /\ Sum(f, r) \in Int /\ Sum(g, r \cap T) \in Int
        /\ Sum(e, r) = Sum(f, r) + Sum(g, r \cap T)
    BY <1>1, <1>3, <2>5, <2>6
  <2>8. f[y] \in Int /\ y \in S
    OBVIOUS
  <2>9. Sum(g, s \cap T) = (IF y \in T THEN g[y] ELSE 0) + Sum(g, r \cap T)
    <3>1. CASE y \in T
      <4>1. (s \cap T) \ {y} = r \cap T /\ y \in s \cap T
        BY <3>1
      <4> QED
        BY <1>2, <3>1, <4>1
    <3>2. CASE y \notin T
      <4>1. s \cap T = r \cap T
        BY <3>2
      <4>2. (IF y \in T THEN g[y] ELSE 0) = 0
        BY <3>2
      <4>3. Sum(g, s \cap T) = Sum(g, r \cap T)
        BY <4>1
      <4> HIDE DEF r
      <4> QED
        BY <2>7, <4>2, <4>3
    <3> QED
      BY <3>1, <3>2
  <2>10. (IF y \in T THEN g[y] ELSE 0) \in Int
    OBVIOUS
  <2>11. e[y] = f[y] + (IF y \in T THEN g[y] ELSE 0)
    BY <2>8
  <2> DEFINE d == IF y \in T THEN g[y] ELSE 0
  <2> HIDE DEF r, d
  <2>12. Sum(e, s) = Sum(f, s) + Sum(g, s \cap T)
    BY <2>7, <2>8, <2>9, <2>10, <2>11 DEF d
  <2> QED
    BY <2>2, <2>12
<1>5. Holds(S)
  <2>1. S \in SUBSET S /\ Cardinality(S) \in Nat
    BY <1>0
  <2> HIDE DEF Holds
  <2> QED
    BY <1>4, <2>1
<1>6. S \cap T = T
  OBVIOUS
<1> QED
  BY <1>5, <1>6
=============================================================================
