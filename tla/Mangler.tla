------------------------------ MODULE Mangler ------------------------------
(***************************************************************************)
(* The key mangler (os_mangler.h) and the field GF(2^n) it calculates in   *)
(* (os_galoisField.h).  A word is the set of the bits that are 1 in it,    *)
(* read as a polynomial; xor is the symmetric difference.                  *)
(*                                                                         *)
(* The mangler multiplies a key by a seed with tables that are indexed by  *)
(* the pieces of the key, and undoes it with tables of the seed's inverse, *)
(* which the extended algorithm of Euclid finds.                           *)
(***************************************************************************)
EXTENDS Integers, FiniteSets, FiniteSetsExt, Sequences

CONSTANTS
    Inputs,     \* the [n, seed, keys] tried: the degree of the field, the
                \* seed, and keys to mangle with it
    Pieces      \* the numbers of pieces of a key: 4 chars, 2 shorts

ASSUME ManglerAssumption ==
    /\ \A in \in Inputs :
          /\ in.n \in 1 .. 32
          /\ in.seed \subseteq 0 .. 63
          /\ \A k \in in.keys : k \subseteq 0 .. in.n - 1
    /\ Pieces \subseteq Nat \ {0}

VARIABLES
    input,            \* one of Inputs
    g0, g1, u0, u1,   \* as in ExtendedEuclid(seed, prim); v is not used
    built             \* the tables are built

mgVars == <<input, g0, g1, u0, u1, built>>

-----------------------------------------------------------------------------
(* GaloisField.                                                            *)

\* primTable, without the term x^n.
PrimTail(n) ==
    CASE n = 1 -> {0}
      [] n \in {2, 3, 4, 6, 15, 22, 29} -> {1, 0}
      [] n \in {5, 11, 21} -> {2, 0}
      [] n \in {7, 10, 17, 20, 25, 28, 31} -> {3, 0}
      [] n = 8 -> {4, 3, 2, 0}
      [] n = 9 -> {4, 0}
      [] n = 12 -> {6, 4, 1, 0}
      [] n = 13 -> {4, 3, 1, 0}
      [] n = 14 -> {10, 6, 1, 0}
      [] n = 16 -> {12, 3, 1, 0}
      [] n = 18 -> {7, 0}
      [] n \in {19, 27} -> {5, 2, 1, 0}
      [] n = 23 -> {5, 0}
      [] n = 24 -> {7, 2, 1, 0}
      [] n = 26 -> {6, 2, 1, 0}
      [] n = 30 -> {6, 4, 1, 0}
      [] n = 32 -> {7, 6, 2, 0}

Prim(n) == {n} \cup PrimTail(n)

\* a ^ b, a << i.
Xor(a, b) == (a \ b) \cup (b \ a)
Shift(a, i) == {e + i : e \in a}
Degree(a) == Max(a)

\* p <<= 1, brought back below 2^n.
TimesX(n, p) ==
    LET q == Shift(p, 1) IN IF n \in q THEN Xor(q, Prim(n)) ELSE q

\* Mul: the xor of a shifted to each bit of b.
Mul(n, a, b) ==
    LET p[i \in Nat] == IF i = 0 THEN a ELSE TimesX(n, p[i - 1])
    IN FoldSet(LAMBDA i, r : Xor(r, p[i]), {}, b)

\* LongDiv: the rest of a after all bits of it down to the i-th above b are
\* divided off, with the quotient.
LongDiv(a, b) ==
    LET top == Degree(a) - Degree(b)
        from[i \in Int] ==    \* after the steps for top, ..., i
            IF i > top THEN [q |-> {}, r |-> a]
            ELSE LET d == from[i + 1]
                 IN IF Degree(b) + i \in d.r
                      THEN [q |-> d.q \cup {i}, r |-> Xor(d.r, Shift(b, i))]
                      ELSE d
    IN IF a = {} THEN [q |-> {}, r |-> {}] ELSE from[0]

\* Faulty variant: the new coefficient is not added to the old one.
EuclidStepSwapped ==
    LET d == LongDiv(g0, g1)
    IN /\ g1 # {}
       /\ g0' = g1 /\ g1' = d.r
       /\ u0' = u1 /\ u1' = Mul(input.n, u1, d.q)
       /\ UNCHANGED <<input, built>>

\* One round of ExtendedEuclid.
EuclidStep ==
    LET d == LongDiv(g0, g1)
    IN /\ g1 # {}
       /\ g0' = g1 /\ g1' = d.r
       /\ u0' = u1 /\ u1' = Xor(u0, Mul(input.n, u1, d.q))
       /\ UNCHANGED <<input, built>>

-----------------------------------------------------------------------------
(* Mangler.                                                                *)

\* ExtendedEuclid(seed, prim), which Inv calls.
ManglerStart ==
    /\ g0 = input.seed /\ g1 = Prim(input.n)
    /\ u0 = {0} /\ u1 = {}
    /\ built = FALSE

ManglerInit == input \in Inputs /\ ManglerStart

\* The inverse is found: the tables can be built.
BuildTables ==
    /\ g1 = {}
    /\ ~built
    /\ built' = TRUE
    /\ UNCHANGED <<input, g0, g1, u0, u1>>

ManglerNext == EuclidStep \/ BuildTables

ManglerSpec == ManglerInit /\ [][ManglerNext]_mgVars

\* The c-th of m pieces of a key, at its place in the word.
Piece(k, c, m) == {e \in k : (e * m) \div input.n = c}

\* MangleCharTable and MangleShortTable, of m = 4 and m = 2 pieces.
Mangle(k, m) ==
    FoldSet(LAMBDA c, r : Xor(r, Mul(input.n, Piece(k, c, m), input.seed)),
            {}, 0 .. m - 1)

\* Faulty variant: the table of the highest piece is never filled.
UnmangleUnfilled(k, m) ==
    FoldSet(LAMBDA c, r : Xor(r, Mul(input.n, Piece(k, c, m), u0)),
            {}, 0 .. m - 2)

\* ReverseCharTable and ReverseShortTable.
Unmangle(k, m) ==
    FoldSet(LAMBDA c, r : Xor(r, Mul(input.n, Piece(k, c, m), u0)),
            {}, 0 .. m - 1)

-----------------------------------------------------------------------------
(* Properties.                                                             *)

\* Seeds that the polynomial of the field divides have no inverse.
Divided == LongDiv(input.seed, Prim(input.n)).r = {}

\* The loop of ExtendedEuclid keeps both rows combinations of the seed and
\* the polynomial, so that u is the inverse of the seed when it ends with 1.
\* It ends with 1 for every seed of every field of the table but GF(2^29),
\* whose polynomial x^29 + x + 1 is not prime.
InverseFound ==
    /\ \A row \in {<<g0, u0>>, <<g1, u1>>} :
          LongDiv(row[1], Prim(input.n)).r = Mul(input.n, {0}, Mul(input.n, row[2], input.seed))
    /\ (built /\ ~Divided) =>
          /\ input.n # 29 => g0 = {0}
          /\ g0 = {0} => Mul(input.n, u0, input.seed) = {0}

\* Mangling can be undone, with tables of either width, and both widths
\* mangle alike with the same seed.
ManglingReverses ==
    (built /\ g0 = {0}) =>
        \A k \in input.keys : \A m \in Pieces :
            /\ Unmangle(Mangle(k, m), m) = k
            /\ Mangle(k, m) = Mul(input.n, k, input.seed)
=============================================================================
