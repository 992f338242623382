------------------------------ MODULE AmountProofs ------------------------------
(***************************************************************************)
(* What the proofs know of amounts: what rounding to the grid of           *)
(* DECIMAL(15,4) does to sums and differences, for every grid; and how a   *)
(* sum over finitely many rows changes with its terms.                     *)
(***************************************************************************)
EXTENDS PlatformFees, Functions, FiniteSetTheorems, WellFoundedInduction, TLAPS

\* Integer division by a positive number, as the bracket it defines.
LEMMA DivBracket ==
  ASSUME NEW n \in Int, NEW d \in Nat, d > 0
  PROVE  /\ n \div d \in Int
         /\ d * (n \div d) <= n
         /\ n < d * (n \div d + 1)
  OBVIOUS

\* Two integers in the same bracket are equal.
LEMMA BracketUnique ==
  ASSUME NEW d \in Nat, d > 0, NEW n \in Int, NEW p \in Int, NEW q \in Int,
         d * p <= n, n < d * (p + 1), d * q <= n, n < d * (q + 1)
  PROVE  p = q
<1>1. d * p < d * (q + 1) /\ d * q < d * (p + 1)
  BY SMT
<1>2. p < q + 1
  <2>1. SUFFICES ASSUME p >= q + 1 PROVE FALSE
    OBVIOUS
  <2>2. d * (p - (q + 1)) >= 0
    BY <2>1
  <2>3. QED
    BY <1>1, <2>2
<1>3. q < p + 1
  <2>1. SUFFICES ASSUME q >= p + 1 PROVE FALSE
    OBVIOUS
  <2>2. d * (q - (p + 1)) >= 0
    BY <2>1
  <2>3. QED
    BY <1>1, <2>2
<1>4. QED
  BY <1>2, <1>3

\* Rounding a non-negative amount: a natural number, within half a unit of it.
LEMMA StoredNat ==
  ASSUME NEW x \in Nat
  PROVE  /\ Stored(x) \in Nat
         /\ (2 * Grid) * Stored(x) <= 2 * x + Grid
         /\ 2 * x + Grid < (2 * Grid) * (Stored(x) + 1)
<1> DEFINE d == 2 * Grid
           n == 2 * x + Grid
<1>1. d \in Nat /\ d > 0 /\ n \in Int /\ n >= 0
  BY GridAssumption
<1>2. Stored(x) = n \div d
  BY DEF Stored, HalfAway
<1>3. n \div d \in Int /\ d * (n \div d) <= n /\ n < d * (n \div d + 1)
  <2> HIDE DEF d, n
  <2> QED BY <1>1, DivBracket
<1>4. n \div d >= 0
  <2>1. SUFFICES ASSUME n \div d + 1 <= 0 PROVE FALSE
    BY <1>3
  <2> HIDE DEF d, n
  <2>2. d * (n \div d + 1) <= 0
    BY <2>1, <1>1, <1>3
  <2>3. QED
    BY <2>2, <1>1, <1>3
<1>5. QED
  BY <1>2, <1>3, <1>4

\* A stored balance plus an amount rounds to the balance plus the rounded amount.
LEMMA StoredAdd ==
  ASSUME NEW b \in Nat, NEW x \in Nat
  PROVE  Stored(Grains(b) + x) = b + Stored(x)
<1> DEFINE y == Grains(b) + x
<1>0. Grid \in Nat /\ Grid > 0 /\ b * Grid \in Nat
  BY GridAssumption
<1>1. y \in Nat /\ y = b * Grid + x
  BY <1>0 DEF Grains
<1>2. /\ Stored(y) \in Nat
      /\ (2 * Grid) * Stored(y) <= 2 * y + Grid
      /\ 2 * y + Grid < (2 * Grid) * (Stored(y) + 1)
  <2> HIDE DEF y
  <2> QED BY <1>1, StoredNat
<1>3. /\ Stored(x) \in Nat
      /\ (2 * Grid) * Stored(x) <= 2 * x + Grid
      /\ 2 * x + Grid < (2 * Grid) * (Stored(x) + 1)
  BY StoredNat
<1>4. /\ (2 * Grid) * (b + Stored(x)) = 2 * (b * Grid) + (2 * Grid) * Stored(x)
      /\ (2 * Grid) * (b + Stored(x) + 1) = 2 * (b * Grid) + (2 * Grid) * (Stored(x) + 1)
  BY <1>0, <1>3
<1>5. /\ (2 * Grid) * (b + Stored(x)) <= 2 * y + Grid
      /\ 2 * y + Grid < (2 * Grid) * (b + Stored(x) + 1)
  BY <1>0, <1>1, <1>3, <1>4
<1> DEFINE d == 2 * Grid
           n == 2 * y + Grid
           p == Stored(y)
           q == b + Stored(x)
<1>6. d \in Nat /\ d > 0 /\ n \in Int /\ p \in Int /\ q \in Int
  BY <1>0, <1>1, <1>2, <1>3
<1>7. d * p <= n /\ n < d * (p + 1) /\ d * q <= n /\ n < d * (q + 1)
  BY <1>2, <1>5
<1>8. p = q
  <2> HIDE DEF d, n, p, q
  <2> QED BY <1>6, <1>7, BracketUnique
<1>9. QED
  BY <1>8 DEF p, q, y

(***************************************************************************)
(* A stored balance less an amount it covers: never negative, and together *)
(* with the rounded amount it makes the balance, or one unit more when     *)
(* both round the same half up.                                            *)
(***************************************************************************)
LEMMA StoredSub ==
  ASSUME NEW b \in Nat, NEW x \in Nat, Grains(b) >= x
  PROVE  /\ Stored(Grains(b) - x) \in Nat
         /\ Stored(Grains(b) - x) + Stored(x) \in {b, b + 1}
         /\ Stored(Grains(b) - x) <= b
<1> DEFINE y == Grains(b) - x
           q == Stored(x)
           r == Stored(y)
<1>0. Grid \in Nat /\ Grid > 0 /\ b * Grid \in Nat
  BY GridAssumption
<1>1. y \in Nat /\ y = b * Grid - x
  BY <1>0 DEF Grains
<1>2. /\ r \in Nat
      /\ (2 * Grid) * r <= 2 * y + Grid
      /\ 2 * y + Grid < (2 * Grid) * (r + 1)
  <2> HIDE DEF y
  <2> QED BY <1>1, StoredNat
<1>3. /\ q \in Nat
      /\ (2 * Grid) * q <= 2 * x + Grid
      /\ 2 * x + Grid < (2 * Grid) * (q + 1)
  BY StoredNat
<1> HIDE DEF q, r
<1>4. (2 * Grid) * (q + r) <= (2 * Grid) * (b + 1)
  BY <1>0, <1>1, <1>2, <1>3
<1>5. (2 * Grid) * b < (2 * Grid) * (q + r + 1)
  BY <1>0, <1>1, <1>2, <1>3
<1>6. q + r <= b + 1
  <2>1. SUFFICES ASSUME q + r - (b + 1) >= 1 PROVE FALSE
    BY <1>2, <1>3
  <2>2. (2 * Grid) * (q + r - (b + 1)) >= 1
    BY <2>1, <1>0, <1>2, <1>3
  <2>3. QED
    BY <2>2, <1>0, <1>2, <1>3, <1>4
<1>7. b <= q + r
  <2>1. SUFFICES ASSUME b - (q + r + 1) >= 0 PROVE FALSE
    BY <1>2, <1>3
  <2>2. (2 * Grid) * (b - (q + r + 1)) >= 0
    BY <2>1, <1>0, <1>2, <1>3
  <2>3. QED
    BY <2>2, <1>0, <1>2, <1>3, <1>5
<1>8. r <= b
  <2>1. SUFFICES ASSUME r - b - 1 >= 0 PROVE FALSE
    BY <1>2
  <2>2. (2 * Grid) * (r - b - 1) >= 0
    BY <2>1, <1>0, <1>2
  <2>3. (2 * Grid) * (r - b - 1) = (2 * Grid) * r - 2 * (b * Grid) - 2 * Grid
    BY <1>0, <1>2
  <2>4. QED
    BY <2>2, <2>3, <1>0, <1>1, <1>2
<1>9. r \in Nat /\ r + q \in {b, b + 1} /\ r <= b
  BY <1>2, <1>3, <1>6, <1>7, <1>8
<1>10. QED
  BY <1>9 DEF q, r, y

\* The column value of a negative amount mirrors that of the positive one.
LEMMA StoredNeg ==
  ASSUME NEW x \in Nat, x > 0
  PROVE  Stored(-x) = -Stored(x)
<1>1. ~(-x >= 0) /\ Grid - 2 * (-x) = 2 * x + Grid
  BY GridAssumption
<1>2. QED
  BY <1>1 DEF Stored, HalfAway

\* With amounts of at most four decimals nothing is rounded.
LEMMA StoredExact ==
  ASSUME Grid = 1, NEW x \in Nat
  PROVE  Stored(x) = x
<1>1. /\ Stored(x) \in Nat
      /\ 2 * Stored(x) <= 2 * x + 1
      /\ 2 * x + 1 < 2 * (Stored(x) + 1)
  BY StoredNat
<1>2. QED
  BY <1>1

\* What a column holds is an integer, and a column assigned another's value holds the same.
LEMMA StoredInt == ASSUME NEW x \in Int PROVE Stored(x) \in Int
<1>1. CASE x >= 0
  BY <1>1, StoredNat
<1>2. CASE x < 0
  <2>1. -x \in Nat /\ -x > 0 /\ x = -(-x)
    BY <1>2
  <2>2. Stored(x) = -Stored(-x) /\ Stored(-x) \in Nat
    BY <2>1, StoredNeg, StoredNat
  <2>3. QED
    BY <2>2
<1>3. QED
  BY <1>1, <1>2

LEMMA StoredGrains == ASSUME NEW u \in Nat PROVE Stored(Grains(u)) = u
<1>1. Stored(0) = 0
  BY StoredNat, GridAssumption
<1>2. Stored(Grains(u) + 0) = u + Stored(0)
  BY StoredAdd
<1>3. Grains(u) + 0 = Grains(u)
  BY GridAssumption DEF Grains
<1>4. QED
  BY <1>1, <1>2, <1>3

------------------------------------------------------------------------------
(* Platform fees. *)

FeeRates == [num : Nat, den : Nat \ {0}]

\* The fee, as the bracket its rounding defines.
LEMMA FeeBracket ==
  ASSUME NEW gross \in Nat, NEW rate \in FeeRates
  PROVE  /\ Fee(gross, rate) \in Nat
         /\ 2 * (rate.den * Grid) * Fee(gross, rate)
              <= 2 * (gross * rate.num) + rate.den * Grid
<1> DEFINE d == 2 * (rate.den * Grid)
           n == 2 * (gross * rate.num) + rate.den * Grid
<1>1. /\ rate.num \in Nat /\ rate.den \in Nat /\ rate.den > 0
      /\ Grid \in Nat /\ Grid > 0
  BY GridAssumption DEF FeeRates
<1>2. /\ gross * rate.num \in Nat
      /\ rate.den * Grid \in Nat /\ rate.den * Grid > 0
  BY <1>1
<1>3. d \in Nat /\ d > 0 /\ n \in Nat
  BY <1>2
<1>4. Fee(gross, rate) = n \div d
  BY <1>2 DEF Fee, HalfAway
<1>5. n \div d \in Int /\ d * (n \div d) <= n /\ n < d * (n \div d + 1)
  <2> HIDE DEF d, n
  <2> QED BY <1>3, DivBracket
<1>6. n \div d >= 0
  <2>1. SUFFICES ASSUME n \div d + 1 <= 0 PROVE FALSE
    BY <1>5
  <2> HIDE DEF d, n
  <2>2. d * (n \div d + 1) <= 0
    BY <2>1, <1>3, <1>5
  <2>3. QED
    BY <2>2, <1>3, <1>5
<1>7. QED
  BY <1>4, <1>5, <1>6

(***************************************************************************)
(* A publisher is only credited a net revenue above zero, and then fee and *)
(* net are the price as its column holds it, whatever the rate.            *)
(***************************************************************************)
LEMMA CreditSplits ==
  ASSUME NEW gross \in Nat, NEW rate \in FeeRates, Net(gross, rate) > 0
  PROVE  /\ Net(gross, rate) \in Nat /\ Fee(gross, rate) \in Nat
         /\ Fee(gross, rate) + Net(gross, rate) = Stored(gross)
<1> DEFINE f == Fee(gross, rate)
           x == gross - Grains(f)
<1>1. f \in Nat /\ Grains(f) \in Nat
  BY FeeBracket, GridAssumption DEF Grains
<1>2. x \in Int /\ gross = Grains(f) + x
  BY <1>1
<1>3. Stored(x) > 0
  BY DEF Net
<1>4. x >= 0
  <2>1. SUFFICES ASSUME x < 0 PROVE FALSE
    BY <1>2
  <2>2. -x \in Nat /\ -x > 0 /\ x = -(-x)
    BY <1>2, <2>1
  <2> HIDE DEF x
  <2>3. Stored(x) = -Stored(-x) /\ Stored(-x) \in Nat
    BY <2>2, StoredNeg, StoredNat
  <2>4. QED
    BY <1>3, <2>3
<1>5. Stored(gross) = f + Stored(x) /\ Stored(x) \in Nat
  <2> HIDE DEF x, f
  <2> QED BY <1>1, <1>2, <1>4, StoredAdd, StoredNat
<1>6. QED
  BY <1>1, <1>5 DEF Net

------------------------------------------------------------------------------
(* Sums of finitely many integers, by induction over the number of terms.  *)

\* A non-empty set of natural numbers has a least element.
LEMMA LeastOf ==
  ASSUME NEW N \in SUBSET Nat, N # {}
  PROVE  \E n \in N : \A m \in N : n <= m
<1>1. IsWellFoundedOn(OpToRel(<, Nat), Nat)
  BY NatLessThanWellFounded
<1>2. PICK n \in N : \A m \in N : ~(<<m, n>> \in OpToRel(<, Nat))
  BY <1>1, WFMin
<1>3. \A m \in N : ~(m < n)
  BY <1>2 DEF OpToRel
<1>4. QED
  BY <1>3

\* Of the finite sets in a non-empty collection, one has the fewest elements.
LEMMA SmallestOf ==
  ASSUME NEW Sets, Sets # {}, \A s \in Sets : IsFiniteSet(s)
  PROVE  \E s \in Sets : \A t \in Sets : Cardinality(s) <= Cardinality(t)
<1> DEFINE N == {Cardinality(s) : s \in Sets}
<1>1. N \in SUBSET Nat /\ N # {}
  BY FS_CardinalityType
<1>2. PICK n \in N : \A m \in N : n <= m
  <2> HIDE DEF N
  <2> QED BY <1>1, LeastOf
<1>3. QED
  BY <1>2

AnyOf(s) == CHOOSE x \in s : TRUE

Rest(s) == s \ {AnyOf(s)}

LEMMA RestIsSmaller ==
  ASSUME NEW s, IsFiniteSet(s), s # {}
  PROVE  /\ AnyOf(s) \in s
         /\ IsFiniteSet(Rest(s)) /\ Rest(s) \subseteq s
         /\ Cardinality(Rest(s)) = Cardinality(s) - 1
         /\ Cardinality(s) \in Nat /\ Cardinality(Rest(s)) \in Nat
<1>1. AnyOf(s) \in s
  BY DEF AnyOf
<1>2. QED
  BY <1>1, FS_RemoveElement, FS_CardinalityType DEF Rest

\* What the fold of a sum tabulates: the sum over every subset.
Tabulates(h, f, S) ==
  h = [s \in SUBSET S |-> IF s = {} THEN 0 ELSE f[AnyOf(s)] + h[Rest(s)]]

\* Sums agree where the terms do.
LEMMA TablesAgree ==
  ASSUME NEW f, NEW g, NEW h, NEW k, NEW S, NEW T, IsFiniteSet(S),
         Tabulates(h, f, S), Tabulates(k, g, T),
         NEW s \in SUBSET (S \cap T), \A x \in s : f[x] = g[x]
  PROVE  h[s] = k[s]
<1> DEFINE Bad == {t \in SUBSET s : h[t] # k[t]}
<1>1. SUFFICES ASSUME Bad # {} PROVE FALSE
  <2>1. s \in SUBSET s
    OBVIOUS
  <2>2. QED
    BY <2>1
<1>2. \A t \in SUBSET s : IsFiniteSet(t) /\ t \in SUBSET S /\ t \in SUBSET T
  BY FS_Subset
<1>3. PICK t \in Bad : \A u \in Bad : Cardinality(t) <= Cardinality(u)
  BY <1>1, <1>2, SmallestOf
<1>4. CASE t = {}
  BY <1>2, <1>3, <1>4 DEF Tabulates
<1>5. CASE t # {}
  <2>1. /\ AnyOf(t) \in t /\ Rest(t) \subseteq t
        /\ Cardinality(Rest(t)) = Cardinality(t) - 1
        /\ Cardinality(t) \in Nat /\ Cardinality(Rest(t)) \in Nat
    BY <1>2, <1>3, <1>5, RestIsSmaller
  <2>2. h[Rest(t)] = k[Rest(t)]
    BY <1>3, <2>1
  <2>3. h[t] = f[AnyOf(t)] + h[Rest(t)] /\ k[t] = g[AnyOf(t)] + k[Rest(t)]
    BY <1>2, <1>3, <1>5 DEF Tabulates
  <2>4. f[AnyOf(t)] = g[AnyOf(t)]
    BY <1>3, <2>1
  <2>5. QED
    BY <1>3, <2>2, <2>3, <2>4
<1>6. QED
  BY <1>4, <1>5

\* The subsets of at most n elements.
UpTo(n, S) == {s \in SUBSET S : Cardinality(s) <= n}

TabulatesUpTo(n, h, f, S) ==
  h = [s \in UpTo(n, S) |-> IF s = {} THEN 0 ELSE f[AnyOf(s)] + h[Rest(s)]]

LEMMA TableUpTo ==
  ASSUME NEW f, NEW S, IsFiniteSet(S), NEW n \in Nat
  PROVE  \E h : TabulatesUpTo(n, h, f, S)
<1> DEFINE Bad == {m \in Nat : ~\E h : TabulatesUpTo(m, h, f, S)}
<1>1. SUFFICES ASSUME Bad # {} PROVE FALSE
  OBVIOUS
<1>2. PICK m \in Bad : \A i \in Bad : m <= i
  <2>1. Bad \in SUBSET Nat
    OBVIOUS
  <2> HIDE DEF Bad
  <2> QED BY <1>1, <2>1, LeastOf
<1>3. \A s \in SUBSET S : IsFiniteSet(s) /\ Cardinality(s) \in Nat
  BY FS_Subset, FS_CardinalityType
<1>4. CASE m = 0
  <2> DEFINE h == [s \in UpTo(0, S) |-> 0]
  <2>1. \A s \in UpTo(0, S) : s = {}
    BY <1>3, FS_EmptySet DEF UpTo
  <2>2. TabulatesUpTo(0, h, f, S)
    BY <2>1 DEF TabulatesUpTo
  <2>3. QED
    BY <1>2, <1>4, <2>2
<1>5. CASE m # 0
  <2>1. m - 1 \in Nat /\ m - 1 \notin Bad
    BY <1>2, <1>5
  <2>2. PICK g : TabulatesUpTo(m - 1, g, f, S)
    BY <2>1
  <2> DEFINE h == [s \in UpTo(m, S) |-> IF s = {} THEN 0 ELSE f[AnyOf(s)] + g[Rest(s)]]
  <2>3. ASSUME NEW s \in UpTo(m, S), s # {}
        PROVE  Rest(s) \in UpTo(m - 1, S) /\ Rest(s) \in UpTo(m, S)
    BY <1>2, <1>3, <2>3, RestIsSmaller DEF UpTo
  <2>4. ASSUME NEW s \in UpTo(m - 1, S)
        PROVE  s \in UpTo(m, S) /\ h[s] = g[s]
    <3>1. s \in UpTo(m, S)
      BY <1>2, <1>3 DEF UpTo
    <3>2. QED
      BY <2>2, <3>1 DEF TabulatesUpTo
  <2>5. ASSUME NEW s \in UpTo(m, S), s # {} PROVE g[Rest(s)] = h[Rest(s)]
    BY <2>3, <2>4, <2>5
  <2>6. h = [s \in UpTo(m, S) |-> IF s = {} THEN 0 ELSE f[AnyOf(s)] + h[Rest(s)]]
    <3>1. \A s \in UpTo(m, S) :
            (IF s = {} THEN 0 ELSE f[AnyOf(s)] + g[Rest(s)])
              = (IF s = {} THEN 0 ELSE f[AnyOf(s)] + h[Rest(s)])
      BY <2>5
    <3>2. QED
      BY <3>1
  <2>7. TabulatesUpTo(m, h, f, S)
    BY <2>6 DEF TabulatesUpTo
  <2>8. QED
    BY <1>2, <2>7
<1>6. QED
  BY <1>4, <1>5

\* The fold finds the table.
LEMMA SumTable ==
  ASSUME NEW f, NEW S, IsFiniteSet(S)
  PROVE  \E h : Tabulates(h, f, S) /\ SumFunctionOnSet(f, S) = h[S]
<1>1. \E h : Tabulates(h, f, S)
  <2>1. Cardinality(S) \in Nat /\ UpTo(Cardinality(S), S) = SUBSET S
    BY FS_CardinalityType, FS_Subset DEF UpTo
  <2>2. PICK h : TabulatesUpTo(Cardinality(S), h, f, S)
    BY <2>1, TableUpTo
  <2>3. QED
    BY <2>1, <2>2 DEF TabulatesUpTo, Tabulates
<1>2. SumFunctionOnSet(f, S) = (CHOOSE h : Tabulates(h, f, S))[S]
  BY DEF SumFunctionOnSet, FoldFunctionOnSet, MapThenFoldSet, Tabulates, AnyOf, Rest
<1>3. Tabulates((CHOOSE h : Tabulates(h, f, S)), f, S)
  BY <1>1
<1>4. QED
  BY <1>2, <1>3

\* The sum over nothing, and the sum over something as one term and the rest.
LEMMA SumSteps ==
  ASSUME NEW f, NEW S, IsFiniteSet(S)
  PROVE  /\ S = {} => SumFunctionOnSet(f, S) = 0
         /\ S # {} => SumFunctionOnSet(f, S) = f[AnyOf(S)] + SumFunctionOnSet(f, Rest(S))
<1>1. PICK h : Tabulates(h, f, S) /\ SumFunctionOnSet(f, S) = h[S]
  BY SumTable
<1>2. S \in SUBSET S
  OBVIOUS
<1>3. CASE S = {}
  BY <1>1, <1>2, <1>3 DEF Tabulates
<1>4. CASE S # {}
  <2>1. IsFiniteSet(Rest(S)) /\ Rest(S) \subseteq S
    BY <1>4, RestIsSmaller
  <2>2. PICK k : Tabulates(k, f, Rest(S)) /\ SumFunctionOnSet(f, Rest(S)) = k[Rest(S)]
    BY <2>1, SumTable
  <2>3. h[Rest(S)] = k[Rest(S)]
    <3>1. Rest(S) \in SUBSET (S \cap Rest(S))
      BY <2>1
    <3>2. QED
      BY <1>1, <2>2, <3>1, TablesAgree
  <2>4. h[S] = f[AnyOf(S)] + h[Rest(S)]
    BY <1>1, <1>2, <1>4 DEF Tabulates
  <2>5. QED
    BY <1>1, <1>4, <2>2, <2>3, <2>4
<1>5. QED
  BY <1>3, <1>4

\* Sums of equal terms are equal.
LEMMA SumsAgree ==
  ASSUME NEW f, NEW g, NEW S, IsFiniteSet(S), \A x \in S : f[x] = g[x]
  PROVE  SumFunctionOnSet(f, S) = SumFunctionOnSet(g, S)
<1>1. PICK h : Tabulates(h, f, S) /\ SumFunctionOnSet(f, S) = h[S]
  BY SumTable
<1>2. PICK k : Tabulates(k, g, S) /\ SumFunctionOnSet(g, S) = k[S]
  BY SumTable
<1>3. S \in SUBSET (S \cap S)
  OBVIOUS
<1>4. h[S] = k[S]
  BY <1>1, <1>2, <1>3, TablesAgree
<1>5. QED
  BY <1>1, <1>2, <1>4

\* A sum of integers is an integer.
LEMMA SumType ==
  ASSUME NEW f, NEW S, IsFiniteSet(S), \A x \in S : f[x] \in Int
  PROVE  SumFunctionOnSet(f, S) \in Int
<1> DEFINE Bad == {s \in SUBSET S : SumFunctionOnSet(f, s) \notin Int}
<1>1. SUFFICES ASSUME Bad # {} PROVE FALSE
  <2>1. S \in SUBSET S
    OBVIOUS
  <2>2. QED
    BY <2>1
<1>2. \A s \in SUBSET S : IsFiniteSet(s)
  BY FS_Subset
<1>3. PICK s \in Bad : \A t \in Bad : Cardinality(s) <= Cardinality(t)
  BY <1>1, <1>2, SmallestOf
<1>4. CASE s = {}
  BY <1>2, <1>3, <1>4, SumSteps
<1>5. CASE s # {}
  <2>1. /\ AnyOf(s) \in s /\ Rest(s) \subseteq s
        /\ Cardinality(Rest(s)) = Cardinality(s) - 1
        /\ Cardinality(s) \in Nat /\ Cardinality(Rest(s)) \in Nat
    BY <1>2, <1>3, <1>5, RestIsSmaller
  <2>2. SumFunctionOnSet(f, Rest(s)) \in Int
    BY <1>3, <2>1
  <2>3. f[AnyOf(s)] \in Int
    BY <1>3, <2>1
  <2>4. SumFunctionOnSet(f, s) = f[AnyOf(s)] + SumFunctionOnSet(f, Rest(s))
    BY <1>2, <1>3, <1>5, SumSteps
  <2>5. QED
    BY <1>3, <2>2, <2>3, <2>4
<1>6. QED
  BY <1>4, <1>5

\* Any term can be taken out of a sum.
LEMMA SumRemove ==
  ASSUME NEW f, NEW S, IsFiniteSet(S), \A x \in S : f[x] \in Int, NEW x \in S
  PROVE  SumFunctionOnSet(f, S) = f[x] + SumFunctionOnSet(f, S \ {x})
<1> DEFINE Sum(s) == SumFunctionOnSet(f, s)
           Bad == {s \in SUBSET S : \E y \in s : Sum(s) # f[y] + Sum(s \ {y})}
<1>1. SUFFICES ASSUME Bad # {} PROVE FALSE
  <2>1. S \in SUBSET S
    OBVIOUS
  <2>2. QED
    BY <2>1
<1>2. \A s \in SUBSET S : IsFiniteSet(s) /\ Sum(s) \in Int
  <2>1. ASSUME NEW s \in SUBSET S PROVE IsFiniteSet(s) /\ Sum(s) \in Int
    <3>1. IsFiniteSet(s)
      BY FS_Subset
    <3>2. QED
      BY <3>1, SumType
  <2>2. QED
    BY <2>1
<1>3. PICK s \in Bad : \A t \in Bad : Cardinality(s) <= Cardinality(t)
  BY <1>1, <1>2, SmallestOf
<1>4. PICK y \in s : Sum(s) # f[y] + Sum(s \ {y})
  BY <1>3
<1>5. /\ AnyOf(s) \in s /\ Rest(s) \subseteq s
      /\ Cardinality(Rest(s)) = Cardinality(s) - 1
      /\ Cardinality(s) \in Nat /\ Cardinality(Rest(s)) \in Nat
  BY <1>2, <1>3, <1>4, RestIsSmaller
<1>6. Sum(s) = f[AnyOf(s)] + Sum(Rest(s))
  BY <1>2, <1>3, <1>4, SumSteps
<1>7. y # AnyOf(s)
  BY <1>4, <1>6 DEF Rest
<1> DEFINE z == AnyOf(s)
           t == s \ {y}
<1>8. z \in t /\ y \in Rest(s) /\ Rest(s) \ {y} = t \ {z}
  BY <1>4, <1>5, <1>7 DEF Rest
<1>9. /\ IsFiniteSet(t) /\ t \subseteq s /\ Cardinality(t) = Cardinality(s) - 1
      /\ Cardinality(t) \in Nat
  BY <1>2, <1>3, <1>4, FS_RemoveElement, FS_CardinalityType
<1>10. Sum(Rest(s)) = f[y] + Sum(Rest(s) \ {y})
  <2>1. Rest(s) \in SUBSET S /\ Rest(s) \notin Bad
    BY <1>3, <1>5
  <2>2. QED
    BY <1>8, <2>1
<1>11. Sum(t) = f[z] + Sum(t \ {z})
  <2>1. t \in SUBSET S /\ t \notin Bad
    BY <1>3, <1>5, <1>9
  <2>2. QED
    BY <1>8, <2>1
<1>12. Sum(t \ {z}) \in Int /\ f[y] \in Int /\ f[z] \in Int
  BY <1>2, <1>3, <1>4, <1>5
<1>13. Sum(s) = f[y] + Sum(t)
  <2>1. Sum(s) = f[z] + Sum(Rest(s))
    BY <1>6
  <2>2. Sum(Rest(s)) = f[y] + Sum(t \ {z})
    BY <1>8, <1>10
  <2> HIDE DEF Sum, t, z
  <2>3. QED
    BY <1>11, <1>12, <2>1, <2>2
<1>14. QED
  BY <1>4, <1>13

\* A new term is added to a sum.
LEMMA SumAdd ==
  ASSUME NEW f, NEW S, IsFiniteSet(S), NEW x, x \notin S,
         \A y \in S \cup {x} : f[y] \in Int
  PROVE  SumFunctionOnSet(f, S \cup {x}) = SumFunctionOnSet(f, S) + f[x]
<1>1. IsFiniteSet(S \cup {x}) /\ (S \cup {x}) \ {x} = S
  BY FS_AddElement
<1>2. SumFunctionOnSet(f, S \cup {x}) = f[x] + SumFunctionOnSet(f, S)
  BY <1>1, SumRemove
<1>3. SumFunctionOnSet(f, S) \in Int /\ f[x] \in Int
  BY SumType
<1>4. QED
  BY <1>2, <1>3

\* When one term changes, so does the sum.
LEMMA SumChange ==
  ASSUME NEW f, NEW g, NEW S, IsFiniteSet(S), NEW x \in S,
         \A y \in S : f[y] \in Int /\ g[y] \in Int,
         \A y \in S \ {x} : g[y] = f[y]
  PROVE  SumFunctionOnSet(g, S) = SumFunctionOnSet(f, S) + (g[x] - f[x])
<1>1. IsFiniteSet(S \ {x})
  BY FS_RemoveElement
<1>2. SumFunctionOnSet(f, S) = f[x] + SumFunctionOnSet(f, S \ {x})
  BY SumRemove
<1>3. SumFunctionOnSet(g, S) = g[x] + SumFunctionOnSet(g, S \ {x})
  BY SumRemove
<1>4. SumFunctionOnSet(f, S \ {x}) = SumFunctionOnSet(g, S \ {x})
  BY <1>1, SumsAgree
<1>5. SumFunctionOnSet(f, S \ {x}) \in Int /\ f[x] \in Int /\ g[x] \in Int
  BY <1>1, SumType
<1>6. QED
  BY <1>2, <1>3, <1>4, <1>5

LEMMA SumOfZeros ==
  ASSUME NEW f, NEW S, IsFiniteSet(S), \A x \in S : f[x] = 0
  PROVE  SumFunctionOnSet(f, S) = 0
<1> DEFINE Bad == {s \in SUBSET S : SumFunctionOnSet(f, s) # 0}
<1>1. SUFFICES ASSUME Bad # {} PROVE FALSE
  <2>1. S \in SUBSET S
    OBVIOUS
  <2>2. QED
    BY <2>1
<1>2. \A s \in SUBSET S : IsFiniteSet(s)
  BY FS_Subset
<1>3. PICK s \in Bad : \A t \in Bad : Cardinality(s) <= Cardinality(t)
  BY <1>1, <1>2, SmallestOf
<1>4. s # {}
  BY <1>2, <1>3, SumSteps
<1>5. /\ AnyOf(s) \in s /\ Rest(s) \subseteq s
      /\ Cardinality(Rest(s)) = Cardinality(s) - 1
      /\ Cardinality(s) \in Nat /\ Cardinality(Rest(s)) \in Nat
  BY <1>2, <1>3, <1>4, RestIsSmaller
<1>6. SumFunctionOnSet(f, Rest(s)) = 0
  BY <1>3, <1>5
<1>7. SumFunctionOnSet(f, s) = f[AnyOf(s)] + SumFunctionOnSet(f, Rest(s))
  BY <1>2, <1>3, <1>4, SumSteps
<1>8. f[AnyOf(s)] = 0
  BY <1>3, <1>5
<1>9. QED
  BY <1>3, <1>6, <1>7, <1>8

\* A sum of multiples is the multiple of the sum.
LEMMA SumScaled ==
  ASSUME NEW f, NEW g, NEW S, IsFiniteSet(S), NEW k \in Int,
         \A x \in S : f[x] \in Int /\ g[x] = k * f[x]
  PROVE  SumFunctionOnSet(g, S) = k * SumFunctionOnSet(f, S)
<1> DEFINE F(s) == SumFunctionOnSet(f, s)
           G(s) == SumFunctionOnSet(g, s)
           Bad == {s \in SUBSET S : G(s) # k * F(s)}
<1>1. SUFFICES ASSUME Bad # {} PROVE FALSE
  <2>1. S \in SUBSET S
    OBVIOUS
  <2>2. QED
    BY <2>1
<1>2. \A s \in SUBSET S : IsFiniteSet(s)
  BY FS_Subset
<1>3. PICK s \in Bad : \A t \in Bad : Cardinality(s) <= Cardinality(t)
  BY <1>1, <1>2, SmallestOf
<1>4. s # {}
  <2>1. SUFFICES ASSUME s = {} PROVE FALSE
    OBVIOUS
  <2>2. F(s) = 0 /\ G(s) = 0
    BY <1>2, <1>3, <2>1, SumSteps
  <2>3. QED
    BY <1>3, <2>2
<1>5. /\ AnyOf(s) \in s /\ Rest(s) \subseteq s
      /\ Cardinality(Rest(s)) = Cardinality(s) - 1
      /\ Cardinality(s) \in Nat /\ Cardinality(Rest(s)) \in Nat
  BY <1>2, <1>3, <1>4, RestIsSmaller
<1>6. G(Rest(s)) = k * F(Rest(s))
  <2>1. Rest(s) \in SUBSET S /\ Rest(s) \notin Bad
    BY <1>3, <1>5
  <2>2. QED
    BY <2>1
<1>7. /\ f[AnyOf(s)] \in Int /\ g[AnyOf(s)] = k * f[AnyOf(s)]
      /\ F(Rest(s)) \in Int
  <2>1. IsFiniteSet(Rest(s)) /\ Rest(s) \subseteq S
    BY <1>2, <1>3, <1>5
  <2>2. QED
    BY <1>3, <1>5, <2>1, SumType
<1>8. F(s) = f[AnyOf(s)] + F(Rest(s)) /\ G(s) = g[AnyOf(s)] + G(Rest(s))
  BY <1>2, <1>3, <1>4, SumSteps
<1> HIDE DEF F, G
<1>9. k * (f[AnyOf(s)] + F(Rest(s))) = k * f[AnyOf(s)] + k * F(Rest(s))
  BY <1>7
<1>10. G(s) = k * F(s)
  BY <1>6, <1>7, <1>8, <1>9
<1>11. QED
  BY <1>3, <1>10 DEF F, G

\* A sum over the places of a sequence that grows by one.
LEMMA SumAppend ==
  ASSUME NEW n \in Nat, NEW f, NEW g, \A k \in 1 .. n : f[k] \in Int /\ g[k] = f[k],
         g[n + 1] \in Int
  PROVE  SumFunctionOnSet(g, 1 .. n + 1) = SumFunctionOnSet(f, 1 .. n) + g[n + 1]
<1> DEFINE S == 1 .. n
           x == n + 1
<1>1. IsFiniteSet(S)
  BY FS_Interval
<1>2. 1 .. n + 1 = (1 .. n) \cup {n + 1} /\ n + 1 \notin 1 .. n
  OBVIOUS
<1>3. /\ \A k \in S \cup {x} : g[k] \in Int
      /\ \A k \in S : g[k] = f[k]
      /\ x \notin S
  OBVIOUS
<1>4. SumFunctionOnSet(g, S \cup {x}) = SumFunctionOnSet(g, S) + g[x]
  <2> HIDE DEF S, x
  <2> QED BY <1>1, <1>3, SumAdd
<1>5. SumFunctionOnSet(g, S) = SumFunctionOnSet(f, S)
  <2> HIDE DEF S, x
  <2> QED BY <1>1, <1>3, SumsAgree
<1>6. QED
  BY <1>2, <1>4, <1>5

\* No term grows, neither does the sum.
LEMMA SumsOrdered ==
  ASSUME NEW f, NEW g, NEW S, IsFiniteSet(S),
         \A x \in S : f[x] \in Int /\ g[x] \in Int /\ f[x] <= g[x]
  PROVE  SumFunctionOnSet(f, S) <= SumFunctionOnSet(g, S)
<1> DEFINE F(s) == SumFunctionOnSet(f, s)
           G(s) == SumFunctionOnSet(g, s)
           Bad == {s \in SUBSET S : ~(F(s) <= G(s))}
<1>1. SUFFICES ASSUME Bad # {} PROVE FALSE
  <2>1. S \in SUBSET S
    OBVIOUS
  <2>2. QED
    BY <2>1
<1>2. \A s \in SUBSET S : IsFiniteSet(s)
  BY FS_Subset
<1>3. PICK s \in Bad : \A t \in Bad : Cardinality(s) <= Cardinality(t)
  BY <1>1, <1>2, SmallestOf
<1>4. CASE s = {}
  <2>1. F(s) = 0 /\ G(s) = 0
    BY <1>2, <1>3, <1>4, SumSteps
  <2>2. QED
    BY <1>3, <2>1
<1>5. CASE s # {}
  <2>1. /\ AnyOf(s) \in s /\ Rest(s) \subseteq s
        /\ Cardinality(Rest(s)) = Cardinality(s) - 1
        /\ Cardinality(s) \in Nat /\ Cardinality(Rest(s)) \in Nat
    BY <1>2, <1>3, <1>5, RestIsSmaller
  <2>2. F(Rest(s)) <= G(Rest(s))
    BY <1>3, <2>1
  <2>3. /\ f[AnyOf(s)] \in Int /\ g[AnyOf(s)] \in Int /\ f[AnyOf(s)] <= g[AnyOf(s)]
        /\ F(Rest(s)) \in Int /\ G(Rest(s)) \in Int
    <3>1. IsFiniteSet(Rest(s)) /\ Rest(s) \subseteq S
      BY <1>2, <1>3, <2>1
    <3>2. QED
      BY <1>3, <2>1, <3>1, SumType
  <2>4. F(s) = f[AnyOf(s)] + F(Rest(s)) /\ G(s) = g[AnyOf(s)] + G(Rest(s))
    BY <1>2, <1>3, <1>5, SumSteps
  <2> HIDE DEF F, G
  <2>5. F(s) <= G(s)
    BY <2>2, <2>3, <2>4
  <2>6. QED
    BY <1>3, <2>5 DEF F, G
<1>6. QED
  BY <1>4, <1>5

\* A sum of natural numbers is one, and no less than any of them.
LEMMA SumNat ==
  ASSUME NEW f, NEW S, IsFiniteSet(S), \A x \in S : f[x] \in Nat
  PROVE  /\ SumFunctionOnSet(f, S) \in Nat
         /\ \A x \in S : f[x] <= SumFunctionOnSet(f, S)
<1> DEFINE zero == [x \in S |-> 0]
<1>1. ASSUME NEW s \in SUBSET S PROVE SumFunctionOnSet(f, s) \in Nat
  <2>1. IsFiniteSet(s) /\ \A x \in s : zero[x] = 0
    BY FS_Subset
  <2> HIDE DEF zero
  <2>2. SumFunctionOnSet(zero, s) = 0
    BY <2>1, SumOfZeros
  <2>3. SumFunctionOnSet(zero, s) <= SumFunctionOnSet(f, s)
    BY <2>1, SumsOrdered
  <2>4. SumFunctionOnSet(f, s) \in Int
    BY <2>1, SumType
  <2>5. QED
    BY <2>2, <2>3, <2>4
<1>2. ASSUME NEW x \in S PROVE f[x] <= SumFunctionOnSet(f, S)
  <2>1. SumFunctionOnSet(f, S) = f[x] + SumFunctionOnSet(f, S \ {x})
    BY SumRemove
  <2>2. SumFunctionOnSet(f, S \ {x}) \in Nat /\ f[x] \in Nat
    BY <1>1
  <2>3. QED
    BY <2>1, <2>2
<1>3. QED
  BY <1>1, <1>2
==============================================================================
