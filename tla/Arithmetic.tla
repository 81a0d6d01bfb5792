----------------------------- MODULE Arithmetic -----------------------------
(***************************************************************************)
(* Lemmas about the arithmetic the models use: folds over finite sets and  *)
(* the sums of integers and of fractions that are folds, Euclid's          *)
(* algorithm, and the laws of exact fractions in lowest terms.             *)
(*                                                                         *)
(* Induction is by looking at a least number, or at a smallest set, for    *)
(* which the claim fails.                                                  *)
(***************************************************************************)
EXTENDS Fractions, Functions, FiniteSetTheorems, WellFoundedInduction, TLAPS

LEMMA LeastNumber ==
  ASSUME NEW T, T \subseteq Nat, T # {}
  PROVE  \E m \in T : \A k \in T : m <= k
<1> DEFINE R == {ss \in Nat \X Nat : ss[1] < ss[2]}
<1>1. IsWellFoundedOn(R, Nat)
  BY NatLessThanWellFounded DEF OpToRel
<1>2. \E m \in T : \A y \in T : ~(<<y, m>> \in R)
  <2> HIDE DEF R
  <2> QED
    BY <1>1, WFMin
<1>3. PICK m \in T : \A y \in T : ~(<<y, m>> \in R)
  BY <1>2
<1>4. \A y \in T : ~(y < m)
  BY <1>3
<1>5. \A y \in T : m <= y
  BY <1>4
<1> QED
  BY <1>5

\* One of the smallest sets of B.
LEMMA SmallestSet ==
  ASSUME NEW B, B # {}, \A s \in B : IsFiniteSet(s)
  PROVE  \E s \in B : \A r \in B : Cardinality(s) <= Cardinality(r)
<1> DEFINE T == {Cardinality(s) : s \in B}
<1>1. T \subseteq Nat /\ T # {}
  BY FS_CardinalityType
<1>2. PICK m \in T : \A k \in T : m <= k
  BY <1>1, LeastNumber
<1> QED
  BY <1>2

LEMMA Smaller ==
  ASSUME NEW s, IsFiniteSet(s), NEW x \in s
  PROVE  IsFiniteSet(s \ {x}) /\ Cardinality(s) \in Nat /\ Cardinality(s \ {x}) = Cardinality(s) - 1
BY FS_RemoveElement, FS_CardinalityType

\* A claim that holds of a set whenever it holds of all smaller ones.
LEMMA SetsAreGood ==
  ASSUME NEW S, IsFiniteSet(S), NEW Good, Good \subseteq SUBSET S,
         \A s \in SUBSET S : (\A x \in s : s \ {x} \in Good) => s \in Good
  PROVE  SUBSET S = Good
<1> SUFFICES ASSUME SUBSET S # Good PROVE FALSE
  OBVIOUS
<1> DEFINE B == {s \in SUBSET S : s \notin Good}
<1>1. B # {} /\ \A s \in B : IsFiniteSet(s)
  BY FS_Subset
<1>2. PICK s \in B : \A r \in B : Cardinality(s) <= Cardinality(r)
  <2> HIDE DEF B
  <2> QED
    BY <1>1, SmallestSet
<1>3. \A x \in s : s \ {x} \in Good
  <2> SUFFICES ASSUME NEW x \in s, s \ {x} \notin Good PROVE FALSE
    OBVIOUS
  <2>1. s \ {x} \in B
    OBVIOUS
  <2>2. Cardinality(s \ {x}) = Cardinality(s) - 1 /\ Cardinality(s) \in Nat
    BY <1>1, Smaller
  <2> QED
    BY <1>2, <2>1, <2>2
<1> QED
  BY <1>3

-----------------------------------------------------------------------------
(* Folds. An operation on V is a function op of pairs; FoldOf combines the   *)
(* values of f on S, picking one element after the other.                    *)

Pick(s) == CHOOSE x \in s : TRUE

LEMMA Picked == ASSUME NEW s, s # {} PROVE Pick(s) \in s
BY DEF Pick

\* g gives for each set of D what the values of f there combine to.
Folds(g, op, base, f, D) ==
  g = [s \in D |-> IF s = {} THEN base ELSE op[<<f[Pick(s)], g[s \ {Pick(s)}]>>]]

FoldsAll(g, op, base, f, S) == Folds(g, op, base, f, SUBSET S)

FoldOf(op, base, f, S) == (CHOOSE g : FoldsAll(g, op, base, f, S))[S]

OfSize(S, n) == {s \in SUBSET S : Cardinality(s) <= n}

LEMMA FoldExists ==
  ASSUME NEW op, NEW base, NEW f, NEW S, IsFiniteSet(S)
  PROVE  \E g : FoldsAll(g, op, base, f, S)
<1> DEFINE T == {n \in Nat : ~ \E g : Folds(g, op, base, f, OfSize(S, n))}
<1>1. \E g : Folds(g, op, base, f, OfSize(S, 0))
  <2>1. \A s \in OfSize(S, 0) : s = {}
    <3> TAKE s \in OfSize(S, 0)
    <3>1. IsFiniteSet(s) /\ Cardinality(s) <= 0
      BY FS_Subset DEF OfSize
    <3>2. Cardinality(s) \in Nat
      BY <3>1, FS_CardinalityType
    <3> QED
      BY <3>1, <3>2, FS_EmptySet
  <2>2. Folds([s \in OfSize(S, 0) |-> base], op, base, f, OfSize(S, 0))
    BY <2>1 DEF Folds
  <2> QED
    BY <2>2
<1>2. ASSUME NEW n \in Nat, NEW g, Folds(g, op, base, f, OfSize(S, n))
      PROVE  \E h : Folds(h, op, base, f, OfSize(S, n + 1))
  <2> DEFINE h == [s \in OfSize(S, n + 1) |->
                     IF s = {} THEN base ELSE op[<<f[Pick(s)], g[s \ {Pick(s)}]>>]]
  <2>1. ASSUME NEW s \in OfSize(S, n + 1), s # {} PROVE h[s \ {Pick(s)}] = g[s \ {Pick(s)}]
    <3> DEFINE r == s \ {Pick(s)}
    <3>1. r \in SUBSET S /\ Cardinality(r) = Cardinality(s) - 1 /\ Cardinality(s) \in Nat
      BY <2>1, Picked, Smaller, FS_Subset DEF OfSize
    <3>2. r \in OfSize(S, n) /\ r \in OfSize(S, n + 1)
      BY <3>1 DEF OfSize
    <3>3. g[r] = IF r = {} THEN base ELSE op[<<f[Pick(r)], g[r \ {Pick(r)}]>>]
      BY <1>2, <3>2, Zenon DEF Folds
    <3>4. h[r] = IF r = {} THEN base ELSE op[<<f[Pick(r)], g[r \ {Pick(r)}]>>]
      BY <3>2, Zenon
    <3> QED
      BY <3>3, <3>4
  <2>2. Folds(h, op, base, f, OfSize(S, n + 1))
    <3>1. h = [s \in OfSize(S, n + 1) |-> IF s = {} THEN base ELSE op[<<f[Pick(s)], h[s \ {Pick(s)}]>>]]
      BY <2>1
    <3> QED
      BY <3>1 DEF Folds
  <2> QED
    BY <2>2
<1>3. T = {}
  <2> SUFFICES ASSUME T # {} PROVE FALSE
    OBVIOUS
  <2>1. PICK m \in T : \A k \in T : m <= k
    BY LeastNumber
  <2>2. m # 0 /\ m \in Nat
    BY <1>1
  <2>3. m - 1 \in Nat /\ m - 1 \notin T /\ (m - 1) + 1 = m
    BY <2>1, <2>2
  <2> QED
    BY <1>2, <2>3
<1>4. Cardinality(S) \in Nat /\ SUBSET S = OfSize(S, Cardinality(S))
  BY FS_CardinalityType, FS_Subset DEF OfSize
<1>5. \E g : Folds(g, op, base, f, OfSize(S, Cardinality(S)))
  BY <1>3, <1>4
<1>6. \E g : Folds(g, op, base, f, SUBSET S)
  BY <1>4, <1>5, Zenon
<1> QED
  BY <1>6 DEF FoldsAll

Within(R, S) == R \subseteq S

LEMMA FoldsAgree ==
  ASSUME NEW op, NEW base, NEW f, NEW S, NEW R, NEW g, NEW h, IsFiniteSet(S), Within(R, S),
         FoldsAll(g, op, base, f, S), FoldsAll(h, op, base, f, R)
  PROVE  g[R] = h[R]
<1> USE DEF Within
<1> DEFINE Good == {s \in SUBSET R : g[s] = h[s]}
<1>1. ASSUME NEW s \in SUBSET R, \A x \in s : s \ {x} \in Good PROVE s \in Good
  <2>1. /\ g[s] = IF s = {} THEN base ELSE op[<<f[Pick(s)], g[s \ {Pick(s)}]>>]
        /\ h[s] = IF s = {} THEN base ELSE op[<<f[Pick(s)], h[s \ {Pick(s)}]>>]
    <3>1. s \in SUBSET S
      OBVIOUS
    <3> QED
      BY <1>1, <3>1, Zenon DEF Folds, FoldsAll
  <2>2. s # {} => g[s \ {Pick(s)}] = h[s \ {Pick(s)}]
    BY <1>1, Picked
  <2> QED
    BY <2>1, <2>2
<1>2. SUBSET R = Good
  <2>1. IsFiniteSet(R) /\ Good \subseteq SUBSET R
    BY FS_Subset
  <2>2. \A s \in SUBSET R : (\A x \in s : s \ {x} \in Good) => s \in Good
    BY <1>1
  <2> HIDE DEF Good
  <2> QED
    BY <2>1, <2>2, SetsAreGood, Zenon
<1> QED
  BY <1>2

LEMMA FoldPicks ==
  ASSUME NEW op, NEW base, NEW f, NEW S, IsFiniteSet(S)
  PROVE  FoldOf(op, base, f, S) =
           IF S = {} THEN base ELSE op[<<f[Pick(S)], FoldOf(op, base, f, S \ {Pick(S)})>>]
<1> DEFINE R == S \ {Pick(S)}
<1>1. PICK g : FoldsAll(g, op, base, f, S) /\ FoldOf(op, base, f, S) = g[S]
  BY FoldExists DEF FoldOf
<1>2. R \in SUBSET S /\ IsFiniteSet(R)
  BY FS_Subset
<1>3. PICK h : FoldsAll(h, op, base, f, R) /\ FoldOf(op, base, f, R) = h[R]
  <2> HIDE DEF R
  <2> QED
    BY <1>2, FoldExists DEF FoldOf
<1>4. g[S] = IF S = {} THEN base ELSE op[<<f[Pick(S)], g[R]>>]
  BY <1>1, Zenon DEF Folds, FoldsAll
<1>5. g[R] = h[R]
  <2>1. FoldsAll(g, op, base, f, S) /\ FoldsAll(h, op, base, f, R) /\ Within(R, S)
    BY <1>1, <1>3 DEF Within
  <2> HIDE DEF R
  <2> QED
    BY <2>1, FoldsAgree
<1> QED
  BY <1>1, <1>3, <1>4, <1>5

LEMMA FoldOfNone == ASSUME NEW op, NEW base, NEW f PROVE FoldOf(op, base, f, {}) = base
BY FoldPicks, FS_EmptySet

\* op is commutative and associative on V, and base is an element of V.
Combines(op, base, V) ==
  /\ base \in V
  /\ \A a, b \in V : op[<<a, b>>] \in V /\ op[<<a, b>>] = op[<<b, a>>]
  /\ \A a, b, c \in V : op[<<op[<<a, b>>], c>>] = op[<<a, op[<<b, c>>]>>]

LEMMA FoldIsValue ==
  ASSUME NEW op, NEW base, NEW V, Combines(op, base, V),
         NEW S, IsFiniteSet(S), NEW f, \A x \in S : f[x] \in V
  PROVE  FoldOf(op, base, f, S) \in V
<1> DEFINE Good == {s \in SUBSET S : FoldOf(op, base, f, s) \in V}
<1>1. ASSUME NEW s \in SUBSET S, \A x \in s : s \ {x} \in Good PROVE s \in Good
  <2>1. IsFiniteSet(s)
    BY FS_Subset
  <2>2. FoldOf(op, base, f, s) =
          IF s = {} THEN base ELSE op[<<f[Pick(s)], FoldOf(op, base, f, s \ {Pick(s)})>>]
    BY <2>1, FoldPicks
  <2>3. s # {} => f[Pick(s)] \in V /\ FoldOf(op, base, f, s \ {Pick(s)}) \in V
    BY <1>1, Picked
  <2>4. base \in V /\ \A a, b \in V : op[<<a, b>>] \in V
    BY DEF Combines
  <2> QED
    BY <2>2, <2>3, <2>4
<1>2. SUBSET S = Good
  <2>1. Good \subseteq SUBSET S
    OBVIOUS
  <2>2. \A s \in SUBSET S : (\A x \in s : s \ {x} \in Good) => s \in Good
    BY <1>1
  <2> HIDE DEF Good
  <2> QED
    BY <2>1, <2>2, SetsAreGood, Zenon
<1> QED
  BY <1>2

LEMMA Swaps ==
  ASSUME NEW op, NEW base, NEW V, Combines(op, base, V), NEW a \in V, NEW b \in V, NEW c \in V
  PROVE  op[<<a, op[<<b, c>>]>>] = op[<<b, op[<<a, c>>]>>]
<1>1. \A x, y \in V : op[<<x, y>>] = op[<<y, x>>]
  BY DEF Combines
<1>2. \A x, y, z \in V : op[<<op[<<x, y>>], z>>] = op[<<x, op[<<y, z>>]>>]
  BY DEF Combines
<1>3. op[<<a, op[<<b, c>>]>>] = op[<<op[<<a, b>>], c>>]
  BY <1>2, Zenon
<1>4. op[<<b, op[<<a, c>>]>>] = op[<<op[<<b, a>>], c>>]
  BY <1>2, Zenon
<1>5. op[<<a, b>>] = op[<<b, a>>]
  BY <1>1, Zenon
<1> QED
  BY <1>3, <1>4, <1>5, Zenon

\* The order does not matter: any element may come first.
LEMMA FoldTakesOut ==
  ASSUME NEW op, NEW base, NEW V, Combines(op, base, V),
         NEW S, IsFiniteSet(S), NEW f, \A x \in S : f[x] \in V, NEW y \in S
  PROVE  FoldOf(op, base, f, S) = op[<<f[y], FoldOf(op, base, f, S \ {y})>>]
<1> DEFINE Sum(s) == FoldOf(op, base, f, s)
           Good == {s \in SUBSET S : \A z \in s : Sum(s) = op[<<f[z], Sum(s \ {z})>>]}
<1>0. ASSUME NEW s \in SUBSET S PROVE IsFiniteSet(s) /\ Sum(s) \in V
  BY FS_Subset, FoldIsValue
<1>p. ASSUME NEW s \in SUBSET S, s # {} PROVE Sum(s) = op[<<f[Pick(s)], Sum(s \ {Pick(s)})>>]
  BY <1>p, <1>0, FoldPicks
<1>1. ASSUME NEW s \in SUBSET S, \A x \in s : s \ {x} \in Good PROVE s \in Good
  <2> SUFFICES ASSUME NEW z \in s, z # Pick(s) PROVE Sum(s) = op[<<f[z], Sum(s \ {z})>>]
    BY <1>p
  <2> DEFINE x == Pick(s)
             r == (s \ {x}) \ {z}
  <2>1. x \in s /\ z \in s \ {x} /\ x \in s \ {z} /\ r = (s \ {z}) \ {x} /\ r \in SUBSET S
    BY Picked
  <2>2. Sum(s) = op[<<f[x], Sum(s \ {x})>>]
    BY <1>p, <2>1
  <2> HIDE DEF x, r
  <2>3. Sum(s \ {x}) = op[<<f[z], Sum(r)>>]
    <3> HIDE DEF Sum
    <3> QED
      BY <1>1, <2>1 DEF r
  <2>4. Sum(s \ {z}) = op[<<f[x], Sum(r)>>]
    <3>1. s \ {z} \in Good
      BY <1>1
    <3> HIDE DEF Sum
    <3> QED
      BY <2>1, <3>1
  <2>5. f[x] \in V /\ f[z] \in V /\ Sum(r) \in V
    BY <1>0, <2>1
  <2>6. op[<<f[x], op[<<f[z], Sum(r)>>]>>] = op[<<f[z], op[<<f[x], Sum(r)>>]>>]
    <3> HIDE DEF Sum
    <3> QED
      BY <2>5, Swaps
  <2> QED
    BY <2>2, <2>3, <2>4, <2>6
<1>2. SUBSET S = Good
  <2>1. Good \subseteq SUBSET S
    OBVIOUS
  <2>2. \A s \in SUBSET S : (\A x \in s : s \ {x} \in Good) => s \in Good
    BY <1>1
  <2> HIDE DEF Good
  <2> QED
    BY <2>1, <2>2, SetsAreGood, Zenon
<1> QED
  BY <1>2

\* Only the values on the set matter.
LEMMA FoldDepends ==
  ASSUME NEW op, NEW base, NEW S, IsFiniteSet(S), NEW f, NEW g, \A x \in S : f[x] = g[x]
  PROVE  FoldOf(op, base, f, S) = FoldOf(op, base, g, S)
<1> DEFINE Good == {s \in SUBSET S : FoldOf(op, base, f, s) = FoldOf(op, base, g, s)}
<1>1. ASSUME NEW s \in SUBSET S, \A x \in s : s \ {x} \in Good PROVE s \in Good
  <2>1. IsFiniteSet(s)
    BY FS_Subset
  <2>2. /\ FoldOf(op, base, f, s) =
             IF s = {} THEN base ELSE op[<<f[Pick(s)], FoldOf(op, base, f, s \ {Pick(s)})>>]
        /\ FoldOf(op, base, g, s) =
             IF s = {} THEN base ELSE op[<<g[Pick(s)], FoldOf(op, base, g, s \ {Pick(s)})>>]
    BY <2>1, FoldPicks
  <2>3. s # {} =>
          /\ f[Pick(s)] = g[Pick(s)]
          /\ FoldOf(op, base, f, s \ {Pick(s)}) = FoldOf(op, base, g, s \ {Pick(s)})
    BY <1>1, Picked
  <2> QED
    BY <2>2, <2>3
<1>2. SUBSET S = Good
  <2>1. Good \subseteq SUBSET S
    OBVIOUS
  <2>2. \A s \in SUBSET S : (\A x \in s : s \ {x} \in Good) => s \in Good
    BY <1>1
  <2> HIDE DEF Good
  <2> QED
    BY <2>1, <2>2, SetsAreGood, Zenon
<1> QED
  BY <1>2

-----------------------------------------------------------------------------
(* Sums of integers. *)

Add == [p \in Int \X Int |-> p[1] + p[2]]

LEMMA AddCombines == Combines(Add, 0, Int)
<1>1. \A a, b \in Int : Add[<<a, b>>] = a + b
  BY DEF Add
<1> QED
  BY <1>1 DEF Combines

SumsAll(g, f, S) ==
  g = [s \in SUBSET S |-> IF s = {} THEN 0 ELSE f[Pick(s)] + g[s \ {Pick(s)}]]

LEMMA SumIs ==
  ASSUME NEW f, NEW S
  PROVE  SumFunctionOnSet(f, S) = (CHOOSE g : SumsAll(g, f, S))[S]
BY DEF SumFunctionOnSet, FoldFunctionOnSet, MapThenFoldSet, SumsAll, Pick

LEMMA SumIsFold ==
  ASSUME NEW S, IsFiniteSet(S), NEW f, \A x \in S : f[x] \in Int
  PROVE  SumFunctionOnSet(f, S) = FoldOf(Add, 0, f, S)
<1> DEFINE h == [s \in SUBSET S |-> FoldOf(Add, 0, f, s)]
<1>1. ASSUME NEW s \in SUBSET S
      PROVE  /\ h[s] \in Int
             /\ h[s] = IF s = {} THEN 0 ELSE f[Pick(s)] + h[s \ {Pick(s)}]
  <2>1. IsFiniteSet(s) /\ FoldOf(Add, 0, f, s) \in Int
    BY FS_Subset, FoldIsValue, AddCombines
  <2>2. CASE s = {}
    BY <2>1, <2>2, FoldOfNone
  <2>3. CASE s # {}
    <3> DEFINE r == s \ {Pick(s)}
    <3>1. Pick(s) \in S /\ r \in SUBSET S
      BY <2>3, Picked
    <3>2. FoldOf(Add, 0, f, s) = Add[<<f[Pick(s)], FoldOf(Add, 0, f, r)>>]
      BY <2>1, <2>3, FoldPicks
    <3>3. IsFiniteSet(r)
      BY <3>1, FS_Subset
    <3>4. \A x \in r : f[x] \in Int
      BY <3>1
    <3> HIDE DEF r
    <3>5. FoldOf(Add, 0, f, r) \in Int
      BY <3>3, <3>4, FoldIsValue, AddCombines
    <3>6. FoldOf(Add, 0, f, s) = f[Pick(s)] + FoldOf(Add, 0, f, r)
      BY <3>1, <3>2, <3>5 DEF Add
    <3> QED
      BY <2>1, <2>3, <3>1, <3>6 DEF r
  <2> QED
    BY <2>2, <2>3
<1>2. SumsAll(h, f, S)
  <2>1. h = [s \in SUBSET S |-> h[s]]
    OBVIOUS
  <2> HIDE DEF h
  <2>2. h = [s \in SUBSET S |-> IF s = {} THEN 0 ELSE f[Pick(s)] + h[s \ {Pick(s)}]]
    BY <1>1, <2>1
  <2> QED
    BY <2>2 DEF SumsAll
<1>3. PICK g : SumsAll(g, f, S) /\ SumFunctionOnSet(f, S) = g[S]
  BY <1>2, SumIs
<1>4. h[S] = FoldOf(Add, 0, f, S)
  OBVIOUS
<1> HIDE DEF h
<1> DEFINE Good == {s \in SUBSET S : g[s] = h[s]}
<1>5. ASSUME NEW s \in SUBSET S, \A x \in s : s \ {x} \in Good PROVE s \in Good
  <2>1. g[s] = IF s = {} THEN 0 ELSE f[Pick(s)] + g[s \ {Pick(s)}]
    BY <1>3, Zenon DEF SumsAll
  <2>2. s # {} => g[s \ {Pick(s)}] = h[s \ {Pick(s)}]
    BY <1>5, Picked
  <2> QED
    BY <1>1, <2>1, <2>2
<1>6. SUBSET S = Good
  <2>1. Good \subseteq SUBSET S
    OBVIOUS
  <2>2. \A s \in SUBSET S : (\A x \in s : s \ {x} \in Good) => s \in Good
    BY <1>5
  <2> HIDE DEF Good
  <2> QED
    BY <2>1, <2>2, SetsAreGood, Zenon
<1>7. g[S] = h[S]
  BY <1>6
<1> QED
  BY <1>3, <1>4, <1>7

LEMMA SumOfNone == ASSUME NEW f PROVE SumFunctionOnSet(f, {}) = 0
<1>1. IsFiniteSet({})
  BY FS_EmptySet
<1>2. SumFunctionOnSet(f, {}) = FoldOf(Add, 0, f, {})
  BY <1>1, SumIsFold
<1> QED
  BY <1>2, FoldOfNone

LEMMA SumIsNumber ==
  ASSUME NEW S, IsFiniteSet(S), NEW f, \A x \in S : f[x] \in Int
  PROVE  SumFunctionOnSet(f, S) \in Int
BY SumIsFold, FoldIsValue, AddCombines

LEMMA SumTakesOut ==
  ASSUME NEW S, IsFiniteSet(S), NEW f, \A x \in S : f[x] \in Int, NEW y \in S
  PROVE  SumFunctionOnSet(f, S) = f[y] + SumFunctionOnSet(f, S \ {y})
<1> DEFINE R == S \ {y}
<1>1. IsFiniteSet(R) /\ \A x \in R : f[x] \in Int
  BY FS_Subset
<1>2. FoldOf(Add, 0, f, S) = Add[<<f[y], FoldOf(Add, 0, f, R)>>]
  BY FoldTakesOut, AddCombines
<1> HIDE DEF R
<1>3. FoldOf(Add, 0, f, R) \in Int
  BY <1>1, FoldIsValue, AddCombines
<1>4. SumFunctionOnSet(f, S) = FoldOf(Add, 0, f, S) /\ SumFunctionOnSet(f, R) = FoldOf(Add, 0, f, R)
  BY <1>1, SumIsFold
<1>5. Add[<<f[y], FoldOf(Add, 0, f, R)>>] = f[y] + FoldOf(Add, 0, f, R)
  BY <1>3 DEF Add
<1> QED
  BY <1>2, <1>4, <1>5 DEF R

LEMMA SumAdds ==
  ASSUME NEW S, IsFiniteSet(S), NEW y, y \notin S, NEW f, \A x \in S \cup {y} : f[x] \in Int
  PROVE  SumFunctionOnSet(f, S \cup {y}) = SumFunctionOnSet(f, S) + f[y]
<1>1. IsFiniteSet(S \cup {y}) /\ (S \cup {y}) \ {y} = S /\ y \in S \cup {y}
  BY FS_AddElement
<1>2. SumFunctionOnSet(f, S \cup {y}) = f[y] + SumFunctionOnSet(f, S)
  BY <1>1, SumTakesOut
<1>3. SumFunctionOnSet(f, S) \in Int
  BY SumIsNumber
<1> QED
  BY <1>2, <1>3

LEMMA SumDepends ==
  ASSUME NEW S, IsFiniteSet(S), NEW f, NEW g,
         \A x \in S : f[x] \in Int /\ f[x] = g[x]
  PROVE  SumFunctionOnSet(f, S) = SumFunctionOnSet(g, S)
<1>1. SumFunctionOnSet(f, S) = FoldOf(Add, 0, f, S)
  BY SumIsFold
<1>2. SumFunctionOnSet(g, S) = FoldOf(Add, 0, g, S)
  BY SumIsFold
<1>3. FoldOf(Add, 0, f, S) = FoldOf(Add, 0, g, S)
  BY FoldDepends
<1> QED
  BY <1>1, <1>2, <1>3

-----------------------------------------------------------------------------
(* Euclid. *)

Divides(c, a) == \E k \in Int : a = c * k
Common(p) == {c \in Nat : Divides(c, p[1]) /\ Divides(c, p[2])}
Divisors(a) == {c \in Nat : Divides(c, a)}

Best(S) == CHOOSE c \in Nat : Divisors(c) = S

LEMMA DivMod ==
  ASSUME NEW a \in Nat, NEW b \in Nat \ {0}
  PROVE  /\ a % b \in Nat /\ a % b < b /\ a \div b \in Nat
         /\ a = b * (a \div b) + (a % b)
<1>1. a % b \in Nat
  OBVIOUS
<1>2. a % b < b
  OBVIOUS
<1>3. a \div b \in Nat
  OBVIOUS
<1>4. a = b * (a \div b) + (a % b)
  OBVIOUS
<1> QED
  BY <1>1, <1>2, <1>3, <1>4

LEMMA DivisorsDiffer ==
  ASSUME NEW a \in Nat, NEW b \in Nat, Divisors(a) = Divisors(b)
  PROVE  a = b
<1>1. Divides(a, b) /\ Divides(b, a)
  <2>1. a * 1 = a /\ b * 1 = b /\ 1 \in Int
    OBVIOUS
  <2>2. a \in Divisors(a) /\ b \in Divisors(b)
    BY <2>1 DEF Divisors, Divides
  <2> QED
    BY <2>2 DEF Divisors
<1>2. PICK k \in Int, l \in Int : b = a * k /\ a = b * l
  BY <1>1 DEF Divides
<1>3. a = 0 => b = 0
  BY <1>2
<1>4. b = 0 => a = 0
  BY <1>2
<1>5. ASSUME a > 0, b > 0 PROVE a = b
  <2>1. k >= 1 /\ l >= 1
    BY <1>2, <1>5
  <2>2. a * k >= a /\ b * l >= b
    BY <2>1, <1>5
  <2> QED
    BY <1>2, <2>2
<1> QED
  BY <1>3, <1>4, <1>5

LEMMA CommonSteps ==
  ASSUME NEW a \in Nat, NEW b \in Nat \ {0}
  PROVE  Common(<<a, b>>) = Common(<<b, a % b>>)
<1> DEFINE q == a \div b
           r == a % b
<1>1. q \in Nat /\ r \in Nat /\ a = b * q + r
  BY DivMod
<1> HIDE DEF q, r
<1>2. ASSUME NEW c \in Nat, Divides(c, a), Divides(c, b) PROVE Divides(c, r)
  <2>1. PICK k \in Int, l \in Int : a = c * k /\ b = c * l
    BY <1>2 DEF Divides
  <2>2. r = c * (k - l * q)
    BY <1>1, <2>1
  <2> QED
    BY <1>1, <2>1, <2>2 DEF Divides
<1>3. ASSUME NEW c \in Nat, Divides(c, b), Divides(c, r) PROVE Divides(c, a)
  <2>1. PICK k \in Int, l \in Int : b = c * k /\ r = c * l
    BY <1>3 DEF Divides
  <2>2. a = c * (k * q + l)
    BY <1>1, <2>1
  <2> QED
    BY <1>1, <2>1, <2>2 DEF Divides
<1>4. Common(<<a, b>>) = Common(<<b, r>>)
  BY <1>2, <1>3 DEF Common
<1> QED
  BY <1>4 DEF r

\* Euclid's recursion defines a function.
LEMMA GcdSteps ==
  \A p \in Nat \X Nat : gcd[p] = IF p[2] = 0 THEN p[1] ELSE gcd[<<p[2], p[1] % p[2]>>]
<1> DEFINE G == [p \in Nat \X Nat |-> Best(Common(p))]
           Euclid(g) == g = [p \in Nat \X Nat |-> IF p[2] = 0 THEN p[1] ELSE g[<<p[2], p[1] % p[2]>>]]
<1>1. ASSUME NEW a \in Nat, NEW b \in Nat
      PROVE  G[<<a, b>>] = IF b = 0 THEN a ELSE G[<<b, a % b>>]
  <2>1. CASE b = 0
    <3>1. Divides(0, 0) /\ \A c \in Nat : Divides(c, 0)
      <4>1. \A c \in Nat : 0 = c * 0
        OBVIOUS
      <4> QED
        BY <4>1 DEF Divides
    <3>2. Common(<<a, b>>) = Divisors(a)
      BY <2>1, <3>1 DEF Common, Divisors
    <3>3. \A c \in Nat : Divisors(c) = Common(<<a, b>>) => c = a
      BY <3>2, DivisorsDiffer
    <3>4. Best(Common(<<a, b>>)) = a
      BY <3>2, <3>3 DEF Best
    <3> QED
      BY <2>1, <3>4
  <2>2. CASE b # 0
    <3>1. a % b \in Nat /\ Common(<<a, b>>) = Common(<<b, a % b>>)
      BY <2>2, DivMod, CommonSteps
    <3>2. <<a, b>> \in Nat \X Nat /\ <<b, a % b>> \in Nat \X Nat
      BY <3>1
    <3>3. G[<<a, b>>] = G[<<b, a % b>>]
      BY <3>1, <3>2, Zenon
    <3> QED
      BY <2>2, <3>3
  <2> QED
    BY <2>1, <2>2
<1>2. Euclid(G)
  <2>2. G = [p \in Nat \X Nat |-> G[p]]
    OBVIOUS
  <2> HIDE DEF G
  <2>1. ASSUME NEW p \in Nat \X Nat
        PROVE  G[p] = IF p[2] = 0 THEN p[1] ELSE G[<<p[2], p[1] % p[2]>>]
    <3>1. p = <<p[1], p[2]>> /\ p[1] \in Nat /\ p[2] \in Nat
      OBVIOUS
    <3> QED
      BY <1>1, <3>1
  <2> QED
    BY <2>1, <2>2
<1> HIDE DEF G
<1>3. gcd = CHOOSE g : Euclid(g)
  BY DEF gcd
<1>4. Euclid(gcd)
  BY <1>2, <1>3
<1> QED
  BY <1>4

\* What Euclid finds divides both numbers and is a combination of them.
Greatest(g, a, b) ==
  /\ g \in Nat
  /\ \E k, l, x, y \in Int : a = g * k /\ b = g * l /\ g = x * a + y * b

LEMMA GcdDivides == \A a, b \in Nat : Greatest(gcd[<<a, b>>], a, b)
<1> DEFINE T == {b \in Nat : \E a \in Nat : ~Greatest(gcd[<<a, b>>], a, b)}
<1>1. SUFFICES ASSUME T # {} PROVE FALSE
  OBVIOUS
<1>2. PICK b \in T : \A c \in T : b <= c
  BY <1>1, LeastNumber
<1>3. PICK a \in Nat : b \in Nat /\ ~Greatest(gcd[<<a, b>>], a, b)
  OBVIOUS
<1>f. ASSUME NEW r \in Nat, r < b, NEW c \in Nat PROVE Greatest(gcd[<<c, r>>], c, r)
  <2>1. r \notin T
    <3> HIDE DEF T
    <3> QED
      BY <1>2, <1>3, <1>f
  <2> QED
    BY <2>1
<1>4. CASE b = 0
  <2>1. gcd[<<a, b>>] = a
    BY <1>3, <1>4, GcdSteps
  <2>2. a = a * 1 /\ b = a * 0 /\ a = 1 * a + 0 * b
    BY <1>3, <1>4
  <2> QED
    BY <1>3, <2>1, <2>2 DEF Greatest
<1>5. CASE b > 0
  <2> DEFINE q == a \div b
             r == a % b
             g == gcd[<<b, r>>]
  <2>1. q \in Nat /\ r \in Nat /\ r < b /\ a = b * q + r
    BY <1>3, <1>5, DivMod
  <2>2. gcd[<<a, b>>] = g
    BY <1>3, <1>5, GcdSteps
  <2> HIDE DEF q, r
  <2>4. Greatest(g, b, r)
    BY <1>3, <1>f, <2>1
  <2> HIDE DEF g
  <2>5. PICK k, l, x, y \in Int : b = g * k /\ r = g * l /\ g = x * b + y * r
    BY <2>4 DEF Greatest
  <2>6. g \in Nat /\ a \in Nat /\ b \in Nat
    BY <1>3, <2>4 DEF Greatest
  <2>7. a = g * (k * q + l)
    BY <2>1, <2>5, <2>6
  <2>8. r = a - b * q
    BY <2>1, <2>6
  <2>9. g = y * a + (x - y * q) * b
    BY <2>1, <2>5, <2>6, <2>8
  <2>10. k * q + l \in Int /\ x - y * q \in Int
    BY <2>1
  <2> QED
    BY <1>3, <2>2, <2>5, <2>6, <2>7, <2>9, <2>10 DEF Greatest
<1> QED
  BY <1>3, <1>4, <1>5

-----------------------------------------------------------------------------
(* Fractions in lowest terms. *)

Coprime(a, b) == \E x, y \in Int : x * a + y * b = 1

Lowest == {f \in Fraction : Coprime(f.num, f.den)}

LEMMA ExactDiv ==
  ASSUME NEW g \in Nat \ {0}, NEW m \in Int
  PROVE  (g * m) \div g = m
<1> DEFINE q == (g * m) \div g
<1>1. q \in Int /\ g * q <= g * m /\ g * m < g * q + g
  OBVIOUS
<1> HIDE DEF q
<1>2. g * (m - q) >= 0 /\ g * (m - q) < g
  BY <1>1
<1>3. m - q < 1
  BY <1>1, <1>2
<1>4. m - q > -1
  BY <1>1, <1>2
<1> QED
  BY <1>1, <1>3, <1>4 DEF q

LEMMA LowestTerms ==
  ASSUME NEW n \in Int, NEW d \in Int, d # 0
  PROVE  /\ lowest[<<n, d>>] \in Lowest
         /\ \E g \in Int \ {0} : n = g * lowest[<<n, d>>].num /\ d = g * lowest[<<n, d>>].den
<1> DEFINE g == gcd[<<Abs(n), Abs(d)>>]
           s == IF d < 0 THEN -1 ELSE 1
<1>1. Abs(n) \in Nat /\ Abs(d) \in Nat /\ Abs(d) > 0 /\ s * d = Abs(d)
  BY DEF Abs
<1>2. Greatest(g, Abs(n), Abs(d))
  BY <1>1, GcdDivides
<1>3. lowest[<<n, d>>] = [num |-> (s * n) \div g, den |-> (s * d) \div g]
  BY DEF lowest
<1>4. s \in {1, -1} /\ s * n \in {Abs(n), -Abs(n)}
  BY DEF Abs
<1> HIDE DEF g, s
<1>5. PICK k, l, x, y \in Int : Abs(n) = g * k /\ Abs(d) = g * l /\ g = x * Abs(n) + y * Abs(d)
  BY <1>2 DEF Greatest
<1>6. g \in Nat /\ g # 0 /\ l > 0
  <2>1. g \in Nat
    BY <1>2 DEF Greatest
  <2>2. g # 0
    BY <1>1, <1>5
  <2> QED
    BY <1>1, <1>5, <2>1, <2>2
<1>7. PICK m \in {k, -k} : s * n = g * m
  BY <1>4, <1>5, <1>6
<1>8. (s * n) \div g = m /\ (s * d) \div g = l
  BY <1>1, <1>5, <1>6, <1>7, ExactDiv
<1>9. lowest[<<n, d>>] = [num |-> m, den |-> l]
  BY <1>3, <1>8
<1>10. x * k + y * l = 1
  <2>1. g * (x * k + y * l) = g
    BY <1>5, <1>6
  <2> DEFINE z == x * k + y * l
  <2>2. z \in Int /\ g * z = g
    BY <2>1
  <2> HIDE DEF z
  <2>3. z = 1
    <3>1. g * (z - 1) = 0
      BY <1>6, <2>2
    <3> QED
      BY <1>6, <2>2, <3>1
  <2> QED
    BY <2>3 DEF z
<1>11. Coprime(m, l)
  <2>1. CASE m = k
    BY <1>10, <2>1 DEF Coprime
  <2>2. CASE m = -k
    <3>1. (-x) * m + y * l = 1 /\ -x \in Int
      BY <1>10, <2>2
    <3> QED
      BY <3>1 DEF Coprime
  <2> QED
    BY <2>1, <2>2
<1>12. lowest[<<n, d>>] \in Lowest
  BY <1>6, <1>9, <1>11 DEF Lowest, Fraction
<1>13. n = (s * g) * m /\ d = (s * g) * l /\ s * g \in Int \ {0}
  <2>1. CASE s = 1
    BY <1>1, <1>5, <1>6, <1>7, <2>1
  <2>2. CASE s = -1
    BY <1>1, <1>5, <1>6, <1>7, <2>2
  <2> QED
    BY <1>4, <2>1, <2>2
<1>14. lowest[<<n, d>>].num = m /\ lowest[<<n, d>>].den = l
  BY <1>9
<1> QED
  BY <1>12, <1>13, <1>14

\* f stands for n / d.
Is(f, n, d) == f \in Lowest /\ f.num * d = n * f.den

LEMMA LowestType == \A f \in Lowest : /\ f.num \in Int /\ f.den \in Nat /\ f.den > 0
                                      /\ f = [num |-> f.num, den |-> f.den]
BY DEF Lowest, Fraction

LEMMA Cancel == \A a, b, c \in Int : c # 0 /\ a * c = b * c => a = b
<1> SUFFICES ASSUME NEW a \in Int, NEW b \in Int, NEW c \in Int, c # 0, a * c = b * c PROVE a = b
  OBVIOUS
<1>1. (a - b) * c = 0
  OBVIOUS
<1> QED
  BY <1>1

\* A fraction in lowest terms is determined by its value.
LEMMA SameDen ==
  ASSUME NEW a \in Lowest, NEW b \in Lowest, a.num * b.den = b.num * a.den
  PROVE  b.den >= a.den
<1>1. /\ a.num \in Int /\ b.num \in Int /\ a.den \in Int /\ b.den \in Int
      /\ a.den > 0 /\ b.den > 0
  BY LowestType
<1>2. PICK x, y \in Int : x * a.num + y * a.den = 1
  BY DEF Lowest, Coprime
<1>3. b.den = (x * a.num + y * a.den) * b.den
  BY <1>1, <1>2
<1>4. (x * a.num + y * a.den) * b.den = x * (a.num * b.den) + y * a.den * b.den
  BY <1>1
<1>5. b.den = a.den * (x * b.num + y * b.den)
  BY <1>1, <1>3, <1>4
<1> DEFINE z == x * b.num + y * b.den
<1>6. z \in Int
  BY <1>1
<1> HIDE DEF z
<1>7. b.den = a.den * z
  BY <1>5 DEF z
<1>8. z >= 1
  BY <1>1, <1>6, <1>7
<1> QED
  BY <1>1, <1>6, <1>7, <1>8

LEMMA SameValue ==
  ASSUME NEW a \in Lowest, NEW b \in Lowest, a.num * b.den = b.num * a.den
  PROVE  a = b
<1>1. a.num \in Int /\ b.num \in Int /\ a.den \in Int /\ b.den \in Int /\ a.den > 0 /\ b.den > 0
  BY LowestType
<1>2. a.den = b.den
  BY <1>1, SameDen
<1>3. a.num = b.num
  BY <1>1, <1>2, Cancel
<1> QED
  BY <1>2, <1>3, LowestType

LEMMA IsSame ==
  ASSUME NEW n \in Int, NEW d \in Int, NEW m \in Int, NEW e \in Int, d # 0, e # 0,
         n * e = m * d, NEW a, NEW b, Is(a, n, d), Is(b, m, e)
  PROVE  a = b
<1> DEFINE p == a.num
           q == a.den
           r == b.num
           t == b.den
<1>1. p \in Int /\ q \in Int /\ r \in Int /\ t \in Int /\ q > 0 /\ t > 0
  BY LowestType DEF Is
<1>2. p * d = n * q /\ r * e = m * t
  BY DEF Is
<1> HIDE DEF p, q, r, t
<1>3. (p * t) * (d * e) = (p * d) * (t * e)
  BY <1>1
<1>4. (p * d) * (t * e) = (n * q) * (t * e)
  BY <1>2
<1>5. (n * q) * (t * e) = (n * e) * (q * t)
  BY <1>1
<1>6. (n * e) * (q * t) = (m * d) * (q * t)
  OBVIOUS
<1>7. (m * d) * (q * t) = (m * t) * (d * q)
  BY <1>1
<1>8. (m * t) * (d * q) = (r * e) * (d * q)
  BY <1>2
<1>9. (r * e) * (d * q) = (r * q) * (d * e)
  BY <1>1
<1>10. (p * t) * (d * e) = (r * q) * (d * e)
  BY <1>3, <1>4, <1>5, <1>6, <1>7, <1>8, <1>9
<1>11. d * e # 0 /\ d * e \in Int /\ p * t \in Int /\ r * q \in Int
  BY <1>1
<1>12. p * t = r * q
  BY <1>10, <1>11, Cancel
<1> QED
  BY <1>12, SameValue DEF Is, p, q, r, t

LEMMA IsItself == \A f \in Lowest : Is(f, f.num, f.den)
BY DEF Is

LEMMA WholeIs == \A n \in Int : Is(Whole(n), n, 1)
<1>1. \A n \in Int : 0 * n + 1 * 1 = 1
  OBVIOUS
<1>2. \A n \in Int : Coprime(n, 1)
  BY <1>1 DEF Coprime
<1> QED
  BY <1>2 DEF Is, Whole, Lowest, Fraction

LEMMA IsMoves ==
  ASSUME NEW n \in Int, NEW d \in Int, NEW m \in Int, NEW e \in Int, d # 0, e # 0,
         n * e = m * d, NEW f, Is(f, n, d)
  PROVE  Is(f, m, e)
<1> DEFINE p == f.num
           q == f.den
<1>1. p \in Int /\ q \in Int /\ p * d = n * q
  BY LowestType DEF Is
<1> HIDE DEF p, q
<1>2. (p * e) * d = (p * d) * e
  BY <1>1
<1>3. (p * d) * e = (n * q) * e
  BY <1>1
<1>4. (n * q) * e = (n * e) * q
  BY <1>1
<1>5. (n * e) * q = (m * d) * q
  OBVIOUS
<1>6. (m * d) * q = (m * q) * d
  BY <1>1
<1>7. (p * e) * d = (m * q) * d
  BY <1>2, <1>3, <1>4, <1>5, <1>6
<1>8. p * e = m * q
  BY <1>1, <1>7, Cancel
<1> QED
  BY <1>8 DEF Is, p, q

LEMMA LowestIs ==
  ASSUME NEW n \in Int, NEW d \in Int, d # 0
  PROVE  Is(lowest[<<n, d>>], n, d)
<1> DEFINE r == lowest[<<n, d>>]
<1>1. r \in Lowest /\ r.num \in Int /\ r.den \in Int
  BY LowestTerms, LowestType
<1>2. PICK g \in Int \ {0} : n = g * r.num /\ d = g * r.den
  BY LowestTerms
<1> HIDE DEF r
<1>3. r.num * d = n * r.den
  BY <1>1, <1>2
<1> QED
  BY <1>1, <1>3 DEF Is, r

LEMMA PlusIs ==
  ASSUME NEW n \in Int, NEW d \in Int, NEW m \in Int, NEW e \in Int, d # 0, e # 0,
         NEW a, NEW b, Is(a, n, d), Is(b, m, e)
  PROVE  Is(Plus(a, b), n * e + m * d, d * e)
<1> DEFINE p == a.num
           q == a.den
           r == b.num
           t == b.den
           g == gcd[<<q, t>>]
<1>1. p \in Int /\ q \in Nat /\ r \in Int /\ t \in Nat /\ q > 0 /\ t > 0
  BY LowestType DEF Is
<1>2. p * d = n * q /\ r * e = m * t
  BY DEF Is
<1>3. Plus(a, b) = lowest[<<p * (t \div g) + r * (q \div g), q * (t \div g)>>]
  BY DEF Plus, plus, Is, Lowest
<1>4. Greatest(g, q, t)
  BY <1>1, GcdDivides
<1> HIDE DEF p, q, r, t, g
<1>5. PICK k, l \in Int : q = g * k /\ t = g * l
  BY <1>4 DEF Greatest
<1>6. g \in Nat /\ g # 0
  BY <1>1, <1>4, <1>5 DEF Greatest
<1>7. t \div g = l /\ q \div g = k
  BY <1>5, <1>6, ExactDiv
<1> DEFINE v == p * l + r * k
           w == q * l
<1>8. v \in Int /\ w \in Int /\ w # 0
  <2>1. l # 0
    BY <1>1, <1>5, <1>6
  <2> QED
    BY <1>1, <2>1
<1>9. Plus(a, b) = lowest[<<v, w>>]
  BY <1>3, <1>7
<1>10. v * (d * e) = (n * e + m * d) * w
  <2>1. v * (d * e) = (p * d) * (l * e) + (r * e) * (k * d)
    BY <1>1
  <2>2. (p * d) * (l * e) + (r * e) * (k * d) = (n * q) * (l * e) + (m * t) * (k * d)
    BY <1>2
  <2>3. (n * q) * (l * e) = (n * e) * w
    BY <1>1
  <2>4. t * k = q * l
    BY <1>1, <1>5, <1>6
  <2>5. (m * t) * (k * d) = (m * d) * (t * k)
    BY <1>1
  <2>6. (m * t) * (k * d) = (m * d) * w
    BY <2>4, <2>5
  <2>7. (n * e + m * d) * w = (n * e) * w + (m * d) * w
    BY <1>8
  <2> QED
    BY <2>1, <2>2, <2>3, <2>6, <2>7
<1>11. Is(Plus(a, b), v, w)
  BY <1>8, <1>9, LowestIs
<1> HIDE DEF v, w
<1>12. n * e + m * d \in Int /\ d * e \in Int /\ d * e # 0
  OBVIOUS
<1> QED
  BY <1>8, <1>10, <1>11, <1>12, IsMoves

LEMMA CoprimeProduct ==
  ASSUME NEW a \in Int, NEW b \in Int, NEW c \in Int, Coprime(a, b), Coprime(a, c)
  PROVE  Coprime(a, b * c) /\ Coprime(b * c, a)
<1>1. PICK x, y \in Int : x * a + y * b = 1
  BY DEF Coprime
<1>2. PICK u, v \in Int : u * a + v * c = 1
  BY DEF Coprime
<1>3. (x * a + y * b) * (u * a + v * c) = 1
  BY <1>1, <1>2
<1>4. (x * a + y * b) * (u * a + v * c)
        = (x * u * a + x * v * c + y * u * b) * a + (y * v) * (b * c)
  OBVIOUS
<1> DEFINE z == x * u * a + x * v * c + y * u * b
<1>5. z \in Int /\ y * v \in Int /\ b * c \in Int
  OBVIOUS
<1>6. z * a + (y * v) * (b * c) = 1
  BY <1>3, <1>4
<1> HIDE DEF z
<1>7. (y * v) * (b * c) + z * a = 1
  BY <1>5, <1>6
<1> QED
  BY <1>5, <1>6, <1>7 DEF Coprime

LEMMA CoprimeParts ==
  ASSUME NEW a \in Int, NEW b \in Int, NEW g \in Int, NEW h \in Int, Coprime(g * a, h * b)
  PROVE  Coprime(a, b) /\ Coprime(b, a)
<1>1. PICK x, y \in Int : x * (g * a) + y * (h * b) = 1
  BY DEF Coprime
<1>2. (x * g) * a + (y * h) * b = 1 /\ (y * h) * b + (x * g) * a = 1
  BY <1>1
<1>3. x * g \in Int /\ y * h \in Int
  OBVIOUS
<1> QED
  BY <1>2, <1>3 DEF Coprime

LEMMA TimesIs ==
  ASSUME NEW n \in Int, NEW d \in Int, NEW m \in Int, NEW e \in Int, d # 0, e # 0,
         NEW a, NEW b, Is(a, n, d), Is(b, m, e)
  PROVE  Is(Times(a, b), n * m, d * e)
<1> DEFINE p == a.num
           q == a.den
           r == b.num
           t == b.den
           x == lowest[<<p, t>>]
           y == lowest[<<r, q>>]
<1>1. /\ p \in Int /\ q \in Int /\ r \in Int /\ t \in Int /\ q > 0 /\ t > 0
      /\ Coprime(p, q) /\ Coprime(r, t)
  BY LowestType DEF Is, Lowest
<1>2. p * d = n * q /\ r * e = m * t
  BY DEF Is
<1>3. Times(a, b) = [num |-> x.num * y.num, den |-> x.den * y.den]
  BY DEF Times, times, Is, Lowest
<1> HIDE DEF p, q, r, t
<1>4. x \in Lowest /\ \E g \in Int \ {0} : p = g * x.num /\ t = g * x.den
  BY <1>1, LowestTerms
<1>5. y \in Lowest /\ \E g \in Int \ {0} : r = g * y.num /\ q = g * y.den
  BY <1>1, LowestTerms
<1> HIDE DEF x, y
<1> DEFINE xn == x.num
           xd == x.den
           yn == y.num
           yd == y.den
<1>6. /\ xn \in Int /\ xd \in Int /\ xd > 0 /\ yn \in Int /\ yd \in Int /\ yd > 0
      /\ Coprime(xn, xd) /\ Coprime(yn, yd)
  BY <1>4, <1>5, LowestType DEF Lowest
<1>7. PICK g \in Int \ {0} : p = g * xn /\ t = g * xd
  BY <1>4
<1>8. PICK h \in Int \ {0} : r = h * yn /\ q = h * yd
  BY <1>5
<1>9. Times(a, b) = [num |-> xn * yn, den |-> xd * yd]
  BY <1>3
<1> HIDE DEF xn, xd, yn, yd
<1>10. Coprime(xn, yd) /\ Coprime(yn, xd)
  <2>1. Coprime(g * xn, h * yd)
    BY <1>1, <1>7, <1>8
  <2>2. Coprime(h * yn, g * xd)
    BY <1>1, <1>7, <1>8
  <2> QED
    BY <1>6, <2>1, <2>2, CoprimeParts
<1>11. Coprime(xn * yn, xd * yd)
  <2> DEFINE D == xd * yd
  <2>1. Coprime(D, xn)
    BY <1>6, <1>10, CoprimeProduct
  <2>2. Coprime(D, yn)
    BY <1>6, <1>10, CoprimeProduct
  <2>3. D \in Int
    BY <1>6
  <2> HIDE DEF D
  <2>4. Coprime(xn * yn, D)
    BY <1>6, <2>1, <2>2, <2>3, CoprimeProduct
  <2> QED
    BY <2>4 DEF D
<1>12. xn * yn \in Int /\ xd * yd \in Nat /\ xd * yd > 0
  BY <1>6
<1>13. Times(a, b) \in Lowest
  BY <1>9, <1>11, <1>12 DEF Lowest, Fraction
<1>14. (xn * yn) * (q * t) = (p * r) * (xd * yd)
  <2>1. (xn * yn) * (q * t) = (xn * yn) * ((h * yd) * (g * xd))
    BY <1>7, <1>8
  <2>2. (p * r) * (xd * yd) = ((g * xn) * (h * yn)) * (xd * yd)
    BY <1>7, <1>8
  <2>3. (xn * yn) * ((h * yd) * (g * xd)) = ((g * xn) * (h * yn)) * (xd * yd)
    BY <1>6
  <2> QED
    BY <2>1, <2>2, <2>3
<1>15. Is(Times(a, b), p * r, q * t)
  BY <1>9, <1>13, <1>14 DEF Is
<1>16. (p * r) * (d * e) = (n * m) * (q * t)
  <2>1. (p * r) * (d * e) = (p * d) * (r * e)
    BY <1>1
  <2>2. (p * d) * (r * e) = (n * q) * (m * t)
    BY <1>2
  <2>3. (n * q) * (m * t) = (n * m) * (q * t)
    BY <1>1
  <2> QED
    BY <2>1, <2>2, <2>3
<1>17. /\ p * r \in Int /\ q * t \in Int /\ q * t # 0 /\ n * m \in Int /\ d * e \in Int
       /\ d * e # 0
  BY <1>1
<1> QED
  BY <1>15, <1>16, <1>17, IsMoves

LEMMA MinusIs ==
  ASSUME NEW n \in Int, NEW d \in Int, NEW m \in Int, NEW e \in Int, d # 0, e # 0,
         NEW a, NEW b, Is(a, n, d), Is(b, m, e)
  PROVE  Is(Minus(a, b), n * e - m * d, d * e)
<1> DEFINE c == opposite[b]
<1>1. b.num \in Int /\ b.den \in Int /\ b = [num |-> b.num, den |-> b.den] /\ b \in Fraction
  BY LowestType DEF Is, Lowest
<1>2. c = [num |-> -b.num, den |-> b.den]
  BY <1>1 DEF opposite
<1>3. Coprime(-b.num, b.den)
  <2>1. PICK x, y \in Int : x * b.num + y * b.den = 1
    BY DEF Is, Lowest, Coprime
  <2>2. (-x) * (-b.num) + y * b.den = 1 /\ -x \in Int
    BY <1>1, <2>1
  <2> QED
    BY <2>2 DEF Coprime
<1>4. b.num * e = m * b.den
  BY DEF Is
<1>5. (-b.num) * e = (-m) * b.den
  BY <1>1, <1>4
<1>6. c \in Lowest
  BY <1>1, <1>2, <1>3 DEF Lowest, Fraction
<1>7. Is(c, -m, e)
  BY <1>2, <1>5, <1>6 DEF Is
<1>8. Minus(a, b) = Plus(a, c)
  BY DEF Minus, Plus
<1> HIDE DEF c
<1>9. Is(Plus(a, c), n * e + (-m) * d, d * e)
  BY <1>7, PlusIs
<1>10. n * e + (-m) * d = n * e - m * d
  OBVIOUS
<1> QED
  BY <1>8, <1>9, <1>10

LEMMA OverIs ==
  ASSUME NEW n \in Int, NEW d \in Int, NEW m \in Int, NEW e \in Int, d # 0, e # 0, m # 0,
         NEW a, NEW b, Is(a, n, d), Is(b, m, e)
  PROVE  Is(Over(a, b), n * e, d * m)
<1> DEFINE c == inverse[b]
<1>1. b.num \in Int /\ b.den \in Int /\ b.den # 0 /\ b \in Fraction
  BY LowestType DEF Is, Lowest
<1>2. c = lowest[<<b.den, b.num>>]
  BY <1>1 DEF inverse
<1>3. b.num * e = m * b.den
  BY DEF Is
<1>4. b.num # 0
  BY <1>1, <1>3
<1>5. Is(c, b.den, b.num)
  BY <1>1, <1>2, <1>4, LowestIs
<1>6. Over(a, b) = Times(a, c)
  BY DEF Over, Times
<1>7. b.den * m = e * b.num
  BY <1>1, <1>3
<1> HIDE DEF c
<1>8. Is(c, e, m)
  BY <1>1, <1>4, <1>5, <1>7, IsMoves
<1> QED
  BY <1>6, <1>8, TimesIs

\* The sign of a fraction is that of n / d.
LEMMA SignIs ==
  ASSUME NEW n \in Int, NEW d \in Int, d > 0, NEW f, Is(f, n, d)
  PROVE  (f.num < 0 <=> n < 0) /\ (f.num = 0 <=> n = 0) /\ (f.num > 0 <=> n > 0)
<1> DEFINE p == f.num
           q == f.den
<1>1. p \in Int /\ q \in Int /\ q > 0 /\ p * d = n * q
  BY LowestType DEF Is
<1> HIDE DEF p, q
<1>2. (p < 0 => n < 0) /\ (p > 0 => n > 0) /\ (p = 0 => n = 0)
  <2>1. ASSUME p < 0 PROVE n < 0
    <3>1. p * d < 0
      BY <1>1, <2>1
    <3> QED
      BY <1>1, <3>1
  <2>2. ASSUME p > 0 PROVE n > 0
    <3>1. p * d > 0
      BY <1>1, <2>2
    <3> QED
      BY <1>1, <3>1
  <2>3. ASSUME p = 0 PROVE n = 0
    BY <1>1, <2>3
  <2> QED
    BY <2>1, <2>2, <2>3
<1> QED
  BY <1>1, <1>2 DEF p

LEMMA LessIs ==
  ASSUME NEW n \in Int, NEW d \in Int, NEW m \in Int, NEW e \in Int, d > 0, e > 0,
         NEW a, NEW b, Is(a, n, d), Is(b, m, e)
  PROVE  Less(a, b) <=> n * e < m * d
<1>1. Is(Minus(a, b), n * e - m * d, d * e)
  BY MinusIs
<1>2. n * e \in Int /\ m * d \in Int /\ d * e \in Int /\ d * e > 0
  OBVIOUS
<1>3. Minus(a, b).num < 0 <=> n * e - m * d < 0
  BY <1>1, <1>2, SignIs
<1> QED
  BY <1>2, <1>3 DEF Less

LEMMA IsEqual ==
  ASSUME NEW n \in Int, NEW d \in Int, d # 0, NEW a, NEW b, Is(a, n, d), Is(b, n, d)
  PROVE  a = b
<1>1. n * d = n * d
  OBVIOUS
<1> QED
  BY <1>1, IsSame

-----------------------------------------------------------------------------
(* The laws of arithmetic. *)

LEMMA Closed ==
  ASSUME NEW a \in Lowest, NEW b \in Lowest
  PROVE  /\ Plus(a, b) \in Lowest /\ Minus(a, b) \in Lowest /\ Times(a, b) \in Lowest
         /\ b.num # 0 => Over(a, b) \in Lowest
<1>1. /\ a.num \in Int /\ a.den \in Int /\ a.den # 0 /\ Is(a, a.num, a.den)
      /\ b.num \in Int /\ b.den \in Int /\ b.den # 0 /\ Is(b, b.num, b.den)
  BY LowestType, IsItself
<1>2. Is(Plus(a, b), a.num * b.den + b.num * a.den, a.den * b.den)
  BY <1>1, PlusIs
<1>3. Is(Minus(a, b), a.num * b.den - b.num * a.den, a.den * b.den)
  BY <1>1, MinusIs
<1>4. Is(Times(a, b), a.num * b.num, a.den * b.den)
  BY <1>1, TimesIs
<1>5. b.num # 0 => Is(Over(a, b), a.num * b.den, a.den * b.num)
  BY <1>1, OverIs
<1> QED
  BY <1>2, <1>3, <1>4, <1>5 DEF Is

LEMMA WholeLaws ==
  /\ \A n \in Int : Whole(n) \in Lowest /\ Whole(n).num = n
  /\ \A n, m \in Int : /\ Plus(Whole(n), Whole(m)) = Whole(n + m)
                       /\ Minus(Whole(n), Whole(m)) = Whole(n - m)
                       /\ Whole(n) = Whole(m) => n = m
                       /\ Less(Whole(n), Whole(m)) <=> n < m
<1>1. \A n \in Int : Is(Whole(n), n, 1)
  BY WholeIs
<1>2. ASSUME NEW n \in Int, NEW m \in Int
      PROVE  /\ Plus(Whole(n), Whole(m)) = Whole(n + m)
             /\ Minus(Whole(n), Whole(m)) = Whole(n - m)
             /\ Whole(n) = Whole(m) => n = m
             /\ Less(Whole(n), Whole(m)) <=> n < m
  <2>1. Is(Plus(Whole(n), Whole(m)), n * 1 + m * 1, 1 * 1)
    BY <1>1, PlusIs
  <2>2. Is(Minus(Whole(n), Whole(m)), n * 1 - m * 1, 1 * 1)
    BY <1>1, MinusIs
  <2>3. n * 1 + m * 1 = n + m /\ n * 1 - m * 1 = n - m /\ 1 * 1 = 1 /\ n + m \in Int /\ n - m \in Int
    OBVIOUS
  <2>4. Is(Plus(Whole(n), Whole(m)), n + m, 1) /\ Is(Minus(Whole(n), Whole(m)), n - m, 1)
    BY <2>1, <2>2, <2>3
  <2>5. Is(Whole(n + m), n + m, 1) /\ Is(Whole(n - m), n - m, 1)
    BY <1>1, <2>3
  <2>6. Less(Whole(n), Whole(m)) <=> n * 1 < m * 1
    BY <1>1, LessIs
  <2>7. Plus(Whole(n), Whole(m)) = Whole(n + m)
    BY <2>3, <2>4, <2>5, IsEqual
  <2>8. Minus(Whole(n), Whole(m)) = Whole(n - m)
    BY <2>3, <2>4, <2>5, IsEqual
  <2> QED
    BY <2>6, <2>7, <2>8 DEF Whole
<1> QED
  BY <1>1, <1>2 DEF Is, Whole

LEMMA PlusTurns ==
  ASSUME NEW a \in Lowest, NEW b \in Lowest
  PROVE  Plus(a, b) = Plus(b, a)
<1> DEFINE n == a.num  d == a.den  m == b.num  e == b.den
<1>1. /\ n \in Int /\ d \in Int /\ d # 0 /\ Is(a, n, d)
      /\ m \in Int /\ e \in Int /\ e # 0 /\ Is(b, m, e)
  BY LowestType, IsItself
<1> HIDE DEF n, d, m, e
<1>2. Is(Plus(a, b), n * e + m * d, d * e)
  BY <1>1, PlusIs
<1>3. Is(Plus(b, a), m * d + n * e, e * d)
  BY <1>1, PlusIs
<1>4. n * e + m * d = m * d + n * e /\ d * e = e * d
  BY <1>1
<1>5. n * e + m * d \in Int /\ d * e \in Int /\ d * e # 0
  BY <1>1
<1>6. Is(Plus(b, a), n * e + m * d, d * e)
  BY <1>3, <1>4
<1> QED
  BY <1>2, <1>5, <1>6, IsEqual

LEMMA PlusGroups ==
  ASSUME NEW a \in Lowest, NEW b \in Lowest, NEW c \in Lowest
  PROVE  Plus(Plus(a, b), c) = Plus(a, Plus(b, c))
<1> DEFINE n == a.num  d == a.den  m == b.num  e == b.den  k == c.num  f == c.den
<1>1. /\ n \in Int /\ d \in Int /\ d # 0 /\ Is(a, n, d)
      /\ m \in Int /\ e \in Int /\ e # 0 /\ Is(b, m, e)
      /\ k \in Int /\ f \in Int /\ f # 0 /\ Is(c, k, f)
  BY LowestType, IsItself
<1> HIDE DEF n, d, m, e, k, f
<1>2. Is(Plus(a, b), n * e + m * d, d * e) /\ Is(Plus(b, c), m * f + k * e, e * f)
  BY <1>1, PlusIs
<1>3. /\ n * e + m * d \in Int /\ d * e \in Int /\ d * e # 0
      /\ m * f + k * e \in Int /\ e * f \in Int /\ e * f # 0
  BY <1>1
<1>4. Is(Plus(Plus(a, b), c), (n * e + m * d) * f + k * (d * e), (d * e) * f)
  BY <1>1, <1>2, <1>3, PlusIs
<1>5. Is(Plus(a, Plus(b, c)), n * (e * f) + (m * f + k * e) * d, d * (e * f))
  BY <1>1, <1>2, <1>3, PlusIs
<1>6. /\ (n * e + m * d) * f + k * (d * e) = n * (e * f) + (m * f + k * e) * d
      /\ (d * e) * f = d * (e * f)
  BY <1>1
<1>7. /\ n * (e * f) + (m * f + k * e) * d \in Int
      /\ d * (e * f) \in Int /\ d * (e * f) # 0
  BY <1>1, <1>3
<1>8. Is(Plus(Plus(a, b), c), n * (e * f) + (m * f + k * e) * d, d * (e * f))
  BY <1>4, <1>6
<1> QED
  BY <1>5, <1>7, <1>8, IsEqual

LEMMA PlusZero ==
  ASSUME NEW a \in Lowest
  PROVE  Plus(a, Zero) = a /\ Plus(Zero, a) = a
<1> DEFINE n == a.num  d == a.den
<1>1. n \in Int /\ d \in Int /\ d # 0 /\ Is(a, n, d)
  BY LowestType, IsItself
<1>2. Is(Zero, 0, 1)
  BY WholeIs DEF Zero
<1> HIDE DEF n, d
<1>3. Is(Plus(a, Zero), n * 1 + 0 * d, d * 1)
  BY <1>1, <1>2, PlusIs
<1>4. n * 1 + 0 * d = n /\ d * 1 = d
  BY <1>1
<1>5. Plus(a, Zero) = a
  BY <1>1, <1>3, <1>4, IsEqual
<1>6. Zero \in Lowest
  BY <1>2 DEF Is
<1> QED
  BY <1>5, <1>6, PlusTurns

\* Subtraction undoes addition.
LEMMA MinusUndoes ==
  ASSUME NEW a \in Lowest, NEW b \in Lowest
  PROVE  Plus(Minus(a, b), b) = a /\ Minus(Plus(a, b), b) = a
<1> DEFINE n == a.num  d == a.den  m == b.num  e == b.den
<1>1. /\ n \in Int /\ d \in Int /\ d # 0 /\ Is(a, n, d)
      /\ m \in Int /\ e \in Int /\ e # 0 /\ Is(b, m, e)
  BY LowestType, IsItself
<1> HIDE DEF n, d, m, e
<1>2. Is(Minus(a, b), n * e - m * d, d * e) /\ Is(Plus(a, b), n * e + m * d, d * e)
  BY <1>1, MinusIs, PlusIs
<1>3. n * e - m * d \in Int /\ n * e + m * d \in Int /\ d * e \in Int /\ d * e # 0
  BY <1>1
<1>4. Is(Plus(Minus(a, b), b), (n * e - m * d) * e + m * (d * e), (d * e) * e)
  BY <1>1, <1>2, <1>3, PlusIs
<1>5. Is(Minus(Plus(a, b), b), (n * e + m * d) * e - m * (d * e), (d * e) * e)
  BY <1>1, <1>2, <1>3, MinusIs
<1>6. /\ (n * e - m * d) * e + m * (d * e) = n * (e * e)
      /\ (n * e + m * d) * e - m * (d * e) = n * (e * e)
      /\ (d * e) * e = d * (e * e)
  BY <1>1
<1>7. Is(Plus(Minus(a, b), b), n * (e * e), d * (e * e)) /\ Is(Minus(Plus(a, b), b), n * (e * e), d * (e * e))
  BY <1>4, <1>5, <1>6
<1> DEFINE z == e * e
<1>8. z \in Int /\ z # 0
  BY <1>1
<1> HIDE DEF z
<1>9. n * z \in Int /\ d * z \in Int /\ d * z # 0 /\ (n * z) * d = n * (d * z)
  BY <1>1, <1>8
<1>10. Is(Plus(Minus(a, b), b), n * z, d * z) /\ Is(Minus(Plus(a, b), b), n * z, d * z)
  BY <1>7 DEF z
<1> QED
  BY <1>1, <1>9, <1>10, IsSame

LEMMA TimesTurns ==
  ASSUME NEW a \in Lowest, NEW b \in Lowest
  PROVE  Times(a, b) = Times(b, a)
<1> DEFINE n == a.num  d == a.den  m == b.num  e == b.den
<1>1. /\ n \in Int /\ d \in Int /\ d # 0 /\ Is(a, n, d)
      /\ m \in Int /\ e \in Int /\ e # 0 /\ Is(b, m, e)
  BY LowestType, IsItself
<1> HIDE DEF n, d, m, e
<1>2. Is(Times(a, b), n * m, d * e) /\ Is(Times(b, a), m * n, e * d)
  BY <1>1, TimesIs
<1>3. n * m = m * n /\ d * e = e * d /\ n * m \in Int /\ d * e \in Int /\ d * e # 0
  BY <1>1
<1>4. Is(Times(b, a), n * m, d * e)
  BY <1>2, <1>3
<1> QED
  BY <1>2, <1>3, <1>4, IsEqual

LEMMA TimesGroups ==
  ASSUME NEW a \in Lowest, NEW b \in Lowest, NEW c \in Lowest
  PROVE  Times(Times(a, b), c) = Times(a, Times(b, c))
<1> DEFINE n == a.num  d == a.den  m == b.num  e == b.den  k == c.num  f == c.den
<1>1. /\ n \in Int /\ d \in Int /\ d # 0 /\ Is(a, n, d)
      /\ m \in Int /\ e \in Int /\ e # 0 /\ Is(b, m, e)
      /\ k \in Int /\ f \in Int /\ f # 0 /\ Is(c, k, f)
  BY LowestType, IsItself
<1> HIDE DEF n, d, m, e, k, f
<1>2. Is(Times(a, b), n * m, d * e) /\ Is(Times(b, c), m * k, e * f)
  BY <1>1, TimesIs
<1>3. /\ n * m \in Int /\ d * e \in Int /\ d * e # 0
      /\ m * k \in Int /\ e * f \in Int /\ e * f # 0
  BY <1>1
<1>4. Is(Times(Times(a, b), c), (n * m) * k, (d * e) * f)
  BY <1>1, <1>2, <1>3, TimesIs
<1>5. Is(Times(a, Times(b, c)), n * (m * k), d * (e * f))
  BY <1>1, <1>2, <1>3, TimesIs
<1>6. (n * m) * k = n * (m * k) /\ (d * e) * f = d * (e * f)
  BY <1>1
<1>7. n * (m * k) \in Int /\ d * (e * f) \in Int /\ d * (e * f) # 0
  BY <1>1, <1>3
<1>8. Is(Times(Times(a, b), c), n * (m * k), d * (e * f))
  BY <1>4, <1>6
<1> QED
  BY <1>5, <1>7, <1>8, IsEqual

LEMMA TimesOne ==
  ASSUME NEW a \in Lowest
  PROVE  Times(a, Whole(1)) = a /\ Over(a, Whole(1)) = a
<1> DEFINE n == a.num  d == a.den
<1>1. n \in Int /\ d \in Int /\ d # 0 /\ Is(a, n, d)
  BY LowestType, IsItself
<1>2. Is(Whole(1), 1, 1)
  BY WholeIs
<1> HIDE DEF n, d
<1>3. Is(Times(a, Whole(1)), n * 1, d * 1) /\ Is(Over(a, Whole(1)), n * 1, d * 1)
  BY <1>1, <1>2, TimesIs, OverIs
<1>4. n * 1 = n /\ d * 1 = d
  BY <1>1
<1> QED
  BY <1>1, <1>3, <1>4, IsEqual

\* Products of sums and differences.
LEMMA TimesSpreads ==
  ASSUME NEW a \in Lowest, NEW b \in Lowest, NEW c \in Lowest
  PROVE  /\ Times(Plus(a, b), c) = Plus(Times(a, c), Times(b, c))
         /\ Times(Minus(a, b), c) = Minus(Times(a, c), Times(b, c))
<1> DEFINE n == a.num  d == a.den  m == b.num  e == b.den  k == c.num  f == c.den
<1>1. /\ n \in Int /\ d \in Int /\ d # 0 /\ Is(a, n, d)
      /\ m \in Int /\ e \in Int /\ e # 0 /\ Is(b, m, e)
      /\ k \in Int /\ f \in Int /\ f # 0 /\ Is(c, k, f)
  BY LowestType, IsItself
<1> HIDE DEF n, d, m, e, k, f
<1>2. /\ Is(Plus(a, b), n * e + m * d, d * e) /\ Is(Minus(a, b), n * e - m * d, d * e)
      /\ Is(Times(a, c), n * k, d * f) /\ Is(Times(b, c), m * k, e * f)
  BY <1>1, PlusIs, MinusIs, TimesIs
<1>3. /\ n * e + m * d \in Int /\ n * e - m * d \in Int /\ d * e \in Int /\ d * e # 0
      /\ n * k \in Int /\ d * f \in Int /\ d * f # 0
      /\ m * k \in Int /\ e * f \in Int /\ e * f # 0
  BY <1>1
<1>4. Is(Times(Plus(a, b), c), (n * e + m * d) * k, (d * e) * f)
  BY <1>1, <1>2, <1>3, TimesIs
<1>5. Is(Times(Minus(a, b), c), (n * e - m * d) * k, (d * e) * f)
  BY <1>1, <1>2, <1>3, TimesIs
<1>6. Is(Plus(Times(a, c), Times(b, c)), (n * k) * (e * f) + (m * k) * (d * f), (d * f) * (e * f))
  BY <1>2, <1>3, PlusIs
<1>7. Is(Minus(Times(a, c), Times(b, c)), (n * k) * (e * f) - (m * k) * (d * f), (d * f) * (e * f))
  BY <1>2, <1>3, MinusIs
<1> DEFINE v == (n * e + m * d) * k
           u == (n * e - m * d) * k
           w == (d * e) * f
<1>8. v \in Int /\ u \in Int /\ w \in Int /\ w # 0
  BY <1>1, <1>3
<1>9. /\ (n * k) * (e * f) + (m * k) * (d * f) = v * f
      /\ (n * k) * (e * f) - (m * k) * (d * f) = u * f
      /\ (d * f) * (e * f) = w * f
  BY <1>1
<1>10. Is(Times(Plus(a, b), c), v, w) /\ Is(Times(Minus(a, b), c), u, w)
  BY <1>4, <1>5
<1>11. /\ Is(Plus(Times(a, c), Times(b, c)), v * f, w * f)
       /\ Is(Minus(Times(a, c), Times(b, c)), u * f, w * f)
  BY <1>6, <1>7, <1>9
<1> HIDE DEF v, u, w
<1>12. /\ v * f \in Int /\ u * f \in Int /\ w * f \in Int /\ w * f # 0
       /\ v * (w * f) = (v * f) * w /\ u * (w * f) = (u * f) * w
  BY <1>1, <1>8
<1>13. Times(Plus(a, b), c) = Plus(Times(a, c), Times(b, c))
  BY <1>8, <1>10, <1>11, <1>12, IsSame
<1>14. Times(Minus(a, b), c) = Minus(Times(a, c), Times(b, c))
  BY <1>8, <1>10, <1>11, <1>12, IsSame
<1> QED
  BY <1>13, <1>14

\* Division undoes multiplication.
LEMMA OverUndoes ==
  ASSUME NEW a \in Lowest, NEW b \in Lowest, b.num # 0
  PROVE  Times(Over(a, b), b) = a /\ Over(Times(a, b), b) = a
<1> DEFINE n == a.num  d == a.den  m == b.num  e == b.den
<1>1. /\ n \in Int /\ d \in Int /\ d # 0 /\ Is(a, n, d)
      /\ m \in Int /\ m # 0 /\ e \in Int /\ e # 0 /\ Is(b, m, e)
  BY LowestType, IsItself
<1> HIDE DEF n, d, m, e
<1>2. Is(Over(a, b), n * e, d * m) /\ Is(Times(a, b), n * m, d * e)
  BY <1>1, OverIs, TimesIs
<1>3. /\ n * e \in Int /\ d * m \in Int /\ d * m # 0
      /\ n * m \in Int /\ d * e \in Int /\ d * e # 0
  BY <1>1
<1>4. Is(Times(Over(a, b), b), (n * e) * m, (d * m) * e)
  BY <1>1, <1>2, <1>3, TimesIs
<1>5. Is(Over(Times(a, b), b), (n * m) * e, (d * e) * m)
  BY <1>1, <1>2, <1>3, OverIs
<1> DEFINE z == e * m
<1>6. z \in Int /\ z # 0
  BY <1>1
<1>7. (n * e) * m = n * z /\ (n * m) * e = n * z /\ (d * m) * e = d * z /\ (d * e) * m = d * z
  BY <1>1
<1>8. Is(Times(Over(a, b), b), n * z, d * z) /\ Is(Over(Times(a, b), b), n * z, d * z)
  BY <1>4, <1>5, <1>7
<1> HIDE DEF z
<1>9. n * z \in Int /\ d * z \in Int /\ d * z # 0 /\ (n * z) * d = n * (d * z)
  BY <1>1, <1>6
<1> QED
  BY <1>1, <1>8, <1>9, IsSame

\* Signs.
LEMMA Signs ==
  ASSUME NEW a \in Lowest, NEW b \in Lowest
  PROVE  /\ a.num \in Int
         /\ a.num >= 0 /\ b.num >= 0 => Plus(a, b).num >= 0 /\ Times(a, b).num >= 0
         /\ a.num >= 0 /\ b.num > 0 => Over(a, b).num >= 0 /\ Plus(a, b).num > 0
         /\ a.num > 0 /\ b.num > 0 => Times(a, b).num > 0 /\ Over(a, b).num > 0
         /\ Less(a, b) <=> Minus(b, a).num > 0
<1> DEFINE n == a.num  d == a.den  m == b.num  e == b.den
<1>1. /\ n \in Int /\ d \in Int /\ d > 0 /\ Is(a, n, d)
      /\ m \in Int /\ e \in Int /\ e > 0 /\ Is(b, m, e)
  BY LowestType, IsItself
<1> HIDE DEF n, d, m, e
<1>2. /\ Is(Plus(a, b), n * e + m * d, d * e) /\ Is(Times(a, b), n * m, d * e)
      /\ Is(Minus(b, a), m * d - n * e, e * d)
      /\ m # 0 => Is(Over(a, b), n * e, d * m)
  <2>1. Is(Plus(a, b), n * e + m * d, d * e) /\ Is(Times(a, b), n * m, d * e)
    BY <1>1, PlusIs, TimesIs
  <2>2. Is(Minus(b, a), m * d - n * e, e * d)
    BY <1>1, MinusIs
  <2>3. m # 0 => Is(Over(a, b), n * e, d * m)
    BY <1>1, OverIs
  <2> QED
    BY <2>1, <2>2, <2>3
<1>3. /\ n * e + m * d \in Int /\ n * m \in Int /\ m * d - n * e \in Int /\ n * e \in Int /\ m * d \in Int
      /\ d * e \in Int /\ d * e > 0 /\ e * d \in Int /\ e * d > 0 /\ d * m \in Int
      /\ m > 0 => d * m > 0
  <2>1. n * e \in Int /\ m * d \in Int /\ n * m \in Int /\ d * e \in Int /\ e * d \in Int /\ d * m \in Int
    BY <1>1
  <2>2. d * e > 0
    BY <1>1
  <2>3. e * d > 0
    BY <1>1
  <2>4. m > 0 => d * m > 0
    BY <1>1
  <2> QED
    BY <2>1, <2>2, <2>3, <2>4
<1>4. /\ Plus(a, b).num >= 0 <=> n * e + m * d >= 0
      /\ Plus(a, b).num > 0 <=> n * e + m * d > 0
  <2>1. Plus(a, b).num \in Int
    BY <1>2, LowestType DEF Is
  <2> QED
    BY <1>2, <1>3, <2>1, SignIs
<1>5. /\ Times(a, b).num >= 0 <=> n * m >= 0
      /\ Times(a, b).num > 0 <=> n * m > 0
  <2>1. Times(a, b).num \in Int
    BY <1>2, LowestType DEF Is
  <2> QED
    BY <1>2, <1>3, <2>1, SignIs
<1>6. Minus(b, a).num > 0 <=> m * d - n * e > 0
  BY <1>2, <1>3, SignIs
<1>7. Less(a, b) <=> n * e < m * d
  BY <1>1, LessIs
<1>8. m > 0 => /\ Over(a, b).num >= 0 <=> n * e >= 0
               /\ Over(a, b).num > 0 <=> n * e > 0
  <2>1. SUFFICES ASSUME m > 0 PROVE /\ Over(a, b).num >= 0 <=> n * e >= 0
                                    /\ Over(a, b).num > 0 <=> n * e > 0
    OBVIOUS
  <2>2. Over(a, b).num \in Int
    BY <1>1, <1>2, <2>1, LowestType DEF Is
  <2> QED
    BY <1>1, <1>2, <1>3, <2>1, <2>2, SignIs
<1>9. n >= 0 => n * e >= 0
  BY <1>1
<1>10. n > 0 => n * e > 0
  BY <1>1
<1>11. m >= 0 => m * d >= 0
  BY <1>1
<1>12. m > 0 => m * d > 0
  BY <1>1
<1>13. n >= 0 /\ m >= 0 => n * m >= 0
  BY <1>1
<1>14. n > 0 /\ m > 0 => n * m > 0
  BY <1>1
<1>15. Less(a, b) <=> Minus(b, a).num > 0
  BY <1>3, <1>6, <1>7
<1>16. n \in Int
  BY <1>1
<1>17. n >= 0 /\ m >= 0 => Plus(a, b).num >= 0 /\ Times(a, b).num >= 0
  BY <1>3, <1>4, <1>5, <1>9, <1>11, <1>13
<1>18. n >= 0 /\ m > 0 => Over(a, b).num >= 0 /\ Plus(a, b).num > 0
  BY <1>3, <1>4, <1>8, <1>9, <1>12
<1>19. n > 0 /\ m > 0 => Times(a, b).num > 0 /\ Over(a, b).num > 0
  BY <1>1, <1>5, <1>8, <1>10, <1>14
<1> QED
  BY <1>15, <1>16, <1>17, <1>18, <1>19 DEF n, m
-----------------------------------------------------------------------------
(* Sums of fractions, and what one change does to a sum. *)

LEMMA PlusCombines == Combines(plus, Zero, Lowest) /\ Combines(plus, Zero, {Zero})
<1>1. Zero \in Lowest /\ Plus(Zero, Zero) = Zero
  BY WholeLaws, PlusZero DEF Zero
<1>2. \A a, b \in Lowest : Plus(a, b) \in Lowest /\ Plus(a, b) = Plus(b, a)
  BY Closed, PlusTurns
<1>3. \A a, b, c \in Lowest : Plus(Plus(a, b), c) = Plus(a, Plus(b, c))
  BY PlusGroups
<1> QED
  BY <1>1, <1>2, <1>3 DEF Combines, Plus

\* g differs from f at y alone.
SameBut(f, g, S, y) == \A x \in S \ {y} : g[x] = f[x]

FractionSum(f) == FoldFunction(Plus, Zero, f)

LEMMA FractionSumIsFold ==
  ASSUME NEW f
  PROVE  FractionSum(f) = FoldOf(plus, Zero, f, DOMAIN f)
BY DEF FractionSum, FoldFunction, FoldFunctionOnSet, MapThenFoldSet, FoldOf, FoldsAll, Folds, Plus, Pick

LEMMA FractionSumType ==
  ASSUME NEW S, IsFiniteSet(S), NEW f \in [S -> Lowest]
  PROVE  FractionSum(f) \in Lowest
<1>1. FractionSum(f) = FoldOf(plus, Zero, f, S)
  BY FractionSumIsFold
<1> QED
  BY <1>1, FoldIsValue, PlusCombines

\* If y changes by v, so does the sum.
LEMMA FractionSumGrows ==
  ASSUME NEW S, IsFiniteSet(S), NEW f \in [S -> Lowest], NEW y \in S, NEW v \in Lowest,
         NEW g \in [S -> Lowest], g[y] = Plus(f[y], v), SameBut(f, g, S, y)
  PROVE  FractionSum(g) = Plus(FractionSum(f), v)
<1> DEFINE R == S \ {y}
           r == FoldOf(plus, Zero, f, R)
<1>1. IsFiniteSet(R) /\ \A x \in R : f[x] = g[x] /\ f[x] \in Lowest
  BY FS_Subset DEF SameBut
<1>0. \A x \in S : f[x] \in Lowest /\ g[x] \in Lowest
  OBVIOUS
<1>2. FoldOf(plus, Zero, f, S) = Plus(f[y], FoldOf(plus, Zero, f, R))
  BY <1>0, FoldTakesOut, PlusCombines DEF Plus
<1>3. FoldOf(plus, Zero, g, S) = Plus(g[y], FoldOf(plus, Zero, g, R))
  BY <1>0, FoldTakesOut, PlusCombines DEF Plus
<1>4. FractionSum(f) = FoldOf(plus, Zero, f, S) /\ FractionSum(g) = FoldOf(plus, Zero, g, S)
  BY FractionSumIsFold
<1>5. g[y] = Plus(f[y], v) /\ f[y] \in Lowest
  OBVIOUS
<1> HIDE DEF R
<1>6. FoldOf(plus, Zero, f, R) = FoldOf(plus, Zero, g, R)
  BY <1>1, FoldDepends
<1>7. r \in Lowest
  BY <1>1, FoldIsValue, PlusCombines
<1> HIDE DEF r
<1>8. FractionSum(g) = Plus(Plus(f[y], v), r)
  BY <1>3, <1>4, <1>5, <1>6 DEF r
<1>9. FractionSum(f) = Plus(f[y], r)
  BY <1>2, <1>4 DEF r
<1>10. Plus(Plus(f[y], v), r) = Plus(f[y], Plus(v, r))
  BY <1>5, <1>7, PlusGroups
<1>11. Plus(v, r) = Plus(r, v)
  BY <1>7, PlusTurns
<1>12. Plus(f[y], Plus(r, v)) = Plus(Plus(f[y], r), v)
  BY <1>5, <1>7, PlusGroups
<1> QED
  BY <1>8, <1>9, <1>10, <1>11, <1>12

LEMMA SumChanges ==
  ASSUME NEW S, IsFiniteSet(S), NEW f \in [S -> Int], NEW y \in S, NEW v \in Int,
         NEW g, g = [f EXCEPT ![y] = v]
  PROVE  SumFunction(f) \in Int /\ SumFunction(g) = SumFunction(f) - f[y] + v
<1> DEFINE R == S \ {y}
<1>1. SumFunction(f) = SumFunctionOnSet(f, S) /\ SumFunction(g) = SumFunctionOnSet(g, S)
  BY DEF SumFunction
<1>2. \A x \in S : f[x] \in Int /\ g[x] \in Int
  OBVIOUS
<1>3. IsFiniteSet(R) /\ \A x \in R : f[x] \in Int /\ f[x] = g[x]
  BY FS_Subset
<1>4. SumFunctionOnSet(f, S) = f[y] + SumFunctionOnSet(f, R)
  BY <1>2, SumTakesOut
<1>5. SumFunctionOnSet(g, S) = g[y] + SumFunctionOnSet(g, R)
  BY <1>2, SumTakesOut
<1> HIDE DEF R
<1>6. SumFunctionOnSet(f, R) = SumFunctionOnSet(g, R)
  BY <1>3, SumDepends
<1>7. SumFunctionOnSet(f, R) \in Int
  BY <1>3, SumIsNumber
<1> QED
  BY <1>1, <1>2, <1>4, <1>5, <1>6, <1>7

LEMMA SumOfZeros ==
  ASSUME NEW S, IsFiniteSet(S), NEW f, f = [x \in S |-> 0]
  PROVE  SumFunction(f) = 0
<1>1. \A x \in S : f[x] \in {0} /\ f[x] \in Int
  OBVIOUS
<1>2. Combines(Add, 0, {0})
  BY AddCombines DEF Combines, Add
<1>3. FoldOf(Add, 0, f, S) \in {0}
  BY <1>1, <1>2, FoldIsValue
<1> QED
  BY <1>1, <1>3, SumIsFold DEF SumFunction

\* One sum of numbers that are not negative is 0 only if all of them are.
LEMMA SumOfPositives ==
  ASSUME NEW S, IsFiniteSet(S), NEW f \in [S -> Nat]
  PROVE  SumFunction(f) \in Nat /\ \A y \in S : f[y] <= SumFunction(f)
<1>1. Combines(Add, 0, Nat)
  <2>1. \A a, b \in Nat : Add[<<a, b>>] = a + b
    BY DEF Add
  <2> QED
    BY <2>1 DEF Combines
<1>2. \A x \in S : f[x] \in Nat /\ f[x] \in Int
  OBVIOUS
<1>3. SumFunction(f) = SumFunctionOnSet(f, S)
  BY DEF SumFunction
<1>4. FoldOf(Add, 0, f, S) \in Nat
  BY <1>1, <1>2, FoldIsValue
<1>5. SumFunction(f) \in Nat
  BY <1>2, <1>3, <1>4, SumIsFold
<1>6. ASSUME NEW y \in S PROVE f[y] <= SumFunction(f)
  <2> DEFINE R == S \ {y}
  <2>1. SumFunctionOnSet(f, S) = f[y] + SumFunctionOnSet(f, R)
    BY <1>2, SumTakesOut
  <2>2. IsFiniteSet(R) /\ \A x \in R : f[x] \in Nat /\ f[x] \in Int
    BY FS_Subset
  <2> HIDE DEF R
  <2>3. FoldOf(Add, 0, f, R) \in Nat
    BY <1>1, <2>2, FoldIsValue
  <2>4. SumFunctionOnSet(f, R) \in Nat
    BY <2>2, <2>3, SumIsFold
  <2> QED
    BY <1>2, <1>3, <2>1, <2>4
<1> QED
  BY <1>5, <1>6
-----------------------------------------------------------------------------
(* Regrouping. *)

LEMMA TimesZero == ASSUME NEW a \in Lowest PROVE Times(Zero, a) = Zero
<1>1. Zero \in Lowest /\ Minus(Zero, Zero) = Zero
  BY WholeLaws DEF Zero
<1>2. Times(Zero, a) \in Lowest
  BY <1>1, Closed
<1>3. Times(Minus(Zero, Zero), a) = Minus(Times(Zero, a), Times(Zero, a))
  BY <1>1, TimesSpreads
<1>4. Plus(Zero, Times(Zero, a)) = Times(Zero, a)
  BY <1>2, PlusZero
<1>5. Minus(Plus(Zero, Times(Zero, a)), Times(Zero, a)) = Zero
  BY <1>1, <1>2, MinusUndoes
<1> QED
  BY <1>1, <1>3, <1>4, <1>5

LEMMA MinusGroups ==
  ASSUME NEW a \in Lowest, NEW b \in Lowest, NEW c \in Lowest
  PROVE  Plus(a, Minus(b, c)) = Minus(Plus(a, b), c)
<1> DEFINE x == Minus(b, c)
<1>1. x \in Lowest /\ b = Plus(x, c)
  BY Closed, MinusUndoes
<1> HIDE DEF x
<1>2. Plus(a, Plus(x, c)) = Plus(Plus(a, x), c) /\ Plus(a, x) \in Lowest
  BY <1>1, PlusGroups, Closed
<1>3. Minus(Plus(Plus(a, x), c), c) = Plus(a, x)
  BY <1>2, MinusUndoes
<1> QED
  BY <1>1, <1>2, <1>3 DEF x

LEMMA PlusSwaps ==
  ASSUME NEW a \in Lowest, NEW b \in Lowest, NEW c \in Lowest
  PROVE  Plus(Plus(a, b), c) = Plus(Plus(a, c), b)
<1>1. Plus(Plus(a, b), c) = Plus(a, Plus(b, c)) /\ Plus(Plus(a, c), b) = Plus(a, Plus(c, b))
  BY PlusGroups
<1>2. Plus(b, c) = Plus(c, b)
  BY PlusTurns
<1> QED
  BY <1>1, <1>2

LEMMA MinusCommon ==
  ASSUME NEW a \in Lowest, NEW b \in Lowest, NEW c \in Lowest
  PROVE  /\ Minus(Plus(a, b), Plus(a, c)) = Minus(b, c)
         /\ Minus(Minus(a, b), Minus(a, c)) = Minus(c, b)
         /\ Plus(Minus(a, b), Minus(b, c)) = Minus(a, c)
<1>1. Plus(Minus(a, b), Minus(b, c)) = Minus(a, c)
  <2>1. Minus(a, b) \in Lowest
    BY Closed
  <2>2. Plus(Minus(a, b), Minus(b, c)) = Minus(Plus(Minus(a, b), b), c)
    BY <2>1, MinusGroups
  <2> QED
    BY <2>2, MinusUndoes
<1>2. Minus(Plus(a, b), Plus(a, c)) = Minus(b, c)
  <2> DEFINE x == Minus(b, c)
  <2>1. x \in Lowest /\ b = Plus(x, c)
    BY Closed, MinusUndoes
  <2> HIDE DEF x
  <2>2. Plus(a, c) \in Lowest /\ Plus(a, Plus(x, c)) = Plus(Plus(a, x), c)
    BY <2>1, Closed, PlusGroups
  <2>3. Plus(Plus(a, x), c) = Plus(Plus(x, a), c)
    BY <2>1, PlusTurns
  <2>4. Plus(Plus(x, a), c) = Plus(x, Plus(a, c))
    BY <2>1, PlusGroups
  <2>5. Minus(Plus(x, Plus(a, c)), Plus(a, c)) = x
    BY <2>1, <2>2, MinusUndoes
  <2> QED
    BY <2>1, <2>2, <2>3, <2>4, <2>5 DEF x
<1>3. Minus(Minus(a, b), Minus(a, c)) = Minus(c, b)
  <2> DEFINE x == Minus(a, c)
  <2>1. x \in Lowest /\ a = Plus(x, c) /\ Minus(c, b) \in Lowest
    BY Closed, MinusUndoes
  <2> HIDE DEF x
  <2>2. Minus(a, b) = Plus(x, Minus(c, b))
    BY <2>1, MinusGroups
  <2>3. Plus(x, Minus(c, b)) = Plus(Minus(c, b), x)
    BY <2>1, PlusTurns
  <2>4. Minus(Plus(Minus(c, b), x), x) = Minus(c, b)
    BY <2>1, MinusUndoes
  <2> QED
    BY <2>2, <2>3, <2>4 DEF x
<1> QED
  BY <1>1, <1>2, <1>3

-----------------------------------------------------------------------------
(* The order of fractions. *)

AtMost(a, b) == ~Less(b, a)

LEMMA AtMostIs ==
  ASSUME NEW a \in Lowest, NEW b \in Lowest
  PROVE  /\ AtMost(a, b) <=> Minus(b, a).num >= 0
         /\ Less(b, a) => AtMost(b, a)
         /\ AtMost(Zero, a) <=> a.num >= 0
<1>1. Minus(b, a) \in Lowest /\ Minus(a, b) \in Lowest
  BY Closed
<1>2. Minus(b, a).num \in Int /\ Minus(a, b).num \in Int
  BY <1>1, LowestType
<1>3. Less(b, a) <=> Minus(a, b).num > 0
  BY Signs
<1>4. AtMost(a, b) <=> Minus(b, a).num >= 0
  BY <1>2 DEF AtMost, Less
<1>5. Less(b, a) => AtMost(b, a)
  <2>1. AtMost(b, a) <=> ~(Minus(a, b).num < 0)
    BY DEF AtMost, Less
  <2> QED
    BY <1>2, <1>3, <2>1
<1>6. AtMost(Zero, a) <=> a.num >= 0
  <2>1. Zero \in Lowest /\ Plus(a, Zero) = a
    BY WholeLaws, PlusZero DEF Zero
  <2>2. Minus(a, Zero) = a
    BY <2>1, MinusUndoes
  <2>3. a.num \in Int
    BY LowestType
  <2> QED
    BY <2>2, <2>3 DEF AtMost, Less
<1> QED
  BY <1>4, <1>5, <1>6

LEMMA AtMostTrans ==
  ASSUME NEW a \in Lowest, NEW b \in Lowest, NEW c \in Lowest, AtMost(a, b), AtMost(b, c)
  PROVE  AtMost(a, c)
<1>1. Minus(c, b) \in Lowest /\ Minus(b, a) \in Lowest
  BY Closed
<1>2. Minus(c, b).num >= 0 /\ Minus(b, a).num >= 0
  BY AtMostIs
<1>3. Plus(Minus(c, b), Minus(b, a)) = Minus(c, a)
  BY MinusCommon
<1>4. Minus(c, a).num >= 0
  BY <1>1, <1>2, <1>3, Signs
<1> QED
  BY <1>4, AtMostIs

LEMMA AtMostTimes ==
  ASSUME NEW a \in Lowest, NEW b \in Lowest, NEW c \in Lowest, AtMost(a, b), c.num >= 0
  PROVE  AtMost(Times(a, c), Times(b, c))
<1>1. Minus(b, a) \in Lowest /\ Minus(b, a).num >= 0
  BY Closed, AtMostIs
<1>2. Times(Minus(b, a), c) = Minus(Times(b, c), Times(a, c))
  BY TimesSpreads
<1>3. Times(Minus(b, a), c).num >= 0
  BY <1>1, Signs
<1>4. Times(a, c) \in Lowest /\ Times(b, c) \in Lowest
  BY Closed
<1> QED
  BY <1>2, <1>3, <1>4, AtMostIs

LEMMA AtMostCancels ==
  ASSUME NEW a \in Lowest, NEW b \in Lowest, NEW c \in Lowest,
         AtMost(Times(a, c), Times(b, c)), c.num > 0
  PROVE  AtMost(a, b)
<1> DEFINE x == Minus(b, a)
<1>1. x \in Lowest /\ Times(a, c) \in Lowest /\ Times(b, c) \in Lowest
  BY Closed
<1>2. Times(x, c) = Minus(Times(b, c), Times(a, c))
  BY TimesSpreads
<1>3. Times(x, c).num >= 0
  BY <1>1, <1>2, AtMostIs
<1> HIDE DEF x
<1>4. Times(x, c) \in Lowest /\ c.num # 0
  BY <1>1, Closed, LowestType
<1>5. Over(Times(x, c), c) = x
  BY <1>1, <1>4, OverUndoes
<1>6. Over(Times(x, c), c).num >= 0
  BY <1>3, <1>4, Signs
<1> QED
  BY <1>5, <1>6, AtMostIs DEF x

LEMMA AtMostMinus ==
  ASSUME NEW a \in Lowest, NEW b \in Lowest, NEW c \in Lowest, AtMost(a, b)
  PROVE  AtMost(Minus(c, b), Minus(c, a))
<1>1. Minus(Minus(c, a), Minus(c, b)) = Minus(b, a)
  BY MinusCommon
<1>2. Minus(c, a) \in Lowest /\ Minus(c, b) \in Lowest
  BY Closed
<1>3. Minus(b, a).num >= 0
  BY AtMostIs
<1> QED
  BY <1>1, <1>2, <1>3, AtMostIs

\* What is taken off makes it no larger.
LEMMA MinusShrinks ==
  ASSUME NEW a \in Lowest, NEW b \in Lowest, b.num >= 0
  PROVE  AtMost(Minus(a, b), a)
<1>1. AtMost(Zero, b) /\ Zero \in Lowest
  BY AtMostIs, WholeLaws DEF Zero
<1>2. AtMost(Minus(a, b), Minus(a, Zero))
  BY <1>1, AtMostMinus
<1>3. Plus(a, Zero) = a
  BY PlusZero
<1>4. Minus(a, Zero) = a
  BY <1>1, <1>3, MinusUndoes
<1> QED
  BY <1>2, <1>4
LEMMA AtMostPlus ==
  ASSUME NEW a \in Lowest, NEW b \in Lowest, NEW c \in Lowest, NEW d \in Lowest,
         AtMost(a, b), AtMost(c, d)
  PROVE  AtMost(Plus(a, c), Plus(b, d))
<1>1. Plus(a, c) \in Lowest /\ Plus(b, c) \in Lowest /\ Plus(b, d) \in Lowest
  BY Closed
<1>2. Minus(Plus(b, d), Plus(b, c)) = Minus(d, c)
  BY MinusCommon
<1>3. AtMost(Plus(b, c), Plus(b, d))
  BY <1>1, <1>2, AtMostIs
<1>4. Minus(Plus(c, b), Plus(c, a)) = Minus(b, a)
  BY MinusCommon
<1>5. Plus(c, b) = Plus(b, c) /\ Plus(c, a) = Plus(a, c)
  BY PlusTurns
<1>6. AtMost(Plus(a, c), Plus(b, c))
  BY <1>1, <1>4, <1>5, AtMostIs
<1> QED
  BY <1>1, <1>3, <1>6, AtMostTrans

LEMMA FloorBelow ==
  ASSUME NEW a \in Lowest
  PROVE  Floor(a) \in Int /\ AtMost(Whole(Floor(a)), a)
<1> DEFINE n == a.num
           d == a.den
           k == Floor(a)
<1>1. n \in Int /\ d \in Nat /\ d > 0
  BY LowestType
<1>2. k = n \div d
  BY DEF Floor
<1> HIDE DEF n, d, k
<1>3. k \in Int /\ ~(n * 1 < k * d)
  BY <1>1, <1>2
<1>4. Is(a, n, d) /\ Is(Whole(k), k, 1)
  BY <1>3, IsItself, WholeIs DEF n, d
<1>5. Less(a, Whole(k)) <=> n * 1 < k * d
  BY <1>1, <1>3, <1>4, LessIs
<1> QED
  BY <1>3, <1>5 DEF AtMost, k
-----------------------------------------------------------------------------
(* Extremes and bounds. *)

LEMMA Highest ==
  ASSUME NEW S, IsFiniteSet(S), S # {}, NEW f, \A x \in S : f[x] \in Int
  PROVE  \E h \in S : \A x \in S : f[x] <= f[h]
<1> DEFINE Top(s) == \E h \in s : \A x \in s : f[x] <= f[h]
           Good == {s \in SUBSET S : s = {} \/ Top(s)}
<1>1. ASSUME NEW s \in SUBSET S, \A x \in s : s \ {x} \in Good PROVE s \in Good
  <2>1. CASE s = {}
    BY <2>1
  <2>2. CASE s # {}
    <3>1. PICK y \in s : TRUE
      BY <2>2
    <3>2. s \ {y} = {} \/ Top(s \ {y})
      BY <1>1
    <3>3. CASE s \ {y} = {}
      <4>1. s = {y} /\ f[y] \in Int
        BY <3>1, <3>3
      <4> QED
        BY <4>1
    <3>4. CASE Top(s \ {y})
      <4>1. PICK h \in s \ {y} : \A x \in s \ {y} : f[x] <= f[h]
        BY <3>4
      <4>2. f[h] \in Int /\ f[y] \in Int /\ \A x \in s : f[x] \in Int
        BY <3>1, <4>1
      <4>3. CASE f[y] <= f[h]
        BY <4>1, <4>2, <4>3
      <4>4. CASE f[h] <= f[y]
        <5>1. \A x \in s : f[x] <= f[y]
          BY <4>1, <4>2, <4>4
        <5> QED
          BY <3>1, <5>1
      <4> QED
        BY <4>2, <4>3, <4>4
    <3> QED
      BY <3>2, <3>3, <3>4
  <2> QED
    BY <2>1, <2>2
<1>2. SUBSET S = Good
  <2>1. Good \subseteq SUBSET S
    OBVIOUS
  <2>2. \A s \in SUBSET S : (\A x \in s : s \ {x} \in Good) => s \in Good
    BY <1>1
  <2> HIDE DEF Good
  <2> QED
    BY <2>1, <2>2, SetsAreGood, Zenon
<1>3. S \in Good
  BY <1>2
<1> QED
  BY <1>3

\* The values of f are at least a in R and at least b elsewhere.
LEMMA SumAtLeast ==
  ASSUME NEW S, IsFiniteSet(S), NEW f, \A x \in S : f[x] \in Int, NEW R \in SUBSET S,
         NEW a \in Int, NEW b \in Int, \A x \in R : f[x] >= a, \A x \in S \ R : f[x] >= b
  PROVE  SumFunctionOnSet(f, S) >= a * Cardinality(R) + b * Cardinality(S \ R)
<1> DEFINE sum(s) == SumFunctionOnSet(f, s)
           low(s) == Cardinality(s \cap R)
           high(s) == Cardinality(s \ R)
           Good == {s \in SUBSET S : sum(s) >= a * low(s) + b * high(s)}
<1>0. ASSUME NEW s \in SUBSET S
      PROVE  /\ IsFiniteSet(s) /\ IsFiniteSet(s \cap R) /\ IsFiniteSet(s \ R)
             /\ sum(s) \in Int /\ low(s) \in Nat /\ high(s) \in Nat
  <2>1. IsFiniteSet(s)
    BY FS_Subset
  <2>2. s \cap R \in SUBSET s /\ s \ R \in SUBSET s
    OBVIOUS
  <2>3. IsFiniteSet(s \cap R) /\ IsFiniteSet(s \ R)
    BY <2>1, <2>2, FS_Subset
  <2>4. \A x \in s : f[x] \in Int
    OBVIOUS
  <2>5. sum(s) \in Int
    BY <2>1, <2>4, SumIsNumber
  <2> QED
    BY <2>1, <2>3, <2>5, FS_CardinalityType
<1>1. ASSUME NEW s \in SUBSET S, \A x \in s : s \ {x} \in Good PROVE s \in Good
  <2>1. CASE s = {}
    <3>1. sum(s) = 0
      BY <2>1, SumOfNone
    <3>2. low(s) = 0 /\ high(s) = 0
      <4>1. s \cap R = {} /\ s \ R = {}
        BY <2>1
      <4> QED
        BY <4>1, FS_EmptySet
    <3> QED
      BY <3>1, <3>2
  <2>2. CASE s # {}
    <3>1. PICK y \in s : TRUE
      BY <2>2
    <3> DEFINE r == s \ {y}
    <3>2. r \in SUBSET S /\ y \in S /\ f[y] \in Int
      OBVIOUS
    <3>3. sum(r) >= a * low(r) + b * high(r)
      BY <1>1
    <3>4. sum(s) = f[y] + sum(r)
      <4>1. IsFiniteSet(s) /\ \A x \in s : f[x] \in Int
        BY <1>0
      <4> QED
        BY <4>1, SumTakesOut
    <3>5. sum(r) \in Int /\ low(r) \in Nat /\ high(r) \in Nat /\ low(s) \in Nat /\ high(s) \in Nat
      BY <1>0, <3>2
    <3>6. CASE y \in R
      <4>1. r \cap R = (s \cap R) \ {y} /\ r \ R = s \ R /\ y \in s \cap R
        BY <3>1, <3>6
      <4>2. low(r) = low(s) - 1 /\ high(r) = high(s)
        <5>1. IsFiniteSet(s \cap R)
          BY <1>0
        <5>2. Cardinality((s \cap R) \ {y}) = Cardinality(s \cap R) - 1
          BY <4>1, <5>1, FS_RemoveElement
        <5>3. low(r) = low(s) - 1
          BY <4>1, <5>2
        <5>4. high(r) = high(s)
          BY <4>1
        <5> QED
          BY <5>3, <5>4
      <4>3. f[y] >= a
        BY <3>6
      <4> HIDE DEF sum, low, high, r
      <4>4. low(s) = low(r) + 1
        BY <3>5, <4>2
      <4>5. a * low(s) = a * low(r) + a
        BY <3>5, <4>4
      <4>6. sum(s) >= a * low(s) + b * high(s)
        BY <3>2, <3>3, <3>4, <3>5, <4>2, <4>3, <4>5
      <4> QED
        BY <4>6
    <3>7. CASE y \notin R
      <4>1. r \ R = (s \ R) \ {y} /\ r \cap R = s \cap R /\ y \in s \ R
        BY <3>1, <3>7
      <4>2. high(r) = high(s) - 1 /\ low(r) = low(s)
        <5>1. IsFiniteSet(s \ R)
          BY <1>0
        <5>2. Cardinality((s \ R) \ {y}) = Cardinality(s \ R) - 1
          BY <4>1, <5>1, FS_RemoveElement
        <5>3. high(r) = high(s) - 1
          BY <4>1, <5>2
        <5>4. low(r) = low(s)
          BY <4>1
        <5> QED
          BY <5>3, <5>4
      <4>3. f[y] >= b
        BY <3>2, <3>7
      <4> HIDE DEF sum, low, high, r
      <4>4. high(s) = high(r) + 1
        BY <3>5, <4>2
      <4>5. b * high(s) = b * high(r) + b
        BY <3>5, <4>4
      <4>6. sum(s) >= a * low(s) + b * high(s)
        BY <3>2, <3>3, <3>4, <3>5, <4>2, <4>3, <4>5
      <4> QED
        BY <4>6
    <3> QED
      BY <3>6, <3>7
  <2> QED
    BY <2>1, <2>2
<1>2. SUBSET S = Good
  <2>1. Good \subseteq SUBSET S
    OBVIOUS
  <2>2. \A s \in SUBSET S : (\A x \in s : s \ {x} \in Good) => s \in Good
    BY <1>1
  <2> HIDE DEF Good
  <2> QED
    BY <2>1, <2>2, SetsAreGood, Zenon
<1>3. S \in Good /\ S \cap R = R
  BY <1>2
<1> QED
  BY <1>3

LEMMA SumAtMost ==
  ASSUME NEW S, IsFiniteSet(S), NEW f, \A x \in S : f[x] \in Int,
         NEW b \in Int, \A x \in S : f[x] <= b
  PROVE  SumFunctionOnSet(f, S) <= b * Cardinality(S)
<1> DEFINE sum(s) == SumFunctionOnSet(f, s)
           Good == {s \in SUBSET S : sum(s) <= b * Cardinality(s)}
<1>0. ASSUME NEW s \in SUBSET S
      PROVE  IsFiniteSet(s) /\ sum(s) \in Int /\ Cardinality(s) \in Nat
  <2>1. IsFiniteSet(s) /\ \A x \in s : f[x] \in Int
    BY FS_Subset
  <2> QED
    BY <2>1, SumIsNumber, FS_CardinalityType
<1>1. ASSUME NEW s \in SUBSET S, \A x \in s : s \ {x} \in Good PROVE s \in Good
  <2>1. CASE s = {}
    <3>1. sum(s) = 0 /\ Cardinality(s) = 0
      BY <2>1, SumOfNone, FS_EmptySet
    <3> QED
      BY <3>1
  <2>2. CASE s # {}
    <3>1. PICK y \in s : TRUE
      BY <2>2
    <3> DEFINE r == s \ {y}
    <3>2. r \in SUBSET S /\ f[y] \in Int /\ f[y] <= b
      OBVIOUS
    <3>3. sum(r) <= b * Cardinality(r)
      BY <1>1
    <3>4. sum(s) = f[y] + sum(r)
      <4>1. IsFiniteSet(s) /\ \A x \in s : f[x] \in Int
        BY <1>0
      <4> QED
        BY <4>1, SumTakesOut
    <3>5. Cardinality(r) = Cardinality(s) - 1
      BY <1>0, <3>1, FS_RemoveElement
    <3>6. sum(r) \in Int /\ Cardinality(s) \in Nat /\ Cardinality(r) \in Nat
      BY <1>0, <3>2
    <3> HIDE DEF sum, r
    <3>7. b * Cardinality(s) = b * Cardinality(r) + b
      <4>1. Cardinality(s) = Cardinality(r) + 1
        BY <3>5, <3>6
      <4> QED
        BY <3>6, <4>1
    <3>8. sum(s) <= b * Cardinality(s)
      BY <3>2, <3>3, <3>4, <3>6, <3>7
    <3> QED
      BY <3>8
  <2> QED
    BY <2>1, <2>2
<1>2. SUBSET S = Good
  <2>1. Good \subseteq SUBSET S
    OBVIOUS
  <2>2. \A s \in SUBSET S : (\A x \in s : s \ {x} \in Good) => s \in Good
    BY <1>1
  <2> HIDE DEF Good
  <2> QED
    BY <2>1, <2>2, SetsAreGood, Zenon
<1>3. S \in Good
  BY <1>2
<1> QED
  BY <1>3
=============================================================================
