------------------------------ MODULE Folding ------------------------------
(***************************************************************************)
(* What the other proof modules need of the folds of the community         *)
(* modules: that the function such a fold chooses exists, whatever finite  *)
(* set it goes over, and that a sum does not depend on its order. Nothing  *)
(* here is about gotifacts.                                                *)
(*                                                                         *)
(* Induction is stated of sets, for no lemma can take an operator.         *)
(***************************************************************************)
EXTENDS SequencesExt, FiniteSetTheorems, WellFoundedInduction, TLAPS

(* Some number of a set is its least.                                      *)
LEMMA LeastNumber ==
  ASSUME NEW T \in SUBSET Nat, T # {}
  PROVE  \E n \in T : \A m \in T : n <= m
<1> DEFINE R == OpToRel(<, Nat)
<1>1. \A n, m \in Nat : n < m <=> <<n, m>> \in R
  BY DEF OpToRel
<1>2. IsWellFoundedOn(R, Nat)
  BY NatLessThanWellFounded
<1> HIDE DEF R
<1>3. PICK n \in T : \A m \in T : <<m, n>> \notin R
  BY <1>2, WFMin
<1>4. \A m \in T : m \in Nat /\ n \in Nat /\ ~(m < n)
  BY <1>1, <1>3
<1>5. \A m \in T : n <= m
  BY <1>4
<1> QED BY <1>5

(* A set of numbers that has 0, and with a number the next, has them all.  *)
LEMMA NumberInduction ==
  ASSUME NEW T \in SUBSET Nat, 0 \in T, \A n \in T : n + 1 \in T
  PROVE  T = Nat
<1> SUFFICES ASSUME NEW k \in Nat \ T PROVE FALSE
  OBVIOUS
<1>1. PICK n \in Nat \ T : \A m \in Nat \ T : n <= m
  <2> DEFINE U == Nat \ T
  <2>1. U \in SUBSET Nat /\ U # {}
    OBVIOUS
  <2> HIDE DEF U
  <2>2. \E n \in U : \A m \in U : n <= m
    BY <2>1, LeastNumber
  <2> QED BY <2>2 DEF U
<1>2. n # 0 /\ n - 1 \in Nat
  BY <1>1
<1>3. n - 1 \in T
  BY <1>1, <1>2
<1> QED BY <1>1, <1>3

(* Taking an element out of a finite set.                                  *)
LEMMA OneLess ==
  ASSUME NEW s, IsFiniteSet(s), NEW x \in s
  PROVE  /\ IsFiniteSet(s \ {x}) /\ Cardinality(s) \in Nat
         /\ Cardinality(s \ {x}) = Cardinality(s) - 1
         /\ Cardinality(s \ {x}) \in Nat
BY FS_RemoveElement, FS_CardinalityType

(* it is defined by recursion: op adds to what is left of a set the        *)
(* element that ch takes out of it.                                        *)
Recursive(S, base, ch, op, it) ==
  it = [s \in SUBSET S |->
          IF s = {} THEN base ELSE op[<<ch[s], it[s \ {ch[s]}]>>]]

(* There is such a function, whatever ch takes out.                        *)
LEMMA Recursion ==
  ASSUME NEW S, IsFiniteSet(S), NEW V, NEW base \in V,
         NEW ch, \A s \in SUBSET S : s # {} => ch[s] \in s,
         NEW op, \A x \in S, v \in V : op[<<x, v>>] \in V
  PROVE  \E it \in [SUBSET S -> V] : Recursive(S, base, ch, op, it)
<1> DEFINE Next(g, s) == IF s = {} THEN base ELSE op[<<ch[s], g[s \ {ch[s]}]>>]
           Upto(n, g) == \A s \in SUBSET S : Cardinality(s) <= n => g[s] = Next(g, s)
           T == {n \in Nat : \E g \in [SUBSET S -> V] : Upto(n, g)}
<1>1. \A s \in SUBSET S : IsFiniteSet(s) /\ Cardinality(s) \in Nat
                          /\ Cardinality(s) <= Cardinality(S)
  BY FS_Subset, FS_CardinalityType
<1>2. ASSUME NEW g \in [SUBSET S -> V], NEW s \in SUBSET S
      PROVE  Next(g, s) \in V
  <2>1. CASE s = {}
    BY <2>1
  <2>2. CASE s # {}
    <3>1. ch[s] \in S /\ s \ {ch[s]} \in SUBSET S
      BY <2>2
    <3>2. g[s \ {ch[s]}] \in V
      BY <3>1
    <3> QED BY <2>2, <3>1, <3>2
  <2> QED BY <2>1, <2>2
<1>3. 0 \in T
  <2> DEFINE g == [s \in SUBSET S |-> base]
  <2>1. ASSUME NEW s \in SUBSET S, Cardinality(s) <= 0
        PROVE  g[s] = Next(g, s)
    <3>1. s = {}
      BY <1>1, <2>1, FS_EmptySet
    <3> QED BY <3>1
  <2>2. g \in [SUBSET S -> V]
    OBVIOUS
  <2> HIDE DEF g, Next
  <2> QED BY <2>1, <2>2
<1>4. ASSUME NEW n \in T PROVE n + 1 \in T
  <2>1. PICK g \in [SUBSET S -> V] : Upto(n, g)
    OBVIOUS
  <2> DEFINE h == [s \in SUBSET S |-> Next(g, s)]
  <2>2. h \in [SUBSET S -> V]
    BY <1>2
  <2>3. \A s \in SUBSET S : h[s] = Next(g, s)
    OBVIOUS
  <2>4. ASSUME NEW s \in SUBSET S, Cardinality(s) <= n + 1
        PROVE  h[s] = Next(h, s)
    <3>1. CASE s = {}
      BY <3>1
    <3>2. CASE s # {}
      <4> DEFINE r == s \ {ch[s]}
      <4>1. r \in SUBSET S /\ Cardinality(r) = Cardinality(s) - 1 /\ ch[s] \in s
        BY <1>1, <3>2, OneLess
      <4>2. Cardinality(r) <= n
        BY <1>1, <2>4, <4>1
      <4>3. h[r] = g[r]
        BY <2>1, <2>3, <4>1, <4>2
      <4>4. h[s] = op[<<ch[s], g[r]>>]
        BY <3>2
      <4> QED BY <3>2, <4>3, <4>4
    <3> QED BY <3>1, <3>2
  <2> HIDE DEF h, Next
  <2> QED BY <2>2, <2>4
<1> HIDE DEF Next
<1>5. Cardinality(S) \in T
  <2> HIDE DEF T
  <2>1. T \in SUBSET Nat
    BY DEF T
  <2>2. T = Nat
    BY <1>3, <1>4, <2>1, NumberInduction
  <2> QED BY <1>1, <2>2
<1>6. PICK g \in [SUBSET S -> V] : Upto(Cardinality(S), g)
  BY <1>5
<1>7. g = [s \in SUBSET S |-> Next(g, s)]
  BY <1>1, <1>6
<1> QED BY <1>7 DEF Next, Recursive

(* The library's FoldLeft takes the largest number of a range first.       *)
LEMMA LargestOfRange ==
  ASSUME NEW n \in Nat, n >= 1
  PROVE  Max(1..n) = n /\ (1..n) \ {n} = 1..(n - 1)
<1>1. n \in 1..n /\ \A y \in 1..n : n >= y
  OBVIOUS
<1>2. \A x \in 1..n : (\A y \in 1..n : x >= y) => x = n
  OBVIOUS
<1> QED BY <1>1, <1>2 DEF Max

(* Any set of these numbers has a largest one.                             *)
LEMMA LargestIsIn ==
  ASSUME NEW n \in Nat, NEW s \in SUBSET (1..n), s # {}
  PROVE  Max(s) \in s /\ \A y \in s : y <= Max(s)
<1> DEFINE T == {m \in Nat : \A x \in s : x <= m}
<1>1. T \in SUBSET Nat /\ n \in T
  OBVIOUS
<1>2. PICK m \in T : \A k \in T : m <= k
  <2> HIDE DEF T
  <2> QED BY <1>1, LeastNumber
<1>3. m \in s
  <2> SUFFICES ASSUME m \notin s PROVE FALSE
    OBVIOUS
  <2>1. \A x \in s : x \in Nat /\ x >= 1 /\ x <= m /\ x # m
    BY <1>2
  <2>2. m \in Nat /\ m >= 1
    <3>1. PICK x \in s : TRUE
      OBVIOUS
    <3>2. x \in Nat /\ x >= 1 /\ x <= m /\ m \in Nat
      BY <2>1
    <3> QED BY <3>2
  <2>3. m - 1 \in Nat /\ \A x \in s : x <= m - 1
    BY <2>1, <2>2
  <2>4. m - 1 \in T
    BY <2>3
  <2> QED BY <1>2, <2>2, <2>4
<1>4. \A y \in s : m >= y
  BY <1>2
<1>5. Max(s) \in s /\ \A y \in s : Max(s) >= y
  BY <1>3, <1>4 DEF Max
<1>6. \A y \in s : y \in Int
  OBVIOUS
<1> QED BY <1>5, <1>6

(* it folds seq as FoldLeft does: op adds the last element to the others.  *)
FoldedLeft(n, seq, base, op, it) ==
  \A s \in SUBSET (1..n) :
    it[s] = IF s = {} THEN base ELSE op[<<seq[Max(s)], it[s \ {Max(s)}]>>]

(* There is such a function, for operators on a set V.                     *)
LEMMA LeftFold ==
  ASSUME NEW n \in Nat, NEW X, NEW seq \in [1..n -> X], NEW V, NEW base \in V,
         NEW op, \A x \in X, v \in V : op[<<x, v>>] \in V
  PROVE  \E it \in [SUBSET (1..n) -> V] : FoldedLeft(n, seq, base, op, it)
<1> DEFINE D == 1..n
           ch == [s \in SUBSET D |-> Max(s)]
           f == [e \in D \X V |-> op[<<seq[e[1]], e[2]>>]]
<1>1. \A s \in SUBSET D : s # {} => ch[s] \in s /\ ch[s] = Max(s)
  BY LargestIsIn
<1>2. \A x \in D, v \in V : f[<<x, v>>] = op[<<seq[x], v>>]
  OBVIOUS
<1>3. \A x \in D, v \in V : f[<<x, v>>] \in V
  BY <1>2
<1>4. IsFiniteSet(D)
  BY FS_Interval
<1>5. PICK it \in [SUBSET D -> V] : Recursive(D, base, ch, f, it)
  <2> HIDE DEF D, ch, f
  <2> QED BY <1>1, <1>3, <1>4, Recursion
<1>6. ASSUME NEW s \in SUBSET D
      PROVE  it[s] = IF s = {} THEN base
                     ELSE op[<<seq[Max(s)], it[s \ {Max(s)}]>>]
  <2>1. CASE s = {}
    BY <1>5, <2>1 DEF Recursive
  <2>2. CASE s # {}
    <3> HIDE DEF ch, f
    <3>1. it[s] = f[<<ch[s], it[s \ {ch[s]}]>>]
      BY <1>5, <2>2 DEF Recursive
    <3>2. ch[s] \in D /\ ch[s] = Max(s) /\ it[s \ {ch[s]}] \in V
      BY <1>1, <2>2
    <3> QED BY <1>2, <2>2, <3>1, <3>2
  <2> QED BY <2>1, <2>2
<1> QED BY <1>6 DEF FoldedLeft

-----------------------------------------------------------------------------
(* Sums.                                                                   *)

(* it sums up f, over any subset of S, as SumFunctionOnSet does.           *)
SumTo(f, S, it) ==
  it = [s \in SUBSET S |-> IF s = {} THEN 0
                           ELSE LET x == CHOOSE x \in s : TRUE
                                IN  f[x] + it[s \ {x}]]

(* What is added last.                                                     *)
LEMMA SumStep ==
  ASSUME NEW f, NEW S, NEW it, SumTo(f, S, it), NEW s \in SUBSET S, s # {}
  PROVE  \E x \in s : /\ x = (CHOOSE y \in s : TRUE)
                      /\ it[s] = f[x] + it[s \ {x}]
<1> DEFINE x == CHOOSE y \in s : TRUE
<1>1. x \in s
  OBVIOUS
<1>2. it[s] = f[x] + it[s \ {x}]
  BY DEF SumTo
<1> QED BY <1>1, <1>2

(* A sum depends on the numbers added only.                                *)
LEMMA SumUnique ==
  ASSUME NEW S, NEW T, NEW U, U \subseteq S, U \subseteq T, IsFiniteSet(U),
         NEW f, NEW g, \A x \in U : f[x] = g[x],
         NEW a, SumTo(f, S, a), NEW b, SumTo(g, T, b)
  PROVE  a[U] = b[U]
<1> DEFINE N == {n \in Nat : \A u \in SUBSET U : Cardinality(u) = n => a[u] = b[u]}
<1>1. \A u \in SUBSET U : IsFiniteSet(u) /\ Cardinality(u) \in Nat
  BY FS_Subset, FS_CardinalityType
<1>2. 0 \in N
  <2>1. a[{}] = 0 /\ b[{}] = 0
    BY DEF SumTo
  <2>2. \A u \in SUBSET U : Cardinality(u) = 0 => u = {}
    BY <1>1, FS_EmptySet
  <2> QED BY <2>1, <2>2
<1>3. ASSUME NEW n \in N PROVE n + 1 \in N
  <2>1. SUFFICES ASSUME NEW u \in SUBSET U, Cardinality(u) = n + 1
                 PROVE  a[u] = b[u]
    OBVIOUS
  <2>2. u # {}
    BY <1>1, <2>1, FS_EmptySet
  <2>3. PICK x \in u : x = (CHOOSE y \in u : TRUE) /\ a[u] = f[x] + a[u \ {x}]
    BY <2>2, SumStep
  <2>4. PICK z \in u : z = (CHOOSE y \in u : TRUE) /\ b[u] = g[z] + b[u \ {z}]
    BY <2>2, SumStep
  <2>5. Cardinality(u \ {x}) = n /\ u \ {x} \in SUBSET U
    BY <1>1, <2>1, OneLess
  <2>6. a[u \ {x}] = b[u \ {x}] /\ f[x] = g[x] /\ x = z
    BY <2>3, <2>4, <2>5
  <2> QED BY <2>3, <2>4, <2>6
<1> HIDE DEF N
<1>4. N \in SUBSET Nat
  BY DEF N
<1>5. N = Nat
  BY <1>2, <1>3, <1>4, NumberInduction
<1> QED BY <1>1, <1>5 DEF N

(* The library's sum is one of these functions' value.                     *)
LEMMA SumExists ==
  ASSUME NEW S, IsFiniteSet(S), NEW f, \A x \in S : f[x] \in Nat
  PROVE  \E it \in [SUBSET S -> Nat] :
           SumTo(f, S, it) /\ SumFunctionOnSet(f, S) = it[S]
<1> DEFINE ch == [s \in SUBSET S |-> CHOOSE x \in s : TRUE]
           op == [e \in S \X Nat |-> f[e[1]] + e[2]]
<1>1. \A s \in SUBSET S : s # {} => ch[s] \in s
  OBVIOUS
<1>2. \A x \in S, v \in Nat : op[<<x, v>>] = f[x] + v /\ op[<<x, v>>] \in Nat
  OBVIOUS
<1> HIDE DEF op
<1>3. PICK it \in [SUBSET S -> Nat] : Recursive(S, 0, ch, op, it)
  <2> HIDE DEF ch
  <2>1. \A x \in S, v \in Nat : op[<<x, v>>] \in Nat
    BY <1>2
  <2> QED BY <1>1, <2>1, Recursion
<1>4. ASSUME NEW s \in SUBSET S
      PROVE  it[s] = IF s = {} THEN 0
                     ELSE LET x == CHOOSE x \in s : TRUE
                          IN  f[x] + it[s \ {x}]
  <2>1. CASE s = {}
    BY <1>3, <2>1 DEF Recursive
  <2>2. CASE s # {}
    <3>1. /\ ch[s] \in S /\ ch[s] = (CHOOSE x \in s : TRUE)
          /\ it[s \ {ch[s]}] \in Nat
      BY <2>2
    <3> HIDE DEF ch
    <3>2. it[s] = op[<<ch[s], it[s \ {ch[s]}]>>]
      BY <1>3, <2>2 DEF Recursive
    <3>3. it[s] = f[ch[s]] + it[s \ {ch[s]}]
      BY <1>2, <3>1, <3>2
    <3> QED BY <2>2, <3>1, <3>3
  <2> QED BY <2>1, <2>2
<1>5. SumTo(f, S, it)
  <2>1. it = [s \in SUBSET S |-> it[s]]
    OBVIOUS
  <2> QED BY <1>4, <2>1 DEF SumTo
<1> DEFINE j == CHOOSE k : SumTo(f, S, k)
<1>6. SumTo(f, S, j)
  BY <1>5
<1>7. SumFunctionOnSet(f, S) = j[S]
  BY DEF SumFunctionOnSet, FoldFunctionOnSet, MapThenFoldSet, SumTo
<1> HIDE DEF j
<1>8. j[S] = it[S]
  BY <1>5, <1>6, SumUnique
<1> QED BY <1>5, <1>7, <1>8

(* The same of the library's sums.                                         *)
LEMMA SumSame ==
  ASSUME NEW S, IsFiniteSet(S), NEW f, NEW g, \A x \in S : f[x] \in Nat,
         \A x \in S : g[x] = f[x]
  PROVE  SumFunctionOnSet(f, S) = SumFunctionOnSet(g, S)
<1>1. \A x \in S : g[x] \in Nat
  OBVIOUS
<1>2. PICK a \in [SUBSET S -> Nat] :
        SumTo(f, S, a) /\ SumFunctionOnSet(f, S) = a[S]
  BY SumExists
<1>3. PICK b \in [SUBSET S -> Nat] :
        SumTo(g, S, b) /\ SumFunctionOnSet(g, S) = b[S]
  BY <1>1, SumExists
<1> QED BY <1>2, <1>3, SumUnique

(* Nothing adds up to nothing.                                             *)
LEMMA SumEmpty == \A f : SumFunctionOnSet(f, {}) = 0
<1> TAKE f
<1>1. PICK it \in [SUBSET {} -> Nat] :
        SumTo(f, {}, it) /\ SumFunctionOnSet(f, {}) = it[{}]
  BY FS_EmptySet, SumExists
<1> QED BY <1>1 DEF SumTo

(* Any element may be added last.                                          *)
LEMMA SumAnyOrder ==
  ASSUME NEW S, IsFiniteSet(S), NEW f, \A x \in S : f[x] \in Nat,
         NEW it \in [SUBSET S -> Nat], SumTo(f, S, it), NEW z \in S
  PROVE  it[S] = f[z] + it[S \ {z}]
<1> DEFINE N == {n \in Nat : \A s \in SUBSET S : Cardinality(s) = n =>
                   \A y \in s : it[s] = f[y] + it[s \ {y}]}
<1>1. \A s \in SUBSET S : IsFiniteSet(s) /\ Cardinality(s) \in Nat
  BY FS_Subset, FS_CardinalityType
<1>2. 0 \in N
  BY <1>1, FS_EmptySet
<1>3. ASSUME NEW n \in N PROVE n + 1 \in N
  <2>1. SUFFICES ASSUME NEW s \in SUBSET S, Cardinality(s) = n + 1, NEW y \in s
                 PROVE  it[s] = f[y] + it[s \ {y}]
    OBVIOUS
  <2>2. PICK x \in s : it[s] = f[x] + it[s \ {x}]
    BY SumStep
  <2>3. CASE x = y
    BY <2>2, <2>3
  <2>4. CASE x # y
    <3>1. /\ Cardinality(s \ {x}) = n /\ y \in s \ {x} /\ s \ {x} \in SUBSET S
          /\ Cardinality(s \ {y}) = n /\ x \in s \ {y} /\ s \ {y} \in SUBSET S
      BY <1>1, <2>1, <2>4, OneLess
    <3> DEFINE r == (s \ {x}) \ {y}
    <3>2. it[s \ {x}] = f[y] + it[r]
      BY <3>1
    <3>3. it[s \ {y}] = f[x] + it[(s \ {y}) \ {x}]
      BY <3>1
    <3>4. (s \ {y}) \ {x} = r
      OBVIOUS
    <3>5. r \in SUBSET S /\ f[x] \in Nat /\ f[y] \in Nat
      OBVIOUS
    <3> HIDE DEF r
    <3>6. it[r] \in Nat
      BY <3>5
    <3>7. it[s \ {y}] = f[x] + it[r]
      BY <3>3, <3>4
    <3>8. it[s] = f[x] + (f[y] + it[r])
      BY <2>2, <3>2
    <3> HIDE DEF N
    <3>9. f[x] + (f[y] + it[r]) = f[y] + (f[x] + it[r])
      BY <3>5, <3>6
    <3> QED BY <3>7, <3>8, <3>9
  <2> QED BY <2>3, <2>4
<1> HIDE DEF N
<1>4. N \in SUBSET Nat
  BY DEF N
<1>5. N = Nat
  BY <1>2, <1>3, <1>4, NumberInduction
<1> QED BY <1>1, <1>5 DEF N

(* So any element may be taken out of a sum.                               *)
LEMMA SumSplit ==
  ASSUME NEW S, IsFiniteSet(S), NEW f, \A x \in S : f[x] \in Nat, NEW y \in S
  PROVE  SumFunctionOnSet(f, S) = f[y] + SumFunctionOnSet(f, S \ {y})
<1> DEFINE R == S \ {y}
<1>1. PICK a \in [SUBSET S -> Nat] :
        SumTo(f, S, a) /\ SumFunctionOnSet(f, S) = a[S]
  BY SumExists
<1>2. IsFiniteSet(R) /\ (\A x \in R : f[x] \in Nat) /\ R \subseteq S
  BY FS_RemoveElement
<1>3. a[S] = f[y] + a[R]
  <2>1. SumTo(f, S, a)
    BY <1>1
  <2> HIDE DEF R
  <2>2. a[S] = f[y] + a[S \ {y}]
    BY <2>1, SumAnyOrder
  <2> QED BY <2>2 DEF R
<1> HIDE DEF R
<1>4. PICK b \in [SUBSET R -> Nat] :
        SumTo(f, R, b) /\ SumFunctionOnSet(f, R) = b[R]
  BY <1>2, SumExists
<1>5. a[R] = b[R]
  BY <1>1, <1>2, <1>4, SumUnique
<1> QED BY <1>1, <1>3, <1>4, <1>5 DEF R

(* Numbers add up to a number.                                             *)
LEMMA SumIsNumber ==
  ASSUME NEW S, IsFiniteSet(S), NEW f, \A x \in S : f[x] \in Nat
  PROVE  SumFunctionOnSet(f, S) \in Nat
<1>1. PICK it \in [SUBSET S -> Nat] :
        SumTo(f, S, it) /\ SumFunctionOnSet(f, S) = it[S]
  BY SumExists
<1> QED BY <1>1

(* A part adds up to less, or the same.                                    *)
LEMMA SumOfPart ==
  ASSUME NEW S, IsFiniteSet(S), NEW f, \A x \in S : f[x] \in Nat,
         NEW P \in SUBSET S
  PROVE  SumFunctionOnSet(f, P) <= SumFunctionOnSet(f, S)
<1> DEFINE N == {n \in Nat : \A R \in SUBSET S : Cardinality(R) = n /\ P \subseteq R
                   => SumFunctionOnSet(f, P) <= SumFunctionOnSet(f, R)}
           C == Cardinality(S)
<1>1. \A R \in SUBSET S : /\ IsFiniteSet(R) /\ Cardinality(R) \in Nat
                          /\ SumFunctionOnSet(f, R) \in Nat
  BY FS_Subset, FS_CardinalityType, SumIsNumber
<1>2. 0 \in N
  <2> SUFFICES ASSUME NEW R \in SUBSET S, Cardinality(R) = 0, P \subseteq R
               PROVE  SumFunctionOnSet(f, P) <= SumFunctionOnSet(f, R)
    OBVIOUS
  <2>1. R = {} /\ P = R
    BY <1>1, FS_EmptySet
  <2> QED BY <1>1, <2>1
<1>3. ASSUME NEW n \in N PROVE n + 1 \in N
  <2> SUFFICES ASSUME NEW R \in SUBSET S, Cardinality(R) = n + 1, P \subseteq R
               PROVE  SumFunctionOnSet(f, P) <= SumFunctionOnSet(f, R)
    OBVIOUS
  <2>1. CASE P = R
    BY <1>1, <2>1
  <2>2. CASE P # R
    <3>1. PICK y \in R : y \notin P
      BY <2>2
    <3> DEFINE Q == R \ {y}
    <3>2. Cardinality(Q) = n /\ Q \in SUBSET S /\ P \subseteq Q
      BY <1>1, <3>1, OneLess
    <3>3. SumFunctionOnSet(f, P) <= SumFunctionOnSet(f, Q)
      BY <3>2
    <3>4. SumFunctionOnSet(f, R) = f[y] + SumFunctionOnSet(f, Q)
      BY <1>1, SumSplit
    <3> HIDE DEF Q
    <3> QED BY <1>1, <3>2, <3>3, <3>4
  <2> QED BY <2>1, <2>2
<1> HIDE DEF N
<1>4. N \in SUBSET Nat
  BY DEF N
<1>5. N = Nat
  BY <1>2, <1>3, <1>4, NumberInduction
<1> QED BY <1>1, <1>5 DEF N

(* Numbers add up to the same, however they are named.                     *)
LEMMA SumRenamed ==
  ASSUME NEW S, IsFiniteSet(S), NEW T, NEW b \in Bijection(S, T),
         NEW g, \A y \in T : g[y] \in Nat, NEW h, \A x \in S : h[x] = g[b[x]]
  PROVE  SumFunctionOnSet(h, S) = SumFunctionOnSet(g, T)
<1> DEFINE Image(R) == {b[x] : x \in R}
           N == {n \in Nat : \A R \in SUBSET S : Cardinality(R) = n =>
                   SumFunctionOnSet(h, R) = SumFunctionOnSet(g, Image(R))}
<1>1. /\ \A x, y \in S : b[x] = b[y] => x = y
      /\ \A y \in T : \E x \in S : b[x] = y
      /\ \A x \in S : b[x] \in T /\ h[x] \in Nat
  BY DEF Bijection, Injection, Surjection, IsInjective
<1>2. \A R \in SUBSET S : IsFiniteSet(R) /\ Cardinality(R) \in Nat
  BY FS_Subset, FS_CardinalityType
<1>3. IsFiniteSet(T)
  BY FS_Surjection DEF Bijection
<1>4. \A R \in SUBSET S : Image(R) \in SUBSET T /\ IsFiniteSet(Image(R))
  <2> SUFFICES ASSUME NEW R \in SUBSET S
               PROVE  Image(R) \in SUBSET T /\ IsFiniteSet(Image(R))
    OBVIOUS
  <2>1. Image(R) \in SUBSET T
    BY <1>1
  <2> HIDE DEF Image
  <2> QED BY <1>3, <2>1, FS_Subset
<1>5. 0 \in N
  <2> SUFFICES ASSUME NEW R \in SUBSET S, Cardinality(R) = 0
               PROVE  SumFunctionOnSet(h, R) = SumFunctionOnSet(g, Image(R))
    OBVIOUS
  <2>1. R = {} /\ Image(R) = {}
    BY <1>2, FS_EmptySet
  <2> QED BY <2>1, SumEmpty
<1>6. ASSUME NEW n \in N PROVE n + 1 \in N
  <2> SUFFICES ASSUME NEW R \in SUBSET S, Cardinality(R) = n + 1
               PROVE  SumFunctionOnSet(h, R) = SumFunctionOnSet(g, Image(R))
    OBVIOUS
  <2>1. PICK x \in R : TRUE
    BY <1>2, FS_EmptySet
  <2> DEFINE Q == R \ {x}
  <2>2. Cardinality(Q) = n /\ Q \in SUBSET S
    BY <1>2, <2>1, OneLess
  <2>3. SumFunctionOnSet(h, Q) = SumFunctionOnSet(g, Image(Q))
    BY <2>2
  <2>4. Image(R) \ {b[x]} = Image(Q) /\ b[x] \in Image(R)
    BY <1>1, <2>1
  <2>5. SumFunctionOnSet(h, R) = h[x] + SumFunctionOnSet(h, Q)
    BY <1>1, <1>2, <2>1, SumSplit
  <2> DEFINE I == Image(R)
             y == b[x]
  <2>6. IsFiniteSet(I) /\ (\A z \in I : g[z] \in Nat) /\ y \in I
    BY <1>4, <2>4
  <2> HIDE DEF I, y
  <2>7. SumFunctionOnSet(g, I) = g[y] + SumFunctionOnSet(g, I \ {y})
    BY <2>6, SumSplit
  <2> HIDE DEF Image, Q, N
  <2> QED BY <2>1, <2>3, <2>4, <2>5, <2>7 DEF I, y
<1> HIDE DEF N
<1>7. N \in SUBSET Nat
  BY DEF N
<1>8. N = Nat
  BY <1>5, <1>6, <1>7, NumberInduction
<1>9. Image(S) = T
  BY <1>1
<1> HIDE DEF Image
<1> QED BY <1>2, <1>8, <1>9 DEF N
=============================================================================
