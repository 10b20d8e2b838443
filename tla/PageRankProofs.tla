---------------------------- MODULE PageRankProofs ----------------------------
(***************************************************************************)
(* Theorems about PageRank: a superstep is a step of the power iteration,  *)
(* and it keeps the sum of the scores, for every graph, every number of    *)
(* workers and every interleaving of their computations.                   *)
(***************************************************************************)
EXTENDS PageRank, FiniteSetTheorems, WellFoundedInduction, NaturalsInduction, TLAPS

(* Induction, over a set of numbers and not over a formula: every set of   *)
(* numbers has a least one.                                                *)
LEMMA LeastNumber ==
    ASSUME NEW T, T \subseteq Nat, T # {}
    PROVE  \E n \in T : \A m \in T : n <= m
<1> DEFINE R == {ss \in Nat \X Nat : ss[1] < ss[2]}
<1>1. IsWellFoundedOn(R, Nat)
  BY NatLessThanWellFounded DEF OpToRel
<1> HIDE DEF R
<1>2. PICK x \in T : \A y \in T : ~ (<<y, x>> \in R)
  BY <1>1, WFMin
<1>3. ASSUME NEW y \in T PROVE x <= y
  <2>1. ~(<<y, x>> \in R)
    BY <1>2
  <2>2. <<y, x>> \in Nat \X Nat /\ <<y, x>>[1] = y /\ <<y, x>>[2] = x
    OBVIOUS
  <2>3. ~(y < x)
    BY <2>1, <2>2 DEF R
  <2> QED BY <2>3
<1> QED BY <1>3

(* A set with 0 and with the successor of each of its numbers has all.     *)
LEMMA Induction ==
    ASSUME NEW T, 0 \in T, \A n \in Nat : n \in T => n + 1 \in T
    PROVE  Nat \subseteq T
<1> SUFFICES ASSUME Nat \ T # {} PROVE FALSE
  OBVIOUS
<1>1. PICK n \in Nat \ T : \A m \in Nat \ T : n <= m
  BY LeastNumber
<1>2. n # 0
  OBVIOUS
<1>3. n - 1 \in Nat /\ n = (n - 1) + 1 /\ ~(n <= n - 1)
  BY <1>2
<1>4. n - 1 \in T
  BY <1>1, <1>3
<1> QED BY <1>3, <1>4

(* A set of subsets that has each one of whose proper subsets it has them  *)
(* all, has all of them.                                                   *)
LEMMA SetInduction ==
    ASSUME NEW S, IsFiniteSet(S), NEW Q,
           \A T \in SUBSET S : (\A U \in SUBSET T : U # T => U \in Q) => T \in Q
    PROVE  SUBSET S \subseteq Q
<1> SUFFICES ASSUME ~(SUBSET S \subseteq Q) PROVE FALSE
  OBVIOUS
<1> DEFINE Sizes == {Cardinality(T) : T \in {T \in SUBSET S : T \notin Q}}
<1>1. \A T \in SUBSET S : IsFiniteSet(T) /\ Cardinality(T) \in Nat
  BY FS_Subset, FS_CardinalityType
<1>2. Sizes \subseteq Nat /\ Sizes # {}
  BY <1>1
<1>3. PICK n \in Sizes : \A m \in Sizes : n <= m
  <2> HIDE DEF Sizes
  <2> QED BY <1>2, LeastNumber
<1>4. PICK T \in SUBSET S : T \notin Q /\ Cardinality(T) = n
  BY <1>3
<1>5. PICK U \in SUBSET T : U # T /\ U \notin Q
  BY <1>4
<1>6. Cardinality(U) <= n /\ Cardinality(U) # n /\ Cardinality(U) \in Nat /\ n \in Nat
  BY <1>1, <1>2, <1>4, <1>5, FS_Subset
<1>7. Cardinality(U) \in Sizes
  BY <1>4, <1>5
<1>8. n <= Cardinality(U)
  BY <1>3, <1>7
<1> QED BY <1>6, <1>8
-----------------------------------------------------------------------------
(* Sums.  SumFunctionOnSet adds the values that a function has on a set,   *)
(* beginning with an element that is chosen.                               *)
Sum(f, S) == SumFunctionOnSet(f, S)

Chosen(s) == CHOOSE x \in s : TRUE
IsSum(g, f, S) ==
    g = [s \in SUBSET S |-> IF s = {} THEN 0 ELSE f[Chosen(s)] + g[s \ {Chosen(s)}]]

SumsOf(f, S) == CHOOSE g : IsSum(g, f, S)

LEMMA SumIs == ASSUME NEW f, NEW S PROVE Sum(f, S) = SumsOf(f, S)[S]
BY DEF Sum, SumFunctionOnSet, FoldFunctionOnSet, MapThenFoldSet, SumsOf, IsSum, Chosen

(* A function that is right on the sets of at most n elements.             *)
RightUpTo(g, f, S, n) ==
    \A s \in SUBSET S : Cardinality(s) <= n =>
        g[s] = IF s = {} THEN 0 ELSE f[Chosen(s)] + g[s \ {Chosen(s)}]

LEMMA SumExists ==
    ASSUME NEW f, NEW S, IsFiniteSet(S)
    PROVE  \E g : IsSum(g, f, S)
<1>1. \A T \in SUBSET S : IsFiniteSet(T) /\ Cardinality(T) \in Nat /\ Cardinality(T) <= Cardinality(S)
  BY FS_Subset, FS_CardinalityType
<1>2. \A T \in SUBSET S : T # {} =>
         /\ Chosen(T) \in T /\ T \ {Chosen(T)} \in SUBSET S
         /\ Cardinality(T \ {Chosen(T)}) = Cardinality(T) - 1
  <2> SUFFICES ASSUME NEW T \in SUBSET S, T # {}
               PROVE  /\ Chosen(T) \in T /\ T \ {Chosen(T)} \in SUBSET S
                      /\ Cardinality(T \ {Chosen(T)}) = Cardinality(T) - 1
    OBVIOUS
  <2>1. Chosen(T) \in T
    BY DEF Chosen
  <2> QED BY <1>1, <2>1, FS_RemoveElement
<1> DEFINE Q == {n \in Nat : \E g : RightUpTo(g, f, S, n)}
           Unrolled(g) == [s \in SUBSET S |-> IF s = {} THEN 0 ELSE f[Chosen(s)] + g[s \ {Chosen(s)}]]
<1>3. 0 \in Q
  <2>1. PICK g : g = [s \in SUBSET S |-> 0]
    OBVIOUS
  <2>2. ASSUME NEW s \in SUBSET S, Cardinality(s) <= 0
        PROVE  s = {}
    BY <1>1, <2>2, FS_EmptySet
  <2>3. RightUpTo(g, f, S, 0)
    BY <2>1, <2>2 DEF RightUpTo
  <2> QED BY <2>3
<1>4. ASSUME NEW n \in Nat, n \in Q PROVE n + 1 \in Q
  <2>1. PICK g : RightUpTo(g, f, S, n)
    BY <1>4
  <2>2. PICK h : h = Unrolled(g)
    OBVIOUS
  <2>3. ASSUME NEW s \in SUBSET S, Cardinality(s) <= n + 1, s # {}
        PROVE  h[s] = f[Chosen(s)] + h[s \ {Chosen(s)}]
    <3>1. PICK t \in SUBSET S : t = s \ {Chosen(s)}
      BY <1>2, <2>3
    <3>2. Cardinality(t) <= n
      BY <1>1, <1>2, <2>3, <3>1
    <3>3. g[t] = h[t]
      BY <2>1, <2>2, <3>2 DEF RightUpTo
    <3>4. h[s] = f[Chosen(s)] + g[t]
      BY <2>2, <2>3, <3>1
    <3> QED BY <3>1, <3>3, <3>4
  <2>4. h[{}] = 0
    BY <2>2
  <2>5. RightUpTo(h, f, S, n + 1)
    BY <2>3, <2>4 DEF RightUpTo
  <2> QED BY <2>5
<1>5. Cardinality(S) \in Q
  <2> HIDE DEF Q
  <2> QED BY <1>1, <1>3, <1>4, Induction
<1>6. PICK g : RightUpTo(g, f, S, Cardinality(S))
  BY <1>5
<1>7. PICK h : h = Unrolled(g)
  OBVIOUS
<1>8. ASSUME NEW s \in SUBSET S PROVE h[s] = Unrolled(h)[s]
  <2>1. CASE s = {}
    BY <1>7, <2>1
  <2>2. CASE s # {}
    <3>1. PICK t \in SUBSET S : t = s \ {Chosen(s)}
      BY <1>2, <2>2
    <3>2. g[t] = h[t]
      BY <1>1, <1>6, <1>7 DEF RightUpTo
    <3> QED BY <1>7, <2>2, <3>1, <3>2
  <2> QED BY <2>1, <2>2
<1>9. h = Unrolled(h)
  BY <1>7, <1>8
<1> QED BY <1>9 DEF IsSum

LEMMA ChosenIn ==
    ASSUME NEW T, T # {}
    PROVE  Chosen(T) \in T /\ T \ {Chosen(T)} \in SUBSET T /\ T \ {Chosen(T)} # T
<1>1. Chosen(T) \in T
  BY DEF Chosen
<1> QED BY <1>1

(* A sum begins with a chosen element ...                                  *)
Opens(g, f, T) == g[T] = f[Chosen(T)] + g[T \ {Chosen(T)}]

LEMMA SumUnrolls ==
    ASSUME NEW f, NEW S, IsFiniteSet(S), NEW T \in SUBSET S
    PROVE  /\ SumsOf(f, S)[{}] = 0
           /\ T # {} => Opens(SumsOf(f, S), f, T)
<1>1. IsSum(SumsOf(f, S), f, S)
  BY SumExists DEF SumsOf
<1>2. PICK g : g = SumsOf(f, S)
  OBVIOUS
<1>3. g = [s \in SUBSET S |-> IF s = {} THEN 0 ELSE f[Chosen(s)] + g[s \ {Chosen(s)}]]
  BY <1>1, <1>2 DEF IsSum
<1>4. {} \in SUBSET S
  OBVIOUS
<1> QED BY <1>2, <1>3, <1>4 DEF Opens

LEMMA SumsAgree ==
    ASSUME NEW f, NEW S, IsFiniteSet(S), NEW T \in SUBSET S
    PROVE  Sum(f, T) = SumsOf(f, S)[T]
<1>1. IsFiniteSet(T)
  BY FS_Subset
<1> DEFINE Q == {U \in SUBSET T : SumsOf(f, T)[U] = SumsOf(f, S)[U]}
<1>2. ASSUME NEW U \in SUBSET T, \A V \in SUBSET U : V # U => V \in Q
      PROVE  U \in Q
  <2>1. CASE U = {}
    BY <1>1, <2>1, SumUnrolls
  <2>2. CASE U # {}
    <3>1. PICK V : V = U \ {Chosen(U)}
      OBVIOUS
    <3>2. V \in SUBSET U /\ V # U
      BY <2>2, <3>1, ChosenIn
    <3>3. SumsOf(f, T)[V] = SumsOf(f, S)[V]
      BY <1>2, <3>2
    <3>4. U \in SUBSET S /\ U \in SUBSET T
      OBVIOUS
    <3>5. Opens(SumsOf(f, T), f, U)
      BY <1>1, <2>2, <3>4, SumUnrolls
    <3>6. Opens(SumsOf(f, S), f, U)
      BY <2>2, <3>4, SumUnrolls
    <3> QED BY <3>1, <3>3, <3>5, <3>6 DEF Opens
  <2> QED BY <2>1, <2>2
<1>3. SUBSET T \subseteq Q
  <2> HIDE DEF Q
  <2> QED BY <1>1, <1>2, SetInduction
<1>4. T \in SUBSET T
  OBVIOUS
<1> QED BY <1>3, <1>4, SumIs

LEMMA SumOpens ==
    ASSUME NEW f, NEW S, IsFiniteSet(S)
    PROVE  /\ Sum(f, {}) = 0
           /\ S # {} => /\ Chosen(S) \in S
                        /\ Sum(f, S) = f[Chosen(S)] + Sum(f, S \ {Chosen(S)})
<1>1. Sum(f, {}) = 0
  <2>1. {} \in SUBSET S
    OBVIOUS
  <2>2. Sum(f, {}) = SumsOf(f, S)[{}]
    BY <2>1, SumsAgree
  <2>3. SumsOf(f, S)[{}] = 0
    BY <2>1, SumUnrolls
  <2> QED BY <2>2, <2>3
<1>2. ASSUME S # {}
      PROVE  Chosen(S) \in S /\ Sum(f, S) = f[Chosen(S)] + Sum(f, S \ {Chosen(S)})
  <2>1. Chosen(S) \in S
    BY <1>2 DEF Chosen
  <2>2. PICK V \in SUBSET S : V = S \ {Chosen(S)}
    OBVIOUS
  <2>3. S \in SUBSET S
    OBVIOUS
  <2>4. Sum(f, V) = SumsOf(f, S)[V] /\ Sum(f, S) = SumsOf(f, S)[S]
    BY <2>3, SumsAgree
  <2>5. Opens(SumsOf(f, S), f, S)
    BY <1>2, <2>3, SumUnrolls
  <2> QED BY <2>1, <2>2, <2>4, <2>5 DEF Opens
<1> QED BY <1>1, <1>2

(* Induction along the elements of a set as they are chosen.               *)
LEMMA ChosenInduction ==
    ASSUME NEW S, IsFiniteSet(S), NEW Q, {} \in Q,
           \A T \in SUBSET S : T # {} /\ T \ {Chosen(T)} \in Q => T \in Q
    PROVE  SUBSET S \subseteq Q
<1>1. ASSUME NEW T \in SUBSET S, \A U \in SUBSET T : U # T => U \in Q
      PROVE  T \in Q
  <2>1. CASE T = {}
    BY <2>1
  <2>2. CASE T # {}
    <3>1. PICK U \in SUBSET T : U = T \ {Chosen(T)} /\ U # T
      BY <2>2 DEF Chosen
    <3> QED BY <1>1, <2>2, <3>1
  <2> QED BY <2>1, <2>2
<1> QED BY <1>1, SetInduction

(* ... is an integer ...                                                   *)
LEMMA SumInt ==
    ASSUME NEW f, NEW S, IsFiniteSet(S), \A x \in S : f[x] \in Int
    PROVE  Sum(f, S) \in Int
<1> DEFINE Q == {T \in SUBSET S : Sum(f, T) \in Int}
<1>1. {} \in Q
  <2>1. Sum(f, {}) = 0
    BY SumOpens
  <2> QED BY <2>1
<1>2. ASSUME NEW T \in SUBSET S, T # {}, T \ {Chosen(T)} \in Q
      PROVE  T \in Q
  <2>1. IsFiniteSet(T)
    BY FS_Subset
  <2>2. Chosen(T) \in T /\ Sum(f, T) = f[Chosen(T)] + Sum(f, T \ {Chosen(T)})
    BY <1>2, <2>1, SumOpens
  <2> QED BY <1>2, <2>2
<1>3. SUBSET S \subseteq Q
  <2> HIDE DEF Q
  <2> QED BY <1>1, <1>2, ChosenInduction
<1> QED BY <1>3

(* ... depends on nothing but the values on the set ...                    *)
LEMMA SumSame ==
    ASSUME NEW f, NEW g, NEW S, IsFiniteSet(S), \A x \in S : f[x] = g[x]
    PROVE  Sum(f, S) = Sum(g, S)
<1> DEFINE Q == {T \in SUBSET S : Sum(f, T) = Sum(g, T)}
<1>1. {} \in Q
  BY SumOpens
<1>2. ASSUME NEW T \in SUBSET S, T # {}, T \ {Chosen(T)} \in Q
      PROVE  T \in Q
  <2>1. IsFiniteSet(T)
    BY FS_Subset
  <2>2. Chosen(T) \in T /\ Sum(f, T) = f[Chosen(T)] + Sum(f, T \ {Chosen(T)})
    BY <1>2, <2>1, SumOpens
  <2>3. Sum(g, T) = g[Chosen(T)] + Sum(g, T \ {Chosen(T)})
    BY <1>2, <2>1, SumOpens
  <2> QED BY <1>2, <2>2, <2>3
<1>3. SUBSET S \subseteq Q
  <2> HIDE DEF Q
  <2> QED BY <1>1, <1>2, ChosenInduction
<1> QED BY <1>3

(* ... and may as well begin with any other element.                       *)
LEMMA SumTakes ==
    ASSUME NEW f, NEW S, IsFiniteSet(S), \A x \in S : f[x] \in Int
    PROVE  \A x \in S : Sum(f, S) = f[x] + Sum(f, S \ {x})
<1> DEFINE Q == {T \in SUBSET S : \A x \in T : Sum(f, T) = f[x] + Sum(f, T \ {x})}
<1>1. ASSUME NEW T \in SUBSET S, \A U \in SUBSET T : U # T => U \in Q
      PROVE  T \in Q
  <2> SUFFICES ASSUME NEW x \in T PROVE Sum(f, T) = f[x] + Sum(f, T \ {x})
    OBVIOUS
  <2>1. \A U \in SUBSET T : IsFiniteSet(U) /\ Sum(f, U) \in Int
    BY FS_Subset, SumInt
  <2>2. PICK c \in T : c = Chosen(T) /\ Sum(f, T) = f[c] + Sum(f, T \ {c})
    <3>1. T \in SUBSET T
      OBVIOUS
    <3> QED BY <2>1, <3>1, SumOpens
  <2>3. CASE x = c
    BY <2>2, <2>3
  <2>4. CASE x # c
    <3>1. PICK U \in SUBSET T, V \in SUBSET T : U = T \ {c} /\ V = T \ {x}
      OBVIOUS
    <3>2. PICK W \in SUBSET T : W = U \ {x} /\ W = V \ {c}
      BY <3>1
    <3>3. x \in U /\ U # T /\ c \in V /\ V # T
      BY <2>4, <3>1
    <3>4. Sum(f, U) = f[x] + Sum(f, W) /\ Sum(f, V) = f[c] + Sum(f, W)
      BY <1>1, <3>2, <3>3
    <3>5. f[x] \in Int /\ f[c] \in Int /\ Sum(f, W) \in Int
      BY <2>1
    <3>6. Sum(f, T) = f[c] + Sum(f, U)
      BY <2>2, <3>1
    <3>7. Sum(f, T) = f[x] + Sum(f, V)
      BY <3>4, <3>5, <3>6
    <3> QED BY <3>1, <3>7
  <2> QED BY <2>3, <2>4
<1>2. SUBSET S \subseteq Q
  <2> HIDE DEF Q
  <2> QED BY <1>1, SetInduction
<1> QED BY <1>2

(* A sum over one element more.                                            *)
LEMMA SumGrows ==
    ASSUME NEW f, NEW g, NEW S, NEW x, IsFiniteSet(S), x \notin S,
           f[x] \in Int, \A y \in S : f[y] \in Int /\ f[y] = g[y]
    PROVE  Sum(f, S \union {x}) = f[x] + Sum(g, S)
<1>1. PICK T : T = S \union {x}
  OBVIOUS
<1>2. IsFiniteSet(T) /\ x \in T /\ S = T \ {x} /\ \A y \in T : f[y] \in Int
  BY <1>1, FS_AddElement
<1>3. Sum(f, T) = f[x] + Sum(f, T \ {x})
  BY <1>2, SumTakes
<1>4. Sum(f, S) = Sum(g, S)
  BY SumSame
<1> QED BY <1>1, <1>2, <1>3, <1>4

LEMMA SumAdds ==
    ASSUME NEW f, NEW S, NEW x, IsFiniteSet(S), x \notin S,
           \A y \in S \union {x} : f[y] \in Int
    PROVE  Sum(f, S \union {x}) = f[x] + Sum(f, S)
<1>1. f[x] \in Int /\ \A y \in S : f[y] \in Int /\ f[y] = f[y]
  OBVIOUS
<1> QED BY <1>1, SumGrows

LEMMA SumPlus ==
    ASSUME NEW f, NEW g, NEW h, NEW S, IsFiniteSet(S),
           \A x \in S : f[x] \in Int /\ g[x] \in Int /\ h[x] = f[x] + g[x]
    PROVE  Sum(h, S) = Sum(f, S) + Sum(g, S)
<1> DEFINE Q == {T \in SUBSET S : Sum(h, T) = Sum(f, T) + Sum(g, T)}
<1>1. {} \in Q
  <2>1. Sum(h, {}) = 0 /\ Sum(f, {}) = 0 /\ Sum(g, {}) = 0
    BY SumOpens
  <2> QED BY <2>1
<1>2. ASSUME NEW T \in SUBSET S, T # {}, T \ {Chosen(T)} \in Q
      PROVE  T \in Q
  <2>1. IsFiniteSet(T)
    BY FS_Subset
  <2>2. PICK c, U : c = Chosen(T) /\ U = T \ {Chosen(T)}
    OBVIOUS
  <2>3. c \in S /\ U \in SUBSET S /\ IsFiniteSet(U)
    BY <1>2, <2>2, ChosenIn, FS_Subset
  <2>4. Sum(h, T) = h[c] + Sum(h, U) /\ Sum(f, T) = f[c] + Sum(f, U) /\ Sum(g, T) = g[c] + Sum(g, U)
    BY <1>2, <2>1, <2>2, SumOpens
  <2>5. Sum(f, U) \in Int /\ Sum(g, U) \in Int
    BY <2>3, SumInt
  <2>6. Sum(h, U) = Sum(f, U) + Sum(g, U)
    BY <1>2, <2>2
  <2>7. f[c] \in Int /\ g[c] \in Int /\ h[c] = f[c] + g[c]
    BY <2>3
  <2>8. Sum(h, T) = Sum(f, T) + Sum(g, T)
    BY <2>4, <2>5, <2>6, <2>7
  <2> QED BY <2>8
<1>3. SUBSET S \subseteq Q
  <2> HIDE DEF Q
  <2> QED BY <1>1, <1>2, ChosenInduction
<1> QED BY <1>3

LEMMA SumTimes ==
    ASSUME NEW f, NEW g, NEW S, IsFiniteSet(S), NEW a \in Int, NEW b \in Int,
           \A x \in S : f[x] \in Int /\ g[x] \in Int /\ b * g[x] = a * f[x]
    PROVE  b * Sum(g, S) = a * Sum(f, S)
<1> DEFINE Q == {T \in SUBSET S : b * Sum(g, T) = a * Sum(f, T)}
<1>1. {} \in Q
  <2>1. Sum(f, {}) = 0 /\ Sum(g, {}) = 0
    BY SumOpens
  <2> QED BY <2>1
<1>2. ASSUME NEW T \in SUBSET S, T # {}, T \ {Chosen(T)} \in Q
      PROVE  T \in Q
  <2>1. IsFiniteSet(T)
    BY FS_Subset
  <2>2. PICK c, U : c = Chosen(T) /\ U = T \ {Chosen(T)}
    OBVIOUS
  <2>3. c \in S /\ U \in SUBSET S /\ IsFiniteSet(U)
    BY <1>2, <2>2, ChosenIn, FS_Subset
  <2>4. Sum(f, T) = f[c] + Sum(f, U) /\ Sum(g, T) = g[c] + Sum(g, U)
    BY <1>2, <2>1, <2>2, SumOpens
  <2>5. PICK F \in Int, G \in Int : F = Sum(f, U) /\ G = Sum(g, U)
    BY <2>3, SumInt
  <2>6. b * G = a * F
    BY <1>2, <2>2, <2>5
  <2>7. PICK x \in Int, y \in Int : x = f[c] /\ y = g[c] /\ b * y = a * x
    BY <2>3
  <2>8. b * (y + G) = a * (x + F)
    <3>1. b * (y + G) = b * y + b * G /\ a * (x + F) = a * x + a * F
      OBVIOUS
    <3> QED BY <2>6, <2>7, <3>1
  <2> QED BY <2>4, <2>5, <2>7, <2>8
<1>3. SUBSET S \subseteq Q
  <2> HIDE DEF Q
  <2> QED BY <1>1, <1>2, ChosenInduction
<1> QED BY <1>3

LEMMA SumConstant ==
    ASSUME NEW f, NEW S, IsFiniteSet(S), NEW c \in Int, \A x \in S : f[x] = c
    PROVE  Sum(f, S) = Cardinality(S) * c
<1> DEFINE Q == {T \in SUBSET S : Sum(f, T) = Cardinality(T) * c}
<1>1. {} \in Q
  <2>1. Sum(f, {}) = 0
    BY SumOpens
  <2>2. Cardinality({}) = 0
    BY FS_EmptySet
  <2>3. 0 * c = 0
    OBVIOUS
  <2> QED BY <2>1, <2>2, <2>3
<1>2. ASSUME NEW T \in SUBSET S, T # {}, T \ {Chosen(T)} \in Q
      PROVE  T \in Q
  <2>1. IsFiniteSet(T)
    BY FS_Subset
  <2>2. PICK x, U : x = Chosen(T) /\ U = T \ {Chosen(T)}
    OBVIOUS
  <2>3. x \in T /\ U = T \ {x} /\ Cardinality(T) \in Nat
    BY <1>2, <2>1, <2>2, ChosenIn, FS_CardinalityType
  <2>4. PICK n \in Int : n = Cardinality(U) /\ Cardinality(T) = n + 1
    <3>1. Cardinality(T \ {x}) = Cardinality(T) - 1
      BY <2>1, <2>3, FS_RemoveElement
    <3> QED BY <2>3, <3>1
  <2>5. Sum(f, T) = f[x] + Sum(f, U)
    BY <1>2, <2>1, <2>2, SumOpens
  <2>6. Sum(f, U) = n * c
    BY <1>2, <2>2, <2>4
  <2>7. f[x] = c
    BY <2>3
  <2>8. c + n * c = (n + 1) * c
    OBVIOUS
  <2> QED BY <2>4, <2>5, <2>6, <2>7, <2>8
<1>3. SUBSET S \subseteq Q
  <2> HIDE DEF Q
  <2> QED BY <1>1, <1>2, ChosenInduction
<1> QED BY <1>3

(* What is not in a part of the set adds nothing.                          *)
LEMMA SumOfPart ==
    ASSUME NEW f, NEW g, NEW S, IsFiniteSet(S), NEW P,
           \A x \in S : g[x] \in Int /\ f[x] = IF x \in P THEN g[x] ELSE 0
    PROVE  Sum(f, S) = Sum(g, S \intersect P)
<1> DEFINE Q == {T \in SUBSET S : Sum(f, T) = Sum(g, T \intersect P)}
<1>1. {} \in Q
  <2>1. Sum(f, {}) = 0 /\ Sum(g, {}) = 0 /\ {} \intersect P = {}
    BY SumOpens
  <2> QED BY <2>1
<1>2. ASSUME NEW T \in SUBSET S, T # {}, T \ {Chosen(T)} \in Q
      PROVE  T \in Q
  <2>1. IsFiniteSet(T)
    BY FS_Subset
  <2>2. PICK c, U : c = Chosen(T) /\ U = T \ {Chosen(T)}
    OBVIOUS
  <2>3. c \in T /\ c \in S /\ U = T \ {c}
    BY <1>2, <2>2, ChosenIn
  <2>4. Sum(f, T) = f[c] + Sum(f, U)
    BY <1>2, <2>1, <2>2, SumOpens
  <2>5. Sum(f, U) = Sum(g, U \intersect P)
    BY <1>2, <2>2
  <2>6. PICK V, W : V = T \intersect P /\ W = U \intersect P
    OBVIOUS
  <2>7. IsFiniteSet(V) /\ IsFiniteSet(W) /\ \A x \in V : g[x] \in Int
    <3>1. V \in SUBSET S /\ W \in SUBSET S
      BY <2>2, <2>6
    <3> QED BY <3>1, FS_Subset
  <2>8. Sum(g, W) \in Int
    <3>1. \A x \in W : g[x] \in Int
      BY <2>2, <2>6
    <3> QED BY <2>7, <3>1, SumInt
  <2>9. CASE c \in P
    <3>1. c \in V /\ V \ {c} = W
      BY <2>3, <2>6, <2>9
    <3>2. Sum(g, V) = g[c] + Sum(g, V \ {c})
      BY <2>7, <3>1, SumTakes
    <3> QED BY <2>3, <2>4, <2>5, <2>6, <2>9, <3>1, <3>2
  <2>10. CASE c \notin P
    <3>1. V = W
      BY <2>3, <2>6, <2>10
    <3>2. f[c] = 0
      BY <2>3, <2>10
    <3>3. Sum(f, T) = Sum(g, W)
      BY <2>4, <2>5, <2>6, <2>8, <3>2
    <3> QED BY <2>6, <3>1, <3>3
  <2> QED BY <2>9, <2>10
<1>3. SUBSET S \subseteq Q
  <2> HIDE DEF Q
  <2> QED BY <1>1, <1>2, ChosenInduction
<1> QED BY <1>3

(* A sum of sums can be formed in either order.                            *)
Column(g, A, y) == [x \in A |-> g[x][y]]
Rows(g, A, B) == [x \in A |-> Sum(g[x], B)]

LEMMA SumExchange ==
    ASSUME NEW A, IsFiniteSet(A), NEW B, IsFiniteSet(B), NEW g \in [A -> [B -> Int]],
           NEW columns, \A y \in B : columns[y] = Sum(Column(g, A, y), A)
    PROVE  Sum(columns, B) = Sum(Rows(g, A, B), A)
<1> USE DEF Column
<1>9. PICK rows : rows = Rows(g, A, B)
  OBVIOUS
<1>10. rows = [x \in A |-> Sum(g[x], B)]
  BY <1>9 DEF Rows
<1> DEFINE Columns(U) == [y \in B |-> Sum([x \in A |-> g[x][y]], U)]
           Q == {U \in SUBSET A : Sum(Columns(U), B) = Sum(rows, U)}
<1>0. \A U \in SUBSET A : IsFiniteSet(U) /\ \A y \in B : Columns(U)[y] \in Int
  <2> SUFFICES ASSUME NEW U \in SUBSET A, NEW y \in B
               PROVE  IsFiniteSet(U) /\ Columns(U)[y] \in Int
    BY FS_Subset
  <2>1. PICK f : f = [x \in A |-> g[x][y]]
    OBVIOUS
  <2>2. IsFiniteSet(U) /\ \A x \in U : f[x] \in Int
    BY <2>1, FS_Subset
  <2> QED BY <2>1, <2>2, SumInt
<1>1. {} \in Q
  <2>1. \A y \in B : Columns({})[y] = 0
    <3> SUFFICES ASSUME NEW y \in B PROVE Columns({})[y] = 0
      OBVIOUS
    <3>1. PICK f : f = [x \in A |-> g[x][y]]
      OBVIOUS
    <3>2. Sum(f, {}) = 0
      BY SumOpens
    <3> QED BY <3>1, <3>2
  <2>2. PICK h : h = Columns({})
    OBVIOUS
  <2>3. Sum(h, B) = Cardinality(B) * 0
    <3> HIDE DEF Columns
    <3> QED BY <2>1, <2>2, SumConstant
  <2>4. Cardinality(B) * 0 = 0
    BY FS_CardinalityType
  <2>5. Sum(rows, {}) = 0
    BY SumOpens
  <2> QED BY <2>2, <2>3, <2>4, <2>5
<1>2. ASSUME NEW U \in SUBSET A, U # {}, U \ {Chosen(U)} \in Q
      PROVE  U \in Q
  <2>1. PICK c, V : c = Chosen(U) /\ V = U \ {Chosen(U)}
    OBVIOUS
  <2>2. c \in U /\ c \in A /\ V \in SUBSET A /\ IsFiniteSet(U)
    BY <1>0, <1>2, <2>1, ChosenIn
  <2>3. PICK h, k : h = Columns(U) /\ k = Columns(V)
    OBVIOUS
  <2>4. ASSUME NEW y \in B PROVE g[c][y] \in Int /\ k[y] \in Int /\ h[y] = g[c][y] + k[y]
    <3>1. PICK f : f = [x \in A |-> g[x][y]]
      OBVIOUS
    <3>2. Sum(f, U) = f[c] + Sum(f, V)
      BY <1>2, <2>1, <2>2, SumOpens
    <3>3. h[y] = Sum(f, U) /\ k[y] = Sum(f, V) /\ f[c] = g[c][y]
      BY <2>2, <2>3, <3>1
    <3>4. k[y] \in Int
      BY <1>0, <2>2, <2>3
    <3> QED BY <2>2, <3>2, <3>3, <3>4
  <2>5. PICK gc : gc = g[c]
    OBVIOUS
  <2>6. Sum(h, B) = Sum(gc, B) + Sum(k, B)
    <3>1. \A y \in B : gc[y] \in Int /\ k[y] \in Int /\ h[y] = gc[y] + k[y]
      BY <2>4, <2>5
    <3> QED BY <3>1, SumPlus
  <2>7. Sum(rows, U) = rows[c] + Sum(rows, V)
    BY <1>2, <2>1, <2>2, SumOpens
  <2>8. rows[c] = Sum(gc, B)
    BY <1>10, <2>2, <2>5
  <2>9. Sum(k, B) = Sum(rows, V)
    BY <1>2, <2>1, <2>3
  <2> QED BY <2>3, <2>6, <2>7, <2>8, <2>9
<1>3. SUBSET A \subseteq Q
  <2> HIDE DEF Q
  <2> QED BY <1>1, <1>2, ChosenInduction
<1>4. PICK h : h = Columns(A)
  OBVIOUS
<1>5. Sum(h, B) = Sum(rows, A)
  BY <1>3, <1>4
<1>6. Sum(columns, B) = Sum(h, B)
  <2>1. \A y \in B : columns[y] = h[y]
    BY <1>4
  <2> QED BY <2>1, SumSame
<1> QED BY <1>5, <1>6, <1>9
-----------------------------------------------------------------------------
(* Arithmetic of scores.                                                   *)
LEMMA DivInt ==
    ASSUME NEW x \in Int, NEW d \in Nat \ {0}
    PROVE  x \div d \in Int
OBVIOUS

LEMMA Exactly ==
    ASSUME NEW x \in Int, NEW d \in Nat \ {0}, Divides(d, x)
    PROVE  d * (x \div d) = x
<1>1. x % d = 0
  BY DEF Divides
<1>2. x = d * (x \div d) + (x % d)
  OBVIOUS
<1>3. d * (x \div d) \in Int
  OBVIOUS
<1> QED BY <1>1, <1>2, <1>3

LEMMA DampedInt ==
    ASSUME NEW x \in Int
    PROVE  /\ Damped(x) \in Int
           /\ Divides(DampingDen, x * DampingNum) => DampingDen * Damped(x) = x * DampingNum
<1>1. x * DampingNum \in Int /\ DampingDen \in Nat \ {0}
  BY RankAssumption
<1> QED BY <1>1, DivInt, Exactly DEF Damped

LEMMA Cancel ==
    ASSUME NEW d \in Nat \ {0}, NEW x \in Int, NEW y \in Int, d * x = d * y
    PROVE  x = y
OBVIOUS

LEMMA AbsInt == ASSUME NEW x \in Int PROVE Abs(x) \in Int /\ Abs(-x) = Abs(x)
BY DEF Abs
-----------------------------------------------------------------------------
(* The inductive invariant.  A computation that is past a label has added  *)
(* its part to an accumulator, and no other has.                           *)
Labels == {"todo", "loadSAD", "swapSAD", "value", "loadResidual", "swapResidual", "done"}

TypeOKRank ==
    /\ out \in Graphs /\ superstep \in Nat
    /\ phase \in {"pre", "running", "post", "done"}
    /\ vpc \in [Vertices -> Labels]
    /\ score \in [Vertices -> Int] /\ before \in [Vertices -> Int] /\ newScore \in [Vertices -> Int]
    /\ received \in [Vertices -> Int] /\ sent \in [Vertices -> Int] /\ oldCur \in [Vertices -> Int]
    /\ pageCount \in Nat /\ residual \in [0..1 -> Int] /\ sad \in Int
    /\ exact \in BOOLEAN

Resting == phase # "running" => \A v \in Vertices : vpc[v] = "done"

(* The vertices are counted in superstep 0.                                *)
DoneIn == {v \in Vertices : vpc[v] = "done"}
Counts ==
    /\ superstep = 0 =>
          /\ \A v \in Vertices : vpc[v] \in {"todo", "done"}
          /\ pageCount = IF phase = "pre" THEN 0 ELSE Cardinality(DoneIn)
    /\ superstep > 0 => pageCount = Cardinality(Vertices)

(* What a computation makes of its input.                                  *)
NewScore(v) ==
    IF superstep = 1 THEN Scale \div pageCount
    ELSE Base + Damped(received[v]) + Damped(residual[ResidualIn(superstep)])

Added == {v \in Vertices : vpc[v] \in {"value", "loadResidual", "swapResidual", "done"}}
Given == {v \in Vertices : vpc[v] \in {"loadResidual", "swapResidual", "done"}}
Dead == {v \in Vertices : vpc[v] = "done" /\ out[v] = {}}

(* The parts: of SAD, of what w receives, and of the residual.             *)
Change == [v \in Vertices |-> Abs(before[v] - newScore[v])]
Along(w) == [u \in Vertices |-> IF w \in out[u] THEN newScore[u] \div Cardinality(out[u]) ELSE 0]
Residue == [u \in Vertices |-> newScore[u] \div pageCount]

ScoresRight ==
    \A v \in Vertices :
        /\ vpc[v] # "todo" => newScore[v] = NewScore(v)
        /\ vpc[v] \in {"loadResidual", "swapResidual"} => out[v] = {}
        /\ score[v] = IF v \in Given THEN newScore[v] ELSE before[v]

InStep ==
    superstep > 0 /\ phase # "pre" =>
        /\ ScoresRight
        /\ sad = Sum(Change, Added)
        /\ \A w \in Vertices : sent[w] = Sum(Along(w), Given)
        /\ residual[ResidualOut(superstep)] = Sum(Residue, Dead)

BeforeStep ==
    superstep > 0 /\ phase = "pre" => \A v \in Vertices : sent[v] = 0 /\ score[v] = before[v]

(* The input of a superstep is what the one before it gave.                *)
Inputs ==
    superstep > 1 =>
        /\ \A w \in Vertices : received[w] = Sum([u \in Vertices |-> Followed(u, w)], Vertices)
        /\ residual[ResidualIn(superstep)] = Sum([u \in Vertices |-> Lost(u)], Vertices)

ExactSoFar ==
    superstep > 0 /\ exact =>
        \A v \in Vertices :
            /\ Divides(Degree(v), before[v])
            /\ Divides(pageCount, Scale) /\ Divides(pageCount, Scale - Damped(Scale))
            /\ \A x \in {Scale, received[v], residual[ResidualIn(superstep)]} :
                  Divides(DampingDen, x * DampingNum)

SumKept == superstep > 1 /\ exact /\ Vertices # {} => Sum(before, Vertices) = Scale

RankInv ==
    /\ TypeOKRank /\ Resting /\ Counts
    /\ InStep /\ BeforeStep /\ Inputs
    /\ ExactSoFar /\ SumKept
-----------------------------------------------------------------------------
LEMMA GraphIs ==
    ASSUME out \in Graphs
    PROVE  /\ IsFiniteSet(Vertices) /\ Cardinality(Vertices) \in Nat
           /\ Vertices # {} => Cardinality(Vertices) # 0
           /\ out \in [Vertices -> SUBSET Vertices]
           /\ \A v \in Vertices :
                 /\ IsFiniteSet(out[v]) /\ Cardinality(out[v]) \in Nat
                 /\ out[v] # {} => Cardinality(out[v]) # 0
<1>1. IsFiniteSet(Vertices) /\ out \in [Vertices -> SUBSET Vertices]
  BY RankAssumption DEF Vertices
<1>2. Cardinality(Vertices) \in Nat /\ (Vertices # {} => Cardinality(Vertices) # 0)
  BY <1>1, FS_EmptySet, FS_CardinalityType
<1>3. ASSUME NEW v \in Vertices
      PROVE  /\ IsFiniteSet(out[v]) /\ Cardinality(out[v]) \in Nat
             /\ out[v] # {} => Cardinality(out[v]) # 0
  <2>1. out[v] \in SUBSET Vertices
    BY <1>1
  <2>2. IsFiniteSet(out[v])
    BY <1>1, <2>1, FS_Subset
  <2> QED BY <2>2, FS_EmptySet, FS_CardinalityType
<1> QED BY <1>1, <1>2, <1>3

(* Parity keeps the two residuals apart.                                   *)
LEMMA Residuals ==
    ASSUME NEW s \in Nat
    PROVE  /\ ResidualOut(s) \in 0..1 /\ ResidualIn(s) \in 0..1
           /\ ResidualOut(s) # ResidualIn(s) /\ ResidualIn(s + 1) = ResidualOut(s)
BY DEF ResidualOut, ResidualIn

LEMMA RankInit == Init => RankInv
<1> SUFFICES ASSUME Init PROVE RankInv
  OBVIOUS
<1>1. \A v \in Vertices : Zero[v] = 0
  BY DEF Zero
<1>2. TypeOKRank
  BY DEF Init, TypeOKRank, Labels, Zero
<1> QED BY <1>2 DEF Init, RankInv, Resting, Counts, InStep, BeforeStep, Inputs, ExactSoFar, SumKept

(* The input stays as it is while computations run.                        *)
SameInput ==
    /\ UNCHANGED <<out, superstep, received, pageCount, before, exact>>
    /\ residual'[ResidualIn(superstep)] = residual[ResidualIn(superstep)]

LEMMA InputStays ==
    ASSUME RankInv, SameInput
    PROVE  Inputs' /\ ExactSoFar' /\ SumKept' /\ Vertices' = Vertices /\ \A v \in Vertices : NewScore(v)' = NewScore(v)
<1>1. Vertices' = Vertices
  BY DEF SameInput, Vertices
<1>2. \A v \in Vertices : NewScore(v)' = NewScore(v)
  BY DEF SameInput, NewScore, ResidualIn, Base
<1>3. Inputs'
  BY <1>1 DEF RankInv, SameInput, Inputs, Followed, Lost, ResidualIn
<1>4. ExactSoFar'
  BY <1>1 DEF RankInv, SameInput, ExactSoFar, Degree, ResidualIn
<1>5. SumKept'
  BY <1>1 DEF RankInv, SameInput, SumKept
<1> QED BY <1>1, <1>2, <1>3, <1>4, <1>5

(* What is added up are integers.                                          *)
LEMMA PartsInt ==
    ASSUME RankInv, superstep > 0, NEW u \in Vertices
    PROVE  /\ pageCount \in Nat \ {0}
           /\ NewScore(u) \in Int
           /\ Change[u] = Abs(before[u] - newScore[u]) /\ Change[u] \in Int
           /\ Residue[u] = newScore[u] \div pageCount /\ Residue[u] \in Int
           /\ \A w \in Vertices :
                 /\ Along(w)[u] = IF w \in out[u] THEN newScore[u] \div Cardinality(out[u]) ELSE 0
                 /\ Along(w)[u] \in Int
<1>1. TypeOKRank /\ out \in Graphs
  BY DEF RankInv, TypeOKRank
<1>2. pageCount \in Nat \ {0}
  BY <1>1, GraphIs DEF RankInv, Counts
<1>3. /\ score[u] \in Int /\ before[u] \in Int /\ newScore[u] \in Int /\ received[u] \in Int
      /\ residual[ResidualIn(superstep)] \in Int /\ Scale \in Int /\ superstep \in Nat
  BY <1>1, Residuals, RankAssumption DEF TypeOKRank
<1>4. NewScore(u) \in Int
  <2>1. Damped(Scale) \in Int /\ Damped(received[u]) \in Int /\ Damped(residual[ResidualIn(superstep)]) \in Int
    BY <1>3, DampedInt
  <2>2. Base \in Int /\ Scale \div pageCount \in Int
    <3>1. Scale - Damped(Scale) \in Int
      BY <1>3, <2>1
    <3> QED BY <1>2, <1>3, <3>1, DivInt DEF Base
  <2> QED BY <2>1, <2>2 DEF NewScore
<1>5. Change[u] = Abs(before[u] - newScore[u]) /\ Change[u] \in Int
  <2>1. before[u] - newScore[u] \in Int
    BY <1>3
  <2> QED BY <2>1, AbsInt DEF Change
<1>6. Residue[u] = newScore[u] \div pageCount /\ Residue[u] \in Int
  BY <1>2, <1>3, DivInt DEF Residue
<1>7. ASSUME NEW w \in Vertices
      PROVE  /\ Along(w)[u] = IF w \in out[u] THEN newScore[u] \div Cardinality(out[u]) ELSE 0
             /\ Along(w)[u] \in Int
  <2>1. Along(w)[u] = IF w \in out[u] THEN newScore[u] \div Cardinality(out[u]) ELSE 0
    BY DEF Along
  <2>2. CASE w \in out[u]
    <3>1. Cardinality(out[u]) \in Nat \ {0}
      BY <1>1, <2>2, GraphIs
    <3>2. newScore[u] \div Cardinality(out[u]) \in Int
      BY <1>3, <3>1, DivInt
    <3> QED BY <2>1, <2>2, <3>2
  <2>3. CASE w \notin out[u]
    BY <2>1, <2>3
  <2> QED BY <2>1, <2>2, <2>3
<1> QED BY <1>2, <1>4, <1>5, <1>6, <1>7

(* The sums over computations whose scores stay as they are.               *)
LEMMA SumsStay ==
    ASSUME RankInv, superstep > 0, SameInput, NEW S \in SUBSET Vertices,
           \A u \in S : newScore'[u] = newScore[u]
    PROVE  /\ \A u \in S : Change'[u] = Change[u] /\ Residue'[u] = Residue[u]
           /\ \A u \in S : \A w \in Vertices : Along(w)'[u] = Along(w)[u]
           /\ Sum(Change', S) = Sum(Change, S) /\ Sum(Residue', S) = Sum(Residue, S)
           /\ \A w \in Vertices : Sum(Along(w)', S) = Sum(Along(w), S)
<1>1. Vertices' = Vertices
  BY DEF SameInput, Vertices
<1>2. IsFiniteSet(S)
  BY GraphIs, FS_Subset DEF RankInv, TypeOKRank
<1>3. \A u \in S : Change'[u] = Change[u] /\ Residue'[u] = Residue[u]
  BY <1>1 DEF Change, Residue, SameInput
<1>4. ASSUME NEW w \in Vertices PROVE \A u \in S : Along(w)'[u] = Along(w)[u]
  BY <1>1 DEF Along, SameInput
<1>5. PICK c, d, r, q : c = Change /\ d = Change' /\ r = Residue /\ q = Residue'
  OBVIOUS
<1>6. Sum(d, S) = Sum(c, S) /\ Sum(q, S) = Sum(r, S)
  BY <1>2, <1>3, <1>5, SumSame
<1>7. ASSUME NEW w \in Vertices PROVE Sum(Along(w)', S) = Sum(Along(w), S)
  <2>1. PICK a, b : a = Along(w) /\ b = Along(w)'
    OBVIOUS
  <2>2. Sum(b, S) = Sum(a, S)
    BY <1>2, <1>4, <2>1, SumSame
  <2> QED BY <2>1, <2>2
<1> QED BY <1>3, <1>4, <1>5, <1>6, <1>7

LEMMA AtWork ==
    ASSUME RankInv, NEW v \in Vertices, vpc[v] # "done"
    PROVE  /\ phase = "running"
           /\ vpc[v] # "todo" => superstep > 0
           /\ superstep > 0 => InStep /\ ScoresRight
<1>1. phase = "running"
  BY DEF RankInv, Resting
<1>2. vpc[v] # "todo" => superstep > 0
  BY DEF RankInv, Counts, TypeOKRank
<1>3. superstep > 0 => InStep /\ ScoresRight
  BY <1>1 DEF RankInv, InStep
<1> QED BY <1>1, <1>2, <1>3

LEMMA PreStepInv == ASSUME RankInv, PreStep PROVE RankInv'
<1>1. SameInput /\ Vertices' = Vertices
  BY Residuals DEF PreStep, SameInput, RankInv, TypeOKRank, Vertices
<1>2. TypeOKRank'
  <2>1. residual' \in [0..1 -> Int]
    <3>1. residual \in [0..1 -> Int]
      BY DEF RankInv, TypeOKRank
    <3>2. residual' = [residual EXCEPT ![ResidualOut(superstep)] = 0]
      BY DEF PreStep
    <3>3. ResidualOut(superstep) \in 0..1
      BY Residuals DEF RankInv, TypeOKRank
    <3>4. PICK b : b = ResidualOut(superstep)
      OBVIOUS
    <3> QED BY <3>1, <3>2, <3>3, <3>4
  <2>2. vpc' \in [Vertices -> Labels]
    BY DEF PreStep, Labels
  <2> QED BY <1>1, <2>1, <2>2 DEF PreStep, RankInv, TypeOKRank, Vertices
<1>3. Resting'
  BY DEF PreStep, Resting
<1>4. \A v \in Vertices : vpc'[v] = "todo"
  BY DEF PreStep
<1>5. DoneIn' = {} /\ Added' = {} /\ Given' = {} /\ Dead' = {}
  BY <1>1, <1>4 DEF DoneIn, Added, Given, Dead
<1>6. Counts'
  BY <1>1, <1>4, <1>5, FS_EmptySet DEF PreStep, RankInv, Counts
<1>7. ASSUME superstep > 0
      PROVE  InStep'
  <2>1. ScoresRight'
    BY <1>1, <1>4, <1>5, <1>7 DEF PreStep, RankInv, BeforeStep, ScoresRight
  <2>2. Sum(Change', {}) = 0 /\ Sum(Residue', {}) = 0 /\ \A w \in Vertices : Sum(Along(w)', {}) = 0
    BY SumOpens, FS_EmptySet
  <2>3. sad' = 0 /\ (\A w \in Vertices : sent'[w] = 0)
    BY <1>7 DEF PreStep, RankInv, BeforeStep
  <2>4. residual'[ResidualOut(superstep)'] = 0
    BY Residuals DEF PreStep, RankInv, TypeOKRank, ResidualOut
  <2> QED BY <1>1, <1>5, <2>1, <2>2, <2>3, <2>4 DEF InStep
<1>8. InStep'
  BY <1>1, <1>7 DEF InStep, SameInput
<1>9. BeforeStep'
  BY DEF PreStep, BeforeStep
<1> QED BY <1>1, <1>2, <1>3, <1>6, <1>8, <1>9, InputStays DEF RankInv

LEMMA CountInv == ASSUME RankInv, NEW v \in Vertices, Count(v) PROVE RankInv'
<1>2. superstep = 0 /\ superstep' = 0 /\ Vertices' = Vertices /\ phase = "running" /\ phase' = "running"
  BY DEF Count, Start, Vertices
<1>3. TypeOKRank'
  BY <1>2 DEF Count, RankInv, TypeOKRank, Labels, Vertices
<1>4. DoneIn' = DoneIn \union {v} /\ v \notin DoneIn
  BY <1>2 DEF Count, Start, DoneIn, RankInv, TypeOKRank
<1>5. pageCount' = Cardinality(DoneIn')
  <2>1. IsFiniteSet(DoneIn)
    BY GraphIs, FS_Subset DEF RankInv, TypeOKRank, DoneIn
  <2>2. Cardinality(DoneIn \union {v}) = Cardinality(DoneIn) + 1
    BY <1>4, <2>1, FS_AddElement
  <2>3. pageCount' = Cardinality(DoneIn) + 1
    BY <1>2 DEF Count, RankInv, Counts
  <2> QED BY <1>4, <2>2, <2>3
<1>6. \A u \in Vertices : vpc'[u] \in {"todo", "done"}
  BY <1>2 DEF Count, RankInv, Counts, TypeOKRank
<1> QED BY <1>2, <1>3, <1>5, <1>6 DEF RankInv, Resting, Counts, InStep, BeforeStep, Inputs, ExactSoFar, SumKept

(* The invariant after a step of a computation.                            *)
LEMMA StepKeeps ==
    ASSUME RankInv, SameInput, superstep > 0, phase = "running", phase' = "running",
           TypeOKRank', InStep'
    PROVE  RankInv'
<1>1. superstep' > 0 /\ pageCount' = pageCount /\ Vertices' = Vertices
  BY DEF SameInput, Vertices
<1>2. Counts' /\ Resting' /\ BeforeStep'
  BY <1>1 DEF Counts, Resting, BeforeStep, RankInv, TypeOKRank
<1> QED BY <1>2, InputStays DEF RankInv

LEMMA ScoreInv == ASSUME RankInv, NEW v \in Vertices, Score(v) PROVE RankInv'
<1>1. superstep > 0 /\ vpc[v] = "todo" /\ phase = "running" /\ phase' = "running" /\ InStep /\ ScoresRight
  BY AtWork DEF Score, Start
<1>2. SameInput /\ Vertices' = Vertices
  BY DEF Score, SameInput, Vertices
<1>3. newScore'[v] = NewScore(v) /\ NewScore(v) \in Int /\ \A u \in Vertices \ {v} : newScore'[u] = newScore[u]
  BY <1>1, PartsInt DEF Score, NewScore, RankInv, TypeOKRank
<1>4. vpc' = [vpc EXCEPT ![v] = "loadSAD"]
  BY DEF Score
<1>5. TypeOKRank'
  BY <1>2, <1>3, <1>4 DEF Score, NewScore, RankInv, TypeOKRank, Labels, Vertices
<1>6. Added' = Added /\ Given' = Given /\ Dead' = Dead
  BY <1>1, <1>2, <1>4 DEF Added, Given, Dead, RankInv, TypeOKRank, SameInput
<1>7. PICK A, G, D : A = Added /\ G = Given /\ D = Dead
  OBVIOUS
<1>12. /\ A \in SUBSET Vertices /\ G \in SUBSET Vertices /\ D \in SUBSET Vertices
       /\ v \notin A /\ v \notin G /\ v \notin D
  BY <1>1, <1>7 DEF Added, Given, Dead
<1>8. ScoresRight'
  <2>1. \A u \in Vertices : NewScore(u)' = NewScore(u)
    BY <1>2, InputStays
  <2>2. score' = score /\ before' = before /\ out' = out
    BY DEF Score
  <2>3. ASSUME NEW u \in Vertices
        PROVE  /\ vpc'[u] # "todo" => newScore'[u] = NewScore(u)'
               /\ vpc'[u] \in {"loadResidual", "swapResidual"} => out'[u] = {}
               /\ score'[u] = IF u \in Given' THEN newScore'[u] ELSE before'[u]
    BY <1>1, <1>3, <1>4, <1>6, <1>7, <1>12, <2>1, <2>2 DEF ScoresRight, RankInv, TypeOKRank
  <2> QED BY <1>2, <2>3 DEF ScoresRight
<1>9. Sum(Change', A) = Sum(Change, A) /\ Sum(Residue', D) = Sum(Residue, D)
      /\ \A w \in Vertices : Sum(Along(w)', G) = Sum(Along(w), G)
  BY <1>1, <1>2, <1>3, <1>12, SumsStay
<1>10. sad' = sad /\ sent' = sent /\ residual' = residual /\ superstep' = superstep
  BY DEF Score
<1>11. InStep'
  BY <1>1, <1>2, <1>6, <1>7, <1>8, <1>9, <1>10 DEF InStep, ResidualOut
<1> QED BY <1>1, <1>2, <1>5, <1>11, StepKeeps

(* A step that moves v on from one label to another, and adds nothing.     *)
LEMMA MoveInv ==
    ASSUME RankInv, NEW v \in Vertices,
           NEW l \in Labels, vpc' = [vpc EXCEPT ![v] = l],
           \/ vpc[v] = "loadSAD" /\ l = "swapSAD"
           \/ vpc[v] = "swapSAD" /\ l = "loadSAD"
           \/ vpc[v] = "loadResidual" /\ l = "swapResidual"
           \/ vpc[v] = "swapResidual" /\ l = "loadResidual",
           UNCHANGED <<out, superstep, phase, score, received, sent, pageCount, residual, sad,
                       newScore, before, exact>>,
           oldCur' \in [Vertices -> Int]
    PROVE  RankInv'
<1>1. superstep > 0 /\ phase = "running" /\ phase' = "running" /\ InStep /\ ScoresRight
  BY AtWork
<1>2. SameInput /\ Vertices' = Vertices
  BY DEF SameInput, Vertices
<1>3. TypeOKRank'
  BY <1>2 DEF RankInv, TypeOKRank, Vertices
<1>4. Added' = Added /\ Given' = Given /\ Dead' = Dead
  BY <1>2 DEF Added, Given, Dead, RankInv, TypeOKRank
<1>5. ScoresRight'
  <2>1. \A u \in Vertices : NewScore(u)' = NewScore(u)
    BY <1>2, InputStays
  <2> QED BY <1>1, <1>2, <1>4, <2>1 DEF ScoresRight, RankInv, TypeOKRank
<1>6. PICK A, G, D : A = Added /\ G = Given /\ D = Dead
  OBVIOUS
<1>7. A \in SUBSET Vertices /\ G \in SUBSET Vertices /\ D \in SUBSET Vertices
  BY <1>6 DEF Added, Given, Dead
<1>8. Sum(Change', A) = Sum(Change, A) /\ Sum(Residue', D) = Sum(Residue, D)
      /\ \A w \in Vertices : Sum(Along(w)', G) = Sum(Along(w), G)
  BY <1>1, <1>2, <1>7, SumsStay
<1>9. InStep'
  BY <1>1, <1>2, <1>4, <1>5, <1>6, <1>8 DEF InStep, ResidualOut
<1> QED BY <1>1, <1>2, <1>3, <1>9, StepKeeps

LEMMA LoadSADInv == ASSUME RankInv, NEW v \in Vertices, LoadSAD(v) PROVE RankInv'
<1>1. oldCur' \in [Vertices -> Int]
  BY DEF LoadSAD, RankInv, TypeOKRank
<1>2. "swapSAD" \in Labels
  BY DEF Labels
<1> QED BY <1>1, <1>2, MoveInv DEF LoadSAD

LEMMA LoadResidualInv == ASSUME RankInv, NEW v \in Vertices, LoadResidual(v) PROVE RankInv'
<1>1. oldCur' \in [Vertices -> Int]
  <2>1. residual[ResidualOut(superstep)] \in Int
    BY Residuals DEF RankInv, TypeOKRank
  <2>2. oldCur' = [oldCur EXCEPT ![v] = residual[ResidualOut(superstep)]] /\ oldCur \in [Vertices -> Int]
    BY DEF LoadResidual, RankInv, TypeOKRank
  <2> QED BY <2>1, <2>2
<1>2. "swapResidual" \in Labels
  BY DEF Labels
<1> QED BY <1>1, <1>2, MoveInv DEF LoadResidual

LEMMA SwapSADInv == ASSUME RankInv, NEW v \in Vertices, SwapSAD(v) PROVE RankInv'
<1>1. superstep > 0 /\ vpc[v] = "swapSAD" /\ phase = "running" /\ InStep /\ ScoresRight
  BY AtWork DEF SwapSAD
<1>2. CASE ~Swaps(v, sad)
  <2>1. "loadSAD" \in Labels /\ oldCur' \in [Vertices -> Int]
    BY DEF SwapSAD, Labels, RankInv, TypeOKRank
  <2> QED BY <1>1, <1>2, <2>1, MoveInv DEF SwapSAD
<1>3. CASE Swaps(v, sad)
  <2>1. SameInput /\ Vertices' = Vertices /\ phase' = "running" /\ UNCHANGED <<newScore, score, sent, residual>>
    BY <1>1 DEF SwapSAD, SameInput, Vertices
  <2>2. vpc' = [vpc EXCEPT ![v] = "value"]
    BY <1>3 DEF SwapSAD
  <2>3. Added' = Added \union {v} /\ Given' = Given /\ Dead' = Dead
    BY <1>1, <2>1, <2>2 DEF Added, Given, Dead, RankInv, TypeOKRank, SameInput
  <2>4. PICK A, G, D : A = Added /\ G = Given /\ D = Dead
    OBVIOUS
  <2>5. A \in SUBSET Vertices /\ G \in SUBSET Vertices /\ D \in SUBSET Vertices /\ v \notin A /\ v \notin G
    BY <1>1, <2>4 DEF Added, Given, Dead
  <2>6. sad' = sad + Change[v] /\ Change[v] \in Int
    <3>1. sad' = oldCur[v] + Abs(score[v] - newScore[v]) /\ oldCur[v] = sad
      BY <1>3 DEF SwapSAD, Swaps
    <3>2. score[v] = before[v]
      BY <1>1, <2>4, <2>5 DEF ScoresRight
    <3> QED BY <1>1, <3>1, <3>2, PartsInt
  <2>7. sad' \in Int
    BY <2>6 DEF RankInv, TypeOKRank
  <2>8. TypeOKRank'
    BY <2>1, <2>2, <2>7 DEF SwapSAD, RankInv, TypeOKRank, Labels, Vertices
  <2>9. ScoresRight'
    <3>1. \A u \in Vertices : NewScore(u)' = NewScore(u)
      BY <2>1, InputStays
    <3> QED BY <1>1, <2>1, <2>2, <2>3, <3>1 DEF ScoresRight, RankInv, TypeOKRank, SameInput
  <2>10. Sum(Change', A \union {v}) = Sum(Change, A \union {v}) /\ Sum(Residue', D) = Sum(Residue, D)
         /\ \A w \in Vertices : Sum(Along(w)', G) = Sum(Along(w), G)
    <3>1. PICK B : B = A \union {v}
      OBVIOUS
    <3>2. B \in SUBSET Vertices
      BY <2>5, <3>1
    <3>3. Sum(Change', B) = Sum(Change, B)
      BY <1>1, <2>1, <3>2, SumsStay
    <3> QED BY <1>1, <2>1, <2>5, <3>1, <3>3, SumsStay
  <2>11. Sum(Change, A \union {v}) = Change[v] + Sum(Change, A)
    <3>1. IsFiniteSet(A)
      BY <2>5, GraphIs, FS_Subset DEF RankInv, TypeOKRank
    <3>2. \A u \in A : Change[u] \in Int
      BY <1>1, <2>5, PartsInt
    <3>3. PICK c : c = Change
      OBVIOUS
    <3>4. c[v] \in Int /\ \A u \in A : c[u] \in Int /\ c[u] = c[u]
      BY <2>6, <3>2, <3>3
    <3>5. Sum(c, A \union {v}) = c[v] + Sum(c, A)
      BY <2>5, <3>1, <3>4, SumGrows
    <3> QED BY <3>3, <3>5
  <2>12. sad' = Sum(Change, A \union {v})
    <3>1. sad = Sum(Change, A) /\ sad \in Int
      BY <1>1, <2>4 DEF InStep, RankInv, TypeOKRank
    <3> QED BY <2>6, <2>11, <3>1
  <2>13. InStep'
    BY <1>1, <2>1, <2>3, <2>4, <2>9, <2>10, <2>12 DEF InStep, ResidualOut, SameInput
  <2> QED BY <1>1, <2>1, <2>8, <2>13, StepKeeps
<1> QED BY <1>2, <1>3

LEMMA DistributeInv == ASSUME RankInv, NEW v \in Vertices, Distribute(v) PROVE RankInv'
<1>1. superstep > 0 /\ vpc[v] = "value" /\ phase = "running" /\ phase' = "running" /\ InStep /\ ScoresRight
  BY AtWork DEF Distribute
<1>2. SameInput /\ Vertices' = Vertices /\ UNCHANGED <<newScore, residual, sad>>
  BY DEF Distribute, SameInput, Vertices
<1>3. PICK l : l = IF out[v] = {} THEN "loadResidual" ELSE "done"
  OBVIOUS
<1>4. /\ l \in {"loadResidual", "done"} /\ (l = "loadResidual" <=> out[v] = {})
      /\ vpc' = [vpc EXCEPT ![v] = l]
  BY <1>3 DEF Distribute
<1>5. Added' = Added /\ Given' = Given \union {v} /\ Dead' = Dead
  BY <1>1, <1>2, <1>4 DEF Added, Given, Dead, RankInv, TypeOKRank, SameInput
<1>6. PICK A, G, D : A = Added /\ G = Given /\ D = Dead
  OBVIOUS
<1>7. A \in SUBSET Vertices /\ G \in SUBSET Vertices /\ D \in SUBSET Vertices /\ v \notin G
  BY <1>1, <1>6 DEF Added, Given, Dead
<1>8. ASSUME NEW w \in Vertices
      PROVE  sent'[w] = sent[w] + Along(w)[v] /\ sent[w] \in Int /\ Along(w)[v] \in Int
  <2>1. sent'[w] = IF w \in out[v] THEN sent[w] + newScore[v] \div Cardinality(out[v]) ELSE sent[w]
    BY DEF Distribute
  <2>2. sent[w] \in Int
    BY DEF RankInv, TypeOKRank
  <2>3. Along(w)[v] = (IF w \in out[v] THEN newScore[v] \div Cardinality(out[v]) ELSE 0) /\ Along(w)[v] \in Int
    BY <1>1, PartsInt
  <2>4. CASE w \in out[v]
    BY <2>1, <2>2, <2>3, <2>4
  <2>5. CASE w \notin out[v]
    BY <2>1, <2>2, <2>3, <2>5
  <2> QED BY <2>4, <2>5
<1>9. sent' \in [Vertices -> Int]
  <2>1. sent' = [w \in Vertices |-> sent'[w]]
    BY DEF Distribute
  <2>2. \A w \in Vertices : sent'[w] \in Int
    BY <1>8
  <2> QED BY <2>1, <2>2
<1>10. TypeOKRank'
  <2>1. score' \in [Vertices -> Int]
    BY DEF Distribute, RankInv, TypeOKRank
  <2>2. vpc' \in [Vertices -> Labels]
    BY <1>4 DEF RankInv, TypeOKRank, Labels
  <2> QED BY <1>2, <1>9, <2>1, <2>2 DEF Distribute, RankInv, TypeOKRank, Vertices
<1>11. ScoresRight'
  <2>1. \A u \in Vertices : NewScore(u)' = NewScore(u)
    BY <1>2, InputStays
  <2>2. score' = [score EXCEPT ![v] = newScore[v]]
    BY DEF Distribute
  <2>3. ASSUME NEW u \in Vertices
        PROVE  /\ vpc'[u] # "todo" => newScore'[u] = NewScore(u)'
               /\ vpc'[u] \in {"loadResidual", "swapResidual"} => out'[u] = {}
               /\ score'[u] = IF u \in Given' THEN newScore'[u] ELSE before'[u]
    <3>1. CASE u = v
      BY <1>1, <1>2, <1>4, <1>5, <2>1, <2>2, <3>1 DEF ScoresRight, RankInv, TypeOKRank, SameInput
    <3>2. CASE u # v
      BY <1>1, <1>2, <1>4, <1>5, <2>1, <2>2, <3>2 DEF ScoresRight, RankInv, TypeOKRank, SameInput
    <3> QED BY <3>1, <3>2
  <2> QED BY <1>2, <2>3 DEF ScoresRight
<1>12. ASSUME NEW w \in Vertices PROVE sent'[w] = Sum(Along(w)', Given')
  <2>1. PICK B : B = G \union {v}
    OBVIOUS
  <2>2. Sum(Along(w)', B) = Sum(Along(w), B)
    <3>1. B \in SUBSET Vertices
      BY <1>7, <2>1
    <3> QED BY <1>1, <1>2, <3>1, SumsStay
  <2>3. PICK a : a = Along(w)
    OBVIOUS
  <2>4. IsFiniteSet(G)
    BY <1>7, GraphIs, FS_Subset DEF RankInv, TypeOKRank
  <2>5. \A u \in G \union {v} : a[u] \in Int
    BY <1>1, <1>7, <2>3, PartsInt
  <2>6. Sum(a, G \union {v}) = a[v] + Sum(a, G)
    <3>1. v \notin G
      BY <1>7
    <3> QED BY ONLY <2>4, <2>5, <3>1, SumAdds
  <2>7. sent[w] = Sum(a, G)
    BY <1>1, <1>6, <2>3 DEF InStep
  <2>8. sent'[w] = Sum(a, B)
    BY <1>8, <2>1, <2>3, <2>6, <2>7
  <2> QED BY <1>5, <1>6, <2>1, <2>2, <2>3, <2>8
<1>13. Sum(Change', A) = Sum(Change, A) /\ Sum(Residue', D) = Sum(Residue, D)
  BY <1>1, <1>2, <1>7, SumsStay
<1>14. InStep'
  BY <1>1, <1>2, <1>5, <1>6, <1>11, <1>12, <1>13 DEF InStep, ResidualOut, SameInput
<1> QED BY <1>1, <1>2, <1>10, <1>14, StepKeeps

LEMMA SwapResidualInv == ASSUME RankInv, NEW v \in Vertices, SwapResidual(v) PROVE RankInv'
<1>1. superstep > 0 /\ vpc[v] = "swapResidual" /\ phase = "running" /\ InStep /\ ScoresRight
  BY AtWork DEF SwapResidual
<1>2. PICK b, x : b = ResidualOut(superstep) /\ x = newScore[v] \div pageCount
  OBVIOUS
<1>3. CASE ~Swaps(v, residual[b])
  <2>1. "loadResidual" \in Labels /\ oldCur' \in [Vertices -> Int]
    BY DEF SwapResidual, Labels, RankInv, TypeOKRank
  <2>2. vpc' = [vpc EXCEPT ![v] = "loadResidual"] /\ UNCHANGED residual
    BY <1>2, <1>3 DEF SwapResidual
  <2> QED BY <1>1, <2>1, <2>2, MoveInv DEF SwapResidual
<1>4. CASE Swaps(v, residual[b])
  <2>1. vpc' = [vpc EXCEPT ![v] = "done"] /\ residual' = [residual EXCEPT ![b] = oldCur[v] + x]
    BY <1>2, <1>4 DEF SwapResidual
  <2>2. b \in 0..1 /\ ResidualIn(superstep) \in 0..1 /\ ResidualIn(superstep) # b /\ residual \in [0..1 -> Int]
    BY <1>2, Residuals DEF RankInv, TypeOKRank
  <2>3. SameInput /\ Vertices' = Vertices /\ phase' = "running" /\ UNCHANGED <<newScore, score, sent, sad>>
    BY <1>1, <2>1, <2>2 DEF SwapResidual, SameInput, Vertices
  <2>4. out[v] = {}
    BY <1>1 DEF ScoresRight
  <2>5. Added' = Added /\ Given' = Given /\ Dead' = Dead \union {v}
    BY <1>1, <2>1, <2>3, <2>4 DEF Added, Given, Dead, RankInv, TypeOKRank, SameInput
  <2>6. PICK A, G, D : A = Added /\ G = Given /\ D = Dead
    OBVIOUS
  <2>7. A \in SUBSET Vertices /\ G \in SUBSET Vertices /\ D \in SUBSET Vertices /\ v \notin D
    BY <1>1, <2>6 DEF Added, Given, Dead
  <2>8. oldCur[v] = residual[b] /\ residual[b] \in Int /\ x = Residue[v] /\ x \in Int
    BY <1>1, <1>2, <1>4, <2>2, PartsInt DEF Swaps
  <2>9. residual' \in [0..1 -> Int] /\ residual'[b] = residual[b] + x
    <3>1. PICK y \in Int : y = residual[b] + x
      BY <2>8
    <3> QED BY <2>1, <2>2, <2>8, <3>1
  <2>10. TypeOKRank'
    BY <2>1, <2>3, <2>9 DEF SwapResidual, RankInv, TypeOKRank, Labels, Vertices
  <2>11. ScoresRight'
    <3>1. \A u \in Vertices : NewScore(u)' = NewScore(u)
      BY <2>3, InputStays
    <3> QED BY <1>1, <2>1, <2>3, <2>5, <3>1 DEF ScoresRight, RankInv, TypeOKRank, SameInput
  <2>12. Sum(Change', A) = Sum(Change, A) /\ \A w \in Vertices : Sum(Along(w)', G) = Sum(Along(w), G)
    BY <1>1, <2>3, <2>7, SumsStay
  <2>13. PICK B : B = D \union {v}
    OBVIOUS
  <2>14. Sum(Residue', B) = Sum(Residue, B)
    <3>1. B \in SUBSET Vertices
      BY <2>7, <2>13
    <3> QED BY <1>1, <2>3, <3>1, SumsStay
  <2>15. residual'[b] = Sum(Residue, B)
    <3>1. PICK r : r = Residue
      OBVIOUS
    <3>2. IsFiniteSet(D)
      BY <2>7, GraphIs, FS_Subset DEF RankInv, TypeOKRank
    <3>3. \A u \in D \union {v} : r[u] \in Int
      BY <1>1, <2>7, <3>1, PartsInt
    <3>4. Sum(r, D \union {v}) = r[v] + Sum(r, D)
      <4>1. v \notin D
        BY <2>7
      <4> QED BY ONLY <3>2, <3>3, <4>1, SumAdds
    <3>5. residual[b] = Sum(r, D)
      BY <1>1, <1>2, <2>6, <3>1 DEF InStep
    <3> QED BY <2>8, <2>9, <2>13, <3>1, <3>4, <3>5
  <2>16. superstep' = superstep /\ ResidualOut(superstep)' = b
    BY <1>2, <2>3 DEF SameInput, ResidualOut
  <2>17. InStep'
    BY <1>1, <2>3, <2>5, <2>6, <2>11, <2>12, <2>13, <2>14, <2>15, <2>16 DEF InStep
  <2> QED BY <1>1, <2>3, <2>10, <2>17, StepKeeps
<1> QED BY <1>3, <1>4

(* StepEnds, Stop, Finished and stuttering change nothing but the phase,   *)
(* which does not become "pre" again.                                      *)
LEMMA PhaseInv ==
    ASSUME RankInv, \A v \in Vertices : phase # phase' => vpc[v] = "done",
           phase' # phase => phase' \in {"post", "done"} /\ phase # "pre",
           UNCHANGED <<out, superstep, vpc, score, received, sent, pageCount, residual, sad,
                       newScore, oldCur, before, exact>>
    PROVE  RankInv'
<1>1. SameInput /\ Vertices' = Vertices /\ vpc' = vpc
  BY DEF SameInput, Vertices
<1>2. TypeOKRank'
  BY <1>1 DEF RankInv, TypeOKRank, Vertices
<1>3. Resting' /\ Counts' /\ BeforeStep'
  BY <1>1 DEF RankInv, Resting, Counts, BeforeStep, DoneIn, SameInput
<1>4. InStep'
  <2> SUFFICES ASSUME superstep' > 0, phase' # "pre" PROVE InStep'
    BY DEF InStep
  <2>1. superstep > 0 /\ InStep /\ ScoresRight /\ superstep' = superstep
    BY DEF RankInv, InStep
  <2>2. Added' = Added /\ Given' = Given /\ Dead' = Dead
    BY <1>1 DEF Added, Given, Dead, SameInput
  <2>3. ScoresRight'
    <3>1. \A u \in Vertices : NewScore(u)' = NewScore(u)
      BY <1>1, InputStays
    <3> QED BY <1>1, <2>1, <2>2, <3>1 DEF ScoresRight, SameInput
  <2>4. PICK A, G, D : A = Added /\ G = Given /\ D = Dead
    OBVIOUS
  <2>5. A \in SUBSET Vertices /\ G \in SUBSET Vertices /\ D \in SUBSET Vertices
    BY <2>4 DEF Added, Given, Dead
  <2>6. Sum(Change', A) = Sum(Change, A) /\ Sum(Residue', D) = Sum(Residue, D)
        /\ \A w \in Vertices : Sum(Along(w)', G) = Sum(Along(w), G)
    BY <1>1, <2>1, <2>5, SumsStay
  <2> QED BY <1>1, <2>1, <2>2, <2>3, <2>4, <2>6 DEF InStep, ResidualOut, RankInv
<1> QED BY <1>1, <1>2, <1>3, <1>4, InputStays DEF RankInv
-----------------------------------------------------------------------------
(* A superstep whose computations are all done.                            *)
LEMMA AllDone ==
    ASSUME RankInv, superstep > 0, phase # "pre", \A v \in Vertices : vpc[v] = "done"
    PROVE  /\ Added = Vertices /\ Given = Vertices /\ Dead = {v \in Vertices : out[v] = {}}
           /\ pageCount = Cardinality(Vertices)
           /\ \A v \in Vertices : score[v] = newScore[v] /\ score[v] = NewScore(v) /\ score[v] \in Int
<1>1. Added = Vertices /\ Given = Vertices /\ Dead = {v \in Vertices : out[v] = {}}
  BY DEF Added, Given, Dead
<1>2. ScoresRight /\ pageCount = Cardinality(Vertices)
  BY DEF RankInv, InStep, Counts
<1>3. \A v \in Vertices : score[v] = newScore[v] /\ score[v] = NewScore(v)
  BY <1>1, <1>2 DEF ScoresRight
<1> QED BY <1>1, <1>2, <1>3 DEF RankInv, TypeOKRank

(* Nothing of a score is lost: what its vertex gives to its neighbours or, *)
(* a dead end, to all pages, is the score.                                 *)
LEMMA ScoreGivenAway ==
    ASSUME RankInv, superstep > 1, exact, NEW u \in Vertices,
           NEW row, row = [w \in Vertices |-> Followed(u, w)]
    PROVE  /\ \A w \in Vertices : row[w] \in Int
           /\ Lost(u) \in Int
           /\ before[u] = Sum(row, Vertices) + Cardinality(Vertices) * Lost(u)
<1>1. /\ IsFiniteSet(Vertices) /\ Cardinality(Vertices) \in Nat \ {0}
      /\ out[u] \in SUBSET Vertices /\ Cardinality(out[u]) \in Nat
      /\ out[u] # {} => Cardinality(out[u]) # 0
  BY GraphIs DEF RankInv, TypeOKRank
<1>2. before[u] \in Int /\ pageCount = Cardinality(Vertices) /\ Divides(Degree(u), before[u])
  BY DEF RankInv, TypeOKRank, Counts, ExactSoFar
<1>3. PICK n, x, l : n = Cardinality(Vertices) /\ x = before[u] /\ l = Lost(u)
  OBVIOUS
<1>4. CASE out[u] = {}
  <2>1. \A w \in Vertices : row[w] = 0
    BY <1>4 DEF Followed
  <2>2. Sum(row, Vertices) = n * 0
    BY <1>1, <1>3, <2>1, SumConstant
  <2>3. n * (x \div n) = x /\ x \div n \in Int
    BY <1>1, <1>2, <1>3, <1>4, DivInt, Exactly DEF Degree
  <2>4. l = x \div n
    BY <1>3, <1>4 DEF Lost
  <2>5. Sum(row, Vertices) = 0
    BY <1>1, <1>3, <2>2
  <2> QED BY <1>2, <1>3, <2>1, <2>3, <2>4, <2>5
<1>5. CASE out[u] # {}
  <2>1. PICK d \in Nat \ {0}, q \in Int : d = Cardinality(out[u]) /\ q = x \div d
    BY <1>1, <1>2, <1>3, <1>5, DivInt
  <2>2. d * q = x
    BY <1>2, <1>3, <1>5, <2>1, Exactly DEF Degree
  <2>3. PICK k : k = [w \in Vertices |-> q]
    OBVIOUS
  <2>4. \A w \in Vertices : k[w] \in Int /\ row[w] = IF w \in out[u] THEN k[w] ELSE 0
    BY <1>3, <2>1, <2>3 DEF Followed
  <2>5. Sum(row, Vertices) = Sum(k, Vertices \intersect out[u])
    BY <1>1, <2>4, SumOfPart
  <2>6. Vertices \intersect out[u] = out[u] /\ IsFiniteSet(out[u]) /\ \A w \in out[u] : k[w] = q
    BY <1>1, <2>3, FS_Subset
  <2>7. Sum(k, out[u]) = d * q
    BY <2>1, <2>6, SumConstant
  <2>8. l = 0 /\ n * l = 0
    BY <1>1, <1>3, <1>5 DEF Lost
  <2>9. \A w \in Vertices : row[w] \in Int
    <3> SUFFICES ASSUME NEW w \in Vertices PROVE row[w] \in Int
      OBVIOUS
    <3>1. CASE w \in out[u]
      BY <2>4, <3>1
    <3>2. CASE w \notin out[u]
      BY <2>4, <3>2
    <3> QED BY <3>1, <3>2
  <2>10. Sum(row, Vertices) = x
    BY <2>2, <2>5, <2>6, <2>7
  <2>11. before[u] = Sum(row, Vertices) + n * l
    BY <1>2, <1>3, <2>8, <2>10
  <2> QED BY <1>3, <2>8, <2>9, <2>11
<1> QED BY <1>4, <1>5

(* What a superstep reads is the scores of the one before it, all of them. *)
LEMMA ScoresReceived ==
    ASSUME RankInv, superstep > 1, exact, Vertices # {}
    PROVE  Sum(received, Vertices) + Cardinality(Vertices) * residual[ResidualIn(superstep)] = Scale
<1>1. PICK V : V = Vertices
  OBVIOUS
<1>2. IsFiniteSet(V)
  BY <1>1, GraphIs DEF RankInv, TypeOKRank
<1>3. PICK n \in Int : n = Cardinality(V)
  BY <1>1, GraphIs DEF RankInv, TypeOKRank
<1>4. PICK g : g = [u \in V |-> [w \in V |-> Followed(u, w)]]
  OBVIOUS
<1>5. PICK rows : rows = Rows(g, V, V)
  OBVIOUS
<1>6. PICK lost : lost = [u \in V |-> Lost(u)]
  OBVIOUS
<1>7. PICK toAll : toAll = [u \in V |-> n * lost[u]]
  OBVIOUS
<1>8. ASSUME NEW u \in V
      PROVE  /\ \A w \in V : g[u][w] \in Int
             /\ lost[u] \in Int
             /\ before[u] = rows[u] + toAll[u] /\ rows[u] \in Int
  <2>1. g[u] = [w \in Vertices |-> Followed(u, w)] /\ u \in Vertices
    BY <1>1, <1>4
  <2>2. PICK row : row = g[u]
    OBVIOUS
  <2>3. (\A w \in Vertices : row[w] \in Int) /\ Lost(u) \in Int
        /\ before[u] = Sum(row, Vertices) + Cardinality(Vertices) * Lost(u)
    BY <2>1, <2>2, ScoreGivenAway
  <2>4. Sum(row, V) \in Int
    BY <1>1, <1>2, <2>3, SumInt
  <2>5. rows[u] = Sum(row, V)
    BY <1>5, <2>2 DEF Rows
  <2> QED BY <1>1, <1>3, <1>6, <1>7, <2>2, <2>3, <2>4, <2>5
<1>9. g \in [V -> [V -> Int]]
  BY <1>4, <1>8
<1>10. Sum(received, V) = Sum(rows, V)
  <2>1. \A w \in V : received[w] = Sum(Column(g, V, w), V)
    <3> SUFFICES ASSUME NEW w \in V PROVE received[w] = Sum(Column(g, V, w), V)
      OBVIOUS
    <3>1. received[w] = Sum([u \in V |-> Followed(u, w)], V)
      BY <1>1 DEF RankInv, Inputs
    <3>2. [u \in V |-> Followed(u, w)] = Column(g, V, w)
      BY <1>4 DEF Column
    <3> QED BY <3>1, <3>2
  <2>2. PICK r : r = received
    OBVIOUS
  <2>3. \A w \in V : r[w] = Sum(Column(g, V, w), V)
    BY <2>1, <2>2
  <2>4. Sum(r, V) = Sum(rows, V)
    BY ONLY <1>2, <1>5, <1>9, <2>3, SumExchange
  <2> QED BY <2>2, <2>4
<1>11. residual[ResidualIn(superstep)] = Sum(lost, V)
  BY <1>1, <1>6 DEF RankInv, Inputs
<1>12. Sum(before, V) = Sum(rows, V) + Sum(toAll, V)
  <2>1. \A u \in V : rows[u] \in Int /\ toAll[u] \in Int /\ before[u] = rows[u] + toAll[u]
    BY <1>7, <1>8
  <2> QED BY <1>2, <2>1, SumPlus
<1>13. 1 * Sum(toAll, V) = n * Sum(lost, V)
  <2>1. \A u \in V : lost[u] \in Int /\ toAll[u] \in Int /\ 1 * toAll[u] = n * lost[u]
    BY <1>7, <1>8
  <2> QED BY <1>2, <2>1, SumTimes
<1>14. Sum(toAll, V) \in Int
  BY <1>2, <1>7, <1>8, SumInt
<1>15. Sum(before, V) = Scale
  BY <1>1 DEF RankInv, SumKept
<1> QED BY <1>1, <1>3, <1>10, <1>11, <1>12, <1>13, <1>14, <1>15

LEMMA Conserved ==
    ASSUME NEW n \in Int, NEW d \in Int, NEW k \in Int, NEW s \in Int,
           NEW base \in Int, NEW ds \in Int, NEW r \in Int, NEW dr \in Int,
           NEW sum \in Int, NEW dsum \in Int,
           n * base = s - ds, d * ds = s * k, d * dr = r * k, d * dsum = k * sum, sum + n * r = s
    PROVE  d * (n * (base + dr) + dsum) = d * s
<1>1. n * (base + dr) = n * base + n * dr
  OBVIOUS
<1>2. d * (n * (base + dr) + dsum) = d * (n * base) + d * (n * dr) + d * dsum
  BY <1>1
<1>3. d * (n * base) = d * s - s * k
  <2>1. d * (s - ds) = d * s - d * ds
    OBVIOUS
  <2> QED BY <2>1
<1>4. d * (n * dr) = (n * r) * k
  <2>1. d * (n * dr) = n * (d * dr)
    OBVIOUS
  <2>2. n * (r * k) = (n * r) * k
    OBVIOUS
  <2> QED BY <2>1, <2>2
<1>5. (n * r) * k + k * sum = s * k
  <2>1. (n * r) * k + k * sum = (sum + n * r) * k
    OBVIOUS
  <2> QED BY <2>1
<1> QED BY <1>2, <1>3, <1>4, <1>5
LEMMA SumOfScores ==
    ASSUME RankInv, superstep > 0, phase # "pre", \A v \in Vertices : vpc[v] = "done",
           exact, Vertices # {}
    PROVE  Sum(score, Vertices) = Scale
<1>1. PICK V, n : V = Vertices /\ n = Cardinality(V)
  OBVIOUS
<1>2. IsFiniteSet(V) /\ n \in Nat \ {0} /\ pageCount = n
  BY <1>1, GraphIs, AllDone DEF RankInv, TypeOKRank
<1>3. /\ Scale \in Int /\ DampingNum \in Int /\ DampingDen \in Nat \ {0}
      /\ residual[ResidualIn(superstep)] \in Int /\ \A v \in V : received[v] \in Int
  BY <1>1, RankAssumption, Residuals DEF RankInv, TypeOKRank
<1>4. PICK w : w \in V
  BY <1>1
<1>5. PICK f : f = score
  OBVIOUS
<1>6. \A v \in V : f[v] = NewScore(v) /\ f[v] \in Int
  BY <1>1, <1>5, AllDone
<1>7. Divides(n, Scale) /\ Divides(n, Scale - Damped(Scale))
  BY <1>1, <1>2 DEF RankInv, ExactSoFar
<1>8. CASE superstep = 1
  <2>1. PICK c \in Int : c = Scale \div n
    BY <1>2, <1>3, DivInt
  <2>2. \A v \in V : f[v] = c
    BY <1>2, <1>6, <1>8, <2>1 DEF NewScore
  <2>3. Sum(f, V) = n * c
    BY <1>1, <1>2, <2>2, SumConstant
  <2>4. n * c = Scale
    BY <1>2, <1>3, <1>7, <2>1, Exactly
  <2> QED BY <1>1, <1>5, <2>3, <2>4
<1>9. CASE superstep # 1
  <2>1. superstep > 1
    BY <1>9 DEF RankInv, TypeOKRank
  <2>2. PICK r \in Int : r = residual[ResidualIn(superstep)]
    BY <1>3
  <2>3. PICK ds \in Int, dr \in Int : ds = Damped(Scale) /\ dr = Damped(r)
    BY <1>3, DampedInt
  <2>4. \A x \in {Scale, received[w], residual[ResidualIn(superstep)]} : Divides(DampingDen, x * DampingNum)
    BY <1>1, <1>4 DEF RankInv, ExactSoFar
  <2>5. DampingDen * ds = Scale * DampingNum /\ DampingDen * dr = r * DampingNum
    BY <1>3, <2>2, <2>3, <2>4, DampedInt
  <2>6. PICK base \in Int : base = Base /\ n * base = Scale - ds
    <3>1. PICK x \in Int : x = Scale - ds
      BY <1>3
    <3>2. x \div n \in Int /\ n * (x \div n) = x
      BY <1>2, <1>7, <2>3, <3>1, DivInt, Exactly
    <3> QED BY <1>2, <2>3, <3>1, <3>2 DEF Base
  <2>7. PICK g : g = received
    OBVIOUS
  <2>8. PICK h : h = [v \in V |-> Damped(g[v])]
    OBVIOUS
  <2>9. ASSUME NEW v \in V
        PROVE  g[v] \in Int /\ h[v] \in Int /\ DampingDen * h[v] = DampingNum * g[v]
    <3>1. PICK x \in Int : x = received[v]
      BY <1>3
    <3>2. Divides(DampingDen, x * DampingNum)
      BY <1>1, <2>1, <3>1 DEF RankInv, ExactSoFar
    <3>3. DampingDen * Damped(x) = x * DampingNum /\ Damped(x) \in Int
      BY <3>2, DampedInt
    <3>4. x * DampingNum = DampingNum * x
      BY <1>3
    <3> QED BY <2>7, <2>8, <3>1, <3>3, <3>4
  <2>10. PICK sum \in Int, dsum \in Int : sum = Sum(g, V) /\ dsum = Sum(h, V)
    <3>1. Sum(g, V) \in Int
      BY <1>2, <2>9, SumInt
    <3>2. Sum(h, V) \in Int
      BY <1>2, <2>9, SumInt
    <3> QED BY <3>1, <3>2
  <2>11. DampingDen * dsum = DampingNum * sum
    <3>1. DampingDen * Sum(h, V) = DampingNum * Sum(g, V)
      BY <1>2, <1>3, <2>9, SumTimes
    <3> QED BY <2>10, <3>1
  <2>12. sum + n * r = Scale
    BY <1>1, <2>1, <2>2, <2>7, <2>10, ScoresReceived
  <2>13. PICK c \in Int : c = base + dr
    OBVIOUS
  <2>14. PICK k : k = [v \in V |-> c]
    OBVIOUS
  <2>15. \A v \in V : k[v] \in Int /\ h[v] \in Int /\ f[v] = k[v] + h[v]
    <3> SUFFICES ASSUME NEW v \in V PROVE k[v] \in Int /\ h[v] \in Int /\ f[v] = k[v] + h[v]
      OBVIOUS
    <3>1. NewScore(v) = Base + Damped(received[v]) + Damped(residual[ResidualIn(superstep)])
      BY <1>9 DEF NewScore
    <3>2. f[v] = base + h[v] + dr
      BY <1>6, <2>2, <2>3, <2>6, <2>7, <2>8, <3>1
    <3> QED BY <2>9, <2>13, <2>14, <3>2
  <2>16. Sum(f, V) = Sum(k, V) + dsum
    <3>1. Sum(f, V) = Sum(k, V) + Sum(h, V)
      BY <1>2, <2>15, SumPlus
    <3> QED BY <2>10, <3>1
  <2>17. Sum(k, V) = n * c
    BY <1>1, <1>2, <2>14, SumConstant
  <2>18. DampingDen * (n * (base + dr) + dsum) = DampingDen * Scale
    BY <1>2, <1>3, <2>5, <2>6, <2>11, <2>12, Conserved
  <2>19. PICK y \in Int : y = n * (base + dr) + dsum
    BY <1>2
  <2>20. y = Scale
    BY <1>3, <2>18, <2>19, Cancel
  <2> QED BY <1>1, <1>5, <2>13, <2>16, <2>17, <2>19, <2>20
<1> QED BY <1>8, <1>9

LEMMA KeepRunningInv == ASSUME RankInv, KeepRunning PROVE RankInv'
<1>1. Vertices' = Vertices /\ out' = out /\ pageCount' = pageCount /\ superstep \in Nat
  BY DEF KeepRunning, Vertices, RankInv, TypeOKRank
<1>2. phase = "post" /\ \A v \in Vertices : vpc[v] = "done"
  BY DEF KeepRunning, RankInv, Resting
<1>3. superstep' = superstep + 1 /\ received' = sent /\ before' = score /\ residual' = residual
  BY DEF KeepRunning
<1>4. TypeOKRank'
  <2>1. Zero' = [v \in Vertices |-> 0] /\ sent' = [v \in Vertices |-> 0]
    BY <1>1 DEF KeepRunning, Zero
  <2> QED BY <1>1, <2>1 DEF KeepRunning, RankInv, TypeOKRank, Vertices
<1>5. Resting' /\ BeforeStep' /\ InStep'
  BY <1>1, <1>2 DEF KeepRunning, Resting, BeforeStep, InStep, Zero
<1>6. pageCount = Cardinality(Vertices)
  <2>1. DoneIn = Vertices
    BY <1>2 DEF DoneIn
  <2> QED BY <1>1, <1>2, <2>1 DEF RankInv, Counts
<1>7. Counts'
  BY <1>1, <1>3, <1>6 DEF Counts
<1>8. ResidualIn(superstep') = ResidualOut(superstep)
  BY <1>1, <1>3, Residuals
<1>9. Inputs'
  <2> SUFFICES ASSUME superstep' > 1 PROVE Inputs'
    BY DEF Inputs
  <2>1. superstep > 0
    BY <1>1, <1>3
  <2>2. IsFiniteSet(Vertices)
    BY GraphIs DEF RankInv, TypeOKRank
  <2>3. /\ Given = Vertices /\ Dead = {v \in Vertices : out[v] = {}} /\ InStep
        /\ \A v \in Vertices : score[v] = newScore[v]
    BY <1>2, <2>1, AllDone DEF RankInv
  <2>4. ASSUME NEW w \in Vertices
        PROVE  received'[w] = Sum([u \in Vertices' |-> Followed(u, w)'], Vertices)
    <3>1. PICK a, b : a = Along(w) /\ b = [u \in Vertices |-> Followed(u, w)']
      OBVIOUS
    <3>2. \A u \in Vertices : a[u] = b[u]
      BY <1>1, <1>3, <2>3, <3>1 DEF Along, Followed
    <3>3. Sum(a, Vertices) = Sum(b, Vertices)
      BY <2>2, <3>2, SumSame
    <3>4. sent[w] = Sum(a, Vertices)
      BY <1>2, <2>1, <2>3, <3>1 DEF InStep
    <3> QED BY <1>1, <1>3, <3>1, <3>3, <3>4
  <2>5. residual'[ResidualIn(superstep')] = Sum([u \in Vertices' |-> Lost(u)'], Vertices)
    <3>1. PICK r, l : r = Residue /\ l = [u \in Vertices |-> Lost(u)']
      OBVIOUS
    <3>2. \A u \in Vertices : r[u] \in Int /\ l[u] = IF u \in Dead THEN r[u] ELSE 0
      BY <1>1, <1>3, <1>6, <2>1, <2>3, <3>1, PartsInt DEF Lost
    <3>3. PICK D : D = Dead
      OBVIOUS
    <3>4. Sum(l, Vertices) = Sum(r, Vertices \intersect D)
      BY <2>2, <3>2, <3>3, SumOfPart
    <3>5. Vertices \intersect D = D
      BY <2>3, <3>3
    <3>6. residual[ResidualOut(superstep)] = Sum(r, D)
      BY <1>2, <2>1, <2>3, <3>1, <3>3 DEF InStep
    <3> QED BY <1>1, <1>3, <1>8, <3>1, <3>4, <3>5, <3>6
  <2> QED BY <1>1, <2>4, <2>5 DEF Inputs
<1>10. ExactSoFar'
  <2> SUFFICES ASSUME exact' PROVE ExactSoFar'
    BY DEF ExactSoFar
  <2>1. Exact
    BY DEF KeepRunning
  <2>2. \A v \in Vertices : Degree(v)' = Degree(v)
    BY <1>1 DEF Degree
  <2> QED BY <1>1, <1>3, <1>8, <2>1, <2>2 DEF Exact, ExactSoFar
<1>11. SumKept'
  <2> SUFFICES ASSUME superstep' > 1, exact', Vertices' # {} PROVE Sum(before', Vertices') = Scale
    BY DEF SumKept
  <2>1. superstep > 0 /\ exact /\ Vertices # {}
    <3>1. exact
      BY ZenonT(20) DEF KeepRunning
    <3> QED BY <1>1, <1>3, <3>1
  <2>2. Sum(score, Vertices) = Scale
    BY <1>2, <2>1, SumOfScores
  <2> QED BY <1>1, <1>3, <2>2
<1> QED BY <1>4, <1>5, <1>7, <1>9, <1>10, <1>11 DEF RankInv
-----------------------------------------------------------------------------
LEMMA ComputeInv == ASSUME RankInv, NEW v \in Vertices, Compute(v) PROVE RankInv'
<1>1. CASE Count(v) BY <1>1, CountInv
<1>2. CASE Score(v) BY <1>2, ScoreInv
<1>3. CASE LoadSAD(v) BY <1>3, LoadSADInv
<1>4. CASE SwapSAD(v) BY <1>4, SwapSADInv
<1>5. CASE Distribute(v) BY <1>5, DistributeInv
<1>6. CASE LoadResidual(v) BY <1>6, LoadResidualInv
<1>7. CASE SwapResidual(v) BY <1>7, SwapResidualInv
<1> QED BY <1>1, <1>2, <1>3, <1>4, <1>5, <1>6, <1>7 DEF Compute

LEMMA RankNext == RankInv /\ [Next]_vars => RankInv'
<1> SUFFICES ASSUME RankInv, [Next]_vars PROVE RankInv'
  OBVIOUS
<1>1. CASE PreStep
  BY <1>1, PreStepInv
<1>2. CASE StepEnds
  BY <1>2, PhaseInv DEF StepEnds
<1>3. CASE KeepRunning
  BY <1>3, KeepRunningInv
<1>4. CASE Stop
  BY <1>4, PhaseInv DEF Stop, RankInv, Resting
<1>5. CASE UNCHANGED vars
  <2>1. /\ phase' = phase
        /\ UNCHANGED <<out, superstep, vpc, score, received, sent, pageCount, residual, sad,
                       newScore, oldCur, before, exact>>
    BY <1>5 DEF vars
  <2> QED BY <2>1, PhaseInv
<1>6. ASSUME NEW v \in Vertices, Compute(v) PROVE RankInv'
  BY <1>6, ComputeInv
<1> QED BY <1>1, <1>2, <1>3, <1>4, <1>5, <1>6 DEF Next, Finished

(* However the computations of a superstep interleave: SAD, the residual   *)
(* and the sums that wait for the vertices are at every moment the parts   *)
(* of the computations that have added theirs, no addition lost and none   *)
(* made twice, and the input of the superstep is what the one before gave. *)
THEOREM RankInductive == Spec => []RankInv
BY RankInit, RankNext, PTL DEF Spec

(* The run is over only after a superstep that found convergence, and then *)
(* nothing changes any more.                                               *)
Over == phase = "done" => Converged

LEMMA OverNext == RankInv /\ Over /\ [Next]_vars => Over'
<1> SUFFICES ASSUME RankInv, Over, [Next]_vars, phase' = "done" PROVE Converged'
  BY DEF Over
<1>1. CASE Stop
  BY <1>1 DEF Stop, Converged
<1>2. CASE UNCHANGED vars
  BY <1>2 DEF Over, Converged, vars
<1>3. ASSUME NEW v \in Vertices, Compute(v) PROVE FALSE
  <2>1. phase = "done"
    BY <1>3 DEF Compute, Count, Score, LoadSAD, SwapSAD, Distribute, LoadResidual, SwapResidual
  <2>2. vpc[v] = "done"
    BY <2>1 DEF RankInv, Resting
  <2> QED BY <1>3, <2>1, <2>2 DEF Compute, Count, Score, Start, LoadSAD, SwapSAD, Distribute, LoadResidual,
                                  SwapResidual
<1>4. CASE PreStep \/ StepEnds \/ KeepRunning
  BY <1>4 DEF PreStep, StepEnds, KeepRunning
<1> QED BY <1>1, <1>2, <1>3, <1>4 DEF Next, Finished

LEMMA SuperstepIsStep == RankInv /\ Over => StepAsDefined
<1> SUFFICES ASSUME RankInv, Over, phase \in {"post", "done"} PROVE StepAsDefined
  BY DEF StepAsDefined
<1>1. \A v \in Vertices : vpc[v] = "done"
  BY DEF RankInv, Resting
<1>2. PICK V : V = Vertices
  OBVIOUS
<1>3. IsFiniteSet(V)
  BY <1>2, GraphIs DEF RankInv, TypeOKRank
<1>4. pageCount = Cardinality(Vertices)
  <2>1. DoneIn = Vertices
    BY <1>1 DEF DoneIn
  <2> QED BY <2>1 DEF RankInv, TypeOKRank, Counts
<1>5. ASSUME superstep > 0
      PROVE  sad = SumFunction([v \in Vertices |-> Abs(score[v] - before[v])])
  <2>1. PICK c, d : c = Change /\ d = [v \in Vertices |-> Abs(score[v] - before[v])]
    OBVIOUS
  <2>2. ASSUME NEW v \in V PROVE c[v] = d[v]
    <3>1. score[v] = newScore[v] /\ score[v] \in Int /\ before[v] \in Int
      BY <1>1, <1>2, <1>5, AllDone DEF RankInv, TypeOKRank
    <3>2. PICK x \in Int : x = score[v] - before[v] /\ -x = before[v] - newScore[v]
      BY <3>1
    <3>3. Abs(-x) = Abs(x)
      BY AbsInt
    <3>4. c[v] = Abs(-x)
      BY <1>2, <2>1, <3>2 DEF Change
    <3>5. d[v] = Abs(x)
      BY <1>2, <2>1, <3>2
    <3> QED BY <3>3, <3>4, <3>5
  <2>3. sad = Sum(c, V)
    BY <1>1, <1>2, <1>5, <2>1, AllDone DEF RankInv, InStep
  <2>4. Sum(c, V) = Sum(d, V)
    BY <1>3, <2>2, SumSame
  <2>5. DOMAIN d = V
    BY <1>2, <2>1
  <2> QED BY <2>1, <2>3, <2>4, <2>5 DEF SumFunction, Sum
<1>6. ASSUME superstep > 1, NEW v \in Vertices
      PROVE  score[v] = Walk(v)
  <2>1. superstep > 0 /\ superstep # 1
    BY <1>6 DEF RankInv, TypeOKRank
  <2>2. score[v] = Base + Damped(received[v]) + Damped(residual[ResidualIn(superstep)])
    BY <1>1, <2>1, AllDone DEF NewScore
  <2>3. PICK f, l : f = [u \in Vertices |-> Followed(u, v)] /\ l = [u \in Vertices |-> Lost(u)]
    OBVIOUS
  <2>4. received[v] = Sum(f, V) /\ residual[ResidualIn(superstep)] = Sum(l, V)
    BY <1>2, <1>6, <2>3 DEF RankInv, Inputs
  <2>5. DOMAIN f = V /\ DOMAIN l = V
    BY <1>2, <2>3
  <2>6. SumFunction(f) = Sum(f, V) /\ SumFunction(l) = Sum(l, V)
    BY <2>5 DEF SumFunction, Sum
  <2>7. Walk(v) = Base + Damped(SumFunction(f)) + Damped(SumFunction(l))
    BY <2>3 DEF Walk
  <2> QED BY <2>2, <2>4, <2>6, <2>7
<1>7. ASSUME superstep > 0, exact, Vertices # {}
      PROVE  SumFunction(score) = Scale
  <2>1. Sum(score, Vertices) = Scale
    BY <1>1, <1>7, SumOfScores
  <2>2. DOMAIN score = Vertices
    BY DEF RankInv, TypeOKRank
  <2> QED BY <2>1, <2>2 DEF SumFunction, Sum
<1>8. ASSUME phase = "done"
      PROVE  superstep > 1 /\ superstep > 0 /\ sad < MinSAD
  BY <1>8 DEF Over, Converged, RankInv, TypeOKRank
<1> QED BY <1>4, <1>5, <1>6, <1>7, <1>8 DEF StepAsDefined

(* A superstep, when it ends, was one step of the power iteration, SAD is  *)
(* the sum of the absolute differences that the scores changed by, and, as *)
(* long as no division leaves a remainder, the scores add up to 1.  The    *)
(* run ends only after a step that changed them by less than MinSAD.  This *)
(* holds for every finite graph, damping factor, precision and number of   *)
(* workers.                                                                *)
THEOREM SuperstepsAreSteps == Spec => []StepAsDefined
<1>1. Init => Over
  BY DEF Init, Over
<1>2. Spec => []Over
  BY <1>1, OverNext, RankInductive, PTL DEF Spec
<1> QED BY <1>2, RankInductive, SuperstepIsStep, PTL
=============================================================================
