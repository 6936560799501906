------------------------------ MODULE SetFacts ------------------------------
(***************************************************************************)
(* Facts about the library's Min, SumFunctionOnSet and SumFunction that    *)
(* the components' proofs use.  Induction is by the least counterexample:  *)
(* a nonempty set of naturals has a least element.                         *)
(***************************************************************************)
EXTENDS Integers, FiniteSets, FiniteSetsExt, Functions, WellFoundedInduction, FiniteSetTheorems, TLAPS

\* The least element of a set of naturals, from the well-foundedness of <.
LEMMA LeastExists ==
  \A T : T \subseteq Nat /\ T # {} => \E x \in T : \A y \in T : ~ (y < x)
<1>1. \A T : T \subseteq Nat /\ T # {} => \E x \in T : \A y \in T : ~ (<<y, x>> \in OpToRel(<, Nat))
  BY NatLessThanWellFounded, WFMin, Zenon
<1>2. \A x, y \in Nat : <<x, y>> \in OpToRel(<, Nat) <=> x < y
  BY DEF OpToRel
<1> QED
  BY <1>1, <1>2, Zenon

(* Min of a nonempty set of naturals is its least element: the lowest free *)
(* descriptor, slot or handle that the allocators hand out.                *)
LEMMA MinProperties ==
  ASSUME NEW T \in SUBSET Nat, T # {}
  PROVE  Min(T) \in T /\ \A y \in T : Min(T) =< y
<1>1. PICK x \in T : \A y \in T : ~ (y < x)
  BY LeastExists
<1>2. \A y \in T : x =< y
  BY <1>1
<1> QED
  BY <1>2 DEF Min

\* Max of a bounded one is its greatest.
LEMMA MaxProperties ==
  ASSUME NEW T \in SUBSET Nat, T # {}, NEW k \in Nat, \A y \in T : y =< k
  PROVE  Max(T) \in T /\ \A y \in T : y =< Max(T)
<1> DEFINE U == {k - y : y \in T}
<1>1. U \subseteq Nat /\ U # {}
  <2>1. \A y \in T : k - y \in Nat /\ k - y \in U
    OBVIOUS
  <2> QED
    BY <2>1
<1>2. PICK u \in U : \A y \in U : ~ (y < u)
  BY <1>1, LeastExists
<1>3. PICK x \in T : u = k - x
  OBVIOUS
<1>4. \A y \in T : x >= y
  BY <1>2, <1>3
<1> QED
  BY <1>4 DEF Max
-----------------------------------------------------------------------------
(* The equation of the recursion behind the sum, and what characterises    *)
(* the sums of the subsets of S.                                           *)
Picked(s) == CHOOSE x \in s : TRUE
SumEq(h, v, S) == h = [s \in SUBSET S |-> IF s = {} THEN 0 ELSE v[Picked(s)] + h[s \ {Picked(s)}]]
Summable(v, S) == IsFiniteSet(S) /\ \A x \in S : v[x] \in Int
IsSum(g, v, S) ==
  /\ g \in [SUBSET S -> Int] /\ g[{}] = 0
  /\ \A T \in SUBSET S : \A x \in S : x \notin T => g[T \cup {x}] = g[T] + v[x]
  /\ \A T \in SUBSET S : (\A x \in T : v[x] >= 0) => g[T] >= 0

\* If the recursion has a solution, the library's sum is the value of one.
LEMMA SumUnfold ==
  ASSUME NEW v, NEW S, \E h : SumEq(h, v, S)
  PROVE  \E h : SumEq(h, v, S) /\ SumFunctionOnSet(v, S) = h[S]
<1> DEFINE h == CHOOSE k : SumEq(k, v, S)
<1>1. SumEq(h, v, S)
  BY Zenon
<1>2. SumFunctionOnSet(v, S) = h[S]
  BY Zenon DEF SumFunctionOnSet, FoldFunctionOnSet, MapThenFoldSet, SumEq, Picked
<1> QED
  BY <1>1, <1>2, Zenon

\* One more element: the sums of the subsets of S \cup {a} from those of S.
LEMMA IsSumExtends ==
  ASSUME NEW v, NEW S, NEW a, a \notin S, v[a] \in Int, \A x \in S : v[x] \in Int,
         \E g : IsSum(g, v, S)
  PROVE  \E g : IsSum(g, v, S \cup {a})
<1>1. PICK g : IsSum(g, v, S)
  OBVIOUS
<1> DEFINE h == [T \in SUBSET (S \cup {a}) |-> IF a \in T THEN g[T \ {a}] + v[a] ELSE g[T]]
<1>2. \A T \in SUBSET (S \cup {a}) : T \ {a} \in SUBSET S /\ (a \notin T => T \in SUBSET S)
  OBVIOUS
<1>3. g \in [SUBSET S -> Int]
  BY <1>1 DEF IsSum
<1>4. h \in [SUBSET (S \cup {a}) -> Int]
  BY <1>2, <1>3
<1>5. h[{}] = 0
  BY <1>1 DEF IsSum
<1>6. ASSUME NEW T \in SUBSET (S \cup {a}), NEW x \in S \cup {a}, x \notin T
      PROVE  h[T \cup {x}] = h[T] + v[x]
  <2>1. CASE x = a
    <3>1. (T \cup {a}) \ {a} = T /\ T \in SUBSET S /\ T \cup {a} \in SUBSET (S \cup {a})
      BY <1>6, <2>1
    <3> QED
      BY <1>6, <2>1, <3>1
  <2>2. CASE x # a /\ a \in T
    <3>1. /\ (T \cup {x}) \ {a} = (T \ {a}) \cup {x} /\ T \ {a} \in SUBSET S /\ x \in S
          /\ T \cup {x} \in SUBSET (S \cup {a}) /\ x \notin T \ {a}
      BY <1>6, <2>2
    <3>2. g[(T \ {a}) \cup {x}] = g[T \ {a}] + v[x]
      BY <1>1, <3>1 DEF IsSum
    <3>3. g[T \ {a}] \in Int /\ v[x] \in Int
      BY <1>3, <3>1
    <3>4. h[T] = g[T \ {a}] + v[a]
      BY <2>2
    <3>5. h[T \cup {x}] = g[(T \cup {x}) \ {a}] + v[a]
      BY <2>2, <3>1
    <3>6. g[(T \cup {x}) \ {a}] = g[T \ {a}] + v[x]
      BY <3>1, <3>2, Zenon
    <3> HIDE DEF h
    <3> QED
      BY <3>3, <3>4, <3>5, <3>6
  <2>3. CASE x # a /\ a \notin T
    <3>1. /\ T \in SUBSET S /\ x \in S /\ T \cup {x} \in SUBSET (S \cup {a}) /\ a \notin T \cup {x}
          /\ T \in SUBSET (S \cup {a})
      BY <1>6, <2>3
    <3>2. g[T \cup {x}] = g[T] + v[x]
      BY <1>1, <1>6, <3>1 DEF IsSum
    <3> QED
      BY <2>3, <3>1, <3>2
  <2> QED
    BY <2>1, <2>2, <2>3
<1>7. ASSUME NEW T \in SUBSET (S \cup {a}), \A x \in T : v[x] >= 0
      PROVE  h[T] >= 0
  <2>1. g[T \ {a}] >= 0 /\ g[T \ {a}] \in Int
    BY <1>1, <1>2, <1>3, <1>7 DEF IsSum
  <2>2. CASE a \in T
    BY <1>7, <2>1, <2>2
  <2>3. CASE a \notin T
    <3>1. T \ {a} = T
      BY <2>3
    <3> QED
      BY <2>1, <2>3, <3>1
  <2> QED
    BY <2>2, <2>3
<1> HIDE DEF h
<1>8. IsSum(h, v, S \cup {a})
  BY <1>4, <1>5, <1>6, <1>7 DEF IsSum
<1> QED
  BY <1>8

\* Every finite set has its sums.
LEMMA IsSumExists ==
  ASSUME NEW v, NEW S, Summable(v, S)
  PROVE  \E g : IsSum(g, v, S)
<1> DEFINE Bad == {n \in Nat : \E T \in SUBSET S : Cardinality(T) = n /\ ~ \E g : IsSum(g, v, T)}
<1>1. \A T \in SUBSET S : IsFiniteSet(T) /\ Cardinality(T) \in Nat
  BY FS_Subset, FS_CardinalityType DEF Summable
<1>2. SUFFICES ASSUME Bad # {} PROVE FALSE
  BY <1>1
<1>3. PICK n \in Bad : \A k \in Bad : ~ (k < n)
  BY <1>2, LeastExists
<1>4. PICK T \in SUBSET S : Cardinality(T) = n /\ ~ \E g : IsSum(g, v, T)
  BY <1>3
<1>5. CASE T = {}
  <2> DEFINE g == [U \in SUBSET {} |-> 0]
  <2>1. IsSum(g, v, {})
    BY DEF IsSum
  <2> QED
    BY <1>4, <1>5, <2>1
<1>6. CASE T # {}
  <2>1. PICK a \in T : TRUE
    BY <1>6
  <2>2. IsFiniteSet(T \ {a}) /\ Cardinality(T \ {a}) = n - 1 /\ n - 1 \in Nat
    <3>1. Cardinality(T \ {a}) = Cardinality(T) - 1 /\ T \ {a} \in SUBSET S
      BY <1>1, <2>1, FS_RemoveElement
    <3> QED
      BY <1>1, <1>4, <3>1
  <2>3. n - 1 \notin Bad
    BY <1>3, <2>2
  <2>4. \E g : IsSum(g, v, T \ {a})
    BY <2>2, <2>3
  <2>5. (T \ {a}) \cup {a} = T /\ v[a] \in Int /\ \A x \in T \ {a} : v[x] \in Int
    BY <2>1 DEF Summable
  <2>6. \E g : IsSum(g, v, (T \ {a}) \cup {a})
    BY <2>4, <2>5, IsSumExtends
  <2> QED
    BY <1>4, <2>5, <2>6
<1> QED
  BY <1>5, <1>6

\* The recursion has one solution, the sums; so the library's sum of S is theirs.
LEMMA SumIs ==
  ASSUME NEW v, NEW S, Summable(v, S), NEW g, IsSum(g, v, S)
  PROVE  SumFunctionOnSet(v, S) = g[S]
<1>1. \A s \in SUBSET S : s # {} => Picked(s) \in s
  BY DEF Picked
<1>2. \A s \in SUBSET S : s # {} =>
        g[s] = v[Picked(s)] + g[s \ {Picked(s)}] /\ s \ {Picked(s)} \in SUBSET S
  <2> SUFFICES ASSUME NEW s \in SUBSET S, s # {}
               PROVE  g[s] = v[Picked(s)] + g[s \ {Picked(s)}] /\ s \ {Picked(s)} \in SUBSET S
    OBVIOUS
  <2>1. PICK a \in s : a = Picked(s)
    BY <1>1
  <2>2. (s \ {a}) \cup {a} = s /\ s \ {a} \in SUBSET S /\ a \in S /\ a \notin s \ {a}
    OBVIOUS
  <2>3. g[(s \ {a}) \cup {a}] = g[s \ {a}] + v[a] /\ g[s \ {a}] \in Int /\ v[a] \in Int
    BY <2>2 DEF IsSum, Summable
  <2>4. g[s] = g[s \ {a}] + v[a]
    BY <2>2, <2>3, Zenon
  <2>5. g[s] = v[a] + g[s \ {a}]
    BY <2>3, <2>4
  <2> QED
    BY <2>1, <2>2, <2>5
<1>3. SumEq(g, v, S)
  <2> DEFINE r == [s \in SUBSET S |-> IF s = {} THEN 0 ELSE v[Picked(s)] + g[s \ {Picked(s)}]]
  <2>1. \A s \in SUBSET S : r[s] = g[s]
    BY <1>2 DEF IsSum
  <2>2. g = [s \in SUBSET S |-> g[s]]
    BY DEF IsSum
  <2>3. r = g
    BY <2>1, <2>2
  <2> QED
    BY <2>3 DEF SumEq
<1>4. PICK h : SumEq(h, v, S) /\ SumFunctionOnSet(v, S) = h[S]
  BY <1>3, SumUnfold
<1>5. h[{}] = 0 /\ \A s \in SUBSET S : s # {} => h[s] = v[Picked(s)] + h[s \ {Picked(s)}]
  <2> DEFINE r == [s \in SUBSET S |-> IF s = {} THEN 0 ELSE v[Picked(s)] + h[s \ {Picked(s)}]]
  <2>1. h = r
    BY <1>4 DEF SumEq
  <2>2. {} \in SUBSET S /\ r[{}] = 0 /\ \A s \in SUBSET S : s # {} => r[s] = v[Picked(s)] + h[s \ {Picked(s)}]
    OBVIOUS
  <2> HIDE DEF r
  <2> QED
    BY <2>1, <2>2
<1>6. \A s \in SUBSET S : h[s] = g[s]
  <2> DEFINE Bad == {n \in Nat : \E T \in SUBSET S : Cardinality(T) = n /\ h[T] # g[T]}
  <2>1. \A T \in SUBSET S : IsFiniteSet(T) /\ Cardinality(T) \in Nat
    BY FS_Subset, FS_CardinalityType DEF Summable
  <2>2. SUFFICES ASSUME Bad # {} PROVE FALSE
    BY <2>1
  <2>3. PICK n \in Bad : \A k \in Bad : ~ (k < n)
    BY <2>2, LeastExists
  <2>4. PICK T \in SUBSET S : Cardinality(T) = n /\ h[T] # g[T]
    BY <2>3
  <2>5. T # {}
    BY <1>5, <2>4 DEF IsSum
  <2>6. PICK a \in T : a = Picked(T)
    BY <1>1, <2>5
  <2>7. T \ {a} \in SUBSET S /\ Cardinality(T \ {a}) = n - 1 /\ n - 1 \in Nat
    <3>1. Cardinality(T \ {a}) = Cardinality(T) - 1 /\ T \ {a} \in SUBSET S
      BY <2>1, <2>6, FS_RemoveElement
    <3> QED
      BY <2>1, <2>4, <3>1
  <2>8. h[T \ {a}] = g[T \ {a}]
    BY <2>3, <2>7
  <2> QED
    BY <1>2, <1>5, <2>4, <2>5, <2>6, <2>8
<1> QED
  BY <1>4, <1>6

(* The sum over a finite set: it is an integer, of naturals a natural, and *)
(* one more element adds its value.                                        *)
LEMMA SumProperties ==
  ASSUME NEW v, NEW S, Summable(v, S)
  PROVE  /\ SumFunctionOnSet(v, S) \in Int
         /\ S = {} => SumFunctionOnSet(v, S) = 0
         /\ (\A x \in S : v[x] >= 0) => SumFunctionOnSet(v, S) >= 0
         /\ \A a \in S : SumFunctionOnSet(v, S) = SumFunctionOnSet(v, S \ {a}) + v[a]
<1>1. PICK g : IsSum(g, v, S)
  BY IsSumExists
<1>2. SumFunctionOnSet(v, S) = g[S]
  BY <1>1, SumIs
<1>3. ASSUME NEW a \in S PROVE SumFunctionOnSet(v, S) = SumFunctionOnSet(v, S \ {a}) + v[a]
  <2> DEFINE R == S \ {a}
  <2> DEFINE h == [T \in SUBSET R |-> g[T]]
  <2>1. R \in SUBSET S /\ R \cup {a} = S /\ a \notin R /\ SUBSET R \subseteq SUBSET S
    OBVIOUS
  <2>2. Summable(v, R)
    BY <2>1, FS_Subset DEF Summable
  <2>3. IsSum(h, v, R)
    <3>1. \A T \in SUBSET R : h[T] = g[T] /\ T \in SUBSET S /\ \A x \in R : T \cup {x} \in SUBSET R
      BY <2>1
    <3>2. h \in [SUBSET R -> Int]
      BY <1>1, <2>1 DEF IsSum
    <3>3. h[{}] = 0
      BY <1>1, <3>1 DEF IsSum
    <3>4. ASSUME NEW T \in SUBSET R, NEW x \in R, x \notin T PROVE h[T \cup {x}] = h[T] + v[x]
      BY <1>1, <2>1, <3>1, <3>4 DEF IsSum
    <3>5. ASSUME NEW T \in SUBSET R, \A x \in T : v[x] >= 0 PROVE h[T] >= 0
      BY <1>1, <3>1, <3>5 DEF IsSum
    <3> QED
      BY <3>2, <3>3, <3>4, <3>5 DEF IsSum
  <2>4. SumFunctionOnSet(v, R) = g[R]
    BY <2>2, <2>3, SumIs
  <2>5. g[R \cup {a}] = g[R] + v[a]
    BY <1>1, <2>1 DEF IsSum
  <2> QED
    BY <1>2, <2>1, <2>4, <2>5
<1> QED
  BY <1>1, <1>2, <1>3 DEF IsSum

\* The sum depends on the values in S only.
LEMMA SumCongruence ==
  ASSUME NEW v, NEW w, NEW S, Summable(v, S), \A x \in S : w[x] = v[x]
  PROVE  SumFunctionOnSet(w, S) = SumFunctionOnSet(v, S)
<1>1. PICK g : IsSum(g, v, S)
  BY IsSumExists
<1>2. IsSum(g, w, S) /\ Summable(w, S)
  BY <1>1 DEF IsSum, Summable
<1> QED
  BY <1>1, <1>2, SumIs

\* Changing one value changes the sum by the difference.
LEMMA SumChange ==
  ASSUME NEW S, IsFiniteSet(S), NEW v \in [S -> Int], NEW a \in S, NEW d \in Int,
         NEW w, w = [v EXCEPT ![a] = d]
  PROVE  SumFunction(w) = SumFunction(v) - v[a] + d
<1>1. DOMAIN v = S /\ DOMAIN w = S /\ w[a] = d /\ \A x \in S \ {a} : w[x] = v[x]
  OBVIOUS
<1>2. Summable(v, S) /\ Summable(w, S) /\ Summable(v, S \ {a})
  BY <1>1, FS_Subset DEF Summable
<1>3. SumFunctionOnSet(w, S \ {a}) = SumFunctionOnSet(v, S \ {a})
  BY <1>1, <1>2, SumCongruence
<1>4. /\ SumFunctionOnSet(v, S) = SumFunctionOnSet(v, S \ {a}) + v[a]
      /\ SumFunctionOnSet(w, S) = SumFunctionOnSet(w, S \ {a}) + w[a]
      /\ SumFunctionOnSet(v, S \ {a}) \in Int
  BY <1>2, SumProperties
<1> QED
  BY <1>1, <1>3, <1>4 DEF SumFunction

\* A sum of naturals is a natural and at least each of its terms; of zeroes it is zero.
LEMMA SumOfNaturals ==
  ASSUME NEW S, IsFiniteSet(S), NEW v \in [S -> Nat]
  PROVE  /\ SumFunction(v) \in Nat
         /\ \A a \in S : v[a] =< SumFunction(v)
         /\ (\A x \in S : v[x] = 0) => SumFunction(v) = 0
<1>1. Summable(v, S) /\ DOMAIN v = S
  BY DEF Summable
<1>2. SumFunctionOnSet(v, S) \in Int /\ SumFunctionOnSet(v, S) >= 0
  BY <1>1, SumProperties
<1>3. ASSUME NEW a \in S PROVE v[a] =< SumFunctionOnSet(v, S)
  <2>1. Summable(v, S \ {a}) /\ \A x \in S \ {a} : v[x] >= 0
    BY <1>1, FS_Subset DEF Summable
  <2>2. SumFunctionOnSet(v, S \ {a}) \in Int /\ SumFunctionOnSet(v, S \ {a}) >= 0
    BY <2>1, SumProperties
  <2> QED
    BY <1>1, <2>2, SumProperties
<1>4. ASSUME \A x \in S : v[x] = 0 PROVE SumFunctionOnSet(v, S) = 0
  <2> DEFINE g == [T \in SUBSET S |-> 0]
  <2>1. IsSum(g, v, S)
    BY <1>4 DEF IsSum
  <2> QED
    BY <1>1, <2>1, SumIs
<1> QED
  BY <1>1, <1>2, <1>3, <1>4 DEF SumFunction

\* One element counts one, the others nothing.
LEMMA SumOfPoint ==
  ASSUME NEW S, IsFiniteSet(S), NEW c \in S, NEW w, w = [x \in S |-> IF x = c THEN 1 ELSE 0]
  PROVE  SumFunction(w) = 1
<1>1. DOMAIN w = S /\ w[c] = 1 /\ \A x \in S \ {c} : w[x] = 0
  OBVIOUS
<1>2. Summable(w, S) /\ Summable(w, S \ {c})
  BY <1>1, FS_Subset DEF Summable
<1>3. SumFunctionOnSet(w, S) = SumFunctionOnSet(w, S \ {c}) + w[c]
  BY <1>2, SumProperties
<1>4. SumFunctionOnSet(w, S \ {c}) = 0
  <2> DEFINE g == [T \in SUBSET (S \ {c}) |-> 0]
  <2>1. IsSum(g, w, S \ {c})
    BY <1>1 DEF IsSum
  <2> QED
    BY <1>2, <2>1, SumIs
<1> QED
  BY <1>1, <1>3, <1>4 DEF SumFunction

\* Smaller naturals have a smaller sum.
LEMMA SumMonotone ==
  ASSUME NEW S, IsFiniteSet(S), NEW v \in [S -> Nat], NEW w \in [S -> Nat], \A x \in S : w[x] =< v[x]
  PROVE  SumFunction(w) =< SumFunction(v)
<1> DEFINE d == [x \in S |-> v[x] - w[x]]
<1>1. d \in [S -> Nat] /\ \A x \in S : v[x] = w[x] + d[x] /\ w[x] \in Nat /\ d[x] \in Nat /\ v[x] \in Nat
  OBVIOUS
<1> HIDE DEF d
<1>2. Summable(v, S) /\ Summable(w, S) /\ Summable(d, S) /\ DOMAIN v = S /\ DOMAIN w = S
  BY <1>1 DEF Summable
<1>3. PICK f : IsSum(f, w, S)
  BY <1>2, IsSumExists
<1>4. PICK g : IsSum(g, d, S)
  BY <1>2, IsSumExists
<1> DEFINE h == [T \in SUBSET S |-> f[T] + g[T]]
<1>5. \A T \in SUBSET S : f[T] \in Int /\ g[T] \in Int /\ f[T] >= 0 /\ g[T] >= 0 /\ h[T] = f[T] + g[T]
  BY <1>1, <1>3, <1>4 DEF IsSum
<1>6. h \in [SUBSET S -> Int] /\ h[{}] = 0
  BY <1>3, <1>4, <1>5 DEF IsSum
<1> HIDE DEF h
<1>7. ASSUME NEW T \in SUBSET S, NEW x \in S, x \notin T PROVE h[T \cup {x}] = h[T] + v[x]
  <2>1. T \cup {x} \in SUBSET S
    OBVIOUS
  <2>2. f[T \cup {x}] = f[T] + w[x] /\ g[T \cup {x}] = g[T] + d[x]
    BY <1>3, <1>4, <1>7 DEF IsSum
  <2>3. h[T \cup {x}] = f[T \cup {x}] + g[T \cup {x}]
    BY <1>5, <2>1, Zenon
  <2>4. f[T] \in Int /\ g[T] \in Int /\ h[T] = f[T] + g[T]
    BY <1>5
  <2>5. v[x] = w[x] + d[x] /\ w[x] \in Nat /\ d[x] \in Nat
    BY <1>1
  <2>6. h[T \cup {x}] = (f[T] + w[x]) + (g[T] + d[x])
    BY <2>2, <2>3, Zenon
  <2> QED
    BY <2>4, <2>5, <2>6
<1>8. IsSum(h, v, S)
  BY <1>5, <1>6, <1>7 DEF IsSum
<1>9. SumFunctionOnSet(v, S) = h[S] /\ SumFunctionOnSet(w, S) = f[S]
  BY <1>2, <1>3, <1>8, SumIs
<1> QED
  BY <1>2, <1>5, <1>9 DEF SumFunction
=============================================================================
