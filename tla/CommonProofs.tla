---------------------------- MODULE CommonProofs ----------------------------
(***************************************************************************)
(* Facts the proofs about the contracts share: what binding a name does to *)
(* a map, induction over numbers and finite sets, that functions defined   *)
(* by recursion exist, what sums and quotients do.  Induction is stated    *)
(* over sets: a property is the set of the things that have it.            *)
(***************************************************************************)
EXTENDS Storage, Functions, FiniteSets, FunctionTheorems, FiniteSetTheorems, TLAPS

\* No name is bound in the empty map, put_key of the contracts aside.
LEMMA NoKeysEmpty == DOMAIN NoKeys = {} /\ \A K, V : IsMap(NoKeys, K, V)
BY DEF NoKeys, IsMap

\* put_key binds the name given and leaves the others.
LEMMA PutKeyBinds ==
    ASSUME NEW map, NEW k, NEW v
    PROVE  /\ DOMAIN PutKey(map, k, v) = DOMAIN map \cup {k}
           /\ PutKey(map, k, v)[k] = v
           /\ \A x \in DOMAIN map : x # k => PutKey(map, k, v)[x] = map[x]
BY DEF PutKey

\* put_key keeps a map a map.
LEMMA PutKeyIsMap ==
    ASSUME NEW K, NEW V, NEW map, IsMap(map, K, V), NEW k \in K, NEW v \in V
    PROVE  IsMap(PutKey(map, k, v), K, V)
BY DEF PutKey, IsMap

\* Overwriting a value in place keeps a map a map.
LEMMA UpdateIsMap ==
    ASSUME NEW K, NEW V, NEW map, IsMap(map, K, V), NEW k \in DOMAIN map, NEW v \in V
    PROVE  IsMap([map EXCEPT ![k] = v], K, V)
BY DEF IsMap

-----------------------------------------------------------------------------
\* Induction over the natural numbers.  The numbers up to x that are not in S
\* could be mapped one to one to those but x, each to the one below it.
LEMMA SetInduction ==
    ASSUME NEW S, 0 \in S, \A n \in Nat : n \in S => n + 1 \in S
    PROVE  Nat \subseteq S
<1> SUFFICES ASSUME NEW x \in Nat, x \notin S PROVE FALSE
  OBVIOUS
<1> DEFINE U == (0 .. x) \ S
           V == U \ {x}
           f == [y \in U |-> y - 1]
<1>1. \A y \in U : y \in Nat /\ y # 0 /\ y - 1 \in Nat /\ y - 1 # x /\ y - 1 \in 0 .. x
  BY SMT
<1>2. \A y \in U : y - 1 \notin S
  <2> SUFFICES ASSUME NEW y \in U, y - 1 \in S PROVE FALSE
    OBVIOUS
  <2>1. (y - 1) + 1 \in S
    BY <1>1
  <2> QED
    BY <2>1, <1>1, SMT
<1>3. f \in [U -> V]
  BY <1>1, <1>2
<1>4. f \in Injection(U, V)
  BY <1>1, <1>3, SMT DEF Injection, IsInjective
<1>5. IsFiniteSet(U) /\ IsFiniteSet(V)
  <2>1. IsFiniteSet(0 .. x)
    BY FS_Interval
  <2> QED
    BY <2>1, FS_Subset, Zenon
<1>6. Cardinality(U) <= Cardinality(V)
  <2> HIDE DEF U, V, f
  <2> QED
    BY <1>4, <1>5, FS_Injection
<1>7. Cardinality(V) = Cardinality(U) - 1 /\ Cardinality(U) \in Nat
  <2>1. x \in U
    OBVIOUS
  <2> HIDE DEF U
  <2> QED
    BY <1>5, <2>1, FS_RemoveElement, FS_CardinalityType
<1> HIDE DEF U, V
<1> QED
  BY <1>6, <1>7, SMT

\* The element that a sum takes out of a set next.
Picked(s) == CHOOSE x \in s : TRUE

\* What holds of the empty set, and of a set if of what is left without its
\* first element, holds of every finite set.
LEMMA FiniteInduction ==
    ASSUME NEW S, IsFiniteSet(S), NEW P,
           {} \in P,
           \A s \in SUBSET S : s # {} /\ s \ {Picked(s)} \in P => s \in P
    PROVE  S \in P
<1> DEFINE I == {n \in Nat : \A s \in SUBSET S : Cardinality(s) = n => s \in P}
<1>1. \A s \in SUBSET S : IsFiniteSet(s) /\ Cardinality(s) \in Nat
  BY FS_Subset, FS_CardinalityType
<1>2. 0 \in I
  <2>1. \A s \in SUBSET S : Cardinality(s) = 0 => s = {}
    BY <1>1, FS_EmptySet
  <2> QED BY <2>1
<1>3. ASSUME NEW n \in Nat, n \in I PROVE n + 1 \in I
  <2> SUFFICES ASSUME NEW s \in SUBSET S, Cardinality(s) = n + 1 PROVE s \in P
    OBVIOUS
  <2>1. s # {}
    BY FS_EmptySet
  <2> DEFINE x == Picked(s)
  <2>2. x \in s
    BY <2>1 DEF Picked
  <2> HIDE DEF x
  <2>3. Cardinality(s \ {x}) = Cardinality(s) - 1
    BY <1>1, <2>2, FS_RemoveElement
  <2>4. s \ {x} \in SUBSET S /\ Cardinality(s \ {x}) = n
    BY <2>3
  <2>5. s \ {x} \in P
    BY <1>3, <2>4
  <2> QED
    BY <2>1, <2>5 DEF x
<1>4. Cardinality(S) \in I
  <2> HIDE DEF I
  <2> QED BY <1>1, <1>2, <1>3, SetInduction
<1> QED
  BY <1>4

\* A function defined by what it is at zero and how each value follows from the
\* one before it exists, up to any number.
IsRecursion(f, V, base, n, step) ==
    /\ f \in [0 .. n -> V]
    /\ f[0] = base
    /\ \A k \in 1 .. n : f[k] = step[k][f[k - 1]]

Steps(V, n) == [1 .. n -> [V -> V]]

LEMMA RecursionExists ==
    ASSUME NEW V, NEW base \in V, NEW n \in Nat, NEW step \in Steps(V, n)
    PROVE  \E f : IsRecursion(f, V, base, n, step)
<1> DEFINE Upto(f, m) == f[0] = base /\ \A k \in 1 .. m : f[k] = step[k][f[k - 1]]
           S == {m \in Nat : m <= n => \E f \in [0 .. m -> V] : Upto(f, m)}
<1>1. 0 \in S
  <2> DEFINE f == [k \in 0 .. 0 |-> base]
  <2>1. f \in [0 .. 0 -> V] /\ Upto(f, 0)
    OBVIOUS
  <2> QED BY <2>1
<1>2. ASSUME NEW m \in Nat, m \in S PROVE m + 1 \in S
  <2> SUFFICES ASSUME m + 1 <= n PROVE \E f \in [0 .. m + 1 -> V] : Upto(f, m + 1)
    OBVIOUS
  <2>1. PICK f \in [0 .. m -> V] : Upto(f, m)
    BY <1>2
  <2> DEFINE g == [k \in 0 .. m + 1 |-> IF k <= m THEN f[k] ELSE step[m + 1][f[m]]]
  <2>2. step[m + 1][f[m]] \in V
    BY <2>1 DEF Steps
  <2>3. g \in [0 .. m + 1 -> V]
    BY <2>1, <2>2
  <2>4. ASSUME NEW k \in 1 .. m + 1 PROVE g[k] = step[k][g[k - 1]]
    <3>1. CASE k <= m
      <4>1. g[k] = f[k] /\ g[k - 1] = f[k - 1] /\ k \in 1 .. m
        BY <3>1
      <4> QED BY <2>1, <4>1
    <3>2. CASE k = m + 1
      <4>1. g[k] = step[m + 1][f[m]] /\ g[k - 1] = f[m]
        BY <3>2
      <4> QED BY <3>2, <4>1
    <3> QED BY <3>1, <3>2
  <2>5. g[0] = base
    BY <2>1
  <2> HIDE DEF g
  <2> QED BY <2>3, <2>4, <2>5
<1>3. n \in S
  <2> HIDE DEF S
  <2> QED BY <1>1, <1>2, SetInduction
<1> QED
  BY <1>3 DEF IsRecursion

\* A sum takes out one element after the other.
IsSum(sum, f, S) ==
    \A s \in SUBSET S :
        sum[s] = IF s = {} THEN 0 ELSE f[Picked(s)] + sum[s \ {Picked(s)}]

\* The definition of a sum defines one.
LEMMA SumUnfolds ==
    ASSUME NEW f, IsFiniteSet(DOMAIN f)
    PROVE  \E sum : IsSum(sum, f, DOMAIN f) /\ SumFunction(f) = sum[DOMAIN f]
<1> DEFINE S == DOMAIN f
           Of(sum, s) == IF s = {} THEN 0 ELSE f[Picked(s)] + sum[s \ {Picked(s)}]
           Upto(n) == {s \in SUBSET S : Cardinality(s) <= n}
           Is(sum, T) == sum = [s \in T |-> Of(sum, s)]
           I == {n \in Nat : \E sum : Is(sum, Upto(n))}
<1>1. \A s \in SUBSET S : IsFiniteSet(s) /\ Cardinality(s) \in Nat
  BY FS_Subset, FS_CardinalityType
<1>2. \A s \in SUBSET S : s # {} =>
         /\ Picked(s) \in s /\ s \ {Picked(s)} \in SUBSET S
         /\ Cardinality(s \ {Picked(s)}) = Cardinality(s) - 1
  BY <1>1, FS_RemoveElement DEF Picked
<1>3. 0 \in I
  <2> DEFINE g == [s \in Upto(0) |-> 0]
  <2>1. \A s \in Upto(0) : s = {}
    BY <1>1, FS_EmptySet
  <2>2. Is(g, Upto(0))
    BY <2>1
  <2> HIDE DEF g, Is
  <2> QED BY <2>2
<1>4. ASSUME NEW n \in Nat, n \in I PROVE n + 1 \in I
  <2>1. PICK sum : Is(sum, Upto(n))
    BY <1>4
  <2> DEFINE g == [s \in Upto(n + 1) |-> Of(sum, s)]
  <2>2. \A s \in Upto(n) : s \in Upto(n + 1) /\ g[s] = sum[s]
    <3>1. \A s \in Upto(n) : s \in Upto(n + 1)
      BY <1>1
    <3> HIDE DEF Of, Upto
    <3>2. \A s \in Upto(n) : sum[s] = Of(sum, s)
      BY <2>1
    <3> QED BY <3>1, <3>2
  <2>3. \A s \in Upto(n + 1) : s # {} => s \ {Picked(s)} \in Upto(n)
    BY <1>1, <1>2
  <2>4. \A s \in Upto(n + 1) : Of(g, s) = Of(sum, s)
    <3> HIDE DEF Upto, g
    <3> QED BY <2>2, <2>3
  <2>5. Is(g, Upto(n + 1))
    <3> HIDE DEF Of, Upto
    <3> QED BY <2>4
  <2> HIDE DEF g, Is
  <2> QED BY <2>5
<1>5. Cardinality(S) \in I
  <2> HIDE DEF I
  <2> QED BY <1>1, <1>3, <1>4, SetInduction
<1>6. Upto(Cardinality(S)) = SUBSET S
  BY <1>1, FS_Subset
<1>7. PICK sum : Is(sum, SUBSET S)
  BY <1>5, <1>6
<1> DEFINE it == CHOOSE sum1 : Is(sum1, SUBSET S)
<1>8. SumFunction(f) = it[S]
  BY DEF SumFunction, SumFunctionOnSet, FoldFunctionOnSet, MapThenFoldSet, Picked
<1>9. Is(it, SUBSET S)
  <2> HIDE DEF Is
  <2> QED BY <1>7
<1> HIDE DEF it
<1>10. IsSum(it, f, S)
  BY <1>9 DEF IsSum
<1> QED
  BY <1>8, <1>10

\* A sum of integers is one, and a sum of naturals is one that none of them
\* exceeds.
LEMMA SumType ==
    ASSUME NEW S, IsFiniteSet(S), NEW f \in [S -> Int]
    PROVE  /\ SumFunction(f) \in Int
           /\ f \in [S -> Nat] =>
                 SumFunction(f) \in Nat /\ \A u \in S : f[u] <= SumFunction(f)
<1>1. PICK sum : IsSum(sum, f, S) /\ SumFunction(f) = sum[S]
  BY SumUnfolds
<1> DEFINE P == {s \in SUBSET S :
                   /\ sum[s] \in Int
                   /\ f \in [S -> Nat] => sum[s] \in Nat /\ \A u \in s : f[u] <= sum[s]}
<1>2. {} \in P
  <2>1. sum[{}] = 0
    BY <1>1 DEF IsSum
  <2> QED BY <2>1
<1>3. ASSUME NEW s \in SUBSET S, s # {}, s \ {Picked(s)} \in P PROVE s \in P
  <2> DEFINE x == Picked(s)
             rest == s \ {x}
  <2>1. x \in s /\ x \in S
    BY <1>3 DEF Picked
  <2>2. sum[s] = f[x] + sum[rest]
    BY <1>1, <1>3 DEF IsSum
  <2>3. /\ sum[rest] \in Int
        /\ f \in [S -> Nat] => sum[rest] \in Nat /\ \A u \in rest : f[u] <= sum[rest]
        /\ \A u \in s : u = x \/ u \in rest
    BY <1>3
  <2> HIDE DEF x, rest
  <2>4. sum[s] \in Int
    BY <2>1, <2>2, <2>3
  <2>5. ASSUME f \in [S -> Nat] PROVE sum[s] \in Nat /\ \A u \in s : f[u] <= sum[s]
    BY <2>1, <2>2, <2>3, <2>5
  <2> QED BY <2>4, <2>5
<1>4. S \in P
  <2> HIDE DEF P
  <2> QED BY <1>2, <1>3, FiniteInduction
<1> QED
  BY <1>1, <1>4

\* Sums are linear.
LEMMA SumLinear ==
    ASSUME NEW S, IsFiniteSet(S), NEW c \in Int,
           NEW f \in [S -> Int], NEW g \in [S -> Int], NEW h \in [S -> Int],
           \A u \in S : h[u] = f[u] + c * g[u]
    PROVE  SumFunction(h) = SumFunction(f) + c * SumFunction(g)
<1>1. PICK sf : IsSum(sf, f, S) /\ SumFunction(f) = sf[S]
  BY SumUnfolds
<1>2. PICK sg : IsSum(sg, g, S) /\ SumFunction(g) = sg[S]
  BY SumUnfolds
<1>3. PICK sh : IsSum(sh, h, S) /\ SumFunction(h) = sh[S]
  BY SumUnfolds
<1> DEFINE P == {s \in SUBSET S : /\ sf[s] \in Int /\ sg[s] \in Int
                                  /\ sh[s] = sf[s] + c * sg[s]}
<1>4. {} \in P
  <2>1. sf[{}] = 0 /\ sg[{}] = 0 /\ sh[{}] = 0
    BY <1>1, <1>2, <1>3 DEF IsSum
  <2> QED BY <2>1
<1>5. ASSUME NEW s \in SUBSET S, s # {}, s \ {Picked(s)} \in P PROVE s \in P
  <2> DEFINE x == Picked(s)
             rest == s \ {x}
  <2>1. x \in S
    BY <1>5 DEF Picked
  <2>2. sf[s] = f[x] + sf[rest] /\ sg[s] = g[x] + sg[rest] /\ sh[s] = h[x] + sh[rest]
    BY <1>1, <1>2, <1>3, <1>5 DEF IsSum
  <2>3. sf[rest] \in Int /\ sg[rest] \in Int /\ sh[rest] = sf[rest] + c * sg[rest]
    BY <1>5
  <2>4. f[x] \in Int /\ g[x] \in Int /\ h[x] = f[x] + c * g[x]
    BY <2>1
  <2> HIDE DEF x, rest
  <2>5. c * (g[x] + sg[rest]) = c * g[x] + c * sg[rest] /\ c * g[x] \in Int /\ c * sg[rest] \in Int
    BY <2>3, <2>4, SMT
  <2>6. sh[s] = sf[s] + c * sg[s]
    BY <2>2, <2>3, <2>4, <2>5
  <2> QED BY <2>2, <2>3, <2>4, <2>6
<1>6. S \in P
  <2> HIDE DEF P
  <2> QED BY <1>4, <1>5, FiniteInduction
<1> QED
  BY <1>1, <1>2, <1>3, <1>6

\* A sum moves with the one term that changes.
LEMMA SumAt ==
    ASSUME NEW S, IsFiniteSet(S), NEW u \in S,
           NEW f \in [S -> Int], NEW h \in [S -> Int],
           \A v \in S : v # u => h[v] = f[v]
    PROVE  SumFunction(h) = SumFunction(f) + (h[u] - f[u])
<1>1. PICK sf : IsSum(sf, f, S) /\ SumFunction(f) = sf[S]
  BY SumUnfolds
<1>2. PICK sh : IsSum(sh, h, S) /\ SumFunction(h) = sh[S]
  BY SumUnfolds
<1> DEFINE P == {s \in SUBSET S :
                   /\ sf[s] \in Int
                   /\ sh[s] = IF u \in s THEN sf[s] + (h[u] - f[u]) ELSE sf[s]}
<1>3. {} \in P
  <2>1. sf[{}] = 0 /\ sh[{}] = 0
    BY <1>1, <1>2 DEF IsSum
  <2> QED BY <2>1
<1>4. ASSUME NEW s \in SUBSET S, s # {}, s \ {Picked(s)} \in P PROVE s \in P
  <2> DEFINE x == Picked(s)
             rest == s \ {x}
  <2>1. x \in s /\ x \in S
    BY <1>4 DEF Picked
  <2>2. sf[s] = f[x] + sf[rest] /\ sh[s] = h[x] + sh[rest]
    BY <1>1, <1>2, <1>4 DEF IsSum
  <2>3. sf[rest] \in Int /\ sh[rest] = IF u \in rest THEN sf[rest] + (h[u] - f[u]) ELSE sf[rest]
    BY <1>4
  <2>4. f[x] \in Int /\ h[x] \in Int /\ f[u] \in Int /\ h[u] \in Int /\ (x # u => h[x] = f[x])
    BY <2>1
  <2>5. u \in rest <=> (u \in s /\ u # x)
    OBVIOUS
  <2> HIDE DEF x, rest
  <2>6. CASE u = x
    BY <2>1, <2>2, <2>3, <2>4, <2>5, <2>6
  <2>7. CASE u # x
    BY <2>1, <2>2, <2>3, <2>4, <2>5, <2>7
  <2> QED BY <2>6, <2>7
<1>5. S \in P
  <2> HIDE DEF P
  <2> QED BY <1>3, <1>4, FiniteInduction
<1> QED
  BY <1>1, <1>2, <1>5

\* Nothing adds up to nothing.
LEMMA SumZero ==
    ASSUME NEW S, IsFiniteSet(S), NEW f \in [S -> {0}]
    PROVE  SumFunction(f) = 0
<1>1. f \in [S -> Int] /\ \A u \in S : f[u] = f[u] + 1 * f[u]
  OBVIOUS
<1> DEFINE sum == SumFunction(f)
<1>2. sum = sum + 1 * sum
  BY <1>1, SumLinear
<1>3. sum \in Int
  BY <1>1, SumType
<1> HIDE DEF sum
<1>4. sum = 0
  BY <1>2, <1>3
<1> QED
  BY <1>4 DEF sum

\* Adding one for each element of a set counts them.
LEMMA SumCounts ==
    ASSUME NEW S, IsFiniteSet(S), NEW T \in SUBSET S, NEW f \in [S -> Nat],
           \A x \in S : f[x] = IF x \in T THEN 1 ELSE 0
    PROVE  SumFunction(f) = Cardinality(T)
<1>1. PICK sum : IsSum(sum, f, S) /\ SumFunction(f) = sum[S]
  BY SumUnfolds
<1> DEFINE P == {s \in SUBSET S : sum[s] = Cardinality(s \cap T)}
<1>2. {} \in P
  <2>1. sum[{}] = 0 /\ {} \cap T = {} /\ Cardinality({}) = 0
    BY <1>1, FS_EmptySet DEF IsSum
  <2> QED BY <2>1
<1>3. ASSUME NEW s \in SUBSET S, s # {}, s \ {Picked(s)} \in P PROVE s \in P
  <2> DEFINE x == Picked(s)
             rest == s \ {x}
  <2>1. x \in s /\ x \in S
    BY <1>3 DEF Picked
  <2>2. sum[s] = f[x] + sum[rest] /\ sum[rest] = Cardinality(rest \cap T)
    BY <1>1, <1>3 DEF IsSum
  <2>3. IsFiniteSet(rest \cap T) /\ Cardinality(rest \cap T) \in Nat
    BY FS_Subset, FS_CardinalityType
  <2> HIDE DEF x
  <2>4. ASSUME x \in T PROVE sum[s] = Cardinality(s \cap T)
    <3>1. s \cap T = (rest \cap T) \cup {x} /\ x \notin rest \cap T
      BY <2>1, <2>4
    <3>2. Cardinality(s \cap T) = Cardinality(rest \cap T) + 1
      BY <2>3, <3>1, FS_AddElement
    <3>3. QED
      BY <2>1, <2>2, <2>3, <2>4, <3>2
  <2>5. ASSUME x \notin T PROVE sum[s] = Cardinality(s \cap T)
    <3>1. s \cap T = rest \cap T /\ f[x] = 0
      BY <2>1, <2>5
    <3>2. Cardinality(s \cap T) = Cardinality(rest \cap T)
      BY <3>1
    <3> HIDE DEF rest
    <3>3. QED
      BY <2>2, <2>3, <3>1, <3>2
  <2> QED BY <2>4, <2>5
<1>4. S \in P
  <2> HIDE DEF P
  <2> QED BY <1>2, <1>3, FiniteInduction
<1>5. S \cap T = T
  OBVIOUS
<1> QED
  BY <1>1, <1>4, <1>5

\* Larger terms make a larger sum.
LEMMA SumMonotone ==
    ASSUME NEW S, IsFiniteSet(S), NEW f \in [S -> Int], NEW g \in [S -> Int],
           \A u \in S : f[u] <= g[u]
    PROVE  SumFunction(f) <= SumFunction(g)
<1> DEFINE d == [u \in S |-> g[u] - f[u]]
<1>1. d \in [S -> Nat] /\ d \in [S -> Int] /\ \A u \in S : g[u] = f[u] + 1 * d[u]
  OBVIOUS
<1> HIDE DEF d
<1>2. SumFunction(g) = SumFunction(f) + 1 * SumFunction(d)
  BY <1>1, SumLinear
<1>3. SumFunction(f) \in Int /\ SumFunction(g) \in Int /\ SumFunction(d) \in Nat
  BY <1>1, SumType
<1> QED
  BY <1>2, <1>3

-----------------------------------------------------------------------------
\* A quotient grows with what is divided.
LEMMA DivMono ==
    ASSUME NEW a \in Nat, NEW b \in Nat, NEW n \in Nat \ {0}, a <= b
    PROVE  a \div n <= b \div n
<1>1. /\ a \div n \in Nat /\ b \div n \in Nat
      /\ a % n \in 0 .. n - 1 /\ b % n \in 0 .. n - 1
  BY SMT
<1>2. a = n * (a \div n) + (a % n) /\ b = n * (b \div n) + (b % n)
  BY SMT
<1>3. QED
  BY <1>1, <1>2, SMT

\* A quotient is rounded down.
LEMMA DivBelow ==
    ASSUME NEW a \in Nat, NEW n \in Nat \ {0}
    PROVE  a \div n \in Nat /\ (a \div n) * n <= a
<1>1. a \div n \in Nat /\ a % n \in Nat /\ a = n * (a \div n) + (a % n)
  BY SMT
<1>2. QED
  BY <1>1, SMT

\* By less than one.
LEMMA DivAbove ==
    ASSUME NEW a \in Nat, NEW n \in Nat \ {0}
    PROVE  a <= (a \div n) * n + n
<1>1. a \div n \in Nat /\ a % n \in 0 .. n - 1 /\ a = n * (a \div n) + (a % n)
  BY SMT
<1>2. QED
  BY <1>1, SMT

\* A product grows with its factor.
LEMMA TimesMonotone ==
    ASSUME NEW a \in Nat, NEW b \in Nat, NEW n \in Nat, b >= a
    PROVE  b * n >= a * n
BY SMT
=============================================================================
