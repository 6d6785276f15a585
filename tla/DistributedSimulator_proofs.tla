----------------------- MODULE DistributedSimulator_proofs -----------------------
(* What holds of the granted time windows for every number of ranks, every        *)
(* network of links and every initial list of events: the totals of messages tell *)
(* when none is on its way, no rank receives a message from its past, and none is *)
(* ahead of the others by more than its look-ahead.                               *)
EXTENDS DistributedSimulator, FiniteSetTheorems, TLAPS

--------------------------------------------------------------------------------
(* Sums over finite sets *)

\* A property that {} has, and that a set has if it has it whatever element is taken out,
\* every subset of S has.
LEMMA FiniteInduction ==
  ASSUME NEW S, IsFiniteSet(S), NEW T \in SUBSET SUBSET S, {} \in T,
         \A s \in SUBSET S : (\A x \in s : s \ {x} \in T) /\ s # {} => s \in T
  PROVE  T = SUBSET S
<1> SUFFICES ASSUME (SUBSET S) \ T # {} PROVE FALSE
  OBVIOUS
<1> DEFINE U == (SUBSET S) \ T
           F == FiniteSubsetsOf(S)
           R == StrictSubsetOrdering(S)
<1>1. U \subseteq F /\ U # {}
  BY FS_Subset DEF FiniteSubsetsOf
<1>2. IsWellFoundedOn(R, F)
  BY FS_StrictSubsetOrderingWellFounded
<1>3. PICK s \in U : \A y \in U : ~(<<y, s>> \in R)
  <2> HIDE DEF U, F, R
  <2>1. QED
    BY <1>1, <1>2, WFMin
<1>4. PICK x \in s : s \ {x} \notin T
  OBVIOUS
<1>5. s \ {x} \in U /\ s \in SUBSET S
  BY <1>4
<1>6. <<s \ {x}, s>> \in R
  BY <1>4, <1>5 DEF StrictSubsetOrdering
<1>7. QED
  BY <1>3, <1>5, <1>6

\* f holds the sums of c over the subsets of S.
IsSum(f, c, S) ==
  /\ f \in [SUBSET S -> Int] /\ f[{}] = 0
  /\ \A s \in SUBSET S : \A x \in s : f[s] = c[x] + f[s \ {x}]

\* The equation that defines MapThenFoldSet, for sums.
IsFold(g, c, S) ==
  g = [s \in SUBSET S |-> IF s = {} THEN 0 ELSE c[CHOOSE x \in s : TRUE] + g[s \ {CHOOSE x \in s : TRUE}]]

LEMMA SumExtends ==
  ASSUME NEW S, NEW c, NEW x \in S, c[x] \in Int, \A y \in S : c[y] \in Int,
         NEW g, IsSum(g, c, S \ {x})
  PROVE  \E f : IsSum(f, c, S)
<1> DEFINE f == [s \in SUBSET S |-> IF x \in s THEN c[x] + g[s \ {x}] ELSE g[s]]
<1>1. ASSUME NEW s \in SUBSET S
      PROVE  /\ s \ {x} \in SUBSET (S \ {x}) /\ g[s \ {x}] \in Int
             /\ x \notin s => s \in SUBSET (S \ {x}) /\ g[s] \in Int
             /\ f[s] \in Int
  BY DEF IsSum
<1>2. f \in [SUBSET S -> Int]
  BY <1>1
<1>3. f[{}] = 0
  BY DEF IsSum
<1>4. ASSUME NEW s \in SUBSET S, NEW y \in s PROVE f[s] = c[y] + f[s \ {y}]
  <2>1. s \ {y} \in SUBSET S /\ c[y] \in Int
    OBVIOUS
  <2>2. CASE y = x
    BY <2>1, <2>2
  <2>3. CASE y # x /\ x \in s
    <3>1. (s \ {y}) \ {x} = (s \ {x}) \ {y} /\ y \in s \ {x} /\ x \in s \ {y}
      BY <2>3
    <3>2. g[s \ {x}] = c[y] + g[(s \ {x}) \ {y}]
      BY <1>1, <3>1 DEF IsSum
    <3>3. f[s] = c[x] + g[s \ {x}] /\ f[s \ {y}] = c[x] + g[(s \ {x}) \ {y}]
      BY <2>1, <2>3, <3>1
    <3>4. g[(s \ {x}) \ {y}] \in Int
      BY <1>1, <2>1, <3>1
    <3>5. QED
      BY <2>1, <3>2, <3>3, <3>4
  <2>4. CASE y # x /\ x \notin s
    <3>1. f[s] = g[s] /\ f[s \ {y}] = g[s \ {y}]
      BY <2>1, <2>4
    <3>2. QED
      BY <1>1, <2>4, <3>1 DEF IsSum
  <2>5. QED
    BY <2>2, <2>3, <2>4
<1> HIDE DEF f
<1>5. QED
  BY <1>2, <1>3, <1>4 DEF IsSum

LEMMA SumExists ==
  ASSUME NEW S, IsFiniteSet(S), NEW c, \A x \in S : c[x] \in Int
  PROVE  \E f : IsSum(f, c, S)
<1> DEFINE T == {s \in SUBSET S : \E f : IsSum(f, c, s)}
<1>1. {} \in T
  <2>1. IsSum([s \in SUBSET {} |-> 0], c, {})
    BY DEF IsSum
  <2>2. QED
    BY <2>1
<1>2. ASSUME NEW s \in SUBSET S, NEW x \in s, s \ {x} \in T PROVE s \in T
  <2>1. PICK g : IsSum(g, c, s \ {x})
    BY <1>2
  <2>2. QED
    BY <2>1, SumExtends
<1>3. T = SUBSET S
  <2>1. T \in SUBSET SUBSET S
    OBVIOUS
  <2>2. \A s \in SUBSET S : (\A x \in s : s \ {x} \in T) /\ s # {} => s \in T
    BY <1>2
  <2> HIDE DEF T
  <2>3. QED
    BY <1>1, <2>1, <2>2, FiniteInduction
<1>4. S \in T
  BY <1>3
<1>5. QED
  BY <1>4

LEMMA SumIsFold ==
  ASSUME NEW f, NEW c, NEW S, IsSum(f, c, S)
  PROVE  IsFold(f, c, S)
<1>1. ASSUME NEW s \in SUBSET S
      PROVE  f[s] = IF s = {} THEN 0
                    ELSE c[CHOOSE x \in s : TRUE] + f[s \ {CHOOSE x \in s : TRUE}]
  <2>1. CASE s = {}
    BY <2>1 DEF IsSum
  <2>2. CASE s # {}
    <3>1. (CHOOSE x \in s : TRUE) \in s
      BY <2>2
    <3>2. QED
      BY <2>2, <3>1 DEF IsSum
  <2>3. QED
    BY <2>1, <2>2
<1>2. f = [s \in SUBSET S |-> f[s]]
  BY DEF IsSum
<1>3. QED
  BY <1>1, <1>2 DEF IsFold

\* The equation of the fold has one solution.
LEMMA FoldIsSum ==
  ASSUME NEW S, IsFiniteSet(S), NEW c, NEW f, IsSum(f, c, S), NEW g, IsFold(g, c, S)
  PROVE  g = f
<1> DEFINE T == {s \in SUBSET S : g[s] = f[s]}
           elt(s) == CHOOSE x \in s : TRUE
<1>1. ASSUME NEW s \in SUBSET S
      PROVE  g[s] = IF s = {} THEN 0 ELSE c[elt(s)] + g[s \ {elt(s)}]
  BY DEF IsFold
<1>2. {} \in T
  BY <1>1 DEF IsSum
<1>3. ASSUME NEW s \in SUBSET S, \A x \in s : s \ {x} \in T PROVE s \in T
  <2>1. CASE s = {}
    BY <1>2, <2>1
  <2>2. CASE s # {}
    <3>1. elt(s) \in s
      BY <2>2
    <3>2. g[s] = c[elt(s)] + g[s \ {elt(s)}]
      BY <1>1, <2>2
    <3>3. g[s \ {elt(s)}] = f[s \ {elt(s)}]
      BY <1>3, <3>1
    <3>4. f[s] = c[elt(s)] + f[s \ {elt(s)}]
      BY <3>1 DEF IsSum
    <3>5. QED
      BY <3>2, <3>3, <3>4
  <2>3. QED
    BY <2>1, <2>2
<1>4. T = SUBSET S
  <2>1. T \in SUBSET SUBSET S
    OBVIOUS
  <2> HIDE DEF T
  <2>2. QED
    BY <1>2, <1>3, <2>1, FiniteInduction
<1>5. g = [s \in SUBSET S |-> g[s]] /\ f = [s \in SUBSET S |-> f[s]]
  BY DEF IsFold, IsSum
<1>6. \A s \in SUBSET S : g[s] = f[s]
  BY <1>4
<1>7. QED
  BY <1>5, <1>6

\* The sum of the values of c over S is the last entry of such a table.
LEMMA SumTable ==
  ASSUME NEW S, IsFiniteSet(S), NEW c, \A x \in S : c[x] \in Int, NEW f, IsSum(f, c, S)
  PROVE  SumFunctionOnSet(c, S) = f[S]
<1> DEFINE g == CHOOSE h : IsFold(h, c, S)
<1>1. SumFunctionOnSet(c, S) = g[S]
  BY DEF SumFunctionOnSet, FoldFunctionOnSet, MapThenFoldSet, IsFold
<1>2. IsFold(f, c, S)
  BY SumIsFold
<1>3. IsFold(g, c, S)
  BY <1>2
<1>4. g = f
  BY <1>3, FoldIsSum
<1>5. QED
  BY <1>1, <1>4

LEMMA SumOfNone == \A c : SumFunctionOnSet(c, {}) = 0
<1>1. ASSUME NEW c PROVE SumFunctionOnSet(c, {}) = 0
  <2>1. PICK f : IsSum(f, c, {})
    BY FS_EmptySet, SumExists
  <2>2. SumFunctionOnSet(c, {}) = f[{}]
    BY <2>1, FS_EmptySet, SumTable
  <2>3. QED
    BY <2>1, <2>2 DEF IsSum
<1>2. QED
  BY <1>1

\* One element taken out of the set.
LEMMA SumWithout ==
  ASSUME NEW S, IsFiniteSet(S), NEW c, \A y \in S : c[y] \in Int, NEW x \in S
  PROVE  /\ SumFunctionOnSet(c, S \ {x}) \in Int
         /\ SumFunctionOnSet(c, S) = c[x] + SumFunctionOnSet(c, S \ {x})
<1> DEFINE R == S \ {x}
<1>1. PICK f : IsSum(f, c, S)
  BY SumExists
<1>2. SumFunctionOnSet(c, S) = f[S] /\ f[S] = c[x] + f[R] /\ f[R] \in Int
  <2>1. S \in SUBSET S /\ R \in SUBSET S
    OBVIOUS
  <2>2. f[S] = c[x] + f[R] /\ f[R] \in Int
    BY <1>1, <2>1 DEF IsSum
  <2> HIDE DEF R
  <2>3. QED
    BY <1>1, <2>2, SumTable
<1> DEFINE g == [s \in SUBSET R |-> f[s]]
<1>3. IsSum(g, c, R)
  <2>1. SUBSET R \subseteq SUBSET S /\ {} \in SUBSET R
    OBVIOUS
  <2>2. g \in [SUBSET R -> Int] /\ g[{}] = 0
    BY <1>1, <2>1 DEF IsSum
  <2>3. ASSUME NEW s \in SUBSET R, NEW y \in s PROVE g[s] = c[y] + g[s \ {y}]
    <3>1. s \in SUBSET S /\ s \ {y} \in SUBSET R
      OBVIOUS
    <3>2. f[s] = c[y] + f[s \ {y}]
      BY <1>1, <3>1 DEF IsSum
    <3>3. QED
      BY <3>1, <3>2
  <2> HIDE DEF R, g
  <2>4. QED
    BY <2>2, <2>3 DEF IsSum
<1>4. IsFiniteSet(R) /\ g[R] = f[R] /\ \A y \in R : c[y] \in Int
  BY FS_RemoveElement
<1>5. SumFunctionOnSet(c, R) = g[R]
  <2> HIDE DEF R, g
  <2>1. QED
    BY <1>3, <1>4, SumTable
<1>6. QED
  BY <1>2, <1>4, <1>5

\* Equal values have equal sums.
LEMMA SumSame ==
  ASSUME NEW S, IsFiniteSet(S), NEW c, NEW d, \A x \in S : c[x] \in Int /\ d[x] = c[x]
  PROVE  SumFunctionOnSet(d, S) = SumFunctionOnSet(c, S)
<1>1. PICK f : IsSum(f, c, S)
  BY SumExists
<1>2. IsSum(f, d, S)
  BY <1>1 DEF IsSum
<1>3. QED
  BY <1>1, <1>2, SumTable

\* Numbers that are not negative have no negative sum, and none of them exceeds it.
LEMMA SumOfNaturals ==
  ASSUME NEW S, IsFiniteSet(S), NEW c, \A x \in S : c[x] \in Nat
  PROVE  /\ SumFunctionOnSet(c, S) \in Nat
         /\ \A x \in S : c[x] <= SumFunctionOnSet(c, S)
<1>1. \A x \in S : c[x] \in Int
  OBVIOUS
<1>2. PICK f : IsSum(f, c, S)
  BY <1>1, SumExists
<1> DEFINE T == {s \in SUBSET S : f[s] \in Nat}
<1>3. {} \in T
  BY <1>2 DEF IsSum
<1>4. ASSUME NEW s \in SUBSET S, \A x \in s : s \ {x} \in T, s # {} PROVE s \in T
  <2>1. PICK x : x \in s
    BY <1>4
  <2>2. f[s] = c[x] + f[s \ {x}] /\ c[x] \in Nat /\ f[s \ {x}] \in Nat
    BY <1>2, <1>4, <2>1 DEF IsSum
  <2>3. QED
    BY <2>2
<1>5. T = SUBSET S
  <2>1. T \in SUBSET SUBSET S
    OBVIOUS
  <2> HIDE DEF T
  <2>2. QED
    BY <1>3, <1>4, <2>1, FiniteInduction
<1>6. \A s \in SUBSET S : f[s] \in Nat
  BY <1>5
<1>7. SumFunctionOnSet(c, S) = f[S]
  BY <1>1, <1>2, SumTable
<1>8. ASSUME NEW x \in S PROVE c[x] <= f[S]
  <2>1. f[S] = c[x] + f[S \ {x}] /\ f[S \ {x}] \in Nat /\ c[x] \in Nat
    BY <1>2, <1>6 DEF IsSum
  <2>2. QED
    BY <2>1
<1>9. QED
  BY <1>6, <1>7, <1>8

\* One value changes.
LEMMA SumUpdate ==
  ASSUME NEW S, IsFiniteSet(S), NEW c, DOMAIN c = S, NEW d, DOMAIN d = S,
         \A y \in S : c[y] \in Int /\ d[y] \in Int, NEW x \in S,
         \A y \in S \ {x} : d[y] = c[y]
  PROVE  /\ SumFunction(c) \in Int
         /\ SumFunction(d) = SumFunction(c) - c[x] + d[x]
<1> DEFINE R == S \ {x}
<1>1. /\ DOMAIN c = S /\ DOMAIN d = S /\ d[x] \in Int /\ c[x] \in Int
      /\ \A y \in S : c[y] \in Int /\ d[y] \in Int
      /\ \A y \in R : c[y] \in Int /\ d[y] = c[y]
  OBVIOUS
<1>2. IsFiniteSet(R)
  BY FS_RemoveElement
<1>3. SumFunctionOnSet(c, R) \in Int /\ SumFunctionOnSet(c, S) = c[x] + SumFunctionOnSet(c, R)
  BY <1>1, SumWithout
<1>4. SumFunctionOnSet(d, S) = d[x] + SumFunctionOnSet(d, R)
  BY <1>1, SumWithout
<1> HIDE DEF R
<1>5. SumFunctionOnSet(d, R) = SumFunctionOnSet(c, R)
  BY <1>1, <1>2, SumSame
<1>6. SumFunction(c) = SumFunctionOnSet(c, S) /\ SumFunction(d) = SumFunctionOnSet(d, S)
  BY <1>1 DEF SumFunction
<1>7. QED
  BY <1>1, <1>3, <1>4, <1>5, <1>6

--------------------------------------------------------------------------------
(* Bags: the sum of a bag is the number of its elements *)

FiniteBag(b) == IsFiniteSet(DOMAIN b) /\ b \in [DOMAIN b -> Nat \ {0}]

LEMMA EmptyBagHasNone == FiniteBag(EmptyBag) /\ DOMAIN EmptyBag = {} /\ SumFunction(EmptyBag) = 0
<1>1. DOMAIN EmptyBag = {} /\ EmptyBag \in [DOMAIN EmptyBag -> Nat \ {0}]
  BY DEF EmptyBag, SetToBag
<1>2. SumFunction(EmptyBag) = SumFunctionOnSet(EmptyBag, {})
  BY <1>1 DEF SumFunction
<1>3. QED
  BY <1>1, <1>2, FS_EmptySet, SumOfNone DEF FiniteBag

LEMMA BagCounts ==
  ASSUME NEW b, FiniteBag(b)
  PROVE  /\ SumFunction(b) \in Nat
         /\ SumFunction(b) = 0 => b = EmptyBag
<1>1. IsFiniteSet(DOMAIN b) /\ \A x \in DOMAIN b : b[x] \in Nat /\ b[x] # 0
  BY DEF FiniteBag
<1>2. SumFunction(b) \in Nat /\ \A x \in DOMAIN b : b[x] <= SumFunction(b)
  BY <1>1, SumOfNaturals DEF SumFunction
<1>3. ASSUME SumFunction(b) = 0 PROVE b = EmptyBag
  <2>1. DOMAIN b = {}
    BY <1>1, <1>2, <1>3
  <2>2. b = [x \in {} |-> b[x]]
    BY <2>1 DEF FiniteBag
  <2>3. QED
    BY <2>2 DEF EmptyBag, SetToBag
<1>4. QED
  BY <1>2, <1>3

\* What two finite bags that differ in the copies of x only have in common.
LEMMA RestOfBag ==
  ASSUME NEW b, FiniteBag(b), NEW d, FiniteBag(d), NEW x,
         (DOMAIN d) \ {x} = (DOMAIN b) \ {x}, \A y \in (DOMAIN b) \ {x} : d[y] = b[y]
  PROVE  \E rest \in Int :
           /\ SumFunction(b) = rest + (IF x \in DOMAIN b THEN b[x] ELSE 0)
           /\ SumFunction(d) = rest + (IF x \in DOMAIN d THEN d[x] ELSE 0)
<1> DEFINE D == DOMAIN b
           E == DOMAIN d
           R == D \ {x}
<1>1. /\ IsFiniteSet(D) /\ IsFiniteSet(E) /\ IsFiniteSet(R) /\ R = E \ {x}
      /\ \A y \in D : b[y] \in Int
      /\ \A y \in E : d[y] \in Int
      /\ \A y \in R : b[y] \in Int /\ d[y] = b[y]
  BY FS_RemoveElement DEF FiniteBag
<1>2. SumFunction(b) = SumFunctionOnSet(b, D) /\ SumFunction(d) = SumFunctionOnSet(d, E)
  BY DEF SumFunction
<1> HIDE DEF D, E, R
<1>3. SumFunctionOnSet(d, R) = SumFunctionOnSet(b, R)
  BY <1>1, SumSame
<1>4. SumFunctionOnSet(b, R) \in Int
      /\ SumFunctionOnSet(b, D) = SumFunctionOnSet(b, R) + (IF x \in D THEN b[x] ELSE 0)
  <2>1. CASE x \in D
    <3>1. /\ SumFunctionOnSet(b, D \ {x}) \in Int
          /\ SumFunctionOnSet(b, D) = b[x] + SumFunctionOnSet(b, D \ {x})
      BY <1>1, <2>1, SumWithout
    <3>2. b[x] \in Int
      BY <1>1, <2>1
    <3>3. QED
      BY <2>1, <3>1, <3>2 DEF R
  <2>2. CASE x \notin D
    <3>1. R = D
      BY <2>2 DEF R
    <3>2. SumFunctionOnSet(b, D) \in Nat
      BY <1>2, BagCounts
    <3>3. QED
      BY <2>2, <3>1, <3>2
  <2>3. QED
    BY <2>1, <2>2
<1>5. SumFunctionOnSet(d, E) = SumFunctionOnSet(d, R) + (IF x \in E THEN d[x] ELSE 0)
  <2>1. CASE x \in E
    <3>1. /\ SumFunctionOnSet(d, E \ {x}) \in Int
          /\ SumFunctionOnSet(d, E) = d[x] + SumFunctionOnSet(d, E \ {x})
      BY <1>1, <2>1, SumWithout
    <3>2. d[x] \in Int
      BY <1>1, <2>1
    <3>3. QED
      BY <1>1, <2>1, <3>1, <3>2
  <2>2. CASE x \notin E
    <3>1. R = E
      BY <1>1, <2>2
    <3>2. SumFunctionOnSet(d, E) \in Nat
      BY <1>2, BagCounts
    <3>3. QED
      BY <2>2, <3>1, <3>2
  <2>3. QED
    BY <2>1, <2>2
<1>6. QED
  BY <1>2, <1>3, <1>4, <1>5 DEF D, E

\* One copy more.
LEMMA OneIn ==
  ASSUME NEW b, FiniteBag(b), NEW x, NEW d, d = b (+) SetToBag({x})
  PROVE  FiniteBag(d) /\ DOMAIN d = (DOMAIN b) \cup {x} /\ SumFunction(d) = SumFunction(b) + 1
<1>1. \A y \in DOMAIN b : b[y] \in Nat \ {0}
  BY DEF FiniteBag
<1>2. d = [y \in (DOMAIN b) \cup {x} |-> (IF y \in DOMAIN b THEN b[y] ELSE 0) + (IF y = x THEN 1 ELSE 0)]
  <2>1. SetToBag({x}) = [y \in {x} |-> 1]
    BY DEF SetToBag
  <2>2. QED
    BY <2>1 DEF (+)
<1>3. /\ DOMAIN d = (DOMAIN b) \cup {x}
      /\ \A y \in (DOMAIN b) \ {x} : d[y] = b[y]
      /\ d[x] = (IF x \in DOMAIN b THEN b[x] ELSE 0) + 1
  BY <1>1, <1>2
<1>4. d \in [DOMAIN d -> Nat \ {0}]
  <2>1. ASSUME NEW y \in DOMAIN d PROVE d[y] \in Nat \ {0}
    BY <1>1, <1>3, <2>1
  <2>2. d = [y \in DOMAIN d |-> d[y]]
    BY <1>2
  <2>3. QED
    BY <2>1, <2>2
<1>5. FiniteBag(d)
  <2>1. IsFiniteSet((DOMAIN b) \cup {x})
    BY FS_AddElement DEF FiniteBag
  <2>2. QED
    BY <1>3, <1>4, <2>1 DEF FiniteBag
<1>6. PICK rest \in Int :
        /\ SumFunction(b) = rest + (IF x \in DOMAIN b THEN b[x] ELSE 0)
        /\ SumFunction(d) = rest + (IF x \in DOMAIN d THEN d[x] ELSE 0)
  BY <1>3, <1>5, RestOfBag
<1>7. QED
  BY <1>1, <1>3, <1>5, <1>6

\* One copy less.
LEMMA OneOut ==
  ASSUME NEW b, FiniteBag(b), NEW x \in DOMAIN b, NEW d, d = b (-) SetToBag({x})
  PROVE  FiniteBag(d) /\ DOMAIN d \subseteq DOMAIN b /\ SumFunction(d) = SumFunction(b) - 1
<1>1. \A y \in DOMAIN b : b[y] \in Nat \ {0}
  BY DEF FiniteBag
<1> DEFINE E == {y \in DOMAIN b : y # x \/ b[y] > 1}
<1>2. d = [y \in E |-> IF y = x THEN b[y] - 1 ELSE b[y]]
  <2> DEFINE c == [y \in DOMAIN b |-> IF y = x THEN b[y] - 1 ELSE b[y]]
  <2>1. SetToBag({x}) = [y \in {x} |-> 1]
    BY DEF SetToBag
  <2>2. d = [y \in {z \in DOMAIN c : c[z] > 0} |-> c[y]]
    BY <2>1 DEF (-)
  <2>3. {z \in DOMAIN c : c[z] > 0} = E
    BY <1>1
  <2>4. QED
    BY <2>2, <2>3
<1>3. DOMAIN d = E /\ E \subseteq DOMAIN b /\ (x \in E <=> b[x] > 1)
  BY <1>2
<1>4. d \in [DOMAIN d -> Nat \ {0}]
  <2>1. ASSUME NEW y \in E PROVE (IF y = x THEN b[y] - 1 ELSE b[y]) \in Nat \ {0}
    <3>1. CASE y = x
      BY <1>1, <3>1
    <3>2. CASE y # x
      BY <1>1, <3>2
    <3>3. QED
      BY <3>1, <3>2
  <2> HIDE DEF E
  <2>2. QED
    BY <1>2, <2>1
<1>5. FiniteBag(d)
  BY <1>3, <1>4, FS_Subset DEF FiniteBag
<1>6. /\ (DOMAIN d) \ {x} = (DOMAIN b) \ {x}
      /\ \A y \in (DOMAIN b) \ {x} : d[y] = b[y]
      /\ x \in DOMAIN d => d[x] = b[x] - 1
  BY <1>2, <1>3
<1> HIDE DEF E
<1>7. PICK rest \in Int :
        /\ SumFunction(b) = rest + (IF x \in DOMAIN b THEN b[x] ELSE 0)
        /\ SumFunction(d) = rest + (IF x \in DOMAIN d THEN d[x] ELSE 0)
  BY <1>5, <1>6, RestOfBag
<1>8. QED
  BY <1>1, <1>3, <1>5, <1>6, <1>7

\* None more.
LEMMA NoneIn ==
  ASSUME NEW b, FiniteBag(b)
  PROVE  b (+) SetToBag({}) = b
<1>1. SetToBag({}) = [y \in {} |-> 1]
  BY DEF SetToBag
<1>2. b (+) SetToBag({}) = [y \in DOMAIN b |-> b[y]]
  <2>1. \A y \in DOMAIN b : b[y] + 0 = b[y]
    BY DEF FiniteBag
  <2>2. b (+) SetToBag({}) = [y \in (DOMAIN b) \cup {} |->
                               (IF y \in DOMAIN b THEN b[y] ELSE 0) + 0]
    BY <1>1 DEF (+)
  <2>3. QED
    BY <2>1, <2>2
<1>3. QED
  BY <1>2 DEF FiniteBag

--------------------------------------------------------------------------------
(* Numbers of 32 bits *)

\* A number of 32 bits counts on, or wraps.
LEMMA CountsOn ==
  ASSUME NEW w \in Nat, NEW a \in 0..w - 1, NEW n \in 0..w - 1
  PROVE  (a + n) % w \in {a + n, a + n - w} /\ (a + n) % w \in 0..w - 1
<1>1. w > 0 /\ a + n \in 0..2 * w - 2
  OBVIOUS
<1>2. CASE a + n < w
  BY <1>1, <1>2
<1>3. CASE a + n >= w
  <2>1. a + n = 1 * w + (a + n - w) /\ a + n - w \in 0..w - 1
    BY <1>1, <1>3
  <2>2. (a + n) % w = a + n - w
    BY <1>1, <2>1
  <2>3. QED
    BY <2>1, <2>2
<1>4. QED
  BY <1>1, <1>2, <1>3

LEMMA WrapsMore ==
  ASSUME NEW k \in Int, NEW w \in Int
  PROVE  (k + 1) * w = k * w + w /\ (k - 1) * w = k * w - w /\ k * w \in Int
  OBVIOUS

LEMMA Split ==
  ASSUME NEW x \in Int, NEW w \in Nat, w > 0
  PROVE  \E i \in Int : \E a, l \in Int : a = i * w /\ l = x % w /\ x = a + l
<1>1. x \div w \in Int /\ x = w * (x \div w) + (x % w) /\ x % w \in Int
  OBVIOUS
<1>2. PICK i \in Int : i = x \div w
  BY <1>1
<1>3. w * i = i * w /\ i * w \in Int
  BY <1>2
<1>4. QED
  BY <1>1, <1>2, <1>3

LEMMA Differs ==
  ASSUME NEW x \in Int, NEW y \in Int, NEW p \in Int, NEW a \in Int, NEW b \in Int,
         NEW c \in Int, NEW l \in Int, x = a + l, y = b + l, x - y = p + c
  PROVE  p = a - b - c
  OBVIOUS

LEMMA MultipleBelow ==
  ASSUME NEW w \in Nat, NEW e \in Int, NEW p \in 0..w - 1, p = e * w
  PROVE  p = 0
<1>1. CASE e <= -1
  <2>1. e * w <= (-1) * w
    BY <1>1
  <2>2. QED
    BY <2>1
<1>2. CASE e >= 1
  <2>1. e * w >= 1 * w
    BY <1>2
  <2>2. QED
    BY <2>1
<1>3. CASE e = 0
  BY <1>3
<1>4. QED
  BY <1>1, <1>2, <1>3

\* Totals that agree although they differ by p, less than 2^32, do not differ.
LEMMA TotalsTell ==
  ASSUME NEW w \in Nat, NEW p \in 0..w - 1, NEW k \in Int, NEW x \in Int, NEW y \in Int,
         x - y = p + k * w, x % w = y % w
  PROVE  p = 0
<1>1. w > 0 /\ p \in Int
  OBVIOUS
<1>2. PICK i \in Int : \E a, l \in Int : a = i * w /\ l = x % w /\ x = a + l
  BY <1>1, Split
<1>3. PICK a \in Int, l \in Int : a = i * w /\ l = x % w /\ x = a + l
  BY <1>2
<1>4. PICK j \in Int : \E b, m \in Int : b = j * w /\ m = y % w /\ y = b + m
  BY <1>1, Split
<1>5. PICK b \in Int : b = j * w /\ y = b + l
  BY <1>3, <1>4
<1>6. PICK c \in Int : c = k * w
  BY WrapsMore
<1>7. x - y = p + c
  BY <1>6
<1>8. p = a - b - c
  BY <1>1, <1>3, <1>5, <1>7, Differs
<1>9. a - b - c = (i - j - k) * w
  BY <1>3, <1>5, <1>6
<1>10. i - j - k \in Int
  OBVIOUS
<1>11. QED
  BY <1>8, <1>9, <1>10, MultipleBelow

--------------------------------------------------------------------------------
(* Look-ahead *)

LEMMA RankFacts ==
  /\ IsFiniteSet(Ranks) /\ Ranks # {}
  /\ Infinity \in Nat /\ TwoTo32 \in Nat /\ TwoTo32 > 0 /\ MaxEvents \in Nat
<1>1. Cardinality(Ranks) # 0
  BY RanksAssumption
<1>2. QED
  BY <1>1, RanksAssumption, TimesAssumption, FS_EmptySet

\* A set of natural numbers has a least element.
LEMMA LeastNatural ==
  ASSUME NEW S \in SUBSET Nat, S # {}
  PROVE  Min(S) \in S /\ Min(S) \in Nat /\ \A y \in S : Min(S) <= y
<1> DEFINE R == {p \in Nat \X Nat : p[1] < p[2]}
<1>1. IsWellFoundedOn(R, Nat)
  BY NatLessThanWellFounded DEF OpToRel
<1>2. PICK x \in S : \A y \in S : ~(<<y, x>> \in R)
  BY <1>1, WFMin
<1>3. ASSUME NEW y \in S PROVE x <= y
  <2>1. <<y, x>> \in Nat \X Nat /\ <<y, x>> \notin R
    BY <1>2
  <2>2. ~(<<y, x>>[1] < <<y, x>>[2])
    BY <2>1
  <2>3. QED
    BY <2>2
<1>4. Min(S) \in S /\ \A y \in S : Min(S) <= y
  BY <1>3 DEF Min
<1>5. QED
  BY <1>4

\* A bounded set of natural numbers has a largest element.
LEMMA LargestNatural ==
  ASSUME NEW n \in Nat, NEW S \in SUBSET (0..n), S # {}
  PROVE  Max(S) \in S
<1> DEFINE T == {n - x : x \in S}
<1>1. T \in SUBSET Nat /\ T # {}
  <2>1. \A x \in S : n - x \in Nat
    OBVIOUS
  <2>2. QED
    BY <2>1
<1>2. PICK x \in S : n - x = Min(T)
  BY <1>1, LeastNatural
<1>3. ASSUME NEW y \in S PROVE y <= x
  <2>1. n - y \in T
    OBVIOUS
  <2>2. Min(T) <= n - y
    BY <1>1, <2>1, LeastNatural
  <2>3. x \in Int /\ y \in Int
    OBVIOUS
  <2> HIDE DEF T
  <2>4. QED
    BY <1>2, <2>2, <2>3
<1>4. QED
  BY <1>3 DEF Max

LEMMA OwnLookAheadType ==
  ASSUME NEW r \in Ranks
  PROVE  /\ OwnLookAhead(r) \in 0..Infinity
         /\ \A s \in Neighbours(r) : OwnLookAhead(r) <= Delay[r][s]
<1> DEFINE S == {MaxLookAhead[r]} \cup {Delay[r][s] : s \in Neighbours(r)}
<1>1. S \subseteq 0..Infinity
  <2>1. MaxLookAhead[r] \in 0..Infinity
    BY DelayAssumption
  <2>2. \A s \in Neighbours(r) : Delay[r][s] \in 0..Infinity
    BY DelayAssumption DEF Neighbours
  <2>3. QED
    BY <2>1, <2>2
<1>2. S \in SUBSET Nat /\ S # {}
  BY <1>1
<1>3. \A s \in Neighbours(r) : Delay[r][s] \in S
  OBVIOUS
<1>4. OwnLookAhead(r) = Min(S)
  BY DEF OwnLookAhead
<1> HIDE DEF S
<1>5. Min(S) \in S /\ \A y \in S : Min(S) <= y
  BY <1>2, LeastNatural
<1>6. QED
  BY <1>1, <1>3, <1>4, <1>5

\* No link to a rank is faster than its look-ahead.
LEMMA LookAheadType ==
  ASSUME NEW r \in Ranks
  PROVE  /\ LookAhead(r) \in 0..Infinity
         /\ \A s \in Ranks : r \in Neighbours(s) => LookAhead(r) <= Delay[s][r]
<1> DEFINE S == {0} \cup ({OwnLookAhead(q) : q \in Ranks} \ {Infinity})
<1>1. S \in SUBSET (0..Infinity) /\ S # {}
  BY OwnLookAheadType, RankFacts
<1>2. LargestLookAhead = Max(S)
  BY DEF LargestLookAhead
<1> HIDE DEF S
<1>3. LargestLookAhead \in 0..Infinity
  BY <1>1, <1>2, LargestNatural, RankFacts
<1>4. LookAhead(r) \in 0..Infinity
  BY <1>3, OwnLookAheadType DEF LookAhead
<1>5. ASSUME NEW s \in Ranks, r \in Neighbours(s) PROVE LookAhead(r) <= Delay[s][r]
  <2>1. s \in Neighbours(r) /\ Delay[s][r] = Delay[r][s] /\ Delay[r][s] < Infinity
    BY <1>5, DelayAssumption DEF Neighbours
  <2>2. OwnLookAhead(r) <= Delay[r][s] /\ OwnLookAhead(r) \in Int /\ Delay[r][s] \in Int
    BY <2>1, OwnLookAheadType, DelayAssumption
  <2>3. OwnLookAhead(r) # Infinity
    BY <2>1, <2>2, RankFacts
  <2>4. LookAhead(r) = OwnLookAhead(r)
    BY <2>3 DEF LookAhead
  <2>5. QED
    BY <2>1, <2>2, <2>4
<1>6. QED
  BY <1>4, <1>5

--------------------------------------------------------------------------------
(* The inductive invariant *)

TypeInv ==
  /\ pc \in [Ranks -> {"loop", "gather", "returned"}]
  /\ currentTs \in [Ranks -> Nat] /\ grantedTime \in [Ranks -> Int]
  /\ smallestTime \in [Ranks -> Nat] /\ stop \in [Ranks -> BOOLEAN]
  /\ DOMAIN events = Ranks /\ \A r \in Ranks : Times(r) \subseteq Nat

\* The messages that MPI holds and those in the receive buffers.
BagsInv ==
  /\ FiniteBag(inFlight) /\ \A m \in DOMAIN inFlight : m.to \in Ranks /\ m.ts \in Nat
  /\ DOMAIN arrived = Ranks
  /\ \A r \in Ranks : FiniteBag(arrived[r]) /\ DOMAIN arrived[r] \subseteq Nat

\* No rank has run, or may run, more than its look-ahead beyond t.
Within(t) ==
  \A r \in Ranks : grantedTime[r] <= t + LookAhead(r) /\ currentTs[r] <= t + LookAhead(r)

\* Every time at which something is still to be run bounds all ranks.
WindowInv ==
  /\ \A s \in Ranks : ~stop[s] => \A t \in Times(s) : Within(t)
  /\ \A m \in DOMAIN inFlight : Within(m.ts)
  /\ \A s \in Ranks : \A t \in DOMAIN arrived[s] : Within(t)

\* What a rank is still to receive is no earlier than what it has run or may run.
FutureInv ==
  /\ \A m \in DOMAIN inFlight : grantedTime[m.to] <= m.ts /\ currentTs[m.to] <= m.ts
  /\ \A r \in Ranks : \A t \in DOMAIN arrived[r] : grantedTime[r] <= t /\ currentTs[r] <= t
  /\ \A r \in Ranks : \A t \in Times(r) : currentTs[r] <= t

\* The time in the LbtsMessage of a rank is that of its next event.
GatherInv ==
  \A r \in Ranks : pc[r] = "gather" /\ ~stop[r] => \A t \in Times(r) : smallestTime[r] <= t

\* The counters of the ranks differ by the messages that have not been received, and by
\* the times they have wrapped.
CountInv ==
  /\ rxCount \in [Ranks -> 0..TwoTo32 - 1] /\ txCount \in [Ranks -> 0..TwoTo32 - 1]
  /\ created \in Nat /\ Pending < TwoTo32
  /\ \E k \in Int : SumFunction(txCount) - SumFunction(rxCount) = Pending + k * TwoTo32

IInv == TypeInv /\ BagsInv /\ WindowInv /\ FutureInv /\ GatherInv /\ CountInv

LEMMA SumOfZeros ==
  ASSUME NEW S, IsFiniteSet(S), NEW c, c = [x \in S |-> 0]
  PROVE  SumFunction(c) = 0
<1> DEFINE f == [s \in SUBSET S |-> 0]
<1>1. IsSum(f, c, S)
  BY DEF IsSum
<1>2. \A x \in S : c[x] \in Int
  OBVIOUS
<1>3. f[S] = 0 /\ DOMAIN c = S
  OBVIOUS
<1> HIDE DEF f
<1>4. QED
  BY <1>1, <1>2, <1>3, SumTable DEF SumFunction

LEMMA InitInv == Init => IInv
<1> SUFFICES ASSUME Init PROVE IInv
  OBVIOUS
<1>1. ASSUME NEW r \in Ranks
      PROVE  Starts[r] \subseteq Nat /\ Times(r) = Starts[r] /\ arrived[r] = EmptyBag
  BY DelayAssumption, RankFacts DEF Init, Times, SetToBag
<1>2. ASSUME NEW r \in Ranks, NEW t \in Nat
      PROVE  /\ grantedTime[r] = LookAhead(r) /\ currentTs[r] = 0
             /\ LookAhead(r) <= t + LookAhead(r) /\ 0 <= t + LookAhead(r) /\ 0 <= t
  BY LookAheadType, RankFacts DEF Init
<1>3. TypeInv
  <2>1. \A r \in Ranks : LookAhead(r) \in Int
    BY LookAheadType, RankFacts
  <2>2. QED
    BY <1>1, <2>1 DEF Init, TypeInv
<1>4. BagsInv
  BY EmptyBagHasNone DEF Init, BagsInv
<1>5. WindowInv /\ FutureInv
  <2>1. \A r \in Ranks : \A t \in Times(r) : t \in Nat
    BY <1>1
  <2>2. DOMAIN inFlight = {} /\ \A r \in Ranks : DOMAIN arrived[r] = {}
    BY EmptyBagHasNone DEF Init
  <2>3. \A t \in Nat : Within(t)
    BY <1>2 DEF Within
  <2>4. QED
    BY <1>2, <2>1, <2>2, <2>3 DEF WindowInv, FutureInv
<1>6. GatherInv
  BY DEF Init, GatherInv
<1>7. CountInv
  <2>1. [r \in Ranks |-> SumFunction(arrived[r])] = [r \in Ranks |-> 0]
    BY <1>1, EmptyBagHasNone
  <2>2. Buffered(arrived) = 0 /\ SumFunction(rxCount) = 0 /\ SumFunction(txCount) = 0
    BY <2>1, SumOfZeros, RankFacts DEF Init, Buffered
  <2>3. SumFunction(inFlight) = 0
    BY EmptyBagHasNone DEF Init
  <2>4. Pending = 0 /\ 0 = 0 + 0 * TwoTo32
    BY <2>2, <2>3, RankFacts DEF Pending
  <2>5. SumFunction(txCount) - SumFunction(rxCount) = Pending + 0 * TwoTo32
    BY <2>2, <2>4
  <2>6. QED
    BY <2>4, <2>5, RankFacts DEF Init, CountInv
<1>8. QED
  BY <1>3, <1>4, <1>5, <1>6, <1>7 DEF IInv

LEMMA BagDomains ==
  \A a, b : /\ DOMAIN (a (+) b) = (DOMAIN a) \cup (DOMAIN b)
            /\ DOMAIN (a (-) b) \subseteq DOMAIN a
            /\ DOMAIN SetToBag(a) = a
  BY DEF (+), (-), SetToBag

\* The messages in the receive buffers are no fewer than those in one of them, and when one
\* buffer changes their number changes by as much.
LEMMA BufferCounts ==
  ASSUME NEW a, DOMAIN a = Ranks, \A r \in Ranks : FiniteBag(a[r])
  PROVE  /\ Buffered(a) \in Nat
         /\ \A r \in Ranks : SumFunction(a[r]) \in Nat /\ SumFunction(a[r]) <= Buffered(a)
<1> DEFINE c == [r \in Ranks |-> SumFunction(a[r])]
<1>1. \A r \in Ranks : SumFunction(a[r]) \in Nat
  BY BagCounts
<1>2. DOMAIN c = Ranks /\ \A r \in Ranks : c[r] \in Nat /\ c[r] = SumFunction(a[r])
  BY <1>1
<1>3. Buffered(a) = SumFunction(c)
  BY DEF Buffered
<1> HIDE DEF c
<1>4. SumFunction(c) \in Nat /\ \A r \in Ranks : c[r] <= SumFunction(c)
  BY <1>2, RankFacts, SumOfNaturals DEF SumFunction
<1>5. QED
  BY <1>1, <1>2, <1>3, <1>4

LEMMA BufferUpdate ==
  ASSUME NEW a, NEW d, \A q \in Ranks : FiniteBag(a[q]) /\ FiniteBag(d[q]),
         NEW r \in Ranks, \A q \in Ranks \ {r} : d[q] = a[q]
  PROVE  Buffered(d) = Buffered(a) - SumFunction(a[r]) + SumFunction(d[r])
<1> DEFINE c == [q \in Ranks |-> SumFunction(a[q])]
           e == [q \in Ranks |-> SumFunction(d[q])]
<1>1. \A q \in Ranks : SumFunction(a[q]) \in Nat /\ SumFunction(d[q]) \in Nat
  BY BagCounts
<1>2. /\ DOMAIN c = Ranks /\ DOMAIN e = Ranks
      /\ \A q \in Ranks : c[q] \in Int /\ e[q] \in Int
      /\ \A q \in Ranks \ {r} : e[q] = c[q]
  BY <1>1
<1>3. /\ c[r] = SumFunction(a[r]) /\ e[r] = SumFunction(d[r])
      /\ Buffered(a) = SumFunction(c) /\ Buffered(d) = SumFunction(e)
  BY DEF Buffered
<1> HIDE DEF c, e
<1>4. SumFunction(e) = SumFunction(c) - c[r] + e[r]
  <2>1. IsFiniteSet(Ranks)
    BY RankFacts
  <2>2. QED
    BY <1>2, <2>1, SumUpdate
<1>5. QED
  BY <1>3, <1>4

--------------------------------------------------------------------------------
(* The steps of one rank *)

\* One packet at most, which arrives late enough: what an event that is run within the
\* granted time may send.
LEMMA PacketsOf ==
  ASSUME IInv, NEW r \in Ranks, NEW now \in Nat, Within(now), NEW packets,
         packets \in {{}} \cup {{m} : m \in Sendable(r, now)}
  PROVE  /\ \A m \in packets : /\ m.to \in Ranks \ {r} /\ m.ts \in Nat /\ now <= m.ts
                               /\ grantedTime[m.to] <= m.ts /\ currentTs[m.to] <= m.ts
         /\ FiniteBag(inFlight (+) SetToBag(packets))
         /\ DOMAIN (inFlight (+) SetToBag(packets)) = (DOMAIN inFlight) \cup packets
         /\ \E n \in {0, 1} :
              /\ Cardinality(packets) = n
              /\ SumFunction(inFlight (+) SetToBag(packets)) = SumFunction(inFlight) + n
<1>1. FiniteBag(inFlight)
  BY DEF IInv, BagsInv
<1>2. CASE packets = {}
  <2>1. inFlight (+) SetToBag({}) = inFlight
    BY <1>1, NoneIn
  <2>2. Cardinality({}) = 0 /\ SumFunction(inFlight) \in Nat
    BY <1>1, BagCounts, FS_EmptySet
  <2>3. QED
    BY <1>1, <1>2, <2>1, <2>2
<1>3. CASE packets # {}
  <2>1. PICK m \in Sendable(r, now) : packets = {m}
    BY <1>3
  <2>2. PICK s \in Neighbours(r), tx \in TxTimes : m.to = s /\ m.ts = now + tx + Delay[r][s]
    BY DEF Sendable
  <2>3. s \in Ranks \ {r} /\ s \in Neighbours(r)
    BY DEF Neighbours
  <2>4. LookAhead(s) <= Delay[r][s] /\ LookAhead(s) \in Nat
    BY <2>3, LookAheadType, RankFacts
  <2>5. /\ tx \in Nat /\ Delay[r][s] \in Nat
        /\ grantedTime[s] \in Int /\ currentTs[s] \in Int
    BY <2>3, TimesAssumption, DelayAssumption DEF IInv, TypeInv
  <2>6. grantedTime[s] <= now + LookAhead(s) /\ currentTs[s] <= now + LookAhead(s)
    BY <2>3 DEF Within
  <2>7. /\ m.ts \in Nat /\ now <= m.ts
        /\ grantedTime[s] <= m.ts /\ currentTs[s] <= m.ts
    BY <2>2, <2>4, <2>5, <2>6
  <2>8. /\ FiniteBag(inFlight (+) SetToBag({m}))
        /\ DOMAIN (inFlight (+) SetToBag({m})) = (DOMAIN inFlight) \cup {m}
        /\ SumFunction(inFlight (+) SetToBag({m})) = SumFunction(inFlight) + 1
    BY <1>1, OneIn
  <2>9. Cardinality({m}) = 1
    BY FS_Singleton
  <2>10. QED
    BY <2>3, <2>1, <2>2, <2>7, <2>8, <2>9
<1>4. QED
  BY <1>2, <1>3

\* NextOf is the earliest of a rank's events, unless it has none or was stopped.
LEMMA NextEvent ==
  ASSUME TypeInv, NEW r \in Ranks, ~IsLocalFinished(r)
  PROVE  /\ ~stop[r] /\ NextOf(r) \in Times(r) /\ NextOf(r) \in Nat
         /\ \A t \in Times(r) : NextOf(r) <= t
<1>1. ~stop[r] /\ Times(r) # {} /\ Times(r) \in SUBSET Nat
  BY DEF IsLocalFinished, TypeInv
<1>2. NextOf(r) = Min(Times(r))
  BY <1>1 DEF NextOf, NextTs
<1>3. QED
  BY <1>1, <1>2, LeastNatural

\* What a rank that runs an event adds is no earlier than the event, and its messages are
\* counted.
LEMMA ProcessFacts ==
  ASSUME IInv, NEW r \in Ranks, ProcessOneEvent(r)
  PROVE  LET now == NextOf(r) IN
         /\ pc[r] = "loop" /\ now \in Nat /\ Within(now) /\ now <= grantedTime[r]
         /\ \A t \in Times(r) : now <= t
         /\ currentTs' = [currentTs EXCEPT ![r] = now]
         /\ DOMAIN events' = Ranks
         /\ \A s \in Ranks : \A t \in DOMAIN events'[s] :
              t \in Times(s) \/ (s = r /\ t \in Nat /\ now <= t)
         /\ \A m \in DOMAIN inFlight' :
              m \in DOMAIN inFlight
                \/ (/\ m.to \in Ranks \ {r} /\ m.ts \in Nat /\ now <= m.ts
                    /\ grantedTime[m.to] <= m.ts /\ currentTs[m.to] <= m.ts)
         /\ FiniteBag(inFlight') /\ created' \in Nat /\ Pending' < TwoTo32
         /\ \E n \in {0, 1} :
              /\ SumFunction(inFlight') = SumFunction(inFlight) + n
              /\ txCount' = [txCount EXCEPT ![r] = (txCount[r] + n) % TwoTo32]
<1> DEFINE now == NextOf(r)
<1>1. TypeInv /\ WindowInv /\ CountInv
  BY DEF IInv
<1>2. /\ pc[r] = "loop" /\ ~IsLocalFinished(r) /\ now <= grantedTime[r]
      /\ currentTs' = [currentTs EXCEPT ![r] = now]
  BY DEF ProcessOneEvent
<1>3. /\ ~stop[r] /\ now \in Times(r) /\ now \in Nat
      /\ \A t \in Times(r) : now <= t
  BY <1>1, <1>2, NextEvent
<1>4. Within(now)
  BY <1>1, <1>3 DEF WindowInv
<1>5. PICK delays \in {{}} \cup {{d} : d \in Delays},
           packets \in {{}} \cup {{m} : m \in Sendable(r, now)} :
        /\ created' = created + Cardinality(delays) + Cardinality(packets)
        /\ events' = [events EXCEPT ![r] =
                        @ (-) SetToBag({now}) (+) SetToBag({now + d : d \in delays})]
        /\ inFlight' = inFlight (+) SetToBag(packets)
        /\ txCount' = [txCount EXCEPT ![r] = (@ + Cardinality(packets)) % TwoTo32]
  BY DEF ProcessOneEvent
<1>6. Pending' < TwoTo32
  BY DEF ProcessOneEvent
<1> HIDE DEF now
<1>7. delays \subseteq Nat /\ Cardinality(delays) \in Nat
  <2>1. CASE delays = {}
    BY <2>1, FS_EmptySet
  <2>2. CASE delays # {}
    <3>1. PICK d \in Delays : delays = {d}
      BY <2>2
    <3>2. Cardinality({d}) = 1
      BY FS_Singleton
    <3>3. QED
      BY <3>1, <3>2, TimesAssumption
  <2>3. QED
    BY <2>1, <2>2
<1>8. /\ \A m \in packets : /\ m.to \in Ranks \ {r} /\ m.ts \in Nat /\ now <= m.ts
                            /\ grantedTime[m.to] <= m.ts /\ currentTs[m.to] <= m.ts
      /\ FiniteBag(inFlight (+) SetToBag(packets))
      /\ DOMAIN (inFlight (+) SetToBag(packets)) = (DOMAIN inFlight) \cup packets
      /\ \E n \in {0, 1} :
           /\ Cardinality(packets) = n
           /\ SumFunction(inFlight (+) SetToBag(packets)) = SumFunction(inFlight) + n
  BY <1>3, <1>4, PacketsOf
<1>9. DOMAIN events' = Ranks
  BY <1>1, <1>5 DEF TypeInv
<1>10. ASSUME NEW s \in Ranks, NEW t \in DOMAIN events'[s]
       PROVE  t \in Times(s) \/ (s = r /\ t \in Nat /\ now <= t)
  <2>1. CASE s = r
    <3> DEFINE new == {now + d : d \in delays}
               rest == events[r] (-) SetToBag({now})
    <3>1. events'[r] = rest (+) SetToBag(new)
      BY <1>1, <1>5 DEF TypeInv
    <3>2. DOMAIN rest \subseteq DOMAIN events[r] /\ DOMAIN SetToBag(new) = new
      BY BagDomains
    <3>3. \A x \in new : x \in Nat /\ now <= x
      <4>1. \A d \in delays : d \in Nat
        BY <1>7
      <4>2. \A d \in delays : now + d \in Nat /\ now <= now + d
        BY <1>3, <4>1
      <4>3. QED
        BY <4>2
    <3> HIDE DEF new, rest
    <3>4. DOMAIN events'[r] = DOMAIN rest \cup DOMAIN SetToBag(new)
      BY <3>1, BagDomains
    <3>5. QED
      BY <1>10, <2>1, <3>2, <3>3, <3>4 DEF Times
  <2>2. CASE s # r
    BY <1>1, <1>5, <1>10, <2>2 DEF TypeInv, Times
  <2>3. QED
    BY <2>1, <2>2
<1>11. ASSUME NEW m \in DOMAIN inFlight'
       PROVE  m \in DOMAIN inFlight
                \/ (/\ m.to \in Ranks \ {r} /\ m.ts \in Nat /\ now <= m.ts
                    /\ grantedTime[m.to] <= m.ts /\ currentTs[m.to] <= m.ts)
  BY <1>5, <1>8, <1>11
<1>12. FiniteBag(inFlight')
  BY <1>5, <1>8
<1>13. \E n \in {0, 1} :
         /\ SumFunction(inFlight') = SumFunction(inFlight) + n
         /\ txCount' = [txCount EXCEPT ![r] = (txCount[r] + n) % TwoTo32]
  <2>1. PICK n \in {0, 1} :
          /\ Cardinality(packets) = n
          /\ SumFunction(inFlight (+) SetToBag(packets)) = SumFunction(inFlight) + n
    BY <1>8
  <2>2. txCount' = [txCount EXCEPT ![r] = (txCount[r] + n) % TwoTo32]
    BY <1>5, <2>1
  <2>3. SumFunction(inFlight') = SumFunction(inFlight) + n
    BY <1>5, <2>1
  <2>4. QED
    BY <2>2, <2>3
<1>14. created' \in Nat
  <2>1. PICK n \in {0, 1} : Cardinality(packets) = n
    BY <1>8
  <2>2. created \in Nat
    BY <1>1 DEF CountInv
  <2>3. QED
    BY <1>5, <1>7, <2>1, <2>2
<1>15. QED
  BY <1>2, <1>3, <1>4, <1>6, <1>9, <1>10, <1>11, <1>12, <1>13, <1>14 DEF now

LEMMA SumOverRanks ==
  ASSUME NEW c, DOMAIN c = Ranks, NEW d, DOMAIN d = Ranks,
         \A q \in Ranks : c[q] \in Int /\ d[q] \in Int, NEW r \in Ranks,
         \A q \in Ranks \ {r} : d[q] = c[q]
  PROVE  SumFunction(c) \in Int /\ SumFunction(d) = SumFunction(c) - c[r] + d[r]
<1>1. IsFiniteSet(Ranks)
  BY RankFacts
<1>2. QED
  BY <1>1, SumUpdate

\* The sum of the counters grows by what is counted, or wraps.
LEMMA CountsGrow ==
  ASSUME NEW c \in [Ranks -> 0..TwoTo32 - 1], NEW r \in Ranks, NEW n \in 0..TwoTo32 - 1,
         NEW d, d = [c EXCEPT ![r] = (c[r] + n) % TwoTo32]
  PROVE  /\ d \in [Ranks -> 0..TwoTo32 - 1]
         /\ SumFunction(c) \in Int
         /\ SumFunction(d) \in {SumFunction(c) + n, SumFunction(c) + n - TwoTo32}
<1>1. /\ (c[r] + n) % TwoTo32 \in {c[r] + n, c[r] + n - TwoTo32}
      /\ (c[r] + n) % TwoTo32 \in 0..TwoTo32 - 1
  <2>1. c[r] \in 0..TwoTo32 - 1
    OBVIOUS
  <2>2. QED
    BY <2>1, RankFacts, CountsOn
<1> DEFINE v == (c[r] + n) % TwoTo32
<1>2. v \in {c[r] + n, c[r] + n - TwoTo32} /\ v \in 0..TwoTo32 - 1 /\ d = [c EXCEPT ![r] = v]
  BY <1>1
<1> HIDE DEF v
<1>3. /\ d \in [Ranks -> 0..TwoTo32 - 1] /\ d[r] = v
      /\ \A q \in Ranks \ {r} : d[q] = c[q]
      /\ \A q \in Ranks : c[q] \in Int /\ d[q] \in Int
  BY <1>2, RankFacts
<1>4. SumFunction(c) \in Int /\ SumFunction(d) = SumFunction(c) - c[r] + d[r]
  <2>1. DOMAIN c = Ranks /\ DOMAIN d = Ranks
    BY <1>3
  <2>2. QED
    BY <1>3, <2>1, SumOverRanks
<1>5. QED
  BY <1>2, <1>3, <1>4, RankFacts

LEMMA ProcessKeepsInv == ASSUME IInv, NEW r \in Ranks, ProcessOneEvent(r) PROVE IInv'
<1> DEFINE now == NextOf(r)
<1>1. TypeInv /\ BagsInv /\ WindowInv /\ FutureInv /\ GatherInv /\ CountInv
  BY DEF IInv
<1>2. /\ pc[r] = "loop" /\ now \in Nat /\ Within(now) /\ now <= grantedTime[r]
      /\ \A t \in Times(r) : now <= t
      /\ currentTs' = [currentTs EXCEPT ![r] = now]
      /\ DOMAIN events' = Ranks
      /\ \A s \in Ranks : \A t \in DOMAIN events'[s] :
           t \in Times(s) \/ (s = r /\ t \in Nat /\ now <= t)
      /\ \A m \in DOMAIN inFlight' :
           m \in DOMAIN inFlight
             \/ (/\ m.to \in Ranks \ {r} /\ m.ts \in Nat /\ now <= m.ts
                 /\ grantedTime[m.to] <= m.ts /\ currentTs[m.to] <= m.ts)
      /\ FiniteBag(inFlight') /\ created' \in Nat /\ Pending' < TwoTo32
      /\ \E n \in {0, 1} :
           /\ SumFunction(inFlight') = SumFunction(inFlight) + n
           /\ txCount' = [txCount EXCEPT ![r] = (txCount[r] + n) % TwoTo32]
  BY ProcessFacts
<1>3. /\ UNCHANGED <<pc, grantedTime, rxCount, smallestTime, arrived>>
      /\ stop' \in [Ranks -> BOOLEAN] /\ \A s \in Ranks : ~stop'[s] => ~stop[s]
      /\ \A s \in Ranks \ {r} : events'[s] = events[s]
  BY <1>1 DEF ProcessOneEvent, TypeInv
<1> HIDE DEF now
<1>4. /\ currentTs' \in [Ranks -> Nat] /\ currentTs'[r] = now
      /\ \A q \in Ranks \ {r} : currentTs'[q] = currentTs[q]
  BY <1>1, <1>2 DEF TypeInv
<1>5. TypeInv'
  BY <1>1, <1>2, <1>3, <1>4 DEF TypeInv, Times
<1>6. BagsInv'
  BY <1>1, <1>2, <1>3 DEF BagsInv
<1>7. ASSUME NEW t \in Nat, Within(t) \/ now <= t
      PROVE  Within(t)'
  <2>1. Within(t)
    <3>1. \A q \in Ranks : /\ grantedTime[q] \in Int /\ currentTs[q] \in Int
                           /\ LookAhead(q) \in Int
      BY <1>1, LookAheadType, RankFacts DEF TypeInv
    <3>2. QED
      BY <1>2, <1>7, <3>1 DEF Within
  <2>2. ASSUME NEW q \in Ranks
        PROVE  grantedTime'[q] <= t + LookAhead(q) /\ currentTs'[q] <= t + LookAhead(q)
    <3>1. grantedTime[q] <= t + LookAhead(q) /\ currentTs[q] <= t + LookAhead(q)
      BY <2>1 DEF Within
    <3>2. grantedTime[q] \in Int /\ LookAhead(q) \in Int
      BY <1>1, LookAheadType, RankFacts DEF TypeInv
    <3>3. QED
      BY <1>2, <1>3, <1>4, <3>1, <3>2
  <2>3. QED
    BY <2>2 DEF Within
<1>8. WindowInv'
  <2>1. ASSUME NEW s \in Ranks, ~stop'[s], NEW t \in DOMAIN events'[s] PROVE Within(t)'
    <3>1. t \in Nat /\ (Within(t) \/ now <= t)
      BY <1>1, <1>2, <1>3, <2>1 DEF WindowInv, TypeInv
    <3>2. QED
      BY <1>7, <3>1
  <2>2. ASSUME NEW m \in DOMAIN inFlight' PROVE Within(m.ts)'
    <3>1. m.ts \in Nat /\ (Within(m.ts) \/ now <= m.ts)
      BY <1>1, <1>2, <2>2 DEF WindowInv, BagsInv
    <3>2. QED
      BY <1>7, <3>1
  <2>3. ASSUME NEW s \in Ranks, NEW t \in DOMAIN arrived[s] PROVE Within(t)'
    <3>1. t \in Nat /\ Within(t)
      BY <1>1, <2>3 DEF WindowInv, BagsInv
    <3>2. QED
      BY <1>7, <3>1
  <2>4. QED
    BY <1>3, <2>1, <2>2, <2>3 DEF WindowInv, Times, Within

<1>9. FutureInv'
  <2>1. ASSUME NEW m \in DOMAIN inFlight'
        PROVE  grantedTime'[m.to] <= m.ts /\ currentTs'[m.to] <= m.ts
    <3>1. /\ m.to \in Ranks /\ m.ts \in Nat
          /\ grantedTime[m.to] <= m.ts /\ currentTs[m.to] <= m.ts
      BY <1>1, <1>2, <2>1 DEF FutureInv, BagsInv
    <3>2. CASE m.to = r
      <4>1. grantedTime[r] \in Int /\ now <= m.ts
        BY <1>1, <1>2, <3>1, <3>2 DEF TypeInv
      <4>2. QED
        BY <1>3, <1>4, <3>1, <3>2, <4>1
    <3>3. CASE m.to # r
      BY <1>3, <1>4, <3>1, <3>3
    <3>4. QED
      BY <3>2, <3>3
  <2>2. ASSUME NEW q \in Ranks, NEW t \in DOMAIN arrived[q]
        PROVE  grantedTime[q] <= t /\ currentTs'[q] <= t
    <3>1. t \in Nat /\ grantedTime[q] <= t /\ currentTs[q] <= t /\ grantedTime[q] \in Int
      BY <1>1, <2>2 DEF FutureInv, BagsInv, TypeInv
    <3>2. QED
      BY <1>2, <1>4, <3>1
  <2>3. ASSUME NEW q \in Ranks, NEW t \in DOMAIN events'[q]
        PROVE  currentTs'[q] <= t
    BY <1>1, <1>2, <1>3, <1>4, <2>3 DEF FutureInv, Times
  <2>4. QED
    BY <1>3, <2>1, <2>2, <2>3 DEF FutureInv, Times
<1>10. GatherInv'
  BY <1>1, <1>2, <1>3 DEF GatherInv, Times
<1>11. CountInv'
  <2>1. PICK n \in {0, 1} :
          /\ SumFunction(inFlight') = SumFunction(inFlight) + n
          /\ txCount' = [txCount EXCEPT ![r] = (txCount[r] + n) % TwoTo32]
    BY <1>2
  <2>2. PICK k \in Int : SumFunction(txCount) - SumFunction(rxCount) = Pending + k * TwoTo32
    BY <1>1 DEF CountInv
  <2>3. SumFunction(inFlight) \in Nat /\ Buffered(arrived) \in Nat
    BY <1>1, BagCounts, BufferCounts DEF BagsInv
  <2>4. Pending' = Pending + n /\ Pending \in Nat
    BY <1>3, <2>1, <2>3 DEF Pending
  <2>5. Pending' < TwoTo32
    BY <1>2
  <2>6. n \in 0..TwoTo32 - 1
    BY <2>1, <2>4, <2>5, RankFacts
  <2>7. /\ txCount' \in [Ranks -> 0..TwoTo32 - 1] /\ SumFunction(txCount) \in Int
        /\ SumFunction(txCount') \in {SumFunction(txCount) + n,
                                      SumFunction(txCount) + n - TwoTo32}
    BY <1>1, <2>1, <2>6, CountsGrow DEF CountInv
  <2>8. SumFunction(rxCount) \in Int /\ rxCount' = rxCount
    <3>1. 0 \in 0..TwoTo32 - 1
      BY RankFacts
    <3>2. QED
      BY <1>1, <1>3, <3>1, CountsGrow DEF CountInv
  <2>9. \E j \in {k, k - 1} :
          SumFunction(txCount') - SumFunction(rxCount') = Pending' + j * TwoTo32
    <3>1. (k - 1) * TwoTo32 = k * TwoTo32 - TwoTo32 /\ k * TwoTo32 \in Int
      BY RankFacts, WrapsMore
    <3>2. CASE SumFunction(txCount') = SumFunction(txCount) + n
      BY <2>1, <2>2, <2>4, <2>7, <2>8, <3>1, <3>2
    <3>3. CASE SumFunction(txCount') = SumFunction(txCount) + n - TwoTo32
      <4>1. SumFunction(txCount') - SumFunction(rxCount') = Pending' + (k - 1) * TwoTo32
        BY <2>1, <2>2, <2>4, <2>7, <2>8, <3>1, <3>3, RankFacts
      <4>2. QED
        BY <4>1
    <3>4. QED
      BY <2>7, <3>2, <3>3
  <2>10. QED
    BY <1>1, <1>2, <1>3, <2>5, <2>7, <2>9 DEF CountInv
<1>12. QED
  BY <1>5, <1>6, <1>8, <1>9, <1>10, <1>11 DEF IInv

LEMMA SynchronizeKeepsInv == ASSUME IInv, NEW r \in Ranks, Synchronize(r) PROVE IInv'
<1> DEFINE all == events[r] (+) arrived[r]
<1>1. TypeInv /\ BagsInv /\ WindowInv /\ FutureInv /\ GatherInv /\ CountInv
  BY DEF IInv
<1>2. /\ events' = [events EXCEPT ![r] = all]
      /\ arrived' = [arrived EXCEPT ![r] = EmptyBag]
      /\ rxCount' = [rxCount EXCEPT ![r] = (rxCount[r] + SumFunction(arrived[r])) % TwoTo32]
      /\ smallestTime' = [smallestTime EXCEPT ![r] = NextTs(DOMAIN all, stop[r])]
      /\ pc' = [pc EXCEPT ![r] = "gather"]
      /\ UNCHANGED <<currentTs, stop, grantedTime, txCount, inFlight, created>>
  BY DEF Synchronize, BagToSet
<1>3. DOMAIN all = Times(r) \cup DOMAIN arrived[r]
  BY BagDomains DEF Times
<1>4. DOMAIN all \in SUBSET Nat
  BY <1>1, <1>3 DEF TypeInv, BagsInv
<1> HIDE DEF all
<1>5. /\ DOMAIN events' = Ranks /\ events'[r] = all
      /\ \A s \in Ranks \ {r} : events'[s] = events[s]
  BY <1>1, <1>2 DEF TypeInv
<1>6. /\ DOMAIN arrived' = Ranks /\ arrived'[r] = EmptyBag
      /\ \A s \in Ranks \ {r} : arrived'[s] = arrived[s]
  BY <1>1, <1>2 DEF BagsInv
<1>7. FiniteBag(EmptyBag) /\ DOMAIN EmptyBag = {} /\ SumFunction(EmptyBag) = 0
  BY EmptyBagHasNone
<1>8. /\ NextTs(DOMAIN all, stop[r]) \in Nat
      /\ ~stop[r] => \A t \in DOMAIN all : NextTs(DOMAIN all, stop[r]) <= t
  <2>1. CASE DOMAIN all = {} \/ stop[r]
    BY <2>1, RankFacts DEF NextTs
  <2>2. CASE DOMAIN all # {} /\ ~stop[r]
    <3>1. NextTs(DOMAIN all, stop[r]) = Min(DOMAIN all)
      BY <2>2 DEF NextTs
    <3>2. QED
      BY <1>4, <2>2, <3>1, LeastNatural
  <2>3. QED
    BY <2>1, <2>2
<1>9. TypeInv'
  BY <1>1, <1>2, <1>4, <1>5, <1>8 DEF TypeInv, Times
<1>10. \A s \in Ranks : FiniteBag(arrived'[s]) /\ DOMAIN arrived'[s] \subseteq DOMAIN arrived[s]
  BY <1>1, <1>6, <1>7 DEF BagsInv
<1>11. BagsInv'
  BY <1>1, <1>2, <1>6, <1>10 DEF BagsInv
<1>12. \A s \in Ranks : \A t \in DOMAIN events'[s] :
         t \in Times(s) \/ (s = r /\ t \in DOMAIN arrived[r])
  BY <1>3, <1>5 DEF Times
<1>13. WindowInv' /\ FutureInv'
  <2>1. \A t \in Nat : Within(t)' <=> Within(t)
    BY <1>2 DEF Within
  <2>2. ASSUME NEW s \in Ranks, NEW t \in DOMAIN events'[s]
        PROVE  currentTs[s] <= t /\ (~stop[s] => Within(t))
    BY <1>1, <1>12, <2>2 DEF WindowInv, FutureInv
  <2>3. ASSUME NEW s \in Ranks, NEW t \in DOMAIN arrived'[s]
        PROVE  grantedTime[s] <= t /\ currentTs[s] <= t /\ Within(t)
    BY <1>1, <1>10, <2>3 DEF WindowInv, FutureInv
  <2>4. WindowInv'
    BY <1>1, <1>2, <2>2, <2>3 DEF WindowInv, Times, Within
  <2>5. FutureInv'
    BY <1>1, <1>2, <2>2, <2>3 DEF FutureInv, Times
  <2>6. QED
    BY <2>4, <2>5
<1>14. GatherInv'
  <2>1. ASSUME NEW s \in Ranks, pc'[s] = "gather", ~stop[s], NEW t \in DOMAIN events'[s]
        PROVE  smallestTime'[s] <= t
    <3>1. CASE s = r
      BY <1>1, <1>2, <1>5, <1>8, <2>1, <3>1 DEF TypeInv
    <3>2. CASE s # r
      BY <1>1, <1>2, <1>5, <2>1, <3>2 DEF TypeInv, GatherInv, Times
    <3>3. QED
      BY <3>1, <3>2
  <2>2. QED
    BY <1>2, <2>1 DEF GatherInv, Times
<1>15. CountInv'
  <2> DEFINE n == SumFunction(arrived[r])
  <2>1. PICK k \in Int : SumFunction(txCount) - SumFunction(rxCount) = Pending + k * TwoTo32
    BY <1>1 DEF CountInv
  <2>2. /\ SumFunction(inFlight) \in Nat /\ Buffered(arrived) \in Nat
        /\ n \in Nat /\ n <= Buffered(arrived)
    BY <1>1, BagCounts, BufferCounts DEF BagsInv
  <2>3. Buffered(arrived') = Buffered(arrived) - n + SumFunction(arrived'[r])
    <3>1. \A q \in Ranks : FiniteBag(arrived[q]) /\ FiniteBag(arrived'[q])
      BY <1>1, <1>10 DEF BagsInv
    <3>2. QED
      BY <1>6, <3>1, BufferUpdate
  <2>4. rxCount' = [rxCount EXCEPT ![r] = (rxCount[r] + n) % TwoTo32]
    BY <1>2
  <2> HIDE DEF n
  <2>5. Pending \in Nat /\ n <= Pending /\ Pending' = Pending - n
    BY <1>2, <1>6, <1>7, <2>2, <2>3 DEF Pending
  <2>6. Pending < TwoTo32 /\ n \in 0..TwoTo32 - 1
    BY <1>1, <2>2, <2>5, RankFacts DEF CountInv
  <2>7. /\ rxCount' \in [Ranks -> 0..TwoTo32 - 1] /\ SumFunction(rxCount) \in Int
        /\ SumFunction(rxCount') \in {SumFunction(rxCount) + n,
                                      SumFunction(rxCount) + n - TwoTo32}
    BY <1>1, <2>4, <2>6, CountsGrow DEF CountInv
  <2>8. SumFunction(txCount) \in Int /\ txCount' = txCount
    <3>1. 0 \in 0..TwoTo32 - 1
      BY RankFacts
    <3>2. QED
      BY <1>1, <1>2, <3>1, CountsGrow DEF CountInv
  <2>9. \E j \in {k, k + 1} :
          SumFunction(txCount') - SumFunction(rxCount') = Pending' + j * TwoTo32
    <3>1. (k + 1) * TwoTo32 = k * TwoTo32 + TwoTo32 /\ k * TwoTo32 \in Int
      BY RankFacts, WrapsMore
    <3>2. CASE SumFunction(rxCount') = SumFunction(rxCount) + n
      BY <2>1, <2>2, <2>5, <2>7, <2>8, <3>1, <3>2
    <3>3. CASE SumFunction(rxCount') = SumFunction(rxCount) + n - TwoTo32
      <4>1. SumFunction(txCount') - SumFunction(rxCount') = Pending' + (k + 1) * TwoTo32
        BY <2>1, <2>2, <2>5, <2>7, <2>8, <3>1, <3>3, RankFacts
      <4>2. QED
        BY <4>1
    <3>4. QED
      BY <2>7, <3>2, <3>3
  <2>10. Pending' < TwoTo32
    BY <2>2, <2>5, <2>6, RankFacts
  <2>11. QED
    BY <1>1, <1>2, <2>7, <2>8, <2>9, <2>10 DEF CountInv
<1>16. QED
  BY <1>9, <1>11, <1>13, <1>14, <1>15 DEF IInv

--------------------------------------------------------------------------------
(* The steps between ranks *)

LEMMA DeliverKeepsInv == ASSUME IInv, NEW m \in BagToSet(inFlight), Deliver(m) PROVE IInv'
<1> DEFINE r == m.to
           buffer == arrived[r] (+) SetToBag({m.ts})
<1>1. TypeInv /\ BagsInv /\ WindowInv /\ FutureInv /\ GatherInv /\ CountInv
  BY DEF IInv
<1>2. /\ inFlight' = inFlight (-) SetToBag({m})
      /\ arrived' = [arrived EXCEPT ![r] = buffer]
      /\ UNCHANGED <<pc, events, currentTs, stop, grantedTime, rxCount, txCount, smallestTime,
                     created>>
  BY DEF Deliver
<1>3. m \in DOMAIN inFlight
  BY DEF BagToSet
<1>4. r \in Ranks /\ m.ts \in Nat /\ FiniteBag(inFlight) /\ FiniteBag(arrived[r])
  BY <1>1, <1>3 DEF BagsInv
<1>5. /\ FiniteBag(inFlight') /\ DOMAIN inFlight' \subseteq DOMAIN inFlight
      /\ SumFunction(inFlight') = SumFunction(inFlight) - 1
  BY <1>2, <1>3, <1>4, OneOut
<1>6. /\ FiniteBag(buffer) /\ DOMAIN buffer = (DOMAIN arrived[r]) \cup {m.ts}
      /\ SumFunction(buffer) = SumFunction(arrived[r]) + 1
  BY <1>4, OneIn
<1> HIDE DEF buffer
<1>7. /\ DOMAIN arrived' = Ranks /\ arrived'[r] = buffer
      /\ \A s \in Ranks \ {r} : arrived'[s] = arrived[s]
  BY <1>1, <1>2, <1>4 DEF BagsInv
<1>8. \A s \in Ranks : \A t \in DOMAIN arrived'[s] :
        t \in DOMAIN arrived[s] \/ (s = r /\ t = m.ts)
  BY <1>6, <1>7
<1> HIDE DEF r
<1>9. TypeInv'
  BY <1>1, <1>2 DEF TypeInv, Times
<1>10. \A s \in Ranks : FiniteBag(arrived'[s]) /\ DOMAIN arrived'[s] \subseteq Nat
  BY <1>1, <1>4, <1>6, <1>7 DEF BagsInv
<1>11. BagsInv'
  BY <1>1, <1>5, <1>7, <1>10 DEF BagsInv
<1>12. WindowInv' /\ FutureInv'
  <2>1. Within(m.ts) /\ grantedTime[r] <= m.ts /\ currentTs[r] <= m.ts
    BY <1>1, <1>3 DEF WindowInv, FutureInv, r
  <2>2. ASSUME NEW s \in Ranks, NEW t \in DOMAIN arrived'[s]
        PROVE  Within(t) /\ grantedTime[s] <= t /\ currentTs[s] <= t
    BY <1>1, <1>8, <2>1, <2>2 DEF WindowInv, FutureInv
  <2>3. WindowInv'
    BY <1>1, <1>2, <1>5, <2>2 DEF WindowInv, Times, Within
  <2>4. FutureInv'
    BY <1>1, <1>2, <1>5, <2>2 DEF FutureInv, Times
  <2>5. QED
    BY <2>3, <2>4
<1>13. GatherInv'
  BY <1>1, <1>2 DEF GatherInv, Times
<1>14. CountInv'
  <2>1. /\ SumFunction(inFlight) \in Nat /\ Buffered(arrived) \in Nat
        /\ SumFunction(arrived[r]) \in Nat
    BY <1>1, <1>4, BagCounts, BufferCounts DEF BagsInv
  <2>2. Buffered(arrived') = Buffered(arrived) - SumFunction(arrived[r]) + SumFunction(arrived'[r])
    <3>1. \A q \in Ranks : FiniteBag(arrived[q]) /\ FiniteBag(arrived'[q])
      BY <1>1, <1>10 DEF BagsInv
    <3>2. QED
      BY <1>4, <1>7, <3>1, BufferUpdate
  <2>3. Pending' = Pending
    BY <1>5, <1>6, <1>7, <2>1, <2>2 DEF Pending
  <2>4. QED
    BY <1>1, <1>2, <2>3 DEF CountInv
<1>15. QED
  BY <1>9, <1>11, <1>12, <1>13, <1>14 DEF IInv

\* When the totals agree no message is on its way: fewer than 2^32 may be.
LEMMA NonePending ==
  ASSUME IInv, CountsAgree
  PROVE  inFlight = EmptyBag /\ \A r \in Ranks : arrived[r] = EmptyBag
<1>1. BagsInv /\ CountInv
  BY DEF IInv
<1>2. /\ FiniteBag(inFlight) /\ DOMAIN arrived = Ranks
      /\ \A r \in Ranks : FiniteBag(arrived[r])
  BY <1>1 DEF BagsInv
<1>3. /\ SumFunction(inFlight) \in Nat /\ Buffered(arrived) \in Nat
      /\ \A r \in Ranks : SumFunction(arrived[r]) \in Nat /\ SumFunction(arrived[r]) <= Buffered(arrived)
  BY <1>2, BagCounts, BufferCounts
<1>4. Pending \in 0..TwoTo32 - 1
  BY <1>1, <1>3, RankFacts DEF CountInv, Pending
<1>5. SumFunction(txCount) \in Int /\ SumFunction(rxCount) \in Int
  <2>1. 0 \in 0..TwoTo32 - 1
    BY RankFacts
  <2>2. \A r \in Ranks : txCount \in [Ranks -> 0..TwoTo32 - 1] /\ rxCount \in [Ranks -> 0..TwoTo32 - 1]
    BY <1>1 DEF CountInv
  <2>3. QED
    BY <2>1, <2>2, RankFacts, CountsGrow
<1>6. PICK k \in Int : SumFunction(txCount) - SumFunction(rxCount) = Pending + k * TwoTo32
  BY <1>1 DEF CountInv
<1>7. SumFunction(txCount) % TwoTo32 = SumFunction(rxCount) % TwoTo32
  BY DEF CountsAgree, Total
<1>8. Pending = 0
  BY <1>4, <1>5, <1>6, <1>7, RankFacts, TotalsTell
<1>9. SumFunction(inFlight) = 0 /\ \A r \in Ranks : SumFunction(arrived[r]) = 0
  BY <1>3, <1>8 DEF Pending
<1>10. QED
  BY <1>2, <1>9, BagCounts

\* A rank may run up to the earliest next time of any rank and its look-ahead beyond.
LEMMA GrantedBound ==
  ASSUME TypeInv, CountsAgree, NEW r \in Ranks
  PROVE  /\ Granted(r) \in Int
         /\ \A s \in Ranks : \A t \in Nat : smallestTime[s] <= t => Granted(r) <= t + LookAhead(r)
<1> DEFINE least == Min(Range(smallestTime))
<1>1. /\ \A s \in Ranks : smallestTime[s] \in Range(smallestTime)
      /\ Range(smallestTime) \in SUBSET Nat /\ Range(smallestTime) # {}
  BY RankFacts DEF TypeInv, Range
<1>2. least \in Nat /\ \A s \in Ranks : least <= smallestTime[s] /\ smallestTime[s] \in Nat
  BY <1>1, LeastNatural
<1>3. LookAhead(r) \in Nat /\ Infinity \in Nat
  BY LookAheadType, RankFacts
<1>4. CASE LookAhead(r) = Infinity
  <2>1. Granted(r) = Infinity
    BY <1>4 DEF Granted
  <2>2. QED
    BY <1>3, <1>4, <2>1
<1>5. CASE LookAhead(r) # Infinity
  <2>1. Granted(r) = Wrapped(least + LookAhead(r))
    BY <1>5 DEF Granted
  <2> HIDE DEF least
  <2>2. /\ Wrapped(least + LookAhead(r)) \in Int
        /\ Wrapped(least + LookAhead(r)) <= least + LookAhead(r)
    BY <1>2, <1>3 DEF Wrapped
  <2>3. QED
    BY <1>2, <1>3, <2>1, <2>2
<1>6. QED
  BY <1>4, <1>5

LEMMA AllgatherKeepsInv == ASSUME IInv, Allgather PROVE IInv'
<1>1. TypeInv /\ BagsInv /\ WindowInv /\ FutureInv /\ GatherInv /\ CountInv
  BY DEF IInv
<1>2. /\ \A r \in Ranks : pc[r] = "gather"
      /\ grantedTime' = [r \in Ranks |-> Granted(r)]
      /\ UNCHANGED <<events, currentTs, stop, rxCount, txCount, smallestTime, inFlight, arrived,
                     created>>
  BY DEF Allgather
<1>3. /\ pc' \in [Ranks -> {"loop", "gather", "returned"}]
      /\ \A r \in Ranks : pc'[r] # "gather"
  BY DEF Allgather
<1>4. \A r \in Ranks : grantedTime'[r] = Granted(r) /\ Granted(r) \in Int
  <2>1. ASSUME NEW r \in Ranks PROVE Granted(r) \in Int
    <3>1. CASE CountsAgree
      BY <1>1, <3>1, GrantedBound
    <3>2. CASE ~CountsAgree
      BY <1>1, <3>2 DEF Granted, TypeInv
    <3>3. QED
      BY <3>1, <3>2
  <2>2. QED
    BY <1>2, <2>1
<1>5. TypeInv'
  <2>1. grantedTime' \in [Ranks -> Int]
    BY <1>2, <1>4
  <2>2. QED
    BY <1>1, <1>2, <1>3, <2>1 DEF TypeInv, Times
<1>6. BagsInv' /\ GatherInv'
  BY <1>1, <1>2, <1>3 DEF BagsInv, GatherInv
<1>7. CountInv'
  BY <1>1, <1>2 DEF CountInv, Pending
<1>8. WindowInv' /\ FutureInv'
  <2>1. CASE CountsAgree
    <3>1. DOMAIN inFlight = {} /\ \A r \in Ranks : DOMAIN arrived[r] = {}
      BY <2>1, NonePending, EmptyBagHasNone
    <3>2. ASSUME NEW s \in Ranks, ~stop[s], NEW t \in Times(s), NEW r \in Ranks
          PROVE  grantedTime'[r] <= t + LookAhead(r) /\ currentTs'[r] <= t + LookAhead(r)
      <4>1. smallestTime[s] <= t /\ t \in Nat
        BY <1>1, <1>2, <3>2 DEF GatherInv, TypeInv
      <4>2. Granted(r) <= t + LookAhead(r)
        BY <1>1, <2>1, <4>1, GrantedBound
      <4>3. currentTs[r] <= t + LookAhead(r)
        BY <1>1, <3>2 DEF WindowInv, Within
      <4>4. QED
        BY <1>2, <1>4, <4>2, <4>3
    <3>3. WindowInv'
      BY <1>2, <3>1, <3>2 DEF WindowInv, Within, Times
    <3>4. FutureInv'
      BY <1>1, <1>2, <3>1 DEF FutureInv, Times
    <3>5. QED
      BY <3>3, <3>4
  <2>2. CASE ~CountsAgree
    <3>1. \A r \in Ranks : grantedTime'[r] = grantedTime[r]
      BY <1>4, <2>2 DEF Granted
    <3>2. WindowInv'
      BY <1>1, <1>2, <3>1 DEF WindowInv, Within, Times
    <3>3. FutureInv'
      BY <1>1, <1>2, <3>1 DEF FutureInv, BagsInv, Times
    <3>4. QED
      BY <3>2, <3>3
  <2>3. QED
    BY <2>1, <2>2
<1>9. QED
  BY <1>5, <1>6, <1>7, <1>8 DEF IInv

LEMMA NextKeepsInv == IInv /\ [Next]_vars => IInv'
<1> SUFFICES ASSUME IInv, [Next]_vars PROVE IInv'
  OBVIOUS
<1>1. CASE \E r \in Ranks : RankStep(r)
  BY <1>1, ProcessKeepsInv, SynchronizeKeepsInv DEF RankStep
<1>2. CASE \E m \in BagToSet(inFlight) : Deliver(m)
  BY <1>2, DeliverKeepsInv
<1>3. CASE Allgather
  BY <1>3, AllgatherKeepsInv
<1>4. CASE UNCHANGED vars
  BY <1>4 DEF vars, IInv, TypeInv, BagsInv, WindowInv, Within, FutureInv, GatherInv, CountInv,
     Pending, Times
<1>5. QED
  BY <1>1, <1>2, <1>3, <1>4 DEF Next

--------------------------------------------------------------------------------
(* The theorems *)

\* In every reachable state the inductive invariant holds.
THEOREM IInvHolds == Spec => []IInv
<1>1. Init => IInv
  BY InitInv
<1>2. IInv /\ [Next]_vars => IInv'
  BY NextKeepsInv
<1>3. QED
  BY <1>1, <1>2, PTL DEF Spec

\* No rank receives a message from its past: the assertion of ProcessOneEvent that no event
\* is earlier than the clock (distributed-simulator-impl.cc, NS_ASSERT of ProcessOneEvent)
\* cannot fail.
THEOREM NoneInThePastHolds == Spec => []NoneInThePast
<1>1. IInv => NoneInThePast
  <2> SUFFICES ASSUME IInv PROVE NoneInThePast
    OBVIOUS
  <2>1. TypeInv /\ BagsInv /\ FutureInv
    BY DEF IInv
  <2>2. \A m \in BagToSet(inFlight) : m.ts >= currentTs[m.to]
    BY <2>1 DEF TypeInv, BagsInv, FutureInv, BagToSet
  <2>3. ASSUME NEW r \in Ranks, NEW t \in Times(r) \cup BagToSet(arrived[r])
        PROVE  t >= currentTs[r]
    BY <2>1, <2>3 DEF TypeInv, BagsInv, FutureInv, BagToSet
  <2>4. QED
    BY <2>2, <2>3 DEF NoneInThePast
<1>2. QED
  BY <1>1, IInvHolds, PTL

\* No rank runs further ahead of what any rank has still to run or to receive than its
\* look-ahead: what CalculateLookAhead and the granted time are for.
THEOREM WithinLookAheadHolds == Spec => []WithinLookAhead
<1>1. IInv => WithinLookAhead
  <2> SUFFICES ASSUME IInv PROVE WithinLookAhead
    OBVIOUS
  <2>1. TypeInv /\ WindowInv
    BY DEF IInv
  <2>2. ASSUME NEW r \in Ranks, NEW s \in Ranks, ~IsLocalFinished(s)
        PROVE  currentTs[r] <= NextOf(s) + LookAhead(r)
    <3>1. ~stop[s] /\ NextOf(s) \in Times(s)
      BY <2>1, <2>2, NextEvent
    <3>2. QED
      BY <2>1, <3>1 DEF WindowInv, Within
  <2>3. ASSUME NEW r \in Ranks, NEW m \in BagToSet(inFlight)
        PROVE  currentTs[r] <= m.ts + LookAhead(r)
    BY <2>1, <2>3 DEF WindowInv, Within, BagToSet
  <2>4. QED
    BY <2>2, <2>3 DEF WithinLookAhead
<1>2. QED
  BY <1>1, IInvHolds, PTL

\* The totals of 32 bits tell when no message is on its way
\* (distributed-simulator-impl.cc:402-404), although every counter may have wrapped.
THEOREM NoTransientsHolds == Spec => []NoTransients
<1>1. IInv => NoTransients
  BY NonePending DEF NoTransients
<1>2. QED
  BY <1>1, IInvHolds, PTL
================================================================================
