-------------------------------- MODULE Sums --------------------------------
(***************************************************************************)
(* Facts about SumFunctionOnSet of the community modules: a sum over a     *)
(* finite set is a number, the order of its terms does not matter, and     *)
(* changing a term changes it by the difference.  The modules that add up  *)
(* a transaction log or the requests a rate limiter admits rest on them.   *)
(***************************************************************************)
EXTENDS Functions, FiniteSetTheorems, TLAPS

\* The function that SumFunctionOnSet defines by recursion, on the subsets of
\* a set, takes the terms out one by one.
Pick(u) == CHOOSE x \in u : TRUE

Body(f, g, u) == IF u = {} THEN 0 ELSE f[Pick(u)] + g[u \ {Pick(u)}]

Solves(f, g, S) == \A u \in SUBSET S : g[u] = Body(f, g, u)

\* Induction over the subsets of a finite set: a family of them that is not
\* empty has a least member.
LEMMA MinimalSubset ==
  ASSUME NEW S, IsFiniteSet(S), NEW T, T \subseteq SUBSET S, T # {}
  PROVE  \E s \in T : \A u \in T : ~ (u \subseteq s /\ u # s)
<1>1. FiniteSubsetsOf(S) = SUBSET S
  BY FS_FiniteSubsetsOfFinite
<1>2. IsWellFoundedOn(StrictSubsetOrdering(S), SUBSET S)
  BY <1>1, FS_StrictSubsetOrderingWellFounded
<1>3. PICK s \in T : \A u \in T : ~ (<<u, s>> \in StrictSubsetOrdering(S))
  BY <1>2, WFMin
<1> QED BY <1>3 DEF StrictSubsetOrdering

LEMMA SumDef ==
  ASSUME NEW f, NEW S
  PROVE  SumFunctionOnSet(f, S) =
           (CHOOSE g : g = [u \in SUBSET S |-> Body(f, g, u)])[S]
BY DEF SumFunctionOnSet, FoldFunctionOnSet, MapThenFoldSet, Body, Pick

LEMMA SolutionsAgree ==
  ASSUME NEW f, NEW S, IsFiniteSet(S), NEW g, NEW h, Solves(f, g, S), Solves(f, h, S)
  PROVE  g[S] = h[S]
<1> DEFINE T == {u \in SUBSET S : g[u] # h[u]}
<1>1. ASSUME T # {} PROVE FALSE
  <2>1. PICK s \in T : \A u \in T : ~ (u \subseteq s /\ u # s)
    <3>1. T \subseteq SUBSET S
      OBVIOUS
    <3> HIDE DEF T
    <3> QED BY <1>1, <3>1, MinimalSubset
  <2>2. s # {}
    BY <2>1 DEF Solves, Body
  <2>3. Pick(s) \in s
    BY <2>2 DEF Pick
  <2>4. s \ {Pick(s)} \notin T
    BY <2>1, <2>3
  <2> QED BY <2>1, <2>2, <2>3, <2>4 DEF Solves, Body
<1> QED BY <1>1

\* A solution on a set is one on its subsets.
LEMMA SolutionShrinks ==
  ASSUME NEW f, NEW S, NEW R \in SUBSET S, NEW g, Solves(f, g, S)
  PROVE  Solves(f, g, R)
BY DEF Solves

LEMMA SolutionExists ==
  ASSUME NEW f, NEW S, IsFiniteSet(S)
  PROVE  \E g : Solves(f, g, S)
<1> DEFINE T == {u \in SUBSET S : ~ \E g : Solves(f, g, u)}
<1>1. ASSUME T # {} PROVE FALSE
  <2>1. PICK s \in T : \A u \in T : ~ (u \subseteq s /\ u # s)
    <3>1. T \subseteq SUBSET S
      OBVIOUS
    <3> HIDE DEF T
    <3> QED BY <1>1, <3>1, MinimalSubset
  <2>2. IsFiniteSet(s) /\ \A u \in SUBSET s : IsFiniteSet(u)
    BY <2>1, FS_Subset
  <2> DEFINE h[u \in SUBSET S] == CHOOSE g : Solves(f, g, u)
  <2>3. \A u \in SUBSET s : u # s => Solves(f, h[u], u)
    BY <2>1
  <2> DEFINE g == [u \in SUBSET s |->
                     IF u = s THEN Body(f, [v \in SUBSET S |-> h[v][v]], s)
                     ELSE h[u][u]]
  <2> HIDE DEF h
  <2>4. ASSUME NEW u \in SUBSET s, u # s PROVE g[u] = Body(f, g, u)
    <3>1. CASE u = {}
      BY <2>3, <2>4, <3>1 DEF Solves, Body
    <3>2. CASE u # {}
      <4> DEFINE v == u \ {Pick(u)}
      <4>1. Pick(u) \in u
        BY <3>2 DEF Pick
      <4>2. v \in SUBSET u /\ v # s /\ IsFiniteSet(v)
        BY <2>2, <2>4, <4>1
      <4>3. Solves(f, h[u], v) /\ Solves(f, h[v], v)
        BY <2>3, <2>4, <4>2, SolutionShrinks
      <4>4. h[u][v] = h[v][v]
        BY <4>2, <4>3, SolutionsAgree
      <4>5. h[u][u] = f[Pick(u)] + h[u][v]
        BY <2>3, <2>4, <3>2 DEF Solves, Body
      <4> QED BY <2>4, <3>2, <4>2, <4>4, <4>5 DEF Body
    <3> QED BY <3>1, <3>2
  <2>5. g[s] = Body(f, g, s)
    <3>1. CASE s = {}
      BY <3>1 DEF Body
    <3>2. CASE s # {}
      <4>1. Pick(s) \in s
        BY <3>2 DEF Pick
      <4> QED BY <2>1, <3>2, <4>1 DEF Body
    <3> QED BY <3>1, <3>2
  <2>6. Solves(f, g, s)
    BY <2>4, <2>5 DEF Solves
  <2> QED BY <2>1, <2>6
<1>2. S \notin T
  BY <1>1
<1> QED BY <1>2

\* What SumFunctionOnSet chooses is a solution.
LEMMA SumSolves ==
  ASSUME NEW f, NEW S, IsFiniteSet(S)
  PROVE  \E g : Solves(f, g, S) /\ SumFunctionOnSet(f, S) = g[S]
<1>1. PICK h : Solves(f, h, S)
  BY SolutionExists
<1> DEFINE k == [u \in SUBSET S |-> h[u]]
<1>2. k = [u \in SUBSET S |-> Body(f, k, u)]
  <2>1. ASSUME NEW u \in SUBSET S PROVE k[u] = Body(f, k, u)
    <3>1. u \ {Pick(u)} \in SUBSET S
      OBVIOUS
    <3> QED BY <1>1, <3>1 DEF Solves, Body
  <2> QED BY <2>1
<1> HIDE DEF k
<1> DEFINE g == CHOOSE g : g = [u \in SUBSET S |-> Body(f, g, u)]
<1>3. g = [u \in SUBSET S |-> Body(f, g, u)]
  BY <1>2
<1>4. SumFunctionOnSet(f, S) = g[S]
  BY SumDef
<1> HIDE DEF g
<1>5. Solves(f, g, S)
  BY <1>3 DEF Solves
<1> QED BY <1>4, <1>5

LEMMA SumEmpty == ASSUME NEW f PROVE SumFunctionOnSet(f, {}) = 0
BY SumSolves, FS_EmptySet DEF Solves, Body

LEMMA SumPick ==
  ASSUME NEW f, NEW S, IsFiniteSet(S), S # {}
  PROVE  SumFunctionOnSet(f, S) = f[Pick(S)] + SumFunctionOnSet(f, S \ {Pick(S)})
<1> DEFINE R == S \ {Pick(S)}
<1>1. PICK g : Solves(f, g, S) /\ SumFunctionOnSet(f, S) = g[S]
  BY SumSolves
<1>2. R \in SUBSET S /\ IsFiniteSet(R)
  BY FS_Subset
<1>3. PICK h : Solves(f, h, R) /\ SumFunctionOnSet(f, R) = h[R]
  BY <1>2, SumSolves
<1>4. g[R] = h[R]
  BY <1>1, <1>2, <1>3, SolutionShrinks, SolutionsAgree
<1>5. g[S] = f[Pick(S)] + g[R]
  BY <1>1 DEF Solves, Body
<1> QED BY <1>1, <1>3, <1>4, <1>5

LEMMA SumIsInt ==
  ASSUME NEW f, NEW S, IsFiniteSet(S), \A x \in S : f[x] \in Int
  PROVE  SumFunctionOnSet(f, S) \in Int
<1> DEFINE T == {u \in SUBSET S : SumFunctionOnSet(f, u) \notin Int}
<1>1. ASSUME T # {} PROVE FALSE
  <2>1. PICK s \in T : \A u \in T : ~ (u \subseteq s /\ u # s)
    <3>1. T \subseteq SUBSET S
      OBVIOUS
    <3> HIDE DEF T
    <3> QED BY <1>1, <3>1, MinimalSubset
  <2>2. s # {} /\ IsFiniteSet(s)
    <3>1. SumFunctionOnSet(f, s) \notin Int /\ s \in SUBSET S
      BY <2>1
    <3>2. CASE s = {}
      <4>1. SumFunctionOnSet(f, s) = 0
        BY <3>2, SumEmpty
      <4> QED BY <3>1, <4>1
    <3> QED BY <3>1, <3>2, FS_Subset
  <2>3. Pick(s) \in s
    BY <2>2 DEF Pick
  <2>4. f[Pick(s)] \in Int /\ SumFunctionOnSet(f, s \ {Pick(s)}) \in Int
    BY <2>1, <2>3
  <2> QED BY <2>1, <2>2, <2>4, SumPick
<1>2. S \notin T
  BY <1>1
<1> QED BY <1>2

\* Any term can be taken out first: addition is associative and commutative.
LEMMA SumRemove ==
  ASSUME NEW f, NEW S, IsFiniteSet(S), \A x \in S : f[x] \in Int, NEW y \in S
  PROVE  SumFunctionOnSet(f, S) = f[y] + SumFunctionOnSet(f, S \ {y})
<1> DEFINE Sum(u) == SumFunctionOnSet(f, u)
           T == {u \in SUBSET S : \E z \in u : Sum(u) # f[z] + Sum(u \ {z})}
<1>0. \A u \in SUBSET S : IsFiniteSet(u) /\ Sum(u) \in Int
  BY FS_Subset, SumIsInt
<1>1. ASSUME T # {} PROVE FALSE
  <2>1. PICK s \in T : \A u \in T : ~ (u \subseteq s /\ u # s)
    <3>1. T \subseteq SUBSET S
      OBVIOUS
    <3> HIDE DEF T
    <3> QED BY <1>1, <3>1, MinimalSubset
  <2>2. PICK z \in s : Sum(s) # f[z] + Sum(s \ {z})
    BY <2>1
  <2> DEFINE x == Pick(s)
             r == (s \ {x}) \ {z}
  <2>3. x \in s /\ IsFiniteSet(s) /\ s \in SUBSET S
    BY <1>0, <2>1, <2>2 DEF Pick
  <2>4. Sum(s) = f[x] + Sum(s \ {x})
    BY <2>2, <2>3, SumPick
  <2>5. x # z
    BY <2>2, <2>4
  <2>6. Sum(s \ {x}) = f[z] + Sum(r)
    <3>1. s \ {x} \notin T /\ z \in s \ {x}
      BY <2>1, <2>2, <2>3, <2>5
    <3> QED BY <2>3, <3>1
  <2>7. Sum(s \ {z}) = f[x] + Sum(r)
    <3>1. (s \ {z}) \ {x} = r
      OBVIOUS
    <3>2. s \ {z} \notin T /\ x \in s \ {z}
      BY <2>1, <2>2, <2>3, <2>5
    <3> QED BY <2>3, <3>1, <3>2
  <2>8. r \in SUBSET S /\ z \in S /\ x \in S
    BY <2>2, <2>3
  <2>9. Sum(r) \in Int /\ f[x] \in Int /\ f[z] \in Int
    BY <1>0, <2>8
  <2> HIDE DEF Sum, x, r
  <2> QED BY <2>2, <2>4, <2>6, <2>7, <2>9
<1>2. S \notin T
  BY <1>1
<1> QED BY <1>2

\* A sum depends on its terms alone.
LEMMA SumSame ==
  ASSUME NEW f, NEW g, NEW S, IsFiniteSet(S), \A x \in S : f[x] = g[x]
  PROVE  SumFunctionOnSet(f, S) = SumFunctionOnSet(g, S)
<1>1. PICK h : Solves(f, h, S) /\ SumFunctionOnSet(f, S) = h[S]
  BY SumSolves
<1>2. PICK k : Solves(g, k, S) /\ SumFunctionOnSet(g, S) = k[S]
  BY SumSolves
<1>3. Solves(f, k, S)
  <2>1. ASSUME NEW u \in SUBSET S PROVE Body(f, k, u) = Body(g, k, u)
    BY DEF Body, Pick
  <2> QED BY <1>2, <2>1 DEF Solves
<1> QED BY <1>1, <1>2, <1>3, SolutionsAgree

\* Changing one term changes the sum by the difference.
LEMMA SumChange ==
  ASSUME NEW f, NEW g, NEW S, IsFiniteSet(S), NEW y \in S,
         \A x \in S : f[x] \in Int /\ g[x] \in Int,
         \A x \in S : x # y => g[x] = f[x]
  PROVE  SumFunctionOnSet(g, S) = SumFunctionOnSet(f, S) - f[y] + g[y]
<1> DEFINE R == S \ {y}
<1>1. IsFiniteSet(R)
  BY FS_Subset
<1>2. SumFunctionOnSet(f, R) = SumFunctionOnSet(g, R)
  BY <1>1, SumSame
<1>3. SumFunctionOnSet(f, R) \in Int
  BY <1>1, SumIsInt
<1>4. /\ SumFunctionOnSet(f, S) = f[y] + SumFunctionOnSet(f, R)
      /\ SumFunctionOnSet(g, S) = g[y] + SumFunctionOnSet(g, R)
  BY SumRemove
<1> HIDE DEF R
<1> QED BY <1>2, <1>3, <1>4

\* Two members' values change.
LEMMA SumChangeTwo ==
  ASSUME NEW f, NEW g, NEW S, IsFiniteSet(S), NEW y \in S, NEW z \in S, y # z,
         \A x \in S : f[x] \in Int /\ g[x] \in Int,
         \A x \in S : x # y /\ x # z => g[x] = f[x]
  PROVE  SumFunctionOnSet(g, S)
           = SumFunctionOnSet(f, S) - f[y] + g[y] - f[z] + g[z]
<1> DEFINE h == [x \in S |-> IF x = y THEN g[y] ELSE f[x]]
<1>1. /\ h[y] = g[y] /\ h[z] = f[z]
      /\ \A x \in S : h[x] \in Int
      /\ \A x \in S : x # y => h[x] = f[x]
      /\ \A x \in S : x # z => g[x] = h[x]
  OBVIOUS
<1> HIDE DEF h
<1>2. SumFunctionOnSet(h, S) = SumFunctionOnSet(f, S) - f[y] + h[y]
  BY <1>1, SumChange
<1>3. SumFunctionOnSet(g, S) = SumFunctionOnSet(h, S) - h[z] + g[z]
  BY <1>1, SumChange
<1>4. /\ SumFunctionOnSet(f, S) \in Int /\ SumFunctionOnSet(h, S) \in Int
  BY <1>1, SumIsInt
<1> QED BY <1>1, <1>2, <1>3, <1>4

\* A sum of zeros is zero.
LEMMA SumZero ==
  ASSUME NEW f, NEW S, IsFiniteSet(S), \A x \in S : f[x] = 0
  PROVE  SumFunctionOnSet(f, S) = 0
<1> DEFINE T == {u \in SUBSET S : SumFunctionOnSet(f, u) # 0}
<1>1. ASSUME T # {} PROVE FALSE
  <2>1. PICK s \in T : \A u \in T : ~ (u \subseteq s /\ u # s)
    <3>1. T \subseteq SUBSET S
      OBVIOUS
    <3> HIDE DEF T
    <3> QED BY <1>1, <3>1, MinimalSubset
  <2>2. s # {} /\ IsFiniteSet(s)
    BY <2>1, SumEmpty, FS_Subset
  <2>3. Pick(s) \in s
    BY <2>2 DEF Pick
  <2>4. f[Pick(s)] = 0 /\ SumFunctionOnSet(f, s \ {Pick(s)}) = 0
    BY <2>1, <2>3
  <2> QED BY <2>1, <2>2, <2>4, SumPick
<1>2. S \notin T
  BY <1>1
<1> QED BY <1>2

\* Larger terms, larger sum.
LEMMA SumMonotone ==
  ASSUME NEW f, NEW g, NEW S, IsFiniteSet(S),
         \A x \in S : f[x] \in Int /\ g[x] \in Int /\ f[x] <= g[x]
  PROVE  SumFunctionOnSet(f, S) <= SumFunctionOnSet(g, S)
<1> DEFINE F(u) == SumFunctionOnSet(f, u)
           G(u) == SumFunctionOnSet(g, u)
           T == {u \in SUBSET S : ~ (F(u) <= G(u))}
<1>0. \A u \in SUBSET S : IsFiniteSet(u) /\ F(u) \in Int /\ G(u) \in Int
  <2> SUFFICES ASSUME NEW u \in SUBSET S
               PROVE  IsFiniteSet(u) /\ F(u) \in Int /\ G(u) \in Int
    OBVIOUS
  <2>1. IsFiniteSet(u)
    BY FS_Subset
  <2>2. F(u) \in Int
    BY <2>1, SumIsInt
  <2>3. G(u) \in Int
    BY <2>1, SumIsInt
  <2> QED BY <2>1, <2>2, <2>3
<1>1. ASSUME T # {} PROVE FALSE
  <2>1. PICK s \in T : \A u \in T : ~ (u \subseteq s /\ u # s)
    <3>1. T \subseteq SUBSET S
      OBVIOUS
    <3> HIDE DEF T
    <3> QED BY <1>1, <3>1, MinimalSubset
  <2>2. s \in SUBSET S /\ IsFiniteSet(s) /\ ~ (F(s) <= G(s))
    BY <1>0, <2>1
  <2>3. s # {}
    <3>1. F({}) = 0 /\ G({}) = 0
      BY SumEmpty
    <3> QED BY <2>2, <3>1
  <2> DEFINE y == Pick(s)
             r == s \ {Pick(s)}
  <2>4. y \in s
    BY <2>3 DEF Pick
  <2>5. r \in SUBSET S /\ r \subseteq s /\ r # s
    BY <2>2, <2>4
  <2>6. F(r) <= G(r)
    BY <2>1, <2>5
  <2>7. F(s) = f[y] + F(r) /\ G(s) = g[y] + G(r)
    BY <2>2, <2>3, SumPick
  <2>8. /\ F(r) \in Int /\ G(r) \in Int /\ f[y] \in Int /\ g[y] \in Int
        /\ f[y] <= g[y]
    BY <1>0, <2>2, <2>4, <2>5
  <2> HIDE DEF F, G, T, y, r
  <2> QED BY <2>2, <2>6, <2>7, <2>8
<1>2. S \notin T
  BY <1>1
<1> QED BY <1>2
=============================================================================
