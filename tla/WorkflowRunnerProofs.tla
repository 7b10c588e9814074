------------------------- MODULE WorkflowRunnerProofs -------------------------
(***************************************************************************)
(* Proofs about WorkflowRunner, for every set of well-formed workflows and *)
(* every set of faults.                                                    *)
(***************************************************************************)
EXTENDS WorkflowRunner, TLAPS, FiniteSetTheorems, WellFoundedInduction

-----------------------------------------------------------------------------
(* Sums over finite sets *)

\* Every non-empty set of naturals has a least element.
LEMMA LeastNatural ==
    ASSUME NEW T \in SUBSET Nat, T # {}
    PROVE  \E x \in T : \A y \in T : x <= y
<1>1. IsWellFoundedOn(OpToRel(<, Nat), Nat)
  BY NatLessThanWellFounded
<1>2. PICK x \in T : \A y \in T : ~(<<y, x>> \in OpToRel(<, Nat))
  BY <1>1, WFMin
<1>3. \A y \in T : ~(y < x)
  BY <1>2 DEF OpToRel
<1> QED BY <1>3

\* Every non-empty set of subsets of a finite set has one that leaves the
\* set when it loses any element: what holds of the empty set and of a set
\* with one element more holds of every finite set.
LEMMA MinimalSubset ==
    ASSUME NEW S, IsFiniteSet(S), NEW B \in SUBSET (SUBSET S), B # {}
    PROVE  \E b \in B : \A x \in b : b \ {x} \notin B
<1>1. IsWellFoundedOn(StrictSubsetOrdering(S), SUBSET S)
  BY FS_StrictSubsetOrderingWellFounded, FS_FiniteSubsetsOfFinite
<1>2. PICK b \in B : \A y \in B : ~(<<y, b>> \in StrictSubsetOrdering(S))
  BY <1>1, WFMin
<1>3. ASSUME NEW x \in b PROVE b \ {x} \notin B
  BY <1>2 DEF StrictSubsetOrdering
<1> QED BY <1>3

\* f gives for every subset of S what c adds up to over it.
Adds(c, S, f) ==
    /\ f \in [SUBSET S -> Nat]
    /\ f[{}] = 0
    /\ \A s \in SUBSET S : \A x \in s : f[s] = c[x] + f[s \ {x}]

\* Over a finite set there are such sums.
LEMMA SumsExist ==
    ASSUME NEW S, IsFiniteSet(S), NEW c \in [S -> Nat]
    PROVE  \E f : Adds(c, S, f)
<1> DEFINE B == {s \in SUBSET S : ~\E f : Adds(c, s, f)}
<1>1. ASSUME B # {} PROVE FALSE
  <2>1. PICK b \in B : \A x \in b : b \ {x} \notin B
    BY <1>1, MinimalSubset
  <2>2. b \in SUBSET S
    OBVIOUS
  <2>3. Adds(c, {}, [t \in SUBSET {} |-> 0])
    BY DEF Adds
  <2>4. PICK x \in b : TRUE
    BY <2>3
  <2>5. PICK g : Adds(c, b \ {x}, g)
    BY <2>1, <2>2
  <2> DEFINE f == [t \in SUBSET b |-> IF x \in t THEN c[x] + g[t \ {x}] ELSE g[t]]
  <2>6. f \in [SUBSET b -> Nat]
    <3>1. ASSUME NEW t \in SUBSET b, x \in t PROVE g[t \ {x}] \in Nat
      <4>1. t \ {x} \in SUBSET (b \ {x})
        OBVIOUS
      <4> QED BY <4>1, <2>5 DEF Adds
    <3>2. ASSUME NEW t \in SUBSET b, x \notin t PROVE g[t] \in Nat
      <4>1. t \in SUBSET (b \ {x})
        BY <3>2
      <4> QED BY <4>1, <2>5 DEF Adds
    <3> QED BY <3>1, <3>2
  <2>7. f[{}] = 0
    BY <2>5 DEF Adds
  <2>8. ASSUME NEW t \in SUBSET b, NEW y \in t PROVE f[t] = c[y] + f[t \ {y}]
    <3>1. CASE y = x
      BY <3>1
    <3>2. CASE y # x /\ x \notin t
      <4>1. t \in SUBSET (b \ {x})
        BY <3>2
      <4>2. g[t] = c[y] + g[t \ {y}]
        BY <2>5, <4>1 DEF Adds
      <4> QED BY <3>2, <4>2
    <3>3. CASE y # x /\ x \in t
      <4>1. (t \ {x}) \in SUBSET (b \ {x}) /\ y \in t \ {x} /\ (t \ {x}) \ {y} \in SUBSET (b \ {x})
        BY <3>3
      <4>2. g[t \ {x}] = c[y] + g[(t \ {x}) \ {y}]
        BY <2>5, <4>1 DEF Adds
      <4>3. (t \ {x}) \ {y} = (t \ {y}) \ {x}
        OBVIOUS
      <4>4. c[x] \in Nat /\ c[y] \in Nat /\ g[(t \ {x}) \ {y}] \in Nat
        BY <2>2, <2>5, <4>1 DEF Adds
      <4>5. f[t] = c[x] + g[t \ {x}] /\ f[t \ {y}] = c[x] + g[(t \ {y}) \ {x}]
        BY <3>3
      <4> HIDE DEF f
      <4> QED BY <4>2, <4>3, <4>4, <4>5
    <3> QED BY <3>1, <3>2, <3>3
  <2> HIDE DEF f
  <2>9. Adds(c, b, f)
    BY <2>6, <2>7, <2>8 DEF Adds
  <2> QED BY <2>9
<1>2. S \notin B
  BY <1>1
<1> QED BY <1>2

\* The element a fold takes next.
Chosen(s) == CHOOSE x \in s : TRUE

\* What a fold computes, one chosen element at a time.
Unfolds(c, S, g) ==
    \A s \in SUBSET S : g[s] = IF s = {} THEN 0 ELSE c[Chosen(s)] + g[s \ {Chosen(s)}]

\* They are unique: no order of summation is special.
LEMMA SumsUnique ==
    ASSUME NEW S, IsFiniteSet(S), NEW c \in [S -> Nat], NEW f, NEW g,
           Adds(c, S, f), Unfolds(c, S, g)
    PROVE  \A s \in SUBSET S : g[s] = f[s]
<1> DEFINE B == {s \in SUBSET S : g[s] # f[s]}
<1>1. ASSUME B # {} PROVE FALSE
  <2>1. PICK b \in B : \A x \in b : b \ {x} \notin B
    BY <1>1, MinimalSubset
  <2>2. b # {} /\ b \in SUBSET S
    BY DEF Adds, Unfolds
  <2>3. PICK x \in b : x = Chosen(b)
    BY <2>2 DEF Chosen
  <2>4. g[b] = c[x] + g[b \ {x}]
    BY <2>2, <2>3 DEF Unfolds
  <2>5. f[b] = c[x] + f[b \ {x}]
    BY <2>2 DEF Adds
  <2>6. g[b \ {x}] = f[b \ {x}]
    BY <2>1, <2>2
  <2> QED BY <2>4, <2>5, <2>6
<1> QED BY <1>1

\* SumOver is that sum.
LEMMA SumIsSum ==
    ASSUME NEW S, IsFiniteSet(S), NEW c \in [S -> Nat], NEW f, Adds(c, S, f)
    PROVE  SumOver(c, S) = f[S]
<1> DEFINE R(g) == g = [s \in SUBSET S |-> IF s = {} THEN 0
               ELSE c[Chosen(s)] + g[s \ {Chosen(s)}]]
<1>1. SumOver(c, S) = (CHOOSE g : R(g))[S]
  BY DEF SumOver, MapThenSumSet, MapThenFoldSet, Chosen
<1>2. R(f)
  <2>1. ASSUME NEW s \in SUBSET S, s # {}
        PROVE  f[s] = c[Chosen(s)] + f[s \ {Chosen(s)}]
    <3>1. Chosen(s) \in s
      BY <2>1 DEF Chosen
    <3> QED BY <3>1 DEF Adds
  <2>2. \A s \in SUBSET S : f[s] = IF s = {} THEN 0
               ELSE c[Chosen(s)] + f[s \ {Chosen(s)}]
    BY <2>1 DEF Adds
  <2> QED BY <2>2 DEF Adds
<1>3. R(CHOOSE g : R(g))
  <2> HIDE DEF R
  <2> QED BY <1>2
<1>4. PICK h : h = CHOOSE g : R(g)
  OBVIOUS
<1>5. Unfolds(c, S, h)
  BY <1>3, <1>4 DEF Unfolds
<1> HIDE DEF R
<1>6. \A s \in SUBSET S : h[s] = f[s]
  BY <1>5, SumsUnique
<1> QED BY <1>1, <1>4, <1>6

\* One function gives the sums over all the subsets.
LEMMA SumsOver ==
    ASSUME NEW S, IsFiniteSet(S), NEW c \in [S -> Nat]
    PROVE  \E f : Adds(c, S, f) /\ \A s \in SUBSET S : SumOver([n \in s |-> c[n]], s) = f[s]
<1>1. PICK f : Adds(c, S, f)
  BY SumsExist
<1>2. ASSUME NEW s \in SUBSET S PROVE SumOver([n \in s |-> c[n]], s) = f[s]
  <2> DEFINE d == [n \in s |-> c[n]]
             g == [t \in SUBSET s |-> f[t]]
  <2>1. IsFiniteSet(s)
    BY FS_Subset
  <2>2. d \in [s -> Nat]
    OBVIOUS
  <2>3. Adds(d, s, g)
    <3>1. g \in [SUBSET s -> Nat] /\ g[{}] = 0
      BY <1>1 DEF Adds
    <3>2. ASSUME NEW t \in SUBSET s, NEW x \in t PROVE g[t] = d[x] + g[t \ {x}]
      <4>1. f[t] = c[x] + f[t \ {x}]
        BY <1>1 DEF Adds
      <4> QED BY <4>1
    <3> HIDE DEF d, g
    <3> QED BY <3>1, <3>2 DEF Adds
  <2>4. g[s] = f[s]
    OBVIOUS
  <2> HIDE DEF d, g
  <2>5. SumOver(d, s) = f[s]
    BY <2>1, <2>2, <2>3, <2>4, SumIsSum
  <2> QED BY <2>5 DEF d
<1> QED BY <1>1, <1>2

\* The sum over two disjoint sets is the sum of their sums.
LEMMA AddsUnion ==
    ASSUME NEW S, IsFiniteSet(S), NEW c \in [S -> Nat], NEW f, Adds(c, S, f),
           NEW s \in SUBSET S
    PROVE  \A t \in SUBSET S : s \cap t = {} => f[s \union t] = f[s] + f[t]
<1> DEFINE B == {t \in SUBSET S : s \cap t = {} /\ f[s \union t] # f[s] + f[t]}
<1>1. ASSUME B # {} PROVE FALSE
  <2>0. B \in SUBSET (SUBSET S)
    OBVIOUS
  <2>1. PICK b \in B : \A x \in b : b \ {x} \notin B
    <3> HIDE DEF B
    <3> QED BY <1>1, <2>0, MinimalSubset
  <2>2. b \in SUBSET S /\ s \cap b = {} /\ f[s \union b] # f[s] + f[b]
    OBVIOUS
  <2>3. b # {}
    <3>1. CASE b = {}
      <4>1. s \union b = s /\ f[b] = 0 /\ f[s] \in Nat
        BY <3>1 DEF Adds
      <4>2. f[s \union b] = f[s]
        BY <4>1
      <4>3. f[s] + f[b] = f[s]
        BY <4>1
      <4> QED BY <4>2, <4>3, <2>2
    <3> QED BY <3>1
  <2>4. PICK x \in b : TRUE
    BY <2>3
  <2>5. b \ {x} \in SUBSET S /\ s \cap (b \ {x}) = {}
    BY <2>2
  <2>6. f[s \union (b \ {x})] = f[s] + f[b \ {x}]
    BY <2>1, <2>5
  <2>7. f[b] = c[x] + f[b \ {x}]
    BY <2>2 DEF Adds
  <2>8. (s \union b) \ {x} = s \union (b \ {x})
    BY <2>2
  <2>9. s \union b \in SUBSET S /\ x \in s \union b
    BY <2>2
  <2>10. f[s \union b] = c[x] + f[s \union (b \ {x})]
    <3>1. f[s \union b] = c[x] + f[(s \union b) \ {x}]
      BY <2>9 DEF Adds
    <3> QED BY <3>1, <2>8
  <2>11. c[x] \in Nat /\ f[s] \in Nat /\ f[b \ {x}] \in Nat
    BY <2>2, <2>5 DEF Adds
  <2> QED BY <2>2, <2>6, <2>7, <2>10, <2>11
<1> QED BY <1>1

\* Larger terms make a larger sum.
LEMMA AddsLeq ==
    ASSUME NEW S, IsFiniteSet(S), NEW c \in [S -> Nat], NEW d \in [S -> Nat], NEW f, NEW g,
           Adds(c, S, f), Adds(d, S, g), \A n \in S : c[n] <= d[n]
    PROVE  \A s \in SUBSET S : f[s] <= g[s]
<1> DEFINE B == {s \in SUBSET S : ~(f[s] <= g[s])}
<1>1. ASSUME B # {} PROVE FALSE
  <2>0. B \in SUBSET (SUBSET S)
    OBVIOUS
  <2>1. PICK b \in B : \A x \in b : b \ {x} \notin B
    <3> HIDE DEF B
    <3> QED BY <1>1, <2>0, MinimalSubset
  <2>2. b # {} /\ b \in SUBSET S
    <3>1. f[{}] = 0 /\ g[{}] = 0
      BY DEF Adds
    <3> QED BY <3>1
  <2>3. PICK x \in b : TRUE
    BY <2>2
  <2>4. f[b] = c[x] + f[b \ {x}] /\ g[b] = d[x] + g[b \ {x}]
    BY <2>2 DEF Adds
  <2>5. f[b \ {x}] <= g[b \ {x}]
    BY <2>1, <2>2
  <2>6. f[b \ {x}] \in Nat /\ g[b \ {x}] \in Nat /\ c[x] \in Nat /\ d[x] \in Nat /\ c[x] <= d[x]
    BY <2>2 DEF Adds
  <2>7. ~(f[b] <= g[b])
    OBVIOUS
  <2> QED BY <2>4, <2>5, <2>6, <2>7
<1> QED BY <1>1

\* The sum over a finite set is a natural number; it is zero over no node
\* and the term itself over one.
LEMMA SumType ==
    ASSUME NEW S, IsFiniteSet(S), NEW c \in [S -> Nat]
    PROVE  SumOver(c, S) \in Nat
<1>1. PICK f : Adds(c, S, f)
  BY SumsExist
<1>2. SumOver(c, S) = f[S]
  BY <1>1, SumIsSum
<1> QED BY <1>1, <1>2 DEF Adds

\* The empty sum.
LEMMA SumEmpty ==
    ASSUME NEW c \in [{} -> Nat]
    PROVE  SumOver(c, {}) = 0
<1>1. IsFiniteSet({})
  BY FS_EmptySet
<1>2. PICK f : Adds(c, {}, f)
  BY <1>1, SumsExist
<1> QED BY <1>1, <1>2, SumIsSum DEF Adds

\* The sum of one.
LEMMA SumSingle ==
    ASSUME NEW x, NEW c \in [{x} -> Nat]
    PROVE  SumOver(c, {x}) = c[x]
<1>1. IsFiniteSet({x})
  BY FS_Singleton
<1>2. PICK f : Adds(c, {x}, f)
  BY <1>1, SumsExist
<1>3. {x} \ {x} = {}
  OBVIOUS
<1>4. f[{x}] = c[x] + f[{x} \ {x}] /\ f[{}] = 0 /\ c[x] \in Nat
  BY <1>2 DEF Adds
<1>5. SumOver(c, {x}) = f[{x}]
  BY <1>1, <1>2, SumIsSum
<1> QED BY <1>3, <1>4, <1>5

\* The part of a sum that some of the terms make.
Part(c, s) == SumOver([n \in s |-> c[n]], s)

\* Sums over disjoint sets add up.
LEMMA SumUnion ==
    ASSUME NEW S, IsFiniteSet(S), NEW c \in [S -> Nat],
           NEW s \in SUBSET S, NEW t \in SUBSET S, s \cap t = {}
    PROVE  Part(c, s \union t) = Part(c, s) + Part(c, t)
<1>1. PICK f : Adds(c, S, f) /\ \A r \in SUBSET S : SumOver([n \in r |-> c[n]], r) = f[r]
  BY SumsOver
<1>2. f[s \union t] = f[s] + f[t]
  BY <1>1, AddsUnion
<1>3. s \union t \in SUBSET S
  OBVIOUS
<1> QED BY <1>1, <1>2, <1>3 DEF Part

\* Sums are monotonic.
LEMMA SumLeq ==
    ASSUME NEW S, IsFiniteSet(S), NEW c \in [S -> Nat], NEW d \in [S -> Nat],
           \A n \in S : c[n] <= d[n]
    PROVE  SumOver(c, S) <= SumOver(d, S)
<1>1. PICK f : Adds(c, S, f)
  BY SumsExist
<1>2. PICK g : Adds(d, S, g)
  BY SumsExist
<1>3. f[S] <= g[S]
  BY <1>1, <1>2, AddsLeq
<1>4. SumOver(c, S) = f[S] /\ SumOver(d, S) = g[S]
  BY <1>1, <1>2, SumIsSum
<1> QED BY <1>3, <1>4

\* A sum of zeros.
LEMMA SumZero ==
    ASSUME NEW S, IsFiniteSet(S)
    PROVE  SumOver([n \in S |-> 0], S) = 0
<1> DEFINE c == [n \in S |-> 0]
           f == [s \in SUBSET S |-> 0]
<1>1. c \in [S -> Nat] /\ f[S] = 0
  OBVIOUS
<1>2. Adds(c, S, f)
  BY DEF Adds
<1> HIDE DEF c, f
<1>3. SumOver(c, S) = f[S]
  BY <1>1, <1>2, SumIsSum
<1> QED BY <1>1, <1>3 DEF c

-----------------------------------------------------------------------------
(* Totals of costs *)

Costs == [queries : Nat, rows : Nat, ms : Nat]

Leq(a, b) == a.queries <= b.queries /\ a.rows <= b.rows /\ a.ms <= b.ms

\* The total of the costs of finitely many nodes is a cost.
LEMMA TotalType ==
    ASSUME NEW S, IsFiniteSet(S), NEW cost, \A n \in S : cost[n] \in Costs
    PROVE  Total(cost, S) \in Costs
<1>1. /\ [n \in S |-> cost[n].queries] \in [S -> Nat]
      /\ [n \in S |-> cost[n].rows] \in [S -> Nat]
      /\ [n \in S |-> cost[n].ms] \in [S -> Nat]
  BY DEF Costs
<1>2. /\ SumOver([n \in S |-> cost[n].queries], S) \in Nat
      /\ SumOver([n \in S |-> cost[n].rows], S) \in Nat
      /\ SumOver([n \in S |-> cost[n].ms], S) \in Nat
  BY <1>1, SumType
<1> QED BY <1>2 DEF Total, Cost, Costs

\* Nothing costs nothing.
LEMMA TotalEmpty ==
    ASSUME NEW cost
    PROVE  Total(cost, {}) = Free
<1>1. /\ [n \in {} |-> cost[n].queries] \in [{} -> Nat]
      /\ [n \in {} |-> cost[n].rows] \in [{} -> Nat]
      /\ [n \in {} |-> cost[n].ms] \in [{} -> Nat]
  OBVIOUS
<1>2. /\ SumOver([n \in {} |-> cost[n].queries], {}) = 0
      /\ SumOver([n \in {} |-> cost[n].rows], {}) = 0
      /\ SumOver([n \in {} |-> cost[n].ms], {}) = 0
  BY <1>1, SumEmpty
<1> QED BY <1>2 DEF Total, Cost, Free

\* Only the costs of the nodes of the set count.
LEMMA TotalSame ==
    ASSUME NEW S, NEW cost, NEW other, \A n \in S : cost[n] = other[n]
    PROVE  Total(cost, S) = Total(other, S)
<1>1. /\ [n \in S |-> cost[n].queries] = [n \in S |-> other[n].queries]
      /\ [n \in S |-> cost[n].rows] = [n \in S |-> other[n].rows]
      /\ [n \in S |-> cost[n].ms] = [n \in S |-> other[n].ms]
  OBVIOUS
<1> QED BY <1>1 DEF Total

\* The total of one node is its cost.
LEMMA TotalSingle ==
    ASSUME NEW x, NEW cost, cost[x] \in Costs
    PROVE  Total(cost, {x}) = cost[x]
<1>1. /\ [n \in {x} |-> cost[n].queries] \in [{x} -> Nat]
      /\ [n \in {x} |-> cost[n].rows] \in [{x} -> Nat]
      /\ [n \in {x} |-> cost[n].ms] \in [{x} -> Nat]
  BY DEF Costs
<1>2. /\ SumOver([n \in {x} |-> cost[n].queries], {x}) = [n \in {x} |-> cost[n].queries][x]
      /\ SumOver([n \in {x} |-> cost[n].rows], {x}) = [n \in {x} |-> cost[n].rows][x]
      /\ SumOver([n \in {x} |-> cost[n].ms], {x}) = [n \in {x} |-> cost[n].ms][x]
  BY <1>1, SumSingle
<1> QED BY <1>2 DEF Total, Cost, Costs

\* The total of two disjoint sets is what their totals add up to.
LEMMA TotalUnion ==
    ASSUME NEW S, IsFiniteSet(S), NEW T, IsFiniteSet(T), S \cap T = {},
           NEW cost, \A n \in S \union T : cost[n] \in Costs
    PROVE  Total(cost, S \union T) = Plus(Total(cost, S), Total(cost, T))
<1> DEFINE N == S \union T
           cq == [n \in N |-> cost[n].queries]
           cr == [n \in N |-> cost[n].rows]
           cm == [n \in N |-> cost[n].ms]
<1>1. IsFiniteSet(N)
  BY FS_Union
<1>2. cq \in [N -> Nat] /\ cr \in [N -> Nat] /\ cm \in [N -> Nat]
  BY DEF Costs
<1>3. S \in SUBSET N /\ T \in SUBSET N
  OBVIOUS
<1>4. \A r \in SUBSET N : SumOver([n \in r |-> cost[n].queries], r) = Part(cq, r)
  <2>1. ASSUME NEW r \in SUBSET N PROVE [n \in r |-> cost[n].queries] = [n \in r |-> cq[n]]
    OBVIOUS
  <2> HIDE DEF cq
  <2> QED BY <2>1 DEF Part
<1>5. \A r \in SUBSET N : SumOver([n \in r |-> cost[n].rows], r) = Part(cr, r)
  <2>1. ASSUME NEW r \in SUBSET N PROVE [n \in r |-> cost[n].rows] = [n \in r |-> cr[n]]
    OBVIOUS
  <2> HIDE DEF cr
  <2> QED BY <2>1 DEF Part
<1>6. \A r \in SUBSET N : SumOver([n \in r |-> cost[n].ms], r) = Part(cm, r)
  <2>1. ASSUME NEW r \in SUBSET N PROVE [n \in r |-> cost[n].ms] = [n \in r |-> cm[n]]
    OBVIOUS
  <2> HIDE DEF cm
  <2> QED BY <2>1 DEF Part
<1> HIDE DEF N, cq, cr, cm
<1>7. Part(cq, S \union T) = Part(cq, S) + Part(cq, T)
  BY <1>1, <1>2, <1>3, SumUnion
<1>8. Part(cr, S \union T) = Part(cr, S) + Part(cr, T)
  BY <1>1, <1>2, <1>3, SumUnion
<1>9. Part(cm, S \union T) = Part(cm, S) + Part(cm, T)
  BY <1>1, <1>2, <1>3, SumUnion
<1>10. S \union T \in SUBSET N
  BY DEF N
<1>11. \A r \in SUBSET N : Total(cost, r) = Cost(Part(cq, r), Part(cr, r), Part(cm, r))
  BY <1>4, <1>5, <1>6 DEF Total
<1> QED BY <1>3, <1>7, <1>8, <1>9, <1>10, <1>11 DEF Plus, Cost

\* Larger costs make a larger total.
LEMMA TotalLeq ==
    ASSUME NEW S, IsFiniteSet(S), NEW cost, NEW bound,
           \A n \in S : cost[n] \in Costs /\ bound[n] \in Costs /\ Leq(cost[n], bound[n])
    PROVE  Leq(Total(cost, S), Total(bound, S))
<1> DEFINE cq == [n \in S |-> cost[n].queries]
           cr == [n \in S |-> cost[n].rows]
           cm == [n \in S |-> cost[n].ms]
           bq == [n \in S |-> bound[n].queries]
           br == [n \in S |-> bound[n].rows]
           bm == [n \in S |-> bound[n].ms]
<1>1. cq \in [S -> Nat] /\ bq \in [S -> Nat] /\ \A n \in S : cq[n] <= bq[n]
  BY DEF Costs, Leq
<1>2. cr \in [S -> Nat] /\ br \in [S -> Nat] /\ \A n \in S : cr[n] <= br[n]
  BY DEF Costs, Leq
<1>3. cm \in [S -> Nat] /\ bm \in [S -> Nat] /\ \A n \in S : cm[n] <= bm[n]
  BY DEF Costs, Leq
<1> HIDE DEF cq, cr, cm, bq, br, bm
<1>4. SumOver(cq, S) <= SumOver(bq, S)
  BY <1>1, SumLeq
<1>5. SumOver(cr, S) <= SumOver(br, S)
  BY <1>2, SumLeq
<1>6. SumOver(cm, S) <= SumOver(bm, S)
  BY <1>3, SumLeq
<1>7. Total(cost, S) = Cost(SumOver(cq, S), SumOver(cr, S), SumOver(cm, S))
  BY DEF Total, cq, cr, cm
<1>8. Total(bound, S) = Cost(SumOver(bq, S), SumOver(br, S), SumOver(bm, S))
  BY DEF Total, bq, br, bm
<1> QED BY <1>4, <1>5, <1>6, <1>7, <1>8 DEF Leq, Cost

\* More nodes make a larger total.
LEMMA TotalSubset ==
    ASSUME NEW T, IsFiniteSet(T), NEW S \in SUBSET T, NEW cost, \A n \in T : cost[n] \in Costs
    PROVE  Leq(Total(cost, S), Total(cost, T))
<1>1. IsFiniteSet(S) /\ IsFiniteSet(T \ S)
  BY FS_Subset, FS_Difference
<1>2. S \union (T \ S) = T /\ S \cap (T \ S) = {}
  OBVIOUS
<1>3. Total(cost, S \union (T \ S)) = Plus(Total(cost, S), Total(cost, T \ S))
  BY <1>1, <1>2, TotalUnion
<1>4. Total(cost, S) \in Costs /\ Total(cost, T \ S) \in Costs
  BY <1>1, TotalType
<1>5. ASSUME NEW a \in Costs, NEW b \in Costs PROVE Leq(a, Plus(a, b))
  BY DEF Leq, Plus, Cost, Costs
<1>6. Total(cost, T) = Plus(Total(cost, S), Total(cost, T \ S))
  BY <1>2, <1>3
<1> QED BY <1>4, <1>5, <1>6

-----------------------------------------------------------------------------
(* The inductive invariants *)

Steps == {"out", "begin", "execute", "query", "complete", "ledger", "fail"} \union Ended

Typed == TypeOK /\ pauses \in Nat /\ took \in [Nodes -> [rows : Nat, ms : Nat]]

\* A node is begun once at most, and what a row counts it got when it was
\* completed.
Counted(r, a) ==
    /\ a = IF r.status = "none" THEN 0 ELSE 1
    /\ r.status # "completed" => r.rows = 0 /\ r.ms = 0

RowInv == \A n \in Nodes : Counted(row[n], attempts[n])

\* Where execute_node stands for a node tells the status of its row.
At(s, status) ==
    /\ s = "begin" => status = "none"
    /\ s \in {"execute", "query", "complete", "fail", "wait"} => status = "running"
    /\ s \in {"ledger", "ok"} => status = "completed"
    /\ s \in {"failed", "cancelled"} => status = "failed"
    /\ s = "err" => status \in {"none", "running", "completed"}

StepInv ==
    \A n \in Nodes :
        /\ phase # "batch" => step[n] = "out"
        /\ At(step[n], row[n].status)
        /\ step[n] = "wait" => wf.kind[n] = "interrupt"

\* The runner's copy lags behind the rows only for the nodes of the batch,
\* none of which had been begun.
CopyInv ==
    /\ phase # "idle" => \A n \in Nodes : step[n] = "out" => runs[n] = row[n]
    /\ \A n \in Nodes : step[n] # "out" => runs[n].status = "none" /\ Runnable(n)

\* Outside the batch no row is failed, and only an interrupt that another
\* node of its batch overtook is still running, unless a run ended with an
\* error; a workflow that waits for the user runs nothing.
RestInv ==
    /\ \A n \in Nodes : step[n] = "out" =>
          /\ phase # "idle" \/ outcome \in {"none", "waiting", "completed"} =>
                row[n].status # "failed"
          /\ phase # "idle" \/ outcome # "error" =>
                (row[n].status = "running" => wf.kind[n] = "interrupt")
          /\ row[n].status = "waiting" => wf.kind[n] = "interrupt"
    /\ phase # "idle" => outcome = "none"
    /\ job = "waiting_for_user_input" => phase = "idle" /\ outcome = "waiting" /\ pauses > 0

WorkflowIInv == Typed /\ RowInv /\ StepInv /\ CopyInv /\ RestInv

\* A branch records what its source returned.
DecisionInv ==
    \A n \in Nodes :
        /\ wf.kind[n] # "branch" => row[n].decision = "none"
        /\ wf.kind[n] = "branch" /\ row[n].status = "completed" /\ Incoming(wf, n) # {}
             /\ wf.kind[wf.source[n]] # "branch"
             /\ (\A e \in Incoming(wf, n) : e.from = wf.source[n]) =>
                /\ row[wf.source[n]].status = "completed"
                /\ row[n].decision = OfRows(row[wf.source[n]].rows)

\* The ledger holds what the completed nodes used, but for those that are
\* still to add their share or failed to.
Accounted == {n \in Completed(row) : step[n] \notin {"ledger", "err"}}

LedgerInv ==
    pauses = 0 /\ (phase # "idle" \/ outcome # "error") => ledger = Total(Used(row), Accounted)

\* What the runner counts is what the completed nodes of its copy used, the
\* batch fits beside it, and no completed node overran.
BudgetInv ==
    /\ phase # "idle" => consumed = FromCompleted(runs)
    /\ phase = "batch" => Within(Plus(consumed, Total(wf.budget, Batch)))
    /\ "overrun" \notin faults => \A n \in Nodes :
          /\ row[n].rows <= wf.budget[n].rows /\ row[n].ms <= wf.budget[n].ms
          /\ step[n] = "complete" =>
                took[n].rows <= wf.budget[n].rows /\ took[n].ms <= wf.budget[n].ms

-----------------------------------------------------------------------------
(* The scheduler keeps the invariants *)

\* A workflow has finitely many nodes, and its parts their types.
LEMMA InstalledWorkflow ==
    ASSUME TypeOK
    PROVE  /\ IsFiniteSet(Nodes)
           /\ wf.order \in Seq(Nodes)
           /\ wf.edges \subseteq [from : Nodes, to : Nodes,
                                  when : Cardinalities \union {"always", "answered"}]
           /\ wf.kind \in [Nodes -> {"query", "resolve", "branch", "interrupt", "complete"}]
           /\ wf.source \in [Nodes -> Nodes]
           /\ wf.budget \in [Nodes -> Costs]
           /\ wf.limits \in [queries : Nat, rows : Nat, ms : Nat, parallel : Nat]
<1>1. WellFormed(wf)
  BY WorkflowRunnerAssumption DEF TypeOK
<1>2. wf.order \in Seq(Nodes)
  BY <1>1 DEF WellFormed, Nodes
<1>3. IsFiniteSet(Nodes)
  <2>1. Len(wf.order) \in Nat /\ DOMAIN wf.order = 1..Len(wf.order)
        /\ wf.order \in [1..Len(wf.order) -> Nodes]
    BY <1>2
  <2>2. \A n \in Nodes : \E i \in 1..Len(wf.order) : wf.order[i] = n
    BY <2>1 DEF Nodes, NodeSet
  <2>3. wf.order \in Surjection(1..Len(wf.order), Nodes)
    BY <2>1, <2>2 DEF Surjection
  <2>4. IsFiniteSet(1..Len(wf.order))
    BY <2>1, FS_Interval
  <2> QED BY <2>3, <2>4, FS_Surjection
<1> QED BY <1>1, <1>2, <1>3 DEF WellFormed, Nodes, Costs

\* What the rows of a table used are costs, and so are their totals.
LEMMA UsedType ==
    ASSUME TypeOK, NEW table \in [Nodes -> NodeRow], NEW S \in SUBSET Nodes
    PROVE  /\ Used(table) \in [Nodes -> Costs]
           /\ IsFiniteSet(S)
           /\ Total(Used(table), S) \in Costs
           /\ Total(wf.budget, S) \in Costs
           /\ FromCompleted(table) \in Costs
<1>1. Used(table) \in [Nodes -> Costs]
  BY InstalledWorkflow DEF Used, Cost, Costs, NodeRow
<1>2. \A T \in SUBSET Nodes : IsFiniteSet(T)
  BY InstalledWorkflow, FS_Subset
<1>3. \A T \in SUBSET Nodes : Total(Used(table), T) \in Costs
  <2>1. SUFFICES ASSUME NEW T \in SUBSET Nodes PROVE Total(Used(table), T) \in Costs
    OBVIOUS
  <2>2. \A n \in T : Used(table)[n] \in Costs
    BY <1>1
  <2> QED BY <1>2, <2>2, TotalType
<1>4. Total(wf.budget, S) \in Costs
  <2>1. \A n \in S : wf.budget[n] \in Costs
    BY InstalledWorkflow
  <2> QED BY <1>2, <2>1, TotalType
<1>5. Completed(table) \in SUBSET Nodes
  BY DEF Completed
<1> QED BY <1>1, <1>2, <1>3, <1>4, <1>5 DEF FromCompleted

\* Costs add up to a cost.
LEMMA PlusType ==
    ASSUME NEW a \in Costs, NEW b \in Costs
    PROVE  Plus(a, b) \in Costs
  BY DEF Plus, Cost, Costs

\* Whether a node is runnable depends on the workflow and the runner's copy.
LEMMA RunnableSame ==
    ASSUME NEW n, wf' = wf, runs' = runs
    PROVE  Runnable(n)' <=> Runnable(n)
  BY DEF Runnable, EdgeMatches, CardinalityFor, Incoming

\* A step of a node in the batch: its row, its attempts and where it stands
\* change together, and everything else of the run stays.
LEMMA NodeMoves ==
    ASSUME WorkflowIInv, NEW n \in Nodes, step[n] # "out",
           NEW s \in Steps \ {"out"}, NEW r \in NodeRow, NEW a \in Nat,
           wf' = wf, faults' = faults, job' = job, pauses' = pauses, phase' = phase,
           runs' = runs, consumed' = consumed, outcome' = outcome,
           step' = [step EXCEPT ![n] = s],
           row' = [row EXCEPT ![n] = r],
           attempts' = [attempts EXCEPT ![n] = a],
           took' \in [Nodes -> [rows : Nat, ms : Nat]],
           ledger' \in Costs, token' \in BOOLEAN,
           Counted(r, a), At(s, r.status), s = "wait" => wf.kind[n] = "interrupt"
    PROVE  WorkflowIInv'
<1>0. Typed /\ RowInv /\ StepInv /\ CopyInv /\ RestInv
  BY DEF WorkflowIInv
<1>1. Nodes' = Nodes
  BY DEF Nodes
<1>2. phase = "batch"
  BY <1>0 DEF StepInv
<1>3. Typed'
  BY <1>0, <1>1 DEF Typed, TypeOK, Steps, Costs
<1>4. RowInv'
  BY <1>0, <1>1 DEF RowInv, Typed, TypeOK
<1>5. StepInv'
  BY <1>0, <1>1, <1>2 DEF StepInv, Typed, TypeOK
<1>6. CopyInv'
  <2>1. \A m \in Nodes : step'[m] = "out" => step[m] = "out" /\ row'[m] = row[m]
    BY <1>0 DEF Typed, TypeOK
  <2>2. \A m \in Nodes : step'[m] # "out" => step[m] # "out"
    BY <1>0 DEF Typed, TypeOK
  <2>3. \A m \in Nodes : Runnable(m)' <=> Runnable(m)
    BY RunnableSame
  <2>4. (phase # "idle" => \A m \in Nodes : step[m] = "out" => runs[m] = row[m])'
    BY <1>0, <1>1, <2>1 DEF CopyInv
  <2>5. (\A m \in Nodes : step[m] # "out" => runs[m].status = "none" /\ Runnable(m))'
    BY <1>0, <1>1, <2>2, <2>3 DEF CopyInv
  <2> QED BY <2>4, <2>5 DEF CopyInv
<1>7. RestInv'
  <2>1. \A m \in Nodes : step'[m] = "out" => step[m] = "out" /\ row'[m] = row[m]
    BY <1>0 DEF Typed, TypeOK
  <2> QED BY <1>0, <1>1, <1>2, <2>1 DEF RestInv
<1> QED BY <1>3, <1>4, <1>5, <1>6, <1>7 DEF WorkflowIInv

\* A step that leaves the rows alone.
LEMMA NodeGoesOn ==
    ASSUME WorkflowIInv, NEW n \in Nodes, step[n] # "out",
           NEW s \in Steps \ {"out"},
           wf' = wf, faults' = faults, job' = job, pauses' = pauses, phase' = phase,
           runs' = runs, consumed' = consumed, outcome' = outcome,
           step' = [step EXCEPT ![n] = s], row' = row, attempts' = attempts,
           took' \in [Nodes -> [rows : Nat, ms : Nat]],
           ledger' \in Costs, token' \in BOOLEAN,
           At(s, row[n].status), s = "wait" => wf.kind[n] = "interrupt"
    PROVE  WorkflowIInv'
<1>1. row \in [Nodes -> NodeRow] /\ attempts \in [Nodes -> Nat] /\ Counted(row[n], attempts[n])
  BY DEF WorkflowIInv, Typed, TypeOK, RowInv
<1>2. PICK r \in NodeRow : r = row[n]
  BY <1>1
<1>3. PICK a \in Nat : a = attempts[n]
  BY <1>1
<1>4. row' = [row EXCEPT ![n] = r]
  BY <1>1, <1>2
<1>5. attempts' = [attempts EXCEPT ![n] = a]
  BY <1>1, <1>3
<1> QED BY <1>1, <1>2, <1>3, <1>4, <1>5, NodeMoves

\* The decision of a branch, or the number of rows of a query, is one of the
\* cardinalities.
LEMMA CardinalityType ==
    ASSUME NEW table \in [Nodes -> NodeRow], NEW n \in Nodes
    PROVE  CardinalityFor(table, n) \in Cardinalities
  BY DEF CardinalityFor, OfRows, Cardinalities, NodeRow

\* execute_node keeps the invariants, with the faults that end it early.
LEMMA NodeStepKeeps ==
    ASSUME WorkflowIInv, NEW n \in Nodes,
           NodeStep(n) \/ PolicyRefuses(n) \/ Reject(n) \/ StatementError(n)
    PROVE  WorkflowIInv'
<1>0. /\ Typed /\ StepInv /\ RowInv
      /\ row \in [Nodes -> NodeRow] /\ attempts \in [Nodes -> Nat] /\ ledger \in Costs
      /\ token \in BOOLEAN /\ took \in [Nodes -> [rows : Nat, ms : Nat]]
      /\ runs \in [Nodes -> NodeRow]
  BY DEF WorkflowIInv, Typed, TypeOK, Costs
<1>1. CASE Begin(n)
  <2>1. PICK s \in {"execute", "err"} : step' = [step EXCEPT ![n] = s]
    BY <1>1 DEF Begin
  <2>2. PICK r \in NodeRow : r = [NoRow EXCEPT !.status = "running"]
    BY DEF NoRow, NodeRow
  <2>3. r.status = "running" /\ r.rows = 0 /\ r.ms = 0
    BY <2>2 DEF NoRow
  <2>4. row[n].status = "none" /\ attempts[n] = 0
    BY <1>0, <1>1 DEF Begin, StepInv, RowInv, At, Counted
  <2>5. row' = [row EXCEPT ![n] = r]
    BY <1>1, <2>2 DEF Begin
  <2>6. attempts' = [attempts EXCEPT ![n] = 1]
    BY <1>0, <1>1, <2>4 DEF Begin
  <2>7. Counted(r, 1) /\ At(s, r.status) /\ s # "wait"
    BY <2>3, <2>1 DEF Counted, At
  <2>8. s \in Steps \ {"out"} /\ 1 \in Nat
    BY DEF Steps, Ended
  <2>9. /\ wf' = wf /\ faults' = faults /\ job' = job /\ pauses' = pauses /\ phase' = phase
        /\ runs' = runs /\ consumed' = consumed /\ outcome' = outcome
        /\ took' = took /\ ledger' = ledger /\ token' = token /\ step[n] # "out"
    BY <1>1 DEF Begin, Frame
  <2> QED BY <1>0, <2>1, <2>5, <2>6, <2>7, <2>8, <2>9, NodeMoves
<1>2. CASE CompleteNode(n)
  <2>1. PICK r \in NodeRow : /\ row' = [row EXCEPT ![n] = r]
                             /\ r.status = "completed"
    <3>1. wf.source[n] \in Nodes
      BY <1>0, InstalledWorkflow DEF Typed
    <3>2. CardinalityFor(runs, wf.source[n]) \in Cardinalities
      BY <1>0, <3>1, CardinalityType
    <3>3. took[n].rows \in Nat /\ took[n].ms \in Nat
      BY <1>0
    <3> DEFINE q == [status |-> "completed", rows |-> took[n].rows, ms |-> took[n].ms,
                     decision |-> IF wf.kind[n] = "branch"
                                  THEN CardinalityFor(runs, wf.source[n]) ELSE "none"]
    <3>4. q \in NodeRow
      BY <3>2, <3>3 DEF NodeRow
    <3>5. row' = [row EXCEPT ![n] = q] /\ q.status = "completed"
      BY <1>2 DEF CompleteNode
    <3> QED BY <3>4, <3>5
  <2>2. attempts[n] = 1
    BY <1>0, <1>2 DEF CompleteNode, RowInv, Counted
  <2>3. attempts' = [attempts EXCEPT ![n] = 1]
    BY <1>0, <1>2, <2>2 DEF CompleteNode
  <2>4. Counted(r, 1) /\ At("ledger", r.status)
    BY <2>1 DEF Counted, At
  <2>5. "ledger" \in Steps \ {"out"} /\ 1 \in Nat
    BY DEF Steps
  <2>6. /\ wf' = wf /\ faults' = faults /\ job' = job /\ pauses' = pauses /\ phase' = phase
        /\ runs' = runs /\ consumed' = consumed /\ outcome' = outcome
        /\ took' = took /\ ledger' = ledger /\ token' = token /\ step[n] # "out"
        /\ step' = [step EXCEPT ![n] = "ledger"]
    BY <1>2 DEF CompleteNode, Frame
  <2> QED BY <1>0, <2>1, <2>3, <2>4, <2>5, <2>6, NodeMoves
<1>3. CASE FailNode(n) \/ Cancel(n)
  <2>1. row[n].status = "running"
    BY <1>0, <1>3 DEF FailNode, Cancel, StepInv, At
  <2>2. PICK r \in NodeRow : r = [row[n] EXCEPT !.status = "failed"]
    BY <1>0 DEF NodeRow
  <2>3. row[n] \in NodeRow
    BY <1>0
  <2>4. r.status = "failed" /\ r.rows = row[n].rows /\ r.ms = row[n].ms
    BY <2>2, <2>3 DEF NodeRow
  <2>5. row' = [row EXCEPT ![n] = r]
    BY <1>3, <2>2 DEF FailNode, Cancel, FailedRow
  <2>6. attempts[n] = 1 /\ row[n].rows = 0 /\ row[n].ms = 0
    BY <1>0, <2>1 DEF RowInv, Counted
  <2>7. attempts' = [attempts EXCEPT ![n] = 1]
    BY <1>0, <1>3, <2>6 DEF FailNode, Cancel
  <2>8. PICK s \in {"failed", "cancelled"} : step' = [step EXCEPT ![n] = s]
    BY <1>3 DEF FailNode, Cancel
  <2>9. Counted(r, 1) /\ At(s, r.status) /\ s # "wait"
    BY <2>4, <2>6, <2>8 DEF Counted, At
  <2>10. s \in Steps \ {"out"} /\ 1 \in Nat
    BY DEF Steps, Ended
  <2>11. /\ wf' = wf /\ faults' = faults /\ job' = job /\ pauses' = pauses /\ phase' = phase
         /\ runs' = runs /\ consumed' = consumed /\ outcome' = outcome
         /\ took' = took /\ ledger' = ledger /\ step[n] # "out"
    BY <1>3 DEF FailNode, Cancel, Frame
  <2>12. token' \in BOOLEAN
    BY <1>0, <1>3 DEF FailNode, Cancel
  <2> QED BY <1>0, <2>5, <2>7, <2>8, <2>9, <2>10, <2>11, <2>12, NodeMoves
<1>4. CASE AddBudget(n)
  <2>1. Used(row)[n] \in Costs
    BY <1>0, UsedType DEF Typed
  <2>2. ledger' \in Costs
    BY <1>0, <1>4, <2>1, PlusType DEF AddBudget
  <2>3. row[n].status = "completed"
    BY <1>0, <1>4 DEF AddBudget, StepInv, At
  <2>4. At("ok", row[n].status) /\ "ok" \in Steps \ {"out"}
    BY <2>3 DEF At, Steps, Ended
  <2>5. /\ wf' = wf /\ faults' = faults /\ job' = job /\ pauses' = pauses /\ phase' = phase
        /\ runs' = runs /\ consumed' = consumed /\ outcome' = outcome
        /\ took' = took /\ token' = token /\ row' = row /\ attempts' = attempts
        /\ step[n] # "out" /\ step' = [step EXCEPT ![n] = "ok"]
    BY <1>4 DEF AddBudget, Frame
  <2> QED BY <1>0, <2>2, <2>4, <2>5, NodeGoesOn
<1>5. CASE Inline(n) \/ \E rows \in 0..2, ms \in {wf.budget[n].ms, wf.budget[n].ms + 1} : Query(n, rows, ms)
  <2>1. row[n].status = "running"
    BY <1>0, <1>5 DEF Inline, Query, Polled, StepInv, At
  <2>2. wf.budget[n].ms \in Nat
    BY <1>0, InstalledWorkflow DEF Typed, Costs
  <2>3. took' \in [Nodes -> [rows : Nat, ms : Nat]]
    BY <1>0, <1>5, <2>2 DEF Inline, Query
  <2>4. At("complete", row[n].status) /\ "complete" \in Steps \ {"out"}
    BY <2>1 DEF At, Steps
  <2>5. /\ wf' = wf /\ faults' = faults /\ job' = job /\ pauses' = pauses /\ phase' = phase
        /\ runs' = runs /\ consumed' = consumed /\ outcome' = outcome
        /\ ledger' = ledger /\ token' = token /\ row' = row /\ attempts' = attempts
        /\ step[n] # "out" /\ step' = [step EXCEPT ![n] = "complete"]
    BY <1>5 DEF Inline, Query, Polled, Frame
  <2> QED BY <1>0, <2>3, <2>4, <2>5, NodeGoesOn
<1>6. CASE Interrupt(n) \/ Guard(n) \/ PolicyRefuses(n) \/ Reject(n) \/ StatementError(n)
  <2>1. PICK s \in {"wait", "query", "fail", "err"} : step' = [step EXCEPT ![n] = s]
    BY <1>6 DEF Interrupt, Guard, PolicyRefuses, Reject, StatementError
  <2>2. s = "wait" => wf.kind[n] = "interrupt"
    <3>1. step'[n] = s
      BY <1>0, <2>1 DEF Typed, TypeOK
    <3>2. step \in [Nodes -> Steps]
      BY <1>0 DEF Typed, TypeOK, Steps
    <3> QED BY <1>6, <3>1, <3>2 DEF Interrupt, Guard, PolicyRefuses, Reject, StatementError
  <2>3. s # "err" => row[n].status = "running"
    <3>1. step'[n] = s /\ step \in [Nodes -> Steps]
      BY <1>0, <2>1 DEF Typed, TypeOK, Steps
    <3>2. s # "err" => step[n] \in {"execute", "query"}
      BY <1>6, <3>1 DEF Interrupt, Guard, PolicyRefuses, Reject, StatementError, Polled
    <3> QED BY <1>0, <3>2 DEF StepInv, At
  <2>4. row[n].status \in {"none", "running", "completed"}
    BY <1>0, <1>6 DEF Interrupt, Guard, PolicyRefuses, Reject, StatementError, Polled, StepInv, At
  <2>5. At(s, row[n].status) /\ s \in Steps \ {"out"}
    BY <2>1, <2>3, <2>4 DEF At, Steps, Ended
  <2>6. /\ wf' = wf /\ faults' = faults /\ job' = job /\ pauses' = pauses /\ phase' = phase
        /\ runs' = runs /\ consumed' = consumed /\ outcome' = outcome /\ took' = took
        /\ ledger' = ledger /\ token' = token /\ row' = row /\ attempts' = attempts
        /\ step[n] # "out"
    BY <1>6 DEF Interrupt, Guard, PolicyRefuses, Reject, StatementError, Polled, Frame
  <2> QED BY <1>0, <2>1, <2>2, <2>5, <2>6, NodeGoesOn
<1> QED BY <1>1, <1>2, <1>3, <1>4, <1>5, <1>6 DEF NodeStep

\* A run that returns: it says it completed only when nothing has failed, and
\* leaves no node running but an interrupt, unless it ends with an error.
LEMMA ReturnKeeps ==
    ASSUME WorkflowIInv, phase # "idle",
           NEW result \in {"completed", "failed", "error"}, Return(result),
           wf' = wf, faults' = faults, row' = row, attempts' = attempts, ledger' = ledger,
           job' = job, pauses' = pauses, runs' = runs, consumed' = consumed, took' = took,
           token' = token,
           result = "completed" => \A n \in Nodes : row[n].status # "failed",
           result # "error" => \A n \in Nodes : row[n].status = "running" => wf.kind[n] = "interrupt"
    PROVE  WorkflowIInv'
<1>0. Typed /\ RowInv /\ StepInv /\ CopyInv /\ RestInv
  BY DEF WorkflowIInv
<1>1. Nodes' = Nodes
  BY DEF Nodes
<1>2. phase' = "idle" /\ outcome' = result /\ \A n \in Nodes : step'[n] = "out"
  BY DEF Return
<1>3. step' \in [Nodes -> Steps]
  BY DEF Return, Steps
<1>4. Typed'
  BY <1>0, <1>1, <1>2, <1>3 DEF Typed, TypeOK, Steps
<1>5. RowInv'
  BY <1>0, <1>1 DEF RowInv
<1>6. StepInv'
  BY <1>1, <1>2 DEF StepInv, At
<1>7. CopyInv'
  BY <1>1, <1>2 DEF CopyInv
<1>8. \A n \in Nodes : row[n].status = "waiting" => wf.kind[n] = "interrupt"
  <2>1. ASSUME NEW n \in Nodes, step[n] # "out" PROVE row[n].status # "waiting"
    <3>1. step[n] \in Steps /\ At(step[n], row[n].status)
      BY <1>0 DEF Typed, TypeOK, Steps, StepInv
    <3> QED BY <2>1, <3>1 DEF Steps, Ended, At
  <2> QED BY <1>0, <2>1 DEF RestInv
<1>9. job # "waiting_for_user_input"
  BY <1>0 DEF RestInv
<1>10. RestInv'
  BY <1>0, <1>1, <1>2, <1>8, <1>9 DEF RestInv
<1> QED BY <1>4, <1>5, <1>6, <1>7, <1>10 DEF WorkflowIInv

\* The runner keeps the invariants.
LEMMA RunnerKeeps ==
    ASSUME WorkflowIInv, Start \/ NothingRunnable \/ OverBudget \/ Launch
                         \/ BatchError \/ BatchFailed \/ BatchCompleted \/ Crash
    PROVE  WorkflowIInv'
<1>0. Typed /\ RowInv /\ StepInv /\ CopyInv /\ RestInv
  BY DEF WorkflowIInv
<1>t. /\ row \in [Nodes -> NodeRow] /\ runs \in [Nodes -> NodeRow] /\ step \in [Nodes -> Steps]
      /\ consumed \in Costs
  BY <1>0 DEF Typed, TypeOK, Steps, Costs
<1>n. wf' = wf /\ Nodes' = Nodes
  BY DEF Start, NothingRunnable, OverBudget, Launch, BatchError, BatchFailed, BatchCompleted,
         Crash, Nodes
<1>1. CASE Start
  <2>1. consumed' \in Costs
    BY <1>0, <1>1, <1>t, UsedType DEF Start, Typed
  <2>2. Typed'
    BY <1>0, <1>1, <1>n, <2>1 DEF Start, Typed, TypeOK, durable, Costs
  <2>3. RowInv'
    BY <1>0, <1>1, <1>n DEF Start, RowInv, durable
  <2>4. \A n \in Nodes : step[n] = "out" /\ step'[n] = "out"
    BY <1>0, <1>1 DEF Start, StepInv
  <2>5. StepInv'
    BY <1>1, <1>n, <2>4 DEF StepInv, At
  <2>6. CopyInv'
    BY <1>1, <1>n, <2>4 DEF Start, CopyInv, durable
  <2>7. RestInv'
    BY <1>0, <1>1, <1>n, <2>4 DEF Start, RestInv, durable
  <2> QED BY <2>2, <2>3, <2>5, <2>6, <2>7 DEF WorkflowIInv
<1>2. CASE NothingRunnable \/ OverBudget
  <2>1. PICK result \in {"completed", "failed"} : Return(result)
    BY <1>2 DEF NothingRunnable, OverBudget
  <2>2. phase = "schedule" /\ \A n \in Nodes : step[n] = "out"
    BY <1>0, <1>2 DEF NothingRunnable, OverBudget, StepInv
  <2>3. \A n \in Nodes : row[n].status # "failed"
                         /\ (row[n].status = "running" => wf.kind[n] = "interrupt")
    BY <1>0, <2>2 DEF RestInv
  <2>4. /\ wf' = wf /\ faults' = faults /\ row' = row /\ attempts' = attempts /\ ledger' = ledger
        /\ job' = job /\ pauses' = pauses /\ runs' = runs /\ consumed' = consumed /\ took' = took
        /\ token' = token
    BY <1>2 DEF NothingRunnable, OverBudget, durable
  <2> QED BY <2>1, <2>2, <2>3, <2>4, ReturnKeeps
<1>3. CASE Launch
  <2>1. \A n \in Nodes : step[n] = "out" /\ runs[n] = row[n]
    BY <1>0, <1>3 DEF Launch, StepInv, CopyInv
  <2>2. \A n \in First(BatchSize) : Runnable(n)
    BY DEF First, RunnableNodes
  <2>3. \A n \in Nodes : /\ step'[n] \in {"begin", "out"}
                         /\ step'[n] = "begin" => Runnable(n)
    BY <1>3, <2>2 DEF Launch
  <2>4. step' \in [Nodes -> Steps]
    BY <1>3 DEF Launch, Steps
  <2>5. \A n \in Nodes : Runnable(n) => row[n].status = "none" /\ runs[n].status = "none"
    <3>1. ASSUME NEW n \in Nodes, Runnable(n) PROVE row[n].status = "none"
      <4>1. row[n].status \notin {"completed", "running", "waiting"}
        BY <2>1, <3>1 DEF Runnable
      <4>2. row[n].status # "failed"
        BY <1>0, <1>3, <2>1 DEF RestInv, Launch
      <4>3. row[n].status \in {"none", "running", "waiting", "completed", "failed"}
        BY <1>t DEF NodeRow
      <4> QED BY <4>1, <4>2, <4>3
    <3> QED BY <2>1, <3>1
  <2>6. Typed'
    BY <1>0, <1>3, <1>n, <2>4 DEF Launch, Typed, TypeOK, durable, Steps
  <2>7. RowInv'
    BY <1>0, <1>3, <1>n DEF Launch, RowInv, durable
  <2>8. StepInv'
    BY <1>3, <1>n, <2>3, <2>5 DEF Launch, StepInv, At, durable
  <2>9. \A n \in Nodes : Runnable(n)' <=> Runnable(n)
    BY <1>3, RunnableSame DEF Launch
  <2>10. CopyInv'
    <3>1. (phase # "idle" => \A n \in Nodes : step[n] = "out" => runs[n] = row[n])'
      BY <1>3, <1>n, <2>1 DEF Launch, durable
    <3>2. (\A n \in Nodes : step[n] # "out" => runs[n].status = "none" /\ Runnable(n))'
      BY <1>3, <1>n, <2>3, <2>5, <2>9 DEF Launch
    <3> QED BY <3>1, <3>2 DEF CopyInv
  <2>11. RestInv'
    BY <1>0, <1>3, <1>n, <2>1 DEF Launch, RestInv, durable
  <2> QED BY <2>6, <2>7, <2>8, <2>10, <2>11 DEF WorkflowIInv
<1>4. CASE BatchError \/ Crash
  <2>1. Return("error")
    BY <1>4 DEF BatchError, Crash
  <2>2. phase # "idle"
    BY <1>4 DEF BatchError, Joined, Crash
  <2>3. /\ wf' = wf /\ faults' = faults /\ row' = row /\ attempts' = attempts /\ ledger' = ledger
        /\ job' = job /\ pauses' = pauses /\ runs' = runs /\ consumed' = consumed /\ took' = took
        /\ token' = token
    BY <1>4 DEF BatchError, Crash, durable
  <2>4. "error" \in {"completed", "failed", "error"}
    OBVIOUS
  <2> QED BY <2>1, <2>2, <2>3, <2>4, ReturnKeeps
<1>5. CASE BatchFailed
  <2>1. Return("failed") /\ phase = "batch"
    BY <1>5 DEF BatchFailed, Joined
  <2>2. /\ wf' = wf /\ faults' = faults /\ row' = row /\ attempts' = attempts /\ ledger' = ledger
        /\ job' = job /\ pauses' = pauses /\ runs' = runs /\ consumed' = consumed /\ took' = took
        /\ token' = token
    BY <1>5 DEF BatchFailed, durable
  <2>3. ASSUME NEW n \in Nodes, row[n].status = "running" PROVE wf.kind[n] = "interrupt"
    <3>1. CASE step[n] = "out"
      BY <1>0, <2>1, <2>3, <3>1 DEF RestInv
    <3>2. CASE step[n] # "out"
      <4>1. step[n] \in Ended \ {"err"}
        BY <1>5, <3>2 DEF BatchFailed, Joined, Batch, SomeStep
      <4>2. step[n] = "wait"
        BY <1>0, <2>3, <4>1 DEF StepInv, At, Ended
      <4> QED BY <1>0, <4>2 DEF StepInv
    <3> QED BY <3>1, <3>2
  <2>4. "failed" \in {"completed", "failed", "error"}
    OBVIOUS
  <2> QED BY <2>1, <2>2, <2>3, <2>4, ReturnKeeps
<1>6. CASE BatchCompleted
  <2>1. phase = "batch" /\ \A n \in Nodes : step[n] \in {"out", "ok"}
    BY <1>6 DEF BatchCompleted, Joined, Batch
  <2>2. \A n \in Nodes : runs'[n] = row[n] /\ step'[n] = "out"
    BY <1>0, <1>6, <2>1 DEF BatchCompleted, CopyInv, Batch
  <2>3. runs' \in [Nodes -> NodeRow] /\ step' \in [Nodes -> Steps]
    BY <1>6, <1>t DEF BatchCompleted, Steps
  <2>4. consumed' \in Costs
    <3>1. Batch \in SUBSET Nodes
      BY DEF Batch
    <3>2. Total(Used(row), Batch) \in Costs
      BY <1>0, <1>t, <3>1, UsedType DEF Typed
    <3> QED BY <1>6, <1>t, <3>2, PlusType DEF BatchCompleted
  <2>5. Typed'
    BY <1>0, <1>6, <1>n, <2>3, <2>4 DEF BatchCompleted, Typed, TypeOK, durable, Steps, Costs
  <2>6. RowInv'
    BY <1>0, <1>6, <1>n DEF BatchCompleted, RowInv, durable
  <2>7. StepInv'
    BY <1>n, <2>2 DEF StepInv, At
  <2>8. CopyInv'
    BY <1>6, <1>n, <2>2 DEF BatchCompleted, CopyInv, durable
  <2>9. \A n \in Nodes : step[n] = "ok" => row[n].status = "completed"
    BY <1>0 DEF StepInv, At
  <2>10. RestInv'
    BY <1>0, <1>6, <1>n, <2>1, <2>2, <2>9 DEF BatchCompleted, RestInv, durable
  <2> QED BY <2>5, <2>6, <2>7, <2>8, <2>10 DEF WorkflowIInv
<1> QED BY <1>1, <1>2, <1>3, <1>4, <1>5, <1>6

\* So do the pause for the user and the reply.
LEMMA PauseKeeps ==
    ASSUME WorkflowIInv, NEW n \in Nodes, Pause(n)
    PROVE  WorkflowIInv'
<1>0. Typed /\ RowInv /\ StepInv /\ CopyInv /\ RestInv
  BY DEF WorkflowIInv
<1>1. wf' = wf /\ Nodes' = Nodes
  BY DEF Pause, Nodes
<1>2. row \in [Nodes -> NodeRow] /\ row[n].status = "running" /\ phase = "batch"
  BY <1>0 DEF Typed, TypeOK, Pause, Joined
<1>3. row' = [row EXCEPT ![n].status = "waiting"]
  BY DEF Pause
<1>4. row' \in [Nodes -> NodeRow]
  BY <1>2, <1>3 DEF NodeRow
<1>5. /\ row'[n].status = "waiting" /\ row'[n].rows = row[n].rows /\ row'[n].ms = row[n].ms
      /\ \A m \in Nodes \ {n} : row'[m] = row[m]
  BY <1>2, <1>3 DEF NodeRow
<1>6. phase' = "idle" /\ outcome' = "waiting" /\ \A m \in Nodes : step'[m] = "out"
  BY DEF Pause, Return
<1>7. step' \in [Nodes -> Steps]
  BY DEF Pause, Return, Steps
<1>8. ledger' \in Costs
  BY DEF Pause, Free, Cost, Costs
<1>9. Typed'
  BY <1>0, <1>1, <1>4, <1>6, <1>7, <1>8 DEF Pause, Typed, TypeOK, Steps, Costs
<1>10. RowInv'
  <2>1. \A m \in Nodes : Counted(row'[m], attempts[m])
    BY <1>0, <1>2, <1>5 DEF RowInv, Counted
  <2> QED BY <1>1, <2>1 DEF RowInv, Pause
<1>11. StepInv'
  BY <1>1, <1>6 DEF StepInv, At
<1>12. CopyInv'
  BY <1>1, <1>6 DEF CopyInv
<1>13. RestInv'
  <2>1. ASSUME NEW m \in Nodes
        PROVE  /\ row'[m].status # "failed"
               /\ row'[m].status \in {"running", "waiting"} => wf.kind[m] = "interrupt"
    <3>1. CASE step[m] = "out"
      <4>1. m # n
        BY <3>1 DEF Pause
      <4> QED BY <1>0, <1>2, <1>5, <3>1, <4>1 DEF RestInv
    <3>2. CASE step[m] # "out"
      <4>1. step[m] \in {"ok", "wait"}
        BY <3>2 DEF Pause, Joined, Batch, SomeStep, Ended
      <4>2. step[m] = "ok" => row[m].status = "completed" /\ m # n
        BY <1>0, <1>2 DEF StepInv, At
      <4>3. step[m] = "wait" => row[m].status = "running" /\ wf.kind[m] = "interrupt"
        BY <1>0 DEF StepInv, At
      <4> QED BY <1>5, <4>1, <4>2, <4>3
    <3> QED BY <3>1, <3>2
  <2>2. pauses' > 0
    BY <1>0 DEF Pause, Typed
  <2> QED BY <1>1, <1>6, <2>1, <2>2 DEF RestInv
<1> QED BY <1>9, <1>10, <1>11, <1>12, <1>13 DEF WorkflowIInv

\* The answer to an interrupt completes that node alone, in the row and in
\* no copy: the runner is not there.
LEMMA ResumeKeeps ==
    ASSUME WorkflowIInv, NEW n \in Nodes, Resume(n)
    PROVE  WorkflowIInv'
<1>0. Typed /\ RowInv /\ StepInv /\ CopyInv /\ RestInv
  BY DEF WorkflowIInv
<1>1. wf' = wf /\ Nodes' = Nodes
  BY DEF Resume, Nodes
<1>2. row \in [Nodes -> NodeRow] /\ row[n].status = "waiting" /\ phase = "idle" /\ outcome = "waiting"
  BY <1>0 DEF Typed, TypeOK, Resume, RestInv
<1>3. row' = [row EXCEPT ![n].status = "completed"]
  BY DEF Resume
<1>4. row' \in [Nodes -> NodeRow]
  BY <1>2, <1>3 DEF NodeRow
<1>5. /\ row'[n].status = "completed" /\ row'[n].rows = row[n].rows /\ row'[n].ms = row[n].ms
      /\ \A m \in Nodes \ {n} : row'[m] = row[m]
  BY <1>2, <1>3 DEF NodeRow
<1>6. phase' = "idle" /\ outcome' = "none" /\ job' = "queued" /\ step' = step
      /\ \A m \in Nodes : step[m] = "out"
  BY <1>0, <1>2 DEF Resume, StepInv
<1>7. ledger' \in Costs
  BY DEF Resume, Free, Cost, Costs
<1>8. Typed'
  BY <1>0, <1>1, <1>4, <1>6, <1>7 DEF Resume, Typed, TypeOK, Costs
<1>9. RowInv'
  <2>1. \A m \in Nodes : Counted(row'[m], attempts[m])
    BY <1>0, <1>2, <1>5 DEF RowInv, Counted
  <2> QED BY <1>1, <2>1 DEF RowInv, Resume
<1>10. StepInv'
  BY <1>1, <1>6 DEF StepInv, At
<1>11. CopyInv'
  BY <1>1, <1>6 DEF CopyInv
<1>12. RestInv'
  <2>1. \A m \in Nodes : /\ row'[m].status # "failed"
                         /\ row'[m].status \in {"running", "waiting"} => wf.kind[m] = "interrupt"
    BY <1>0, <1>2, <1>5, <1>6 DEF RestInv
  <2> QED BY <1>1, <1>6, <2>1 DEF RestInv
<1> QED BY <1>8, <1>9, <1>10, <1>11, <1>12 DEF WorkflowIInv

\* The invariant holds at first.
LEMMA WorkflowInit ==
    ASSUME Init
    PROVE  WorkflowIInv
<1>1. Typed
  BY DEF Init, Typed, TypeOK, NoRow, NodeRow, Free, Cost, Ended
<1>2. RowInv
  BY DEF Init, RowInv, Counted, NoRow
<1>3. StepInv
  BY DEF Init, StepInv, At
<1>4. CopyInv
  BY DEF Init, CopyInv
<1>5. RestInv
  BY DEF Init, RestInv, NoRow
<1> QED BY <1>1, <1>2, <1>3, <1>4, <1>5 DEF WorkflowIInv

\* Every step keeps it.
LEMMA WorkflowStep ==
    ASSUME WorkflowIInv, [Next]_vars
    PROVE  WorkflowIInv'
<1>1. CASE UNCHANGED vars
  BY <1>1 DEF vars, WorkflowIInv, Typed, TypeOK, RowInv, StepInv, CopyInv, RestInv, Nodes,
              Runnable, EdgeMatches, CardinalityFor, Incoming
<1>2. CASE Start \/ NothingRunnable \/ OverBudget \/ Launch \/ BatchError \/ BatchFailed
           \/ BatchCompleted \/ Crash
  BY <1>2, RunnerKeeps
<1>3. CASE \E n \in Nodes : NodeStep(n) \/ PolicyRefuses(n) \/ Reject(n) \/ StatementError(n)
  BY <1>3, NodeStepKeeps
<1>4. CASE \E n \in Nodes : Pause(n)
  BY <1>4, PauseKeeps
<1>5. CASE \E n \in Nodes : Resume(n)
  BY <1>5, ResumeKeeps
<1> QED BY <1>1, <1>2, <1>3, <1>4, <1>5 DEF Next, RunnerStep, Fault

\* The node rows, the ledger and the runner have their types, for every set
\* of workflows and of faults.
THEOREM WorkflowTypeCorrect == Spec => []TypeOK
<1>1. Init => WorkflowIInv
  BY WorkflowInit
<1>2. WorkflowIInv /\ [Next]_vars => WorkflowIInv'
  BY WorkflowStep
<1>3. WorkflowIInv => TypeOK
  BY DEF WorkflowIInv, Typed
<1> QED BY <1>1, <1>2, <1>3, PTL DEF Spec

\* "Completed nodes are not re-run", nor is any other: execute_node begins
\* no node of any workflow twice, whatever fails, is cancelled, pauses and
\* resumes.
THEOREM NoNodeBegunTwice == Spec => []BegunOnce
<1>1. Init => WorkflowIInv
  BY WorkflowInit
<1>2. WorkflowIInv /\ [Next]_vars => WorkflowIInv'
  BY WorkflowStep
<1>3. WorkflowIInv => BegunOnce
  BY DEF WorkflowIInv, RowInv, Counted, BegunOnce
<1> QED BY <1>1, <1>2, <1>3, PTL DEF Spec

\* A run that returns without an error leaves no node running but interrupts;
\* one that completed has no failed node.
SettledButInterrupts ==
    /\ outcome \in {"completed", "failed", "waiting"} =>
          \A n \in Nodes : row[n].status = "running" => wf.kind[n] = "interrupt"
    /\ outcome = "completed" => \A n \in Nodes : row[n].status # "failed"

\* run() settles what execute_node began, in every workflow, but for
\* interrupts: when two of them, or one and a query that fails, meet in a
\* batch, an interrupt stays "running".
THEOREM RunSettles == Spec => []SettledButInterrupts
<1>1. Init => WorkflowIInv
  BY WorkflowInit
<1>2. WorkflowIInv /\ [Next]_vars => WorkflowIInv'
  BY WorkflowStep
<1>3. ASSUME WorkflowIInv PROVE SettledButInterrupts
  <2>1. outcome # "none" => phase = "idle"
    BY <1>3 DEF WorkflowIInv, RestInv
  <2>2. outcome # "none" => \A n \in Nodes : step[n] = "out"
    BY <1>3, <2>1 DEF WorkflowIInv, StepInv
  <2> QED BY <1>3, <2>1, <2>2 DEF WorkflowIInv, RestInv, SettledButInterrupts
<1> QED BY <1>1, <1>2, <1>3, PTL DEF Spec

-----------------------------------------------------------------------------
(* What happens to a row *)

\* A step leaves the row of a node alone, begins it, completes it, or gives
\* it another status because it failed, waits or was answered.
Keeps(m) == row'[m] = row[m] /\ attempts'[m] = attempts[m]
Begins(m) ==
    /\ step[m] = "begin" /\ row'[m] = [NoRow EXCEPT !.status = "running"]
    /\ wf' = wf /\ runs' = runs
Completes(m) ==
    /\ step[m] = "complete"
    /\ row'[m] = [status |-> "completed", rows |-> took[m].rows, ms |-> took[m].ms,
                   decision |-> IF wf.kind[m] = "branch"
                                THEN CardinalityFor(runs, wf.source[m]) ELSE "none"]
    /\ attempts'[m] = attempts[m]
Turns(m) ==
    /\ row[m].status \in {"running", "waiting"}
    /\ \E s \in {"failed", "waiting", "completed"} :
          row'[m] = [row[m] EXCEPT !.status = s] /\ (s = "completed" => wf.kind[m] = "interrupt")
    /\ attempts'[m] = attempts[m]

\* One step does one of four things to the row of a node.
LEMMA RowSteps ==
    ASSUME WorkflowIInv, [Next]_vars
    PROVE  \A m \in Nodes : Keeps(m) \/ Begins(m) \/ Completes(m) \/ Turns(m)
<1>0. /\ Typed /\ StepInv /\ RestInv
      /\ row \in [Nodes -> NodeRow] /\ attempts \in [Nodes -> Nat]
  BY DEF WorkflowIInv, Typed, TypeOK
<1>1. CASE row' = row /\ attempts' = attempts
  BY <1>1 DEF Keeps
<1>2. ASSUME NEW n \in Nodes, Begin(n)
      PROVE  \A m \in Nodes : Keeps(m) \/ Begins(m)
  <2>1. row' = [row EXCEPT ![n] = [NoRow EXCEPT !.status = "running"]]
        /\ attempts' = [attempts EXCEPT ![n] = @ + 1] /\ wf' = wf /\ runs' = runs
        /\ step[n] = "begin"
    BY <1>2 DEF Begin, Frame
  <2>2. Begins(n)
    BY <1>0, <2>1 DEF Begins
  <2>3. \A m \in Nodes \ {n} : Keeps(m)
    BY <1>0, <2>1 DEF Keeps
  <2> QED BY <2>2, <2>3
<1>3. ASSUME NEW n \in Nodes, CompleteNode(n)
      PROVE  \A m \in Nodes : Keeps(m) \/ Completes(m)
  <2>1. attempts' = attempts /\ step[n] = "complete"
    BY <1>3 DEF CompleteNode
  <2>2. Completes(n)
    BY <1>0, <1>3, <2>1 DEF CompleteNode, Completes
  <2>3. \A m \in Nodes \ {n} : Keeps(m)
    BY <1>0, <1>3, <2>1 DEF CompleteNode, Keeps
  <2> QED BY <2>2, <2>3
<1>4. ASSUME NEW n \in Nodes, FailNode(n) \/ Cancel(n) \/ Pause(n) \/ Resume(n)
      PROVE  \A m \in Nodes : Keeps(m) \/ Turns(m)
  <2>1. row[n].status \in {"running", "waiting"} /\ attempts' = attempts
    BY <1>0, <1>4 DEF FailNode, Cancel, Pause, Resume, StepInv, At
  <2>2. Resume(n) => wf.kind[n] = "interrupt"
    BY <1>0 DEF Resume, StepInv, RestInv
  <2>3. PICK s \in {"failed", "waiting", "completed"} :
            row' = [row EXCEPT ![n].status = s] /\ (s = "completed" => Resume(n))
    BY <1>4 DEF FailNode, Cancel, Pause, FailedRow, Resume
  <2>4. row'[n] = [row[n] EXCEPT !.status = s]
    BY <1>0, <2>3
  <2>5. Turns(n)
    BY <2>1, <2>2, <2>3, <2>4 DEF Turns
  <2>6. \A m \in Nodes \ {n} : Keeps(m)
    BY <1>0, <2>1, <2>3 DEF Keeps
  <2> QED BY <2>5, <2>6
<1>5. ASSUME NEW n \in Nodes,
             Inline(n) \/ Interrupt(n) \/ Guard(n) \/ AddBudget(n)
             \/ PolicyRefuses(n) \/ Reject(n) \/ StatementError(n)
             \/ \E rows \in 0..2, ms \in {wf.budget[n].ms, wf.budget[n].ms + 1} : Query(n, rows, ms)
      PROVE  row' = row /\ attempts' = attempts
  BY <1>5 DEF Inline, Interrupt, Guard, AddBudget, PolicyRefuses, Reject, StatementError, Query
<1>6. CASE UNCHANGED vars \/ Start \/ NothingRunnable \/ OverBudget \/ Launch \/ BatchError
           \/ BatchFailed \/ BatchCompleted \/ Crash
  <2>1. row' = row /\ attempts' = attempts
    BY <1>6 DEF vars, Start, NothingRunnable, OverBudget, Launch, BatchError, BatchFailed,
                BatchCompleted, Crash, durable
  <2> QED BY <1>1, <2>1
<1>7. ASSUME NEW n \in Nodes, NodeStep(n) \/ PolicyRefuses(n) \/ Reject(n) \/ StatementError(n)
      PROVE  \A m \in Nodes : Keeps(m) \/ Begins(m) \/ Completes(m) \/ Turns(m)
  BY <1>1, <1>2, <1>3, <1>4, <1>5, <1>7 DEF NodeStep
<1> QED BY <1>4, <1>6, <1>7 DEF Next, RunnerStep, Fault

\* "Completed nodes are not re-run": what a completed node returned is never
\* replaced.
CompletedStays == \A m \in Nodes : row[m].status = "completed" => row'[m] = row[m]

\* None of them touches a completed node.
LEMMA StepKeepsCompleted ==
    ASSUME WorkflowIInv, [Next]_vars
    PROVE  CompletedStays
<1>1. \A m \in Nodes : Keeps(m) \/ Begins(m) \/ Completes(m) \/ Turns(m)
  BY RowSteps
<1>2. \A m \in Nodes : step[m] \in {"begin", "complete"} => row[m].status # "completed"
  BY DEF WorkflowIInv, StepInv, At
<1> QED BY <1>1, <1>2 DEF Keeps, Begins, Completes, Turns, CompletedStays

\* No step of a runner, of a fault or of a reply changes the row of a
\* completed node.
THEOREM CompletedForGood == Spec => [][CompletedStays]_vars
<1>1. Init => WorkflowIInv
  BY WorkflowInit
<1>2. WorkflowIInv /\ [Next]_vars => WorkflowIInv'
  BY WorkflowStep
<1>3. WorkflowIInv /\ [Next]_vars => [CompletedStays]_vars
  BY StepKeepsCompleted
<1> QED BY <1>1, <1>2, <1>3, PTL DEF Spec

\* The workflow and the faults of a behaviour never change.
LEMMA WorkflowFixed ==
    ASSUME [Next]_vars
    PROVE  wf' = wf /\ faults' = faults /\ Nodes' = Nodes
  BY DEF Next, RunnerStep, NodeStep, Fault, vars, Start, NothingRunnable, OverBudget, Launch,
         BatchError, BatchFailed, BatchCompleted, Pause, Resume, Crash, Begin, Inline, Interrupt,
         Guard, Query, CompleteNode, AddBudget, FailNode, Cancel, PolicyRefuses, Reject,
         StatementError, Frame, Nodes

-----------------------------------------------------------------------------
(* Settled runs *)

\* An interrupt shares its batch with no other node.
InterruptsAlone == \A n \in Batch : wf.kind[n] = "interrupt" => Batch = {n}

\* The paths to an interrupt, and the other nodes.
Path(c, k) == k \in Nat /\ k > 0 /\ c \in [1..k -> Nodes] /\ LeadsTo(wf, c, k)
Aside(c, k) == Nodes \ {c[i] : i \in 1..k}

\* Edge e is taken, in a table of node rows.
Taken(table, e) ==
    /\ table[e.from].status = "completed"
    /\ e.when \in Cardinalities => CardinalityFor(table, e.from) = e.when

\* A node of a path is begun when those before it are completed; a node aside
\* when the interrupt is, or when the path to it was not taken.
PathKept(table, c, k) ==
    /\ \A i, j \in 1..k : j < i /\ table[c[i]].status # "none" => table[c[j]].status = "completed"
    /\ \A m \in Aside(c, k) : table[m].status # "none" =>
          \/ table[c[k]].status = "completed"
          \/ /\ k > 1 /\ table[c[k - 1]].status = "completed"
             /\ \A d \in Incoming(wf, c[k]) : ~Taken(table, d)

PathInv ==
    \A k \in Nat : \A c \in [1..k -> Nodes] : Path(c, k) =>
        PathKept(row, c, k) /\ (phase # "idle" => PathKept(runs, c, k))

\* A runnable node that has incoming edges has one that is taken.
LEMMA RunnableTaken ==
    ASSUME WorkflowIInv, NEW n \in Nodes, Runnable(n), Incoming(wf, n) # {}
    PROVE  \E e \in Incoming(wf, n) : e.from \in Nodes /\ Taken(runs, e)
<1>1. wf.edges \subseteq [from : Nodes, to : Nodes,
                          when : Cardinalities \union {"always", "answered"}]
  BY InstalledWorkflow DEF WorkflowIInv, Typed
<1> QED BY <1>1 DEF Runnable, EdgeMatches, Taken, Incoming

\* When a node is begun its place on a path allows it.
LEMMA RunnableOnPath ==
    ASSUME WorkflowIInv, NEW k \in Nat, NEW c \in [1..k -> Nodes], Path(c, k),
           PathKept(runs, c, k), NEW n \in Nodes, Runnable(n)
    PROVE  /\ \A i, j \in 1..k : n = c[i] /\ j < i => runs[c[j]].status = "completed"
           /\ n \in Aside(c, k) =>
                \/ runs[c[k]].status = "completed"
                \/ /\ k > 1 /\ runs[c[k - 1]].status = "completed"
                   /\ \A d \in Incoming(wf, c[k]) : ~Taken(runs, d)
<1>1. ASSUME NEW i \in 1..k, NEW j \in 1..k, n = c[i], j < i
      PROVE  runs[c[j]].status = "completed"
  <2>1. i \in 2..k /\ i - 1 \in 1..k /\ (j = i - 1 \/ j < i - 1)
    BY <1>1
  <2>2. Incoming(wf, n) # {} /\ \A e \in Incoming(wf, n) : e.from = c[i - 1]
    BY <1>1, <2>1 DEF Path, LeadsTo
  <2>3. runs[c[i - 1]].status = "completed"
    BY <2>2, RunnableTaken DEF Taken
  <2> QED BY <2>1, <2>3 DEF PathKept
<1>2. ASSUME n \in Aside(c, k)
      PROVE  \/ runs[c[k]].status = "completed"
             \/ /\ k > 1 /\ runs[c[k - 1]].status = "completed"
                /\ \A d \in Incoming(wf, c[k]) : ~Taken(runs, d)
  <2>1. n \in NodeSet(wf) \ {c[i] : i \in 1..k}
    BY <1>2 DEF Aside, Nodes
  <2>2. Incoming(wf, n) # {}
    BY <2>1 DEF Path, LeadsTo
  <2>3. PICK e \in Incoming(wf, n) : e.from \in Nodes /\ Taken(runs, e)
    BY <2>2, RunnableTaken
  <2>4. \/ e.from \notin {c[i] : i \in 1..(k - 1)}
        \/ /\ k > 1 /\ e.from = c[k - 1]
           /\ \A d \in Incoming(wf, c[k]) :
                {d.when, e.when} \subseteq Cardinalities /\ d.when # e.when
    BY <2>1, <2>3 DEF Path, LeadsTo
  <2>5. CASE e.from \notin {c[i] : i \in 1..(k - 1)}
    <3>1. e.from = c[k] \/ e.from \in Aside(c, k)
      <4>1. \A i \in 1..k : i \in 1..(k - 1) \/ i = k
        OBVIOUS
      <4> QED BY <2>3, <2>5, <4>1 DEF Aside
    <3> QED BY <2>3, <3>1 DEF PathKept, Taken
  <2>6. CASE /\ k > 1 /\ e.from = c[k - 1]
             /\ \A d \in Incoming(wf, c[k]) :
                  {d.when, e.when} \subseteq Cardinalities /\ d.when # e.when
    <3>1. k \in 2..k /\ \A d \in Incoming(wf, c[k]) : d.from = c[k - 1]
      BY <2>6 DEF Path, LeadsTo
    <3>2. \A d \in Incoming(wf, c[k]) : ~Taken(runs, d)
      BY <2>3, <2>6, <3>1 DEF Taken
    <3> QED BY <2>3, <2>6, <3>2 DEF Taken
  <2> QED BY <2>4, <2>5, <2>6
<1> QED BY <1>1, <1>2

\* So an interrupt is alone in its batch.
LEMMA PathsAlone ==
    ASSUME WorkflowIInv, PathInv, AsksAlone(wf)
    PROVE  InterruptsAlone
<1> SUFFICES ASSUME NEW n \in Batch, wf.kind[n] = "interrupt", NEW m \in Batch, m # n
             PROVE  FALSE
  BY DEF InterruptsAlone
<1>1. /\ n \in Nodes /\ m \in Nodes /\ step[n] # "out" /\ step[m] # "out"
      /\ Runnable(n) /\ Runnable(m) /\ runs[n].status = "none" /\ runs[m].status = "none"
      /\ phase # "idle"
  BY DEF Batch, WorkflowIInv, CopyInv, StepInv
<1>2. Len(wf.order) \in Nat
  BY InstalledWorkflow DEF WorkflowIInv, Typed
<1>3. PICK k \in 1..Len(wf.order) : \E c \in [1..k -> Nodes] : c[k] = n /\ LeadsTo(wf, c, k)
  BY <1>1 DEF AsksAlone, Nodes
<1>4. PICK c \in [1..k -> Nodes] : c[k] = n /\ LeadsTo(wf, c, k)
  BY <1>3
<1>5. k \in Nat /\ k > 0 /\ k \in 1..k
  BY <1>2, <1>3
<1>6. Path(c, k)
  BY <1>4, <1>5 DEF Path
<1>7. PathKept(runs, c, k)
  BY <1>1, <1>5, <1>6 DEF PathInv
<1>8. CASE m \in {c[i] : i \in 1..k}
  <2>1. PICK j \in 1..k : m = c[j]
    BY <1>8
  <2>2. j < k
    BY <1>1, <1>4, <1>5, <2>1
  <2>3. runs[m].status = "completed"
    BY <1>1, <1>4, <1>5, <1>6, <1>7, <2>1, <2>2, RunnableOnPath
  <2> QED BY <1>1, <2>3
<1>9. CASE m \notin {c[i] : i \in 1..k}
  <2>1. m \in Aside(c, k)
    BY <1>1, <1>9 DEF Aside
  <2>2. k > 1 /\ \A d \in Incoming(wf, n) : ~Taken(runs, d)
    BY <1>1, <1>4, <1>5, <1>6, <1>7, <2>1, RunnableOnPath
  <2>3. Incoming(wf, n) # {}
    BY <1>4, <1>5, <2>2 DEF LeadsTo
  <2> QED BY <1>1, <2>2, <2>3, RunnableTaken
<1> QED BY <1>8, <1>9

\* Every step keeps the nodes of a path in order and the others waiting.
LEMMA PathStep ==
    ASSUME WorkflowIInv, PathInv, [Next]_vars
    PROVE  PathInv'
<1>0. /\ Typed /\ TypeOK /\ StepInv /\ RestInv /\ CopyInv
      /\ row \in [Nodes -> NodeRow] /\ runs \in [Nodes -> NodeRow] /\ step \in [Nodes -> Steps]
  BY DEF WorkflowIInv, Typed, TypeOK, Steps
<1>1. wf' = wf /\ Nodes' = Nodes
  BY WorkflowFixed
<1>2. CompletedStays
  BY StepKeepsCompleted
<1>3. SUFFICES ASSUME NEW k \in Nat, NEW c \in [1..k -> Nodes], Path(c, k)
               PROVE  PathKept(row, c, k)' /\ (phase' # "idle" => PathKept(runs, c, k)')
  <2>1. \A k \in Nat : \A c \in [1..k -> Nodes] : Path(c, k)' <=> Path(c, k)
    BY <1>1 DEF Path, LeadsTo, Incoming
  <2> QED BY <1>1, <2>1 DEF PathInv
<1>4. /\ k > 0 /\ k \in 1..k /\ (k > 1 => k - 1 \in 1..k)
      /\ \A i \in 1..k : c[i] \in Nodes
      /\ \A d \in Incoming(wf, c[k]) : k > 1 => d.from = c[k - 1]
  BY <1>3 DEF Path, LeadsTo
<1>5. PathKept(row, c, k) /\ (phase # "idle" => PathKept(runs, c, k))
  BY <1>3 DEF PathInv
<1>6. \A m \in Nodes : runs[m].status = "completed" /\ phase # "idle" =>
          row[m] = runs[m] /\ row'[m] = runs[m]
  BY <1>0, <1>2 DEF CopyInv, CompletedStays
<1>7. \A m \in Nodes : row[m].status = "none" /\ row'[m].status # "none" =>
          phase # "idle" /\ Runnable(m)
  <2> SUFFICES ASSUME NEW m \in Nodes, row[m].status = "none", row'[m].status # "none"
               PROVE  phase # "idle" /\ Runnable(m)
    OBVIOUS
  <2>1. step[m] = "begin"
    <3>1. ~Keeps(m) /\ ~Turns(m)
      BY DEF Keeps, Turns
    <3>2. ~Completes(m)
      BY <1>0 DEF Completes, StepInv, At
    <3> QED BY <3>1, <3>2, RowSteps DEF Begins
  <2> QED BY <1>0, <2>1 DEF StepInv, CopyInv
<1>8. ASSUME NEW i \in 1..k, NEW j \in 1..k, j < i, row'[c[i]].status # "none"
      PROVE  row'[c[j]].status = "completed"
  <2>1. CASE row[c[i]].status # "none"
    BY <1>2, <1>4, <1>5, <1>8, <2>1 DEF PathKept, CompletedStays
  <2>2. CASE row[c[i]].status = "none"
    <3>1. phase # "idle" /\ Runnable(c[i])
      BY <1>4, <1>7, <1>8, <2>2
    <3>2. runs[c[j]].status = "completed"
      BY <1>3, <1>4, <1>5, <1>8, <3>1, RunnableOnPath
    <3> QED BY <1>4, <1>6, <3>1, <3>2
  <2> QED BY <2>1, <2>2
<1>9. ASSUME NEW m \in Aside(c, k), row'[m].status # "none"
      PROVE  \/ row'[c[k]].status = "completed"
             \/ /\ k > 1 /\ row'[c[k - 1]].status = "completed"
                /\ \A d \in Incoming(wf, c[k]) : ~Taken(row', d)
  <2>0. m \in Nodes
    BY DEF Aside
  <2>1. CASE row[m].status # "none"
    <3>1. CASE row[c[k]].status = "completed"
      BY <1>2, <1>4, <3>1 DEF CompletedStays
    <3>2. CASE row[c[k]].status # "completed"
      <4>1. /\ k > 1 /\ row[c[k - 1]].status = "completed"
            /\ \A d \in Incoming(wf, c[k]) : ~Taken(row, d)
        BY <1>5, <2>1, <3>2 DEF PathKept
      <4>2. row'[c[k - 1]] = row[c[k - 1]]
        BY <1>2, <1>4, <4>1 DEF CompletedStays
      <4> QED BY <1>4, <4>1, <4>2 DEF Taken, CardinalityFor
    <3> QED BY <3>1, <3>2
  <2>2. CASE row[m].status = "none"
    <3>1. phase # "idle" /\ Runnable(m)
      BY <1>7, <1>9, <2>0, <2>2
    <3>2. \/ runs[c[k]].status = "completed"
          \/ /\ k > 1 /\ runs[c[k - 1]].status = "completed"
             /\ \A d \in Incoming(wf, c[k]) : ~Taken(runs, d)
      BY <1>3, <1>5, <2>0, <3>1, RunnableOnPath
    <3>3. CASE runs[c[k]].status = "completed"
      BY <1>4, <1>6, <3>1, <3>3
    <3>4. CASE /\ k > 1 /\ runs[c[k - 1]].status = "completed"
               /\ \A d \in Incoming(wf, c[k]) : ~Taken(runs, d)
      <4>1. row'[c[k - 1]] = runs[c[k - 1]]
        BY <1>4, <1>6, <3>1, <3>4
      <4> QED BY <1>4, <3>4, <4>1 DEF Taken, CardinalityFor
    <3> QED BY <3>2, <3>3, <3>4
  <2> QED BY <2>1, <2>2
<1>10. PathKept(row, c, k)'
  BY <1>1, <1>8, <1>9 DEF PathKept, Aside, Incoming, Taken, CardinalityFor, OfRows
<1>11. ASSUME phase' # "idle" PROVE PathKept(runs, c, k)'
  <2>1. CASE runs' = runs /\ phase # "idle"
    BY <1>1, <1>5, <2>1 DEF PathKept, Aside, Incoming, Taken, CardinalityFor, OfRows
  <2>2. CASE runs' = row'
    BY <1>10, <2>2 DEF PathKept, Taken, CardinalityFor, OfRows
  <2>3. CASE BatchCompleted
    <3>1. \A m \in Nodes : runs'[m] = row[m]
      BY <1>0, <2>3 DEF BatchCompleted, CopyInv, Batch, Joined
    <3>2. DOMAIN row = Nodes /\ runs' = [m \in Nodes |-> row[m]] /\ row' = row
      BY <1>0, <2>3, <3>1 DEF BatchCompleted, durable
    <3>3. runs' = row'
      BY <1>0, <3>2
    <3> QED BY <2>2, <3>3
  <2>4. CASE ~BatchCompleted
    <3>1. (runs' = runs /\ phase # "idle") \/ runs' = row' \/ phase' = "idle"
      BY <1>0, <2>4 DEF Next, RunnerStep, NodeStep, Fault, vars, Start, NothingRunnable, OverBudget,
         Launch, BatchError, BatchFailed, Pause, Resume, Crash, Begin, Inline, Interrupt,
         Guard, Query, CompleteNode, AddBudget, FailNode, Cancel, PolicyRefuses, Reject,
         StatementError, Frame, Return, durable
    <3> QED BY <1>11, <2>1, <2>2, <3>1
  <2> QED BY <2>3, <2>4
<1> QED BY <1>10, <1>11

\* Then nothing is left running outside the batch.
SettleInv ==
    \A n \in Nodes : step[n] = "out" /\ (phase # "idle" \/ outcome # "error") =>
        row[n].status # "running"

\* Every step keeps the runner from returning while a node still runs.
LEMMA SettleStep ==
    ASSUME WorkflowIInv, InterruptsAlone, SettleInv, [Next]_vars
    PROVE  SettleInv'
<1>0. /\ Typed /\ StepInv /\ RestInv /\ row \in [Nodes -> NodeRow] /\ step \in [Nodes -> Steps]
  BY DEF WorkflowIInv, Typed, TypeOK, Steps
<1>1. CASE UNCHANGED vars
  BY <1>1 DEF vars, SettleInv, Nodes
<1>2. ASSUME NEW n \in Nodes, NodeStep(n) \/ PolicyRefuses(n) \/ Reject(n) \/ StatementError(n)
      PROVE  SettleInv'
  <2>1. /\ wf' = wf /\ phase' = phase /\ outcome' = outcome /\ step[n] # "out"
        /\ \E s \in Steps \ {"out"} : step' = [step EXCEPT ![n] = s]
        /\ row' = row \/ \E r : row' = [row EXCEPT ![n] = r]
    BY <1>2 DEF NodeStep, Begin, Inline, Interrupt, Guard, Query, CompleteNode, AddBudget, FailNode,
                Cancel, PolicyRefuses, Reject, StatementError, Polled, Frame, Steps, Ended, FailedRow
  <2>2. \A m \in Nodes : step'[m] = "out" => step[m] = "out" /\ row'[m] = row[m]
    BY <1>0, <2>1
  <2>3. phase # "idle"
    BY <1>0, <2>1 DEF StepInv
  <2> QED BY <2>1, <2>2, <2>3 DEF SettleInv, Nodes
<1>3. CASE Start \/ NothingRunnable \/ OverBudget \/ Launch
  <2>1. wf' = wf /\ row' = row /\ phase # "batch"
    BY <1>3 DEF Start, NothingRunnable, OverBudget, Launch, durable
  <2>2. \A m \in Nodes : step[m] = "out"
    BY <1>0, <2>1 DEF StepInv
  <2>3. phase # "idle" \/ outcome # "error"
    BY <1>3 DEF Start, NothingRunnable, OverBudget, Launch
  <2> QED BY <2>1, <2>2, <2>3 DEF SettleInv, Nodes
<1>4. CASE BatchError \/ Crash
  <2>1. phase' = "idle" /\ outcome' = "error"
    BY <1>4 DEF BatchError, Crash, Return
  <2> QED BY <2>1 DEF SettleInv
<1>5. CASE BatchFailed \/ BatchCompleted
  <2>1. wf' = wf /\ row' = row /\ phase = "batch"
    BY <1>5 DEF BatchFailed, BatchCompleted, Joined, durable
  <2>2. ASSUME NEW m \in Nodes PROVE row[m].status # "running"
    <3>1. CASE step[m] = "out"
      BY <2>1, <3>1 DEF SettleInv
    <3>2. CASE step[m] = "wait"
      <4>1. m \in Batch /\ wf.kind[m] = "interrupt"
        BY <1>0, <3>2 DEF Batch, StepInv
      <4>2. Batch = {m}
        BY <4>1 DEF InterruptsAlone
      <4> QED BY <1>5, <3>2, <4>2 DEF BatchFailed, BatchCompleted, SomeStep
    <3>3. CASE step[m] \notin {"out", "wait"}
      <4>1. step[m] \in {"ok", "failed", "cancelled"}
        BY <1>5, <3>3 DEF BatchFailed, BatchCompleted, Joined, Batch, SomeStep, Ended
      <4> QED BY <1>0, <4>1 DEF StepInv, At
    <3> QED BY <3>1, <3>2, <3>3
  <2> QED BY <2>1, <2>2 DEF SettleInv, Nodes
<1>6. ASSUME NEW n \in Nodes, Pause(n) PROVE SettleInv'
  <2>1. wf' = wf /\ phase = "batch" /\ row' = [row EXCEPT ![n].status = "waiting"] /\ step[n] = "wait"
    BY <1>6 DEF Pause, Joined
  <2>2. ASSUME NEW m \in Nodes PROVE row'[m].status # "running"
    <3>1. CASE m = n
      BY <1>0, <2>1, <3>1 DEF NodeRow
    <3>2. CASE m # n /\ step[m] = "out"
      <4>1. row'[m] = row[m]
        BY <1>0, <2>1, <3>2
      <4> QED BY <2>1, <3>2, <4>1 DEF SettleInv
    <3>3. CASE m # n /\ step[m] # "out"
      <4>1. Batch = {n}
        BY <1>0, <2>1 DEF InterruptsAlone, StepInv, Batch
      <4> QED BY <3>3, <4>1 DEF Batch
    <3> QED BY <3>1, <3>2, <3>3
  <2> QED BY <2>1, <2>2 DEF SettleInv, Nodes
<1>7. ASSUME NEW n \in Nodes, Resume(n) PROVE SettleInv'
  <2>1. wf' = wf /\ row' = [row EXCEPT ![n].status = "completed"] /\ phase = "idle"
    BY <1>7 DEF Resume
  <2>2. outcome = "waiting" /\ \A m \in Nodes : step[m] = "out"
    BY <1>0, <1>7 DEF Resume, RestInv, StepInv
  <2>3. \A m \in Nodes : row[m].status # "running"
    BY <2>2 DEF SettleInv
  <2>4. row'[n].status = "completed" /\ \A m \in Nodes \ {n} : row'[m] = row[m]
    BY <1>0, <2>1 DEF NodeRow
  <2> QED BY <2>1, <2>3, <2>4 DEF SettleInv, Nodes
<1> QED BY <1>1, <1>2, <1>3, <1>4, <1>5, <1>6, <1>7 DEF Next, RunnerStep, Fault

\* "cancels in-flight siblings ...; no partial result is composed": where
\* nothing can run beside a question, as in the workflows compile_with_facts
\* emits, a run that returns has settled every node it began, and one that
\* completed has no failed node.
THEOREM RunSettlesAll ==
    ASSUME \A w \in Workflows : AsksAlone(w)
    PROVE  Spec => []SettledWhenReturned
<1>1. Init => WorkflowIInv /\ SettleInv /\ PathInv
  <2>1. ASSUME Init PROVE SettleInv
    BY <2>1 DEF Init, SettleInv, NoRow
  <2>2. ASSUME Init PROVE PathInv
    <3>1. (\A m \in Nodes : row[m].status = "none") /\ phase = "idle"
      BY <2>2 DEF Init, NoRow
    <3> QED BY <3>1 DEF PathInv, PathKept, Aside
  <2> QED BY <2>1, <2>2, WorkflowInit
<1>2. WorkflowIInv /\ [Next]_vars => WorkflowIInv'
  BY WorkflowStep
<1>3. WorkflowIInv /\ PathInv /\ [Next]_vars => PathInv'
  BY PathStep
<1>4. WorkflowIInv /\ PathInv => InterruptsAlone
  BY PathsAlone DEF WorkflowIInv, Typed, TypeOK
<1>5. WorkflowIInv /\ PathInv /\ SettleInv /\ [Next]_vars => SettleInv'
  BY <1>4, SettleStep
<1>6. ASSUME WorkflowIInv, SettleInv PROVE SettledWhenReturned
  <2>1. outcome # "none" => phase = "idle"
    BY <1>6 DEF WorkflowIInv, RestInv
  <2>2. outcome # "none" => \A n \in Nodes : step[n] = "out"
    BY <1>6, <2>1 DEF WorkflowIInv, StepInv
  <2>3. outcome = "completed" => \A n \in Nodes : row[n].status # "failed"
    BY <1>6, <2>2 DEF WorkflowIInv, RestInv
  <2>4. outcome \in {"completed", "failed", "waiting"} => \A n \in Nodes : row[n].status # "running"
    BY <1>6, <2>2 DEF SettleInv
  <2> QED BY <2>3, <2>4 DEF SettledWhenReturned
<1> QED BY <1>1, <1>2, <1>3, <1>5, <1>6, PTL DEF Spec

-----------------------------------------------------------------------------
(* Branches *)

\* Every step keeps what is known of the decisions.
LEMMA DecisionStep ==
    ASSUME WorkflowIInv, DecisionInv, [Next]_vars
    PROVE  DecisionInv'
<1>0. /\ Typed /\ TypeOK /\ StepInv /\ RestInv /\ CopyInv
      /\ row \in [Nodes -> NodeRow] /\ runs \in [Nodes -> NodeRow]
      /\ wf.source \in [Nodes -> Nodes]
  BY InstalledWorkflow DEF WorkflowIInv, Typed, TypeOK
<1>1. wf' = wf /\ Nodes' = Nodes
  BY WorkflowFixed
<1>2. CompletedStays
  BY StepKeepsCompleted
<1>3. SUFFICES ASSUME NEW n \in Nodes
               PROVE  /\ wf.kind[n] # "branch" => row'[n].decision = "none"
                      /\ wf.kind[n] = "branch" /\ row'[n].status = "completed" /\ Incoming(wf, n) # {}
                           /\ wf.kind[wf.source[n]] # "branch"
                           /\ (\A e \in Incoming(wf, n) : e.from = wf.source[n]) =>
                             /\ row'[wf.source[n]].status = "completed"
                             /\ row'[n].decision = OfRows(row'[wf.source[n]].rows)
  <2>1. DecisionInv' <=>
          \A n \in Nodes :
              /\ wf.kind[n] # "branch" => row'[n].decision = "none"
              /\ wf.kind[n] = "branch" /\ row'[n].status = "completed" /\ Incoming(wf, n) # {}
                   /\ wf.kind[wf.source[n]] # "branch"
                   /\ (\A e \in Incoming(wf, n) : e.from = wf.source[n]) =>
                     /\ row'[wf.source[n]].status = "completed"
                     /\ row'[n].decision = OfRows(row'[wf.source[n]].rows)
    BY <1>1 DEF DecisionInv, Incoming, OfRows
  <2> QED BY <2>1
<1>4. wf.source[n] \in Nodes
  BY <1>0
<1>5. CASE row'[n] = row[n]
  BY <1>2, <1>4, <1>5 DEF DecisionInv, CompletedStays
<1>6. CASE Begins(n)
  BY <1>6 DEF Begins, NoRow
<1>7. CASE Completes(n)
  <2>1. wf.kind[n] # "branch" => row'[n].decision = "none"
    BY <1>7 DEF Completes
  <2>2. ASSUME wf.kind[n] = "branch", Incoming(wf, n) # {}, wf.kind[wf.source[n]] # "branch",
               \A e \in Incoming(wf, n) : e.from = wf.source[n]
        PROVE  /\ row'[wf.source[n]].status = "completed"
               /\ row'[n].decision = OfRows(row'[wf.source[n]].rows)
    <3>1. Runnable(n) /\ phase = "batch"
      BY <1>0, <1>7 DEF Completes, CopyInv, StepInv
    <3>2. runs[wf.source[n]].status = "completed"
      BY <2>2, <3>1 DEF Runnable
    <3>3. row[wf.source[n]] = runs[wf.source[n]]
      BY <1>0, <1>4, <3>1, <3>2 DEF CopyInv
    <3>4. row'[wf.source[n]] = row[wf.source[n]]
      BY <1>2, <1>4, <3>2, <3>3 DEF CompletedStays
    <3>5. row[wf.source[n]].decision = "none"
      BY <1>4, <2>2 DEF DecisionInv
    <3>6. row'[n].decision = CardinalityFor(runs, wf.source[n])
      BY <1>7, <2>2 DEF Completes
    <3> QED BY <3>2, <3>3, <3>4, <3>5, <3>6 DEF CardinalityFor
  <2> QED BY <2>1, <2>2
<1>8. CASE Turns(n)
  <2>1. PICK s \in {"failed", "waiting", "completed"} :
            row'[n] = [row[n] EXCEPT !.status = s] /\ (s = "completed" => wf.kind[n] = "interrupt")
    BY <1>8 DEF Turns
  <2>2. row'[n].decision = row[n].decision /\ row'[n].status = s
    BY <1>0, <2>1 DEF NodeRow
  <2> QED BY <2>1, <2>2 DEF DecisionInv
<1> QED BY <1>5, <1>6, <1>7, <1>8, RowSteps DEF Keeps

\* Every step keeps the arms of a branch apart.
LEMMA ArmsStep ==
    ASSUME WorkflowIInv, DecisionInv, ArmsExclusive, DecidesOnSource(wf), [Next]_vars
    PROVE  ArmsExclusive'
<1>0. /\ Typed /\ TypeOK /\ StepInv /\ CopyInv
      /\ row \in [Nodes -> NodeRow] /\ runs \in [Nodes -> NodeRow]
      /\ wf.source \in [Nodes -> Nodes]
      /\ wf.edges \subseteq [from : Nodes, to : Nodes,
                             when : Cardinalities \union {"always", "answered"}]
  BY InstalledWorkflow DEF WorkflowIInv, Typed, TypeOK
<1>1. wf' = wf /\ Nodes' = Nodes
  BY WorkflowFixed
<1>2. CompletedStays
  BY StepKeepsCompleted
<1> DEFINE Holds(e) == /\ row[e.from].status = "completed"
                       /\ e.when \in Cardinalities => OfRows(row[wf.source[e.from]].rows) = e.when
           Held(e) == /\ row'[e.from].status = "completed"
                      /\ e.when \in Cardinalities => OfRows(row'[wf.source[e.from]].rows) = e.when
<1>3. ASSUME NEW e \in wf.edges, e.when \in Cardinalities, row[e.from].status = "completed"
      PROVE  /\ row[wf.source[e.from]].status = "completed"
             /\ CardinalityFor(row, e.from) = OfRows(row[wf.source[e.from]].rows)
  <2>1. e.from \in Nodes
    BY <1>0
  <2>2. wf.kind[wf.source[e.from]] # "branch"
    BY <1>3 DEF DecidesOnSource
  <2>3. CASE wf.source[e.from] = e.from
    BY <1>3, <2>1, <2>2, <2>3 DEF DecisionInv, CardinalityFor
  <2>4. CASE /\ wf.kind[e.from] = "branch" /\ Incoming(wf, e.from) # {}
             /\ \A d \in Incoming(wf, e.from) : d.from = wf.source[e.from]
    <3>1. /\ row[wf.source[e.from]].status = "completed"
          /\ row[e.from].decision = OfRows(row[wf.source[e.from]].rows)
      BY <1>3, <2>1, <2>2, <2>4 DEF DecisionInv
    <3> QED BY <3>1 DEF CardinalityFor, OfRows
  <2> QED BY <1>3, <2>3, <2>4 DEF DecidesOnSource
<1>4. ASSUME NEW e \in wf.edges, Holds(e) PROVE Held(e)
  <2>1. e.from \in Nodes /\ wf.source[e.from] \in Nodes
    BY <1>0
  <2>2. row'[e.from] = row[e.from]
    BY <1>2, <1>4, <2>1 DEF CompletedStays
  <2>3. e.when \in Cardinalities => row'[wf.source[e.from]] = row[wf.source[e.from]]
    BY <1>2, <1>3, <1>4, <2>1 DEF CompletedStays
  <2> QED BY <1>4, <2>2, <2>3
<1>5. ASSUME NEW n \in Nodes, Begins(n), Incoming(wf, n) # {}
      PROVE  \E e \in Incoming(wf, n) : Holds(e)
  <2>1. Runnable(n) /\ phase = "batch"
    BY <1>0, <1>5 DEF Begins, CopyInv, StepInv
  <2>2. PICK e \in Incoming(wf, n) : runs[e.from].status = "completed" /\ EdgeMatches(e)
    BY <1>5, <2>1 DEF Runnable
  <2>3. e \in wf.edges /\ e.from \in Nodes
    BY <1>0 DEF Incoming
  <2>4. row[e.from] = runs[e.from]
    BY <1>0, <2>1, <2>2, <2>3 DEF CopyInv
  <2>5. e.when \in Cardinalities => CardinalityFor(row, e.from) = e.when
    BY <2>2, <2>4 DEF EdgeMatches, CardinalityFor
  <2>6. Holds(e)
    BY <1>3, <2>2, <2>3, <2>4, <2>5
  <2> QED BY <2>6
<1>6. ASSUME NEW n \in Nodes, attempts'[n] > 0, Incoming(wf, n) # {}
      PROVE  \E e \in Incoming(wf, n) : Held(e)
  <2>1. Begins(n) \/ attempts'[n] = attempts[n]
    BY RowSteps DEF Keeps, Completes, Turns
  <2>2. \E e \in Incoming(wf, n) : Holds(e)
    BY <1>5, <1>6, <2>1 DEF ArmsExclusive
  <2> QED BY <1>4, <2>2 DEF Incoming
<1> QED BY <1>1, <1>6 DEF ArmsExclusive, Incoming, OfRows

\* A node behind a branch is begun only on the arm that the number of rows
\* its source really returned selects, in every workflow whose branches
\* decide on the node before them.
THEOREM OneArm ==
    ASSUME \A w \in Workflows : DecidesOnSource(w)
    PROVE  Spec => []ArmsExclusive
<1>1. Init => WorkflowIInv /\ DecisionInv /\ ArmsExclusive
  <2>1. ASSUME Init PROVE DecisionInv
    BY <2>1 DEF Init, DecisionInv, NoRow
  <2>2. ASSUME Init PROVE ArmsExclusive
    BY <2>2 DEF Init, ArmsExclusive
  <2> QED BY <2>1, <2>2, WorkflowInit
<1>2. WorkflowIInv /\ [Next]_vars => WorkflowIInv'
  BY WorkflowStep
<1>3. WorkflowIInv /\ DecisionInv /\ [Next]_vars => DecisionInv'
  BY DecisionStep
<1>4. WorkflowIInv => DecidesOnSource(wf)
  BY DEF WorkflowIInv, Typed, TypeOK
<1>5. WorkflowIInv /\ DecisionInv /\ ArmsExclusive /\ [Next]_vars => ArmsExclusive'
  BY <1>4, ArmsStep
<1> QED BY <1>1, <1>2, <1>3, <1>5, PTL DEF Spec

-----------------------------------------------------------------------------
(* The ledger *)

\* What is accounted for costs the same when its rows are the same.
LEMMA SameAccount ==
    ASSUME wf' = wf, Accounted' = Accounted, \A m \in Accounted : row'[m] = row[m]
    PROVE  Total(Used(row), Accounted)' = Total(Used(row), Accounted)
<1>1. \A m \in Accounted : m \in Nodes
  BY DEF Accounted, Completed
<1>2. Nodes' = Nodes
  BY DEF Nodes
<1>3. \A m \in Accounted : Used(row)'[m] = Used(row)[m]
  BY <1>1, <1>2 DEF Used
<1>4. Total(Used(row)', Accounted) = Total(Used(row), Accounted)
  BY <1>3, TotalSame
<1> QED BY <1>4

\* The steps of execute_node but the update of the ledger do not touch what
\* is accounted.
LEMMA NodeAccount ==
    ASSUME WorkflowIInv, WorkflowIInv', NEW n \in Nodes, wf' = wf,
           step[n] \in {"begin", "execute", "query", "complete", "ledger", "fail"},
           NEW s \in Steps \ {"out", "ok"}, step' = [step EXCEPT ![n] = s],
           \A m \in Nodes \ {n} : row'[m] = row[m]
    PROVE  Accounted' = Accounted /\ \A m \in Accounted : row'[m] = row[m]
<1>1. Nodes' = Nodes
  BY DEF Nodes
<1>2. step'[n] = s /\ \A m \in Nodes \ {n} : step'[m] = step[m]
  BY DEF WorkflowIInv, Typed, TypeOK
<1>3. n \notin Accounted
  BY DEF WorkflowIInv, StepInv, At, Accounted, Completed
<1>4. At(step[n], row[n].status)'
  BY <1>1 DEF WorkflowIInv, StepInv
<1>5. At(s, row'[n].status)
  BY <1>2, <1>4 DEF At
<1>6. n \notin Accounted'
  BY <1>2, <1>5 DEF Accounted, Completed, At, Steps, Ended
<1>7. \A m \in Nodes \ {n} : m \in Accounted' <=> m \in Accounted
  BY <1>1, <1>2 DEF Accounted, Completed
<1>8. Accounted \subseteq Nodes /\ Accounted' \subseteq Nodes
  BY <1>1 DEF Accounted, Completed
<1> QED BY <1>3, <1>6, <1>7, <1>8

\* Every step books what it completes, once.
LEMMA LedgerStep ==
    ASSUME WorkflowIInv, WorkflowIInv', LedgerInv, [Next]_vars
    PROVE  LedgerInv'
<1>0. /\ Typed /\ TypeOK /\ StepInv /\ RestInv
      /\ row \in [Nodes -> NodeRow] /\ step \in [Nodes -> Steps]
  BY DEF WorkflowIInv, Typed, TypeOK, Steps
<1>1. wf' = wf /\ Nodes' = Nodes
  BY WorkflowFixed
<1>2. ASSUME ledger' = ledger, pauses' = pauses, phase # "idle" \/ outcome # "error",
             Accounted' = Accounted, \A m \in Accounted : row'[m] = row[m]
      PROVE  LedgerInv'
  BY <1>1, <1>2, SameAccount DEF LedgerInv
<1>3. ASSUME row' = row, \A m \in Nodes : step[m] \notin {"ledger", "err"},
             \A m \in Nodes : step'[m] \notin {"ledger", "err"}
      PROVE  Accounted' = Accounted /\ \A m \in Accounted : row'[m] = row[m]
  BY <1>1, <1>3 DEF Accounted, Completed
<1>4. CASE UNCHANGED vars
  BY <1>4 DEF vars, LedgerInv, Accounted, Completed, Used, Nodes
<1>5. ASSUME NEW n \in Nodes, NodeStep(n) \/ PolicyRefuses(n) \/ Reject(n) \/ StatementError(n),
             ~AddBudget(n)
      PROVE  LedgerInv'
  <2>1. /\ step[n] \in {"begin", "execute", "query", "complete", "ledger", "fail"}
        /\ \E s \in Steps \ {"out", "ok"} : step' = [step EXCEPT ![n] = s]
        /\ row' = row \/ \E r : row' = [row EXCEPT ![n] = r]
        /\ ledger' = ledger /\ pauses' = pauses
    BY <1>5 DEF NodeStep, Begin, Inline, Interrupt, Guard, Query, CompleteNode, FailNode,
                Cancel, PolicyRefuses, Reject, StatementError, Polled, Frame, Steps, Ended, FailedRow
  <2>2. \A m \in Nodes \ {n} : row'[m] = row[m]
    BY <1>0, <2>1
  <2>3. Accounted' = Accounted /\ \A m \in Accounted : row'[m] = row[m]
    BY <1>1, <2>1, <2>2, NodeAccount
  <2>4. phase # "idle"
    BY <1>0, <2>1 DEF StepInv
  <2> QED BY <1>2, <2>1, <2>3, <2>4
<1>6. ASSUME NEW n \in Nodes, AddBudget(n) PROVE LedgerInv'
  <2>1. /\ step[n] = "ledger" /\ step' = [step EXCEPT ![n] = "ok"] /\ row' = row
        /\ ledger' = Plus(ledger, Used(row)[n]) /\ pauses' = pauses
    BY <1>6 DEF AddBudget, Frame
  <2>2. row[n].status = "completed" /\ phase = "batch"
    BY <1>0, <2>1 DEF StepInv, At
  <2>3. Accounted' = Accounted \union {n} /\ n \notin Accounted /\ Accounted \in SUBSET Nodes
    BY <1>0, <1>1, <2>1, <2>2 DEF Accounted, Completed
  <2>4. Used(row)' = Used(row)
    BY <1>1, <2>1 DEF Used
  <2>5. Used(row) \in [Nodes -> Costs] /\ IsFiniteSet(Accounted)
    BY <1>0, <2>3, UsedType
  <2>6. IsFiniteSet({n}) /\ Accounted \cap {n} = {}
    BY <2>3, FS_Singleton
  <2>7. \A m \in Accounted \union {n} : Used(row)[m] \in Costs
    BY <2>3, <2>5
  <2>8. Total(Used(row), Accounted \union {n})
          = Plus(Total(Used(row), Accounted), Total(Used(row), {n}))
    BY <2>5, <2>6, <2>7, TotalUnion
  <2>9. Total(Used(row), {n}) = Used(row)[n]
    BY <2>7, TotalSingle
  <2>10. Total(Used(row), Accounted)' = Total(Used(row), Accounted \union {n})
    BY <2>3, <2>4
  <2>11. pauses = 0 => ledger = Total(Used(row), Accounted)
    BY <2>2 DEF LedgerInv
  <2> QED BY <2>1, <2>8, <2>9, <2>10, <2>11 DEF LedgerInv
<1>7. CASE Start \/ NothingRunnable \/ OverBudget \/ Launch
  <2>1. /\ row' = row /\ ledger' = ledger /\ pauses' = pauses /\ phase # "batch"
        /\ phase # "idle" \/ outcome # "error"
    BY <1>7 DEF Start, NothingRunnable, OverBudget, Launch, durable
  <2>2. \A m \in Nodes : step[m] = "out"
    BY <1>0, <2>1 DEF StepInv
  <2>3. \A m \in Nodes : step'[m] \in {"out", "begin"}
    BY <1>7, <2>2 DEF Start, NothingRunnable, OverBudget, Launch, Return
  <2> QED BY <1>2, <1>3, <2>1, <2>2, <2>3
<1>8. CASE BatchError \/ Crash
  <2>1. phase' = "idle" /\ outcome' = "error"
    BY <1>8 DEF BatchError, Crash, Return
  <2> QED BY <2>1 DEF LedgerInv
<1>9. CASE BatchFailed \/ BatchCompleted
  <2>1. row' = row /\ ledger' = ledger /\ pauses' = pauses /\ phase = "batch"
    BY <1>9 DEF BatchFailed, BatchCompleted, Joined, durable
  <2>2. \A m \in Nodes : step[m] \notin {"ledger", "err"}
    BY <1>9 DEF BatchFailed, BatchCompleted, Joined, Batch, SomeStep, Ended
  <2>3. \A m \in Nodes : step'[m] = "out"
    BY <1>9 DEF BatchFailed, BatchCompleted, Return
  <2> QED BY <1>2, <1>3, <2>1, <2>2, <2>3
<1>10. CASE \E n \in Nodes : Pause(n) \/ Resume(n)
  <2>1. pauses' # 0
    BY <1>0, <1>10 DEF Pause, Resume, RestInv, Typed
  <2> QED BY <2>1 DEF LedgerInv
<1> QED BY <1>4, <1>5, <1>6, <1>7, <1>8, <1>9, <1>10 DEF Next, RunnerStep, Fault, NodeStep

\* "concurrent node completions serialize on Postgres's row lock instead of
\* racing": in every workflow, until the first pause, when a run has
\* returned without an error the ledger on the job row is what the completed
\* nodes used, in whatever order add_budget_consumed was called for them.
THEOREM LedgerIsExact == Spec => []LedgerExact
<1>1. Init => WorkflowIInv /\ LedgerInv
  <2>1. ASSUME Init PROVE LedgerInv
    <3>1. Accounted = {} /\ ledger = Free
      BY <2>1 DEF Init, Accounted, Completed, NoRow
    <3> QED BY <3>1, TotalEmpty DEF LedgerInv
  <2> QED BY <2>1, WorkflowInit
<1>2. WorkflowIInv /\ [Next]_vars => WorkflowIInv'
  BY WorkflowStep
<1>3. WorkflowIInv /\ WorkflowIInv' /\ LedgerInv /\ [Next]_vars => LedgerInv'
  BY LedgerStep
<1>4. ASSUME WorkflowIInv, LedgerInv PROVE LedgerExact
  <2>1. outcome # "none" => \A n \in Nodes : step[n] = "out"
    BY <1>4 DEF WorkflowIInv, RestInv, StepInv
  <2>2. outcome # "none" => Accounted = Completed(row)
    BY <2>1 DEF Accounted, Completed
  <2> QED BY <1>4, <2>2 DEF LedgerInv, LedgerExact, FromCompleted
<1> QED BY <1>1, <1>2, <1>3, <1>4, PTL DEF Spec

-----------------------------------------------------------------------------
(* The budget *)

\* The loop that fills a batch ends, and what it took fits.
LEMMA BatchFits ==
    ASSUME TypeOK
    PROVE  BatchSize \in Nat /\ (BatchSize > 0 => Fits(BatchSize))
<1> DEFINE most == Cardinality(RunnableNodes)
           parallel == IF wf.limits.parallel > 1 THEN wf.limits.parallel ELSE 1
           Good(k) == /\ k <= parallel /\ \A i \in 1..k : Fits(i)
                      /\ k \in {most, parallel} \/ ~Fits(k + 1)
           T == {k \in Nat : k \in {most, parallel} \/ ~Fits(k + 1)}
<1>1. most \in Nat
  <2>1. Len(wf.order) \in Nat /\ DOMAIN wf.order = 1..Len(wf.order)
    BY InstalledWorkflow
  <2>2. IsFiniteSet(1..Len(wf.order)) /\ RunnableNodes \in SUBSET (1..Len(wf.order))
    BY <2>1, FS_Interval DEF RunnableNodes
  <2>3. IsFiniteSet(RunnableNodes)
    BY <2>2, FS_Subset
  <2> QED BY <2>3, FS_CardinalityType
<1>2. parallel \in Nat
  BY InstalledWorkflow
<1>3. BatchSize = CHOOSE k \in 0..most : Good(k)
  BY DEF BatchSize
<1> HIDE DEF most, parallel
<1>4. PICK k \in T : \A j \in T : k <= j
  <2>1. T \in SUBSET Nat /\ most \in T
    BY <1>1
  <2> HIDE DEF T
  <2> QED BY <2>1, LeastNatural
<1>5. k <= most /\ k <= parallel /\ k \in Nat
  BY <1>1, <1>2, <1>4
<1>6. ASSUME NEW i \in 1..k PROVE Fits(i)
  <2>1. i - 1 \in Nat /\ ~(k <= i - 1)
    BY <1>5
  <2>2. i - 1 \notin T
    BY <1>4, <2>1
  <2>3. (i - 1) + 1 = i
    BY <1>5
  <2> QED BY <2>1, <2>2, <2>3
<1>7. Good(k) /\ k \in 0..most
  BY <1>1, <1>4, <1>5, <1>6
<1>8. BatchSize \in 0..most /\ Good(BatchSize)
  <2> HIDE DEF Good
  <2> QED BY <1>3, <1>7
<1>9. BatchSize \in Nat
  BY <1>1, <1>8
<1>10. ASSUME BatchSize > 0 PROVE Fits(BatchSize)
  <2>1. BatchSize \in 1..BatchSize
    BY <1>9, <1>10
  <2> QED BY <1>8, <2>1
<1> QED BY <1>9, <1>10

\* In the middle of a batch: the begun nodes are the completed ones of the
\* runner's copy, those of the batch, and interrupts.
LEMMA BatchWithinBudget ==
    ASSUME WorkflowIInv, BudgetInv, phase = "batch", AsksFree(wf)
    PROVE  WithinBudget
<1>0. /\ TypeOK /\ RowInv /\ StepInv /\ CopyInv /\ RestInv
      /\ row \in [Nodes -> NodeRow] /\ runs \in [Nodes -> NodeRow] /\ consumed \in Costs
      /\ attempts \in [Nodes -> Nat]
  BY DEF WorkflowIInv, Typed, TypeOK, Costs
<1>1. /\ wf.budget \in [Nodes -> Costs] /\ IsFiniteSet(Nodes)
      /\ wf.limits.queries \in Nat /\ wf.limits.rows \in Nat /\ wf.limits.ms \in Nat
  BY <1>0, InstalledWorkflow
<1> DEFINE C == Completed(runs)
           U == C \union Batch
           D == Completed(row) \cap Batch
<1>2. C \in SUBSET Nodes /\ Batch \in SUBSET Nodes /\ U \in SUBSET Nodes /\ D \in SUBSET Nodes
  BY DEF Completed, Batch
<1>3. C \cap Batch = {}
  BY <1>0 DEF CopyInv, Completed, Batch
<1>4. \A n \in Nodes \ Batch : runs[n] = row[n]
  BY <1>0 DEF CopyInv, Batch
<1>5. IsFiniteSet(C) /\ IsFiniteSet(Batch) /\ IsFiniteSet(U) /\ IsFiniteSet(D) /\ IsFiniteSet(Nodes \ U)
  BY <1>1, <1>2, FS_Subset, FS_Difference
<1>6. Total(Used(runs), C) = consumed /\ Within(Plus(consumed, Total(wf.budget, Batch)))
  BY DEF BudgetInv, FromCompleted
<1>7. Total(wf.budget, Batch) \in Costs
  BY <1>0, <1>2, UsedType
<1>8. SumOver([n \in Nodes |-> attempts[n] * wf.budget[n].queries], Nodes) <= wf.limits.queries
  <2> DEFINE f == [n \in Nodes |-> attempts[n] * wf.budget[n].queries]
             g == [n \in Nodes |-> IF n \in U THEN wf.budget[n].queries ELSE 0]
  <2>1. ASSUME NEW n \in Nodes
        PROVE  f[n] \in Nat /\ g[n] \in Nat /\ f[n] <= g[n]
    <3>1. wf.budget[n].queries \in Nat
      BY <1>1 DEF Costs
    <3>2. attempts[n] = 0 \/ attempts[n] = 1
      BY <1>0 DEF RowInv, Counted
    <3>3. CASE n \in U
      BY <3>1, <3>2, <3>3
    <3>4. CASE n \notin U
      <4>1. row[n].status # "completed" /\ step[n] = "out"
        BY <1>2, <1>4, <3>4 DEF Completed, Batch
      <4>2. row[n].status \in {"none", "running", "waiting"}
        BY <1>0, <4>1 DEF RestInv, NodeRow
      <4>3. row[n].status # "none" => wf.kind[n] = "interrupt"
        BY <1>0, <4>1, <4>2 DEF RestInv
      <4>4. attempts[n] = 0 \/ wf.budget[n].queries = 0
        BY <1>0, <4>3 DEF RowInv, Counted, AsksFree, Nodes
      <4>5. f[n] = 0 /\ g[n] = 0
        BY <3>1, <3>2, <3>4, <4>4
      <4> QED BY <4>5
    <3> QED BY <3>3, <3>4
  <2>2. f \in [Nodes -> Nat] /\ g \in [Nodes -> Nat]
    BY <2>1
  <2>3. \A n \in Nodes : f[n] <= g[n]
    BY <2>1
  <2>4. [n \in U |-> g[n]] = [n \in U |-> wf.budget[n].queries]
    BY <1>2
  <2>5. [n \in Nodes \ U |-> g[n]] = [n \in Nodes \ U |-> 0]
    OBVIOUS
  <2>6. [n \in Nodes |-> g[n]] = g
    OBVIOUS
  <2> HIDE DEF f, g
  <2>7. SumOver(f, Nodes) <= SumOver(g, Nodes)
    BY <1>1, <2>2, <2>3, SumLeq
  <2>8. Nodes = U \union (Nodes \ U) /\ U \cap (Nodes \ U) = {} /\ Nodes \ U \in SUBSET Nodes
    BY <1>2
  <2>9. Part(g, U \union (Nodes \ U)) = Part(g, U) + Part(g, Nodes \ U)
    <3> HIDE DEF U
    <3> QED BY <1>1, <1>2, <2>2, <2>8, SumUnion
  <2>10. Part(g, Nodes \ U) = 0
    BY <1>5, <2>5, SumZero DEF Part
  <2>11. Part(g, Nodes) = SumOver(g, Nodes)
    BY <2>6 DEF Part
  <2>12. Part(g, U) = Total(wf.budget, U).queries
    BY <2>4 DEF Part, Total, Cost
  <2>13. Total(wf.budget, U) = Plus(Total(wf.budget, C), Total(wf.budget, Batch))
    <3>1. \A n \in C \union Batch : wf.budget[n] \in Costs
      BY <1>1, <1>2
    <3> QED BY <1>3, <1>5, <3>1, TotalUnion
  <2>14. Total(wf.budget, C).queries = consumed.queries
    <3>1. [n \in C |-> wf.budget[n].queries] = [n \in C |-> Used(runs)[n].queries]
      BY <1>2 DEF Used, Cost
    <3>2. Total(wf.budget, C).queries = Total(Used(runs), C).queries
      BY <3>1 DEF Total, Cost
    <3> QED BY <1>6, <3>2
  <2>15. Part(g, U) = consumed.queries + Total(wf.budget, Batch).queries
    BY <2>12, <2>13, <2>14 DEF Plus, Cost
  <2>16. consumed.queries + Total(wf.budget, Batch).queries <= wf.limits.queries
    BY <1>6 DEF Within, Plus, Cost
  <2>17. consumed.queries \in Nat /\ Total(wf.budget, Batch).queries \in Nat
    BY <1>0, <1>7 DEF Costs
  <2>18. SumOver(g, Nodes) = Part(g, U)
    <3>1. Part(g, U \union (Nodes \ U)) = Part(g, Nodes)
      BY <2>8
    <3>2. Part(g, U) \in Nat
      BY <2>15, <2>17
    <3> HIDE DEF U
    <3> QED BY <2>9, <2>10, <2>11, <3>1, <3>2
  <2>19. SumOver(f, Nodes) \in Nat
    BY <1>1, <2>2, SumType
  <2>20. SumOver(f, Nodes) <= wf.limits.queries
    BY <1>1, <2>7, <2>15, <2>16, <2>17, <2>18, <2>19
  <2> QED BY <2>20 DEF f
<1>9. ASSUME "overrun" \notin faults PROVE Within(FromCompleted(row))
  <2>1. Completed(row) = C \union D /\ C \cap D = {}
    BY <1>3, <1>4 DEF Completed
  <2>2. Used(row) \in [Nodes -> Costs] /\ Used(runs) \in [Nodes -> Costs]
    BY <1>0, <1>2, UsedType
  <2>3. \A n \in C \union D : Used(row)[n] \in Costs
    BY <1>2, <2>2
  <2>4. Total(Used(row), C \union D) = Plus(Total(Used(row), C), Total(Used(row), D))
    BY <1>5, <2>1, <2>3, TotalUnion
  <2>5. \A n \in C : Used(row)[n] = Used(runs)[n]
    BY <1>2, <1>3, <1>4 DEF Used
  <2>6. Total(Used(row), C) = consumed
    BY <1>6, <2>5, TotalSame
  <2>7. \A n \in D : Used(row)[n] \in Costs /\ wf.budget[n] \in Costs /\ Leq(Used(row)[n], wf.budget[n])
    <3>1. \A n \in Nodes : Used(row)[n].queries = wf.budget[n].queries
                          /\ Used(row)[n].rows = row[n].rows /\ Used(row)[n].ms = row[n].ms
      BY DEF Used, Cost
    <3>2. \A n \in Nodes : row[n].rows <= wf.budget[n].rows /\ row[n].ms <= wf.budget[n].ms
      BY <1>9 DEF BudgetInv
    <3>3. \A n \in Nodes : wf.budget[n] \in Costs /\ wf.budget[n].queries \in Nat
      BY <1>1 DEF Costs
    <3> QED BY <1>2, <2>2, <3>1, <3>2, <3>3 DEF Leq
  <2>8. Leq(Total(Used(row), D), Total(wf.budget, D))
    BY <1>5, <2>7, TotalLeq
  <2>9. Leq(Total(wf.budget, D), Total(wf.budget, Batch))
    <3>1. \A n \in Batch : wf.budget[n] \in Costs
      BY <1>1, <1>2
    <3>2. D \in SUBSET Batch
      OBVIOUS
    <3> QED BY <1>5, <3>1, <3>2, TotalSubset
  <2>10. Total(Used(row), D) \in Costs /\ Total(wf.budget, D) \in Costs
    BY <1>0, <1>2, UsedType
  <2>11. FromCompleted(row) = Plus(consumed, Total(Used(row), D))
    BY <2>1, <2>4, <2>6 DEF FromCompleted
  <2>12. ASSUME NEW a \in Costs, NEW b \in Costs, NEW d \in Costs, NEW e \in Costs,
                Leq(b, d), Leq(d, e), Within(Plus(a, e))
         PROVE  Within(Plus(a, b))
    BY <1>1, <2>12 DEF Within, Plus, Leq, Cost, Costs
  <2> QED BY <1>0, <1>6, <1>7, <2>8, <2>9, <2>10, <2>11, <2>12
<1> QED BY <1>8, <1>9 DEF WithinBudget

\* What the runner counts, and what its batch may use.
LEMMA ConsumedStep ==
    ASSUME WorkflowIInv, BudgetInv, [Next]_vars
    PROVE  /\ (phase # "idle" => consumed = FromCompleted(runs))'
           /\ (phase = "batch" => Within(Plus(consumed, Total(wf.budget, Batch))))'
<1>0. /\ TypeOK /\ StepInv /\ CopyInv
      /\ row \in [Nodes -> NodeRow] /\ runs \in [Nodes -> NodeRow] /\ step \in [Nodes -> Steps]
  BY DEF WorkflowIInv, Typed, TypeOK, Steps
<1>1. wf' = wf /\ Nodes' = Nodes
  BY WorkflowFixed
<1>2. ASSUME runs' = runs PROVE FromCompleted(runs)' = FromCompleted(runs)
  BY <1>1, <1>2 DEF FromCompleted, Used, Completed
<1>3. CASE UNCHANGED vars
  BY <1>3 DEF vars, BudgetInv, FromCompleted, Used, Completed, Nodes, Within, Batch
<1>4. ASSUME NEW n \in Nodes, NodeStep(n) \/ PolicyRefuses(n) \/ Reject(n) \/ StatementError(n)
      PROVE  /\ runs' = runs /\ consumed' = consumed /\ phase' = phase /\ phase = "batch"
             /\ Batch' = Batch
  <2>1. /\ runs' = runs /\ consumed' = consumed /\ phase' = phase /\ step[n] # "out"
        /\ \E s \in Steps \ {"out"} : step' = [step EXCEPT ![n] = s]
    BY <1>4 DEF NodeStep, Begin, Inline, Interrupt, Guard, Query, CompleteNode, AddBudget, FailNode,
                Cancel, PolicyRefuses, Reject, StatementError, Polled, Frame, Steps, Ended
  <2>2. Batch' = Batch
    BY <1>0, <1>1, <2>1 DEF Batch
  <2> QED BY <1>0, <2>1, <2>2 DEF StepInv
<1>5. CASE \E n \in Nodes : NodeStep(n) \/ PolicyRefuses(n) \/ Reject(n) \/ StatementError(n)
  BY <1>1, <1>2, <1>4, <1>5 DEF BudgetInv, Within
<1>6. CASE Start
  <2>1. runs' = row /\ consumed' = FromCompleted(row) /\ phase' = "schedule"
    BY <1>6 DEF Start
  <2>2. FromCompleted(runs)' = FromCompleted(row)
    BY <1>1, <2>1 DEF FromCompleted, Used, Completed
  <2> QED BY <2>1, <2>2
<1>7. CASE NothingRunnable \/ OverBudget \/ BatchError \/ BatchFailed \/ Crash
           \/ \E n \in Nodes : Pause(n) \/ Resume(n)
  <2>1. phase' = "idle"
    BY <1>7 DEF NothingRunnable, OverBudget, BatchError, BatchFailed, Crash, Pause, Resume, Return
  <2> QED BY <2>1
<1>8. CASE Launch
  <2>1. /\ runs' = runs /\ consumed' = consumed /\ phase = "schedule" /\ BatchSize > 0
        /\ step' = [n \in Nodes |-> IF n \in First(BatchSize) THEN "begin" ELSE "out"]
    BY <1>8 DEF Launch
  <2>2. First(BatchSize) \subseteq Nodes
    BY DEF First, RunnableNodes, Nodes, NodeSet
  <2>3. Batch' = First(BatchSize)
    BY <1>1, <2>1, <2>2 DEF Batch
  <2>4. Fits(BatchSize)
    BY <1>0, <2>1, BatchFits
  <2>5. Within(Plus(consumed, Total(wf.budget, First(BatchSize))))
    BY <2>4 DEF Fits
  <2> QED BY <1>1, <1>2, <2>1, <2>3, <2>5 DEF BudgetInv, Within
<1>9. CASE BatchCompleted
  <2>1. /\ consumed' = Plus(consumed, Total(Used(row), Batch)) /\ phase' = "schedule" /\ phase = "batch"
        /\ runs' = [n \in Nodes |-> IF n \in Batch THEN row[n] ELSE runs[n]]
    BY <1>9 DEF BatchCompleted, Joined
  <2>2. \A n \in Nodes \ Batch : runs[n] = row[n]
    BY <1>0, <2>1 DEF CopyInv, Batch
  <2>3. runs' = row
    BY <1>0, <2>1, <2>2
  <2>4. \A n \in Batch : row[n].status = "completed" /\ runs[n].status = "none"
    BY <1>0, <1>9 DEF BatchCompleted, StepInv, At, CopyInv, Batch
  <2> DEFINE C == Completed(runs)
  <2>5. Completed(row) = C \union Batch /\ C \cap Batch = {}
    BY <2>2, <2>4 DEF Completed, Batch
  <2>6. C \in SUBSET Nodes /\ Batch \in SUBSET Nodes
    BY DEF Completed, Batch
  <2>7. Used(row) \in [Nodes -> Costs] /\ IsFiniteSet(C) /\ IsFiniteSet(Batch)
    BY <1>0, <2>6, UsedType
  <2>8. \A n \in C \union Batch : Used(row)[n] \in Costs
    BY <2>6, <2>7
  <2>9. Total(Used(row), C \union Batch) = Plus(Total(Used(row), C), Total(Used(row), Batch))
    BY <2>5, <2>7, <2>8, TotalUnion
  <2>10. \A n \in C : Used(row)[n] = Used(runs)[n]
    BY <2>2, <2>5, <2>6 DEF Used
  <2>11. Total(Used(row), C) = Total(Used(runs), C)
    BY <2>10, TotalSame
  <2>12. consumed = Total(Used(runs), C)
    BY <2>1 DEF BudgetInv, FromCompleted
  <2>13. FromCompleted(runs)' = Total(Used(row), Completed(row))
    BY <1>1, <2>3 DEF FromCompleted, Used, Completed
  <2>14. Total(Used(row), Completed(row)) = Plus(consumed, Total(Used(row), Batch))
    BY <2>5, <2>9, <2>11, <2>12
  <2> QED BY <2>1, <2>13, <2>14
<1> QED BY <1>3, <1>5, <1>6, <1>7, <1>8, <1>9 DEF Next, RunnerStep, Fault

\* No query that keeps to what its node declares leaves a larger row.
LEMMA RowsStep ==
    ASSUME WorkflowIInv, BudgetInv, [Next]_vars
    PROVE  ("overrun" \notin faults => \A n \in Nodes :
              /\ row[n].rows <= wf.budget[n].rows /\ row[n].ms <= wf.budget[n].ms
              /\ step[n] = "complete" =>
                    took[n].rows <= wf.budget[n].rows /\ took[n].ms <= wf.budget[n].ms)'
<1>0. /\ TypeOK /\ row \in [Nodes -> NodeRow] /\ step \in [Nodes -> Steps]
      /\ took \in [Nodes -> [rows : Nat, ms : Nat]]
      /\ \A n \in Nodes : wf.budget[n].rows \in Nat /\ wf.budget[n].ms \in Nat
  BY InstalledWorkflow DEF WorkflowIInv, Typed, TypeOK, Steps, Costs
<1>1. wf' = wf /\ faults' = faults /\ Nodes' = Nodes
  BY WorkflowFixed
<1>2. SUFFICES ASSUME "overrun" \notin faults, NEW n \in Nodes
               PROVE  /\ row'[n].rows <= wf.budget[n].rows /\ row'[n].ms <= wf.budget[n].ms
                      /\ step'[n] = "complete" =>
                            took'[n].rows <= wf.budget[n].rows /\ took'[n].ms <= wf.budget[n].ms
  BY <1>1
<1>3. /\ row[n].rows <= wf.budget[n].rows /\ row[n].ms <= wf.budget[n].ms
      /\ step[n] = "complete" => took[n].rows <= wf.budget[n].rows /\ took[n].ms <= wf.budget[n].ms
  BY <1>2 DEF BudgetInv
<1>4. row'[n].rows <= wf.budget[n].rows /\ row'[n].ms <= wf.budget[n].ms
  <2>1. CASE Keeps(n)
    BY <1>3, <2>1 DEF Keeps
  <2>2. CASE Begins(n)
    BY <1>0, <2>2 DEF Begins, NoRow
  <2>3. CASE Completes(n)
    BY <1>3, <2>3 DEF Completes
  <2>4. CASE Turns(n)
    <3>1. PICK s : row'[n] = [row[n] EXCEPT !.status = s]
      BY <2>4 DEF Turns
    <3>2. row'[n].rows = row[n].rows /\ row'[n].ms = row[n].ms
      BY <1>0, <3>1 DEF NodeRow
    <3> QED BY <1>3, <3>2
  <2> QED BY <2>1, <2>2, <2>3, <2>4, RowSteps
<1>5. ASSUME step'[n] = "complete"
      PROVE  took'[n].rows <= wf.budget[n].rows /\ took'[n].ms <= wf.budget[n].ms
  <2>1. CASE UNCHANGED vars
    BY <1>3, <1>5, <2>1 DEF vars
  <2>2. CASE Start \/ NothingRunnable \/ OverBudget \/ Launch \/ BatchError \/ BatchFailed
             \/ BatchCompleted \/ Crash \/ \E m \in Nodes : Pause(m) \/ Resume(m)
    <3>1. took' = took /\ (step' = step \/ step'[n] \in {"begin", "out"})
      BY <2>2 DEF Start, NothingRunnable, OverBudget, Launch, BatchError, BatchFailed,
                  BatchCompleted, Crash, Pause, Resume, Return
    <3> QED BY <1>3, <1>5, <3>1
  <2>3. ASSUME NEW m \in Nodes, NodeStep(m) \/ PolicyRefuses(m) \/ Reject(m) \/ StatementError(m)
        PROVE  took'[n].rows <= wf.budget[n].rows /\ took'[n].ms <= wf.budget[n].ms
    <3>1. CASE Inline(m)
      <4>1. took' = [took EXCEPT ![m] = [rows |-> 0, ms |-> 0]]
            /\ step' = [step EXCEPT ![m] = "complete"]
        BY <3>1 DEF Inline
      <4>2. CASE n = m
        BY <1>0, <4>1, <4>2
      <4>3. CASE n # m
        BY <1>0, <1>3, <1>5, <4>1, <4>3
      <4> QED BY <4>2, <4>3
    <3>2. ASSUME NEW rows, NEW ms, Query(m, rows, ms)
          PROVE  took'[n].rows <= wf.budget[n].rows /\ took'[n].ms <= wf.budget[n].ms
      <4>1. took' = [took EXCEPT ![m] = [rows |-> rows, ms |-> ms]]
            /\ step' = [step EXCEPT ![m] = "complete"]
            /\ rows <= wf.budget[m].rows /\ ms <= wf.budget[m].ms
        BY <1>2, <3>2 DEF Query
      <4>2. CASE n = m
        BY <1>0, <4>1, <4>2
      <4>3. CASE n # m
        BY <1>0, <1>3, <1>5, <4>1, <4>3
      <4> QED BY <4>2, <4>3
    <3>3. CASE Begin(m) \/ Interrupt(m) \/ Guard(m) \/ CompleteNode(m) \/ AddBudget(m) \/ FailNode(m)
               \/ Cancel(m) \/ PolicyRefuses(m) \/ Reject(m) \/ StatementError(m)
      <4>1. took' = took /\ \E s \in Steps \ {"complete"} : step' = [step EXCEPT ![m] = s]
        BY <3>3 DEF Begin, Interrupt, Guard, CompleteNode, AddBudget, FailNode, Cancel,
                    PolicyRefuses, Reject, StatementError, Frame, Steps, Ended
      <4> QED BY <1>0, <1>3, <1>5, <4>1
    <3> QED BY <2>3, <3>1, <3>2, <3>3 DEF NodeStep
  <2> QED BY <2>1, <2>2, <2>3 DEF Next, RunnerStep, Fault
<1> QED BY <1>4, <1>5

\* Outside a batch only the reply to an interrupt completes a node, at no
\* cost.
LEMMA WithinStep ==
    ASSUME WorkflowIInv, WithinBudget, AsksFree(wf), [Next]_vars, phase' # "batch"
    PROVE  WithinBudget'
<1>0. /\ TypeOK /\ Typed /\ RowInv /\ StepInv /\ RestInv
      /\ row \in [Nodes -> NodeRow] /\ step \in [Nodes -> Steps]
  BY DEF WorkflowIInv, Typed, TypeOK, Steps
<1>1. wf' = wf /\ faults' = faults /\ Nodes' = Nodes
  BY WorkflowFixed
<1>2. ASSUME NEW n \in Nodes, NodeStep(n) \/ PolicyRefuses(n) \/ Reject(n) \/ StatementError(n)
      PROVE  phase' = "batch"
  <2>1. phase' = phase /\ step[n] # "out"
    BY <1>2 DEF NodeStep, Begin, Inline, Interrupt, Guard, Query, CompleteNode, AddBudget, FailNode,
                Cancel, PolicyRefuses, Reject, StatementError, Polled, Frame
  <2> QED BY <1>0, <2>1 DEF StepInv
<1>3. CASE UNCHANGED vars \/ Start \/ NothingRunnable \/ OverBudget \/ Launch \/ BatchError
           \/ BatchFailed \/ BatchCompleted \/ Crash
  <2>1. row' = row /\ attempts' = attempts
    BY <1>3 DEF vars, Start, NothingRunnable, OverBudget, Launch, BatchError, BatchFailed,
                BatchCompleted, Crash, durable
  <2> QED BY <1>1, <2>1 DEF WithinBudget, Within, FromCompleted, Used, Completed
<1>4. ASSUME NEW n \in Nodes, Pause(n) PROVE WithinBudget'
  <2>1. row' = [row EXCEPT ![n].status = "waiting"] /\ attempts' = attempts /\ row[n].status = "running"
    BY <1>4 DEF Pause
  <2>2. /\ row'[n].status = "waiting"
        /\ \A m \in Nodes \ {n} : row'[m] = row[m]
    BY <1>0, <2>1 DEF NodeRow
  <2>3. Completed(row)' = Completed(row)
    BY <1>1, <2>1, <2>2 DEF Completed
  <2>4. \A m \in Completed(row) : Used(row)'[m] = Used(row)[m]
    BY <1>1, <2>1, <2>2 DEF Used, Completed
  <2>5. Total(Used(row)', Completed(row)) = Total(Used(row), Completed(row))
    BY <2>4, TotalSame
  <2>6. FromCompleted(row)' = FromCompleted(row)
    BY <2>3, <2>5 DEF FromCompleted
  <2> QED BY <1>1, <2>1, <2>6 DEF WithinBudget, Within
<1>5. ASSUME NEW n \in Nodes, Resume(n) PROVE WithinBudget'
  <2>1. row' = [row EXCEPT ![n].status = "completed"] /\ attempts' = attempts /\ row[n].status = "waiting"
    BY <1>5 DEF Resume
  <2>2. /\ row'[n].status = "completed" /\ row'[n].rows = 0 /\ row'[n].ms = 0
        /\ \A m \in Nodes \ {n} : row'[m] = row[m]
    BY <1>0, <2>1 DEF NodeRow, RowInv, Counted
  <2>3. wf.kind[n] = "interrupt" /\ wf.budget[n].queries = 0
    BY <1>0, <1>5 DEF Resume, StepInv, RestInv, AsksFree, Nodes
  <2> DEFINE C == Completed(row)
  <2>4. Completed(row)' = C \union {n} /\ n \notin C /\ C \in SUBSET Nodes
    BY <1>1, <2>1, <2>2 DEF Completed
  <2>5. \A m \in C : Used(row)'[m] = Used(row)[m]
    BY <1>1, <2>2, <2>4 DEF Used
  <2>6. Used(row)'[n] = Free
    BY <1>1, <2>2, <2>3 DEF Used, Free
  <2>7. Free \in Costs /\ Used(row) \in [Nodes -> Costs] /\ IsFiniteSet(C) /\ Total(Used(row), C) \in Costs
    BY <1>0, <2>4, UsedType DEF Free, Cost, Costs
  <2>8. \A m \in C \union {n} : Used(row)'[m] \in Costs
    BY <2>4, <2>5, <2>6, <2>7
  <2>9. IsFiniteSet({n}) /\ C \cap {n} = {}
    BY <2>4, FS_Singleton
  <2>10. Total(Used(row)', C \union {n}) = Plus(Total(Used(row)', C), Total(Used(row)', {n}))
    BY <2>7, <2>8, <2>9, TotalUnion
  <2>11. Total(Used(row)', {n}) = Free
    BY <2>6, <2>8, TotalSingle
  <2>12. Total(Used(row)', C) = Total(Used(row), C)
    BY <2>5, TotalSame
  <2>13. ASSUME NEW a \in Costs PROVE Plus(a, Free) = a
    BY DEF Plus, Free, Cost, Costs
  <2>14. FromCompleted(row)' = Total(Used(row)', C \union {n})
    BY <2>4 DEF FromCompleted
  <2>15. FromCompleted(row)' = FromCompleted(row)
    BY <2>7, <2>10, <2>11, <2>12, <2>13, <2>14 DEF FromCompleted
  <2> QED BY <1>1, <2>1, <2>15 DEF WithinBudget, Within
<1> QED BY <1>2, <1>3, <1>4, <1>5 DEF Next, RunnerStep, Fault

\* SI-10, "Query / row / timeout / retry / turn / parallelism bounds": in
\* every workflow that asks the user at no query cost, over all its batches
\* and over pauses and the runs after them, the queries begun stay within
\* the shared budget, and so do the rows and the time as long as no query
\* overruns what its node declares.
THEOREM BudgetKept ==
    ASSUME \A w \in Workflows : AsksFree(w)
    PROVE  Spec => []WithinBudget
<1>1. Init => WorkflowIInv /\ BudgetInv /\ WithinBudget
  <2>1. ASSUME Init PROVE WorkflowIInv /\ BudgetInv /\ WithinBudget
    <3>1. WorkflowIInv /\ TypeOK
      BY <2>1, WorkflowInit DEF WorkflowIInv, Typed
    <3>2. /\ IsFiniteSet(Nodes) /\ wf.budget \in [Nodes -> Costs]
          /\ wf.limits.queries \in Nat /\ wf.limits.rows \in Nat /\ wf.limits.ms \in Nat
      BY <3>1, InstalledWorkflow
    <3>3. BudgetInv
      BY <2>1, <3>2 DEF Init, BudgetInv, NoRow, Costs
    <3>4. [n \in Nodes |-> attempts[n] * wf.budget[n].queries] = [n \in Nodes |-> 0]
      <4>1. \A n \in Nodes : attempts[n] = 0 /\ wf.budget[n].queries \in Nat
        BY <2>1, <3>2 DEF Init, Costs
      <4>2. \A n \in Nodes : attempts[n] * wf.budget[n].queries = 0
        BY <4>1
      <4> QED BY <4>2
    <3>5. SumOver([n \in Nodes |-> attempts[n] * wf.budget[n].queries], Nodes) = 0
      BY <3>2, <3>4, SumZero
    <3>6. Completed(row) = {}
      BY <2>1 DEF Init, Completed, NoRow
    <3>7. FromCompleted(row) = Free
      BY <3>6, TotalEmpty DEF FromCompleted
    <3>8. Within(FromCompleted(row))
      BY <3>2, <3>7 DEF Within, Free, Cost
    <3> QED BY <3>1, <3>2, <3>3, <3>5, <3>8 DEF WithinBudget
  <2> QED BY <2>1
<1>2. WorkflowIInv /\ [Next]_vars => WorkflowIInv'
  BY WorkflowStep
<1>3. WorkflowIInv /\ BudgetInv /\ [Next]_vars => BudgetInv'
  BY ConsumedStep, RowsStep DEF BudgetInv
<1>4. WorkflowIInv => AsksFree(wf)
  BY DEF WorkflowIInv, Typed, TypeOK
<1>5. WorkflowIInv /\ BudgetInv /\ phase = "batch" => WithinBudget
  BY <1>4, BatchWithinBudget
<1>6. WorkflowIInv /\ WithinBudget /\ [Next]_vars /\ ~(phase = "batch")' => WithinBudget'
  BY <1>4, WithinStep
<1> QED BY <1>1, <1>2, <1>3, <1>5, <1>6, PTL DEF Spec
====
