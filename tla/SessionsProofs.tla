---------------------------- MODULE SessionsProofs ----------------------------
(***************************************************************************)
(* Theorems about Sessions, for every limit, window and lifetime, any      *)
(* number of tokens, and whatever happens to Redis and to the process: a   *)
(* logged out token is refused, the limit of logins holds over both        *)
(* stores, and whoever waited is let in.                                   *)
(***************************************************************************)
EXTENDS Sessions, FiniteSetTheorems, WellFoundedInduction, TLAPS

-----------------------------------------------------------------------------
(***************************************************************************)
(* Sums.  InWindowCount recurs over sets of times; that there is such a    *)
(* function, and that the order of the terms does not matter, is shown     *)
(* with smallest counterexamples: a set of finite sets has a least member. *)
(***************************************************************************)

\* A set of subsets of a finite set has a member without a smaller one.
LEMMA SmallestSubset ==
    ASSUME NEW S, IsFiniteSet(S), NEW T, T \subseteq SUBSET S, T # {}
    PROVE  \E x \in T : \A y \in T : ~ (y \subseteq x /\ y # x)
<1>1. IsWellFoundedOn(StrictSubsetOrdering(S), SUBSET S)
  BY FS_StrictSubsetOrderingWellFounded, FS_FiniteSubsetsOfFinite
<1>2. PICK x \in T : \A y \in T : ~ (<<y, x>> \in StrictSubsetOrdering(S))
  BY <1>1, WFMin
<1>3. ASSUME NEW y \in T, y \subseteq x, y # x
      PROVE  <<y, x>> \in StrictSubsetOrdering(S)
  <2>1. <<y, x>> \in (SUBSET S) \X (SUBSET S)
    OBVIOUS
  <2>2. <<y, x>>[1] \subseteq <<y, x>>[2] /\ <<y, x>>[1] # <<y, x>>[2]
    BY <1>3
  <2> QED
    BY <2>1, <2>2 DEF StrictSubsetOrdering
<1>4. ASSUME NEW y \in T
      PROVE  ~ (y \subseteq x /\ y # x)
  BY <1>2, <1>3
<1> QED
  BY <1>4

Pick(W) == CHOOSE w \in W : TRUE

LEMMA PickIsMember == ASSUME NEW W, W # {} PROVE Pick(W) \in W
  BY DEF Pick

\* f sums the terms a over the subsets of S, as InWindowCount does.
IsSum(f, a, S) ==
    f = [W \in SUBSET S |-> IF W = {} THEN 0 ELSE a[Pick(W)] + f[W \ {Pick(W)}]]

SumTerms(a, S) == CHOOSE f : IsSum(f, a, S)
Total(a, S) == SumTerms(a, S)[S]

LEMMA InWindowCountIsTotal ==
    ASSUME NEW times
    PROVE  InWindowCount(times) = Total(times, InWindow)
  BY DEF InWindowCount, Total, SumTerms, IsSum, Pick

LEMMA SumStep ==
    ASSUME NEW f, NEW a, NEW S, IsSum(f, a, S), NEW W \in SUBSET S
    PROVE  /\ W = {} => f[W] = 0
           /\ W # {} => f[W] = a[Pick(W)] + f[W \ {Pick(W)}]
<1> DEFINE g == [V \in SUBSET S |-> IF V = {} THEN 0 ELSE a[Pick(V)] + f[V \ {Pick(V)}]]
<1>1. f = g
  BY DEF IsSum
<1>2. g[W] = IF W = {} THEN 0 ELSE a[Pick(W)] + f[W \ {Pick(W)}]
  OBVIOUS
<1> HIDE DEF g
<1> QED
  BY <1>1, <1>2

\* Two sums of the same terms agree where both are defined.
LEMMA SumsAgree ==
    ASSUME NEW a, NEW S, NEW T, IsFiniteSet(S), NEW f, NEW g, IsSum(f, a, S), IsSum(g, a, T)
    PROVE  \A W \in SUBSET S : W \subseteq T => f[W] = g[W]
<1> DEFINE Bad == {W \in SUBSET S : W \subseteq T /\ f[W] # g[W]}
<1>1. SUFFICES ASSUME Bad # {} PROVE FALSE
  OBVIOUS
<1>2. PICK W \in Bad : \A V \in Bad : ~ (V \subseteq W /\ V # W)
  <2>1. Bad \subseteq SUBSET S
    OBVIOUS
  <2> HIDE DEF Bad
  <2> QED
    BY <1>1, <2>1, SmallestSubset
<1>3. W \in SUBSET S /\ W \in SUBSET T /\ f[W] # g[W]
  OBVIOUS
<1>4. W # {}
  BY <1>3, SumStep
<1> DEFINE V == W \ {Pick(W)}
<1>5. V \subseteq W /\ V # W
  BY <1>4, PickIsMember
<1>6. f[V] = g[V]
  BY <1>2, <1>3, <1>5
<1>7. f[W] = a[Pick(W)] + f[V] /\ g[W] = a[Pick(W)] + g[V]
  BY <1>3, <1>4, SumStep
<1> QED
  BY <1>3, <1>6, <1>7

\* There is a sum of the terms over every finite set.
LEMMA SumExists ==
    ASSUME NEW a, NEW S, IsFiniteSet(S)
    PROVE  \E f : IsSum(f, a, S)
<1> DEFINE Bad == {T \in SUBSET S : ~ \E f : IsSum(f, a, T)}
<1>1. SUFFICES ASSUME Bad # {} PROVE FALSE
  OBVIOUS
<1>2. PICK T \in Bad : \A V \in Bad : ~ (V \subseteq T /\ V # T)
  <2>1. Bad \subseteq SUBSET S
    OBVIOUS
  <2> HIDE DEF Bad
  <2> QED
    BY <1>1, <2>1, SmallestSubset
<1>3. ASSUME NEW V, V \subseteq T, V # T
      PROVE  IsSum(SumTerms(a, V), a, V)
  <2>1. V \in SUBSET S /\ V \notin Bad
    BY <1>2, <1>3
  <2>2. \E f : IsSum(f, a, V)
    BY <2>1
  <2> QED
    BY <2>2 DEF SumTerms
<1> DEFINE f == [W \in SUBSET T |-> IF W = {} THEN 0
                                    ELSE a[Pick(W)] + Total(a, W \ {Pick(W)})]
<1>4. ASSUME NEW V, V \subseteq T, V # T
      PROVE  f[V] = Total(a, V)
  <2> DEFINE sum == SumTerms(a, V)
             U == V \ {Pick(V)}
  <2>1. CASE V = {}
    <3>1. f[V] = 0
      BY <2>1
    <3>2. sum[V] = 0
      BY <1>3, <1>4, <2>1, SumStep
    <3> QED
      BY <3>1, <3>2 DEF Total
  <2>2. CASE V # {}
    <3>1. f[V] = a[Pick(V)] + Total(a, U)
      BY <1>4, <2>2
    <3>2. Pick(V) \in V /\ U \subseteq V /\ U \subseteq T /\ U # T
      BY <1>4, <2>2, PickIsMember
    <3>3. sum[V] = a[Pick(V)] + sum[U]
      BY <1>3, <1>4, <2>2, SumStep
    <3>4. sum[U] = SumTerms(a, U)[U]
      <4>1. IsFiniteSet(V)
        BY <1>4, <1>2, FS_Subset
      <4>2. IsSum(sum, a, V) /\ IsSum(SumTerms(a, U), a, U)
        BY <1>3, <1>4, <3>2
      <4> HIDE DEF sum, U
      <4> QED
        BY <4>1, <4>2, <3>2, SumsAgree
    <3> QED
      BY <3>1, <3>3, <3>4 DEF Total
  <2> QED
    BY <2>1, <2>2
<1>5. IsSum(f, a, T)
  <2> DEFINE g == [W \in SUBSET T |-> IF W = {} THEN 0 ELSE a[Pick(W)] + f[W \ {Pick(W)}]]
  <2>1. ASSUME NEW W \in SUBSET T
        PROVE  f[W] = g[W]
    <3>1. CASE W = {}
      BY <3>1
    <3>2. CASE W # {}
      <4>1. W \ {Pick(W)} \subseteq T /\ W \ {Pick(W)} # T
        BY <3>2, PickIsMember
      <4>2. f[W \ {Pick(W)}] = Total(a, W \ {Pick(W)})
        BY <1>4, <4>1
      <4>3. g[W] = a[Pick(W)] + f[W \ {Pick(W)}]
        BY <3>2
      <4>4. f[W] = a[Pick(W)] + Total(a, W \ {Pick(W)})
        BY <3>2
      <4> QED
        BY <4>2, <4>3, <4>4
    <3> QED
      BY <3>1, <3>2
  <2>2. f = g
    BY <2>1
  <2> QED
    BY <2>2 DEF IsSum
<1> QED
  BY <1>2, <1>5

LEMMA TotalIsSum ==
    ASSUME NEW a, NEW S, IsFiniteSet(S)
    PROVE  IsSum(SumTerms(a, S), a, S)
  BY SumExists DEF SumTerms

LEMMA TotalOfPart ==
    ASSUME NEW a, NEW S, IsFiniteSet(S), NEW W \in SUBSET S
    PROVE  SumTerms(a, S)[W] = Total(a, W)
<1>1. IsFiniteSet(W)
  BY FS_Subset
<1>2. IsSum(SumTerms(a, S), a, S) /\ IsSum(SumTerms(a, W), a, W)
  BY <1>1, TotalIsSum
<1>3. SumTerms(a, S)[W] = SumTerms(a, W)[W]
  BY <1>1, <1>2, SumsAgree
<1> QED
  BY <1>3 DEF Total

LEMMA TotalOfNone == ASSUME NEW a PROVE Total(a, {}) = 0
<1>1. IsSum(SumTerms(a, {}), a, {})
  BY TotalIsSum, FS_EmptySet
<1> QED
  BY <1>1, SumStep DEF Total

LEMMA TotalPicks ==
    ASSUME NEW a, NEW S, IsFiniteSet(S), S # {}
    PROVE  Total(a, S) = a[Pick(S)] + Total(a, S \ {Pick(S)})
<1>1. SumTerms(a, S)[S] = a[Pick(S)] + SumTerms(a, S)[S \ {Pick(S)}]
  BY TotalIsSum, SumStep
<1>2. SumTerms(a, S)[S \ {Pick(S)}] = Total(a, S \ {Pick(S)})
  BY TotalOfPart
<1> QED
  BY <1>1, <1>2 DEF Total

LEMMA TotalIsNat ==
    ASSUME NEW D, NEW a \in [D -> Nat], NEW S, IsFiniteSet(S), S \subseteq D
    PROVE  Total(a, S) \in Nat
<1> DEFINE Bad == {W \in SUBSET S : Total(a, W) \notin Nat}
<1>1. SUFFICES ASSUME Bad # {} PROVE FALSE
  OBVIOUS
<1>2. PICK W \in Bad : \A V \in Bad : ~ (V \subseteq W /\ V # W)
  <2>1. Bad \subseteq SUBSET S
    OBVIOUS
  <2> HIDE DEF Bad
  <2> QED
    BY <1>1, <2>1, SmallestSubset
<1>3. W \in SUBSET S /\ Total(a, W) \notin Nat
  OBVIOUS
<1>4. W # {} /\ IsFiniteSet(W)
  <2>1. CASE W = {}
    <3>1. Total(a, {}) \in Nat
      BY TotalOfNone
    <3> QED
      BY <1>3, <2>1, <3>1, Zenon
  <2>2. IsFiniteSet(W)
    BY <1>3, FS_Subset
  <2> QED
    BY <2>1, <2>2
<1>5. Pick(W) \in W /\ a[Pick(W)] \in Nat
  BY <1>3, <1>4, PickIsMember
<1>6. Total(a, W \ {Pick(W)}) \in Nat
  BY <1>2, <1>3, <1>5
<1> QED
  BY <1>3, <1>4, <1>5, <1>6, TotalPicks

\* Any term may be taken out first.
LEMMA TotalWithout ==
    ASSUME NEW D, NEW a \in [D -> Nat], NEW S, IsFiniteSet(S), S \subseteq D
    PROVE  \A x \in S : Total(a, S) = a[x] + Total(a, S \ {x})
<1> DEFINE Bad == {W \in SUBSET S : \E x \in W : Total(a, W) # a[x] + Total(a, W \ {x})}
<1>1. SUFFICES ASSUME Bad # {} PROVE FALSE
  OBVIOUS
<1>2. PICK W \in Bad : \A V \in Bad : ~ (V \subseteq W /\ V # W)
  <2>1. Bad \subseteq SUBSET S
    OBVIOUS
  <2> HIDE DEF Bad
  <2> QED
    BY <1>1, <2>1, SmallestSubset
<1>3. PICK x \in W : Total(a, W) # a[x] + Total(a, W \ {x})
  OBVIOUS
<1>4. W \in SUBSET S /\ IsFiniteSet(W)
  BY FS_Subset
<1> DEFINE p == Pick(W)
<1>5. p \in W
  BY PickIsMember
<1>6. Total(a, W) = a[p] + Total(a, W \ {p})
  BY <1>4, <1>5, TotalPicks
<1>7. p # x
  BY <1>3, <1>6
<1> DEFINE rest == (W \ {p}) \ {x}
<1>8. Total(a, W \ {p}) = a[x] + Total(a, rest)
  <2>1. W \ {p} \in SUBSET S /\ W \ {p} \notin Bad /\ x \in W \ {p}
    BY <1>2, <1>4, <1>5, <1>7
  <2> HIDE DEF p
  <2> QED
    BY <2>1
<1>9. Total(a, W \ {x}) = a[p] + Total(a, rest)
  <2>1. W \ {x} \in SUBSET S /\ W \ {x} \notin Bad /\ p \in W \ {x}
    BY <1>2, <1>4, <1>5, <1>7
  <2>2. (W \ {x}) \ {p} = rest
    OBVIOUS
  <2> HIDE DEF p, rest
  <2> QED
    BY <2>1, <2>2
<1>10. a[x] \in Nat /\ a[p] \in Nat /\ Total(a, rest) \in Nat
  <2>1. rest \subseteq D /\ IsFiniteSet(rest)
    BY <1>4, FS_Subset
  <2>2. x \in D /\ p \in D
    BY <1>4, <1>5
  <2> HIDE DEF p, rest
  <2> QED
    BY <2>1, <2>2, TotalIsNat
<1> HIDE DEF p, rest
<1> QED
  BY <1>3, <1>6, <1>8, <1>9, <1>10

\* A sum depends on its terms only.
LEMMA TotalOfSameTerms ==
    ASSUME NEW a, NEW b, NEW S, IsFiniteSet(S), \A x \in S : a[x] = b[x]
    PROVE  Total(a, S) = Total(b, S)
<1> DEFINE Bad == {W \in SUBSET S : Total(a, W) # Total(b, W)}
<1>1. SUFFICES ASSUME Bad # {} PROVE FALSE
  OBVIOUS
<1>2. PICK W \in Bad : \A V \in Bad : ~ (V \subseteq W /\ V # W)
  <2>1. Bad \subseteq SUBSET S
    OBVIOUS
  <2> HIDE DEF Bad
  <2> QED
    BY <1>1, <2>1, SmallestSubset
<1>3. W \in SUBSET S /\ Total(a, W) # Total(b, W)
  OBVIOUS
<1>4. W # {} /\ IsFiniteSet(W)
  <2>1. Total(a, {}) = 0 /\ Total(b, {}) = 0
    BY TotalOfNone
  <2>2. CASE W = {}
    BY <1>3, <2>1, <2>2, Zenon
  <2>3. IsFiniteSet(W)
    BY <1>3, FS_Subset
  <2> QED
    BY <2>2, <2>3
<1>5. Pick(W) \in W
  BY <1>4, PickIsMember
<1>6. Total(a, W \ {Pick(W)}) = Total(b, W \ {Pick(W)})
  BY <1>2, <1>3, <1>5
<1>7. a[Pick(W)] = b[Pick(W)]
  BY <1>3, <1>5
<1> QED
  BY <1>3, <1>4, <1>6, <1>7, TotalPicks

\* A part of a sum is no larger than the sum.
LEMMA TotalOfSubset ==
    ASSUME NEW D, NEW a \in [D -> Nat], NEW S, IsFiniteSet(S), S \subseteq D
    PROVE  \A T \in SUBSET S : Total(a, T) <= Total(a, S)
<1> DEFINE Bad == {W \in SUBSET S : \E T \in SUBSET W : ~ (Total(a, T) <= Total(a, W))}
<1>1. SUFFICES ASSUME Bad # {} PROVE FALSE
  OBVIOUS
<1>2. PICK W \in Bad : \A V \in Bad : ~ (V \subseteq W /\ V # W)
  <2>1. Bad \subseteq SUBSET S
    OBVIOUS
  <2> HIDE DEF Bad
  <2> QED
    BY <1>1, <2>1, SmallestSubset
<1>3. W \in SUBSET S
  OBVIOUS
<1>4. PICK T \in SUBSET W : ~ (Total(a, T) <= Total(a, W))
  OBVIOUS
<1>5. W \subseteq D /\ T \subseteq D /\ IsFiniteSet(W) /\ IsFiniteSet(T)
  BY <1>3, FS_Subset
<1>6. Total(a, W) \in Nat /\ Total(a, T) \in Nat
  BY <1>5, TotalIsNat
<1>7. T # W
  BY <1>4, <1>6
<1>8. PICK x \in W : x \notin T
  BY <1>7
<1>9. W \ {x} \in SUBSET S /\ W \ {x} \notin Bad /\ T \in SUBSET (W \ {x})
  BY <1>2, <1>3, <1>8
<1>10. Total(a, T) <= Total(a, W \ {x})
  BY <1>9
<1>11. Total(a, W) = a[x] + Total(a, W \ {x})
  BY <1>5, TotalWithout
<1>12. a[x] \in Nat /\ Total(a, W \ {x}) \in Nat
  <2>1. W \ {x} \subseteq D /\ IsFiniteSet(W \ {x}) /\ x \in D
    BY <1>5, FS_Subset
  <2> QED
    BY <2>1, TotalIsNat
<1> QED
  BY <1>4, <1>6, <1>10, <1>11, <1>12

\* If every term is at most the sum of three others, so is the total.
LEMMA TotalOfThree ==
    ASSUME NEW D, NEW a \in [D -> Nat], NEW b \in [D -> Nat], NEW c \in [D -> Nat],
           NEW d \in [D -> Nat], NEW S, IsFiniteSet(S), S \subseteq D,
           \A x \in S : a[x] <= b[x] + c[x] + d[x]
    PROVE  Total(a, S) <= Total(b, S) + Total(c, S) + Total(d, S)
<1> DEFINE Bad == {W \in SUBSET S : ~ (Total(a, W) <= Total(b, W) + Total(c, W) + Total(d, W))}
<1>1. SUFFICES ASSUME Bad # {} PROVE FALSE
  <2>1. S \notin Bad
    BY <1>1
  <2> QED
    BY <2>1
<1>2. PICK W \in Bad : \A V \in Bad : ~ (V \subseteq W /\ V # W)
  <2>1. Bad \subseteq SUBSET S
    OBVIOUS
  <2> HIDE DEF Bad
  <2> QED
    BY <1>1, <2>1, SmallestSubset
<1>3. W \in SUBSET S /\ ~ (Total(a, W) <= Total(b, W) + Total(c, W) + Total(d, W))
  OBVIOUS
<1>4. W # {}
  <2>1. Total(a, {}) = 0 /\ Total(b, {}) = 0 /\ Total(c, {}) = 0 /\ Total(d, {}) = 0
    BY TotalOfNone
  <2>2. Total(a, {}) <= Total(b, {}) + Total(c, {}) + Total(d, {})
    BY <2>1
  <2> QED
    BY <1>3, <2>2, Zenon
<1> DEFINE p == Pick(W)
           V == W \ {p}
<1>5. p \in W
  BY <1>4, PickIsMember
<1>6. V \in SUBSET S /\ V \notin Bad
  BY <1>2, <1>3, <1>5
<1>7. Total(a, V) <= Total(b, V) + Total(c, V) + Total(d, V)
  <2> HIDE DEF V
  <2> QED
    BY <1>6
<1>8. IsFiniteSet(W) /\ IsFiniteSet(V) /\ V \subseteq D /\ p \in D
  BY <1>3, <1>5, FS_Subset
<1>9. /\ Total(a, V) \in Nat /\ Total(b, V) \in Nat /\ Total(c, V) \in Nat /\ Total(d, V) \in Nat
      /\ a[p] \in Nat /\ b[p] \in Nat /\ c[p] \in Nat /\ d[p] \in Nat
  <2> HIDE DEF V, p
  <2> QED
    BY <1>8, TotalIsNat
<1>10. /\ Total(a, W) = a[p] + Total(a, V) /\ Total(b, W) = b[p] + Total(b, V)
       /\ Total(c, W) = c[p] + Total(c, V) /\ Total(d, W) = d[p] + Total(d, V)
  BY <1>4, <1>8, TotalPicks
<1>11. a[p] <= b[p] + c[p] + d[p]
  BY <1>3, <1>5
<1> HIDE DEF p, V
<1> QED
  BY <1>3, <1>7, <1>9, <1>10, <1>11

\* One term grows by one, and so does the total.
LEMMA TotalOfOneMore ==
    ASSUME NEW a \in [Times -> Nat], NEW b \in [Times -> Nat],
           NEW S, IsFiniteSet(S), S \subseteq Times,
           NEW x \in S, b[x] = a[x] + 1, \A y \in S : y # x => b[y] = a[y]
    PROVE  Total(b, S) = Total(a, S) + 1
<1> DEFINE rest == S \ {x}
<1>1. IsFiniteSet(rest) /\ rest \subseteq Times /\ \A y \in rest : b[y] = a[y]
  BY FS_Subset
<1>2. Total(b, S) = b[x] + Total(b, rest) /\ Total(a, S) = a[x] + Total(a, rest)
  BY TotalWithout
<1> HIDE DEF rest
<1>3. Total(b, rest) = Total(a, rest)
  BY <1>1, TotalOfSameTerms
<1>4. Total(a, rest) \in Nat /\ a[x] \in Nat
  BY <1>1, TotalIsNat
<1> QED
  BY <1>2, <1>3, <1>4

LEMMA TotalOfZeros ==
    ASSUME NEW a, NEW S, IsFiniteSet(S), \A x \in S : a[x] = 0
    PROVE  Total(a, S) = 0
<1> DEFINE Bad == {W \in SUBSET S : Total(a, W) # 0}
<1>1. SUFFICES ASSUME Bad # {} PROVE FALSE
  OBVIOUS
<1>2. PICK W \in Bad : \A V \in Bad : ~ (V \subseteq W /\ V # W)
  <2>1. Bad \subseteq SUBSET S
    OBVIOUS
  <2> HIDE DEF Bad
  <2> QED
    BY <1>1, <2>1, SmallestSubset
<1>3. W \in SUBSET S /\ Total(a, W) # 0
  OBVIOUS
<1>4. W # {} /\ IsFiniteSet(W)
  <2>1. Total(a, {}) = 0
    BY TotalOfNone
  <2>2. W # {}
    BY <1>3, <2>1, Zenon
  <2> QED
    BY <1>3, <2>2, FS_Subset
<1>5. Pick(W) \in W
  BY <1>4, PickIsMember
<1>6. Total(a, W \ {Pick(W)}) = 0
  BY <1>2, <1>3, <1>5
<1>7. a[Pick(W)] = 0
  BY <1>3, <1>5
<1> QED
  BY <1>3, <1>4, <1>6, <1>7, TotalPicks

-----------------------------------------------------------------------------
(***************************************************************************)
(* The window.                                                             *)
(***************************************************************************)

LEMMA WindowIsFinite ==
    /\ InWindow \subseteq Times /\ IsFiniteSet(InWindow)
    /\ InWindow' \subseteq Times /\ IsFiniteSet(InWindow')
<1>1. IsFiniteSet(Times)
  BY RedisAssumption, FS_Interval DEF Times
<1>2. InWindow \subseteq Times /\ InWindow' \subseteq Times
  BY DEF InWindow
<1> QED
  BY <1>1, <1>2, FS_Subset

LEMMA NowIsInWindow == ASSUME now \in Times PROVE now \in InWindow
  BY RateAssumption, RedisAssumption DEF InWindow, Times

\* Nothing but the present enters the window as time goes by.
LEMMA WindowSlides ==
    ASSUME now \in Times, Tick
    PROVE  /\ now' = now + 1 /\ now' \in Times
           /\ InWindow' \ {now'} \subseteq InWindow
           /\ \A t \in InWindow' : now' - t < Window
  BY RedisAssumption, RateAssumption DEF InWindow, Times, Tick

\* A bag of times without the present counts no more than before.
LEMMA SlidingCountsLess ==
    ASSUME now \in Times, Tick, NEW a \in [Times -> Nat], a[now + 1] = 0
    PROVE  Total(a, InWindow') <= Total(a, InWindow)
<1> DEFINE old == InWindow' \ {now'}
<1>1. now' = now + 1 /\ now' \in Times /\ old \in SUBSET InWindow
  BY WindowSlides
<1>2. Total(a, old) <= Total(a, InWindow)
  <2> HIDE DEF old
  <2> QED
    BY <1>1, WindowIsFinite, TotalOfSubset
<1>3. Total(a, InWindow') = Total(a, old)
  <2>1. CASE now' \in InWindow'
    <3>1. Total(a, InWindow') = a[now'] + Total(a, old)
      BY <2>1, WindowIsFinite, TotalWithout
    <3>2. IsFiniteSet(old) /\ old \subseteq Times
      BY WindowIsFinite, FS_Subset
    <3> HIDE DEF old
    <3>3. Total(a, old) \in Nat /\ a[now'] = 0
      BY <1>1, <3>2, TotalIsNat
    <3> QED
      BY <3>1, <3>3
  <2>2. CASE now' \notin InWindow'
    BY <2>2
  <2> QED
    BY <2>1, <2>2
<1> QED
  BY <1>2, <1>3

-----------------------------------------------------------------------------
(***************************************************************************)
(* Types, and the bound the bucket keeps.                                  *)
(***************************************************************************)

NothingLater == \A t \in Times : t > now => bucket[t] = 0 /\ allowed[t] = 0

BucketWithinLimit == Total(bucket, InWindow) <= Limit

TypeInv == TypeOK /\ NothingLater /\ BucketWithinLimit

LEMMA InitInv == Init => TypeInv
<1> SUFFICES ASSUME Init PROVE TypeInv
  OBVIOUS
<1>1. TypeOK
  BY RedisAssumption, RateAssumption
     DEF Init, RedisInit, RateInit, TypeOK, NoKey, NoTimes, Times, Never
<1>2. NothingLater
  BY DEF Init, RateInit, NoTimes, NothingLater
<1>3. Total(bucket, InWindow) = 0
  <2>1. \A t \in InWindow : bucket[t] = 0
    BY WindowIsFinite DEF Init, RateInit, NoTimes
  <2> QED
    BY <2>1, WindowIsFinite, TotalOfZeros
<1> QED
  BY <1>1, <1>2, <1>3, RateAssumption DEF TypeInv, BucketWithinLimit

\* What one call does to a bag of times: nothing that a window shows, or one
\* more for the present.
LEMMA PrunedBag ==
    ASSUME now \in Times, NEW a \in [Times -> Nat]
    PROVE  /\ OnlyInWindow(a) \in [Times -> Nat]
           /\ \A t \in InWindow : OnlyInWindow(a)[t] = a[t]
           /\ \A t \in Times : OnlyInWindow(a)[t] \in {0, a[t]}
           /\ Total(OnlyInWindow(a), InWindow) = Total(a, InWindow)
<1>1. \A t \in Times : OnlyInWindow(a)[t] = IF t \in InWindow THEN a[t] ELSE 0
  BY DEF OnlyInWindow
<1>2. OnlyInWindow(a) \in [Times -> Nat]
  BY DEF OnlyInWindow
<1>3. \A t \in InWindow : OnlyInWindow(a)[t] = a[t]
  BY <1>1, WindowIsFinite
<1> QED
  BY <1>1, <1>2, <1>3, WindowIsFinite, TotalOfSameTerms

LEMMA CountsOneMore ==
    ASSUME now \in Times, NEW a \in [Times -> Nat], NEW b \in [Times -> Nat],
           b[now] = a[now] + 1, \A t \in InWindow : t # now => b[t] = a[t]
    PROVE  Total(b, InWindow) = Total(a, InWindow) + 1
<1>1. now \in InWindow /\ InWindow \subseteq Times /\ IsFiniteSet(InWindow)
  BY NowIsInWindow, WindowIsFinite
<1> QED
  BY <1>1, TotalOfOneMore

\* A bag with one call more, at present.
WithNow(a) == [OnlyInWindow(a) EXCEPT ![now] = @ + 1]

LEMMA OneMoreNow ==
    ASSUME NEW a \in [Times -> Nat]
    PROVE  now \in Times =>
           /\ WithNow(a) \in [Times -> Nat]
           /\ WithNow(a)[now] = a[now] + 1
           /\ \A t \in InWindow : t # now => WithNow(a)[t] = a[t]
           /\ \A t \in Times : t # now => WithNow(a)[t] \in {0, a[t]}
           /\ Total(WithNow(a), InWindow) = Total(a, InWindow) + 1
<1> SUFFICES ASSUME now \in Times
             PROVE  /\ WithNow(a) \in [Times -> Nat]
                    /\ WithNow(a)[now] = a[now] + 1
                    /\ \A t \in InWindow : t # now => WithNow(a)[t] = a[t]
                    /\ \A t \in Times : t # now => WithNow(a)[t] \in {0, a[t]}
                    /\ Total(WithNow(a), InWindow) = Total(a, InWindow) + 1
  OBVIOUS
<1>1. now \in InWindow /\ InWindow \subseteq Times
  BY NowIsInWindow, WindowIsFinite
<1>2. /\ OnlyInWindow(a) \in [Times -> Nat]
      /\ \A t \in InWindow : OnlyInWindow(a)[t] = a[t]
      /\ \A t \in Times : OnlyInWindow(a)[t] \in {0, a[t]}
  BY PrunedBag
<1>3. WithNow(a) \in [Times -> Nat]
  BY <1>2 DEF WithNow
<1>4. WithNow(a)[now] = a[now] + 1
  BY <1>1, <1>2 DEF WithNow
<1>5. \A t \in Times : t # now => WithNow(a)[t] = OnlyInWindow(a)[t]
  BY <1>2 DEF WithNow
<1>6. \A t \in InWindow : t # now => WithNow(a)[t] = a[t]
  BY <1>1, <1>2, <1>5
<1>7. Total(WithNow(a), InWindow) = Total(a, InWindow) + 1
  BY <1>3, <1>4, <1>6, CountsOneMore
<1> QED
  BY <1>2, <1>3, <1>4, <1>5, <1>6, <1>7

\* No term of a window is larger than what the window counts.
LEMMA TermIsWithinCount ==
    ASSUME NEW a \in [Times -> Nat], NEW t \in InWindow
    PROVE  a[t] <= Total(a, InWindow)
<1>1. InWindow \subseteq Times /\ IsFiniteSet(InWindow)
  BY WindowIsFinite
<1> DEFINE rest == InWindow \ {t}
<1>2. Total(a, InWindow) = a[t] + Total(a, rest)
  BY <1>1, TotalWithout
<1>3. IsFiniteSet(rest) /\ rest \subseteq Times
  BY <1>1, FS_Subset
<1> HIDE DEF rest
<1>4. Total(a, rest) \in Nat /\ a[t] \in Nat
  BY <1>1, <1>3, TotalIsNat
<1> QED
  BY <1>2, <1>4

LEMMA BucketFullIs == BucketFull <=> Total(bucket, InWindow) >= Limit
  BY InWindowCountIsTotal DEF BucketFull

LEMMA OutcomeIsOne ==
    ASSUME NEW outcome \in Outcomes
    PROVE  /\ UsesRedis(outcome) \/ UsesMemory(outcome)
           /\ outcome \in {"redis", "both", "memory"}
  BY DEF Outcomes, UsesRedis, UsesMemory

\* What a call does to the bucket.
LEMMA CallKeepsBucket ==
    ASSUME TypeInv, NEW outcome \in Outcomes, CheckRateLimit(outcome), now' = now
    PROVE  /\ bucket' \in [Times -> 0..Limit]
           /\ \A t \in Times : t > now => bucket'[t] = 0
           /\ Total(bucket', InWindow) <= Limit
           /\ \A t \in InWindow : t # now => bucket'[t] = bucket[t]
           /\ bucket'[now] \in {bucket[now], bucket[now] + 1}
           /\ UsesMemory(outcome) /\ AllowedBy(outcome) => bucket'[now] = bucket[now] + 1
<1>1. /\ now \in Times /\ Limit \in Nat /\ Times \subseteq Nat
      /\ bucket \in [Times -> 0..Limit] /\ bucket \in [Times -> Nat]
      /\ \A t \in Times : t > now => bucket[t] = 0
      /\ Total(bucket, InWindow) <= Limit
      /\ Total(bucket, InWindow) \in Nat
  <2>1. bucket \in [Times -> 0..Limit]
    BY DEF TypeInv, TypeOK
  <2>2. bucket \in [Times -> Nat]
    BY <2>1, RateAssumption
  <2>3. Total(bucket, InWindow) \in Nat
    BY <2>2, WindowIsFinite, TotalIsNat
  <2> QED
    BY <2>1, <2>2, <2>3, RateAssumption DEF TypeInv, TypeOK, NothingLater, BucketWithinLimit, Times
<1>2. now \in InWindow /\ InWindow \subseteq Times
  BY <1>1, NowIsInWindow, WindowIsFinite
<1>3. CASE ~ UsesMemory(outcome)
  <2>1. bucket' = bucket
    BY <1>3 DEF CheckRateLimit
  <2> QED
    BY <1>1, <1>3, <2>1
<1>4. CASE UsesMemory(outcome) /\ BucketFull
  <2>1. bucket' = OnlyInWindow(bucket)
    BY <1>4 DEF CheckRateLimit
  <2>2. ~ AllowedBy(outcome)
    BY <1>4 DEF AllowedBy
  <2>3. /\ OnlyInWindow(bucket) \in [Times -> Nat]
        /\ \A t \in InWindow : OnlyInWindow(bucket)[t] = bucket[t]
        /\ \A t \in Times : OnlyInWindow(bucket)[t] \in {0, bucket[t]}
        /\ Total(OnlyInWindow(bucket), InWindow) = Total(bucket, InWindow)
    BY <1>1, PrunedBag
  <2>4. \A t \in Times : bucket'[t] \in 0..Limit
    BY <1>1, <2>1, <2>3
  <2>5. bucket' \in [Times -> 0..Limit]
    BY <2>1, <2>3, <2>4
  <2> QED
    BY <1>1, <1>2, <2>1, <2>2, <2>3, <2>5
<1>5. CASE UsesMemory(outcome) /\ ~ BucketFull
  <2>1. bucket' = WithNow(bucket)
    BY <1>5 DEF CheckRateLimit, WithNow
  <2>2. /\ bucket' \in [Times -> Nat]
        /\ bucket'[now] = bucket[now] + 1
        /\ \A t \in InWindow : t # now => bucket'[t] = bucket[t]
        /\ \A t \in Times : t # now => bucket'[t] \in {0, bucket[t]}
        /\ Total(bucket', InWindow) = Total(bucket, InWindow) + 1
    BY <1>1, <2>1, OneMoreNow
  <2>3. Total(bucket, InWindow) < Limit
    BY <1>1, <1>5, BucketFullIs
  <2>4. bucket[now] <= Total(bucket, InWindow)
    BY <1>1, <1>2, TermIsWithinCount
  <2>5. \A t \in Times : bucket'[t] \in 0..Limit
    BY <1>1, <2>2, <2>3, <2>4
  <2>6. bucket' \in [Times -> 0..Limit]
    BY <2>2, <2>5
  <2>7. \A t \in Times : t > now => bucket'[t] = 0
    BY <1>1, <2>2
  <2> QED
    BY <1>1, <2>2, <2>3, <2>6, <2>7
<1> QED
  BY <1>3, <1>4, <1>5

\* What a call does to the history of the calls allowed.
LEMMA CallKeepsAllowed ==
    ASSUME TypeInv, NEW outcome \in Outcomes, CheckRateLimit(outcome)
    PROVE  /\ allowed' \in [Times -> Nat]
           /\ \A t \in Times : t > now => allowed'[t] = 0
           /\ \A t \in InWindow : t # now => allowed'[t] = allowed[t]
           /\ allowed'[now] = IF AllowedBy(outcome) THEN allowed[now] + 1 ELSE allowed[now]
<1>1. /\ now \in Times /\ Times \subseteq Nat /\ allowed \in [Times -> Nat]
      /\ \A t \in Times : t > now => allowed[t] = 0
  BY DEF TypeInv, TypeOK, NothingLater, Times
<1>2. now \in InWindow
  BY <1>1, NowIsInWindow
<1>3. /\ OnlyInWindow(allowed) \in [Times -> Nat]
      /\ \A t \in InWindow : OnlyInWindow(allowed)[t] = allowed[t]
      /\ \A t \in Times : OnlyInWindow(allowed)[t] \in {0, allowed[t]}
  BY <1>1, PrunedBag
<1>4. CASE AllowedBy(outcome)
  <2>1. allowed' = WithNow(allowed)
    BY <1>4 DEF CheckRateLimit, WithNow
  <2>2. /\ allowed' \in [Times -> Nat]
        /\ allowed'[now] = allowed[now] + 1
        /\ \A t \in InWindow : t # now => allowed'[t] = allowed[t]
        /\ \A t \in Times : t # now => allowed'[t] \in {0, allowed[t]}
    BY <1>1, <2>1, OneMoreNow
  <2>3. \A t \in Times : t > now => allowed'[t] = 0
    BY <1>1, <2>2
  <2> QED
    BY <1>4, <2>2, <2>3
<1>5. CASE ~ AllowedBy(outcome)
  <2>1. allowed' = OnlyInWindow(allowed)
    BY <1>5 DEF CheckRateLimit
  <2> QED
    BY <1>1, <1>2, <1>3, <1>5, <2>1
<1> QED
  BY <1>4, <1>5

LEMMA CallKeepsCounter ==
    ASSUME TypeInv, NEW outcome \in Outcomes, CheckRateLimit(outcome)
    PROVE  /\ counter' \in [count : 0..Limit + 1, expires : Nat]
           /\ ~ UsesRedis(outcome) => counter' = counter
           /\ UsesRedis(outcome) =>
                 /\ counter'.expires = now + Window
                 /\ counter'.count > 0
                 /\ counter'.count >= counter.count
                 /\ counter.count <= Limit => counter'.count = counter.count + 1
                 /\ outcome = "redis" /\ AllowedBy(outcome) => counter'.count <= Limit
<1>1. /\ counter \in [count : 0..Limit + 1, expires : Nat]
      /\ counter.count \in 0..Limit + 1 /\ counter.expires \in Nat
      /\ now \in Nat /\ Window \in Nat /\ Limit \in Nat
  BY RateAssumption DEF TypeInv, TypeOK, Times
<1>2. CASE UsesRedis(outcome)
  <2>1. counter' = Incremented
    BY <1>2 DEF CheckRateLimit
  <2>2. /\ Incremented.count = IF counter.count > Limit THEN counter.count ELSE counter.count + 1
        /\ Incremented.expires = now + Window
        /\ Incremented \in [count : 0..Limit + 1, expires : Nat]
    BY <1>1 DEF Incremented
  <2>3. outcome = "redis" /\ AllowedBy(outcome) => Incremented.count <= Limit
    BY DEF AllowedBy, UsesMemory
  <2> QED
    BY <1>1, <1>2, <2>1, <2>2, <2>3
<1>3. CASE ~ UsesRedis(outcome)
  <2>1. counter' = counter
    BY <1>3 DEF CheckRateLimit
  <2> QED
    BY <1>1, <1>3, <2>1
<1> QED
  BY <1>2, <1>3

LEMMA WindowStays == now' = now => InWindow' = InWindow
  BY DEF InWindow

\* The tokens and the keys of the blacklist have their types after every step.
TokensTyped ==
    /\ expiry \in [Tokens -> Nat \cup {Never}]
    /\ redisKey \in [Tokens -> Nat]
    /\ memoryKey \subseteq Tokens
    /\ disturbed \subseteq loggedOut
    /\ loggedOut \subseteq Tokens

RateTyped ==
    /\ now \in Times /\ redisUp \in BOOLEAN /\ lost \in Nat
    /\ counter \in [count : 0..Limit + 1, expires : Nat]
    /\ bucket \in [Times -> 0..Limit]
    /\ allowed \in [Times -> Nat]
    /\ lastCall \in Times \cup {Never}

LEMMA TypesAre == TypeOK <=> TokensTyped /\ RateTyped
  BY DEF TypeOK, TokensTyped, RateTyped

LEMMA IssueKeepsTypes ==
    ASSUME TypeInv, NEW t \in Tokens, Issue(t)
    PROVE  expiry' \in [Tokens -> Nat \cup {Never}]
<1>1. now + Lifetime \in Nat
  BY SessionsAssumption DEF TypeInv, TypeOK, Times
<1>2. ExpiryOfNew \in Nat
  BY <1>1 DEF ExpiryOfNew, WholeSecond
<1> QED
  BY <1>2 DEF TypeInv, TypeOK, Issue

LEMMA TtlIsTyped ==
    ASSUME TypeInv, NEW t \in Tokens, expiry[t] # Never
    PROVE  /\ now \in Nat /\ expiry[t] \in Nat /\ Ttl(t) \in Int
           /\ Ttl(t) <= expiry[t] - now /\ expiry[t] - now <= Ttl(t) + 1
<1>1. now \in Nat /\ expiry[t] \in Nat
  BY DEF TypeInv, TypeOK, Times
<1> QED
  BY <1>1 DEF Ttl

LEMMA TokensTypedStep == TypeInv /\ [Next]_vars => TokensTyped'
<1> SUFFICES ASSUME TypeInv, [Next]_vars PROVE TokensTyped'
  OBVIOUS
<1>1. TokensTyped
  BY DEF TypeInv, TypeOK, TokensTyped
<1>2. ASSUME NEW t \in Tokens, Login(t) PROVE TokensTyped'
  BY <1>1, <1>2, IssueKeepsTypes DEF Login, TokensTyped
<1>3. ASSUME NEW t \in Tokens, Logout(t) PROVE TokensTyped'
  <2>1. PICK outcome \in Outcomes :
          /\ redisKey' = IF Ttl(t) > 0 /\ UsesRedis(outcome)
                         THEN [redisKey EXCEPT ![t] = now + Ttl(t)] ELSE redisKey
          /\ memoryKey' = IF Ttl(t) > 0 /\ UsesMemory(outcome)
                          THEN memoryKey \cup {t} ELSE memoryKey
          /\ disturbed' = IF outcome = "memory" /\ redisUp THEN disturbed \cup {t} ELSE disturbed
    BY <1>3 DEF Logout
  <2>2. loggedOut' = loggedOut \cup {t} /\ expiry' = expiry
    BY <1>3 DEF Logout
  <2>3. now \in Nat /\ Ttl(t) \in Int
    BY <1>3, TtlIsTyped DEF Logout, Valid
  <2>4. Ttl(t) > 0 => now + Ttl(t) \in Nat
    BY <2>3
  <2>5. redisKey' \in [Tokens -> Nat]
    BY <1>1, <2>1, <2>4 DEF TokensTyped
  <2>6. memoryKey' \subseteq Tokens
    BY <1>1, <2>1 DEF TokensTyped
  <2>7. disturbed' \subseteq loggedOut' /\ loggedOut' \subseteq Tokens
    BY <1>1, <2>1, <2>2 DEF TokensTyped
  <2> QED
    BY <1>1, <2>2, <2>5, <2>6, <2>7 DEF TokensTyped
<1>4. ASSUME NEW t \in Tokens, NEW new \in Tokens, Refresh(t, new) PROVE TokensTyped'
  BY <1>1, <1>4, IssueKeepsTypes DEF Refresh, TokensTyped
<1>5. CASE Time
  BY <1>1, <1>5 DEF Time, TokensTyped
<1>6. CASE RedisComesOrGoes
  BY <1>1, <1>6 DEF RedisComesOrGoes, TokensTyped
<1>7. CASE RedisLosesData
  BY <1>1, <1>7 DEF RedisLosesData, TokensTyped
<1>8. CASE ProcessRestarts
  BY <1>1, <1>8 DEF ProcessRestarts, TokensTyped
<1>9. CASE UNCHANGED vars
  BY <1>1, <1>9 DEF vars, sessionVars, TokensTyped
<1> QED
  BY <1>2, <1>3, <1>4, <1>5, <1>6, <1>7, <1>8, <1>9 DEF Next

\* The steps, as the rate limit sees them.
LEMMA RateSteps ==
    [Next]_vars =>
        \/ UNCHANGED redisVars /\ \E outcome \in Outcomes : CheckRateLimit(outcome)
        \/ Tick /\ RateTick
        \/ Reachability /\ UNCHANGED rateVars
        \/ LoseData /\ counter' = NoKey /\ UNCHANGED <<bucket, allowed, lastCall>>
        \/ LoseData /\ bucket' = NoTimes /\ UNCHANGED <<counter, allowed, lastCall>>
        \/ UNCHANGED <<redisVars, rateVars>>
<1> SUFFICES ASSUME [Next]_vars
             PROVE  \/ UNCHANGED redisVars /\ \E outcome \in Outcomes : CheckRateLimit(outcome)
                    \/ Tick /\ RateTick
                    \/ Reachability /\ UNCHANGED rateVars
                    \/ LoseData /\ counter' = NoKey /\ UNCHANGED <<bucket, allowed, lastCall>>
                    \/ LoseData /\ bucket' = NoTimes /\ UNCHANGED <<counter, allowed, lastCall>>
                    \/ UNCHANGED <<redisVars, rateVars>>
  OBVIOUS
<1>1. ASSUME NEW t \in Tokens, Login(t)
      PROVE  UNCHANGED redisVars /\ \E outcome \in Outcomes : CheckRateLimit(outcome)
  <2>1. UNCHANGED redisVars
    BY <1>1 DEF Login, redisVars
  <2>2. \E outcome \in Outcomes : CheckRateLimit(outcome)
    BY <1>1, Zenon DEF Login
  <2> QED
    BY <2>1, <2>2
<1>2. ASSUME NEW t \in Tokens, Logout(t)
      PROVE  UNCHANGED <<redisVars, rateVars>>
  BY <1>2 DEF Logout
<1>3. ASSUME NEW t \in Tokens, NEW new \in Tokens, Refresh(t, new)
      PROVE  UNCHANGED <<redisVars, rateVars>>
  BY <1>3 DEF Refresh
<1>4. CASE Time
  BY <1>4 DEF Time
<1>5. CASE RedisComesOrGoes
  BY <1>5 DEF RedisComesOrGoes
<1>6. CASE RedisLosesData
  BY <1>6 DEF RedisLosesData
<1>7. CASE ProcessRestarts
  BY <1>7 DEF ProcessRestarts
<1>8. CASE UNCHANGED vars
  BY <1>8 DEF vars
<1> QED
  BY <1>1, <1>2, <1>3, <1>4, <1>5, <1>6, <1>7, <1>8 DEF Next

LEMMA TickKeepsInv ==
    ASSUME TypeInv, Tick, RateTick
    PROVE  RateTyped' /\ NothingLater' /\ BucketWithinLimit'
<1>1. /\ now \in Times /\ Limit \in Nat /\ Window \in Nat \ {0} /\ Times \subseteq Nat
      /\ bucket \in [Times -> 0..Limit] /\ bucket \in [Times -> Nat]
      /\ allowed \in [Times -> Nat]
      /\ \A t \in Times : t > now => bucket[t] = 0 /\ allowed[t] = 0
  <2>1. bucket \in [Times -> 0..Limit]
    BY DEF TypeInv, TypeOK
  <2>2. bucket \in [Times -> Nat]
    BY <2>1, RateAssumption
  <2> QED
    BY <2>1, <2>2, RateAssumption DEF TypeInv, TypeOK, NothingLater, Times
<1>2. now' = now + 1 /\ now' \in Times /\ redisUp' = redisUp /\ lost' = lost
  BY <1>1, WindowSlides DEF Tick
<1>3. bucket' = bucket
  BY DEF RateTick
<1>4. allowed' \in [Times -> Nat] /\ \A t \in Times : allowed'[t] \in {0, allowed[t]}
  BY <1>1 DEF RateTick
<1>5. counter' \in [count : 0..Limit + 1, expires : Nat]
  <2>1. counter \in [count : 0..Limit + 1, expires : Nat]
    BY DEF TypeInv, TypeOK
  <2>2. NoKey \in [count : 0..Limit + 1, expires : Nat]
    BY <1>1 DEF NoKey
  <2> QED
    BY <2>1, <2>2 DEF RateTick
<1>6. lastCall' \in Times \cup {Never}
  BY DEF TypeInv, TypeOK, RateTick
<1>7. RateTyped'
  BY <1>1, <1>2, <1>3, <1>4, <1>5, <1>6 DEF TypeInv, TypeOK, RateTyped
<1>8. NothingLater'
  BY <1>1, <1>2, <1>3, <1>4 DEF NothingLater
<1>9. BucketWithinLimit'
  <2>1. bucket[now + 1] = 0
    BY <1>1, <1>2
  <2>2. Total(bucket, InWindow') <= Total(bucket, InWindow)
    BY <1>1, <2>1, SlidingCountsLess
  <2>3. Total(bucket, InWindow') \in Nat /\ Total(bucket, InWindow) \in Nat
    BY <1>1, WindowIsFinite, TotalIsNat
  <2>4. Total(bucket, InWindow) <= Limit
    BY DEF TypeInv, BucketWithinLimit
  <2>5. Total(bucket, InWindow') <= Limit
    BY <1>1, <2>2, <2>3, <2>4
  <2> QED
    BY <1>3, <2>5 DEF BucketWithinLimit
<1> QED
  BY <1>7, <1>8, <1>9

LEMMA CallKeepsInv ==
    ASSUME TypeInv, UNCHANGED redisVars, NEW outcome \in Outcomes, CheckRateLimit(outcome)
    PROVE  RateTyped' /\ NothingLater' /\ BucketWithinLimit'
<1>1. now' = now /\ redisUp' = redisUp /\ lost' = lost /\ InWindow' = InWindow
  BY WindowStays DEF redisVars
<1>2. /\ bucket' \in [Times -> 0..Limit]
      /\ \A t \in Times : t > now => bucket'[t] = 0
      /\ Total(bucket', InWindow) <= Limit
  BY <1>1, CallKeepsBucket
<1>3. /\ allowed' \in [Times -> Nat]
      /\ \A t \in Times : t > now => allowed'[t] = 0
  BY CallKeepsAllowed
<1>4. counter' \in [count : 0..Limit + 1, expires : Nat]
  BY CallKeepsCounter
<1>5. lastCall' = now /\ now \in Times /\ redisUp \in BOOLEAN /\ lost \in Nat
  BY DEF CheckRateLimit, TypeInv, TypeOK
<1>6. RateTyped'
  BY <1>1, <1>2, <1>3, <1>4, <1>5 DEF RateTyped
<1>7. NothingLater'
  BY <1>1, <1>2, <1>3 DEF NothingLater
<1>8. BucketWithinLimit'
  BY <1>1, <1>2 DEF BucketWithinLimit
<1> QED
  BY <1>6, <1>7, <1>8

LEMMA RateTypedStep == TypeInv /\ [Next]_vars => RateTyped' /\ NothingLater' /\ BucketWithinLimit'
<1> SUFFICES ASSUME TypeInv, [Next]_vars
             PROVE  RateTyped' /\ NothingLater' /\ BucketWithinLimit'
  OBVIOUS
<1>1. RateTyped /\ NothingLater /\ BucketWithinLimit /\ Limit \in Nat
  BY TypesAre, RateAssumption DEF TypeInv
<1>2. CASE UNCHANGED redisVars /\ \E outcome \in Outcomes : CheckRateLimit(outcome)
  BY <1>2, CallKeepsInv
<1>3. CASE Tick /\ RateTick
  BY <1>3, TickKeepsInv
<1>4. CASE Reachability /\ UNCHANGED rateVars
  <2>1. /\ now' = now /\ lost' = lost /\ redisUp' \in BOOLEAN /\ InWindow' = InWindow
        /\ counter' = counter /\ bucket' = bucket /\ allowed' = allowed /\ lastCall' = lastCall
    BY <1>4, WindowStays DEF Reachability, rateVars
  <2> QED
    BY <1>1, <2>1 DEF RateTyped, NothingLater, BucketWithinLimit
<1>5. CASE LoseData /\ counter' = NoKey /\ UNCHANGED <<bucket, allowed, lastCall>>
  <2>1. /\ now' = now /\ lost' = lost + 1 /\ redisUp' = redisUp /\ InWindow' = InWindow
        /\ bucket' = bucket /\ allowed' = allowed /\ lastCall' = lastCall
    BY <1>5, WindowStays DEF LoseData
  <2>2. counter' \in [count : 0..Limit + 1, expires : Nat]
    BY <1>1, <1>5 DEF NoKey
  <2> QED
    BY <1>1, <2>1, <2>2 DEF RateTyped, NothingLater, BucketWithinLimit
<1>6. CASE LoseData /\ bucket' = NoTimes /\ UNCHANGED <<counter, allowed, lastCall>>
  <2>1. /\ now' = now /\ lost' = lost + 1 /\ redisUp' = redisUp /\ InWindow' = InWindow
        /\ counter' = counter /\ allowed' = allowed /\ lastCall' = lastCall
    BY <1>6, WindowStays DEF LoseData
  <2>2. bucket' \in [Times -> 0..Limit] /\ \A t \in Times : bucket'[t] = 0
    BY <1>1, <1>6 DEF NoTimes
  <2>3. Total(bucket', InWindow) = 0
    <3>1. \A t \in InWindow : bucket'[t] = 0
      BY <2>2, WindowIsFinite
    <3> QED
      BY <3>1, WindowIsFinite, TotalOfZeros
  <2>4. RateTyped' /\ NothingLater'
    BY <1>1, <2>1, <2>2 DEF RateTyped, NothingLater
  <2>5. BucketWithinLimit'
    BY <1>1, <2>1, <2>3 DEF BucketWithinLimit
  <2> QED
    BY <2>4, <2>5
<1>7. CASE UNCHANGED <<redisVars, rateVars>>
  <2>1. /\ now' = now /\ lost' = lost /\ redisUp' = redisUp /\ InWindow' = InWindow
        /\ counter' = counter /\ bucket' = bucket /\ allowed' = allowed /\ lastCall' = lastCall
    BY <1>7, WindowStays DEF redisVars, rateVars
  <2> QED
    BY <1>1, <2>1 DEF RateTyped, NothingLater, BucketWithinLimit
<1> QED
  BY <1>2, <1>3, <1>4, <1>5, <1>6, <1>7, RateSteps

LEMMA TypeInvStep == TypeInv /\ [Next]_vars => TypeInv'
<1>1. RateTyped' /\ TokensTyped' => TypeOK'
  BY DEF RateTyped, TokensTyped, TypeOK
<1> QED
  BY <1>1, TokensTypedStep, RateTypedStep DEF TypeInv

\* Every variable keeps its type; the bucket in memory never holds more calls
\* of a window than the limit allows.
THEOREM TypeCorrect == Spec => []TypeOK
<1>1. TypeInv => TypeOK
  BY DEF TypeInv
<1> QED
  BY <1>1, InitInv, TypeInvStep, PTL DEF Spec

-----------------------------------------------------------------------------
(***************************************************************************)
(* A token logged out stays refused: while nothing fails, the store that   *)
(* took the entry is the store a refresh asks, and the entry ends no       *)
(* sooner than one time unit before the token.                             *)
(***************************************************************************)

EntryHolds(t) ==
    /\ expiry[t] # Never
    /\ now + 2 <= expiry[t] =>
          IF redisUp THEN redisKey[t] + 1 >= expiry[t] ELSE t \in memoryKey

EntryInv == \A t \in loggedOut \ disturbed : EntryHolds(t)

LEMMA EntryInit == Init => EntryInv
  BY DEF Init, EntryInv

LEMMA LogoutKeepsEntries ==
    ASSUME TypeInv, EntryInv, NEW t \in Tokens, Logout(t)
    PROVE  EntryInv'
<1>1. /\ now' = now /\ redisUp' = redisUp /\ expiry' = expiry
      /\ loggedOut' = loggedOut \cup {t} /\ expiry[t] # Never
  BY DEF Logout, redisVars, Valid
<1>2. PICK outcome \in Outcomes :
        /\ redisKey' = IF Ttl(t) > 0 /\ UsesRedis(outcome)
                       THEN [redisKey EXCEPT ![t] = now + Ttl(t)] ELSE redisKey
        /\ memoryKey' = IF Ttl(t) > 0 /\ UsesMemory(outcome)
                        THEN memoryKey \cup {t} ELSE memoryKey
        /\ disturbed' = IF outcome = "memory" /\ redisUp THEN disturbed \cup {t} ELSE disturbed
  BY DEF Logout
<1>3. /\ now \in Nat /\ expiry[t] \in Nat /\ Ttl(t) \in Int
      /\ Ttl(t) <= expiry[t] - now /\ expiry[t] - now <= Ttl(t) + 1
  BY <1>1, TtlIsTyped
<1>4. redisKey \in [Tokens -> Nat] /\ loggedOut \subseteq Tokens
  BY DEF TypeInv, TypeOK
<1>5. ASSUME NEW u \in loggedOut' \ disturbed', u # t
      PROVE  EntryHolds(u)'
  <2>1. u \in loggedOut \ disturbed
    BY <1>1, <1>2, <1>5
  <2>2. EntryHolds(u)
    BY <2>1 DEF EntryInv
  <2>3. redisKey'[u] = redisKey[u]
    BY <1>2, <1>4, <1>5
  <2>4. u \in memoryKey => u \in memoryKey'
    BY <1>2
  <2> QED
    BY <1>1, <2>2, <2>3, <2>4 DEF EntryHolds
<1>6. ASSUME t \notin disturbed', now + 2 <= expiry[t]
      PROVE  IF redisUp THEN redisKey'[t] + 1 >= expiry[t] ELSE t \in memoryKey'
  <2>1. Ttl(t) > 0
    BY <1>3, <1>6
  <2>2. CASE redisUp
    <3>1. UsesRedis(outcome)
      BY <1>2, <1>6, <2>2 DEF Outcomes, UsesRedis
    <3>2. redisKey'[t] = now + Ttl(t)
      BY <1>2, <1>4, <2>1, <3>1
    <3> QED
      BY <1>3, <2>2, <3>2
  <2>3. CASE ~ redisUp
    BY <1>2, <2>1, <2>3 DEF Outcomes, UsesMemory
  <2> QED
    BY <2>2, <2>3
<1>7. t \notin disturbed' => EntryHolds(t)'
  BY <1>1, <1>6 DEF EntryHolds
<1> QED
  BY <1>5, <1>7 DEF EntryInv

LEMMA EntryStep == TypeInv /\ EntryInv /\ [Next]_vars => EntryInv'
<1> SUFFICES ASSUME TypeInv, EntryInv, [Next]_vars PROVE EntryInv'
  OBVIOUS
<1>1. /\ now \in Nat /\ expiry \in [Tokens -> Nat \cup {Never}] /\ redisKey \in [Tokens -> Nat]
      /\ disturbed \subseteq loggedOut /\ loggedOut \subseteq Tokens
  BY DEF TypeInv, TypeOK, Times
<1>2. ASSUME NEW t \in Tokens, Issue(t), UNCHANGED <<redisVars, redisKey, memoryKey, loggedOut, disturbed>>
      PROVE  EntryInv'
  <2>1. ASSUME NEW u \in loggedOut \ disturbed PROVE expiry'[u] = expiry[u]
    <3>1. u # t
      BY <1>2, <2>1 DEF EntryInv, EntryHolds, Issue
    <3> QED
      BY <1>1, <1>2, <2>1, <3>1 DEF Issue
  <2> QED
    BY <1>2, <2>1 DEF EntryInv, EntryHolds, redisVars
<1>3. ASSUME UNCHANGED <<redisVars, expiry, redisKey, memoryKey, loggedOut, disturbed>>
      PROVE  EntryInv'
  BY <1>3 DEF EntryInv, EntryHolds, redisVars
<1>4. ASSUME NEW t \in Tokens, Login(t) PROVE EntryInv'
  <2>1. /\ Issue(t) \/ UNCHANGED expiry
        /\ UNCHANGED <<redisVars, redisKey, memoryKey, loggedOut, disturbed>>
    BY <1>4 DEF Login
  <2> QED
    BY <1>2, <1>3, <2>1
<1>5. ASSUME NEW t \in Tokens, NEW new \in Tokens, Refresh(t, new) PROVE EntryInv'
  BY <1>2, <1>5 DEF Refresh
<1>6. CASE Time
  <2>1. /\ now' = now + 1 /\ redisUp' = redisUp
        /\ expiry' = expiry /\ memoryKey' = memoryKey /\ loggedOut' = loggedOut
        /\ disturbed' = disturbed
    BY <1>6 DEF Time, Tick
  <2>2. ASSUME NEW u \in loggedOut \ disturbed PROVE EntryHolds(u)'
    <3>1. EntryHolds(u) /\ u \in Tokens
      BY <1>1, <2>2 DEF EntryInv
    <3>2. expiry[u] \in Nat /\ redisKey[u] \in Nat
      BY <1>1, <3>1 DEF EntryHolds
    <3>3. redisKey'[u] = IF now' < redisKey[u] THEN redisKey[u] ELSE 0
      BY <1>6, <3>1 DEF Time
    <3> QED
      BY <1>1, <2>1, <3>1, <3>2, <3>3 DEF EntryHolds
  <2> QED
    BY <2>1, <2>2 DEF EntryInv
<1>7. ASSUME disturbed' = disturbed \cup loggedOut, loggedOut' = loggedOut PROVE EntryInv'
  BY <1>7 DEF EntryInv
<1>8. CASE UNCHANGED vars
  BY <1>3, <1>8 DEF vars, sessionVars
<1>9. CASE RedisComesOrGoes
  BY <1>7, <1>9 DEF RedisComesOrGoes
<1>10. CASE RedisLosesData
  BY <1>7, <1>10 DEF RedisLosesData
<1>11. CASE ProcessRestarts
  BY <1>7, <1>11 DEF ProcessRestarts
<1> QED
  BY <1>4, <1>5, <1>6, <1>8, <1>9, <1>10, <1>11, LogoutKeepsEntries DEF Next

LEMMA EntriesRefuse == TypeInv /\ EntryInv => LoggedOutIsRefused
<1> SUFFICES ASSUME TypeInv, EntryInv, NEW t \in loggedOut \ disturbed, now + 2 <= expiry[t]
             PROVE  BlacklistedBy(t, Usual)
  BY DEF LoggedOutIsRefused, Refreshable
<1>1. EntryHolds(t)
  BY DEF EntryInv
<1>2. now \in Nat /\ expiry[t] \in Nat /\ redisKey[t] \in Nat
  BY <1>1 DEF EntryHolds, TypeInv, TypeOK, Times
<1> QED
  BY <1>1, <1>2 DEF EntryHolds, BlacklistedBy, Usual, UsesMemory

\* A token logged out is refused until its last second, unless Redis or the
\* process failed since (logout, refresh).
THEOREM LogoutsHold == Spec => []LoggedOutIsRefused
<1>1. TypeInv /\ EntryInv => LoggedOutIsRefused
  BY EntriesRefuse
<1>2. Init => TypeInv /\ EntryInv
  BY InitInv, EntryInit
<1>3. TypeInv /\ EntryInv /\ [Next]_vars => (TypeInv /\ EntryInv)'
  BY TypeInvStep, EntryStep
<1> QED
  BY <1>1, <1>2, <1>3, PTL DEF Spec

-----------------------------------------------------------------------------
(***************************************************************************)
(* Whoever waited is let in: the counter in Redis and the calls that the   *)
(* bucket shows in the window all end within a window of the last call.    *)
(***************************************************************************)

CounterIsRecent ==
    counter.count > 0 =>
        /\ now < counter.expires
        /\ lastCall # Never
        /\ counter.expires <= lastCall + Window

BucketIsRecent == \A t \in InWindow : bucket[t] > 0 => lastCall # Never /\ t <= lastCall

CallInv == lastCall <= now /\ CounterIsRecent /\ BucketIsRecent

LEMMA CallInit == Init => CallInv
<1> SUFFICES ASSUME Init PROVE CallInv
  OBVIOUS
<1>1. \A t \in InWindow : bucket[t] = 0
  BY WindowIsFinite DEF Init, RateInit, NoTimes
<1> QED
  BY <1>1 DEF Init, RedisInit, RateInit, NoKey, Never, CallInv, CounterIsRecent, BucketIsRecent

\* The numbers of a state, for the arithmetic of the steps.
LEMMA Numbers ==
    ASSUME TypeInv
    PROVE  /\ now \in Nat /\ now \in Times /\ Window \in Nat \ {0} /\ Limit \in Nat \ {0}
           /\ lastCall \in Int /\ Never = -1 /\ lost \in Nat
           /\ counter.count \in Nat /\ counter.expires \in Nat
           /\ bucket \in [Times -> Nat] /\ allowed \in [Times -> Nat]
           /\ \A t \in InWindow : t \in Nat /\ t \in Times /\ t <= now /\ now - t < Window
           /\ \A t \in Times : t \in Nat /\ (t > now => bucket[t] = 0 /\ allowed[t] = 0)
<1>1. bucket \in [Times -> 0..Limit] /\ counter \in [count : 0..Limit + 1, expires : Nat]
  BY DEF TypeInv, TypeOK
<1>2. bucket \in [Times -> Nat] /\ counter.count \in Nat /\ counter.expires \in Nat
  BY <1>1, RateAssumption
<1> QED
  BY <1>2, RateAssumption DEF TypeInv, TypeOK, Times, Never, InWindow, NothingLater

LEMMA CallStep == TypeInv /\ CallInv /\ [Next]_vars => CallInv'
<1> SUFFICES ASSUME TypeInv, CallInv, [Next]_vars PROVE CallInv'
  OBVIOUS
<1>1. lastCall <= now /\ CounterIsRecent /\ BucketIsRecent
  BY DEF CallInv
<1>2. ASSUME UNCHANGED redisVars, NEW outcome \in Outcomes, CheckRateLimit(outcome) PROVE CallInv'
  <2>1. now' = now /\ InWindow' = InWindow /\ lastCall' = now
    BY <1>2, WindowStays DEF redisVars, CheckRateLimit
  <2>2. CounterIsRecent'
    <3>1. CASE UsesRedis(outcome)
      <4>1. counter'.expires = now + Window
        BY <1>2, <3>1, CallKeepsCounter
      <4> QED
        BY <2>1, <4>1, Numbers DEF CounterIsRecent
    <3>2. CASE ~ UsesRedis(outcome)
      <4>1. counter' = counter
        BY <1>2, <3>2, CallKeepsCounter
      <4> QED
        BY <1>1, <2>1, <4>1, Numbers DEF CounterIsRecent
    <3> QED
      BY <3>1, <3>2
  <2>3. BucketIsRecent'
    BY <2>1, Numbers DEF BucketIsRecent
  <2> QED
    BY <2>1, <2>2, <2>3, Numbers DEF CallInv
<1>3. CASE Tick /\ RateTick
  <2>1. /\ now' = now + 1 /\ InWindow' \ {now'} \subseteq InWindow
        /\ \A t \in InWindow' : now' - t < Window
    BY <1>3, Numbers, WindowSlides
  <2>2. /\ counter' = IF now' < counter.expires THEN counter ELSE NoKey
        /\ lastCall' = IF now' - lastCall < Window THEN lastCall ELSE Never
        /\ bucket' = bucket
    BY <1>3 DEF RateTick
  <2>3. CounterIsRecent'
    <3>1. NoKey.count = 0
      BY DEF NoKey
    <3>2. CASE now' < counter.expires
      BY <1>1, <2>1, <2>2, <3>2, Numbers DEF CounterIsRecent
    <3>3. CASE ~ (now' < counter.expires)
      BY <2>2, <3>1, <3>3 DEF CounterIsRecent
    <3> QED
      BY <3>2, <3>3
  <2>4. ASSUME NEW t \in InWindow', bucket'[t] > 0
        PROVE  lastCall' # Never /\ t <= lastCall'
    <3>1. t \in Times
      BY WindowIsFinite
    <3>2. t # now'
      BY <2>1, <2>2, <2>4, <3>1, Numbers
    <3>3. t \in InWindow
      BY <2>1, <3>2
    <3>4. lastCall # Never /\ t <= lastCall
      BY <1>1, <2>2, <2>4, <3>3 DEF BucketIsRecent
    <3> QED
      BY <2>1, <2>2, <3>1, <3>4, Numbers
  <2>5. lastCall' <= now'
    BY <1>1, <2>1, <2>2, Numbers
  <2> QED
    BY <2>3, <2>4, <2>5 DEF CallInv, BucketIsRecent
<1>4. ASSUME now' = now, lastCall' = lastCall,
             counter' = counter \/ counter' = NoKey, bucket' = bucket \/ bucket' = NoTimes
      PROVE  CallInv'
  <2>1. InWindow' = InWindow
    BY <1>4, WindowStays
  <2>2. \A t \in InWindow : bucket'[t] = bucket[t] \/ bucket'[t] = 0
    BY <1>4, WindowIsFinite DEF NoTimes
  <2>3. BucketIsRecent'
    BY <1>1, <1>4, <2>1, <2>2 DEF BucketIsRecent
  <2>4. CounterIsRecent'
    BY <1>1, <1>4 DEF CounterIsRecent, NoKey
  <2> QED
    BY <1>1, <1>4, <2>3, <2>4 DEF CallInv
<1>5. CASE Reachability /\ UNCHANGED rateVars
  BY <1>4, <1>5 DEF Reachability, rateVars
<1>6. CASE LoseData /\ counter' = NoKey /\ UNCHANGED <<bucket, allowed, lastCall>>
  BY <1>4, <1>6 DEF LoseData
<1>7. CASE LoseData /\ bucket' = NoTimes /\ UNCHANGED <<counter, allowed, lastCall>>
  BY <1>4, <1>7 DEF LoseData
<1>8. CASE UNCHANGED <<redisVars, rateVars>>
  BY <1>4, <1>8 DEF redisVars, rateVars
<1> QED
  BY <1>2, <1>3, <1>5, <1>6, <1>7, <1>8, RateSteps

LEMMA WhoWaitedIsLetIn == TypeInv /\ CallInv => PatientIsLetIn
<1> SUFFICES ASSUME TypeInv, CallInv, lastCall = Never \/ now - lastCall >= Window,
                    NEW outcome \in Outcomes
             PROVE  AllowedBy(outcome)
  BY DEF PatientIsLetIn
<1>1. counter.count = 0
  BY Numbers DEF CallInv, CounterIsRecent
<1>2. Incremented.count <= Limit
  BY <1>1, Numbers DEF Incremented
<1>3. \A t \in InWindow : bucket[t] = 0
  <2>1. ASSUME NEW t \in InWindow PROVE ~ (bucket[t] > 0)
    BY Numbers DEF CallInv, BucketIsRecent
  <2> QED
    BY <2>1, Numbers
<1>4. Total(bucket, InWindow) = 0
  BY <1>3, WindowIsFinite, TotalOfZeros
<1>5. ~ BucketFull
  BY <1>4, BucketFullIs, Numbers
<1> QED
  BY <1>2, <1>5 DEF AllowedBy

\* Whoever made no call for a whole window is let in, whichever store the call
\* ends up in (check_rate_limit).
THEOREM PatientAreLetIn == Spec => []PatientIsLetIn
<1>1. TypeInv /\ CallInv => PatientIsLetIn
  BY WhoWaitedIsLetIn
<1>2. Init => TypeInv /\ CallInv
  BY InitInv, CallInit
<1>3. TypeInv /\ CallInv /\ [Next]_vars => (TypeInv /\ CallInv)'
  BY TypeInvStep, CallStep
<1> QED
  BY <1>1, <1>2, <1>3, PTL DEF Spec

-----------------------------------------------------------------------------
(***************************************************************************)
(* The limit over both stores.  The calls a window allowed are covered by  *)
(* three shares: r, those the counter in Redis let in since it was last    *)
(* created; the bucket; and o, those whose record was lost.  r is within   *)
(* the limit as the counter is, the bucket by itself, and o grows by at    *)
(* most the limit with each loss.                                          *)
(***************************************************************************)

SharesTyped(r, o) ==
    /\ r \in [Times -> Nat] /\ o \in [Times -> Nat]
    /\ \A t \in Times : t > now => r[t] = 0 /\ o[t] = 0

SharesCover(r, o) == \A t \in InWindow : allowed[t] <= r[t] + bucket[t] + o[t]

\* What the counter let in leaves the window before the counter expires.
CounterKeeps(r) ==
    /\ \A t \in InWindow : r[t] > 0 => t + Window <= counter.expires
    /\ Total(r, InWindow) <= counter.count
    /\ Total(r, InWindow) <= Limit

LossesWithin(o) == Total(o, InWindow) <= Limit * lost

Shares(r, o) == SharesTyped(r, o) /\ SharesCover(r, o) /\ CounterKeeps(r) /\ LossesWithin(o)

ShareInv == \E r, o : Shares(r, o)

LEMMA NoTimesTotals == /\ NoTimes \in [Times -> Nat] /\ \A t \in Times : NoTimes[t] = 0
                       /\ Total(NoTimes, InWindow) = 0 /\ Total(NoTimes, InWindow') = 0
<1>1. NoTimes \in [Times -> Nat] /\ \A t \in Times : NoTimes[t] = 0
  BY DEF NoTimes
<1>2. \A t \in InWindow : NoTimes[t] = 0
  BY <1>1, WindowIsFinite
<1>3. \A t \in InWindow' : NoTimes[t] = 0
  BY <1>1, WindowIsFinite
<1> QED
  BY <1>1, <1>2, <1>3, WindowIsFinite, TotalOfZeros

LEMMA ShareInit == Init => ShareInv
<1> SUFFICES ASSUME Init PROVE ShareInv
  OBVIOUS
<1>1. lost = 0 /\ allowed = NoTimes /\ bucket = NoTimes /\ counter.count = 0
  BY DEF Init, RedisInit, RateInit, NoKey
<1>2. SharesTyped(NoTimes, NoTimes)
  BY NoTimesTotals DEF SharesTyped
<1>3. SharesCover(NoTimes, NoTimes)
  BY <1>1, NoTimesTotals, WindowIsFinite DEF SharesCover
<1>4. CounterKeeps(NoTimes)
  BY <1>1, NoTimesTotals, WindowIsFinite, RateAssumption DEF CounterKeeps
<1>5. LossesWithin(NoTimes)
  BY <1>1, NoTimesTotals, RateAssumption DEF LossesWithin
<1> QED
  BY <1>2, <1>3, <1>4, <1>5 DEF ShareInv, Shares

\* A call adds to the share of the counter only when Redis answered it.
LEMMA CallKeepsShares ==
    ASSUME TypeInv, NEW r, NEW o, Shares(r, o),
           UNCHANGED redisVars, NEW outcome \in Outcomes, CheckRateLimit(outcome)
    PROVE  ShareInv'
<1>1. now' = now /\ lost' = lost /\ InWindow' = InWindow
  BY WindowStays DEF redisVars
<1>2. /\ r \in [Times -> Nat] /\ o \in [Times -> Nat]
      /\ \A t \in Times : t > now => r[t] = 0 /\ o[t] = 0
      /\ \A t \in InWindow : allowed[t] <= r[t] + bucket[t] + o[t]
      /\ \A t \in InWindow : r[t] > 0 => t + Window <= counter.expires
      /\ Total(r, InWindow) <= counter.count
      /\ Total(r, InWindow) <= Limit
      /\ LossesWithin(o)
  BY DEF Shares, SharesTyped, SharesCover, CounterKeeps
<1>3. /\ \A t \in InWindow : t # now => bucket'[t] = bucket[t]
      /\ bucket'[now] \in {bucket[now], bucket[now] + 1}
      /\ UsesMemory(outcome) /\ AllowedBy(outcome) => bucket'[now] = bucket[now] + 1
  BY <1>1, CallKeepsBucket
<1>4. /\ \A t \in InWindow : t # now => allowed'[t] = allowed[t]
      /\ allowed'[now] = IF AllowedBy(outcome) THEN allowed[now] + 1 ELSE allowed[now]
  BY CallKeepsAllowed
<1>5. now \in InWindow /\ Total(r, InWindow) \in Nat /\ InWindow \subseteq Times
  BY <1>2, Numbers, NowIsInWindow, WindowIsFinite, TotalIsNat
<1>6. LossesWithin(o)'
  BY <1>1, <1>2 DEF LossesWithin
<1>7. CASE outcome = "redis" /\ AllowedBy(outcome)
  <2>1. /\ counter'.expires = now + Window
        /\ counter.count <= Limit => counter'.count = counter.count + 1
        /\ counter'.count >= counter.count
        /\ counter'.count <= Limit
    BY <1>7, CallKeepsCounter DEF UsesRedis
  <2>2. counter'.count = counter.count + 1
    <3>1. counter'.count \in Nat
      <4>1. counter' \in [count : 0..Limit + 1, expires : Nat]
        BY CallKeepsCounter
      <4> QED
        BY <4>1, Numbers
    <3> QED
      BY <2>1, <3>1, Numbers
  <2>3. PICK more : more = [r EXCEPT ![now] = @ + 1]
    OBVIOUS
  <2>4. /\ more \in [Times -> Nat] /\ more[now] = r[now] + 1
        /\ \A t \in Times : t # now => more[t] = r[t]
    BY <1>2, <2>3, Numbers
  <2>5. Total(more, InWindow) = Total(r, InWindow) + 1
    BY <1>2, <1>5, <2>4, Numbers, CountsOneMore
  <2>6. SharesTyped(more, o)'
    BY <1>1, <1>2, <2>4, Numbers DEF SharesTyped
  <2>7. SharesCover(more, o)'
    <3>1. ASSUME NEW t \in InWindow, t # now
          PROVE  allowed'[t] <= more[t] + bucket'[t] + o[t]
      BY <1>2, <1>3, <1>4, <1>5, <2>4, <3>1
    <3>2. allowed'[now] <= more[now] + bucket'[now] + o[now]
      <4>1. /\ allowed[now] \in Nat /\ bucket[now] \in Nat /\ r[now] \in Nat /\ o[now] \in Nat
            /\ allowed[now] <= r[now] + bucket[now] + o[now]
        BY <1>2, <1>5, Numbers
      <4>2. bucket'[now] \in Nat /\ bucket'[now] >= bucket[now]
        BY <1>3, <4>1
      <4>3. allowed'[now] = allowed[now] + 1
        BY <1>4, <1>7
      <4> QED
        BY <2>4, <4>1, <4>2, <4>3
    <3> QED
      BY <1>1, <3>1, <3>2 DEF SharesCover
  <2>8. CounterKeeps(more)'
    <3>1. \A t \in InWindow : t + Window <= counter'.expires
      BY <2>1, Numbers
    <3>2. Total(more, InWindow) <= counter'.count /\ Total(more, InWindow) <= Limit
      BY <1>2, <1>5, <2>1, <2>2, <2>5, Numbers
    <3> QED
      BY <1>1, <3>1, <3>2 DEF CounterKeeps
  <2> QED
    BY <1>6, <2>6, <2>7, <2>8 DEF ShareInv, Shares
<1>8. CASE ~ (outcome = "redis" /\ AllowedBy(outcome))
  <2>1. UsesMemory(outcome) \/ ~ AllowedBy(outcome)
    BY <1>8, OutcomeIsOne DEF UsesMemory
  <2>2. SharesTyped(r, o)'
    BY <1>1, <1>2 DEF SharesTyped
  <2>3. SharesCover(r, o)'
    <3>1. ASSUME NEW t \in InWindow, t # now
          PROVE  allowed'[t] <= r[t] + bucket'[t] + o[t]
      BY <1>2, <1>3, <1>4, <3>1
    <3>2. allowed'[now] <= r[now] + bucket'[now] + o[now]
      <4>1. /\ allowed[now] \in Nat /\ bucket[now] \in Nat /\ r[now] \in Nat /\ o[now] \in Nat
            /\ allowed[now] <= r[now] + bucket[now] + o[now]
        BY <1>2, <1>5, Numbers
      <4>2. CASE AllowedBy(outcome)
        BY <1>3, <1>4, <2>1, <4>1, <4>2
      <4>3. CASE ~ AllowedBy(outcome)
        BY <1>3, <1>4, <4>1, <4>3
      <4> QED
        BY <4>2, <4>3
    <3> QED
      BY <1>1, <3>1, <3>2 DEF SharesCover
  <2>4. CounterKeeps(r)'
    <3>1. CASE UsesRedis(outcome)
      <4>1. counter'.expires = now + Window /\ counter'.count >= counter.count
        BY <3>1, CallKeepsCounter
      <4>2. counter'.count \in Nat
        <5>1. counter' \in [count : 0..Limit + 1, expires : Nat]
          BY CallKeepsCounter
        <5> QED
          BY <5>1, Numbers
      <4>3. \A t \in InWindow : t + Window <= counter'.expires
        BY <4>1, Numbers
      <4>4. Total(r, InWindow) <= counter'.count
        BY <1>2, <1>5, <4>1, <4>2, Numbers
      <4> QED
        BY <1>1, <1>2, <4>3, <4>4 DEF CounterKeeps
    <3>2. CASE ~ UsesRedis(outcome)
      <4>1. counter' = counter
        BY <3>2, CallKeepsCounter
      <4> QED
        BY <1>1, <1>2, <4>1 DEF CounterKeeps
    <3> QED
      BY <3>1, <3>2
  <2> QED
    BY <1>6, <2>2, <2>3, <2>4 DEF ShareInv, Shares
<1> QED
  BY <1>7, <1>8

\* As time goes by the shares shrink with the window; an expired counter had
\* let in nothing that the window still shows.
LEMMA TickKeepsShares ==
    ASSUME TypeInv, NEW r, NEW o, Shares(r, o), Tick, RateTick
    PROVE  ShareInv'
<1>1. /\ now' = now + 1 /\ now' \in Times /\ lost' = lost
      /\ InWindow' \ {now'} \subseteq InWindow
      /\ \A t \in InWindow' : now' - t < Window
  BY Numbers, WindowSlides DEF Tick
<1>2. /\ r \in [Times -> Nat] /\ o \in [Times -> Nat]
      /\ \A t \in Times : t > now => r[t] = 0 /\ o[t] = 0
      /\ \A t \in InWindow : allowed[t] <= r[t] + bucket[t] + o[t]
      /\ \A t \in InWindow : r[t] > 0 => t + Window <= counter.expires
      /\ Total(r, InWindow) <= counter.count
      /\ Total(r, InWindow) <= Limit
      /\ Total(o, InWindow) <= Limit * lost
  BY DEF Shares, SharesTyped, SharesCover, CounterKeeps, LossesWithin
<1>3. /\ counter' = IF now' < counter.expires THEN counter ELSE NoKey
      /\ bucket' = bucket
      /\ \A t \in Times : allowed'[t] \in {0, allowed[t]}
  BY DEF RateTick
<1>4. now + 1 \in Times /\ now + 1 > now
  BY <1>1, Numbers
<1>5. r[now + 1] = 0 /\ o[now + 1] = 0 /\ allowed'[now + 1] = 0 /\ bucket'[now + 1] = 0
  BY <1>2, <1>3, <1>4, Numbers
<1>6. /\ Total(r, InWindow') <= Total(r, InWindow)
      /\ Total(o, InWindow') <= Total(o, InWindow)
  BY <1>2, <1>5, Numbers, SlidingCountsLess
<1>7. /\ Total(r, InWindow') \in Nat /\ Total(r, InWindow) \in Nat
      /\ Total(o, InWindow') \in Nat /\ Total(o, InWindow) \in Nat
  BY <1>2, WindowIsFinite, TotalIsNat
<1>8. LossesWithin(o)'
  <2>1. Limit * lost \in Nat
    BY Numbers
  <2>2. Total(o, InWindow') <= Limit * lost
    BY <1>2, <1>6, <1>7, <2>1
  <2> QED
    BY <1>1, <2>2 DEF LossesWithin
<1>9. \A t \in InWindow' : t \in Times
  BY WindowIsFinite
<1>10. CASE now' < counter.expires
  <2>1. counter' = counter
    BY <1>3, <1>10
  <2>2. SharesTyped(r, o)'
    BY <1>1, <1>2, Numbers DEF SharesTyped
  <2>3. SharesCover(r, o)'
    <3>1. ASSUME NEW t \in InWindow'
          PROVE  allowed'[t] <= r[t] + bucket'[t] + o[t]
      <4>1. CASE t = now'
        BY <1>1, <1>5, <4>1
      <4>2. CASE t # now'
        <5>1. t \in InWindow /\ t \in Times
          BY <1>1, <4>2, Numbers
        <5>2. allowed[t] \in Nat /\ r[t] \in Nat /\ bucket[t] \in Nat /\ o[t] \in Nat
          BY <1>2, <5>1, Numbers
        <5>3. allowed'[t] = 0 \/ allowed'[t] = allowed[t]
          BY <1>3, <5>1
        <5>4. allowed[t] <= r[t] + bucket[t] + o[t]
          BY <1>2, <5>1
        <5> QED
          BY <1>3, <5>2, <5>3, <5>4
      <4> QED
        BY <4>1, <4>2
    <3> QED
      BY <3>1 DEF SharesCover
  <2>4. CounterKeeps(r)'
    <3>1. ASSUME NEW t \in InWindow', r[t] > 0
          PROVE  t + Window <= counter.expires
      <4>1. t # now'
        BY <1>1, <1>5, <3>1
      <4> QED
        BY <1>1, <1>2, <3>1, <4>1
    <3>2. Total(r, InWindow') <= counter.count /\ Total(r, InWindow') <= Limit
      BY <1>2, <1>6, <1>7, Numbers
    <3> QED
      BY <2>1, <3>1, <3>2 DEF CounterKeeps
  <2> QED
    BY <1>8, <2>2, <2>3, <2>4 DEF ShareInv, Shares
<1>11. CASE ~ (now' < counter.expires)
  <2>1. counter' = NoKey /\ counter'.count = 0
    BY <1>3, <1>11 DEF NoKey
  <2>2. SharesTyped(NoTimes, o)'
    BY <1>1, <1>2, NoTimesTotals, Numbers DEF SharesTyped
  <2>3. SharesCover(NoTimes, o)'
    <3>1. ASSUME NEW t \in InWindow'
          PROVE  allowed'[t] <= 0 + bucket'[t] + o[t]
      <4>1. CASE t = now'
        BY <1>1, <1>5, <4>1
      <4>2. CASE t # now'
        <5>1. t \in InWindow /\ t \in Times /\ t \in Nat
          BY <1>1, <4>2, Numbers
        <5>2. allowed[t] \in Nat /\ r[t] \in Nat /\ bucket[t] \in Nat /\ o[t] \in Nat
          BY <1>2, <5>1, Numbers
        <5>3. allowed'[t] = 0 \/ allowed'[t] = allowed[t]
          BY <1>3, <5>1
        <5>4. r[t] = 0
          <6>1. r[t] > 0 => t + Window <= counter.expires
            BY <1>2, <5>1
          <6>2. now' - t < Window
            BY <1>1
          <6> QED
            BY <1>1, <1>11, <5>1, <5>2, <6>1, <6>2, Numbers
        <5>5. allowed[t] <= r[t] + bucket[t] + o[t]
          BY <1>2, <5>1
        <5> QED
          BY <1>3, <5>2, <5>3, <5>4, <5>5
      <4> QED
        BY <4>1, <4>2
    <3>2. \A t \in InWindow' : NoTimes[t] = 0
      BY <1>9, NoTimesTotals
    <3> QED
      BY <3>1, <3>2 DEF SharesCover
  <2>4. CounterKeeps(NoTimes)'
    <3>1. \A t \in InWindow' : NoTimes[t] = 0
      BY <1>9, NoTimesTotals
    <3>2. Total(NoTimes, InWindow') <= 0 /\ Total(NoTimes, InWindow') <= Limit
      BY NoTimesTotals, Numbers
    <3> QED
      BY <2>1, <3>1, <3>2 DEF CounterKeeps
  <2> QED
    BY <1>8, <2>2, <2>3, <2>4 DEF ShareInv, Shares
<1> QED
  BY <1>10, <1>11

\* What was lost is added to o: at most the limit at a time.
LEMMA LossesAdd ==
    ASSUME TypeInv, NEW o \in [Times -> Nat], NEW a \in [Times -> Nat],
           Total(o, InWindow) <= Limit * lost, Total(a, InWindow) <= Limit,
           NEW b \in [Times -> Nat], \A t \in Times : b[t] = o[t] + a[t]
    PROVE  Total(b, InWindow) <= Limit * (lost + 1)
<1>1. \A t \in InWindow : b[t] <= o[t] + a[t] + NoTimes[t]
  BY NoTimesTotals, WindowIsFinite
<1>2. NoTimes \in [Times -> Nat] /\ Total(NoTimes, InWindow) = 0
  BY NoTimesTotals
<1>3. InWindow \subseteq Times /\ IsFiniteSet(InWindow)
  BY WindowIsFinite
<1>4. Total(b, InWindow) <= Total(o, InWindow) + Total(a, InWindow) + Total(NoTimes, InWindow)
  BY <1>1, <1>2, <1>3, TotalOfThree
<1>5. Total(b, InWindow) \in Nat /\ Total(o, InWindow) \in Nat /\ Total(a, InWindow) \in Nat
  BY <1>3, TotalIsNat
<1>6. Limit * (lost + 1) = Limit * lost + Limit /\ Limit * lost \in Nat
  BY Numbers
<1> QED
  BY <1>2, <1>4, <1>5, <1>6, Numbers

LEMMA RedisLossKeepsShares ==
    ASSUME TypeInv, NEW r, NEW o, Shares(r, o),
           LoseData, counter' = NoKey, UNCHANGED <<bucket, allowed, lastCall>>
    PROVE  ShareInv'
<1>1. /\ now' = now /\ lost' = lost + 1 /\ InWindow' = InWindow
      /\ bucket' = bucket /\ allowed' = allowed /\ counter'.count = 0
  BY WindowStays DEF LoseData, NoKey
<1>2. /\ r \in [Times -> Nat] /\ o \in [Times -> Nat]
      /\ \A t \in Times : t > now => r[t] = 0 /\ o[t] = 0
      /\ \A t \in InWindow : allowed[t] <= r[t] + bucket[t] + o[t]
      /\ Total(r, InWindow) <= Limit
      /\ Total(o, InWindow) <= Limit * lost
  BY DEF Shares, SharesTyped, SharesCover, CounterKeeps, LossesWithin
<1>3. PICK more : more = [t \in Times |-> o[t] + r[t]]
  OBVIOUS
<1>4. more \in [Times -> Nat] /\ \A t \in Times : more[t] = o[t] + r[t]
  BY <1>2, <1>3
<1>5. SharesTyped(NoTimes, more)'
  BY <1>1, <1>2, <1>4, NoTimesTotals DEF SharesTyped
<1>6. SharesCover(NoTimes, more)'
  <2>1. ASSUME NEW t \in InWindow
        PROVE  allowed[t] <= NoTimes[t] + bucket[t] + more[t]
    <3>1. t \in Times /\ NoTimes[t] = 0
      BY WindowIsFinite, NoTimesTotals
    <3>2. allowed[t] \in Nat /\ r[t] \in Nat /\ bucket[t] \in Nat /\ o[t] \in Nat
      BY <1>2, <3>1, Numbers
    <3> QED
      BY <1>2, <1>4, <3>1, <3>2
  <2> QED
    BY <1>1, <2>1 DEF SharesCover
<1>7. CounterKeeps(NoTimes)'
  BY <1>1, NoTimesTotals, WindowIsFinite, Numbers DEF CounterKeeps
<1>8. Total(more, InWindow) <= Limit * (lost + 1)
  BY <1>2, <1>4, LossesAdd
<1>9. LossesWithin(more)'
  BY <1>1, <1>8 DEF LossesWithin
<1> QED
  BY <1>5, <1>6, <1>7, <1>9 DEF ShareInv, Shares

LEMMA RestartKeepsShares ==
    ASSUME TypeInv, NEW r, NEW o, Shares(r, o),
           LoseData, bucket' = NoTimes, UNCHANGED <<counter, allowed, lastCall>>
    PROVE  ShareInv'
<1>1. /\ now' = now /\ lost' = lost + 1 /\ InWindow' = InWindow
      /\ counter' = counter /\ allowed' = allowed
  BY WindowStays DEF LoseData
<1>2. /\ r \in [Times -> Nat] /\ o \in [Times -> Nat]
      /\ \A t \in Times : t > now => r[t] = 0 /\ o[t] = 0
      /\ \A t \in InWindow : allowed[t] <= r[t] + bucket[t] + o[t]
      /\ CounterKeeps(r)
      /\ Total(o, InWindow) <= Limit * lost
  BY DEF Shares, SharesTyped, SharesCover, LossesWithin
<1>3. PICK more : more = [t \in Times |-> o[t] + bucket[t]]
  OBVIOUS
<1>4. more \in [Times -> Nat] /\ \A t \in Times : more[t] = o[t] + bucket[t]
  BY <1>2, <1>3, Numbers
<1>5. SharesTyped(r, more)'
  BY <1>1, <1>2, <1>4, Numbers DEF SharesTyped
<1>6. SharesCover(r, more)'
  <2>1. ASSUME NEW t \in InWindow
        PROVE  allowed[t] <= r[t] + NoTimes[t] + more[t]
    <3>1. t \in Times /\ NoTimes[t] = 0
      BY WindowIsFinite, NoTimesTotals
    <3>2. allowed[t] \in Nat /\ r[t] \in Nat /\ bucket[t] \in Nat /\ o[t] \in Nat
      BY <1>2, <3>1, Numbers
    <3> QED
      BY <1>2, <1>4, <3>1, <3>2
  <2> QED
    BY <1>1, <2>1 DEF SharesCover
<1>7. CounterKeeps(r)'
  BY <1>1, <1>2 DEF CounterKeeps
<1>8. Total(bucket, InWindow) <= Limit
  BY DEF TypeInv, BucketWithinLimit
<1>9. Total(more, InWindow) <= Limit * (lost + 1)
  BY <1>2, <1>4, <1>8, Numbers, LossesAdd
<1>10. LossesWithin(more)'
  BY <1>1, <1>9 DEF LossesWithin
<1> QED
  BY <1>5, <1>6, <1>7, <1>10 DEF ShareInv, Shares

LEMMA ShareStep == TypeInv /\ ShareInv /\ [Next]_vars => ShareInv'
<1> SUFFICES ASSUME TypeInv, ShareInv, [Next]_vars PROVE ShareInv'
  OBVIOUS
<1>1. PICK r, o : Shares(r, o)
  BY DEF ShareInv
<1>2. CASE UNCHANGED redisVars /\ \E outcome \in Outcomes : CheckRateLimit(outcome)
  BY <1>1, <1>2, CallKeepsShares
<1>3. CASE Tick /\ RateTick
  BY <1>1, <1>3, TickKeepsShares
<1>4. ASSUME now' = now, lost' = lost, UNCHANGED rateVars PROVE ShareInv'
  <2>1. /\ InWindow' = InWindow /\ counter' = counter /\ bucket' = bucket /\ allowed' = allowed
    BY <1>4, WindowStays DEF rateVars
  <2>2. Shares(r, o)'
    BY <1>1, <1>4, <2>1
       DEF Shares, SharesTyped, SharesCover, CounterKeeps, LossesWithin
  <2> QED
    BY <2>2 DEF ShareInv
<1>5. CASE Reachability /\ UNCHANGED rateVars
  BY <1>4, <1>5 DEF Reachability
<1>6. CASE LoseData /\ counter' = NoKey /\ UNCHANGED <<bucket, allowed, lastCall>>
  BY <1>1, <1>6, RedisLossKeepsShares
<1>7. CASE LoseData /\ bucket' = NoTimes /\ UNCHANGED <<counter, allowed, lastCall>>
  BY <1>1, <1>7, RestartKeepsShares
<1>8. CASE UNCHANGED <<redisVars, rateVars>>
  BY <1>4, <1>8 DEF redisVars
<1> QED
  BY <1>2, <1>3, <1>5, <1>6, <1>7, <1>8, RateSteps

LEMMA SharesLimit == TypeInv /\ ShareInv => AtMostTwiceTheLimit
<1> SUFFICES ASSUME TypeInv, ShareInv PROVE AtMostTwiceTheLimit
  OBVIOUS
<1>1. PICK r, o : Shares(r, o)
  BY DEF ShareInv
<1>2. /\ r \in [Times -> Nat] /\ o \in [Times -> Nat]
      /\ \A t \in InWindow : allowed[t] <= r[t] + bucket[t] + o[t]
      /\ Total(r, InWindow) <= Limit
      /\ Total(o, InWindow) <= Limit * lost
      /\ Total(bucket, InWindow) <= Limit
  BY <1>1 DEF Shares, SharesTyped, SharesCover, CounterKeeps, LossesWithin,
              TypeInv, BucketWithinLimit
<1>3. InWindow \subseteq Times /\ IsFiniteSet(InWindow)
  BY WindowIsFinite
<1>4. bucket \in [Times -> Nat] /\ allowed \in [Times -> Nat]
  BY Numbers
<1>5. Total(allowed, InWindow) <= Total(r, InWindow) + Total(bucket, InWindow) + Total(o, InWindow)
  BY <1>2, <1>3, <1>4, TotalOfThree
<1>6. /\ Total(allowed, InWindow) \in Nat /\ Total(r, InWindow) \in Nat
      /\ Total(bucket, InWindow) \in Nat /\ Total(o, InWindow) \in Nat
  BY <1>2, <1>3, <1>4, TotalIsNat
<1>7. Limit * (2 + lost) = Limit + Limit + Limit * lost /\ Limit * lost \in Nat
  BY Numbers
<1>8. Total(allowed, InWindow) <= Limit * (2 + lost)
  BY <1>2, <1>5, <1>6, <1>7, Numbers
<1> QED
  BY <1>8, InWindowCountIsTotal DEF AtMostTwiceTheLimit

\* However often Redis comes and goes between the calls, any window allows at
\* most twice the limit, and once more for each time Redis or the process lost
\* its data (check_rate_limit).
THEOREM LimitHolds == Spec => []AtMostTwiceTheLimit
<1>1. TypeInv /\ ShareInv => AtMostTwiceTheLimit
  BY SharesLimit
<1>2. Init => TypeInv /\ ShareInv
  BY InitInv, ShareInit
<1>3. TypeInv /\ ShareInv /\ [Next]_vars => (TypeInv /\ ShareInv)'
  BY TypeInvStep, ShareStep
<1> QED
  BY <1>1, <1>2, <1>3, PTL DEF Spec
=============================================================================
