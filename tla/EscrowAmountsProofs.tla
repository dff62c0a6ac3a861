------------------------- MODULE EscrowAmountsProofs -------------------------
(***************************************************************************)
(* The money of a contract, for every agreed amount, every list of         *)
(* percentages, every outcome of the ties of rounding and every award:     *)
(* what the stages of a plan add up to, what the last one absorbs, and     *)
(* what the loop over them in a partial refund pays to whom.               *)
(***************************************************************************)
EXTENDS EscrowAmounts, WellFoundedInduction, TLAPS

-----------------------------------------------------------------------------
(***************************************************************************)
(* Sums over a list.  The code's totals are defined by recursion; that     *)
(* there is such a function is shown with the smallest counterexample.     *)
(***************************************************************************)

LEMMA SmallestNumber ==
    ASSUME NEW T, T \subseteq Nat, T # {}
    PROVE  \E n \in T : \A m \in T : n <= m
<1>1. PICK n \in T : \A m \in T : ~ (<<m, n>> \in OpToRel(<, Nat))
  BY NatLessThanWellFounded, WFMin
<1>2. \A m \in T : ~ (m < n)
  BY <1>1 DEF OpToRel
<1> QED
  BY <1>2

\* f[k] is the sum of the first k terms of s, for k up to n.
IsPrefixSum(f, s, n) == f = [k \in 0..n |-> IF k = 0 THEN 0 ELSE f[k - 1] + s[k]]

PrefixSums(s, n) == CHOOSE f : IsPrefixSum(f, s, n)
PrefixSum(s, n) == PrefixSums(s, n)[n]

LEMMA PrefixSumAt ==
    ASSUME NEW n \in Nat, NEW s, NEW f, IsPrefixSum(f, s, n)
    PROVE  /\ f[0] = 0
           /\ \A k \in 1..n : f[k] = f[k - 1] + s[k]
<1> DEFINE g == [k \in 0..n |-> IF k = 0 THEN 0 ELSE f[k - 1] + s[k]]
<1>1. f = g
  BY DEF IsPrefixSum
<1>2. g[0] = 0 /\ \A k \in 1..n : g[k] = f[k - 1] + s[k]
  OBVIOUS
<1> HIDE DEF g
<1> QED
  BY <1>1, <1>2

LEMMA PrefixSumExists ==
    ASSUME NEW n \in Nat, NEW s
    PROVE  \E f : IsPrefixSum(f, s, n)
<1> DEFINE Bad == {k \in Nat : ~ \E f : IsPrefixSum(f, s, k)}
<1>1. SUFFICES ASSUME Bad # {} PROVE FALSE
  OBVIOUS
<1>2. PICK k \in Bad : \A m \in Bad : k <= m
  <2>1. Bad \subseteq Nat
    OBVIOUS
  <2> HIDE DEF Bad
  <2> QED
    BY <1>1, <2>1, SmallestNumber
<1>3. k \in Nat
  OBVIOUS
<1>4. CASE k = 0
  <2> DEFINE f == [i \in 0..0 |-> 0]
  <2>1. f = [i \in 0..0 |-> IF i = 0 THEN 0 ELSE f[i - 1] + s[i]]
    OBVIOUS
  <2>2. IsPrefixSum(f, s, 0)
    BY <2>1 DEF IsPrefixSum
  <2> QED
    BY <1>4, <2>2
<1>5. CASE k > 0
  <2>1. k - 1 \in Nat /\ k - 1 \notin Bad
    BY <1>2, <1>3, <1>5
  <2>2. PICK f : IsPrefixSum(f, s, k - 1)
    BY <2>1
  <2> DEFINE g == [i \in 0..k |-> IF i = k THEN f[k - 1] + s[k] ELSE f[i]]
  <2>3. ASSUME NEW i \in 0..k
        PROVE  g[i] = IF i = 0 THEN 0 ELSE g[i - 1] + s[i]
    <3>1. f[0] = 0 /\ \A j \in 1..(k - 1) : f[j] = f[j - 1] + s[j]
      BY <2>1, <2>2, PrefixSumAt
    <3> QED
      BY <1>3, <1>5, <3>1
  <2>4. g = [i \in 0..k |-> IF i = 0 THEN 0 ELSE g[i - 1] + s[i]]
    BY <2>3
  <2>5. IsPrefixSum(g, s, k)
    BY <2>4 DEF IsPrefixSum
  <2> QED
    BY <2>5
<1> QED
  BY <1>3, <1>4, <1>5

\* Sums of the same first terms agree.
LEMMA PrefixSumsAgree ==
    ASSUME NEW n \in Nat, NEW m \in Nat, NEW s, NEW t, NEW f, NEW g,
           IsPrefixSum(f, s, n), IsPrefixSum(g, t, m),
           NEW k \in Nat, k <= n, k <= m, \A i \in 1..k : s[i] = t[i]
    PROVE  f[k] = g[k]
<1> DEFINE Bad == {i \in 0..k : f[i] # g[i]}
<1>1. SUFFICES ASSUME Bad # {} PROVE FALSE
  OBVIOUS
<1>2. PICK i \in Bad : \A j \in Bad : i <= j
  <2>1. Bad \subseteq Nat
    OBVIOUS
  <2> HIDE DEF Bad
  <2> QED
    BY <1>1, <2>1, SmallestNumber
<1>3. i \in 0..k /\ f[i] # g[i]
  OBVIOUS
<1>4. i # 0
  BY <1>3, PrefixSumAt
<1>5. f[i - 1] = g[i - 1]
  BY <1>2, <1>3, <1>4
<1>6. f[i] = f[i - 1] + s[i] /\ g[i] = g[i - 1] + t[i] /\ s[i] = t[i]
  BY <1>3, <1>4, PrefixSumAt
<1> QED
  BY <1>3, <1>5, <1>6

LEMMA PrefixSumsAre == ASSUME NEW n \in Nat, NEW s PROVE IsPrefixSum(PrefixSums(s, n), s, n)
  BY PrefixSumExists DEF PrefixSums

LEMMA PrefixSumOfSameTerms ==
    ASSUME NEW n \in Nat, NEW s, NEW t, \A i \in 1..n : s[i] = t[i]
    PROVE  PrefixSum(s, n) = PrefixSum(t, n)
  BY PrefixSumsAre, PrefixSumsAgree DEF PrefixSum

LEMMA PrefixSumStep ==
    ASSUME NEW s
    PROVE  /\ PrefixSum(s, 0) = 0
           /\ \A n \in Nat : PrefixSum(s, n + 1) = PrefixSum(s, n) + s[n + 1]
<1>1. PrefixSum(s, 0) = 0
  BY PrefixSumsAre, PrefixSumAt DEF PrefixSum
<1>2. ASSUME NEW n \in Nat
      PROVE  PrefixSum(s, n + 1) = PrefixSum(s, n) + s[n + 1]
  <2> DEFINE f == PrefixSums(s, n + 1)
             g == PrefixSums(s, n)
  <2>1. IsPrefixSum(f, s, n + 1) /\ IsPrefixSum(g, s, n)
    BY PrefixSumsAre
  <2>2. PrefixSum(s, n + 1) = f[n + 1] /\ PrefixSum(s, n) = g[n]
    BY DEF PrefixSum
  <2> HIDE DEF f, g
  <2>3. f[n + 1] = f[n] + s[n + 1]
    BY <2>1, PrefixSumAt
  <2>4. f[n] = g[n]
    BY <2>1, PrefixSumsAgree
  <2> QED
    BY <2>2, <2>3, <2>4
<1> QED
  BY <1>1, <1>2

LEMMA PrefixSumIsInt ==
    ASSUME NEW n \in Nat, NEW s, \A i \in 1..n : s[i] \in Int
    PROVE  \A k \in 0..n : PrefixSum(s, k) \in Int
<1> DEFINE Bad == {k \in 0..n : PrefixSum(s, k) \notin Int}
<1>1. SUFFICES ASSUME Bad # {} PROVE FALSE
  OBVIOUS
<1>2. PICK k \in Bad : \A m \in Bad : k <= m
  <2>1. Bad \subseteq Nat
    OBVIOUS
  <2> HIDE DEF Bad
  <2> QED
    BY <1>1, <2>1, SmallestNumber
<1>3. k \in 0..n /\ PrefixSum(s, k) \notin Int
  OBVIOUS
<1>4. k # 0
  BY <1>3, PrefixSumStep
<1>5. k - 1 \in 0..n /\ k - 1 \notin Bad
  BY <1>2, <1>3, <1>4
<1>6. PrefixSum(s, k - 1) \in Int /\ s[k] \in Int
  BY <1>3, <1>4, <1>5
<1>7. PrefixSum(s, (k - 1) + 1) = PrefixSum(s, k - 1) + s[(k - 1) + 1]
  BY <1>3, <1>4, PrefixSumStep
<1>8. (k - 1) + 1 = k
  BY <1>3
<1> QED
  BY <1>3, <1>6, <1>7, <1>8

-----------------------------------------------------------------------------
(***************************************************************************)
(* The stage loop of _custom_milestones.                                   *)
(***************************************************************************)

\* What the loop has allocated is within half a cent per stage of the exact
\* share; before the last stage there is something left for it.
AllocatedNearShare ==
    payment = "custom" /\ index < Len(percentage) =>
        /\ 10000 * allocated - taken * amount <= 5000 * index
        /\ taken * amount - 10000 * allocated <= 5000 * index

PlanInv == TypeOK /\ AllocatedNearShare /\ LastStageAbsorbsRounding

-----------------------------------------------------------------------------
\* What round() returns is a whole number of cents, within half a cent.
LEMMA CentsNearShare ==
    ASSUME NEW share \in Nat, NEW of \in Nat, NEW c \in Cents(share, of)
    PROVE  /\ c \in Nat
           /\ 10000 * c - share * of <= 5000
           /\ share * of - 10000 * c <= 5000
<1>1. share * of \in Nat
  OBVIOUS
<1>2. (share * of) \div 10000 \in Nat
  <2> DEFINE exact == share * of
  <2>1. exact \in Nat
    BY <1>1
  <2> HIDE DEF exact
  <2>2. exact \div 10000 \in Nat
    BY <2>1
  <2> QED
    BY <2>2 DEF exact
<1> QED
  BY <1>2 DEF Cents

LEMMA PercentageIsNat == Percentage \subseteq Nat \ {0}
BY DEF Percentage

LEMMA DefaultPlansAreLists ==
    ASSUME NEW plan \in DefaultPlans
    PROVE  plan \in Seq(Percentage) /\ plan # <<>>
<1>1. <<10000>> \in Seq(Percentage)
  BY DEF Percentage
<1>2. <<5000, 5000>> \in Seq(Percentage)
  BY DEF Percentage
<1>3. <<3000, 4000, 3000>> \in Seq(Percentage)
  BY DEF Percentage
<1>4. plan = <<10000>> \/ plan = <<5000, 5000>> \/ plan = <<3000, 4000, 3000>>
  BY DEF DefaultPlans
<1>5. plan \in Seq(Percentage)
  <2>1. CASE plan = <<10000>>
    BY <2>1, <1>1
  <2>2. CASE plan = <<5000, 5000>>
    BY <2>2, <1>2
  <2>3. CASE plan = <<3000, 4000, 3000>>
    BY <2>3, <1>3
  <2> QED
    BY <1>4, <2>1, <2>2, <2>3
<1>6. <<10000>> # <<>> /\ <<5000, 5000>> # <<>> /\ <<3000, 4000, 3000>> # <<>>
  OBVIOUS
<1>7. plan # <<>>
  BY <1>4, <1>6
<1> QED
  BY <1>5, <1>7

LEMMA RoundingsAreCents ==
    ASSUME TypeOK, NEW rounded \in Roundings, NEW i \in 1..Len(percentage)
    PROVE  rounded[percentage[i]] \in Nat
<1>1. percentage[i] \in Percentage
  BY DEF TypeOK
<1>2. rounded[percentage[i]] \in Cents(percentage[i], amount)
  BY DEF Roundings
<1>3. percentage[i] \in Nat /\ amount \in Nat
  <2>1. percentage[i] \in Nat
    BY <1>1, PercentageIsNat
  <2> QED
    BY <2>1 DEF TypeOK
<1> QED
  BY <1>2, <1>3, CentsNearShare

-----------------------------------------------------------------------------
LEMMA PlanInvInit == Init => PlanInv
<1> SUFFICES ASSUME Init
             PROVE  PlanInv
  OBVIOUS
<1>1. percentage \in Seq(Percentage) /\ percentage # <<>>
  <2>1. CASE payment = "default"
    BY <2>1, DefaultPlansAreLists DEF Init
  <2>2. CASE payment = "custom"
    BY <2>2, ConstantsAssumption DEF Init
  <2> QED
    BY <2>1, <2>2 DEF Init
<1>2. Len(percentage) \in Nat \ {0}
  BY <1>1
<1>3. amount \in Nat \ {0}
  BY ConstantsAssumption DEF Init
<1> QED
  BY <1>1, <1>2, <1>3 DEF Init, PlanInv, TypeOK, AllocatedNearShare,
                          LastStageAbsorbsRounding, Planned

\* The loop allocates one more rounded share.
LEMMA PlanStageKeepsInv == PlanInv /\ PlanStage => PlanInv'
<1> SUFFICES ASSUME PlanInv, PlanStage
             PROVE  PlanInv'
  OBVIOUS
<1> DEFINE share == percentage[index + 1]
<1>1. /\ index \in Nat /\ Len(percentage) \in Nat
      /\ index + 1 \in 1..Len(percentage)
      /\ share \in Percentage
  BY DEF PlanInv, TypeOK, PlanStage
<1>2. share \in Nat \ {0} /\ amount \in Nat \ {0}
  <2>1. share \in Nat \ {0}
    BY <1>1, PercentageIsNat
  <2> QED
    BY <2>1 DEF PlanInv, TypeOK
<1>3. PICK c \in Cents(share, amount) :
        /\ stage' = [stage EXCEPT ![index + 1] = c]
        /\ allocated' = allocated + c
  BY DEF PlanStage
<1>4. /\ c \in Nat
      /\ 10000 * c - share * amount <= 5000
      /\ share * amount - 10000 * c <= 5000
  BY <1>2, CentsNearShare
<1>5. TypeOK'
  <2>1. /\ payment' = payment /\ amount' = amount /\ percentage' = percentage
        /\ index' = index + 1 /\ taken' = taken + share
    BY DEF PlanStage
  <2>2. index' \in 0..Len(percentage)
    BY <1>1, <2>1
  <2>3. allocated' \in Nat /\ taken' \in Nat
    BY <1>2, <1>3, <1>4, <2>1 DEF PlanInv, TypeOK
  <2>4. stage' \in [1..Len(percentage) -> Int]
    BY <1>1, <1>3, <1>4 DEF PlanInv, TypeOK
  <2> QED
    BY <2>1, <2>2, <2>3, <2>4 DEF PlanInv, TypeOK
<1>6. AllocatedNearShare'
  <2>1. /\ 10000 * allocated - taken * amount <= 5000 * index
        /\ taken * amount - 10000 * allocated <= 5000 * index
    BY <1>1 DEF PlanInv, AllocatedNearShare, PlanStage
  <2>2. (taken + share) * amount = taken * amount + share * amount
    BY <1>2 DEF PlanInv, TypeOK
  <2>3. /\ taken * amount \in Nat /\ share * amount \in Nat
        /\ allocated \in Nat
    BY <1>2 DEF PlanInv, TypeOK
  <2>4. /\ 10000 * (allocated + c) - (taken + share) * amount <= 5000 * (index + 1)
        /\ (taken + share) * amount - 10000 * (allocated + c) <= 5000 * (index + 1)
    <3> DEFINE T == taken * amount
               S == share * amount
               B == (taken + share) * amount
    <3>1. B = T + S /\ T \in Nat /\ S \in Nat
      BY <2>2, <2>3
    <3>2. /\ 10000 * allocated - T <= 5000 * index
          /\ T - 10000 * allocated <= 5000 * index
          /\ 10000 * c - S <= 5000
          /\ S - 10000 * c <= 5000
      BY <2>1, <1>4
    <3> HIDE DEF T, S, B
    <3>3. /\ 10000 * (allocated + c) - B <= 5000 * (index + 1)
          /\ B - 10000 * (allocated + c) <= 5000 * (index + 1)
      BY <3>1, <3>2, <2>3, <1>1, <1>4
    <3> QED
      BY <3>3 DEF B
  <2> QED
    BY <2>4, <1>3 DEF AllocatedNearShare, PlanStage
<1>7. LastStageAbsorbsRounding'
  BY <1>1 DEF LastStageAbsorbsRounding, Planned, PlanStage
<1> QED
  BY <1>5, <1>6, <1>7 DEF PlanInv

\* The last stage gets the rest, which is as near to its share.
LEMMA PlanLastStageKeepsInv == PlanInv /\ PlanLastStage => PlanInv'
<1> SUFFICES ASSUME PlanInv, PlanLastStage
             PROVE  PlanInv'
  OBVIOUS
<1>1. /\ Len(percentage) \in Nat /\ index \in Nat
      /\ index + 1 = Len(percentage)
      /\ allocated \in Nat /\ taken \in Nat /\ amount \in Nat
  BY DEF PlanInv, TypeOK, PlanLastStage
<1>2. stage' = [stage EXCEPT ![index + 1] = amount - allocated]
  BY DEF PlanLastStage, LastCents
<1>3. TypeOK'
  BY <1>1, <1>2 DEF PlanInv, TypeOK, PlanLastStage
<1>4. AllocatedNearShare'
  BY <1>1 DEF AllocatedNearShare, PlanLastStage
<1>5. LastStageAbsorbsRounding'
  <2>1. /\ 10000 * allocated - taken * amount <= 5000 * index
        /\ taken * amount - 10000 * allocated <= 5000 * index
    BY <1>1 DEF PlanInv, AllocatedNearShare, PlanLastStage
  <2>2. (10000 - taken) * amount = 10000 * amount - taken * amount
    BY <1>1
  <2>3. taken * amount \in Nat
    BY <1>1
  <2>4. stage'[index + 1] = amount - allocated
    BY <1>1, <1>2 DEF PlanInv, TypeOK
  <2>5. /\ 10000 * (amount - allocated) - (10000 - taken) * amount <= 5000 * index
        /\ - (10000 * (amount - allocated) - (10000 - taken) * amount) <= 5000 * index
    <3> DEFINE T == taken * amount
               R == (10000 - taken) * amount
    <3>1. R = 10000 * amount - T /\ T \in Nat
      BY <2>2, <2>3
    <3>2. 10000 * allocated - T <= 5000 * index /\ T - 10000 * allocated <= 5000 * index
      BY <2>1
    <3> HIDE DEF T, R
    <3>3. /\ 10000 * (amount - allocated) - R <= 5000 * index
          /\ - (10000 * (amount - allocated) - R) <= 5000 * index
      BY <3>1, <3>2, <1>1
    <3> QED
      BY <3>3 DEF R
  <2>6. /\ Len(percentage)' = index + 1 /\ Len(percentage)' - 1 = index
        /\ taken' = taken /\ amount' = amount
    BY <1>1 DEF PlanLastStage
  <2> QED
    BY <2>4, <2>5, <2>6 DEF LastStageAbsorbsRounding
<1> QED
  BY <1>3, <1>4, <1>5 DEF PlanInv

LEMMA PlanDefaultKeepsInv == PlanInv /\ PlanDefault => PlanInv'
<1> SUFFICES ASSUME PlanInv, PlanDefault
             PROVE  PlanInv'
  OBVIOUS
<1>1. PICK rounded \in Roundings :
        stage' = [i \in 1..Len(percentage) |-> rounded[percentage[i]]]
  BY DEF PlanDefault
<1>2. \A i \in 1..Len(percentage) : rounded[percentage[i]] \in Nat
  BY RoundingsAreCents DEF PlanInv
<1>3. stage' \in [1..Len(percentage) -> Int]
  BY <1>1, <1>2
<1>4. TypeOK'
  BY <1>3 DEF PlanInv, TypeOK, PlanDefault
<1>5. payment' = "default"
  BY DEF PlanDefault
<1> QED
  BY <1>4, <1>5 DEF PlanInv, AllocatedNearShare, LastStageAbsorbsRounding

-----------------------------------------------------------------------------
LEMMA PlanInvHolds == Spec => []PlanInv
<1>1. PlanInv /\ [Next]_vars => PlanInv'
  <2> SUFFICES ASSUME PlanInv, [Next]_vars
               PROVE  PlanInv'
    OBVIOUS
  <2>1. CASE PlanDefault
    BY <2>1, PlanDefaultKeepsInv
  <2>2. CASE PlanStage
    BY <2>2, PlanStageKeepsInv
  <2>3. CASE PlanLastStage
    BY <2>3, PlanLastStageKeepsInv
  <2>4. CASE UNCHANGED vars
    BY <2>4 DEF vars, PlanInv, TypeOK, AllocatedNearShare, LastStageAbsorbsRounding, Planned
  <2> QED
    BY <2>1, <2>2, <2>3, <2>4 DEF Next
<1> QED
  BY PlanInvInit, <1>1, PTL DEF Spec

-----------------------------------------------------------------------------
(***************************************************************************)
(* What the stages add up to.                                              *)
(***************************************************************************)

LEMMA TotalsArePrefixSums ==
    /\ PlanTotal = PrefixSum(stage, Len(percentage))
    /\ PlanTotal' = PrefixSum(stage', Len(percentage'))
    /\ \A plan : TotalPercentage(plan) = PrefixSum(plan, Len(plan))
  BY DEF PlanTotal, TotalPercentage, PrefixSum, PrefixSums, IsPrefixSum

\* Before the last stage, what is allocated is what the stages add up to; the
\* percentages behind it are those of the stages that have their amount.
AllocatedIsTotal ==
    payment = "custom" =>
        /\ index < Len(percentage) =>
              allocated = PrefixSum(stage, index) /\ taken = PrefixSum(percentage, index)
        /\ index = Len(percentage) =>
              PrefixSum(stage, index) = amount /\ taken = PrefixSum(percentage, index - 1)

\* The default plans are at most one cent off.
DefaultIsNearAmount ==
    payment = "default" /\ Planned => PlanTotal - amount \in -1..1

\* The amount of a stage is at most half a cent above its share; the last one of
\* a custom plan is bounded by LastStageAbsorbsRounding.
StagesNearShare ==
    \A i \in 1..index :
        payment = "default" \/ i < Len(percentage) =>
            10000 * stage[i] <= percentage[i] * amount + 5000

TotalIsValid ==
    /\ percentage # <<>>
    /\ payment = "custom" => ValidTotal(TotalPercentage(percentage))
    /\ payment = "default" => percentage \in DefaultPlans

TotalsInv == PlanInv /\ AllocatedIsTotal /\ DefaultIsNearAmount /\ StagesNearShare /\ TotalIsValid

LEMMA TotalsInit == Init => TotalsInv
<1> SUFFICES ASSUME Init PROVE TotalsInv
  OBVIOUS
<1>1. PlanInv
  BY PlanInvInit
<1>2. TotalIsValid
  BY DefaultPlansAreLists, ConstantsAssumption DEF Init, TotalIsValid
<1>3. Len(percentage) \in Nat \ {0}
  BY <1>1, <1>2 DEF TotalIsValid, PlanInv, TypeOK
<1>4. index = 0 /\ allocated = 0 /\ taken = 0
  BY DEF Init
<1>5. AllocatedIsTotal
  BY <1>3, <1>4, PrefixSumStep DEF AllocatedIsTotal
<1>6. DefaultIsNearAmount /\ StagesNearShare
  BY <1>3, <1>4 DEF DefaultIsNearAmount, StagesNearShare, Planned
<1> QED
  BY <1>1, <1>2, <1>5, <1>6 DEF TotalsInv

LEMMA StageTypes ==
    ASSUME TypeOK
    PROVE  /\ Len(percentage) \in Nat /\ index \in Nat
           /\ amount \in Nat
           /\ \A i \in 1..Len(percentage) : percentage[i] \in Nat /\ stage[i] \in Int
<1>1. Len(percentage) \in Nat /\ index \in Nat /\ amount \in Nat
  BY DEF TypeOK
<1>2. ASSUME NEW i \in 1..Len(percentage)
      PROVE  percentage[i] \in Nat /\ stage[i] \in Int
  <2>1. percentage[i] \in Percentage /\ stage[i] \in Int
    BY DEF TypeOK
  <2> QED
    BY <2>1, PercentageIsNat
<1> QED
  BY <1>1, <1>2

LEMMA PlanStageKeepsTotals == TotalsInv /\ PlanStage => TotalsInv'
<1> SUFFICES ASSUME TotalsInv, PlanStage PROVE TotalsInv'
  OBVIOUS
<1> DEFINE n == index + 1
<1>1. PlanInv' /\ TypeOK
  BY PlanStageKeepsInv DEF TotalsInv, PlanInv
<1>2. PICK c \in Cents(percentage[n], amount) :
        /\ stage' = [stage EXCEPT ![n] = c]
        /\ allocated' = allocated + c
  BY DEF PlanStage
<1>3. /\ payment = "custom" /\ n < Len(percentage)
      /\ index' = n /\ taken' = taken + percentage[n]
      /\ UNCHANGED <<payment, amount, percentage>>
  BY DEF PlanStage
<1>4. /\ index \in Nat /\ n \in 1..Len(percentage) /\ n # Len(percentage)
      /\ percentage[n] \in Nat /\ amount \in Nat /\ Len(percentage) \in Nat
      /\ stage \in [1..Len(percentage) -> Int]
  BY <1>1, <1>3, StageTypes DEF TypeOK
<1>5. c \in Int /\ 10000 * c - percentage[n] * amount <= 5000
  BY <1>4, CentsNearShare
<1>6. stage'[n] = c /\ \A i \in 1..Len(percentage) : i # n => stage'[i] = stage[i]
  BY <1>2, <1>4
<1>7. AllocatedIsTotal'
  <2>1. allocated = PrefixSum(stage, index) /\ taken = PrefixSum(percentage, index)
    BY <1>3, <1>4 DEF TotalsInv, AllocatedIsTotal
  <2>2. PrefixSum(stage', index) = PrefixSum(stage, index)
    <3>1. \A i \in 1..index : stage'[i] = stage[i]
      BY <1>4, <1>6
    <3> QED
      BY <1>4, <3>1, PrefixSumOfSameTerms
  <2>3. PrefixSum(stage', n) = PrefixSum(stage', index) + c
    BY <1>4, <1>6, PrefixSumStep
  <2>4. PrefixSum(percentage, n) = PrefixSum(percentage, index) + percentage[n]
    BY <1>4, PrefixSumStep
  <2>5. allocated' = PrefixSum(stage', n) /\ taken' = PrefixSum(percentage, n)
    BY <1>2, <1>3, <2>1, <2>2, <2>3, <2>4
  <2> QED
    BY <1>3, <1>4, <2>5 DEF AllocatedIsTotal
<1>8. StagesNearShare'
  <2>1. 10000 * stage'[n] <= percentage[n] * amount + 5000
    <3> DEFINE exact == percentage[n] * amount
    <3>1. exact \in Int
      BY <1>4
    <3>2. 10000 * c - exact <= 5000
      BY <1>5
    <3> HIDE DEF exact
    <3>3. 10000 * c <= exact + 5000
      BY <1>5, <3>1, <3>2
    <3> QED
      BY <1>6, <3>3 DEF exact
  <2>2. \A i \in 1..n : i = n \/ i \in 1..index
    BY <1>4
  <2> QED
    BY <1>3, <1>4, <1>6, <2>1, <2>2 DEF TotalsInv, StagesNearShare
<1>9. TotalIsValid' /\ DefaultIsNearAmount'
  BY <1>3 DEF TotalsInv, TotalIsValid, DefaultIsNearAmount
<1> QED
  BY <1>1, <1>7, <1>8, <1>9 DEF TotalsInv

LEMMA PlanLastStageKeepsTotals == TotalsInv /\ PlanLastStage => TotalsInv'
<1> SUFFICES ASSUME TotalsInv, PlanLastStage PROVE TotalsInv'
  OBVIOUS
<1> DEFINE n == index + 1
<1>1. PlanInv' /\ TypeOK
  BY PlanLastStageKeepsInv DEF TotalsInv, PlanInv
<1>2. stage' = [stage EXCEPT ![n] = amount - allocated]
  BY DEF PlanLastStage, LastCents
<1>3. /\ payment = "custom" /\ n = Len(percentage)
      /\ index' = n
      /\ UNCHANGED <<payment, amount, percentage, allocated, taken>>
  BY DEF PlanLastStage
<1>4. /\ index \in Nat /\ n \in 1..Len(percentage) /\ index < Len(percentage)
      /\ amount \in Nat /\ allocated \in Nat
      /\ stage \in [1..Len(percentage) -> Int]
  BY <1>1, <1>3, StageTypes DEF TypeOK
<1>5. stage'[n] = amount - allocated /\ \A i \in 1..index : stage'[i] = stage[i]
  BY <1>2, <1>4
<1>6. AllocatedIsTotal'
  <2>1. allocated = PrefixSum(stage, index) /\ taken = PrefixSum(percentage, index)
    BY <1>3, <1>4 DEF TotalsInv, AllocatedIsTotal
  <2>2. PrefixSum(stage', index) = PrefixSum(stage, index)
    BY <1>4, <1>5, PrefixSumOfSameTerms
  <2>3. PrefixSum(stage', n) = PrefixSum(stage', index) + stage'[n]
    BY <1>4, PrefixSumStep
  <2>4. PrefixSum(stage', n) = amount
    BY <1>4, <1>5, <2>1, <2>2, <2>3
  <2>5. n - 1 = index
    BY <1>4
  <2> QED
    BY <1>3, <1>4, <2>1, <2>4, <2>5 DEF AllocatedIsTotal
<1>7. StagesNearShare'
  <2>1. \A i \in 1..n : i < Len(percentage) => i \in 1..index
    BY <1>3, <1>4
  <2> QED
    BY <1>3, <1>4, <1>5, <2>1 DEF TotalsInv, StagesNearShare
<1>8. TotalIsValid' /\ DefaultIsNearAmount'
  BY <1>3 DEF TotalsInv, TotalIsValid, DefaultIsNearAmount
<1> QED
  BY <1>1, <1>6, <1>7, <1>8 DEF TotalsInv

LEMMA SumOfThree ==
    ASSUME NEW s, s[1] \in Int, s[2] \in Int, s[3] \in Int
    PROVE  /\ PrefixSum(s, 1) = s[1]
           /\ PrefixSum(s, 2) = s[1] + s[2]
           /\ PrefixSum(s, 3) = s[1] + s[2] + s[3]
<1>1. PrefixSum(s, 0) = 0
  BY PrefixSumStep
<1>2. PrefixSum(s, 0 + 1) = PrefixSum(s, 0) + s[0 + 1]
  BY PrefixSumStep
<1>3. PrefixSum(s, 1 + 1) = PrefixSum(s, 1) + s[1 + 1]
  BY PrefixSumStep
<1>4. PrefixSum(s, 2 + 1) = PrefixSum(s, 2) + s[2 + 1]
  BY PrefixSumStep
<1>5. 0 + 1 = 1 /\ 1 + 1 = 2 /\ 2 + 1 = 3
  OBVIOUS
<1>6. PrefixSum(s, 1) = s[1]
  BY <1>1, <1>2, <1>5
<1>7. PrefixSum(s, 2) = s[1] + s[2]
  BY <1>3, <1>5, <1>6
<1> QED
  BY <1>4, <1>5, <1>6, <1>7

LEMMA SumOfFirst ==
    ASSUME NEW s, s[1] \in Int
    PROVE  /\ PrefixSum(s, 1) = s[1]
           /\ PrefixSum(s, 2) = s[1] + s[2]
<1>1. PrefixSum(s, 0) = 0
  BY PrefixSumStep
<1>2. PrefixSum(s, 0 + 1) = PrefixSum(s, 0) + s[0 + 1]
  BY PrefixSumStep
<1>3. PrefixSum(s, 1 + 1) = PrefixSum(s, 1) + s[1 + 1]
  BY PrefixSumStep
<1>4. 0 + 1 = 1 /\ 1 + 1 = 2
  OBVIOUS
<1>5. PrefixSum(s, 1) = s[1]
  BY <1>1, <1>2, <1>4
<1> QED
  BY <1>3, <1>4, <1>5

LEMMA PlanDefaultKeepsTotals == TotalsInv /\ PlanDefault => TotalsInv'
<1> SUFFICES ASSUME TotalsInv, PlanDefault PROVE TotalsInv'
  OBVIOUS
<1>1. PlanInv' /\ TypeOK
  BY PlanDefaultKeepsInv DEF TotalsInv, PlanInv
<1>2. PICK rounded \in Roundings :
        stage' = [i \in 1..Len(percentage) |-> rounded[percentage[i]]]
  BY DEF PlanDefault
<1>3. /\ payment = "default" /\ index' = Len(percentage)
      /\ UNCHANGED <<payment, amount, percentage>>
  BY DEF PlanDefault
<1>4. amount \in Nat /\ Len(percentage) \in Nat
  BY <1>1, StageTypes
<1>5. ASSUME NEW i \in 1..Len(percentage)
      PROVE  /\ percentage[i] \in Nat
             /\ stage'[i] = rounded[percentage[i]]
             /\ stage'[i] \in Nat
             /\ 10000 * stage'[i] - percentage[i] * amount <= 5000
             /\ percentage[i] * amount - 10000 * stage'[i] <= 5000
  <2>1. percentage[i] \in Nat
    BY <1>1, StageTypes
  <2>2. rounded[percentage[i]] \in Cents(percentage[i], amount)
    BY DEF Roundings
  <2>3. stage'[i] = rounded[percentage[i]]
    BY <1>2
  <2> QED
    BY <1>4, <2>1, <2>2, <2>3, CentsNearShare
<1>6. StagesNearShare'
  <2>1. ASSUME NEW i \in 1..Len(percentage)
        PROVE  10000 * stage'[i] <= percentage[i] * amount + 5000
    <3> DEFINE exact == percentage[i] * amount
    <3>1. exact \in Int
      BY <1>4, <1>5
    <3>2. 10000 * stage'[i] - exact <= 5000 /\ stage'[i] \in Int
      BY <1>5
    <3> HIDE DEF exact
    <3>3. 10000 * stage'[i] <= exact + 5000
      BY <3>1, <3>2
    <3> QED
      BY <3>3 DEF exact
  <2> QED
    BY <1>3, <2>1 DEF StagesNearShare
<1>7. PrefixSum(stage', Len(percentage)) - amount \in -1..1
  <2>1. percentage \in DefaultPlans
    BY <1>3 DEF TotalsInv, TotalIsValid
  <2>2. CASE percentage = <<10000>>
    <3>1. Len(percentage) = 1 /\ percentage[1] = 10000
      BY <2>2
    <3>2. /\ stage'[1] \in Nat
          /\ 10000 * stage'[1] - 10000 * amount <= 5000
          /\ 10000 * amount - 10000 * stage'[1] <= 5000
      BY <1>5, <3>1
    <3>3. PrefixSum(stage', 1) = stage'[1]
      BY <3>2, SumOfFirst
    <3> QED
      BY <1>4, <3>1, <3>2, <3>3
  <2>3. CASE percentage = <<5000, 5000>>
    <3>1. Len(percentage) = 2 /\ percentage[1] = 5000 /\ percentage[2] = 5000
      BY <2>3
    <3>2. /\ stage'[1] \in Nat
          /\ 10000 * stage'[1] - 5000 * amount <= 5000
          /\ 5000 * amount - 10000 * stage'[1] <= 5000
      BY <1>5, <3>1
    <3>3. stage'[2] = stage'[1]
      BY <1>5, <3>1
    <3>4. PrefixSum(stage', 2) = stage'[1] + stage'[1]
      BY <3>2, <3>3, SumOfFirst
    <3> QED
      BY <1>4, <3>1, <3>2, <3>4
  <2>4. CASE percentage = <<3000, 4000, 3000>>
    <3>1. /\ Len(percentage) = 3
          /\ percentage[1] = 3000 /\ percentage[2] = 4000 /\ percentage[3] = 3000
      BY <2>4
    <3>2. /\ stage'[1] \in Nat
          /\ 10000 * stage'[1] - 3000 * amount <= 5000
          /\ 3000 * amount - 10000 * stage'[1] <= 5000
      BY <1>5, <3>1
    <3>3. /\ stage'[2] \in Nat
          /\ 10000 * stage'[2] - 4000 * amount <= 5000
          /\ 4000 * amount - 10000 * stage'[2] <= 5000
      BY <1>5, <3>1
    <3>4. stage'[3] = stage'[1]
      BY <1>5, <3>1
    <3>5. PrefixSum(stage', 3) = stage'[1] + stage'[2] + stage'[1]
      BY <3>2, <3>3, <3>4, SumOfThree
    <3> QED
      BY <1>4, <3>1, <3>2, <3>3, <3>5
  <2> QED
    BY <2>1, <2>2, <2>3, <2>4 DEF DefaultPlans
<1>8. DefaultIsNearAmount'
  BY <1>3, <1>7, TotalsArePrefixSums DEF DefaultIsNearAmount
<1>9. AllocatedIsTotal' /\ TotalIsValid'
  BY <1>3 DEF AllocatedIsTotal, TotalsInv, TotalIsValid
<1> QED
  BY <1>1, <1>6, <1>8, <1>9 DEF TotalsInv

LEMMA TotalsStep == TotalsInv /\ [Next]_vars => TotalsInv'
<1> SUFFICES ASSUME TotalsInv, [Next]_vars PROVE TotalsInv'
  OBVIOUS
<1>1. CASE PlanDefault
  BY <1>1, PlanDefaultKeepsTotals
<1>2. CASE PlanStage
  BY <1>2, PlanStageKeepsTotals
<1>3. CASE PlanLastStage
  BY <1>3, PlanLastStageKeepsTotals
<1>4. CASE UNCHANGED vars
  <2>1. PlanInv'
    BY <1>4 DEF vars, TotalsInv, PlanInv, TypeOK, AllocatedNearShare,
                LastStageAbsorbsRounding, Planned
  <2>2. PlanTotal' = PlanTotal
    BY <1>4 DEF vars, PlanTotal
  <2>3. AllocatedIsTotal' /\ DefaultIsNearAmount' /\ StagesNearShare' /\ TotalIsValid'
    BY <1>4, <2>2 DEF vars, TotalsInv, AllocatedIsTotal, DefaultIsNearAmount, Planned,
                      StagesNearShare, TotalIsValid
  <2> QED
    BY <2>1, <2>3 DEF TotalsInv
<1> QED
  BY <1>1, <1>2, <1>3, <1>4 DEF Next

\* What the contract pays in the end is what was agreed.
LEMMA TotalsPay == TotalsInv => PlanPaysAgreedAmount
<1> SUFFICES ASSUME TotalsInv, Planned
             PROVE  PlanTotal - amount \in IF payment = "custom" THEN {0} ELSE -1..1
  BY DEF PlanPaysAgreedAmount
<1>1. CASE payment = "custom"
  <2>1. PlanTotal = amount /\ amount \in Nat
    BY <1>1, TotalsArePrefixSums
       DEF TotalsInv, AllocatedIsTotal, Planned, PlanInv, TypeOK
  <2> QED
    BY <1>1, <2>1
<1>2. CASE payment = "default"
  BY <1>2 DEF TotalsInv, DefaultIsNearAmount
<1> QED
  BY <1>1, <1>2 DEF TotalsInv, PlanInv, TypeOK

LEMMA TotalsInvHolds == Spec => []TotalsInv
  BY TotalsInit, TotalsStep, PTL DEF Spec

-----------------------------------------------------------------------------
(***************************************************************************)
(* The plan as part of the contract: a refund changes nothing of it.       *)
(***************************************************************************)

LEMMA RefundKeepsPlan == Refund!Next => UNCHANGED stage
  BY DEF Refund!Next, Refund!Award, Refund!Skip, Refund!ReleaseRest, Refund!RefundWhole,
         Refund!Split, Refund!Move

\* The stages of a contract are those of a plan, whatever is refunded later
\* (_custom_milestones, _default_milestones, _apply_partial_refund).
THEOREM PlanIsKept == AmountsSpec => Spec
<1>1. AmountsInit => Init
  BY DEF AmountsInit
<1>2. [AmountsNext]_<<vars, refund>> => [Next]_vars
  BY RefundKeepsPlan DEF AmountsNext, Plan, RefundStep, vars
<1> QED
  BY <1>1, <1>2, PTL DEF AmountsSpec, Spec

\* However many stages a custom plan has and whatever they round to, its last
\* stage is within half a cent per other stage of the share they leave.
THEOREM LastStageIsNearItsShare == AmountsSpec => []LastStageAbsorbsRounding
<1>1. TotalsInv => LastStageAbsorbsRounding
  BY DEF TotalsInv, PlanInv
<1> QED
  BY PlanIsKept, TotalsInvHolds, <1>1, PTL

\* However the stages round, they pay the agreed amount: to the cent where the
\* buyer chose them, up to one cent by default.
THEOREM StagesPayAgreedAmount == AmountsSpec => []PlanPaysAgreedAmount
  BY PlanIsKept, TotalsInvHolds, TotalsPay, PTL

-----------------------------------------------------------------------------
(***************************************************************************)
(* The loop of a partial refund.                                           *)
(***************************************************************************)

\* What a milestone adds to the pool; the loop moves money, it fixes nothing.
Weight == [i \in 1..Len(stage) |-> IF status[i] = "fixed" THEN 0 ELSE stage[i]]

\* No award yet.
NoAward == pool = 0 /\ turn = 0 /\ remaining = 0 /\ refunded = 0 /\ released = 0

\* What is exact so far: everything went to the buyer, or the award is used up.
AwardIsExact ==
    /\ refunded + remaining = buyer_amount
    /\ remaining > 0 => released = 0

\* The award ended inside a milestone, and went to whoever got most of it.
AwardIsSplit ==
    /\ remaining = 0
    /\ \E k \in 1..Len(stage) :
          /\ 2 * (refunded - buyer_amount) <= stage[k]
          /\ 2 * (buyer_amount - refunded) <= stage[k]

AwardGoing ==
    /\ index = Len(percentage)
    /\ pool \in Nat /\ buyer_amount \in 1..pool
    /\ turn \in 0..Len(stage)
    /\ remaining \in Nat /\ refunded \in Int /\ released \in Int
    /\ status \in [1..Len(stage) -> {"movable", "fixed", "refunded", "released"}]
    /\ pool = PrefixSum(Weight, Len(stage))
    /\ refunded + released = PrefixSum(Weight, turn)
    /\ \A i \in 1..turn : status[i] # "movable"
    /\ AwardIsExact \/ AwardIsSplit

RefundInv == TotalsInv /\ (NoAward \/ AwardGoing)

LEMMA StagesAreMilestones ==
    ASSUME TypeOK
    PROVE  /\ Len(stage) = Len(percentage) /\ Len(stage) \in Nat
           /\ \A i \in 1..Len(stage) : stage[i] \in Int
<1>1. Len(percentage) \in Nat /\ stage \in [1..Len(percentage) -> Int]
  BY StageTypes DEF TypeOK
<1>2. Len(stage) = Len(percentage)
  BY <1>1
<1> QED
  BY <1>1, <1>2

\* The pool of apply_dispute_action.
LEMMA PoolIsPrefixSum ==
    ASSUME Len(stage) \in Nat, NEW statuses
    PROVE  Refund!PoolOf(statuses) =
               PrefixSum([i \in 1..Len(stage) |->
                             IF statuses[i] = "movable" THEN stage[i] ELSE 0], Len(stage))
<1> DEFINE n == Len(stage)
           w == [i \in 1..n |-> IF statuses[i] = "movable" THEN stage[i] ELSE 0]
           IsPool(f) == f = [i \in 0..n |->
                                IF i = 0 THEN 0
                                ELSE f[i - 1] + IF statuses[i] = "movable" THEN stage[i] ELSE 0]
<1>1. Refund!PoolOf(statuses) = (CHOOSE f : IsPool(f))[n]
  BY DEF Refund!PoolOf
<1>2. ASSUME NEW f
      PROVE  [i \in 0..n |-> IF i = 0 THEN 0
                             ELSE f[i - 1] + IF statuses[i] = "movable" THEN stage[i] ELSE 0]
             = [i \in 0..n |-> IF i = 0 THEN 0 ELSE f[i - 1] + w[i]]
  OBVIOUS
<1>3. \A f : IsPool(f) <=> IsPrefixSum(f, w, n)
  BY <1>2 DEF IsPrefixSum
<1>4. \E f : IsPrefixSum(f, w, n)
  BY PrefixSumExists
<1>5. IsPool(CHOOSE f : IsPool(f))
  BY <1>3, <1>4
<1> DEFINE chosen == CHOOSE f : IsPool(f)
<1>6. IsPrefixSum(chosen, w, n)
  BY <1>3, <1>5
<1>7. IsPrefixSum(PrefixSums(w, n), w, n)
  BY PrefixSumsAre
<1> HIDE DEF chosen, w
<1>8. chosen[n] = PrefixSums(w, n)[n]
  BY <1>6, <1>7, PrefixSumsAgree
<1> QED
  BY <1>1, <1>8 DEF chosen, w, PrefixSum

LEMMA WeightIsInt ==
    ASSUME TypeOK
    PROVE  \A k \in 0..Len(stage) : PrefixSum(Weight, k) \in Int
<1>1. Len(stage) \in Nat /\ \A i \in 1..Len(stage) : Weight[i] \in Int
  BY StagesAreMilestones DEF Weight
<1> QED
  BY <1>1, PrefixSumIsInt

LEMMA AwardStarts ==
    ASSUME TotalsInv, NoAward, Refund!Award, index = Len(percentage),
           UNCHANGED <<percentage, index>>
    PROVE  AwardGoing'
<1> DEFINE n == Len(stage)
<1>1. n \in Nat /\ \A i \in 1..n : stage[i] \in Int
  BY StagesAreMilestones DEF TotalsInv, PlanInv
<1>2. /\ status' \in [1..n -> {"movable", "fixed"}]
      /\ pool' = Refund!PoolOf(status')
      /\ buyer_amount' \in 1..pool' /\ remaining' = buyer_amount'
      /\ stage' = stage /\ turn' = 0 /\ refunded' = 0 /\ released' = 0
  BY DEF Refund!Award, Refund!InitialStatus, Refund!Awards, NoAward
<1> DEFINE w == [i \in 1..n |-> IF status'[i] = "movable" THEN stage[i] ELSE 0]
<1>3. pool' = PrefixSum(w, n)
  BY <1>1, <1>2, PoolIsPrefixSum
<1>4. Weight' = w
  <2>1. \A i \in 1..n : (status'[i] = "fixed") <=> (status'[i] # "movable")
    BY <1>2
  <2>2. Weight' = [i \in 1..n |-> IF status'[i] = "fixed" THEN 0 ELSE stage[i]]
    BY <1>2 DEF Weight
  <2> QED
    BY <2>1, <2>2
<1>5. PrefixSum(w, n) \in Int
  <2>1. \A i \in 1..n : w[i] \in Int
    BY <1>1
  <2> HIDE DEF w
  <2>2. n \in 0..n
    BY <1>1
  <2> QED
    BY <1>1, <2>1, <2>2, PrefixSumIsInt
<1>6. PrefixSum(w, 0) = 0
  BY PrefixSumStep
<1> HIDE DEF w
<1>7. pool' \in Nat /\ buyer_amount' \in Nat /\ remaining' \in Nat
  BY <1>2, <1>3, <1>5
<1>8. AwardIsExact'
  <2>1. refunded' = 0 /\ released' = 0 /\ remaining' = buyer_amount'
    BY <1>2
  <2>2. 0 + buyer_amount' = buyer_amount'
    <3>1. \A x \in Nat : 0 + x = x
      OBVIOUS
    <3> QED
      BY <1>7, <3>1, Zenon
  <2> QED
    BY <2>1, <2>2, Zenon DEF AwardIsExact
<1>9. pool' = PrefixSum(Weight', Len(stage')) /\ refunded' + released' = PrefixSum(Weight', turn')
  BY <1>2, <1>3, <1>4, <1>6
<1>10. /\ status' \in [1..Len(stage') -> {"movable", "fixed", "refunded", "released"}]
       /\ turn' \in 0..Len(stage')
       /\ \A i \in 1..turn' : status'[i] # "movable"
  BY <1>1, <1>2
<1> QED
  BY <1>2, <1>7, <1>8, <1>9, <1>10 DEF AwardGoing

\* A turn of the loop adds the milestone it settles to what was paid, and keeps
\* what every milestone adds to the pool.
LEMMA TurnAddsWeight ==
    ASSUME TypeOK, AwardGoing, turn < Len(stage), stage' = stage, turn' = turn + 1,
           \/ status[turn + 1] = "fixed" /\ status' = status
           \/ /\ status[turn + 1] = "movable"
              /\ \E target \in {"refunded", "released"} :
                    status' = [status EXCEPT ![turn + 1] = target]
    PROVE  /\ Weight' = Weight
           /\ PrefixSum(Weight, turn + 1) = PrefixSum(Weight, turn) + Weight[turn + 1]
           /\ status' \in [1..Len(stage) -> {"movable", "fixed", "refunded", "released"}]
           /\ \A i \in 1..turn' : status'[i] # "movable"
           /\ turn' \in 0..Len(stage)
<1>1. /\ Len(stage) \in Nat /\ turn \in Nat /\ turn + 1 \in 1..Len(stage)
      /\ status \in [1..Len(stage) -> {"movable", "fixed", "refunded", "released"}]
      /\ \A i \in 1..turn : status[i] # "movable"
  BY StagesAreMilestones DEF AwardGoing
<1>2. \A i \in 1..Len(stage) : (status'[i] = "fixed") <=> (status[i] = "fixed")
  BY <1>1
<1>3. Weight' = [i \in 1..Len(stage) |-> IF status'[i] = "fixed" THEN 0 ELSE stage[i]]
  BY DEF Weight
<1>4. Weight' = Weight
  BY <1>2, <1>3 DEF Weight
<1>5. PrefixSum(Weight, turn + 1) = PrefixSum(Weight, turn) + Weight[turn + 1]
  BY <1>1, PrefixSumStep
<1>6. status' \in [1..Len(stage) -> {"movable", "fixed", "refunded", "released"}]
  BY <1>1
<1>7. \A i \in 1..turn' : status'[i] # "movable"
  BY <1>1
<1> QED
  BY <1>1, <1>4, <1>5, <1>6, <1>7

LEMMA SkipKeepsAward ==
    ASSUME TotalsInv, AwardGoing, Refund!Skip, UNCHANGED <<percentage, index>>
    PROVE  AwardGoing'
<1>1. /\ turn < Len(stage) /\ status[turn + 1] = "fixed" /\ turn' = turn + 1
      /\ UNCHANGED <<stage, status, buyer_amount, remaining, refunded, released, pool>>
  BY DEF Refund!Skip, Refund!Current
<1>2. /\ Weight' = Weight
      /\ PrefixSum(Weight, turn + 1) = PrefixSum(Weight, turn) + Weight[turn + 1]
      /\ status' \in [1..Len(stage) -> {"movable", "fixed", "refunded", "released"}]
      /\ \A i \in 1..turn' : status'[i] # "movable"
      /\ turn' \in 0..Len(stage)
  BY <1>1, TurnAddsWeight DEF TotalsInv, PlanInv
<1>3. Weight[turn + 1] = 0
  BY <1>1, <1>2 DEF Weight, AwardGoing
<1>4. refunded + released = PrefixSum(Weight, turn + 1)
  BY <1>2, <1>3 DEF AwardGoing
<1>5. AwardIsExact' \/ AwardIsSplit'
  BY <1>1 DEF AwardGoing, AwardIsExact, AwardIsSplit
<1> QED
  BY <1>1, <1>2, <1>4, <1>5 DEF AwardGoing

LEMMA MoveKeepsAward ==
    ASSUME TotalsInv, AwardGoing, UNCHANGED <<percentage, index>>,
           Refund!ReleaseRest \/ Refund!RefundWhole \/ Refund!Split
    PROVE  AwardGoing'
<1> DEFINE whole == stage[turn + 1]
<1>1. PICK target \in {"refunded", "released"}, left \in Nat :
        /\ turn < Len(stage) /\ status[turn + 1] = "movable"
        /\ Refund!Move(target, left)
        /\ \/ target = "released" /\ remaining = 0 /\ left = 0
           \/ target = "refunded" /\ remaining > 0 /\ left = remaining - whole
           \/ /\ remaining > 0 /\ whole > remaining /\ left = 0
              /\ target = "refunded" <=> 2 * remaining >= whole
  <2>1. remaining \in Nat /\ whole \in Int
    <3>1. turn + 1 \in 1..Len(stage)
      BY StagesAreMilestones
         DEF TotalsInv, PlanInv, AwardGoing, Refund!ReleaseRest, Refund!RefundWhole,
             Refund!Split, Refund!Movable
    <3> QED
      BY <3>1, StagesAreMilestones DEF TotalsInv, PlanInv, AwardGoing
  <2>2. CASE Refund!ReleaseRest
    BY <2>1, <2>2 DEF Refund!ReleaseRest, Refund!Movable, Refund!Current, Refund!RestGoesTo
  <2>3. CASE Refund!RefundWhole
    <3>1. remaining - whole \in Nat
      BY <2>1, <2>3 DEF Refund!RefundWhole, Refund!Current
    <3> QED
      BY <2>1, <2>3, <3>1 DEF Refund!RefundWhole, Refund!Movable, Refund!Current
  <2>4. CASE Refund!Split
    <3> DEFINE to == IF 2 * remaining >= whole THEN "refunded" ELSE "released"
    <3>1. /\ turn < Len(stage) /\ status[turn + 1] = "movable"
          /\ Refund!Move(to, 0)
          /\ remaining > 0 /\ whole > remaining
      BY <2>4 DEF Refund!Split, Refund!Movable, Refund!Current, Refund!MostlyRefunded,
                  Refund!AfterSplit
    <3>2. to \in {"refunded", "released"} /\ (to = "refunded" <=> 2 * remaining >= whole)
      OBVIOUS
    <3> HIDE DEF to
    <3> QED
      BY <3>1, <3>2
  <2> QED
    BY <2>2, <2>3, <2>4
<1>2. /\ status' = [status EXCEPT ![turn + 1] = target]
      /\ remaining' = left /\ turn' = turn + 1
      /\ refunded' = IF target = "refunded" THEN refunded + whole ELSE refunded
      /\ released' = IF target = "released" THEN released + whole ELSE released
      /\ UNCHANGED <<stage, buyer_amount, pool>>
  BY <1>1 DEF Refund!Move, Refund!Current
<1>3. /\ Weight' = Weight
      /\ PrefixSum(Weight, turn + 1) = PrefixSum(Weight, turn) + Weight[turn + 1]
      /\ status' \in [1..Len(stage) -> {"movable", "fixed", "refunded", "released"}]
      /\ \A i \in 1..turn' : status'[i] # "movable"
      /\ turn' \in 0..Len(stage)
  BY <1>1, <1>2, TurnAddsWeight DEF TotalsInv, PlanInv
<1>4. /\ turn + 1 \in 1..Len(stage) /\ whole \in Int
      /\ Weight[turn + 1] = whole
      /\ refunded \in Int /\ released \in Int /\ remaining \in Nat /\ buyer_amount \in Int
  <2>1. turn + 1 \in 1..Len(stage)
    BY <1>1, StagesAreMilestones DEF TotalsInv, PlanInv, AwardGoing
  <2> QED
    BY <1>1, <2>1, StagesAreMilestones DEF TotalsInv, PlanInv, AwardGoing, Weight
<1>5. refunded' \in Int /\ released' \in Int /\ refunded' + released' = refunded + released + whole
  <2>1. CASE target = "refunded"
    <3>1. refunded' = refunded + whole /\ released' = released
      BY <1>2, <2>1
    <3> HIDE DEF whole
    <3> QED
      BY <1>4, <3>1
  <2>2. CASE target = "released"
    <3>1. refunded' = refunded /\ released' = released + whole
      BY <1>2, <2>2
    <3> HIDE DEF whole
    <3> QED
      BY <1>4, <3>1
  <2> QED
    BY <2>1, <2>2
<1>6. refunded' + released' = PrefixSum(Weight', turn')
  BY <1>2, <1>3, <1>4, <1>5 DEF AwardGoing
<1>7. AwardIsExact' \/ AwardIsSplit'
  <2>1. CASE AwardIsSplit
    <3>1. target = "released" /\ remaining' = 0 /\ refunded' = refunded
      BY <1>1, <1>2, <2>1 DEF AwardIsSplit
    <3> QED
      BY <1>2, <2>1, <3>1 DEF AwardIsSplit
  <2>2. CASE AwardIsExact /\ target = "released" /\ remaining = 0 /\ left = 0
    BY <1>2, <1>4, <2>2 DEF AwardIsExact
  <2>3. CASE AwardIsExact /\ target = "refunded" /\ remaining > 0 /\ left = remaining - whole
    BY <1>2, <1>4, <2>3 DEF AwardIsExact
  <2>4. CASE /\ AwardIsExact
             /\ remaining > 0 /\ whole > remaining /\ left = 0
             /\ target = "refunded" <=> 2 * remaining >= whole
    <3>1. refunded + remaining = buyer_amount /\ remaining' = 0
      BY <1>2, <2>4 DEF AwardIsExact
    <3>2. /\ 2 * (refunded' - buyer_amount) <= whole
          /\ 2 * (buyer_amount - refunded') <= whole
      BY <1>1, <1>2, <1>4, <2>4, <3>1
    <3> QED
      BY <1>2, <1>4, <3>1, <3>2 DEF AwardIsSplit
  <2> QED
    BY <1>1, <2>1, <2>2, <2>3, <2>4 DEF AwardGoing
<1> QED
  BY <1>1, <1>2, <1>3, <1>5, <1>6, <1>7 DEF AwardGoing

LEMMA RefundStepKeepsInv ==
    ASSUME RefundInv, TotalsInv', RefundStep
    PROVE  RefundInv'
<1>1. /\ index = Len(percentage) /\ Refund!Next
      /\ UNCHANGED <<percentage, index>>
  BY DEF RefundStep
<1>2. CASE NoAward
  <2>1. Refund!Award
    BY <1>1, <1>2 DEF Refund!Next, NoAward, Refund!Skip, Refund!ReleaseRest,
                      Refund!RefundWhole, Refund!Split, Refund!Movable
  <2> QED
    BY <1>1, <1>2, <2>1, AwardStarts DEF RefundInv
<1>3. CASE AwardGoing
  <2>1. ~ Refund!Award
    BY <1>3 DEF AwardGoing, Refund!Award
  <2> QED
    BY <1>1, <1>3, <2>1, SkipKeepsAward, MoveKeepsAward DEF RefundInv, Refund!Next
<1> QED
  BY <1>2, <1>3 DEF RefundInv

\* A plan that is made is not made again.
LEMMA PlanKeepsInv ==
    ASSUME RefundInv, TotalsInv', Plan \/ UNCHANGED <<vars, refund>>
    PROVE  RefundInv'
<1>1. UNCHANGED refund
  BY DEF Plan
<1>2. CASE NoAward
  BY <1>1, <1>2 DEF RefundInv, NoAward, refund
<1>3. CASE AwardGoing
  <2>1. Len(percentage) \in Nat \ {0}
    BY DEF RefundInv, TotalsInv, TotalIsValid, PlanInv, TypeOK
  <2>2. ~ Next
    BY <1>3, <2>1 DEF AwardGoing, Next, PlanDefault, PlanStage, PlanLastStage
  <2>3. UNCHANGED <<vars, refund>>
    BY <2>2 DEF Plan
  <2> QED
    BY <1>3, <2>3 DEF RefundInv, vars, refund, AwardGoing, AwardIsExact, AwardIsSplit, Weight
<1> QED
  BY <1>2, <1>3 DEF RefundInv

LEMMA RefundInvHolds == AmountsSpec => []RefundInv
<1>1. AmountsInit => RefundInv
  BY TotalsInit DEF AmountsInit, Refund!Init, RefundInv, NoAward
<1>2. RefundInv /\ TotalsInv' /\ [AmountsNext]_<<vars, refund>> => RefundInv'
  BY RefundStepKeepsInv, PlanKeepsInv DEF AmountsNext
<1>3. AmountsSpec => []TotalsInv
  BY PlanIsKept, TotalsInvHolds, PTL
<1> QED
  BY <1>1, <1>2, <1>3, PTL DEF AmountsSpec

\* Every milestone of the pool is settled, to the one side or the other, and no
\* money of the pool is lost or made (_apply_partial_refund).
THEOREM RefundSettlesPool == AmountsSpec => []PoolIsSettled
<1>1. RefundInv => PoolIsSettled
  <2> SUFFICES ASSUME RefundInv, Refund!Done PROVE PoolIsSettled
    BY DEF PoolIsSettled, Refund!PoolIsSettled
  <2>1. AwardGoing /\ turn = Len(stage)
    BY DEF RefundInv, NoAward, Refund!Done
  <2> QED
    BY <2>1 DEF AwardGoing, PoolIsSettled, Refund!PoolIsSettled
<1> QED
  BY RefundInvHolds, <1>1, PTL

-----------------------------------------------------------------------------
(***************************************************************************)
(* How far off the award can be.                                           *)
(***************************************************************************)

\* A stage that has its amount is no larger than its percentage allows.
LEMMA StageWithinShare ==
    ASSUME TotalsInv, Planned, NEW i \in 1..Len(percentage)
    PROVE  10000 * stage[i] <= (percentage[i] + 50) * amount + 5000 * Len(percentage)
<1> DEFINE n == Len(percentage)
<1>1. /\ n \in Nat /\ n > 0 /\ amount \in Nat
      /\ percentage[i] \in Nat /\ stage[i] \in Int
      /\ index = n /\ taken \in Nat
  BY StageTypes DEF TotalsInv, PlanInv, Planned, TypeOK
<1>2. (percentage[i] + 50) * amount = percentage[i] * amount + 50 * amount
  BY <1>1
<1>3. percentage[i] * amount \in Nat
  BY <1>1
<1>4. CASE payment = "default" \/ i < n
  <2>1. 10000 * stage[i] <= percentage[i] * amount + 5000
    BY <1>1, <1>4 DEF TotalsInv, StagesNearShare
  <2> DEFINE exact == percentage[i] * amount
             bound == (percentage[i] + 50) * amount
  <2>2. exact \in Nat /\ bound = exact + 50 * amount /\ 10000 * stage[i] <= exact + 5000
    BY <1>2, <1>3, <2>1
  <2> HIDE DEF exact, bound
  <2>3. 10000 * stage[i] <= bound + 5000 * n
    BY <1>1, <2>2
  <2> QED
    BY <2>3 DEF bound
<1>5. CASE payment = "custom" /\ i = n
  <2>1. 10000 * stage[n] - (10000 - taken) * amount <= 5000 * (n - 1)
    BY <1>5 DEF TotalsInv, PlanInv, LastStageAbsorbsRounding
  <2>2. 9950 <= taken + percentage[n]
    <3>1. taken = PrefixSum(percentage, n - 1)
      BY <1>1, <1>5 DEF TotalsInv, AllocatedIsTotal
    <3>2. PICK m \in Nat : n = m + 1
      <4>1. n - 1 \in Nat /\ n = (n - 1) + 1
        BY <1>1
      <4> QED
        BY <4>1
    <3>3. PrefixSum(percentage, m + 1) = PrefixSum(percentage, m) + percentage[m + 1] /\ n - 1 = m
      BY <1>1, <3>2, PrefixSumStep
    <3>4. TotalPercentage(percentage) = taken + percentage[n]
      BY <3>1, <3>2, <3>3, TotalsArePrefixSums
    <3>5. TotalPercentage(percentage) \in 9950..10050
      <4>1. TotalIsValid
        BY DEF TotalsInv
      <4>2. ValidTotal(TotalPercentage(percentage))
        BY <1>5, <4>1 DEF TotalIsValid
      <4> QED
        BY <4>2 DEF ValidTotal
    <3> DEFINE total == taken + percentage[n]
    <3>6. total \in 9950..10050
      BY <3>4, <3>5
    <3> HIDE DEF total
    <3>7. 9950 <= total
      BY <3>6
    <3> QED
      BY <3>7 DEF total
  <2>3. (10000 - taken) * amount <= (percentage[i] + 50) * amount
    <3>1. 10000 - taken <= percentage[i] + 50
      BY <1>1, <1>5, <2>2
    <3> DEFINE a == 10000 - taken
               b == percentage[i] + 50
    <3>2. a \in Int /\ b \in Int /\ a <= b
      BY <1>1, <3>1
    <3> HIDE DEF a, b
    <3>3. a * amount <= b * amount
      BY <1>1, <3>2
    <3> QED
      BY <3>3 DEF a, b
  <2> DEFINE left == (10000 - taken) * amount
             bound == (percentage[i] + 50) * amount
  <2>4. /\ left \in Int /\ bound \in Int /\ left <= bound
        /\ 10000 * stage[i] - left <= 5000 * (n - 1)
    BY <1>1, <1>5, <2>1, <2>3
  <2> HIDE DEF left, bound
  <2>5. 10000 * stage[i] <= bound + 5000 * n
    BY <1>1, <2>4
  <2> QED
    BY <2>5 DEF bound
<1> QED
  BY <1>1, <1>4, <1>5 DEF TotalsInv, PlanInv, TypeOK

LEMMA AwardIsNear == RefundInv => AwardWithinPlannedShare
<1> SUFFICES ASSUME RefundInv, Refund!Done
             PROVE  \E i \in 1..Len(percentage) :
                        \A off \in {refunded - buyer_amount, buyer_amount - refunded} :
                            20000 * off <= (percentage[i] + 50) * amount + 5000 * Len(percentage)
  BY DEF AwardWithinPlannedShare
<1> DEFINE n == Len(percentage)
           bound(i) == (percentage[i] + 50) * amount + 5000 * n
<1>1. AwardGoing /\ turn = Len(stage) /\ TotalsInv /\ Planned
  BY DEF RefundInv, NoAward, Refund!Done, AwardGoing, Planned
<1>2. /\ Len(stage) = n /\ n \in Nat /\ 1 \in 1..n /\ amount \in Nat
      /\ \A i \in 1..n : percentage[i] \in Nat /\ stage[i] \in Int
      /\ refunded \in Int /\ released \in Int /\ remaining \in Nat /\ buyer_amount \in 1..pool
      /\ pool \in Nat
      /\ refunded + released = pool
  <2>1. n \in Nat /\ n # 0
    BY <1>1 DEF TotalsInv, PlanInv, TypeOK, TotalIsValid
  <2> QED
    BY <1>1, <2>1, StageTypes, StagesAreMilestones DEF TotalsInv, PlanInv, AwardGoing
<1>3. \A i \in 1..n : bound(i) \in Int
  BY <1>2
<1>4. CASE AwardIsExact
  <2>1. remaining = 0 /\ refunded = buyer_amount
    BY <1>2, <1>4 DEF AwardIsExact
  <2>2. bound(1) \in Nat
    <3>1. (percentage[1] + 50) * amount \in Nat
      BY <1>2
    <3> QED
      BY <1>2, <3>1
  <2> HIDE DEF bound
  <2>3. \A off \in {refunded - buyer_amount, buyer_amount - refunded} : 20000 * off <= bound(1)
    BY <1>2, <2>1, <2>2
  <2> QED
    BY <1>2, <2>3 DEF bound
<1>5. CASE AwardIsSplit
  <2>1. PICK k \in 1..n : /\ 2 * (refunded - buyer_amount) <= stage[k]
                          /\ 2 * (buyer_amount - refunded) <= stage[k]
    BY <1>2, <1>5 DEF AwardIsSplit
  <2>2. 10000 * stage[k] <= bound(k)
    BY <1>1, StageWithinShare
  <2>3. bound(k) \in Int /\ stage[k] \in Int
    BY <1>2, <1>3
  <2> HIDE DEF bound
  <2>4. \A off \in {refunded - buyer_amount, buyer_amount - refunded} : 20000 * off <= bound(k)
    BY <1>2, <2>1, <2>2, <2>3
  <2> QED
    BY <2>4 DEF bound
<1> QED
  BY <1>1, <1>4, <1>5 DEF AwardGoing

\* Whatever the award, what the buyer gets is off by no more than half of a
\* stage as agreed, with the half percent a plan may miss and the rounding
\* (_apply_partial_refund, _custom_milestones).
THEOREM AwardIsNearlyPaid == AmountsSpec => []AwardWithinPlannedShare
  BY RefundInvHolds, AwardIsNear, PTL

=============================================================================
