------------------------ MODULE SupplierFinanceProofs ------------------------
(***************************************************************************)
(* Theorems about SupplierFinance.                                         *)
(***************************************************************************)
EXTENDS SupplierFinance, FiniteSetTheorems, WellFoundedInduction, TLAPS

-----------------------------------------------------------------------------
(***************************************************************************)
(* Sums.  SumOf is defined by recursion over sets; that there is such a    *)
(* function, and that the order of the terms does not matter, is shown     *)
(* with smallest counterexamples: a set of finite sets has a least member. *)
(***************************************************************************)

\* A set of subsets of a finite set has a member without a smaller one.
LEMMA SmallestSubset ==
    ASSUME NEW S, IsFiniteSet(S), NEW T, T \subseteq SUBSET S, T # {}
    PROVE  \E x \in T : \A y \in T : ~ (y \subseteq x /\ y # x)
<1>1. IsWellFoundedOn(StrictSubsetOrdering(S), SUBSET S)
  BY FS_StrictSubsetOrderingWellFounded, FS_FiniteSubsetsOfFinite
<1>2. PICK x \in T : \A y \in T : ~ (<<y, x>> \in StrictSubsetOrdering(S))
  BY <1>1, WFMin
<1>3. ASSUME NEW y \in T, y \subseteq x, y # x
      PROVE  <<y, x>> \in StrictSubsetOrdering(S)
  <2>1. <<y, x>> \in (SUBSET S) \X (SUBSET S)
    OBVIOUS
  <2>2. <<y, x>>[1] \subseteq <<y, x>>[2] /\ <<y, x>>[1] # <<y, x>>[2]
    BY <1>3
  <2> QED
    BY <2>1, <2>2 DEF StrictSubsetOrdering
<1>4. ASSUME NEW y \in T
      PROVE  ~ (y \subseteq x /\ y # x)
  BY <1>2, <1>3
<1> QED
  BY <1>4

Pick(W) == CHOOSE w \in W : TRUE

LEMMA PickIsMember == ASSUME NEW W, W # {} PROVE Pick(W) \in W
  BY DEF Pick

\* f sums the terms a over the subsets of S, as SumOf does.
IsSum(f, a, S) ==
    f = [W \in SUBSET S |-> IF W = {} THEN 0 ELSE a[Pick(W)] + f[W \ {Pick(W)}]]

SumTerms(a, S) == CHOOSE f : IsSum(f, a, S)
Total(a, S) == SumTerms(a, S)[S]

LEMMA SumOfIsTotal ==
    ASSUME NEW S
    PROVE  SumOf(S) = Total(amount, {w \in Withdrawals : withdrawal[w] \in S})
  BY DEF SumOf, Total, SumTerms, IsSum, Pick

LEMMA SumStep ==
    ASSUME NEW f, NEW a, NEW S, IsSum(f, a, S), NEW W \in SUBSET S
    PROVE  /\ W = {} => f[W] = 0
           /\ W # {} => f[W] = a[Pick(W)] + f[W \ {Pick(W)}]
<1> DEFINE g == [V \in SUBSET S |-> IF V = {} THEN 0 ELSE a[Pick(V)] + f[V \ {Pick(V)}]]
<1>1. f = g
  BY DEF IsSum
<1>2. g[W] = IF W = {} THEN 0 ELSE a[Pick(W)] + f[W \ {Pick(W)}]
  OBVIOUS
<1> HIDE DEF g
<1> QED
  BY <1>1, <1>2

\* Two sums of the same terms agree where both are defined.
LEMMA SumsAgree ==
    ASSUME NEW a, NEW S, NEW T, IsFiniteSet(S), NEW f, NEW g, IsSum(f, a, S), IsSum(g, a, T)
    PROVE  \A W \in SUBSET S : W \subseteq T => f[W] = g[W]
<1> DEFINE Bad == {W \in SUBSET S : W \subseteq T /\ f[W] # g[W]}
<1>1. SUFFICES ASSUME Bad # {} PROVE FALSE
  OBVIOUS
<1>2. PICK W \in Bad : \A V \in Bad : ~ (V \subseteq W /\ V # W)
  <2>1. Bad \subseteq SUBSET S
    OBVIOUS
  <2> HIDE DEF Bad
  <2> QED
    BY <1>1, <2>1, SmallestSubset
<1>3. W \in SUBSET S /\ W \in SUBSET T /\ f[W] # g[W]
  OBVIOUS
<1>4. W # {}
  BY <1>3, SumStep
<1> DEFINE V == W \ {Pick(W)}
<1>5. V \subseteq W /\ V # W
  BY <1>4, PickIsMember
<1>6. f[V] = g[V]
  BY <1>2, <1>3, <1>5
<1>7. f[W] = a[Pick(W)] + f[V] /\ g[W] = a[Pick(W)] + g[V]
  BY <1>3, <1>4, SumStep
<1> QED
  BY <1>3, <1>6, <1>7

\* There is a sum of the terms over every finite set.
LEMMA SumExists ==
    ASSUME NEW a, NEW S, IsFiniteSet(S)
    PROVE  \E f : IsSum(f, a, S)
<1> DEFINE Bad == {T \in SUBSET S : ~ \E f : IsSum(f, a, T)}
<1>1. SUFFICES ASSUME Bad # {} PROVE FALSE
  OBVIOUS
<1>2. PICK T \in Bad : \A V \in Bad : ~ (V \subseteq T /\ V # T)
  <2>1. Bad \subseteq SUBSET S
    OBVIOUS
  <2> HIDE DEF Bad
  <2> QED
    BY <1>1, <2>1, SmallestSubset
<1>3. ASSUME NEW V, V \subseteq T, V # T
      PROVE  IsSum(SumTerms(a, V), a, V)
  <2>1. V \in SUBSET S /\ V \notin Bad
    BY <1>2, <1>3
  <2>2. \E f : IsSum(f, a, V)
    BY <2>1
  <2> QED
    BY <2>2 DEF SumTerms
<1> DEFINE f == [W \in SUBSET T |-> IF W = {} THEN 0
                                    ELSE a[Pick(W)] + Total(a, W \ {Pick(W)})]
<1>4. ASSUME NEW V, V \subseteq T, V # T
      PROVE  f[V] = Total(a, V)
  <2> DEFINE sum == SumTerms(a, V)
             U == V \ {Pick(V)}
  <2>1. CASE V = {}
    <3>1. f[V] = 0
      BY <2>1
    <3>2. sum[V] = 0
      BY <1>3, <1>4, <2>1, SumStep
    <3> QED
      BY <3>1, <3>2 DEF Total
  <2>2. CASE V # {}
    <3>1. f[V] = a[Pick(V)] + Total(a, U)
      BY <1>4, <2>2
    <3>2. Pick(V) \in V /\ U \subseteq V /\ U \subseteq T /\ U # T
      BY <1>4, <2>2, PickIsMember
    <3>3. sum[V] = a[Pick(V)] + sum[U]
      BY <1>3, <1>4, <2>2, SumStep
    <3>4. sum[U] = SumTerms(a, U)[U]
      <4>1. IsFiniteSet(V)
        BY <1>4, <1>2, FS_Subset
      <4>2. IsSum(sum, a, V) /\ IsSum(SumTerms(a, U), a, U)
        BY <1>3, <1>4, <3>2
      <4> HIDE DEF sum, U
      <4> QED
        BY <4>1, <4>2, <3>2, SumsAgree
    <3> QED
      BY <3>1, <3>3, <3>4 DEF Total
  <2> QED
    BY <2>1, <2>2
<1>5. IsSum(f, a, T)
  <2> DEFINE g == [W \in SUBSET T |-> IF W = {} THEN 0 ELSE a[Pick(W)] + f[W \ {Pick(W)}]]
  <2>1. ASSUME NEW W \in SUBSET T
        PROVE  f[W] = g[W]
    <3>1. CASE W = {}
      BY <3>1
    <3>2. CASE W # {}
      <4>1. W \ {Pick(W)} \subseteq T /\ W \ {Pick(W)} # T
        BY <3>2, PickIsMember
      <4>2. f[W \ {Pick(W)}] = Total(a, W \ {Pick(W)})
        BY <1>4, <4>1
      <4>3. g[W] = a[Pick(W)] + f[W \ {Pick(W)}]
        BY <3>2
      <4>4. f[W] = a[Pick(W)] + Total(a, W \ {Pick(W)})
        BY <3>2
      <4> QED
        BY <4>2, <4>3, <4>4
    <3> QED
      BY <3>1, <3>2
  <2>2. f = g
    BY <2>1
  <2> QED
    BY <2>2 DEF IsSum
<1> QED
  BY <1>2, <1>5

LEMMA TotalIsSum ==
    ASSUME NEW a, NEW S, IsFiniteSet(S)
    PROVE  IsSum(SumTerms(a, S), a, S)
  BY SumExists DEF SumTerms

LEMMA TotalOfPart ==
    ASSUME NEW a, NEW S, IsFiniteSet(S), NEW W \in SUBSET S
    PROVE  SumTerms(a, S)[W] = Total(a, W)
<1>1. IsFiniteSet(W)
  BY FS_Subset
<1>2. IsSum(SumTerms(a, S), a, S) /\ IsSum(SumTerms(a, W), a, W)
  BY <1>1, TotalIsSum
<1>3. SumTerms(a, S)[W] = SumTerms(a, W)[W]
  BY <1>1, <1>2, SumsAgree
<1> QED
  BY <1>3 DEF Total

LEMMA TotalOfNone == ASSUME NEW a PROVE Total(a, {}) = 0
<1>1. IsSum(SumTerms(a, {}), a, {})
  BY TotalIsSum, FS_EmptySet
<1> QED
  BY <1>1, SumStep DEF Total

LEMMA TotalPicks ==
    ASSUME NEW a, NEW S, IsFiniteSet(S), S # {}
    PROVE  Total(a, S) = a[Pick(S)] + Total(a, S \ {Pick(S)})
<1>1. SumTerms(a, S)[S] = a[Pick(S)] + SumTerms(a, S)[S \ {Pick(S)}]
  BY TotalIsSum, SumStep
<1>2. SumTerms(a, S)[S \ {Pick(S)}] = Total(a, S \ {Pick(S)})
  BY TotalOfPart
<1> QED
  BY <1>1, <1>2 DEF Total

LEMMA TotalIsNat ==
    ASSUME NEW D, NEW a \in [D -> Nat], NEW S, IsFiniteSet(S), S \subseteq D
    PROVE  Total(a, S) \in Nat
<1> DEFINE Bad == {W \in SUBSET S : Total(a, W) \notin Nat}
<1>1. SUFFICES ASSUME Bad # {} PROVE FALSE
  OBVIOUS
<1>2. PICK W \in Bad : \A V \in Bad : ~ (V \subseteq W /\ V # W)
  <2>1. Bad \subseteq SUBSET S
    OBVIOUS
  <2> HIDE DEF Bad
  <2> QED
    BY <1>1, <2>1, SmallestSubset
<1>3. W \in SUBSET S /\ Total(a, W) \notin Nat
  OBVIOUS
<1>4. W # {} /\ IsFiniteSet(W)
  <2>1. CASE W = {}
    <3>1. Total(a, {}) \in Nat
      BY TotalOfNone
    <3> QED
      BY <1>3, <2>1, <3>1, Zenon
  <2>2. IsFiniteSet(W)
    BY <1>3, FS_Subset
  <2> QED
    BY <2>1, <2>2
<1>5. Pick(W) \in W /\ a[Pick(W)] \in Nat
  BY <1>3, <1>4, PickIsMember
<1>6. Total(a, W \ {Pick(W)}) \in Nat
  BY <1>2, <1>3, <1>5
<1> QED
  BY <1>3, <1>4, <1>5, <1>6, TotalPicks

\* Any term may be taken out first.
LEMMA TotalWithout ==
    ASSUME NEW D, NEW a \in [D -> Nat], NEW S, IsFiniteSet(S), S \subseteq D
    PROVE  \A x \in S : Total(a, S) = a[x] + Total(a, S \ {x})
<1> DEFINE Bad == {W \in SUBSET S : \E x \in W : Total(a, W) # a[x] + Total(a, W \ {x})}
<1>1. SUFFICES ASSUME Bad # {} PROVE FALSE
  OBVIOUS
<1>2. PICK W \in Bad : \A V \in Bad : ~ (V \subseteq W /\ V # W)
  <2>1. Bad \subseteq SUBSET S
    OBVIOUS
  <2> HIDE DEF Bad
  <2> QED
    BY <1>1, <2>1, SmallestSubset
<1>3. PICK x \in W : Total(a, W) # a[x] + Total(a, W \ {x})
  OBVIOUS
<1>4. W \in SUBSET S /\ IsFiniteSet(W)
  BY FS_Subset
<1> DEFINE p == Pick(W)
<1>5. p \in W
  BY PickIsMember
<1>6. Total(a, W) = a[p] + Total(a, W \ {p})
  BY <1>4, <1>5, TotalPicks
<1>7. p # x
  BY <1>3, <1>6
<1> DEFINE rest == (W \ {p}) \ {x}
<1>8. Total(a, W \ {p}) = a[x] + Total(a, rest)
  <2>1. W \ {p} \in SUBSET S /\ W \ {p} \notin Bad /\ x \in W \ {p}
    BY <1>2, <1>4, <1>5, <1>7
  <2> HIDE DEF p
  <2> QED
    BY <2>1
<1>9. Total(a, W \ {x}) = a[p] + Total(a, rest)
  <2>1. W \ {x} \in SUBSET S /\ W \ {x} \notin Bad /\ p \in W \ {x}
    BY <1>2, <1>4, <1>5, <1>7
  <2>2. (W \ {x}) \ {p} = rest
    OBVIOUS
  <2> HIDE DEF p, rest
  <2> QED
    BY <2>1, <2>2
<1>10. a[x] \in Nat /\ a[p] \in Nat /\ Total(a, rest) \in Nat
  <2>1. rest \subseteq D /\ IsFiniteSet(rest)
    BY <1>4, FS_Subset
  <2>2. x \in D /\ p \in D
    BY <1>4, <1>5
  <2> HIDE DEF p, rest
  <2> QED
    BY <2>1, <2>2, TotalIsNat
<1> HIDE DEF p, rest
<1> QED
  BY <1>3, <1>6, <1>8, <1>9, <1>10

\* A sum depends on its terms only.
LEMMA TotalOfSameTerms ==
    ASSUME NEW a, NEW b, NEW S, IsFiniteSet(S), \A x \in S : a[x] = b[x]
    PROVE  Total(a, S) = Total(b, S)
<1> DEFINE Bad == {W \in SUBSET S : Total(a, W) # Total(b, W)}
<1>1. SUFFICES ASSUME Bad # {} PROVE FALSE
  OBVIOUS
<1>2. PICK W \in Bad : \A V \in Bad : ~ (V \subseteq W /\ V # W)
  <2>1. Bad \subseteq SUBSET S
    OBVIOUS
  <2> HIDE DEF Bad
  <2> QED
    BY <1>1, <2>1, SmallestSubset
<1>3. W \in SUBSET S /\ Total(a, W) # Total(b, W)
  OBVIOUS
<1>4. W # {} /\ IsFiniteSet(W)
  <2>1. Total(a, {}) = 0 /\ Total(b, {}) = 0
    BY TotalOfNone
  <2>2. CASE W = {}
    BY <1>3, <2>1, <2>2, Zenon
  <2>3. IsFiniteSet(W)
    BY <1>3, FS_Subset
  <2> QED
    BY <2>2, <2>3
<1>5. Pick(W) \in W
  BY <1>4, PickIsMember
<1>6. Total(a, W \ {Pick(W)}) = Total(b, W \ {Pick(W)})
  BY <1>2, <1>3, <1>5
<1>7. a[Pick(W)] = b[Pick(W)]
  BY <1>3, <1>5
<1> QED
  BY <1>3, <1>4, <1>6, <1>7, TotalPicks

-----------------------------------------------------------------------------
(***************************************************************************)
(* Type correctness, for any number of overlapping requests.               *)
(***************************************************************************)

LEMMA IdleType == Idle \in LoadedRows
  BY DEF Idle, LoadedRows, Unread

LEMMA EntriesOf ==
    /\ \A w \in Withdrawals : <<"payout", w>> \in Entries /\ IsPayout(<<"payout", w>>)
    /\ \A e \in Entries :
          \/ IsPayout(e) /\ e[2] \in Withdrawals /\ e = <<"payout", e[2]>>
          \/ ~ IsPayout(e) /\ e[2] \in Invoices
  BY DEF Entries, IsPayout

LEMMA WithdrawalsOfFinite ==
    ASSUME NEW S
    PROVE  /\ IsFiniteSet({w \in Withdrawals : withdrawal[w] \in S})
           /\ IsFiniteSet({w \in Withdrawals : withdrawal'[w] \in S})
  BY ConstantsAssumption, FS_Subset

LEMMA SumOfIsNat == ASSUME TypeOK, NEW S PROVE SumOf(S) \in Nat
  BY SumOfIsTotal, WithdrawalsOfFinite, TotalIsNat DEF TypeOK

LEMMA DocumentType ==
    ASSUME TypeOK, NEW e \in Entries
    PROVE  /\ IsPayout(e) => DocumentOf(e) \in WithdrawalStatus
           /\ ~ IsPayout(e) => DocumentOf(e) \in InvoiceStatus
  BY EntriesOf DEF DocumentOf, TypeOK

\* What apply_finance_action is about is a row of the ledger.
FinanceHasEntry == \A q \in Requests : req[q].kind = "finance" => req[q].entry \in Entries

TypeInv == TypeOK /\ FinanceHasEntry

LEMMA ReadType ==
    ASSUME TypeInv, NEW q \in Requests,
           \/ BeginWithdrawal(q)
           \/ ReadWithdrawn(q)
           \/ ReadOnHold(q)
           \/ \E e \in Entries : BeginFinance(q, e)
           \/ ReadDocument(q)
    PROVE  TypeInv'
<1>0. ASSUME NEW loaded \in LoadedRows, Load(q, loaded),
             loaded.kind = "finance" => loaded.entry \in Entries
      PROVE  TypeInv'
  <2>1. TypeOK'
    BY <1>0 DEF Load, rows, TypeInv, TypeOK
  <2>2. FinanceHasEntry'
    BY <1>0 DEF Load, rows, TypeInv, TypeOK, FinanceHasEntry, Entries
  <2> QED
    BY <2>1, <2>2 DEF TypeInv
<1>1. req[q] \in LoadedRows /\ (req[q].kind = "finance" => req[q].entry \in Entries)
  BY DEF TypeInv, TypeOK, FinanceHasEntry
<1>2. CASE BeginWithdrawal(q)
  <2> DEFINE loaded == [Idle EXCEPT !.kind = "withdraw", !.earned = earned]
  <2>1. loaded \in LoadedRows /\ loaded.kind = "withdraw"
    BY IdleType DEF TypeInv, TypeOK, LoadedRows
  <2> QED
    BY <1>0, <1>2, <2>1 DEF BeginWithdrawal
<1>3. CASE ReadWithdrawn(q)
  <2> DEFINE loaded == [req[q] EXCEPT !.withdrawn = SumOf(Taken)]
  <2>1. SumOf(Taken) \in Nat
    BY SumOfIsNat DEF TypeInv
  <2>2. loaded \in LoadedRows /\ loaded.kind = "withdraw"
    BY <1>1, <1>3, <2>1 DEF LoadedRows, ReadWithdrawn
  <2> QED
    BY <1>0, <1>3, <2>2 DEF ReadWithdrawn
<1>4. CASE ReadOnHold(q)
  <2> DEFINE loaded == [req[q] EXCEPT !.onhold = SumOf({"pending"})]
  <2>1. SumOf({"pending"}) \in Nat
    BY SumOfIsNat DEF TypeInv
  <2>2. loaded \in LoadedRows /\ loaded.kind = req[q].kind /\ loaded.entry = req[q].entry
    BY <1>1, <2>1 DEF LoadedRows
  <2> QED
    BY <1>0, <1>1, <1>4, <2>2 DEF ReadOnHold
<1>5. ASSUME NEW e \in Entries, BeginFinance(q, e) PROVE TypeInv'
  <2> DEFINE loaded == [Idle EXCEPT !.kind = "finance", !.entry = e, !.status = ledger[e]]
  <2>1. loaded \in LoadedRows /\ loaded.entry = e
    BY IdleType DEF TypeInv, TypeOK, LoadedRows
  <2> QED
    BY <1>0, <1>5, <2>1 DEF BeginFinance
<1>6. CASE ReadDocument(q)
  <2> DEFINE loaded == [req[q] EXCEPT !.document = DocumentOf(req[q].entry)]
  <2>1. req[q].entry \in Entries
    BY <1>1, <1>6 DEF ReadDocument
  <2>2. DocumentOf(req[q].entry) \in WithdrawalStatus \cup InvoiceStatus
    BY DocumentType, <2>1 DEF TypeInv
  <2>3. loaded \in LoadedRows /\ loaded.kind = "finance" /\ loaded.entry = req[q].entry
    BY <1>1, <1>6, <2>2 DEF LoadedRows, ReadDocument
  <2> QED
    BY <1>0, <1>6, <2>1, <2>3 DEF ReadDocument
<1> QED
  BY <1>2, <1>3, <1>4, <1>5, <1>6

LEMMA WriteType ==
    ASSUME TypeInv, NEW q \in Requests,
           \/ \E w \in Withdrawals, a \in Amounts : RequestWithdrawal(q, w, a)
           \/ \E w \in Withdrawals : MarkPaid(q, w)
           \/ Refund(q)
           \/ End(q)
    PROVE  TypeInv'
<1>1. Done(q) => req' \in [Requests -> LoadedRows] /\ FinanceHasEntry'
  BY IdleType DEF Done, TypeInv, TypeOK, FinanceHasEntry, Idle, Entries
<1>2. ASSUME NEW w \in Withdrawals, NEW a \in Amounts, RequestWithdrawal(q, w, a) PROVE TypeInv'
  BY <1>1, <1>2, ConstantsAssumption
     DEF RequestWithdrawal, TypeInv, TypeOK, WithdrawalStatus, LedgerStatus
<1>3. ASSUME NEW w \in Withdrawals, MarkPaid(q, w) PROVE TypeInv'
  BY <1>1, <1>3 DEF MarkPaid, AfterPayment, TypeInv, TypeOK, WithdrawalStatus, LedgerStatus
<1>4. CASE Refund(q)
  <2> DEFINE e == req[q].entry
             after == AfterRefund(req[q].document, DocumentOf(e))
  <2>1. e \in Entries
    BY <1>4 DEF Refund, FinanceLoaded, TypeInv, FinanceHasEntry
  <2>2. CASE IsPayout(e)
    <3>1. after \in WithdrawalStatus
      BY <2>1, <2>2, DocumentType DEF TypeInv, AfterRefund, WithdrawalStatus
    <3>2. /\ withdrawal' = [withdrawal EXCEPT ![e[2]] = after]
          /\ ledger' = [ledger EXCEPT ![e] = "refunded"]
          /\ UNCHANGED <<invoice, earned, amount>>
          /\ Done(q)
      BY <1>4, <2>2 DEF Refund
    <3> HIDE DEF after, e
    <3> QED
      BY <1>1, <3>1, <3>2 DEF TypeInv, TypeOK, LedgerStatus
  <2>3. CASE ~ IsPayout(e)
    <3>1. after \in InvoiceStatus
      BY <2>1, <2>3, DocumentType DEF TypeInv, AfterRefund, InvoiceStatus
    <3>2. /\ invoice' = [invoice EXCEPT ![e[2]] = after]
          /\ ledger' = [ledger EXCEPT ![e] = "refunded"]
          /\ UNCHANGED <<withdrawal, earned, amount>>
          /\ Done(q)
      BY <1>4, <2>3 DEF Refund
    <3> HIDE DEF after, e
    <3> QED
      BY <1>1, <3>1, <3>2 DEF TypeInv, TypeOK, LedgerStatus
  <2> QED
    BY <2>2, <2>3
<1>5. CASE End(q)
  BY <1>1, <1>5 DEF End, rows, TypeInv, TypeOK
<1> QED
  BY <1>2, <1>3, <1>4, <1>5

LEMMA TypeStep == TypeInv /\ [Next]_vars => TypeInv'
<1> SUFFICES ASSUME TypeInv, [Next]_vars PROVE TypeInv'
  OBVIOUS
<1>1. ASSUME NEW a \in Amounts, Earn(a) PROVE TypeInv'
  BY <1>1, ConstantsAssumption DEF Earn, TypeInv, TypeOK, FinanceHasEntry, Entries
<1>2. ASSUME NEW a \in Amounts, NEW i \in Invoices, EarnInvoiced(i, a) PROVE TypeInv'
  <2>1. ledger' \in [Entries -> LedgerStatus]
    BY <1>2 DEF EarnInvoiced, TypeInv, TypeOK, LedgerStatus
  <2>2. invoice' \in [Invoices -> InvoiceStatus] /\ earned' \in Nat
    BY <1>2, ConstantsAssumption DEF EarnInvoiced, TypeInv, TypeOK, InvoiceStatus
  <2> QED
    BY <1>2, <2>1, <2>2 DEF EarnInvoiced, TypeInv, TypeOK, FinanceHasEntry, Entries
<1>3. ASSUME NEW q \in Requests, SupplierStep(q) \/ FinanceStep(q) \/ End(q) PROVE TypeInv'
  BY <1>3, ReadType, WriteType DEF SupplierStep, FinanceStep
<1>4. CASE UNCHANGED vars
  BY <1>4 DEF vars, TypeInv, TypeOK, FinanceHasEntry, Entries
<1> QED
  BY <1>1, <1>2, <1>3, <1>4 DEF Next

LEMMA TypeInit == Init => TypeInv
  BY IdleType DEF Init, TypeInv, TypeOK, FinanceHasEntry, Idle, WithdrawalStatus,
                  InvoiceStatus, LedgerStatus

LEMMA TypeInvariant == Spec => []TypeInv
  BY TypeInit, TypeStep, PTL DEF Spec

\* Every reachable state is well typed, for any number of requests that overlap
\* (SupplierFinanceService, AdminService.apply_finance_action).
THEOREM TypeCorrect == Spec => []TypeOK
<1>1. TypeInv => TypeOK
  BY DEF TypeInv
<1> QED
  BY TypeInvariant, <1>1, PTL

-----------------------------------------------------------------------------
(***************************************************************************)
(* One request at a time.  Between the queries of a request only           *)
(* milestones are released, so that what it loaded is what the rows say,   *)
(* except that the supplier may have earned more by now.                   *)
(***************************************************************************)
Current(q) ==
    /\ req[q].kind = "withdraw" => req[q].earned \in 0..earned
    /\ req[q].withdrawn # Unread =>
          req[q].kind = "withdraw" /\ req[q].withdrawn = SumOf(Taken)
    /\ req[q].onhold # Unread => req[q].withdrawn # Unread
    /\ req[q].kind = "finance" =>
          req[q].status = ledger[req[q].entry] /\ req[q].status # "none"
    /\ req[q].kind = "finance" /\ req[q].document # "unread" =>
          req[q].document = DocumentOf(req[q].entry)

\* An invoice is inserted together with what it books.
NewInvoicesAreUnbooked ==
    \A e \in Entries : ~ IsPayout(e) /\ invoice[e[2]] = "none" => ledger[e] = "none"

PayoutsTell ==
    \A w \in Withdrawals :
       /\ ledger[<<"payout", w>>] = "pending"  <=> withdrawal[w] = "pending"
       /\ ledger[<<"payout", w>>] = "paid"     <=> withdrawal[w] = "completed"
       /\ ledger[<<"payout", w>>] = "refunded" <=> withdrawal[w] = "cancelled"

InvoicesTell ==
    \A i \in Invoices :
       invoice[i] = "cancelled" <=>
           \E e \in Entries : e[2] = i /\ ~ IsPayout(e) /\ ledger[e] = "refunded"

LEMMA LedgerTellsBoth == LedgerTellsDocuments <=> PayoutsTell /\ InvoicesTell
  BY DEF LedgerTellsDocuments, PayoutsTell, InvoicesTell

LedgerInv(q) == TypeInv /\ Current(q) /\ NewInvoicesAreUnbooked /\ PayoutsTell /\ InvoicesTell

LEMMA SumOfSameRows ==
    ASSUME NEW S, UNCHANGED <<withdrawal, amount>>
    PROVE  SumOf(S)' = SumOf(S)
  BY DEF SumOf

\* A request that has loaded nothing is up to date.
LEMMA DoneIsCurrent ==
    ASSUME TypeInv, NEW q \in Requests, Done(q)
    PROVE  Current(q)'
<1>1. req'[q] = Idle
  BY DEF Done, TypeInv, TypeOK
<1> QED
  BY <1>1 DEF Current, Idle, Unread

LEMMA ReadKeepsLedger ==
    ASSUME NEW q \in Requests, LedgerInv(q), TypeInv',
           \/ BeginWithdrawal(q)
           \/ ReadWithdrawn(q)
           \/ ReadOnHold(q)
           \/ \E e \in Entries : BeginFinance(q, e)
           \/ ReadDocument(q)
    PROVE  LedgerInv(q)'
<1>0. UNCHANGED rows
  <2>1. (\E e \in Entries : BeginFinance(q, e)) => UNCHANGED rows
    BY Zenon DEF BeginFinance, Load
  <2> QED
    BY <2>1 DEF BeginWithdrawal, ReadWithdrawn, ReadOnHold, ReadDocument, Load
<1>1. (NewInvoicesAreUnbooked /\ PayoutsTell /\ InvoicesTell)'
  BY <1>0 DEF rows, LedgerInv, NewInvoicesAreUnbooked, PayoutsTell, InvoicesTell
<1>2. SumOf(Taken)' = SumOf(Taken)
  BY <1>0, SumOfSameRows DEF rows
<1>3. \A e : DocumentOf(e)' = DocumentOf(e)
  BY <1>0 DEF DocumentOf, rows
<1>4. /\ req \in [Requests -> LoadedRows]
      /\ req[q] \in LoadedRows
      /\ earned \in Nat
      /\ ledger' = ledger /\ earned' = earned
  BY <1>0 DEF LedgerInv, TypeInv, TypeOK, rows
<1>5. CASE BeginWithdrawal(q)
  <2>1. req'[q] = [Idle EXCEPT !.kind = "withdraw", !.earned = earned]
    BY <1>4, <1>5 DEF BeginWithdrawal, Load
  <2>2. Current(q)'
    BY <1>4, <2>1 DEF Current, Idle, Unread
  <2> QED
    BY <1>1, <2>2 DEF LedgerInv
<1>6. CASE ReadWithdrawn(q)
  <2>1. req'[q] = [req[q] EXCEPT !.withdrawn = SumOf(Taken)]
    BY <1>4, <1>6 DEF ReadWithdrawn, Load
  <2>2. /\ req'[q].kind = "withdraw" /\ req'[q].earned = req[q].earned
        /\ req'[q].withdrawn = SumOf(Taken)
        /\ SumOf(Taken) # Unread
    BY <1>4, <1>6, <2>1, SumOfIsNat DEF LoadedRows, ReadWithdrawn, Unread, LedgerInv, TypeInv
  <2>3. Current(q)'
    BY <1>2, <1>4, <1>6, <2>2 DEF LedgerInv, Current, ReadWithdrawn
  <2> QED
    BY <1>1, <2>3 DEF LedgerInv
<1>7. CASE ReadOnHold(q)
  <2>1. req'[q] = [req[q] EXCEPT !.onhold = SumOf({"pending"})]
    BY <1>4, <1>7 DEF ReadOnHold, Load
  <2>2. /\ req'[q].kind = req[q].kind /\ req'[q].earned = req[q].earned
        /\ req'[q].withdrawn = req[q].withdrawn
        /\ req[q].kind = "withdraw"
        /\ req[q].withdrawn # Unread
    BY <1>4, <1>7, <2>1 DEF LoadedRows, ReadOnHold, LedgerInv, Current
  <2>3. Current(q)'
    BY <1>2, <1>4, <2>2 DEF LedgerInv, Current
  <2> QED
    BY <1>1, <2>3 DEF LedgerInv
<1>8. ASSUME NEW e \in Entries, BeginFinance(q, e) PROVE LedgerInv(q)'
  <2> DEFINE loaded == [Idle EXCEPT !.kind = "finance", !.entry = e, !.status = ledger[e]]
  <2>1. Load(q, loaded) /\ ledger[e] # "none"
    BY <1>8, Zenon DEF BeginFinance
  <2>2. /\ loaded.kind = "finance" /\ loaded.entry = e /\ loaded.status = ledger[e]
        /\ loaded.withdrawn = Unread /\ loaded.onhold = Unread
        /\ loaded.document = "unread"
    BY DEF Idle
  <2> HIDE DEF loaded
  <2>3. req'[q] = loaded
    BY <1>4, <2>1 DEF Load
  <2>4. Current(q)'
    BY <1>4, <2>1, <2>2, <2>3 DEF Current
  <2> QED
    BY <1>1, <2>4 DEF LedgerInv
<1>9. CASE ReadDocument(q)
  <2>1. req'[q] = [req[q] EXCEPT !.document = DocumentOf(req[q].entry)]
    BY <1>4, <1>9 DEF ReadDocument, Load
  <2>2. /\ req'[q].kind = "finance" /\ req[q].kind = "finance"
        /\ req'[q].entry = req[q].entry /\ req'[q].status = req[q].status
        /\ req'[q].withdrawn = req[q].withdrawn /\ req'[q].onhold = req[q].onhold
        /\ req'[q].document = DocumentOf(req[q].entry)
    BY <1>4, <1>9, <2>1 DEF LoadedRows, ReadDocument
  <2>3. Current(q)'
    BY <1>2, <1>3, <1>4, <2>2 DEF LedgerInv, Current
  <2> QED
    BY <1>1, <2>3 DEF LedgerInv
<1> QED
  BY <1>5, <1>6, <1>7, <1>8, <1>9

LEMMA EarnKeepsLedger ==
    ASSUME NEW q \in Requests, LedgerInv(q), TypeInv', NEW a \in Amounts,
           Earn(a) \/ \E i \in Invoices : EarnInvoiced(i, a)
    PROVE  LedgerInv(q)'
<1>1. /\ earned' \in Nat /\ earned \in Nat /\ earned <= earned'
      /\ UNCHANGED <<withdrawal, amount, req>>
  BY ConstantsAssumption DEF Earn, EarnInvoiced, LedgerInv, TypeInv, TypeOK
<1>2. SumOf(Taken)' = SumOf(Taken)
  BY <1>1, SumOfSameRows
<1>3. CASE Earn(a)
  <2>1. UNCHANGED <<ledger, invoice>>
    BY <1>3 DEF Earn
  <2>2. \A e : DocumentOf(e)' = DocumentOf(e)
    BY <1>1, <2>1 DEF DocumentOf
  <2>3. Current(q)'
    BY <1>1, <1>2, <2>1, <2>2 DEF LedgerInv, Current
  <2> QED
    BY <1>1, <2>1, <2>3 DEF LedgerInv, NewInvoicesAreUnbooked, PayoutsTell, InvoicesTell
<1>4. ASSUME NEW i \in Invoices, EarnInvoiced(i, a) PROVE LedgerInv(q)'
  <2>1. /\ invoice[i] = "none"
        /\ invoice' = [invoice EXCEPT ![i] = "paid"]
        /\ ledger' = [e \in Entries |-> IF e \in Booked(i, a) THEN "paid" ELSE ledger[e]]
        /\ invoice \in [Invoices -> InvoiceStatus]
        /\ ledger \in [Entries -> LedgerStatus]
    BY <1>4 DEF EarnInvoiced, LedgerInv, TypeInv, TypeOK
  <2>2. \A e \in Booked(i, a) : ~ IsPayout(e) /\ e[2] = i
    BY DEF Booked, IsPayout
  <2>3. \A e \in Entries : ~ IsPayout(e) /\ e[2] = i => ledger[e] = "none"
    BY <2>1 DEF LedgerInv, NewInvoicesAreUnbooked
  <2>4. NewInvoicesAreUnbooked'
    BY <2>1, <2>2, EntriesOf DEF LedgerInv, NewInvoicesAreUnbooked
  <2>5. PayoutsTell'
    <3>1. ASSUME NEW w \in Withdrawals
          PROVE  ledger'[<<"payout", w>>] = ledger[<<"payout", w>>]
      BY <2>1, <2>2, EntriesOf
    <3>2. withdrawal' = withdrawal /\ PayoutsTell
      BY <1>1 DEF LedgerInv
    <3> QED
      BY <3>1, <3>2, Zenon DEF PayoutsTell
  <2>6. InvoicesTell'
    <3>1. ASSUME NEW j \in Invoices, j # i
          PROVE  /\ invoice'[j] = invoice[j]
                 /\ \A e \in Entries : e[2] = j => ledger'[e] = ledger[e]
      BY <2>1, <2>2, <3>1
    <3>2. invoice'[i] = "paid"
      BY <2>1
    <3>3. \A e \in Entries : e[2] = i /\ ~ IsPayout(e) => ledger'[e] # "refunded"
      BY <2>1, <2>3
    <3>4. ASSUME NEW j \in Invoices
          PROVE  invoice'[j] = "cancelled" <=>
                     \E e \in Entries : e[2] = j /\ ~ IsPayout(e) /\ ledger'[e] = "refunded"
      <4>1. CASE j = i
        BY <3>2, <3>3, <4>1
      <4>2. CASE j # i
        BY <3>1, <4>2 DEF LedgerInv, InvoicesTell
      <4> QED
        BY <4>1, <4>2
    <3> QED
      BY <3>4 DEF InvoicesTell
  <2>7. Current(q)'
    <3> DEFINE e == req[q].entry
    <3>1. CASE req[q].kind = "finance"
      <4>1. e \in Entries /\ ledger[e] # "none" /\ req[q].status = ledger[e]
        BY <3>1 DEF LedgerInv, TypeInv, FinanceHasEntry, Current
      <4>2. IsPayout(e) \/ e[2] # i
        BY <2>3, <4>1
      <4>3. ledger'[e] = ledger[e]
        BY <2>1, <2>2, <4>1, <4>2
      <4>4. DocumentOf(e)' = DocumentOf(e)
        BY <1>1, <2>1, <4>1, <4>2, EntriesOf DEF DocumentOf
      <4>5. req[q].withdrawn = Unread /\ req[q].onhold = Unread
        BY <3>1 DEF LedgerInv, Current
      <4> QED
        BY <1>1, <3>1, <4>1, <4>3, <4>4, <4>5 DEF LedgerInv, Current
    <3>2. CASE req[q].kind # "finance"
      BY <1>1, <1>2, <3>2 DEF LedgerInv, Current
    <3> QED
      BY <3>1, <3>2
  <2> QED
    BY <2>4, <2>5, <2>6, <2>7 DEF LedgerInv
<1> QED
  BY <1>3, <1>4

\* A withdrawal and its row of the ledger change together.
LEMMA PayoutsTellOn ==
    ASSUME TypeInv, PayoutsTell, NEW w \in Withdrawals,
           NEW s \in WithdrawalStatus, NEW l \in LedgerStatus,
           withdrawal' = [withdrawal EXCEPT ![w] = s],
           ledger' = [ledger EXCEPT ![<<"payout", w>>] = l],
           /\ l = "pending" <=> s = "pending"
           /\ l = "paid" <=> s = "completed"
           /\ l = "refunded" <=> s = "cancelled"
    PROVE  /\ PayoutsTell'
           /\ \A e \in Entries : ~ IsPayout(e) => ledger'[e] = ledger[e]
<1>1. /\ withdrawal \in [Withdrawals -> WithdrawalStatus] /\ ledger \in [Entries -> LedgerStatus]
      /\ <<"payout", w>> \in Entries /\ IsPayout(<<"payout", w>>)
  BY EntriesOf DEF TypeInv, TypeOK
<1>2. ledger'[<<"payout", w>>] = l /\ withdrawal'[w] = s
  BY <1>1
<1>3. ASSUME NEW v \in Withdrawals, v # w
      PROVE  ledger'[<<"payout", v>>] = ledger[<<"payout", v>>] /\ withdrawal'[v] = withdrawal[v]
  <2>1. <<"payout", v>> \in Entries /\ <<"payout", v>> # <<"payout", w>>
    BY <1>3, EntriesOf
  <2> QED
    BY <1>1, <1>3, <2>1
<1>4. ASSUME NEW v \in Withdrawals
      PROVE  /\ ledger'[<<"payout", v>>] = "pending"  <=> withdrawal'[v] = "pending"
             /\ ledger'[<<"payout", v>>] = "paid"     <=> withdrawal'[v] = "completed"
             /\ ledger'[<<"payout", v>>] = "refunded" <=> withdrawal'[v] = "cancelled"
  <2>1. CASE v = w
    BY <1>2, <2>1
  <2>2. CASE v # w
    <3>1. /\ ledger[<<"payout", v>>] = "pending"  <=> withdrawal[v] = "pending"
          /\ ledger[<<"payout", v>>] = "paid"     <=> withdrawal[v] = "completed"
          /\ ledger[<<"payout", v>>] = "refunded" <=> withdrawal[v] = "cancelled"
      BY DEF PayoutsTell
    <3> QED
      BY <1>3, <2>2, <3>1
  <2> QED
    BY <2>1, <2>2
<1>5. PayoutsTell'
  BY <1>4, Zenon DEF PayoutsTell
<1>6. ASSUME NEW e \in Entries, ~ IsPayout(e) PROVE ledger'[e] = ledger[e]
  BY <1>1, <1>6
<1> QED
  BY <1>5, <1>6

\* Where no invoice and none of its rows changes, they go on agreeing.
LEMMA InvoicesTellOn ==
    ASSUME NewInvoicesAreUnbooked, InvoicesTell, invoice' = invoice,
           \A e \in Entries : ~ IsPayout(e) => ledger'[e] = ledger[e]
    PROVE  (NewInvoicesAreUnbooked /\ InvoicesTell)'
  BY DEF NewInvoicesAreUnbooked, InvoicesTell

\* What a handler of the ledger has loaded when it decides.
LEMMA FinanceIsCurrent ==
    ASSUME NEW q \in Requests, LedgerInv(q), FinanceLoaded(q)
    PROVE  /\ req[q].entry \in Entries
           /\ req[q].status = ledger[req[q].entry]
           /\ req[q].document = DocumentOf(req[q].entry)
  BY DEF LedgerInv, TypeInv, FinanceHasEntry, Current, FinanceLoaded

LEMMA RequestWithdrawalKeepsLedger ==
    ASSUME NEW q \in Requests, LedgerInv(q), TypeInv',
           NEW w \in Withdrawals, NEW a \in Amounts, RequestWithdrawal(q, w, a)
    PROVE  LedgerInv(q)'
<1>1. /\ withdrawal' = [withdrawal EXCEPT ![w] = "pending"]
      /\ ledger' = [ledger EXCEPT ![<<"payout", w>>] = "pending"]
      /\ invoice' = invoice
      /\ Done(q)
  BY DEF RequestWithdrawal
<1>2. PayoutsTell' /\ \A e \in Entries : ~ IsPayout(e) => ledger'[e] = ledger[e]
  BY <1>1, PayoutsTellOn DEF LedgerInv, WithdrawalStatus, LedgerStatus
<1>3. (NewInvoicesAreUnbooked /\ InvoicesTell)'
  BY <1>1, <1>2, InvoicesTellOn DEF LedgerInv
<1> QED
  BY <1>1, <1>2, <1>3, DoneIsCurrent DEF LedgerInv

LEMMA MarkPaidKeepsLedger ==
    ASSUME NEW q \in Requests, LedgerInv(q), TypeInv', NEW w \in Withdrawals, MarkPaid(q, w)
    PROVE  /\ LedgerInv(q)'
           /\ withdrawal[w] = "pending" /\ withdrawal' = [withdrawal EXCEPT ![w] = "completed"]
<1>1. req[q].entry = <<"payout", w>> /\ req[q].status = "pending" /\ FinanceLoaded(q)
  BY DEF MarkPaid
<1>2. ledger[<<"payout", w>>] = "pending" /\ req[q].document = withdrawal[w]
  BY <1>1, FinanceIsCurrent, EntriesOf DEF DocumentOf
<1>3. withdrawal[w] = "pending"
  BY <1>2 DEF LedgerInv, PayoutsTell
<1>4. /\ withdrawal' = [withdrawal EXCEPT ![w] = "completed"]
      /\ ledger' = [ledger EXCEPT ![<<"payout", w>>] = "paid"]
      /\ invoice' = invoice
      /\ Done(q)
  BY <1>2, <1>3 DEF MarkPaid, AfterPayment
<1>5. PayoutsTell' /\ \A e \in Entries : ~ IsPayout(e) => ledger'[e] = ledger[e]
  BY <1>4, PayoutsTellOn DEF LedgerInv, WithdrawalStatus, LedgerStatus
<1>6. (NewInvoicesAreUnbooked /\ InvoicesTell)'
  BY <1>4, <1>5, InvoicesTellOn DEF LedgerInv
<1> QED
  BY <1>3, <1>4, <1>5, <1>6, DoneIsCurrent DEF LedgerInv

\* A refund cancels the document of the row, unless it was cancelled before.
LEMMA RefundCancels ==
    ASSUME NEW q \in Requests, LedgerInv(q), Refund(q)
    PROVE  LET e == req[q].entry IN
           /\ e \in Entries /\ ledger' = [ledger EXCEPT ![e] = "refunded"]
           /\ IsPayout(e) => withdrawal' = [withdrawal EXCEPT ![e[2]] = "cancelled"]
                             /\ UNCHANGED invoice
           /\ ~ IsPayout(e) => invoice' = [invoice EXCEPT ![e[2]] = "cancelled"]
                               /\ UNCHANGED withdrawal
<1> DEFINE e == req[q].entry
           after == AfterRefund(req[q].document, DocumentOf(e))
<1>1. FinanceLoaded(q)
  BY DEF Refund
<1>2. e \in Entries /\ req[q].document = DocumentOf(e)
  BY <1>1, FinanceIsCurrent
<1>3. after = "cancelled"
  BY <1>2 DEF AfterRefund
<1>4. /\ ledger' = [ledger EXCEPT ![e] = "refunded"]
      /\ IsPayout(e) => withdrawal' = [withdrawal EXCEPT ![e[2]] = after] /\ UNCHANGED invoice
      /\ ~ IsPayout(e) => invoice' = [invoice EXCEPT ![e[2]] = after] /\ UNCHANGED withdrawal
  BY DEF Refund
<1> HIDE DEF after, e
<1>5. /\ e \in Entries /\ ledger' = [ledger EXCEPT ![e] = "refunded"]
      /\ IsPayout(e) => withdrawal' = [withdrawal EXCEPT ![e[2]] = "cancelled"]
                        /\ UNCHANGED invoice
      /\ ~ IsPayout(e) => invoice' = [invoice EXCEPT ![e[2]] = "cancelled"]
                          /\ UNCHANGED withdrawal
  BY <1>2, <1>3, <1>4
<1> QED
  BY <1>5 DEF e

LEMMA RefundKeepsLedger ==
    ASSUME NEW q \in Requests, LedgerInv(q), TypeInv', Refund(q)
    PROVE  LedgerInv(q)'
<1> DEFINE e == req[q].entry
<1>1. /\ e \in Entries /\ ledger' = [ledger EXCEPT ![e] = "refunded"]
      /\ IsPayout(e) => withdrawal' = [withdrawal EXCEPT ![e[2]] = "cancelled"]
                        /\ UNCHANGED invoice
      /\ ~ IsPayout(e) => invoice' = [invoice EXCEPT ![e[2]] = "cancelled"]
                          /\ UNCHANGED withdrawal
  BY RefundCancels
<1>2. Done(q) /\ req[q].status = "paid" /\ FinanceLoaded(q)
  BY DEF Refund
<1>3. ledger[e] = "paid"
  BY <1>2, FinanceIsCurrent
<1> HIDE DEF e
<1>4. invoice \in [Invoices -> InvoiceStatus] /\ ledger \in [Entries -> LedgerStatus]
  BY DEF LedgerInv, TypeInv, TypeOK
<1>5. CASE IsPayout(e)
  <2>1. e[2] \in Withdrawals /\ e = <<"payout", e[2]>>
    BY <1>1, <1>5, EntriesOf
  <2>2. PayoutsTell' /\ \A f \in Entries : ~ IsPayout(f) => ledger'[f] = ledger[f]
    <3>1. /\ withdrawal' = [withdrawal EXCEPT ![e[2]] = "cancelled"]
          /\ ledger' = [ledger EXCEPT ![<<"payout", e[2]>>] = "refunded"]
      BY <1>1, <1>5, <2>1
    <3> QED
      BY <2>1, <3>1, PayoutsTellOn DEF LedgerInv, WithdrawalStatus, LedgerStatus
  <2>3. (NewInvoicesAreUnbooked /\ InvoicesTell)'
    BY <1>1, <1>5, <2>2, InvoicesTellOn DEF LedgerInv
  <2> QED
    BY <1>2, <2>2, <2>3, DoneIsCurrent DEF LedgerInv
<1>6. CASE ~ IsPayout(e)
  <2>1. e[2] \in Invoices /\ UNCHANGED withdrawal
        /\ invoice' = [invoice EXCEPT ![e[2]] = "cancelled"]
    BY <1>1, <1>6, EntriesOf
  <2>2. \A f \in Entries : f # e => ledger'[f] = ledger[f]
    BY <1>1, <1>4
  <2>3. ledger'[e] = "refunded" /\ invoice'[e[2]] = "cancelled"
    BY <1>1, <1>4, <2>1
  <2>4. \A i \in Invoices : i # e[2] => invoice'[i] = invoice[i]
    BY <1>4, <2>1
  <2>5. NewInvoicesAreUnbooked'
    BY <1>4, <2>2, <2>3, <2>4, EntriesOf DEF LedgerInv, NewInvoicesAreUnbooked
  <2>6. InvoicesTell'
    <3>1. ASSUME NEW i \in Invoices
          PROVE  invoice'[i] = "cancelled" <=>
                     \E f \in Entries : f[2] = i /\ ~ IsPayout(f) /\ ledger'[f] = "refunded"
      <4>1. CASE i = e[2]
        BY <1>1, <1>6, <2>3, <4>1
      <4>2. CASE i # e[2]
        BY <2>2, <2>4, <4>2 DEF LedgerInv, InvoicesTell
      <4> QED
        BY <4>1, <4>2
    <3> QED
      BY <3>1 DEF InvoicesTell
  <2>7. PayoutsTell'
    <3>1. ASSUME NEW w \in Withdrawals
          PROVE  ledger'[<<"payout", w>>] = ledger[<<"payout", w>>]
      BY <1>6, <2>2, EntriesOf
    <3>2. withdrawal' = withdrawal /\ PayoutsTell
      BY <2>1 DEF LedgerInv
    <3> QED
      BY <3>1, <3>2, Zenon DEF PayoutsTell
  <2> QED
    BY <1>2, <2>5, <2>6, <2>7, DoneIsCurrent DEF LedgerInv
<1> QED
  BY <1>5, <1>6

-----------------------------------------------------------------------------
(***************************************************************************)
(* The balance.                                                            *)
(***************************************************************************)
Held == {w \in Withdrawals : withdrawal[w] \in Taken}

LEMMA SumsOfHeld ==
    /\ SumOf(Taken) = Total(amount, Held)
    /\ SumOf(Taken)' = Total(amount', Held')
    /\ NeverOverdrawn <=> Total(amount, Held) <= earned
    /\ NeverOverdrawn' <=> Total(amount', Held') <= earned'
  BY DEF SumOf, Total, SumTerms, IsSum, Pick, Held, Taken, NeverOverdrawn

LEMMA HeldIsFinite == IsFiniteSet(Held) /\ IsFiniteSet(Held')
  BY WithdrawalsOfFinite DEF Held

\* A withdrawal that is granted was covered by what the request loaded, hence
\* by what the supplier earned.
LEMMA RequestIsCovered ==
    ASSUME NEW q \in Requests, LedgerInv(q), NeverOverdrawn,
           NEW w \in Withdrawals, NEW a \in Amounts, RequestWithdrawal(q, w, a)
    PROVE  NeverOverdrawn'
<1>1. /\ req[q].earned \in 0..earned /\ req[q].withdrawn = SumOf(Taken)
      /\ req[q].onhold \in Nat /\ earned \in Nat /\ SumOf(Taken) \in Nat
      /\ req[q].onhold # Unread
  <2>1. req[q].onhold # Unread
    BY DEF RequestWithdrawal
  <2>2. req[q] \in LoadedRows /\ earned \in Nat
    BY DEF LedgerInv, TypeInv, TypeOK
  <2>3. SumOf(Taken) \in Nat
    BY SumOfIsNat DEF LedgerInv, TypeInv
  <2>4. req[q].earned \in 0..earned /\ req[q].withdrawn = SumOf(Taken)
    BY <2>1 DEF LedgerInv, Current
  <2> QED
    BY <2>1, <2>2, <2>3, <2>4 DEF LoadedRows
<1>2. a + SumOf(Taken) <= earned
  <2>1. a <= Withdrawable(q) /\ a \in Nat /\ a # 0
    BY ConstantsAssumption DEF RequestWithdrawal
  <2> QED
    BY <1>1, <2>1 DEF Withdrawable, Available
<1>3. /\ withdrawal' = [withdrawal EXCEPT ![w] = "pending"] /\ withdrawal[w] = "none"
      /\ amount' = [amount EXCEPT ![w] = a]
      /\ earned' = earned
      /\ withdrawal \in [Withdrawals -> WithdrawalStatus]
      /\ amount \in [Withdrawals -> Nat]
      /\ a \in Nat
  BY ConstantsAssumption DEF RequestWithdrawal, LedgerInv, TypeInv, TypeOK
<1>4. Held' \ {w} = Held /\ w \in Held' /\ w \notin Held
  BY <1>3 DEF Held, Taken
<1>5. amount' \in [Withdrawals -> Nat] /\ Held' \subseteq Withdrawals /\ amount'[w] = a
  BY <1>3 DEF Held
<1>6. Total(amount', Held') = a + Total(amount', Held)
  BY <1>4, <1>5, HeldIsFinite, TotalWithout
<1>7. Total(amount', Held) = Total(amount, Held)
  <2>1. \A v \in Held : amount'[v] = amount[v]
    BY <1>3, <1>4 DEF Held
  <2> QED
    BY <2>1, HeldIsFinite, TotalOfSameTerms
<1> QED
  BY <1>1, <1>2, <1>3, <1>6, <1>7, SumsOfHeld

LEMMA RefundFreesBalance ==
    ASSUME NEW q \in Requests, LedgerInv(q), NeverOverdrawn, Refund(q)
    PROVE  NeverOverdrawn'
<1> DEFINE e == req[q].entry
           w == e[2]
<1>1. amount' = amount /\ earned' = earned
  BY DEF Refund
<1>2. withdrawal \in [Withdrawals -> WithdrawalStatus] /\ amount \in [Withdrawals -> Nat]
      /\ earned \in Nat
  BY DEF LedgerInv, TypeInv, TypeOK
<1>3. CASE IsPayout(e)
  <2>1. withdrawal' = [withdrawal EXCEPT ![w] = "cancelled"] /\ w \in Withdrawals
    BY <1>3, RefundCancels, EntriesOf
  <2> HIDE DEF e, w
  <2>2. Held' = Held \ {w}
    BY <1>2, <2>1 DEF Held, Taken
  <2>3. Total(amount, Held') <= Total(amount, Held)
    <3>1. CASE w \in Held
      <4>1. Held \subseteq Withdrawals
        BY DEF Held
      <4>2. Total(amount, Held) = amount[w] + Total(amount, Held')
        BY <1>2, <2>2, <3>1, <4>1, HeldIsFinite, TotalWithout
      <4>3. Total(amount, Held') \in Nat /\ amount[w] \in Nat
        BY <1>2, <2>1, <2>2, <4>1, HeldIsFinite, TotalIsNat
      <4> QED
        BY <4>2, <4>3
    <3>2. CASE w \notin Held
      <4>1. Held' = Held
        BY <2>2, <3>2
      <4>2. Total(amount, Held) \in Nat
        BY <1>2, HeldIsFinite, TotalIsNat DEF Held
      <4> QED
        BY <4>1, <4>2
    <3> QED
      BY <3>1, <3>2
  <2>4. Total(amount, Held) \in Nat /\ Total(amount, Held') \in Nat
    BY <1>2, <2>2, HeldIsFinite, TotalIsNat DEF Held
  <2> QED
    BY <1>1, <1>2, <2>3, <2>4, SumsOfHeld
<1>4. CASE ~ IsPayout(e)
  <2>1. withdrawal' = withdrawal
    BY <1>4, RefundCancels
  <2>2. Held' = Held
    BY <2>1 DEF Held
  <2> QED
    BY <1>1, <2>2, SumsOfHeld
<1> QED
  BY <1>3, <1>4

SerialInv(q) == LedgerInv(q) /\ NeverOverdrawn

LEMMA SerialInit == ASSUME NEW q \in Requests, Init PROVE SerialInv(q)
<1>1. TypeInv
  BY TypeInit
<1>2. Current(q) /\ NewInvoicesAreUnbooked /\ PayoutsTell /\ InvoicesTell
  BY EntriesOf DEF Init, Current, Idle, Unread, NewInvoicesAreUnbooked, PayoutsTell, InvoicesTell
<1>3. NeverOverdrawn
  <2>1. Held = {} /\ earned = 0
    BY DEF Init, Held, Taken
  <2> QED
    BY <2>1, SumsOfHeld, TotalOfNone
<1> QED
  BY <1>1, <1>2, <1>3 DEF SerialInv, LedgerInv

LEMMA SerialStep ==
    ASSUME NEW q, Requests = {q}, SerialInv(q), [Next]_vars
    PROVE  SerialInv(q)'
<1>1. q \in Requests /\ LedgerInv(q) /\ NeverOverdrawn
  BY DEF SerialInv
<1>2. TypeInv'
  BY <1>1, TypeStep DEF LedgerInv
<1>3. /\ earned \in Nat
      /\ SumOf({"pending", "completed"}) \in Nat
  BY <1>1, SumOfIsNat DEF LedgerInv, TypeInv, TypeOK
<1>4. ASSUME UNCHANGED <<withdrawal, amount>>, earned' \in Nat, earned <= earned'
      PROVE  NeverOverdrawn'
  BY <1>1, <1>3, <1>4, SumOfSameRows DEF NeverOverdrawn
<1>5. ASSUME NEW a \in Amounts, Earn(a) \/ \E i \in Invoices : EarnInvoiced(i, a)
      PROVE  SerialInv(q)'
  <2>1. /\ earned' \in Nat /\ earned <= earned'
        /\ UNCHANGED <<withdrawal, amount>>
    BY <1>3, <1>5, ConstantsAssumption DEF Earn, EarnInvoiced
  <2> QED
    BY <1>1, <1>2, <1>4, <1>5, <2>1, EarnKeepsLedger DEF SerialInv
<1>6. ASSUME \/ BeginWithdrawal(q)
             \/ ReadWithdrawn(q)
             \/ ReadOnHold(q)
             \/ \E e \in Entries : BeginFinance(q, e)
             \/ ReadDocument(q)
      PROVE  SerialInv(q)'
  <2>1. UNCHANGED rows
    <3>1. (\E e \in Entries : BeginFinance(q, e)) => UNCHANGED rows
      BY Zenon DEF BeginFinance, Load
    <3> QED
      BY <1>6, <3>1 DEF BeginWithdrawal, ReadWithdrawn, ReadOnHold, ReadDocument, Load
  <2>2. NeverOverdrawn'
    BY <1>3, <1>4, <2>1 DEF rows
  <2> QED
    BY <1>1, <1>2, <1>6, <2>2, ReadKeepsLedger DEF SerialInv
<1>7. ASSUME NEW w \in Withdrawals, NEW a \in Amounts, RequestWithdrawal(q, w, a)
      PROVE  SerialInv(q)'
  BY <1>1, <1>2, <1>7, RequestWithdrawalKeepsLedger, RequestIsCovered DEF SerialInv
<1>8. ASSUME NEW w \in Withdrawals, MarkPaid(q, w) PROVE SerialInv(q)'
  <2>1. LedgerInv(q)' /\ withdrawal[w] = "pending"
        /\ withdrawal' = [withdrawal EXCEPT ![w] = "completed"]
    BY <1>1, <1>2, <1>8, MarkPaidKeepsLedger
  <2>2. withdrawal \in [Withdrawals -> WithdrawalStatus] /\ amount' = amount /\ earned' = earned
    BY <1>1, <1>8 DEF MarkPaid, LedgerInv, TypeInv, TypeOK
  <2>3. Held' = Held
    BY <2>1, <2>2 DEF Held, Taken
  <2> QED
    BY <1>1, <2>1, <2>2, <2>3, SumsOfHeld DEF SerialInv
<1>9. CASE Refund(q)
  BY <1>1, <1>2, <1>9, RefundKeepsLedger, RefundFreesBalance DEF SerialInv
<1>10. CASE End(q)
  <2>1. UNCHANGED rows /\ Done(q)
    BY <1>10 DEF End
  <2>2. (NewInvoicesAreUnbooked /\ PayoutsTell /\ InvoicesTell)'
    BY <1>1, <2>1 DEF rows, LedgerInv, NewInvoicesAreUnbooked, PayoutsTell, InvoicesTell
  <2>3. Current(q)'
    BY <1>1, <2>1, DoneIsCurrent DEF LedgerInv
  <2>4. NeverOverdrawn'
    BY <1>3, <1>4, <2>1 DEF rows
  <2> QED
    BY <1>2, <2>2, <2>3, <2>4 DEF SerialInv, LedgerInv
<1>11. CASE UNCHANGED vars
  <2>1. UNCHANGED rows /\ UNCHANGED req
    BY <1>11 DEF vars, rows
  <2>2. (NewInvoicesAreUnbooked /\ PayoutsTell /\ InvoicesTell)'
    BY <1>1, <2>1 DEF rows, LedgerInv, NewInvoicesAreUnbooked, PayoutsTell, InvoicesTell
  <2>3. SumOf(Taken)' = SumOf(Taken) /\ \A e : DocumentOf(e)' = DocumentOf(e)
    BY <2>1, SumOfSameRows DEF rows, DocumentOf
  <2>4. Current(q)'
    BY <1>1, <2>1, <2>3 DEF rows, LedgerInv, Current
  <2>5. NeverOverdrawn'
    BY <1>3, <1>4, <2>1 DEF rows
  <2> QED
    BY <1>2, <2>2, <2>4, <2>5 DEF SerialInv, LedgerInv
<1> QED
  BY <1>5, <1>6, <1>7, <1>8, <1>9, <1>10, <1>11 DEF Next, SupplierStep, FinanceStep

LEMMA SerialInvariant == ASSUME NEW q, Requests = {q} PROVE Spec => []SerialInv(q)
<1>1. Init => SerialInv(q)
  BY SerialInit
<1>2. SerialInv(q) /\ [Next]_vars => SerialInv(q)'
  BY SerialStep
<1> QED
  BY <1>1, <1>2, PTL DEF Spec

\* One request at a time: the ledger and the documents tell the same story
\* (request_withdrawal, create_invoice_for_milestone, apply_finance_action).
THEOREM LedgerAgrees == ASSUME NEW q, Requests = {q} PROVE Spec => []LedgerTellsDocuments
<1>1. SerialInv(q) => LedgerTellsDocuments
  BY LedgerTellsBoth DEF SerialInv, LedgerInv
<1> QED
  BY SerialInvariant, <1>1, PTL

\* One request at a time: whatever the amounts and however many withdrawals, the
\* supplier never takes out more than it earned (request_withdrawal).
THEOREM WithdrawalsAreCovered == ASSUME NEW q, Requests = {q} PROVE Spec => []NeverOverdrawn
<1>1. SerialInv(q) => NeverOverdrawn
  BY DEF SerialInv
<1> QED
  BY SerialInvariant, <1>1, PTL

-----------------------------------------------------------------------------
(***************************************************************************)
(* More about sums, for requests that overlap.                             *)
(***************************************************************************)

\* Greater terms have the greater sum.
LEMMA TotalMonotone ==
    ASSUME NEW D, NEW a \in [D -> Nat], NEW b \in [D -> Nat],
           NEW S, IsFiniteSet(S), S \subseteq D, \A x \in S : a[x] <= b[x]
    PROVE  Total(a, S) <= Total(b, S)
<1> DEFINE Bad == {W \in SUBSET S : ~ Total(a, W) <= Total(b, W)}
<1>1. SUFFICES ASSUME Bad # {} PROVE FALSE
  OBVIOUS
<1>2. PICK W \in Bad : \A V \in Bad : ~ (V \subseteq W /\ V # W)
  <2>1. Bad \subseteq SUBSET S
    OBVIOUS
  <2> HIDE DEF Bad
  <2> QED
    BY <1>1, <2>1, SmallestSubset
<1>3. W \in SUBSET S /\ ~ Total(a, W) <= Total(b, W) /\ IsFiniteSet(W)
  BY FS_Subset
<1>4. W # {}
  <2>1. Total(a, {}) = 0 /\ Total(b, {}) = 0
    BY TotalOfNone
  <2>2. CASE W = {}
    <3>1. Total(a, W) = 0 /\ Total(b, W) = 0
      BY <2>1, <2>2, Zenon
    <3> QED
      BY <1>3, <3>1
  <2> QED
    BY <2>2
<1>5. PICK x \in W : x \in S /\ x \in D
  BY <1>3, <1>4
<1>6. W \ {x} \in SUBSET S /\ W \ {x} \notin Bad /\ IsFiniteSet(W \ {x})
  BY <1>2, <1>3, <1>5, FS_Subset
<1>7. Total(a, W \ {x}) <= Total(b, W \ {x})
  BY <1>6
<1> HIDE DEF Bad
<1>8. Total(a, W) = a[x] + Total(a, W \ {x}) /\ Total(b, W) = b[x] + Total(b, W \ {x})
  BY <1>3, <1>5, TotalWithout
<1>9. Total(a, W \ {x}) \in Nat /\ Total(b, W \ {x}) \in Nat
  BY <1>3, <1>6, TotalIsNat
<1>10. a[x] \in Nat /\ b[x] \in Nat /\ a[x] <= b[x]
  BY <1>5
<1> QED
  BY <1>3, <1>7, <1>8, <1>9, <1>10

\* The sum over two sets that share no term.
LEMMA TotalOfBoth ==
    ASSUME NEW D, NEW a \in [D -> Nat], NEW S, IsFiniteSet(S), S \subseteq D,
           NEW T, IsFiniteSet(T), T \subseteq D, S \cap T = {}
    PROVE  Total(a, S \cup T) = Total(a, S) + Total(a, T)
<1> DEFINE Bad == {W \in SUBSET S : Total(a, W \cup T) # Total(a, W) + Total(a, T)}
<1>1. SUFFICES ASSUME Bad # {} PROVE FALSE
  OBVIOUS
<1>2. PICK W \in Bad : \A V \in Bad : ~ (V \subseteq W /\ V # W)
  <2>1. Bad \subseteq SUBSET S
    OBVIOUS
  <2> HIDE DEF Bad
  <2> QED
    BY <1>1, <2>1, SmallestSubset
<1>3. /\ W \in SUBSET S /\ Total(a, W \cup T) # Total(a, W) + Total(a, T)
      /\ IsFiniteSet(W) /\ IsFiniteSet(W \cup T)
  BY FS_Subset, FS_Union
<1>4. W # {}
  <2>1. Total(a, {}) = 0 /\ Total(a, T) \in Nat
    BY TotalOfNone, TotalIsNat
  <2>2. CASE W = {}
    <3>1. W \cup T = T
      BY <2>2
    <3>2. Total(a, W) = 0 /\ Total(a, W \cup T) = Total(a, T)
      BY <2>1, <2>2, <3>1, Zenon
    <3> QED
      BY <1>3, <2>1, <3>2
  <2> QED
    BY <2>2
<1>5. PICK x \in W : x \in S /\ x \in D /\ x \notin T
  BY <1>3, <1>4
<1>6. /\ W \ {x} \in SUBSET S /\ W \ {x} \notin Bad
      /\ IsFiniteSet(W \ {x}) /\ IsFiniteSet((W \ {x}) \cup T)
  BY <1>2, <1>3, <1>5, FS_Subset, FS_Union
<1>7. Total(a, (W \ {x}) \cup T) = Total(a, W \ {x}) + Total(a, T)
  BY <1>6
<1> HIDE DEF Bad
<1>8. (W \cup T) \ {x} = (W \ {x}) \cup T
  BY <1>5
<1>9. /\ Total(a, W) = a[x] + Total(a, W \ {x})
      /\ Total(a, W \cup T) = a[x] + Total(a, (W \cup T) \ {x})
  BY <1>3, <1>5, TotalWithout
<1>10. Total(a, W \ {x}) \in Nat /\ Total(a, T) \in Nat /\ a[x] \in Nat
  BY <1>3, <1>5, <1>6, TotalIsNat
<1>11. Total(a, W \cup T) = a[x] + (Total(a, W \ {x}) + Total(a, T))
  BY <1>7, <1>8, <1>9, Zenon
<1> QED
  BY <1>3, <1>9, <1>10, <1>11

LEMMA TotalOfSubset ==
    ASSUME NEW D, NEW a \in [D -> Nat], NEW S, IsFiniteSet(S), S \subseteq D,
           NEW T \in SUBSET S
    PROVE  Total(a, T) <= Total(a, S)
<1>1. /\ T \cup (S \ T) = S /\ T \cap (S \ T) = {}
      /\ IsFiniteSet(T) /\ IsFiniteSet(S \ T)
  BY FS_Subset
<1>2. Total(a, S) = Total(a, T) + Total(a, S \ T)
  <2>1. Total(a, T \cup (S \ T)) = Total(a, T) + Total(a, S \ T)
    BY <1>1, TotalOfBoth
  <2> QED
    BY <1>1, <2>1
<1>3. Total(a, T) \in Nat /\ Total(a, S \ T) \in Nat
  BY <1>1, TotalIsNat
<1> QED
  BY <1>2, <1>3

\* So many terms that are not 0, none above c.
LEMMA TotalAtMost ==
    ASSUME NEW D, NEW a \in [D -> Nat], NEW S, IsFiniteSet(S), S \subseteq D,
           NEW c \in Nat, \A x \in S : a[x] <= c
    PROVE  Total(a, S) <= Cardinality(S) * c
<1> DEFINE Bad == {W \in SUBSET S : ~ Total(a, W) <= Cardinality(W) * c}
<1>1. SUFFICES ASSUME Bad # {} PROVE FALSE
  OBVIOUS
<1>2. PICK W \in Bad : \A V \in Bad : ~ (V \subseteq W /\ V # W)
  <2>1. Bad \subseteq SUBSET S
    OBVIOUS
  <2> HIDE DEF Bad
  <2> QED
    BY <1>1, <2>1, SmallestSubset
<1>3. W \in SUBSET S /\ ~ Total(a, W) <= Cardinality(W) * c /\ IsFiniteSet(W)
  BY FS_Subset
<1>4. W # {}
  <2>1. Total(a, {}) = 0 /\ Cardinality({}) = 0
    BY TotalOfNone, FS_EmptySet
  <2>2. CASE W = {}
    <3>1. Total(a, W) = 0 /\ Cardinality(W) = 0
      BY <2>1, <2>2, Zenon
    <3> QED
      BY <1>3, <3>1
  <2> QED
    BY <2>2
<1>5. PICK x \in W : x \in S /\ x \in D
  BY <1>3, <1>4
<1>6. W \ {x} \in SUBSET S /\ W \ {x} \notin Bad /\ IsFiniteSet(W \ {x})
  BY <1>2, <1>3, <1>5, FS_Subset
<1>7. Total(a, W \ {x}) <= Cardinality(W \ {x}) * c
  BY <1>6
<1> HIDE DEF Bad
<1>8. Total(a, W) = a[x] + Total(a, W \ {x})
  BY <1>3, <1>5, TotalWithout
<1>9. Total(a, W \ {x}) \in Nat /\ a[x] \in Nat /\ a[x] <= c
  BY <1>3, <1>5, <1>6, TotalIsNat
<1>10. Cardinality(W) = Cardinality(W \ {x}) + 1 /\ Cardinality(W \ {x}) \in Nat
  BY <1>3, <1>5, <1>6, FS_RemoveElement, FS_CardinalityType
<1>11. (Cardinality(W \ {x}) + 1) * c = Cardinality(W \ {x}) * c + c
  BY <1>10
<1>12. Cardinality(W \ {x}) * c \in Nat
  BY <1>10
<1> QED
  BY <1>3, <1>7, <1>8, <1>9, <1>10, <1>11, <1>12

LEMMA TotalOfZeros ==
    ASSUME NEW D, NEW a \in [D -> Nat], NEW S, IsFiniteSet(S), S \subseteq D,
           \A x \in S : a[x] = 0
    PROVE  Total(a, S) = 0
<1>1. \A x \in S : a[x] <= 0
  OBVIOUS
<1>2. Total(a, S) <= Cardinality(S) * 0
  BY <1>1, TotalAtMost
<1>3. Cardinality(S) \in Nat /\ Total(a, S) \in Nat
  BY FS_CardinalityType, TotalIsNat
<1> QED
  BY <1>2, <1>3

LEMMA TotalOfSupport ==
    ASSUME NEW D, NEW a \in [D -> Nat], NEW S, IsFiniteSet(S), S \subseteq D
    PROVE  Total(a, S) = Total(a, {x \in S : a[x] # 0})
<1> DEFINE P == {x \in S : a[x] # 0}
           Z == {x \in S : a[x] = 0}
<1>1. IsFiniteSet(P) /\ IsFiniteSet(Z) /\ P \cup Z = S /\ P \cap Z = {}
  BY FS_Subset
<1>2. Total(a, Z) = 0
  BY <1>1, TotalOfZeros
<1>3. P \subseteq D /\ Z \subseteq D
  OBVIOUS
<1> HIDE DEF P, Z
<1>4. Total(a, P \cup Z) = Total(a, P) + Total(a, Z)
  BY <1>1, <1>3, TotalOfBoth
<1>5. Total(a, P) \in Nat
  BY <1>1, <1>3, TotalIsNat
<1>6. Total(a, S) = Total(a, P)
  <2>1. Total(a, S) = Total(a, P) + 0
    BY <1>1, <1>2, <1>4, Zenon
  <2> QED
    BY <1>5, <2>1
<1> QED
  BY <1>6 DEF P

-----------------------------------------------------------------------------
(***************************************************************************)
(* Requests that overlap.  Each of them may let the supplier take out once *)
(* more what it earned, and no more than that: a withdrawal on the balance *)
(* it loaded, or a payout it still believes pending, which it completes    *)
(* although a refund has cancelled the withdrawal.                         *)
(***************************************************************************)

\* Request q, if it marks the payout as paid, completes withdrawal w.
Revives(q, w) ==
    /\ req[q].kind = "finance"
    /\ req[q].entry = <<"payout", w>>
    /\ req[q].document = "pending"

Revivable ==
    {w \in Withdrawals : withdrawal[w] = "cancelled" /\ \E q \in Requests : Revives(q, w)}

\* The withdrawals that are taken, and those that may be so again.
Reach == Held \cup Revivable

\* What a request may still let the supplier withdraw.
Claims == [q \in Requests |-> IF req[q].withdrawn # Unread THEN Available(q) ELSE 0]

AmountsAreEarned == \A w \in Withdrawals : amount[w] <= earned
LoadsAreEarned ==
    \A q \in Requests :
       /\ req[q].kind = "withdraw" => req[q].earned \in 0..earned
       /\ req[q].withdrawn # Unread => req[q].kind = "withdraw"
       /\ req[q].onhold # Unread => req[q].withdrawn # Unread
RevivedExist ==
    \A q \in Requests, w \in Withdrawals : Revives(q, w) => withdrawal[w] # "none"
ClaimsAreCovered ==
    Total(amount, Reach) + Total(Claims, Requests) <= Cardinality(Requests) * earned

OverlapInv ==
    /\ TypeInv
    /\ AmountsAreEarned
    /\ LoadsAreEarned
    /\ RevivedExist
    /\ ClaimsAreCovered

LEMMA ClaimsType ==
    TypeInv /\ LoadsAreEarned =>
        /\ Claims \in [Requests -> Nat]
        /\ \A q \in Requests :
              /\ Claims[q] <= earned
              /\ req[q].kind # "withdraw" => Claims[q] = 0
              /\ req[q].withdrawn = Unread => Claims[q] = 0
<1> SUFFICES ASSUME TypeInv, LoadsAreEarned, NEW q \in Requests
             PROVE  LET c == IF req[q].withdrawn # Unread THEN Available(q) ELSE 0
                    IN  /\ c \in Nat /\ c <= earned
                        /\ req[q].kind # "withdraw" => c = 0
  BY DEF Claims
<1>1. /\ req[q].withdrawn \in Nat \cup {Unread} /\ earned \in Nat
      /\ req[q].withdrawn # Unread =>
            req[q].earned \in 0..earned /\ req[q].kind = "withdraw"
  BY DEF TypeInv, TypeOK, LoadedRows, LoadsAreEarned
<1> QED
  BY <1>1 DEF Available

LEMMA ReachType ==
    /\ IsFiniteSet(Reach) /\ Reach \subseteq Withdrawals
    /\ IsFiniteSet(Revivable) /\ Revivable \subseteq Withdrawals
    /\ IsFiniteSet(Held) /\ Held \subseteq Withdrawals
    /\ Held \cap Revivable = {}
<1>1. Reach \subseteq Withdrawals /\ Revivable \subseteq Withdrawals /\ Held \subseteq Withdrawals
  BY DEF Reach, Revivable, Held
<1>2. Held \cap Revivable = {}
  BY DEF Held, Revivable, Taken
<1> QED
  BY <1>1, <1>2, ConstantsAssumption, FS_Subset

LEMMA SumsType ==
    ASSUME IsFiniteSet(Requests)
    PROVE  TypeInv /\ LoadsAreEarned =>
              /\ Total(amount, Reach) \in Nat
              /\ Total(amount, Held) \in Nat
              /\ Total(Claims, Requests) \in Nat
<1>1. TypeInv => amount \in [Withdrawals -> Nat]
  BY DEF TypeInv, TypeOK
<1> QED
  BY <1>1, ReachType, ClaimsType, TotalIsNat

\* Each revivable withdrawal has a request of its own that believes it pending.
LEMMA RevivableAreFew ==
    ASSUME NEW F, IsFiniteSet(F), {p \in Requests : req[p].kind = "finance"} \subseteq F
    PROVE  /\ Cardinality(Revivable) \in Nat
           /\ Cardinality(F) \in Nat
           /\ Cardinality(Revivable) <= Cardinality(F)
<1> DEFINE who == [w \in Revivable |-> CHOOSE p \in F : Revives(p, w)]
<1>1. \A w \in Revivable : who[w] \in F /\ Revives(who[w], w)
  <2> SUFFICES ASSUME NEW w \in Revivable
               PROVE  \E p \in F : Revives(p, w)
    BY Zenon
  <2> QED
    BY DEF Revivable, Revives
<1>2. who \in [Revivable -> F]
  BY <1>1
<1>3. \A v, w \in Revivable : who[v] = who[w] => v = w
  <2> SUFFICES ASSUME NEW v \in Revivable, NEW w \in Revivable, who[v] = who[w]
               PROVE  v = w
    OBVIOUS
  <2>1. Revives(who[v], v) /\ Revives(who[v], w)
    BY <1>1
  <2> HIDE DEF who
  <2>2. <<"payout", v>> = <<"payout", w>>
    BY <2>1 DEF Revives
  <2> QED
    BY <2>2
<1>4. who \in Injection(Revivable, F)
  <2> HIDE DEF who
  <2> QED
    BY <1>2, <1>3 DEF Injection, IsInjective
<1> QED
  BY <1>4, FS_Injection, FS_CardinalityType, ReachType

\* Beside a request that withdraws, the others claim or revive what the supplier
\* earned once each at most.
LEMMA OthersAreCovered ==
    ASSUME IsFiniteSet(Requests), TypeInv, AmountsAreEarned, LoadsAreEarned,
           NEW q \in Requests, req[q].kind = "withdraw"
    PROVE  /\ Total(amount, Revivable) \in Nat
           /\ Total(Claims, Requests \ {q}) \in Nat
           /\ Total(amount, Revivable) + Total(Claims, Requests \ {q})
                <= (Cardinality(Requests) - 1) * earned
<1> DEFINE others == Requests \ {q}
           F == {p \in Requests : req[p].kind = "finance"}
           C == {p \in others : Claims[p] # 0}
<1>1. /\ amount \in [Withdrawals -> Nat] /\ earned \in Nat
      /\ Claims \in [Requests -> Nat]
      /\ \A p \in Requests : Claims[p] <= earned
      /\ \A p \in Requests : Claims[p] # 0 => req[p].kind = "withdraw"
  BY ClaimsType DEF TypeInv, TypeOK
<1>2. /\ IsFiniteSet(others) /\ IsFiniteSet(F) /\ IsFiniteSet(C)
      /\ Cardinality(Requests) \in Nat /\ Cardinality(F) \in Nat /\ Cardinality(C) \in Nat
      /\ Cardinality(others) = Cardinality(Requests) - 1
  <2>1. others \subseteq Requests /\ F \subseteq Requests /\ C \subseteq Requests
    OBVIOUS
  <2>2. IsFiniteSet(others) /\ IsFiniteSet(F) /\ IsFiniteSet(C)
    BY <2>1, FS_Subset
  <2> QED
    BY <2>2, FS_RemoveElement, FS_CardinalityType
<1>3. Cardinality(F) + Cardinality(C) <= Cardinality(Requests) - 1
  <2>1. F \cap C = {} /\ F \cup C \subseteq others
    BY <1>1
  <2>2. /\ IsFiniteSet(F \cup C)
        /\ Cardinality(F \cup C) = Cardinality(F) + Cardinality(C) - Cardinality(F \cap C)
    BY <1>2, FS_Union
  <2>3. Cardinality(F \cap C) = 0
    BY <2>1, FS_EmptySet
  <2>4. Cardinality(F \cup C) <= Cardinality(others)
    BY <1>2, <2>1, FS_Subset
  <2> HIDE DEF F, C, others
  <2> QED
    BY <1>2, <2>2, <2>3, <2>4
<1>4. Cardinality(Revivable) \in Nat /\ Cardinality(Revivable) <= Cardinality(F)
  BY <1>2, RevivableAreFew
<1>5. Total(amount, Revivable) <= Cardinality(Revivable) * earned
  <2>1. \A w \in Revivable : amount[w] <= earned
    BY ReachType DEF AmountsAreEarned
  <2> QED
    BY <1>1, <2>1, ReachType, TotalAtMost
<1>6. Total(Claims, others) <= Cardinality(C) * earned
  <2>1. Total(Claims, others) = Total(Claims, C)
    BY <1>1, <1>2, TotalOfSupport
  <2>2. Total(Claims, C) <= Cardinality(C) * earned
    <3>1. C \subseteq Requests /\ \A p \in C : Claims[p] <= earned
      BY <1>1
    <3> HIDE DEF C
    <3> QED
      BY <1>1, <1>2, <3>1, TotalAtMost
  <2> QED
    BY <2>1, <2>2
<1>7. Total(amount, Revivable) \in Nat /\ Total(Claims, others) \in Nat
  BY <1>1, <1>2, ReachType, TotalIsNat
<1> HIDE DEF others, F, C
<1>8. Cardinality(Revivable) * earned + Cardinality(C) * earned
        <= (Cardinality(Requests) - 1) * earned
  <2>1. ASSUME NEW r \in Nat, NEW c \in Nat, NEW k \in Int, NEW e \in Nat, r + c <= k
        PROVE  r * e + c * e <= k * e
    <3>1. r * e + c * e = (r + c) * e
      OBVIOUS
    <3>2. k * e = (r + c) * e + (k - (r + c)) * e
      OBVIOUS
    <3>3. (k - (r + c)) * e >= 0
      <4>1. k - (r + c) \in Nat
        BY <2>1
      <4> QED
        BY <4>1
    <3>4. (r + c) * e \in Int /\ k * e \in Int /\ (k - (r + c)) * e \in Int
      OBVIOUS
    <3> QED
      BY <3>1, <3>2, <3>3, <3>4
  <2>2. Cardinality(Revivable) + Cardinality(C) <= Cardinality(Requests) - 1
    BY <1>2, <1>3, <1>4
  <2> QED
    BY <1>1, <1>2, <1>4, <2>1, <2>2
<1>9. /\ Cardinality(Revivable) * earned \in Nat
      /\ Cardinality(C) * earned \in Nat
      /\ (Cardinality(Requests) - 1) * earned \in Int
  BY <1>1, <1>2, <1>4
<1>10. Total(amount, Revivable) + Total(Claims, others)
         <= (Cardinality(Requests) - 1) * earned
  BY <1>5, <1>6, <1>7, <1>8, <1>9
<1> QED
  BY <1>7, <1>10 DEF others

-----------------------------------------------------------------------------
\* A step that takes nothing and claims nothing.
LEMMA QuietKeeps ==
    ASSUME IsFiniteSet(Requests), OverlapInv, TypeInv', LoadsAreEarned', RevivedExist',
           UNCHANGED amount, earned <= earned',
           Reach' \subseteq Reach, \A p \in Requests : Claims'[p] <= Claims[p]
    PROVE  OverlapInv'
<1>1. /\ amount \in [Withdrawals -> Nat] /\ Claims \in [Requests -> Nat]
      /\ earned \in Nat /\ earned' \in Nat /\ Cardinality(Requests) \in Nat
  BY ClaimsType, FS_CardinalityType DEF OverlapInv, TypeInv, TypeOK
<1>2. Claims' \in [Requests -> Nat]
  <2>1. (Claims \in [Requests -> Nat])'
    BY ClaimsType, PTL
  <2> QED
    BY <2>1
<1>3. Total(amount, Reach') <= Total(amount, Reach) /\ Total(amount, Reach') \in Nat
  <2>1. IsFiniteSet(Reach') /\ Reach' \subseteq Withdrawals
    BY ReachType, FS_Subset
  <2> QED
    BY <1>1, <2>1, ReachType, TotalOfSubset, TotalIsNat
<1>4. /\ Total(Claims', Requests) <= Total(Claims, Requests)
      /\ Total(Claims', Requests) \in Nat
  BY <1>1, <1>2, TotalMonotone, TotalIsNat
<1>5. Cardinality(Requests) * earned <= Cardinality(Requests) * earned'
  <2>1. ASSUME NEW n \in Nat, NEW a \in Nat, NEW b \in Nat, a <= b PROVE n * a <= n * b
    BY <2>1
  <2> QED
    BY <1>1, <2>1
<1>6. Cardinality(Requests) * earned \in Nat /\ Cardinality(Requests) * earned' \in Nat
  BY <1>1
<1>7. Total(amount, Reach) \in Nat /\ Total(Claims, Requests) \in Nat
  BY SumsType DEF OverlapInv
<1>8. Total(amount, Reach) + Total(Claims, Requests) <= Cardinality(Requests) * earned
  BY DEF OverlapInv, ClaimsAreCovered
<1>9. Total(amount', Reach') + Total(Claims', Requests) <= Cardinality(Requests) * earned'
  <2>1. Total(amount', Reach') = Total(amount, Reach')
    OBVIOUS
  <2> QED
    BY <1>3, <1>4, <1>5, <1>6, <1>7, <1>8, <2>1
<1>10. AmountsAreEarned'
  BY <1>1 DEF OverlapInv, AmountsAreEarned
<1> QED
  BY <1>9, <1>10 DEF OverlapInv, ClaimsAreCovered

\* The end of a request: what it loaded is forgotten.
LEMMA DoneForgets ==
    ASSUME OverlapInv, NEW q \in Requests, Done(q), earned' \in Nat, earned <= earned'
    PROVE  /\ LoadsAreEarned'
           /\ \A p \in Requests : Claims'[p] <= Claims[p]
           /\ \A p \in Requests, w \in Withdrawals :
                  Revives(p, w)' <=> p # q /\ Revives(p, w)
<1>1. /\ req' = [req EXCEPT ![q] = Idle] /\ req \in [Requests -> LoadedRows]
      /\ earned \in Nat
  BY DEF Done, OverlapInv, TypeInv, TypeOK
<1>2. req'[q] = Idle /\ \A p \in Requests \ {q} : req'[p] = req[p]
  BY <1>1
<1>3. LoadsAreEarned'
  BY <1>1, <1>2 DEF OverlapInv, LoadsAreEarned, Idle
<1>4. Claims \in [Requests -> Nat]
  BY ClaimsType DEF OverlapInv
<1>5. Claims'[q] = 0
  BY <1>2 DEF Claims, Idle
<1>6. \A p \in Requests \ {q} : Claims'[p] = Claims[p]
  BY <1>2 DEF Claims, Available
<1>7. \A p \in Requests : Claims'[p] <= Claims[p]
  BY <1>4, <1>5, <1>6
<1>8. \A p \in Requests, w \in Withdrawals : Revives(p, w)' <=> p # q /\ Revives(p, w)
  BY <1>2 DEF Revives, Idle
<1> QED
  BY <1>3, <1>7, <1>8

LEMMA EarnKeepsCover ==
    ASSUME IsFiniteSet(Requests), OverlapInv, TypeInv', NEW a \in Amounts,
           Earn(a) \/ \E i \in Invoices : EarnInvoiced(i, a)
    PROVE  OverlapInv'
<1>1. /\ earned \in Nat /\ earned' = earned + a /\ a \in Nat
      /\ UNCHANGED <<withdrawal, amount, req>>
  BY ConstantsAssumption DEF Earn, EarnInvoiced, OverlapInv, TypeInv, TypeOK
<1>2. LoadsAreEarned'
  BY <1>1 DEF OverlapInv, LoadsAreEarned
<1>3. RevivedExist' /\ Reach' = Reach
  BY <1>1 DEF OverlapInv, RevivedExist, Revives, Reach, Revivable, Held
<1>4. Claims' = Claims /\ Claims \in [Requests -> Nat]
  BY <1>1, ClaimsType DEF OverlapInv, Claims, Available
<1>5. \A p \in Requests : Claims'[p] <= Claims[p]
  BY <1>4
<1> QED
  BY <1>1, <1>2, <1>3, <1>5, QuietKeeps

\* A read that loads neither the sum of what is taken nor a document.
LEMMA ReadKeepsCover ==
    ASSUME IsFiniteSet(Requests), OverlapInv, TypeInv', NEW q \in Requests,
           \/ BeginWithdrawal(q)
           \/ ReadOnHold(q)
           \/ \E e \in Entries : BeginFinance(q, e)
           \/ ReadDocument(q)
    PROVE  OverlapInv'
<1>0. ASSUME NEW loaded \in LoadedRows, Load(q, loaded),
             loaded.kind = "withdraw" => loaded.earned \in 0..earned,
             loaded.withdrawn # Unread => loaded.kind = "withdraw",
             loaded.onhold # Unread => loaded.withdrawn # Unread,
             \/ loaded.withdrawn = Unread
             \/ loaded.withdrawn = req[q].withdrawn /\ loaded.earned = req[q].earned,
             \A w \in Withdrawals :
                 loaded.kind = "finance" /\ loaded.entry = <<"payout", w>>
                   /\ loaded.document = "pending"
                     => withdrawal[w] \notin {"none", "cancelled"}
      PROVE  OverlapInv'
  <2>1. /\ req \in [Requests -> LoadedRows] /\ req' = [req EXCEPT ![q] = loaded]
        /\ UNCHANGED <<earned, withdrawal, amount>> /\ earned \in Nat
    BY <1>0 DEF Load, rows, OverlapInv, TypeInv, TypeOK
  <2>2. req'[q] = loaded /\ \A p \in Requests \ {q} : req'[p] = req[p]
    BY <2>1
  <2>3. LoadsAreEarned'
    BY <1>0, <2>1, <2>2 DEF OverlapInv, LoadsAreEarned
  <2>4. ASSUME NEW p \in Requests, NEW w \in Withdrawals, Revives(p, w)'
        PROVE  Revives(p, w) \/ withdrawal[w] \notin {"none", "cancelled"}
    BY <1>0, <2>2, <2>4 DEF Revives
  <2>5. RevivedExist'
    BY <2>1, <2>4 DEF OverlapInv, RevivedExist
  <2>6. Reach' \subseteq Reach
    BY <2>1, <2>4 DEF Reach, Revivable, Held
  <2>7. Claims \in [Requests -> Nat]
    BY ClaimsType DEF OverlapInv
  <2>8. Claims'[q] <= Claims[q]
    BY <1>0, <2>2, <2>7 DEF Claims, Available
  <2>9. \A p \in Requests \ {q} : Claims'[p] = Claims[p]
    BY <2>2 DEF Claims, Available
  <2>10. \A p \in Requests : Claims'[p] <= Claims[p]
    BY <2>7, <2>8, <2>9
  <2> QED
    BY <2>1, <2>3, <2>5, <2>6, <2>10, QuietKeeps
<1>1. /\ req[q] \in LoadedRows /\ earned \in Nat
      /\ req[q].kind = "finance" => req[q].entry \in Entries
      /\ req[q].kind = "withdraw" => req[q].earned \in 0..earned
      /\ req[q].withdrawn # Unread => req[q].kind = "withdraw"
      /\ req[q].onhold # Unread => req[q].withdrawn # Unread
  BY DEF OverlapInv, TypeInv, TypeOK, FinanceHasEntry, LoadsAreEarned
<1>2. CASE BeginWithdrawal(q)
  <2> DEFINE loaded == [Idle EXCEPT !.kind = "withdraw", !.earned = earned]
  <2>1. /\ loaded \in LoadedRows /\ loaded.kind = "withdraw" /\ loaded.earned = earned
        /\ loaded.withdrawn = Unread /\ loaded.onhold = Unread
    BY <1>1, IdleType DEF LoadedRows, Idle
  <2>2. Load(q, loaded)
    BY <1>2 DEF BeginWithdrawal
  <2> HIDE DEF loaded
  <2> QED
    BY <1>0, <1>1, <2>1, <2>2
<1>3. CASE ReadOnHold(q)
  <2> DEFINE loaded == [req[q] EXCEPT !.onhold = SumOf({"pending"})]
  <2>1. SumOf({"pending"}) \in Nat
    BY SumOfIsNat DEF OverlapInv, TypeInv
  <2>2. /\ loaded \in LoadedRows /\ loaded.kind = req[q].kind /\ loaded.earned = req[q].earned
        /\ loaded.withdrawn = req[q].withdrawn
    BY <1>1, <2>1 DEF LoadedRows
  <2>3. Load(q, loaded) /\ req[q].withdrawn # Unread
    BY <1>3 DEF ReadOnHold
  <2> HIDE DEF loaded
  <2> QED
    BY <1>0, <1>1, <2>2, <2>3
<1>4. ASSUME NEW e \in Entries, BeginFinance(q, e) PROVE OverlapInv'
  <2> DEFINE loaded == [Idle EXCEPT !.kind = "finance", !.entry = e, !.status = ledger[e]]
  <2>1. /\ loaded \in LoadedRows /\ loaded.kind = "finance" /\ loaded.document = "unread"
        /\ loaded.withdrawn = Unread /\ loaded.onhold = Unread
    BY IdleType DEF OverlapInv, TypeInv, TypeOK, LoadedRows, Idle
  <2>2. Load(q, loaded)
    BY <1>4 DEF BeginFinance
  <2> HIDE DEF loaded
  <2> QED
    BY <1>0, <2>1, <2>2
<1>5. CASE ReadDocument(q)
  <2> DEFINE loaded == [req[q] EXCEPT !.document = DocumentOf(req[q].entry)]
  <2>1. req[q].kind = "finance" /\ req[q].entry \in Entries
    BY <1>1, <1>5 DEF ReadDocument
  <2>2. DocumentOf(req[q].entry) \in WithdrawalStatus \cup InvoiceStatus
    BY DocumentType, <2>1 DEF OverlapInv, TypeInv
  <2>3. /\ loaded \in LoadedRows /\ loaded.kind = "finance" /\ loaded.entry = req[q].entry
        /\ loaded.withdrawn = req[q].withdrawn /\ loaded.onhold = req[q].onhold
        /\ loaded.document = DocumentOf(req[q].entry)
    BY <1>1, <2>1, <2>2 DEF LoadedRows
  <2>4. \A w \in Withdrawals : DocumentOf(<<"payout", w>>) = withdrawal[w]
    BY DEF DocumentOf, IsPayout
  <2>5. Load(q, loaded)
    BY <1>5 DEF ReadDocument
  <2> HIDE DEF loaded
  <2> QED
    BY <1>0, <1>1, <2>1, <2>3, <2>4, <2>5
<1> QED
  BY <1>2, <1>3, <1>4, <1>5

\* What a request claims when it has read what is taken is what that leaves of
\* the sum it read before.
LEMMA ReadWithdrawnKeepsCover ==
    ASSUME IsFiniteSet(Requests), OverlapInv, TypeInv', NEW q \in Requests, ReadWithdrawn(q)
    PROVE  OverlapInv'
<1>1. /\ req[q] \in LoadedRows /\ req \in [Requests -> LoadedRows] /\ earned \in Nat
      /\ req[q].kind = "withdraw" /\ req[q].withdrawn = Unread /\ req[q].onhold = Unread
      /\ req[q].earned \in 0..earned
      /\ UNCHANGED <<earned, withdrawal, amount>>
      /\ req' = [req EXCEPT ![q] = [req[q] EXCEPT !.withdrawn = SumOf(Taken)]]
      /\ Cardinality(Requests) \in Nat
  BY FS_CardinalityType
     DEF ReadWithdrawn, Load, rows, OverlapInv, TypeInv, TypeOK, LoadsAreEarned
<1>2. SumOf(Taken) \in Nat /\ SumOf(Taken) = Total(amount, Held)
  BY SumOfIsNat, SumsOfHeld DEF OverlapInv, TypeInv
<1>3. /\ req'[q].kind = "withdraw" /\ req'[q].withdrawn = Total(amount, Held)
      /\ req'[q].earned = req[q].earned /\ req'[q].onhold = Unread
      /\ \A p \in Requests \ {q} : req'[p] = req[p]
  BY <1>1, <1>2 DEF LoadedRows
<1>4. LoadsAreEarned'
  BY <1>1, <1>2, <1>3 DEF OverlapInv, LoadsAreEarned, Unread
<1>5. \A p \in Requests, w \in Withdrawals : Revives(p, w)' <=> Revives(p, w)
  BY <1>1, <1>3 DEF Revives
<1>6. RevivedExist' /\ AmountsAreEarned'
  BY <1>1, <1>5 DEF OverlapInv, RevivedExist, AmountsAreEarned
<1>7. Reach' = Reach
  BY <1>1, <1>5 DEF Reach, Revivable, Held
<1>8. Claims \in [Requests -> Nat] /\ Claims[q] = 0
  BY <1>1, ClaimsType DEF OverlapInv
<1>9. Claims' \in [Requests -> Nat]
  <2>1. (Claims \in [Requests -> Nat])'
    BY <1>4, ClaimsType, PTL
  <2> QED
    BY <2>1
<1>10. \A p \in Requests \ {q} : Claims'[p] = Claims[p]
  BY <1>3 DEF Claims, Available
<1>11. Claims'[q] = IF req[q].earned > Total(amount, Held)
                    THEN req[q].earned - Total(amount, Held) ELSE 0
  BY <1>1, <1>2, <1>3 DEF Claims, Available, Unread
<1>12. Total(Claims', Requests) = Claims'[q] + Total(Claims, Requests \ {q})
  <2>1. Total(Claims', Requests) = Claims'[q] + Total(Claims', Requests \ {q})
    BY <1>9, TotalWithout
  <2>2. IsFiniteSet(Requests \ {q})
    BY FS_RemoveElement
  <2>3. Total(Claims', Requests \ {q}) = Total(Claims, Requests \ {q})
    BY <1>10, <2>2, TotalOfSameTerms
  <2> QED
    BY <2>1, <2>3, Zenon
<1>13. /\ Total(amount, Reach) \in Nat /\ Total(amount, Held) \in Nat
       /\ Total(Claims, Requests) \in Nat
  BY SumsType DEF OverlapInv
<1>14. Total(amount, Reach) = Total(amount, Held) + Total(amount, Revivable)
  <2>1. amount \in [Withdrawals -> Nat]
    BY DEF OverlapInv, TypeInv, TypeOK
  <2> QED
    BY <2>1, ReachType, TotalOfBoth DEF Reach
<1>15. /\ Total(amount, Revivable) \in Nat
       /\ Total(Claims, Requests \ {q}) \in Nat
       /\ Total(amount, Revivable) + Total(Claims, Requests \ {q})
            <= (Cardinality(Requests) - 1) * earned
  BY <1>1, OthersAreCovered DEF OverlapInv
<1>16. (Cardinality(Requests) - 1) * earned = Cardinality(Requests) * earned - earned
       /\ Cardinality(Requests) * earned \in Nat
  BY <1>1
<1>17. Total(amount, Reach) + Total(Claims', Requests) <= Cardinality(Requests) * earned
  <2>1. CASE req[q].earned > Total(amount, Held)
    BY <1>1, <1>11, <1>12, <1>13, <1>14, <1>15, <1>16, <2>1
  <2>2. CASE ~ req[q].earned > Total(amount, Held)
    <3>1. Total(Claims, Requests) = 0 + Total(Claims, Requests \ {q})
      BY <1>8, TotalWithout
    <3>2. Total(amount, Reach) + Total(Claims, Requests) <= Cardinality(Requests) * earned
      BY DEF OverlapInv, ClaimsAreCovered
    <3> QED
      BY <1>11, <1>12, <1>13, <1>15, <2>2, <3>1, <3>2
  <2> QED
    BY <2>1, <2>2
<1>18. ClaimsAreCovered'
  <2>1. Total(amount, Reach)' = Total(amount, Reach) /\ earned' = earned
    BY <1>1, <1>7
  <2> QED
    BY <1>17, <2>1 DEF ClaimsAreCovered
<1> QED
  BY <1>4, <1>6, <1>18 DEF OverlapInv

\* A withdrawal takes no more than the request claimed.
LEMMA RequestWithdrawalKeepsCover ==
    ASSUME IsFiniteSet(Requests), OverlapInv, TypeInv', NEW q \in Requests,
           NEW w \in Withdrawals, NEW a \in Amounts, RequestWithdrawal(q, w, a)
    PROVE  OverlapInv'
<1>1. /\ req[q] \in LoadedRows /\ earned \in Nat /\ a \in Nat
      /\ req[q].onhold # Unread /\ req[q].withdrawn # Unread /\ req[q].kind = "withdraw"
      /\ req[q].earned \in 0..earned
      /\ withdrawal' = [withdrawal EXCEPT ![w] = "pending"] /\ withdrawal[w] = "none"
      /\ amount' = [amount EXCEPT ![w] = a]
      /\ earned' = earned /\ Done(q)
      /\ withdrawal \in [Withdrawals -> WithdrawalStatus]
      /\ amount \in [Withdrawals -> Nat]
      /\ a <= Withdrawable(q)
  BY ConstantsAssumption
     DEF RequestWithdrawal, OverlapInv, TypeInv, TypeOK, LoadsAreEarned
<1>2. /\ LoadsAreEarned'
      /\ \A p \in Requests : Claims'[p] <= Claims[p]
      /\ \A p \in Requests, v \in Withdrawals : Revives(p, v)' <=> p # q /\ Revives(p, v)
  BY <1>1, DoneForgets DEF OverlapInv
<1>3. Claims \in [Requests -> Nat] /\ Claims[q] <= earned
  BY ClaimsType DEF OverlapInv
<1>4. Claims' \in [Requests -> Nat]
  <2>1. (Claims \in [Requests -> Nat])'
    BY <1>2, ClaimsType, PTL
  <2> QED
    BY <2>1
<1>5. a <= Claims[q]
  <2>1. Claims[q] = Available(q)
    BY <1>1 DEF Claims
  <2>2. req[q].onhold \in Nat
    BY <1>1 DEF LoadedRows
  <2>3. Withdrawable(q) = Claims[q] - req[q].onhold
    BY <2>1 DEF Withdrawable
  <2> QED
    BY <1>1, <1>3, <2>2, <2>3
<1>6. AmountsAreEarned'
  BY <1>1, <1>3, <1>5 DEF OverlapInv, AmountsAreEarned
<1>7. RevivedExist'
  BY <1>1, <1>2 DEF OverlapInv, RevivedExist
<1>8. Reach' \subseteq Reach \cup {w} /\ w \notin Reach /\ w \in Reach'
  BY <1>1, <1>2 DEF Reach, Revivable, Held, Taken
<1>9. Total(amount', Reach') <= a + Total(amount, Reach)
      /\ Total(amount', Reach') \in Nat /\ Total(amount, Reach) \in Nat
  <2>1. amount' \in [Withdrawals -> Nat] /\ amount'[w] = a
    BY <1>1
  <2>2. IsFiniteSet(Reach \cup {w}) /\ Reach \cup {w} \subseteq Withdrawals
    BY ReachType, FS_AddElement
  <2>3. Total(amount', Reach') <= Total(amount', Reach \cup {w})
    BY <1>8, <2>1, <2>2, TotalOfSubset
  <2>4. (Reach \cup {w}) \ {w} = Reach
    BY <1>8
  <2>5. Total(amount', Reach \cup {w}) = a + Total(amount', Reach)
    <3>1. Total(amount', Reach \cup {w})
            = amount'[w] + Total(amount', (Reach \cup {w}) \ {w})
      BY <2>1, <2>2, TotalWithout
    <3> QED
      BY <2>1, <2>4, <3>1, Zenon
  <2>6. Total(amount', Reach) = Total(amount, Reach)
    <3>1. \A v \in Reach : amount'[v] = amount[v]
      BY <1>1, <1>8, ReachType
    <3> QED
      BY <3>1, ReachType, TotalOfSameTerms
  <2>7. /\ Total(amount', Reach') \in Nat /\ Total(amount, Reach) \in Nat
    <3>1. IsFiniteSet(Reach') /\ Reach' \subseteq Withdrawals
      BY <1>8, <2>2, FS_Subset
    <3> QED
      BY <1>1, <2>1, <3>1, ReachType, TotalIsNat
  <2> QED
    BY <1>1, <2>3, <2>5, <2>6, <2>7
<1>10. Claims'[q] = 0
  <2>1. req \in [Requests -> LoadedRows]
    BY DEF OverlapInv, TypeInv, TypeOK
  <2> QED
    BY <1>1, <2>1 DEF Claims, Done, Idle
<1>11. /\ Total(Claims, Requests) = Claims[q] + Total(Claims, Requests \ {q})
       /\ Total(Claims', Requests) <= Total(Claims, Requests \ {q})
       /\ Total(Claims', Requests) \in Nat /\ Total(Claims, Requests \ {q}) \in Nat
  <2>1. IsFiniteSet(Requests \ {q})
    BY FS_RemoveElement
  <2>2. Total(Claims', Requests) = Claims'[q] + Total(Claims', Requests \ {q})
    BY <1>4, TotalWithout
  <2>3. Total(Claims', Requests \ {q}) <= Total(Claims, Requests \ {q})
    BY <1>2, <1>3, <1>4, <2>1, TotalMonotone
  <2>4. Total(Claims, Requests) = Claims[q] + Total(Claims, Requests \ {q})
    BY <1>3, TotalWithout
  <2>5. /\ Total(Claims', Requests \ {q}) \in Nat
        /\ Total(Claims', Requests) \in Nat /\ Total(Claims, Requests \ {q}) \in Nat
    BY <1>3, <1>4, <2>1, TotalIsNat
  <2> QED
    BY <1>10, <2>2, <2>3, <2>4, <2>5
<1>12. Total(amount, Reach) + Total(Claims, Requests) <= Cardinality(Requests) * earned
  BY DEF OverlapInv, ClaimsAreCovered
<1>13. Total(amount', Reach') + Total(Claims', Requests) <= Cardinality(Requests) * earned'
  <2>1. Cardinality(Requests) * earned \in Nat /\ Cardinality(Requests) * earned' = Cardinality(Requests) * earned
    BY <1>1, FS_CardinalityType
  <2>2. Claims[q] \in Nat
    BY <1>3
  <2> QED
    BY <1>1, <1>5, <1>9, <1>11, <1>12, <2>1, <2>2
<1> QED
  BY <1>2, <1>6, <1>7, <1>13 DEF OverlapInv, ClaimsAreCovered

\* A payout that is paid completes what was taken, or could be taken again.
LEMMA MarkPaidKeepsCover ==
    ASSUME IsFiniteSet(Requests), OverlapInv, TypeInv', NEW q \in Requests,
           NEW w \in Withdrawals, MarkPaid(q, w)
    PROVE  OverlapInv'
<1>1. /\ Done(q) /\ UNCHANGED <<earned, amount>> /\ earned \in Nat
      /\ req[q].kind = "finance" /\ req[q].entry = <<"payout", w>>
      /\ withdrawal \in [Withdrawals -> WithdrawalStatus]
      /\ withdrawal' = [withdrawal EXCEPT ![w] = AfterPayment(req[q].document, @)]
  BY DEF MarkPaid, FinanceLoaded, OverlapInv, TypeInv, TypeOK
<1>2. /\ LoadsAreEarned'
      /\ \A p \in Requests : Claims'[p] <= Claims[p]
      /\ \A p \in Requests, v \in Withdrawals : Revives(p, v)' <=> p # q /\ Revives(p, v)
  BY <1>1, DoneForgets DEF OverlapInv
<1>3. \A v \in Withdrawals \ {w} : withdrawal'[v] = withdrawal[v]
  BY <1>1
<1>4. \/ withdrawal'[w] = withdrawal[w]
      \/ withdrawal'[w] = "completed" /\ withdrawal[w] # "none" /\ Revives(q, w)
  BY <1>1 DEF AfterPayment, Revives, OverlapInv, RevivedExist
<1>5. withdrawal[w] # "none" /\ Revives(q, w) => w \in Reach
  BY <1>1 DEF Reach, Held, Taken, Revivable, WithdrawalStatus
<1>6. Reach' \subseteq Reach
  BY <1>2, <1>3, <1>4, <1>5 DEF Reach, Held, Taken, Revivable
<1>7. RevivedExist'
  BY <1>2, <1>3, <1>4 DEF OverlapInv, RevivedExist
<1> QED
  BY <1>1, <1>2, <1>6, <1>7, QuietKeeps

LEMMA RefundKeepsCover ==
    ASSUME IsFiniteSet(Requests), OverlapInv, TypeInv', NEW q \in Requests, Refund(q)
    PROVE  OverlapInv'
<1>1. /\ Done(q) /\ UNCHANGED <<earned, amount>> /\ earned \in Nat
      /\ withdrawal \in [Withdrawals -> WithdrawalStatus]
      /\ req[q].entry \in Entries
  BY DEF Refund, FinanceLoaded, OverlapInv, TypeInv, TypeOK, FinanceHasEntry
<1>2. /\ LoadsAreEarned'
      /\ \A p \in Requests : Claims'[p] <= Claims[p]
      /\ \A p \in Requests, v \in Withdrawals : Revives(p, v)' <=> p # q /\ Revives(p, v)
  BY <1>1, DoneForgets DEF OverlapInv
<1>3. \A v \in Withdrawals : withdrawal'[v] = withdrawal[v] \/ withdrawal'[v] = "cancelled"
  <2> DEFINE e == req[q].entry
             after == AfterRefund(req[q].document, DocumentOf(e))
  <2>1. CASE ~ IsPayout(e)
    BY <2>1 DEF Refund
  <2>2. CASE IsPayout(e)
    <3>1. withdrawal' = [withdrawal EXCEPT ![e[2]] = after]
      BY <2>2 DEF Refund
    <3>2. after \in {"cancelled", withdrawal[e[2]]}
      BY <2>2 DEF AfterRefund, DocumentOf
    <3> HIDE DEF e, after
    <3> QED
      BY <1>1, <3>1, <3>2
  <2> QED
    BY <2>1, <2>2
<1>4. RevivedExist'
  BY <1>2, <1>3 DEF OverlapInv, RevivedExist
<1>5. ASSUME NEW v \in Withdrawals, v \in Reach' PROVE v \in Reach
  <2>1. withdrawal[v] # "none"
    <3>1. CASE withdrawal'[v] = withdrawal[v]
      BY <1>5, <3>1 DEF Reach, Held, Taken, Revivable
    <3>2. CASE withdrawal'[v] = "cancelled"
      BY <1>2, <1>5, <3>2 DEF Reach, Held, Taken, Revivable, OverlapInv, RevivedExist
    <3> QED
      BY <1>3, <3>1, <3>2
  <2>2. withdrawal[v] = "cancelled" => \E p \in Requests : Revives(p, v)
    BY <1>2, <1>3, <1>5 DEF Reach, Held, Taken, Revivable
  <2> QED
    BY <1>1, <2>1, <2>2 DEF Reach, Held, Taken, Revivable, WithdrawalStatus
<1>6. Reach' \subseteq Reach
  BY <1>5 DEF Reach, Held, Revivable
<1> QED
  BY <1>1, <1>2, <1>4, <1>6, QuietKeeps

LEMMA EndKeepsCover ==
    ASSUME IsFiniteSet(Requests), OverlapInv, TypeInv', NEW q \in Requests, End(q)
    PROVE  OverlapInv'
<1>1. Done(q) /\ UNCHANGED <<earned, amount, withdrawal>> /\ earned \in Nat
  BY DEF End, rows, OverlapInv, TypeInv, TypeOK
<1>2. /\ LoadsAreEarned'
      /\ \A p \in Requests : Claims'[p] <= Claims[p]
      /\ \A p \in Requests, v \in Withdrawals : Revives(p, v)' <=> p # q /\ Revives(p, v)
  BY <1>1, DoneForgets DEF OverlapInv
<1>3. RevivedExist' /\ Reach' \subseteq Reach
  BY <1>1, <1>2 DEF OverlapInv, RevivedExist, Reach, Held, Revivable
<1> QED
  BY <1>1, <1>2, <1>3, QuietKeeps

LEMMA OverlapInit == ASSUME IsFiniteSet(Requests), Init PROVE OverlapInv
<1>1. TypeInv
  BY TypeInit
<1>2. /\ earned = 0 /\ amount = [w \in Withdrawals |-> 0]
      /\ withdrawal = [w \in Withdrawals |-> "none"]
      /\ req = [q \in Requests |-> Idle]
  BY DEF Init
<1>3. AmountsAreEarned /\ LoadsAreEarned /\ RevivedExist
  BY <1>2 DEF AmountsAreEarned, LoadsAreEarned, RevivedExist, Revives, Idle
<1>4. Reach = {}
  BY <1>2 DEF Reach, Held, Taken, Revivable
<1>5. Total(amount, Reach) = 0
  BY <1>4, TotalOfNone, Zenon
<1>6. \A q \in Requests : Claims[q] = 0
  BY <1>2 DEF Claims, Idle
<1>7. Claims \in [Requests -> Nat]
  BY <1>1, <1>3, ClaimsType
<1>8. Total(Claims, Requests) = 0
  BY <1>6, <1>7, TotalOfZeros
<1>9. Cardinality(Requests) * earned = 0
  BY <1>2, FS_CardinalityType
<1> QED
  BY <1>1, <1>3, <1>5, <1>8, <1>9 DEF OverlapInv, ClaimsAreCovered

LEMMA OverlapStep ==
    ASSUME IsFiniteSet(Requests), OverlapInv, [Next]_vars
    PROVE  OverlapInv'
<1>1. TypeInv'
  BY TypeStep DEF OverlapInv
<1>2. CASE Next
  <2>1. ASSUME NEW q \in Requests, SupplierStep(q) PROVE OverlapInv'
    BY <1>1, <2>1, ReadKeepsCover, ReadWithdrawnKeepsCover, RequestWithdrawalKeepsCover
       DEF SupplierStep
  <2>2. ASSUME NEW q \in Requests, FinanceStep(q) PROVE OverlapInv'
    BY <1>1, <2>2, ReadKeepsCover, MarkPaidKeepsCover, RefundKeepsCover DEF FinanceStep
  <2> QED
    BY <1>1, <1>2, <2>1, <2>2, EarnKeepsCover, EndKeepsCover DEF Next
<1>3. CASE UNCHANGED vars
  <2>1. UNCHANGED <<earned, withdrawal, amount, req>> /\ earned \in Nat
    BY <1>3 DEF vars, OverlapInv, TypeInv, TypeOK
  <2>2. LoadsAreEarned' /\ RevivedExist' /\ Reach' = Reach /\ Claims' = Claims
    BY <2>1 DEF OverlapInv, LoadsAreEarned, RevivedExist, Revives, Reach, Held, Revivable,
                Claims, Available
  <2>3. Claims \in [Requests -> Nat]
    BY ClaimsType DEF OverlapInv
  <2> QED
    BY <1>1, <2>1, <2>2, <2>3, QuietKeeps
<1> QED
  BY <1>2, <1>3

\* However many requests overlap, the supplier takes out at most what it earned
\* once for each of them: n requests at a time overdraw no more than n times
\* (request_withdrawal, supplier_balance, apply_finance_action).
THEOREM OverdraftIsBounded ==
    ASSUME IsFiniteSet(Requests)
    PROVE  Spec => [](SumOf(Taken) <= Cardinality(Requests) * earned)
<1>1. Init => OverlapInv
  BY OverlapInit
<1>2. OverlapInv /\ [Next]_vars => OverlapInv'
  BY OverlapStep
<1>3. OverlapInv => SumOf(Taken) <= Cardinality(Requests) * earned
  <2> SUFFICES ASSUME OverlapInv PROVE SumOf(Taken) <= Cardinality(Requests) * earned
    OBVIOUS
  <2>1. /\ Total(amount, Reach) \in Nat /\ Total(amount, Held) \in Nat
        /\ Total(Claims, Requests) \in Nat
    BY SumsType DEF OverlapInv
  <2>2. Total(amount, Held) <= Total(amount, Reach)
    <3>1. amount \in [Withdrawals -> Nat] /\ Held \subseteq Reach
      BY DEF OverlapInv, TypeInv, TypeOK, Reach
    <3> QED
      BY <3>1, ReachType, TotalOfSubset
  <2>3. Cardinality(Requests) * earned \in Nat
    BY FS_CardinalityType DEF OverlapInv, TypeInv, TypeOK
  <2>4. Total(amount, Reach) + Total(Claims, Requests) <= Cardinality(Requests) * earned
    BY DEF OverlapInv, ClaimsAreCovered
  <2> QED
    BY <2>1, <2>2, <2>3, <2>4, SumsOfHeld
<1> QED
  BY <1>1, <1>2, <1>3, PTL DEF Spec

=============================================================================
