------------------------ MODULE OrderLifecycleProofs ------------------------
(***************************************************************************)
(* Theorems about OrderLifecycle.  IInv is shown to be inductive, one      *)
(* conjunct after the other; the properties of the module follow from it,  *)
(* and every step is a step of Settlement or leaves its state as it is.    *)
(***************************************************************************)
EXTENDS OrderLifecycle, ServiceProofs

----------------------------------------------------------------------------
(***************************************************************************)
(* What the shared parts of the actions do.                                *)
(***************************************************************************)
LEMMA AmountType ==
    ASSUME NEW o \in Orders
    PROVE  /\ Amount[o] \in Nat \ {0}
           /\ Buyer[o] \in Users
           /\ Kind[o] \in {"wallet", "plan", "item"}
           /\ \A t \in DOMAIN PlanQuota[o] : PlanQuota[o][t] \in Nat
BY OrdersAssumption

LEMMA AccountOfType ==
    ASSUME TypeOK, NEW o \in Orders
    PROVE  AccountOf(o) \in Account /\ AccountOf(o).txn = txn[o]
BY AmountType DEF AccountOf, Account, TypeOK

\* Booking writes the balance of the buyer and the transactions of the order.
LEMMA BooksEffect ==
    ASSUME TypeOK, NEW o \in Orders, NEW acct \in Account, Books(o, acct)
    PROVE  /\ balance' \in [Users -> Int]
           /\ txn' \in [Orders -> [Keys -> Int]]
           /\ txn'[o] = acct.txn
           /\ \A p \in Orders \ {o} : txn'[p] = txn[p]
BY AmountType DEF Books, Account, TypeOK

\* The rows a plan or an item order adds.
LEMMA GoodsEffect ==
    ASSUME TypeOK, NEW o \in Orders, NEW read, read.quota \in [QuotaTypes -> Quota],
           FulfilGoods(o, read)
    PROVE  /\ purchases' \in [Orders -> Nat]
           /\ ent' \in [Orders -> Entitlement]
           /\ plans' \in [Users -> Seq(PlanRow(Orders))]
           /\ quota' \in [Users -> [QuotaTypes -> Quota]]
           /\ xp' \in [Orders -> {"none", "order_paid", "order_refunded"}]
           /\ \A p \in Orders \ {o} :
                 /\ purchases'[p] = purchases[p] /\ ent'[p] = ent[p] /\ xp'[p] = xp[p]
                 /\ p \in ActivePlans(plans'[Buyer[p]]) => p \in ActivePlans(plans[Buyer[p]])
           /\ purchases'[o] = IF Kind[o] = "item" THEN purchases[o] + 1 ELSE purchases[o]
           /\ ent'[o].rows = IF Kind[o] = "plan" \/ (Kind[o] = "item" /\ ent[o].rows = 0)
                             THEN ent[o].rows + 1 ELSE ent[o].rows
<1> DEFINE u == Buyer[o]
<1>1. u \in Users /\ Kind[o] \in {"wallet", "plan", "item"}
  BY AmountType
<1>2. /\ purchases' \in [Orders -> Nat]
      /\ \A p \in Orders \ {o} : purchases'[p] = purchases[p]
      /\ purchases'[o] = IF Kind[o] = "item" THEN purchases[o] + 1 ELSE purchases[o]
  BY DEF FulfilGoods, TypeOK
<1>3. /\ ent' \in [Orders -> Entitlement]
      /\ \A p \in Orders \ {o} : ent'[p] = ent[p]
      /\ ent'[o].rows = IF Kind[o] = "plan" \/ (Kind[o] = "item" /\ ent[o].rows = 0)
                        THEN ent[o].rows + 1 ELSE ent[o].rows
  <2>1. ent[o] \in Entitlement
    BY DEF TypeOK
  <2>2. /\ AddEntitlement(ent[o]) \in Entitlement
        /\ AddEntitlement(ent[o]).rows = ent[o].rows + 1
    BY <2>1 DEF AddEntitlement, Entitlement
  <2>3. /\ GrantCatalogEntitlement(ent[o]) \in Entitlement
        /\ GrantCatalogEntitlement(ent[o]).rows =
              IF ent[o].rows = 0 THEN ent[o].rows + 1 ELSE ent[o].rows
    BY <2>1, <2>2 DEF GrantCatalogEntitlement, Entitlement
  <2>4. ent' = [ent EXCEPT ![o] =
                   IF Kind[o] = "item" THEN GrantCatalogEntitlement(ent[o])
                   ELSE IF Kind[o] = "plan" THEN AddEntitlement(ent[o]) ELSE ent[o]]
    BY DEF FulfilGoods
  <2>5. QED
    BY <1>1, <2>1, <2>2, <2>3, <2>4 DEF TypeOK
<1>4. /\ plans' \in [Users -> Seq(PlanRow(Orders))]
      /\ \A v \in Users : ActivePlans(plans'[v]) \subseteq ActivePlans(plans[v]) \cup {o}
  <2>1. plans \in [Users -> Seq(PlanRow(Orders))]
    BY DEF TypeOK, PlanRow
  <2> DEFINE started == ActivatePlan(plans[u], read.current, o)
  <2>2. /\ started \in Seq(PlanRow(Orders))
        /\ ActivePlans(started) \subseteq ActivePlans(plans[u]) \cup {o}
    BY <1>1, <2>1, ActivatePlanEffect
  <2>3. plans' = IF Kind[o] = "plan" THEN [plans EXCEPT ![u] = started] ELSE plans
    BY DEF FulfilGoods
  <2> HIDE DEF started
  <2>4. QED
    BY <1>1, <2>1, <2>2, <2>3
<1>5. quota' \in [Users -> [QuotaTypes -> Quota]]
  <2>1. quota \in [Users -> [QuotaTypes -> Quota]]
    BY DEF TypeOK
  <2>2. quota[u] \in [QuotaTypes -> Quota]
    BY <1>1, <2>1
  <2>3. /\ ApplyPlanQuotas(quota[u], read.quota, PlanQuota[o]) \in [QuotaTypes -> Quota]
        /\ IncrementEmployeeCount(quota[u]) \in [QuotaTypes -> Quota]
    BY <2>2, AmountType, QuotaTypesKept
  <2>4. \E q \in [QuotaTypes -> Quota] : quota' = [quota EXCEPT ![u] = q]
    BY <2>2, <2>3 DEF FulfilGoods
  <2>5. QED
    BY <1>1, <2>1, <2>4
<1>6. /\ xp' \in [Orders -> {"none", "order_paid", "order_refunded"}]
      /\ \A p \in Orders \ {o} : xp'[p] = xp[p]
  BY DEF FulfilGoods, TypeOK
<1>7. QED
  BY <1>2, <1>3, <1>4, <1>5, <1>6, AmountType

(***************************************************************************)
(* A handler that finds the order paid, whichever row it has loaded.       *)
(***************************************************************************)
Paying(o, row) == \E by \in Notices \cup {"poll"} : ProcessPaid(o, row, by)

\* What a fulfilment knows of the plans and quotas is what it read of them.
LEMMA ReadEffect ==
    ASSUME TypeOK, NEW o \in Orders, NEW row, NEW by, NEW read, FulfilAs(o, row, by, read)
    PROVE  /\ read.quota \in [QuotaTypes -> Quota]
           /\ IF RowFree(o)
              THEN read.current = CurrentPlan(plans[Buyer[o]])
              ELSE read = plansRead[o]
BY AmountType DEF FulfilAs, PlansNow, PlansRead, RowFree, TypeOK

LEMMA ProcessPaidEffect ==
    ASSUME TypeOK, NEW o \in Orders, NEW row \in OrderRow, Paying(o, row)
    PROVE  /\ order' \in [Orders -> OrderRow]
           /\ balance' \in [Users -> Int]
           /\ txn' \in [Orders -> [Keys -> Int]]
           /\ purchases' \in [Orders -> Nat]
           /\ ent' \in [Orders -> Entitlement]
           /\ plans' \in [Users -> Seq(PlanRow(Orders))]
           /\ quota' \in [Users -> [QuotaTypes -> Quota]]
           /\ xp' \in [Orders -> {"none", "order_paid", "order_refunded"}]
           /\ order'[o].fulfilled
           /\ \A n \in 1..MaxRefunds : txn'[o][RefundKey(n)] = txn[o][RefundKey(n)]
           /\ \A p \in Orders \ {o} :
                 /\ order'[p] = order[p] /\ txn'[p] = txn[p]
                 /\ purchases'[p] = purchases[p] /\ ent'[p] = ent[p] /\ xp'[p] = xp[p]
                 /\ p \in ActivePlans(plans'[Buyer[p]]) => p \in ActivePlans(plans[Buyer[p]])
           /\ row.fulfilled =>
                 /\ UNCHANGED <<money, goods>>
           /\ ~row.fulfilled =>
                 /\ purchases'[o] = IF Kind[o] = "item"
                                    THEN purchases[o] + 1 ELSE purchases[o]
                 /\ ent'[o].rows =
                       IF Kind[o] = "plan" \/ (Kind[o] = "item" /\ ent[o].rows = 0)
                       THEN ent[o].rows + 1 ELSE ent[o].rows
                 /\ Booked(txn'[o], RechargeKey)
                       <=> Kind[o] = "wallet" \/ Booked(txn[o], RechargeKey)
<1>1. CASE ~row.fulfilled /\ \E by, read : FulfilAs(o, row, by, read)
  <2>0. PICK by, read : FulfilAs(o, row, by, read)
    BY <1>1
  <2>1. /\ order' = [order EXCEPT ![o] = FulfilledRow(row)]
        /\ ~row.fulfilled
        /\ Books(o, FulfilAccount(AccountOf(o), Kind[o], Amount[o]))
        /\ FulfilGoods(o, read)
        /\ read.quota \in [QuotaTypes -> Quota]
    BY <1>1, <2>0, ReadEffect DEF FulfilAs
  <2>2. FulfilledRow(row) \in OrderRow /\ FulfilledRow(row).fulfilled
    BY DEF FulfilledRow, OrderRow, Statuses
  <2>3. order' \in [Orders -> OrderRow] /\ order'[o] = FulfilledRow(row)
        /\ \A p \in Orders \ {o} : order'[p] = order[p]
    BY <2>1, <2>2 DEF TypeOK
  <2> DEFINE acct == FulfilAccount(AccountOf(o), Kind[o], Amount[o])
  <2>4. /\ acct \in Account
        /\ \A n \in 1..MaxRefunds : acct.txn[RefundKey(n)] = txn[o][RefundKey(n)]
        /\ Booked(acct.txn, RechargeKey)
              <=> Kind[o] = "wallet" \/ Booked(txn[o], RechargeKey)
    <3> DEFINE before == AccountOf(o)
    <3>1. before \in Account /\ before.txn = txn[o]
      BY AccountOfType
    <3>2. Kind[o] \in {"wallet", "plan", "item"} /\ Amount[o] \in Nat \ {0}
      BY AmountType
    <3> HIDE DEF before
    <3>3. /\ FulfilAccount(before, Kind[o], Amount[o]) \in Account
          /\ \A n \in 1..MaxRefunds :
                FulfilAccount(before, Kind[o], Amount[o]).txn[RefundKey(n)]
                    = before.txn[RefundKey(n)]
          /\ Booked(FulfilAccount(before, Kind[o], Amount[o]).txn, RechargeKey)
                <=> (Kind[o] = "wallet" \/ Booked(before.txn, RechargeKey))
      BY <3>1, <3>2, FulfilAccountEffect
    <3>4. Booked(before.txn, RechargeKey) <=> Booked(txn[o], RechargeKey)
      BY <3>1
    <3>5. acct = FulfilAccount(before, Kind[o], Amount[o])
      BY DEF before
    <3> HIDE DEF acct
    <3>6. QED
      BY <3>1, <3>3, <3>4, <3>5
  <2>5. Books(o, acct)
    BY <2>1
  <2> HIDE DEF acct
  <2>6. /\ balance' \in [Users -> Int]
        /\ txn' \in [Orders -> [Keys -> Int]]
        /\ txn'[o] = acct.txn
        /\ \A p \in Orders \ {o} : txn'[p] = txn[p]
    BY <2>4, <2>5, BooksEffect
  <2>7. QED
    BY <2>1, <2>2, <2>3, <2>4, <2>6, GoodsEffect
<1>2. CASE AlreadyFulfilled(o, row)
  <2>1. /\ order' = [order EXCEPT ![o] = PaidRow(row)]
        /\ row.fulfilled
        /\ UNCHANGED <<balance, txn, purchases, ent, plans, quota, xp>>
    BY <1>2 DEF AlreadyFulfilled, money, goods
  <2>2. PaidRow(row) \in OrderRow /\ PaidRow(row).fulfilled
    <3>1. PaidRow(row) = [status |-> "paid", fulfilled |-> row.fulfilled,
                          refunded |-> row.refunded]
      BY DEF PaidRow, OrderRow
    <3>2. QED
      BY <2>1, <3>1 DEF OrderRow, Statuses
  <2>3. order' \in [Orders -> OrderRow] /\ order'[o] = PaidRow(row)
        /\ \A p \in Orders \ {o} : order'[p] = order[p]
    BY <2>1, <2>2 DEF TypeOK
  <2>4. QED
    BY <2>1, <2>2, <2>3 DEF TypeOK, PlanRow, money, goods
<1>3. QED
  BY <1>1, <1>2 DEF Paying, ProcessPaid, Fulfil

(***************************************************************************)
(* The decision on a refund request, and the tokens of the backfill.       *)
(***************************************************************************)
\* Reviewing a request changes its status and nothing else of any request.
LEMMA ReviewedRefund ==
    ASSUME TypeOK, NEW o \in Orders, NEW i \in DOMAIN refund[o],
           NEW st \in {"approved", "rejected"},
           refund' = [refund EXCEPT ![o][i].status = st]
    PROVE  /\ refund' \in [Orders -> Seq(RefundRow)]
           /\ DOMAIN refund'[o] = DOMAIN refund[o]
           /\ \A p \in Orders \ {o} : refund'[p] = refund[p]
           /\ refund'[o][i] = [status |-> st, amount |-> refund[o][i].amount]
           /\ \A j \in DOMAIN refund[o] \ {i} : refund'[o][j] = refund[o][j]
           /\ refund[o][i] \in RefundRow
<1> DEFINE rows == [refund[o] EXCEPT ![i].status = st]
<1>1. refund[o] \in Seq(RefundRow) /\ DOMAIN refund[o] = 1..Len(refund[o])
      /\ Len(refund[o]) \in Nat
  BY DEF TypeOK
<1>2. \A j \in DOMAIN refund[o] : refund[o][j] \in RefundRow
  BY <1>1
<1>3. rows[i] = [status |-> st, amount |-> refund[o][i].amount]
  BY <1>2 DEF RefundRow
<1>4. rows[i] \in RefundRow
  BY <1>2, <1>3 DEF RefundRow
<1>5. /\ DOMAIN rows = DOMAIN refund[o]
      /\ \A j \in DOMAIN refund[o] \ {i} : rows[j] = refund[o][j]
      /\ rows = [j \in DOMAIN refund[o] |-> rows[j]]
  OBVIOUS
<1>6. refund' = [refund EXCEPT ![o] = rows]
  OBVIOUS
<1> HIDE DEF rows
<1>7. rows \in [1..Len(refund[o]) -> RefundRow]
  BY <1>1, <1>2, <1>4, <1>5
<1>8. rows \in Seq(RefundRow)
  <2> DEFINE n == Len(refund[o])
  <2>1. n \in Nat /\ rows \in [1..n -> RefundRow]
    BY <1>1, <1>7
  <2> HIDE DEF n
  <2>2. QED
    BY <2>1
<1>9. refund'[o] = rows /\ \A p \in Orders \ {o} : refund'[p] = refund[p]
  BY <1>6 DEF TypeOK
<1>10. refund' \in [Orders -> Seq(RefundRow)]
  BY <1>6, <1>8 DEF TypeOK
<1>11. QED
  BY <1>2, <1>3, <1>5, <1>9, <1>10

LEMMA ApproveEffect ==
    ASSUME TypeOK, NEW o \in Orders, NEW i \in 1..MaxRefunds,
           ReviewApprove(o, i)
    PROVE  /\ order' \in [Orders -> OrderRow]
           /\ balance' \in [Users -> Int]
           /\ txn' \in [Orders -> [Keys -> Int]]
           /\ ent' \in [Orders -> Entitlement]
           /\ plans' \in [Users -> Seq(PlanRow(Orders))]
           /\ quota' \in [Users -> [QuotaTypes -> Quota]]
           /\ xp' \in [Orders -> {"none", "order_paid", "order_refunded"}]
           /\ order'[o].fulfilled = order[o].fulfilled
           /\ ent'[o].rows = ent[o].rows
           /\ \A v \in Users : ActiveRows(plans'[v]) \subseteq ActiveRows(plans[v])
           /\ ~ent'[o].active /\ xp'[o] # "order_paid"
           /\ o \notin ActivePlans(plans'[Buyer[o]])
           /\ Booked(txn'[o], RechargeKey) <=> Booked(txn[o], RechargeKey)
           /\ Booked(txn'[o], ExternalKey) <=> Booked(txn[o], ExternalKey)
           /\ \A n \in (1..MaxRefunds) \ {i} : txn'[o][RefundKey(n)] = txn[o][RefundKey(n)]
           /\ txn'[o][RefundKey(i)] \in {txn[o][RefundKey(i)], refund[o][i].amount}
           /\ \A p \in Orders \ {o} :
                 /\ order'[p] = order[p] /\ txn'[p] = txn[p]
                 /\ ent'[p] = ent[p] /\ xp'[p] = xp[p]
                 /\ p \in ActivePlans(plans'[Buyer[p]]) => p \in ActivePlans(plans[Buyer[p]])
<1> DEFINE u == Buyer[o]
           amount == refund[o][i].amount
<1>1. u \in Users /\ Kind[o] \in {"wallet", "plan", "item"} /\ Amount[o] \in Nat
  BY AmountType
<1>2. amount \in Nat
  <2>1. i \in DOMAIN refund[o] /\ refund[o] \in Seq(RefundRow)
    BY DEF ReviewApprove, TypeOK
  <2>2. refund[o][i] \in RefundRow
    BY <2>1
  <2>3. QED
    BY <2>2 DEF RefundRow
<1>3. /\ order' \in [Orders -> OrderRow]
      /\ order'[o].fulfilled = order[o].fulfilled
      /\ \A p \in Orders \ {o} : order'[p] = order[p]
  <2>1. order[o] \in OrderRow
    BY DEF TypeOK
  <2>2. order' = [order EXCEPT ![o] = RefundedRow(o, amount)]
    BY DEF ReviewApprove
  <2>3. RefundedRow(o, amount) =
          [status |-> IF order[o].refunded + amount >= Amount[o]
                      THEN "refunded" ELSE "partial_refunded",
           fulfilled |-> order[o].fulfilled,
           refunded |-> order[o].refunded + amount]
    BY <2>1 DEF RefundedRow, OrderRow
  <2> HIDE DEF amount
  <2>4. /\ RefundedRow(o, amount) \in OrderRow
        /\ RefundedRow(o, amount).fulfilled = order[o].fulfilled
    BY <1>2, <2>1, <2>3 DEF OrderRow, Statuses
  <2>5. QED
    BY <2>2, <2>4 DEF TypeOK
<1>4. /\ balance' \in [Users -> Int]
      /\ txn' \in [Orders -> [Keys -> Int]]
      /\ Booked(txn'[o], RechargeKey) <=> Booked(txn[o], RechargeKey)
      /\ Booked(txn'[o], ExternalKey) <=> Booked(txn[o], ExternalKey)
      /\ \A n \in (1..MaxRefunds) \ {i} : txn'[o][RefundKey(n)] = txn[o][RefundKey(n)]
      /\ txn'[o][RefundKey(i)] \in {txn[o][RefundKey(i)], amount}
      /\ \A p \in Orders \ {o} : txn'[p] = txn[p]
  <2> DEFINE before == AccountOf(o)
             after == RefundAccount(before, Kind[o], Amount[o], amount, i)
  <2>1. before \in Account /\ before.txn = txn[o]
    BY AccountOfType
  <2>2. Books(o, after)
    BY DEF ReviewApprove
  <2> HIDE DEF before, amount
  <2>3. /\ after \in Account
        /\ \A n \in (1..MaxRefunds) \ {i} : after.txn[RefundKey(n)] = before.txn[RefundKey(n)]
        /\ after.txn[RefundKey(i)] \in {before.txn[RefundKey(i)], amount}
        /\ Booked(after.txn, RechargeKey) <=> Booked(before.txn, RechargeKey)
        /\ Booked(after.txn, ExternalKey) <=> Booked(before.txn, ExternalKey)
    <3> DEFINE kind == Kind[o]
               paid == Amount[o]
               key == RefundKey(i)
    <3>1. kind \in {"wallet", "plan", "item"} /\ paid \in Nat /\ key = RefundKey(i)
      BY <1>1
    <3>2. after = RefundAccount(before, kind, paid, amount, i)
      OBVIOUS
    <3> HIDE DEF kind, paid, key, after
    <3>3. amount \in Nat /\ i \in 1..MaxRefunds /\ before \in Account
      BY <1>2, <2>1
    <3>4. after \in Account
      BY <3>1, <3>2, <3>3, RefundAccountEffect
    <3>5. \A k \in Keys : k # key /\ k # TokenRevokeKey => after.txn[k] = before.txn[k]
      BY <3>1, <3>2, <3>3, RefundAccountEffect
    <3>6. after.txn[key] \in {before.txn[key], amount}
      BY <3>1, <3>2, <3>3, RefundAccountEffect
    <3>7. QED
      BY <3>1, <3>4, <3>5, <3>6, KeysDiffer DEF Booked
  <2> HIDE DEF after
  <2>4. /\ balance' \in [Users -> Int]
        /\ txn' \in [Orders -> [Keys -> Int]]
        /\ txn'[o] = after.txn
        /\ \A p \in Orders \ {o} : txn'[p] = txn[p]
    BY <2>2, <2>3, BooksEffect
  <2>5. QED
    BY <2>1, <2>3, <2>4
<1>5. RevokeOrderEntitlements(o)
  BY DEF ReviewApprove
<1>6. /\ ent' \in [Orders -> Entitlement]
      /\ ent'[o].rows = ent[o].rows /\ ~ent'[o].active
      /\ \A p \in Orders \ {o} : ent'[p] = ent[p]
  <2>1. ent[o] \in Entitlement
    BY DEF TypeOK
  <2>2. RevokeEntitlement(ent[o]) = [rows |-> ent[o].rows, active |-> FALSE]
    BY <2>1 DEF RevokeEntitlement, Entitlement
  <2>3. ent' = [ent EXCEPT ![o] = RevokeEntitlement(ent[o])]
    BY <1>5 DEF RevokeOrderEntitlements
  <2>4. QED
    BY <2>1, <2>2, <2>3 DEF TypeOK, Entitlement
<1>7. /\ plans' \in [Users -> Seq(PlanRow(Orders))]
      /\ \A v \in Users : ActiveRows(plans'[v]) \subseteq ActiveRows(plans[v])
      /\ \A v \in Users : ActivePlans(plans'[v]) \subseteq ActivePlans(plans[v])
      /\ o \notin ActivePlans(plans'[u])
  <2>1. plans \in [Users -> Seq(PlanRow(Orders))]
    BY DEF TypeOK, PlanRow
  <2> DEFINE revoked == DeactivatePlan(plans[u], o)
  <2>2. /\ revoked \in Seq(PlanRow(Orders))
        /\ ActiveRows(revoked) \subseteq ActiveRows(plans[u])
        /\ ActivePlans(revoked) = ActivePlans(plans[u]) \ {o}
    BY <1>1, <2>1, DeactivatePlanEffect
  <2>3. plans' = [plans EXCEPT ![u] = revoked]
    BY <1>5 DEF RevokeOrderEntitlements
  <2> HIDE DEF revoked
  <2>4. QED
    BY <1>1, <2>1, <2>2, <2>3
<1>8. quota' \in [Users -> [QuotaTypes -> Quota]]
  <2>1. quota \in [Users -> [QuotaTypes -> Quota]] /\ quota[u] \in [QuotaTypes -> Quota]
    BY <1>1 DEF TypeOK
  <2>2. ClampQuotas(quota[u]) \in [QuotaTypes -> Quota]
    BY <2>1, QuotaTypesKept
  <2>3. quota' = quota \/ quota' = [quota EXCEPT ![u] = ClampQuotas(quota[u])]
    BY <1>5 DEF RevokeOrderEntitlements
  <2>4. QED
    BY <2>1, <2>2, <2>3
<1>9. /\ xp' \in [Orders -> {"none", "order_paid", "order_refunded"}]
      /\ xp'[o] # "order_paid"
      /\ \A p \in Orders \ {o} : xp'[p] = xp[p]
  BY DEF ReviewApprove, TypeOK
<1>10. \A p \in Orders : p \in ActivePlans(plans'[Buyer[p]]) => p \in ActivePlans(plans[Buyer[p]])
  BY <1>7, AmountType
<1>11. QED
  BY <1>3, <1>4, <1>6, <1>7, <1>8, <1>9, <1>10

LEMMA BackfillEffect ==
    ASSUME TypeOK, NEW o \in Orders, BackfillGrants(o)
    PROVE  /\ balance' \in [Users -> Int]
           /\ txn' \in [Orders -> [Keys -> Int]]
           /\ \A p \in Orders, k \in Keys :
                 k # TokenKey \/ p # o => txn'[p][k] = txn[p][k]
<1> DEFINE before == AccountOf(o)
           after == GrantTokens(before, Amount[o])
<1>1. before \in Account /\ before.txn = txn[o]
  BY AccountOfType
<1>2. Books(o, after)
  BY DEF BackfillGrants
<1> HIDE DEF before
<1>3. /\ after \in Account
      /\ \A k \in Keys : k # TokenKey => after.txn[k] = before.txn[k]
  BY <1>1, AmountType, GrantTokensEffect
<1> HIDE DEF after
<1>4. QED
  BY <1>1, <1>2, <1>3, BooksEffect

LEMMA HalfwayEffect ==
    ASSUME TypeOK, NEW o \in Orders, ReconcileStopsHalfway(o)
    PROVE  /\ balance' \in [Users -> Int]
           /\ txn' \in [Orders -> [Keys -> Int]]
           /\ \A p \in Orders \ {o} : txn'[p] = txn[p]
           /\ \A n \in 1..MaxRefunds : txn'[o][RefundKey(n)] = txn[o][RefundKey(n)]
<1> DEFINE before == AccountOf(o)
           after == PayAndSpend(before, Amount[o])
<1>1. before \in Account /\ before.txn = txn[o]
  BY AccountOfType
<1>2. Books(o, after)
  BY DEF ReconcileStopsHalfway
<1> HIDE DEF before
<1>3. /\ after \in Account
      /\ \A k \in Keys \ {ExternalKey, SpendKey} : after.txn[k] = before.txn[k]
  BY <1>1, AmountType, PayAndSpendEffect
<1> HIDE DEF after
<1>4. QED
  BY <1>1, <1>2, <1>3, BooksEffect, KeysDiffer

----------------------------------------------------------------------------
(***************************************************************************)
(* The steps by what they do to the traces of an order: those that process *)
(* a payment, that stop halfway through one, the backfill, the three of a  *)
(* refund, and the quiet ones, which book, grant and take back nothing.    *)
(***************************************************************************)
Processes(o, row) ==
    /\ Paying(o, row)
    /\ row = order[o] \/ row = view[o]
    /\ Paid(o)
    /\ UNCHANGED <<refund, sweep, backfill, trade, exceptions>>
    /\ \A p \in Orders :
          /\ view'[p] \in {view[p], NoRow}
          /\ notify'[p] \subseteq notify[p]
          /\ busy'[p] \subseteq busy[p]

\* What a row says besides its status.
TakesRow(new, row) == new.fulfilled = row.fulfilled /\ new.refunded = row.refunded

Quiet ==
    /\ UNCHANGED <<refund, txn, purchases, ent, plans, xp>>
    /\ exceptions <= exceptions'
    /\ \A p \in Orders :
          /\ sweep[p] = NoRow => order'[p].fulfilled = order[p].fulfilled
          /\ \/ TakesRow(order'[p], order[p])
             \/ sweep[p] # NoRow /\ TakesRow(order'[p], sweep[p])
          /\ sweep'[p] \in {sweep[p], NoRow} \/ (p \in Expirable /\ sweep'[p] = order[p])
          /\ view'[p] \in {view[p], NoRow} \/ (p \in Polled /\ view'[p] = order[p])
          /\ p \in backfill' => p \in backfill \/ order[p].fulfilled
          /\ Paid(p) => Paid(p)'
          /\ notify'[p] # {} => notify[p] # {} \/ Paid(p)'
          /\ busy'[p] # {} => busy[p] # {} \/ notify[p] # {}
    /\ \/ \A p \in Orders : Paid(p)' = Paid(p)
       \/ \E o \in Orders : BuyerPays(o)
    /\ \/ UNCHANGED plansRead
       \/ \E o \in Orders, by \in Notices \cup {"poll"} : ReadsPlans(o, by)

LEMMA QuietOrder ==
    ASSUME TypeOK, NEW o \in Orders,
           \/ Checkout(o) \/ CancelPending(o) \/ ProviderOpens(o) \/ ProviderRefuses(o)
           \/ BuyerPays(o) \/ TradeFinishes(o)
           \/ PollReads(o) \/ ReconcileFindsNothing(o) \/ MarkExpires(o)
           \/ \E by \in Notices \cup {"poll"} : ReadsPlans(o, by)
    PROVE  Quiet
<1> USE DEF Quiet, TakesRow, Paid, PaidTrades, TypeOK, OrderRow, jobs, provider, handler, money,
            goods, faults
<1>1. CASE Checkout(o)
  BY <1>1 DEF Checkout
<1>2. CASE CancelPending(o)
  BY <1>2 DEF CancelPending
<1>3. CASE ProviderOpens(o)
  BY <1>3 DEF ProviderOpens
<1>4. CASE ProviderRefuses(o)
  BY <1>4 DEF ProviderRefuses
<1>5. CASE BuyerPays(o)
  <2>1. /\ UNCHANGED <<order, refund, sweep, view, backfill, busy, plansRead, txn, purchases,
                       ent, plans, xp, exceptions>>
        /\ exceptions \in Nat
    BY <1>5 DEF BuyerPays
  <2>2. \A p \in Orders : (Paid(p) => Paid(p)') /\ (notify'[p] # {} => notify[p] # {} \/ Paid(p)')
    BY <1>5 DEF BuyerPays
  <2>3. \E q \in Orders : BuyerPays(q)
    BY <1>5
  <2> HIDE DEF TypeOK, OrderRow, PaidTrades, Paid, TakesRow
  <2>4. exceptions <= exceptions'
    BY <2>1
  <2>5. \A p \in Orders : TakesRow(order'[p], order[p])
    BY <2>1 DEF TakesRow
  <2>6. QED
    BY <2>1, <2>2, <2>3, <2>4, <2>5
<1>6. CASE TradeFinishes(o)
  BY <1>6 DEF TradeFinishes
<1>7. CASE PollReads(o)
  BY <1>7 DEF PollReads
<1>8. CASE ReconcileFindsNothing(o)
  BY <1>8 DEF ReconcileFindsNothing
<1>9. CASE MarkExpires(o)
  BY <1>9 DEF MarkExpires
<1>10. ASSUME NEW by \in Notices \cup {"poll"}, ReadsPlans(o, by)
       PROVE  Quiet
  <2>1. /\ UNCHANGED <<order, refund, sweep, view, backfill, trade, notify, busy, txn, purchases,
                       ent, plans, xp, exceptions>>
        /\ exceptions \in Nat
    BY <1>10 DEF ReadsPlans
  <2>2. \E q \in Orders, b \in Notices \cup {"poll"} : ReadsPlans(q, b)
    BY <1>10
  <2> HIDE DEF TypeOK, OrderRow, PaidTrades
  <2>3. QED
    BY <2>1, <2>2
<1>11. QED
  BY <1>1, <1>2, <1>3, <1>4, <1>5, <1>6, <1>7, <1>8, <1>9, <1>10

LEMMA QuietNotice ==
    ASSUME TypeOK, NEW o \in Orders, NEW n \in Notices,
           \/ AlipayMark(o, n) \/ AlipayDuplicate(o, n)
           \/ AlipayThrows(o, n) \/ AlipayLosesMark(o, n)
    PROVE  Quiet
<1> USE DEF Quiet, TakesRow, Paid, TypeOK, jobs, provider, handler, money, goods, faults
<1>1. CASE AlipayMark(o, n)
  BY <1>1 DEF AlipayMark
<1>2. CASE AlipayDuplicate(o, n)
  BY <1>2 DEF AlipayDuplicate
<1>3. CASE AlipayThrows(o, n)
  BY <1>3 DEF AlipayThrows
<1>4. CASE AlipayLosesMark(o, n)
  BY <1>4 DEF AlipayLosesMark
<1>5. QED
  BY <1>1, <1>2, <1>3, <1>4

LEMMA QuietJob ==
    ASSUME TypeOK, SweepReads \/ SweepWrites \/ BackfillReads
    PROVE  Quiet
<1> USE DEF Quiet, TakesRow, Paid, TypeOK, jobs, provider, handler, money, goods, faults
<1>1. CASE SweepReads
  BY <1>1 DEF SweepReads, NoSweep, Expired
<1>2. CASE SweepWrites
  BY <1>2 DEF SweepWrites, NoSweep, OrderRow
<1>3. CASE BackfillReads
  BY <1>3 DEF BackfillReads, LacksTokens
<1>4. QED
  BY <1>1, <1>2, <1>3

LEMMA QuietUser ==
    ASSUME TypeOK, NEW u \in Users, UserNext(u)
    PROVE  Quiet
<1> USE DEF Quiet, TakesRow, Paid, TypeOK, jobs, provider, handler, money, goods, faults
<1>1. CASE Spend(u)
  BY <1>1 DEF Spend
<1>2. ASSUME NEW t \in QuotaTypes, ConsumeQuota(u, t) \/ ResetQuota(u, t)
      PROVE  Quiet
  BY <1>2 DEF ConsumeQuota, ResetQuota
<1>3. QED
  BY <1>1, <1>2 DEF UserNext

LEMMA QuietStutter ==
    ASSUME TypeOK, UNCHANGED vars
    PROVE  Quiet
BY DEF Quiet, TakesRow, Paid, TypeOK, vars, jobs, provider, handler, money, goods, faults

LEMMA ProcessStep ==
    ASSUME TypeOK, PaymentTraces, NEW o \in Orders,
           \/ \E n \in Notices : WechatNotify(o, n) \/ AlipayProcess(o, n)
           \/ Reconcile(o)
    PROVE  \E row \in OrderRow : Processes(o, row)
<1> USE DEF Processes, Paying, TypeOK, jobs, provider, handler, faults
<1>1. ASSUME NEW n \in Notices, WechatNotify(o, n)
      PROVE  Processes(o, order[o])
  BY <1>1 DEF WechatNotify, Answer, PaymentTraces
<1>2. ASSUME NEW n \in Notices, AlipayProcess(o, n)
      PROVE  Processes(o, order[o])
  BY <1>2 DEF AlipayProcess, Answer, PaymentTraces
<1>3. ASSUME Reconcile(o)
      PROVE  Processes(o, view[o])
  BY <1>3 DEF Reconcile, Paid
<1>4. order[o] \in OrderRow /\ (Reconcile(o) => view[o] \in OrderRow)
  BY DEF Reconcile
<1>5. QED
  BY <1>1, <1>2, <1>3, <1>4

\* Every step is of one of the kinds.
LEMMA StepKinds ==
    ASSUME TypeOK, PaymentTraces, [Next]_vars
    PROVE  \/ \E o \in Orders, row \in OrderRow : Processes(o, row)
           \/ \E o \in Orders :
                 ReconcileStopsHalfway(o) \/ BackfillGrants(o) \/ RefundApply(o)
           \/ \E o \in Orders, i \in 1..MaxRefunds : ReviewNext(o, i)
           \/ Quiet
<1>1. ASSUME NEW o \in Orders,
             \/ BuyerNext(o) \/ ProviderNext(o) \/ PollNext(o) \/ MarkExpires(o)
             \/ \E by \in Notices \cup {"poll"} : ReadsPlans(o, by)
      PROVE  \/ \E row \in OrderRow : Processes(o, row)
             \/ ReconcileStopsHalfway(o) \/ RefundApply(o)
             \/ Quiet
  BY <1>1, QuietOrder, ProcessStep DEF BuyerNext, ProviderNext, PollNext
<1>2. ASSUME NEW o \in Orders, NEW n \in Notices, NotifyNext(o, n)
      PROVE  (\E row \in OrderRow : Processes(o, row)) \/ Quiet
  BY <1>2, QuietNotice, ProcessStep DEF NotifyNext
<1>3. QED
  BY <1>1, <1>2, QuietJob, QuietUser, QuietStutter DEF Next

----------------------------------------------------------------------------
(***************************************************************************)
(* The conjuncts of IInv.                                                  *)
(***************************************************************************)
\* A new status keeps the row a row.
LEMMA StatusSet ==
    ASSUME TypeOK, NEW o \in Orders, NEW st \in Statuses,
           order' = [order EXCEPT ![o].status = st]
    PROVE  order' \in [Orders -> OrderRow]
<1> DEFINE row == [status |-> st, fulfilled |-> order[o].fulfilled,
                   refunded |-> order[o].refunded]
<1>1. order[o] \in OrderRow
  BY DEF TypeOK
<1>2. row \in OrderRow
  BY <1>1 DEF OrderRow
<1>3. [order[o] EXCEPT !.status = st] = row
  BY <1>1 DEF OrderRow
<1>4. order' = [order EXCEPT ![o] = row]
  BY <1>3
<1>5. QED
  BY <1>2, <1>4 DEF TypeOK

LEMMA TypeOrder ==
    ASSUME TypeOK, NEW o \in Orders,
           \/ Checkout(o) \/ CancelPending(o) \/ ProviderOpens(o) \/ ProviderRefuses(o)
           \/ BuyerPays(o) \/ TradeFinishes(o)
           \/ PollReads(o) \/ ReconcileFindsNothing(o) \/ MarkExpires(o)
           \/ RefundApply(o) \/ BackfillGrants(o)
           \/ \E by \in Notices \cup {"poll"} : ReadsPlans(o, by)
    PROVE  TypeOK'
<1> USE DEF TypeOK, TradeStates, Notices, jobs, provider, handler, money,
            goods, faults
<1>1. CASE Checkout(o)
  <2>1. order' \in [Orders -> OrderRow]
    BY <1>1, StatusSet DEF Checkout, Statuses
  <2>2. QED
    BY <1>1, <2>1 DEF Checkout
<1>2. CASE CancelPending(o)
  <2>1. order' \in [Orders -> OrderRow]
    BY <1>2, StatusSet DEF CancelPending, Statuses
  <2>2. QED
    BY <1>2, <2>1 DEF CancelPending
<1>3. CASE ProviderOpens(o)
  <2>1. order' \in [Orders -> OrderRow]
    BY <1>3, StatusSet DEF ProviderOpens, Statuses
  <2>2. QED
    BY <1>3, <2>1 DEF ProviderOpens
<1>4. CASE ProviderRefuses(o)
  <2>1. order' \in [Orders -> OrderRow]
    BY <1>4, StatusSet DEF ProviderRefuses, Statuses
  <2>2. QED
    BY <1>4, <2>1 DEF ProviderRefuses
<1>5. CASE BuyerPays(o)
  BY <1>5 DEF BuyerPays
<1>6. CASE TradeFinishes(o)
  BY <1>6 DEF TradeFinishes
<1>7. CASE PollReads(o)
  BY <1>7 DEF PollReads
<1>8. CASE ReconcileFindsNothing(o)
  BY <1>8 DEF ReconcileFindsNothing
<1>9. CASE MarkExpires(o)
  BY <1>9 DEF MarkExpires
<1>10. CASE RefundApply(o)
  <2> DEFINE asked == [status |-> "pending", amount |-> Refundable(o)]
  <2>1. /\ refund' = [refund EXCEPT ![o] = Append(refund[o], asked)]
        /\ Refundable(o) > 0
    BY <1>10 DEF RefundApply, OpensRefund
  <2>2. asked \in RefundRow
    BY <2>1, AmountType DEF Refundable, RefundRow, OrderRow
  <2> HIDE DEF asked
  <2>3. Append(refund[o], asked) \in Seq(RefundRow)
    BY <2>2
  <2>4. order' \in [Orders -> OrderRow]
    BY <1>10, StatusSet DEF RefundApply, OpensRefund, Statuses
  <2>5. refund' \in [Orders -> Seq(RefundRow)]
    BY <2>1, <2>3
  <2>6. QED
    BY <1>10, <2>4, <2>5 DEF RefundApply, OpensRefund
<1>11. CASE BackfillGrants(o)
  BY <1>11, BackfillEffect DEF BackfillGrants
<1>12. ASSUME NEW by \in Notices \cup {"poll"}, ReadsPlans(o, by)
       PROVE  TypeOK'
  <2>1. PlansNow(o, by) \in PlansRead
    <3>1. CurrentPlan(plans[Buyer[o]]) \subseteq Nat
      <4>1. plans[Buyer[o]] \in Seq([order : Orders, active : BOOLEAN])
        BY AmountType
      <4>2. QED
        BY <4>1 DEF CurrentPlan
    <3>2. quota[Buyer[o]] \in [QuotaTypes -> Quota]
      BY AmountType
    <3>3. QED
      BY <3>1, <3>2 DEF PlansNow, PlansRead
  <2>2. QED
    BY <1>12, <2>1 DEF ReadsPlans
<1>13. QED
  BY <1>1, <1>2, <1>3, <1>4, <1>5, <1>6, <1>7, <1>8, <1>9, <1>10, <1>11, <1>12

\* What a handler or a review writes has its type.
Written ==
    /\ order \in [Orders -> OrderRow]
    /\ balance \in [Users -> Int]
    /\ txn \in [Orders -> [Keys -> Int]]
    /\ purchases \in [Orders -> Nat]
    /\ ent \in [Orders -> Entitlement]
    /\ plans \in [Users -> Seq([order : Orders, active : BOOLEAN])]
    /\ quota \in [Users -> [QuotaTypes -> Quota]]
    /\ xp \in [Orders -> {"none", "order_paid", "order_refunded"}]

LEMMA TypeProcess ==
    ASSUME TypeOK, NEW o \in Orders, NEW row \in OrderRow, Paying(o, row)
    PROVE  Written' /\ plansRead' \in [Orders -> PlansRead \cup {NoRow}]
<1>1. Written'
  BY ProcessPaidEffect DEF Written, PlanRow
<1>2. plansRead' = plansRead \/ plansRead' = [plansRead EXCEPT ![o] = NoRow]
  BY DEF Paying, ProcessPaid, Fulfil, FulfilAs, AlreadyFulfilled
<1>3. QED
  BY <1>1, <1>2 DEF TypeOK

LEMMA PaidRowType ==
    ASSUME NEW row \in OrderRow
    PROVE  PaidRow(row) \in OrderRow
<1>1. PaidRow(row) = [status |-> "paid", fulfilled |-> row.fulfilled,
                      refunded |-> row.refunded]
  BY DEF PaidRow, OrderRow
<1>2. QED
  BY <1>1 DEF OrderRow, Statuses

LEMMA ClosedRowType ==
    ASSUME NEW row \in OrderRow
    PROVE  [row EXCEPT !.status = "closed"] \in OrderRow
<1>1. [row EXCEPT !.status = "closed"]
        = [status |-> "closed", fulfilled |-> row.fulfilled, refunded |-> row.refunded]
  BY DEF OrderRow
<1>2. QED
  BY <1>1 DEF OrderRow, Statuses

LEMMA UsedQuotaType ==
    ASSUME NEW q \in Quota, NEW n \in Nat
    PROVE  [q EXCEPT !.used = n] \in Quota
BY DEF Quota

LEMMA TypeNotice ==
    ASSUME TypeOK, NEW o \in Orders, NEW n \in Notices, NotifyNext(o, n)
    PROVE  TypeOK'
<1> USE DEF TypeOK, jobs, provider, handler, money, goods, faults
<1>1. order[o] \in OrderRow
  OBVIOUS
<1>2. CASE WechatNotify(o, n)
  <2>1. Written' /\ plansRead' \in [Orders -> PlansRead \cup {NoRow}]
    BY <1>1, <1>2, TypeProcess DEF WechatNotify, Paying
  <2>2. QED
    BY <1>2, <2>1 DEF WechatNotify, Answer, Written
<1>3. CASE AlipayMark(o, n)
  BY <1>3 DEF AlipayMark
<1>4. CASE AlipayDuplicate(o, n)
  BY <1>4 DEF AlipayDuplicate
<1>5. CASE AlipayProcess(o, n)
  <2>1. Written' /\ plansRead' \in [Orders -> PlansRead \cup {NoRow}]
    BY <1>1, <1>5, TypeProcess DEF AlipayProcess, Paying
  <2>2. QED
    BY <1>5, <2>1 DEF AlipayProcess, Answer, Written
<1>6. CASE AlipayThrows(o, n)
  BY <1>6 DEF AlipayThrows
<1>7. CASE AlipayLosesMark(o, n)
  BY <1>7 DEF AlipayLosesMark
<1>8. QED
  BY <1>2, <1>3, <1>4, <1>5, <1>6, <1>7 DEF NotifyNext

LEMMA TypeReconcile ==
    ASSUME TypeOK, NEW o \in Orders,
           Reconcile(o) \/ ReconcileStopsHalfway(o)
    PROVE  TypeOK'
<1> USE DEF TypeOK, jobs, provider, handler, money, goods, faults
<1>1. view[o] \in OrderRow
  BY DEF Reconcile, ReconcileStopsHalfway
<1>2. CASE Reconcile(o)
  <2>1. Written' /\ plansRead' \in [Orders -> PlansRead \cup {NoRow}]
    BY <1>1, <1>2, TypeProcess DEF Reconcile, Paying
  <2>2. QED
    BY <1>2, <2>1 DEF Reconcile, Written
<1>3. CASE ReconcileStopsHalfway(o)
  <2>1. order' \in [Orders -> OrderRow]
    BY <1>1, <1>3, PaidRowType DEF ReconcileStopsHalfway
  <2>2. /\ balance' \in [Users -> Int]
        /\ txn' \in [Orders -> [Keys -> Int]]
    BY <1>3, HalfwayEffect
  <2>3. view' \in [Orders -> OrderRow \cup {NoRow}] /\ exceptions' \in Nat
    BY <1>3 DEF ReconcileStopsHalfway
  <2>4. UNCHANGED <<refund, sweep, backfill, provider, handler, spent, goods, lostMarks>>
    BY <1>3 DEF ReconcileStopsHalfway
  <2>5. QED
    BY <2>1, <2>2, <2>3, <2>4
<1>4. QED
  BY <1>2, <1>3

LEMMA TypeReview ==
    ASSUME TypeOK, NEW o \in Orders, NEW i \in 1..MaxRefunds,
           ReviewNext(o, i)
    PROVE  TypeOK'
<1> USE DEF TypeOK, jobs, provider, handler, money, goods, faults
<1>1. CASE ReviewApprove(o, i)
  <2>1. refund' \in [Orders -> Seq(RefundRow)]
    BY <1>1, ReviewedRefund DEF ReviewApprove
  <2>2. QED
    BY <1>1, <2>1, ApproveEffect DEF ReviewApprove, PlanRow
<1>2. CASE ReviewReject(o, i)
  <2>1. refund' \in [Orders -> Seq(RefundRow)]
    BY <1>2, ReviewedRefund DEF ReviewReject
  <2>2. order' \in [Orders -> OrderRow]
    BY <1>2, StatusSet DEF ReviewReject, Statuses
  <2>3. QED
    BY <1>2, <2>1, <2>2 DEF ReviewReject
<1>3. QED
  BY <1>1, <1>2 DEF ReviewNext

LEMMA TypeJob ==
    ASSUME TypeOK, SweepReads \/ SweepWrites \/ BackfillReads
    PROVE  TypeOK'
<1> USE DEF TypeOK, jobs, provider, handler, money, goods, faults
<1>1. CASE SweepReads
  BY <1>1 DEF SweepReads
<1>2. CASE SweepWrites
  <2>1. \A o \in Orders :
           sweep[o] # NoRow => [sweep[o] EXCEPT !.status = "closed"] \in OrderRow
    BY ClosedRowType
  <2>2. order' \in [Orders -> OrderRow]
    BY <1>2, <2>1 DEF SweepWrites
  <2>3. QED
    BY <1>2, <2>2 DEF SweepWrites, NoSweep
<1>3. CASE BackfillReads
  BY <1>3 DEF BackfillReads
<1>4. QED
  BY <1>1, <1>2, <1>3

LEMMA TypeUser ==
    ASSUME TypeOK, NEW u \in Users, UserNext(u)
    PROVE  TypeOK'
<1> USE DEF TypeOK, jobs, provider, handler, money, goods, faults
<1>1. CASE Spend(u)
  <2>1. /\ balance' \in [Users -> Int]
        /\ spent' \in [Users -> Nat]
    BY <1>1 DEF Spend
  <2>2. QED
    BY <1>1, <2>1 DEF Spend
<1>2. ASSUME NEW t \in QuotaTypes, ConsumeQuota(u, t) \/ ResetQuota(u, t)
      PROVE  TypeOK'
  <2> DEFINE q == quota[u][t]
  <2>1. quota[u] \in [QuotaTypes -> Quota] /\ q \in Quota /\ q.used + 1 \in Nat
    BY DEF Quota
  <2>2. \E n \in Nat : quota' = [quota EXCEPT ![u] = [quota[u] EXCEPT ![t] = [q EXCEPT !.used = n]]]
    <3>1. CASE ConsumeQuota(u, t)
      <4>1. quota' = [quota EXCEPT ![u] = [quota[u] EXCEPT ![t] = [q EXCEPT !.used = q.used + 1]]]
        BY <3>1, Zenon DEF ConsumeQuota
      <4>2. QED
        BY <2>1, <4>1, Zenon
    <3>2. CASE ResetQuota(u, t)
      <4>1. quota' = [quota EXCEPT ![u] = [quota[u] EXCEPT ![t] = [q EXCEPT !.used = 0]]]
        BY <3>2, Zenon DEF ResetQuota
      <4>2. 0 \in Nat
        OBVIOUS
      <4>3. QED
        BY <4>1, <4>2, Zenon
    <3>3. QED
      BY <1>2, <3>1, <3>2
  <2>3. \A n \in Nat : [q EXCEPT !.used = n] \in Quota
    BY <2>1, UsedQuotaType
  <2>4. quota' \in [Users -> [QuotaTypes -> Quota]]
    BY <2>1, <2>2, <2>3
  <2>5. QED
    BY <1>2, <2>4 DEF ConsumeQuota, ResetQuota
<1>3. QED
  BY <1>1, <1>2 DEF UserNext

LEMMA TypeStep ==
    ASSUME TypeOK, [Next]_vars
    PROVE  TypeOK'
<1>1. ASSUME NEW o \in Orders,
             \/ BuyerNext(o) \/ ProviderNext(o) \/ PollNext(o) \/ MarkExpires(o)
             \/ BackfillGrants(o) \/ \E by \in Notices \cup {"poll"} : ReadsPlans(o, by)
      PROVE  TypeOK'
  BY <1>1, TypeOrder, TypeReconcile DEF BuyerNext, ProviderNext, PollNext
<1>2. CASE UNCHANGED vars
  BY <1>2 DEF TypeOK, vars, jobs, provider, handler, money, goods, faults
<1>3. QED
  BY <1>1, <1>2, TypeNotice, TypeReview, TypeJob, TypeUser DEF Next

(***************************************************************************)
(* PlanCount and PlanTraces: the grants counted in GrantedBeside never     *)
(* become fewer; the fulfilment that holds the wallet lock knows the       *)
(* current plan and ends it, unless one without the lock has come between, *)
(* and that one counts itself.                                             *)
(***************************************************************************)
\* Entitlement rows and failures are only added.
Grows == /\ \A o \in Orders : ent[o].rows <= ent'[o].rows
         /\ exceptions <= exceptions'

LEMMA RegrantsGrow ==
    ASSUME TypeOK, TypeOK', Grows, NEW o \in Orders
    PROVE  /\ Regrants(o) \in Nat /\ Regrants(o)' \in Nat
           /\ Regrants(o) <= Regrants(o)'
<1>1. ent[o].rows \in Nat /\ ent'[o].rows \in Nat
  BY DEF TypeOK, Entitlement
<1>2. exceptions \in Nat /\ exceptions' \in Nat
  BY DEF TypeOK
<1>3. QED
  BY <1>1, <1>2 DEF Regrants, Grows

\* A sum of natural numbers is one.
LEMMA SumNat ==
    ASSUME NEW T, IsFiniteSet(T), NEW h, \A o \in T : h[o] \in Nat
    PROVE  SumFunctionOnSet(h, T) \in Nat
<1> DEFINE zero == [o \in T |-> 0]
<1>1. SumFunctionOnSet(zero, T) = 0
  BY SumZero
<1>2. \A o \in T : zero[o] \in Int /\ h[o] \in Int /\ zero[o] <= h[o]
  OBVIOUS
<1> HIDE DEF zero
<1>3. SumFunctionOnSet(zero, T) <= SumFunctionOnSet(h, T)
  BY <1>2, SumGrows
<1>4. SumFunctionOnSet(h, T) \in Int
  BY <1>2, SumInt
<1>5. QED
  BY <1>1, <1>3, <1>4

\* The grants without the lock are a number.
LEMMA BesideNat ==
    ASSUME TypeOK, NEW u
    PROVE  GrantedBeside(u) \in Nat
<1> DEFINE T == ExposedPlans(u)
           f == [o \in T |-> Regrants(o)]
<1>1. IsFiniteSet(T) /\ T \subseteq Orders
  BY OrdersAssumption, FS_Subset DEF ExposedPlans, Exposed
<1>2. \A o \in T : f[o] \in Nat
  BY <1>1 DEF Regrants, TypeOK, Entitlement
<1>3. GrantedBeside(u) = SumFunctionOnSet(f, T)
  BY DEF GrantedBeside, SumFunction
<1> HIDE DEF T, f
<1>4. QED
  BY <1>1, <1>2, <1>3, SumNat

LEMMA BesideGrows ==
    ASSUME TypeOK, TypeOK', Grows, NEW u
    PROVE  /\ GrantedBeside(u) \in Nat /\ GrantedBeside(u)' \in Nat
           /\ GrantedBeside(u) <= GrantedBeside(u)'
           /\ \A o \in ExposedPlans(u) :
                 Regrants(o)' = Regrants(o) + 1 => GrantedBeside(u) + 1 <= GrantedBeside(u)'
<1> DEFINE T == ExposedPlans(u)
           f == [o \in T |-> Regrants(o)]
           g == [o \in T |-> Regrants(o)']
<1>1. IsFiniteSet(T) /\ T \subseteq Orders
  BY OrdersAssumption, FS_Subset DEF ExposedPlans, Exposed
<1>2. \A o \in T : /\ f[o] \in Nat /\ g[o] \in Nat /\ f[o] <= g[o]
                   /\ f[o] = Regrants(o) /\ g[o] = Regrants(o)'
  BY <1>1, RegrantsGrow
<1>3. /\ GrantedBeside(u) = SumFunctionOnSet(f, T)
      /\ GrantedBeside(u)' = SumFunctionOnSet(g, T)
  BY DEF GrantedBeside, SumFunction
<1> HIDE DEF T, f, g
<1>5. SumFunctionOnSet(f, T) \in Nat /\ SumFunctionOnSet(g, T) \in Nat
  BY <1>1, <1>2, SumNat
<1>6. SumFunctionOnSet(f, T) <= SumFunctionOnSet(g, T)
  BY <1>1, <1>2, SumGrows
<1>7. ASSUME NEW o \in T, Regrants(o)' = Regrants(o) + 1
      PROVE  SumFunctionOnSet(f, T) + 1 <= SumFunctionOnSet(g, T)
  <2> DEFINE h == [g EXCEPT ![o] = f[o]]
  <2>1. \A p \in T : g[p] \in Int /\ h[p] \in Int /\ f[p] \in Int
    BY <1>2 DEF f, g
  <2>2. h[o] = f[o] /\ g[o] = f[o] + 1 /\ \A p \in T \ {o} : h[p] = g[p]
    BY <1>2, <1>7 DEF g
  <2>3. \A p \in T : f[p] <= h[p]
    BY <1>2, <2>1, <2>2
  <2> HIDE DEF h
  <2>4. SumFunctionOnSet(h, T) = SumFunctionOnSet(g, T) + h[o] - g[o]
    BY <1>1, <2>1, <2>2, SumChange
  <2>5. SumFunctionOnSet(f, T) <= SumFunctionOnSet(h, T)
    BY <1>1, <2>1, <2>3, SumGrows
  <2>6. f[o] \in Nat /\ g[o] \in Nat
    BY <1>2
  <2>7. QED
    BY <1>5, <2>2, <2>4, <2>5, <2>6
<1>8. QED
  BY <1>3, <1>5, <1>6, <1>7 DEF T

\* What a fulfilment writes of the plans, and of what it has read.
LEMMA FulfilPlans ==
    ASSUME TypeOK, NEW o \in Orders, NEW row \in OrderRow, Paying(o, row)
    PROVE  /\ plansRead'[o] = NoRow
           /\ \A p \in Orders \ {o} : plansRead'[p] = plansRead[p]
           /\ \A u \in Users : plans'[u] # plans[u] =>
                 /\ u = Buyer[o] /\ Kind[o] = "plan" /\ ~row.fulfilled
                 /\ \E current :
                       /\ plans'[u] = ActivatePlan(plans[u], current, o)
                       /\ IF RowFree(o)
                          THEN /\ NoWalletLock(o) \/ WalletFree(u)
                               /\ current = CurrentPlan(plans[u])
                          ELSE current = plansRead[o].current
<1>1. CASE ~row.fulfilled /\ \E by, read : FulfilAs(o, row, by, read)
  <2>1. PICK by, read : FulfilAs(o, row, by, read)
    BY <1>1
  <2>2. Buyer[o] \in Users
    BY AmountType
  <2>3. plansRead' = [plansRead EXCEPT ![o] = NoRow]
    BY <2>1 DEF FulfilAs
  <2>4. plans' = IF Kind[o] = "plan"
                 THEN [plans EXCEPT ![Buyer[o]] = ActivatePlan(plans[Buyer[o]], read.current, o)]
                 ELSE plans
    BY <2>1 DEF FulfilAs, FulfilGoods
  <2>5. /\ RowFree(o) => NoWalletLock(o) \/ WalletFree(Buyer[o])
        /\ IF RowFree(o) THEN read.current = CurrentPlan(plans[Buyer[o]])
                         ELSE read = plansRead[o]
    BY <2>1, ReadEffect DEF FulfilAs
  <2>6. QED
    BY <1>1, <2>2, <2>3, <2>4, <2>5 DEF TypeOK
<1>2. CASE AlreadyFulfilled(o, row)
  BY <1>2 DEF AlreadyFulfilled, RowFree, goods
<1>3. QED
  BY <1>1, <1>2 DEF Paying, ProcessPaid, Fulfil

LEMMA StepGrows ==
    ASSUME TypeOK, PaymentTraces, [Next]_vars
    PROVE  Grows
<1>1. ASSUME NEW o \in Orders, NEW row \in OrderRow, Processes(o, row)
      PROVE  Grows
  <2>1. \A p \in Orders : ent[p].rows \in Nat
    BY DEF TypeOK, Entitlement
  <2>2. Paying(o, row) /\ exceptions' = exceptions /\ exceptions \in Nat
    BY <1>1 DEF Processes, TypeOK
  <2>3. row.fulfilled => ent' = ent
    BY <2>2, ProcessPaidEffect DEF goods
  <2>4. ~row.fulfilled => ent'[o].rows \in {ent[o].rows, ent[o].rows + 1}
    BY <2>2, ProcessPaidEffect
  <2>5. \A p \in Orders \ {o} : ent'[p] = ent[p]
    BY <2>2, ProcessPaidEffect
  <2>6. QED
    BY <2>1, <2>2, <2>3, <2>4, <2>5 DEF Grows
<1>2. ASSUME NEW o \in Orders,
             \/ ReconcileStopsHalfway(o) \/ BackfillGrants(o) \/ RefundApply(o)
             \/ \E i \in 1..MaxRefunds : ReviewNext(o, i)
      PROVE  Grows
  <2>1. exceptions' \in {exceptions, exceptions + 1} /\ exceptions \in Nat
    BY <1>2 DEF ReconcileStopsHalfway, BackfillGrants, RefundApply, OpensRefund, ReviewNext,
       ReviewApprove, ReviewReject, faults, TypeOK
  <2>2. ASSUME NEW i \in 1..MaxRefunds, ReviewApprove(o, i), NEW p \in Orders
        PROVE  ent'[p].rows = ent[p].rows
    BY <2>2, ApproveEffect
  <2>3. \A p \in Orders : ent'[p].rows = ent[p].rows
    BY <1>2, <2>2 DEF ReconcileStopsHalfway, BackfillGrants, RefundApply, OpensRefund,
       ReviewNext, ReviewReject, goods
  <2>4. \A p \in Orders : ent[p].rows \in Nat
    BY DEF TypeOK, Entitlement
  <2>5. QED
    BY <2>1, <2>3, <2>4 DEF Grows
<1>3. ASSUME Quiet
      PROVE  Grows
  <2>1. \A p \in Orders : ent[p].rows \in Nat
    BY DEF TypeOK, Entitlement
  <2>2. QED
    BY <1>3, <2>1 DEF Quiet, Grows
<1>4. QED
  BY <1>1, <1>2, <1>3, StepKinds

\* The kinds of steps, by what they do to the plans and to what was read.
LEMMA ReadKinds ==
    ASSUME TypeOK, PaymentTraces, [Next]_vars
    PROVE  \/ \E o \in Orders, row \in OrderRow : Processes(o, row)
           \/ \E o \in Orders, i \in 1..MaxRefunds : ReviewApprove(o, i)
           \/ \E o \in Orders, by \in Notices \cup {"poll"} : ReadsPlans(o, by)
           \/ /\ UNCHANGED <<plans, plansRead>>
              /\ \A p \in Orders : ~RowFree(p) => (NoWalletLock(p)' <=> NoWalletLock(p))
<1> DEFINE Kept == /\ UNCHANGED <<plans, plansRead>>
                   /\ \A p \in Orders : ~RowFree(p) => (NoWalletLock(p)' <=> NoWalletLock(p))
<1>1. ASSUME NEW o \in Orders, ReconcileStopsHalfway(o)
      PROVE  Kept
  <2>1. UNCHANGED <<plans, plansRead>> /\ RowFree(o)
    BY <1>1 DEF ReconcileStopsHalfway, goods, handler
  <2>2. \A p \in Orders \ {o} : txn'[p] = txn[p]
    BY <1>1, HalfwayEffect
  <2>3. QED
    BY <2>1, <2>2 DEF NoWalletLock
<1>2. ASSUME NEW o \in Orders, BackfillGrants(o)
      PROVE  Kept
  <2>1. UNCHANGED <<plans, plansRead>>
    BY <1>2 DEF BackfillGrants, goods, handler
  <2>2. /\ {RechargeKey, ExternalKey, SpendKey} \subseteq Keys
        /\ TokenKey \notin {RechargeKey, ExternalKey, SpendKey}
    BY KeysDiffer DEF SpendKey, TokenKey
  <2>3. \A p \in Orders : \A k \in {RechargeKey, ExternalKey, SpendKey} : txn'[p][k] = txn[p][k]
    BY <1>2, <2>2, BackfillEffect
  <2>4. QED
    BY <2>1, <2>3 DEF NoWalletLock, Booked
<1>3. ASSUME NEW o \in Orders, RefundApply(o) \/ \E i \in 1..MaxRefunds : ReviewReject(o, i)
      PROVE  Kept
  <2>1. UNCHANGED <<plans, plansRead, txn>>
    BY <1>3 DEF RefundApply, OpensRefund, ReviewReject, goods, money, handler
  <2>2. QED
    BY <2>1 DEF NoWalletLock
<1>4. ASSUME Quiet
      PROVE  Kept \/ \E o \in Orders, by \in Notices \cup {"poll"} : ReadsPlans(o, by)
  <2>1. UNCHANGED <<plans, txn>>
    BY <1>4 DEF Quiet
  <2>2. UNCHANGED plansRead \/ \E o \in Orders, by \in Notices \cup {"poll"} : ReadsPlans(o, by)
    BY <1>4 DEF Quiet
  <2>3. QED
    BY <2>1, <2>2 DEF NoWalletLock
<1> HIDE DEF Kept
<1>5. \/ \E o \in Orders, row \in OrderRow : Processes(o, row)
      \/ \E o \in Orders, i \in 1..MaxRefunds : ReviewApprove(o, i)
      \/ \E o \in Orders, by \in Notices \cup {"poll"} : ReadsPlans(o, by)
      \/ Kept
  BY <1>1, <1>2, <1>3, <1>4, StepKinds DEF ReviewNext
<1>6. QED
  BY <1>5 DEF Kept

\* Who holds the wallet lock of a user, and what that fulfilment has read.
LEMMA HoldersProcess ==
    ASSUME TypeOK, NEW o \in Orders, NEW row \in OrderRow, Paying(o, row), NEW u
    PROVE  /\ Holders(u)' = Holders(u) \ {o}
           /\ \A p \in Holders(u)' : plansRead'[p] = plansRead[p]
<1>1. plansRead'[o] = NoRow /\ \A p \in Orders \ {o} : plansRead'[p] = plansRead[p]
  BY FulfilPlans
<1>2. \A p \in Orders \ {o} : txn'[p] = txn[p]
  BY ProcessPaidEffect
<1>3. ~ (o \in Holders(u)')
  BY <1>1 DEF Holders, RowFree
<1>4. \A p \in Orders \ {o} : p \in Holders(u)' <=> p \in Holders(u)
  BY <1>1, <1>2 DEF Holders, RowFree, NoWalletLock
<1>5. Holders(u) \subseteq Orders /\ Holders(u)' \subseteq Orders
  BY DEF Holders
<1>6. QED
  BY <1>1, <1>3, <1>4, <1>5

LEMMA HoldersKept ==
    ASSUME UNCHANGED plansRead,
           \A p \in Orders : ~RowFree(p) => (NoWalletLock(p)' <=> NoWalletLock(p)), NEW u
    PROVE  Holders(u)' = Holders(u)
<1>1. \A p \in Orders : p \in Holders(u)' <=> p \in Holders(u)
  BY DEF Holders, RowFree
<1>2. Holders(u) \subseteq Orders /\ Holders(u)' \subseteq Orders
  BY DEF Holders
<1>3. QED
  BY <1>1, <1>2

LEMMA HoldersApprove ==
    ASSUME TypeOK, NEW o \in Orders, NEW i \in 1..MaxRefunds, ReviewApprove(o, i), NEW u \in Users
    PROVE  /\ UNCHANGED plansRead
           /\ Holders(u)' = Holders(u)
           /\ IF u = Buyer[o] THEN Holders(u) = {} ELSE plans'[u] = plans[u]
<1>1. /\ UNCHANGED plansRead /\ RowFree(o) /\ Holders(Buyer[o]) = {}
      /\ plans' = [plans EXCEPT ![Buyer[o]] = DeactivatePlan(plans[Buyer[o]], o)]
  BY DEF ReviewApprove, RevokeOrderEntitlements, WalletFree, handler
<1>2. \A p \in Orders : ~RowFree(p) => (NoWalletLock(p)' <=> NoWalletLock(p))
  <2>1. \A p \in Orders \ {o} : txn'[p] = txn[p]
    BY ApproveEffect
  <2>2. QED
    BY <1>1, <2>1 DEF NoWalletLock
<1>3. Holders(u)' = Holders(u)
  BY <1>1, <1>2, HoldersKept
<1>4. u # Buyer[o] => plans'[u] = plans[u]
  BY <1>1 DEF TypeOK
<1>5. QED
  BY <1>1, <1>3, <1>4

LEMMA HoldersRead ==
    ASSUME TypeOK, NEW o \in Orders, NEW by, ReadsPlans(o, by), NEW u
    PROVE  \/ /\ Holders(u)' = Holders(u)
              /\ \A p \in Holders(u)' : plansRead'[p] = plansRead[p]
           \/ /\ u = Buyer[o] /\ Holders(u) = {} /\ Holders(u)' = {o}
              /\ plansRead'[o].current = CurrentPlan(plans[u])
<1>1. /\ plansRead' = [plansRead EXCEPT ![o] = PlansNow(o, by)]
      /\ UNCHANGED txn /\ RowFree(o)
      /\ NoWalletLock(o) \/ Holders(Buyer[o]) = {}
  BY DEF ReadsPlans, WalletFree, money
<1>2. /\ plansRead'[o] = PlansNow(o, by)
      /\ \A p \in Orders \ {o} : plansRead'[p] = plansRead[p]
  BY <1>1 DEF TypeOK
<1>3. \A p \in Orders \ {o} : p \in Holders(u)' <=> p \in Holders(u)
  BY <1>1, <1>2 DEF Holders, RowFree, NoWalletLock
<1>4. o \notin Holders(u)
  BY <1>1 DEF Holders
<1>5. Holders(u) \subseteq Orders /\ Holders(u)' \subseteq Orders
  BY DEF Holders
<1>6. CASE o \in Holders(u)'
  <2>1. Buyer[o] = u /\ ~NoWalletLock(o)
    BY <1>1, <1>6 DEF Holders, NoWalletLock
  <2>2. Holders(u) = {} /\ Holders(u)' = {o}
    BY <1>1, <1>3, <1>5, <1>6, <2>1
  <2>3. plansRead'[o].current = CurrentPlan(plans[u])
    BY <1>2, <2>1 DEF PlansNow
  <2>4. QED
    BY <2>1, <2>2, <2>3
<1>7. CASE o \notin Holders(u)'
  <2>1. Holders(u)' = Holders(u)
    BY <1>3, <1>4, <1>5, <1>7
  <2>2. QED
    BY <1>2, <1>5, <1>7, <2>1
<1>8. QED
  BY <1>6, <1>7

\* A fulfilment that holds the lock and is not outdated replaces a plan; one
\* without the lock is counted, and may be what outdates the holder.
LEMMA PlanCountProcess ==
    ASSUME TypeOK, TypeOK', PaymentTraces, FlagTellsGrants, PlanTraces, PlanCount, Grows,
           NEW o \in Orders, NEW row \in OrderRow, Processes(o, row),
           NEW u \in Users, plans'[u] # plans[u],
           NEW n, n = Cardinality(ActiveRows(plans[u])), n \in Nat,
           NEW m, m = Cardinality(ActiveRows(plans'[u])), m \in Nat
    PROVE  m + (IF Outdated(u)' THEN 1 ELSE 0) <= 1 + GrantedBeside(u)'
<1>1. /\ GrantedBeside(u) \in Nat /\ GrantedBeside(u)' \in Nat
      /\ GrantedBeside(u) <= GrantedBeside(u)'
      /\ \A q \in ExposedPlans(u) :
            Regrants(q)' = Regrants(q) + 1 => GrantedBeside(u) + 1 <= GrantedBeside(u)'
  BY BesideGrows
<1>2. /\ Paying(o, row) /\ (row = order[o] \/ row = view[o])
      /\ exceptions' = exceptions /\ exceptions \in Nat
  BY DEF Processes, TypeOK
<1>3. /\ n + (IF Outdated(u) THEN 1 ELSE 0) <= 1 + GrantedBeside(u)
      /\ \A p, q \in Holders(u) : p = q
  BY DEF PlanCount
<1>4. u = Buyer[o] /\ Kind[o] = "plan" /\ ~row.fulfilled
  BY <1>2, FulfilPlans
<1>5. PICK current :
         /\ plans'[u] = ActivatePlan(plans[u], current, o)
         /\ IF RowFree(o)
            THEN /\ NoWalletLock(o) \/ WalletFree(u)
                 /\ current = CurrentPlan(plans[u])
            ELSE current = plansRead[o].current
  BY <1>2, FulfilPlans
<1>6. plans[u] \in Seq(PlanRow(Orders))
  BY DEF TypeOK, PlanRow
<1>7. /\ m <= n + 1
      /\ current \cap ActiveRows(plans[u]) # {} => m <= n
      /\ current = CurrentPlan(plans[u]) => m <= 1 \/ m <= n
  BY <1>5, <1>6, ActivatePlanRows
<1>8. ActiveRows(plans[u]) \ current \subseteq ActiveRows(plans'[u])
  BY <1>5, <1>6, ActivatePlanEffect
<1>9. /\ Holders(u)' = Holders(u) \ {o}
      /\ \A p \in Holders(u)' : plansRead'[p] = plansRead[p]
  BY <1>2, HoldersProcess
<1>10. CASE NoWalletLock(o)
  <2>1. ent[o].rows \in Nat /\ ent'[o].rows = ent[o].rows + 1
    BY <1>2, <1>4, ProcessPaidEffect DEF TypeOK, Entitlement
  <2>2. ent[o].rows > 0 \/ (o \in Polled /\ exceptions > 0)
    BY <1>4, <1>10 DEF PlanTraces, NoWalletLock
  <2>3. o \in Exposed
    <3>1. SUFFICES ASSUME o \in Guarded PROVE FALSE
      BY DEF Guarded
    <3>2. o \notin Polled /\ view[o] = NoRow
      BY <3>1 DEF Guarded, Exposed, FlagTellsGrants
    <3>3. row = order[o]
      BY <1>2, <3>2, OrdersAssumption
    <3>4. ent[o].rows = 0
      BY <1>4, <3>1, <3>3 DEF FlagTellsGrants
    <3>5. QED
      BY <2>2, <3>2, <3>4
  <2>4. o \in ExposedPlans(u)
    BY <1>4, <2>3 DEF ExposedPlans
  <2>5. Regrants(o)' = Regrants(o) + 1
    BY <1>2, <2>1, <2>2 DEF Regrants
  <2>6. GrantedBeside(u) + 1 <= GrantedBeside(u)'
    BY <1>1, <2>4, <2>5
  <2>7. Outdated(u)' => Outdated(u) \/ m <= n
    <3>1. SUFFICES ASSUME Outdated(u)', ~Outdated(u)
                   PROVE  current \cap ActiveRows(plans[u]) # {}
      BY <1>7
    <3>2. PICK p \in Holders(u)' : plansRead'[p].current \cap ActiveRows(plans'[u]) = {}
      BY <3>1 DEF Outdated
    <3>3. p \in Holders(u) /\ plansRead'[p] = plansRead[p]
      BY <1>9
    <3>4. PICK x \in plansRead[p].current : x \in ActiveRows(plans[u])
      BY <3>1, <3>3 DEF Outdated
    <3>5. x \notin ActiveRows(plans'[u])
      BY <3>2, <3>3, <3>4
    <3>6. QED
      BY <1>8, <3>4, <3>5
  <2>8. QED
    BY <1>1, <1>3, <1>7, <2>6, <2>7
<1>11. CASE ~NoWalletLock(o) /\ RowFree(o)
  <2>1. Holders(u) = {} /\ Holders(u)' = {}
    BY <1>5, <1>9, <1>11 DEF WalletFree
  <2>2. ~Outdated(u) /\ ~Outdated(u)'
    BY <2>1 DEF Outdated
  <2>3. m <= 1 \/ m <= n
    BY <1>5, <1>7, <1>11
  <2>4. QED
    BY <1>1, <1>3, <2>2, <2>3
<1>12. CASE ~NoWalletLock(o) /\ ~RowFree(o)
  <2>1. o \in Holders(u)
    BY <1>4, <1>12 DEF Holders
  <2>2. Holders(u)' = {}
    BY <1>3, <1>9, <2>1
  <2>3. ~Outdated(u)'
    BY <2>2 DEF Outdated
  <2>4. ~Outdated(u) => m <= n
    <3>1. ~Outdated(u) => plansRead[o].current \cap ActiveRows(plans[u]) # {}
      BY <2>1 DEF Outdated
    <3>2. QED
      BY <1>5, <1>7, <1>12, <3>1
  <2>5. QED
    BY <1>1, <1>3, <1>7, <2>3, <2>4
<1>13. QED
  BY <1>10, <1>11, <1>12

LEMMA PlanCountStep ==
    ASSUME TypeOK, TypeOK', PaymentTraces, FlagTellsGrants, PlanTraces, PlanCount,
           [Next]_vars
    PROVE  PlanCount'
<1> SUFFICES ASSUME NEW u \in Users
             PROVE  /\ \A o, p \in Holders(u)' : o = p
                    /\ Cardinality(ActiveRows(plans'[u])) + (IF Outdated(u)' THEN 1 ELSE 0)
                          <= 1 + GrantedBeside(u)'
  BY DEF PlanCount
<1> DEFINE n == Cardinality(ActiveRows(plans[u]))
           m == Cardinality(ActiveRows(plans'[u]))
           Counted == m + (IF Outdated(u)' THEN 1 ELSE 0) <= 1 + GrantedBeside(u)'
           Single == \A o, p \in Holders(u)' : o = p
<1>1. /\ plans[u] \in Seq(PlanRow(Orders)) /\ plans'[u] \in Seq(PlanRow(Orders))
      /\ n \in Nat /\ m \in Nat
  <2>1. plans[u] \in Seq(PlanRow(Orders)) /\ plans'[u] \in Seq(PlanRow(Orders))
    BY DEF TypeOK, PlanRow
  <2>2. QED
    BY <2>1, ActiveRowsFinite
<1>2. Grows
  BY StepGrows
<1>3. /\ GrantedBeside(u) \in Nat /\ GrantedBeside(u)' \in Nat
      /\ GrantedBeside(u) <= GrantedBeside(u)'
  BY <1>2, BesideGrows
<1>4. /\ \A o, p \in Holders(u) : o = p
      /\ n + (IF Outdated(u) THEN 1 ELSE 0) <= 1 + GrantedBeside(u)
  BY DEF PlanCount
<1>5. ASSUME plans'[u] = plans[u], Holders(u)' \subseteq Holders(u),
             \A p \in Holders(u)' : plansRead'[p] = plansRead[p]
      PROVE  Counted
  <2>1. Outdated(u)' => Outdated(u)
    BY <1>5 DEF Outdated
  <2>2. m = n
    BY <1>5
  <2> HIDE DEF n, m
  <2>3. QED
    BY <1>1, <1>3, <1>4, <2>1, <2>2
<1> SUFFICES Single /\ Counted
  OBVIOUS
<1>6. ASSUME NEW o \in Orders, NEW row \in OrderRow, Processes(o, row)
      PROVE  Single /\ Counted
  <2>1. /\ Holders(u)' = Holders(u) \ {o}
        /\ \A p \in Holders(u)' : plansRead'[p] = plansRead[p]
    BY <1>6, HoldersProcess DEF Processes
  <2>2. Single
    BY <1>4, <2>1
  <2>3. CASE plans'[u] = plans[u]
    BY <1>5, <2>1, <2>2, <2>3
  <2>4. CASE plans'[u] # plans[u]
    BY <1>1, <1>2, <1>6, <2>2, <2>4, PlanCountProcess
  <2>5. QED
    BY <2>3, <2>4
<1>7. ASSUME NEW o \in Orders, NEW i \in 1..MaxRefunds, ReviewApprove(o, i)
      PROVE  Single /\ Counted
  <2>1. /\ UNCHANGED plansRead /\ Holders(u)' = Holders(u)
        /\ IF u = Buyer[o] THEN Holders(u) = {} ELSE plans'[u] = plans[u]
    BY <1>7, HoldersApprove
  <2>2. Single
    BY <1>4, <2>1
  <2>3. CASE u # Buyer[o]
    BY <1>5, <2>1, <2>2, <2>3
  <2>4. CASE u = Buyer[o]
    <3>1. ~Outdated(u)'
      BY <2>1, <2>4 DEF Outdated
    <3>2. m <= n
      <4>1. ActiveRows(plans'[u]) \subseteq ActiveRows(plans[u])
        BY <1>7, ApproveEffect
      <4>2. IsFiniteSet(ActiveRows(plans[u]))
        BY <1>1, ActiveRowsFinite
      <4>3. QED
        BY <4>1, <4>2, FS_Subset
    <3> HIDE DEF n, m
    <3>3. QED
      BY <1>1, <1>3, <1>4, <2>2, <3>1, <3>2
  <2>5. QED
    BY <2>3, <2>4
<1>8. ASSUME NEW o \in Orders, NEW by \in Notices \cup {"poll"}, ReadsPlans(o, by)
      PROVE  Single /\ Counted
  <2>1. plans' = plans
    BY <1>8 DEF ReadsPlans, goods
  <2>2. CASE /\ Holders(u)' = Holders(u)
             /\ \A p \in Holders(u)' : plansRead'[p] = plansRead[p]
    BY <1>4, <1>5, <2>1, <2>2
  <2>3. CASE /\ u = Buyer[o] /\ Holders(u) = {} /\ Holders(u)' = {o}
             /\ plansRead'[o].current = CurrentPlan(plans[u])
    <3>1. Outdated(u)' => n = 0
      <4>1. SUFFICES ASSUME Outdated(u)', ActiveRows(plans[u]) # {} PROVE FALSE
        BY FS_EmptySet
      <4>2. CurrentPlan(plans[u]) \cap ActiveRows(plans[u]) = {}
        BY <2>1, <2>3, <4>1 DEF Outdated
      <4>3. QED
        BY <1>1, <4>1, <4>2, SomeRowIsCurrent
    <3>2. m = n
      BY <2>1
    <3> HIDE DEF n, m
    <3>3. QED
      BY <1>1, <1>3, <1>4, <2>3, <3>1, <3>2
  <2>4. QED
    BY <1>8, <2>2, <2>3, HoldersRead
<1>9. ASSUME UNCHANGED <<plans, plansRead>>,
             \A p \in Orders : ~RowFree(p) => (NoWalletLock(p)' <=> NoWalletLock(p))
      PROVE  Single /\ Counted
  <2>1. Holders(u)' = Holders(u)
    BY <1>9, HoldersKept
  <2>2. QED
    BY <1>4, <1>5, <1>9, <2>1
<1> HIDE DEF Single, Counted
<1>10. QED
  BY <1>6, <1>7, <1>8, <1>9, ReadKinds

LEMMA PlanTracesStep ==
    ASSUME TypeOK, TypeOK', PaymentTraces, PlanTraces, [Next]_vars
    PROVE  PlanTraces'
<1> SUFFICES ASSUME NEW p \in Orders
             PROVE  /\ view'[p] # NoRow => p \in Polled
                    /\ Kind[p] = "plan" /\ Booked(txn'[p], ExternalKey) =>
                          ent'[p].rows > 0 \/ (p \in Polled /\ exceptions' > 0)
  BY DEF PlanTraces
<1>1. /\ view[p] # NoRow => p \in Polled
      /\ Kind[p] = "plan" /\ Booked(txn[p], ExternalKey) =>
            ent[p].rows > 0 \/ (p \in Polled /\ exceptions > 0)
  BY DEF PlanTraces
<1>2. /\ ent[p].rows \in Nat /\ exceptions \in Nat /\ exceptions' \in Nat
      /\ ent[p].rows <= ent'[p].rows /\ exceptions <= exceptions'
  BY StepGrows DEF Grows, TypeOK, Entitlement
<1>3. ASSUME NEW o \in Orders, NEW row \in OrderRow, Processes(o, row)
      PROVE  /\ view'[p] # NoRow => p \in Polled
             /\ Kind[p] = "plan" /\ Booked(txn'[p], ExternalKey) =>
                   ent'[p].rows > 0 \/ (p \in Polled /\ exceptions' > 0)
  <2>1. /\ Paying(o, row) /\ exceptions' = exceptions
        /\ view'[p] \in {view[p], NoRow}
    BY <1>3 DEF Processes
  <2>2. CASE p # o
    <3>1. txn'[p] = txn[p] /\ ent'[p] = ent[p]
      BY <2>1, <2>2, ProcessPaidEffect
    <3>2. QED
      BY <1>1, <2>1, <3>1
  <2>3. CASE p = o /\ row.fulfilled
    <3>1. UNCHANGED <<txn, ent>>
      BY <2>1, <2>3, ProcessPaidEffect DEF money, goods
    <3>2. QED
      BY <1>1, <2>1, <3>1
  <2>4. CASE p = o /\ ~row.fulfilled
    <3>1. Kind[o] = "plan" => ent'[o].rows = ent[o].rows + 1
      BY <2>1, <2>4, ProcessPaidEffect
    <3>2. QED
      BY <1>1, <1>2, <2>1, <2>4, <3>1
  <2>5. QED
    BY <2>2, <2>3, <2>4
<1>4. ASSUME NEW o \in Orders, ReconcileStopsHalfway(o)
      PROVE  /\ view'[p] # NoRow => p \in Polled
             /\ Kind[p] = "plan" /\ Booked(txn'[p], ExternalKey) =>
                   ent'[p].rows > 0 \/ (p \in Polled /\ exceptions' > 0)
  <2>1. view'[p] \in {view[p], NoRow} /\ exceptions' > 0 /\ UNCHANGED ent
    BY <1>2, <1>4 DEF ReconcileStopsHalfway, TypeOK, goods
  <2>2. p # o => txn'[p] = txn[p]
    BY <1>4, HalfwayEffect
  <2>3. p = o => p \in Polled
    BY <1>1, <1>4 DEF ReconcileStopsHalfway
  <2>4. QED
    BY <1>1, <2>1, <2>2, <2>3
<1>5. ASSUME NEW o \in Orders, BackfillGrants(o)
      PROVE  /\ UNCHANGED <<view, ent, exceptions>>
             /\ Booked(txn'[p], ExternalKey) <=> Booked(txn[p], ExternalKey)
  <2>1. ExternalKey \in Keys /\ ExternalKey # TokenKey
    BY KeysDiffer DEF ExternalKey, TokenKey
  <2>2. txn'[p][ExternalKey] = txn[p][ExternalKey]
    BY <1>5, <2>1, BackfillEffect
  <2>3. QED
    BY <1>5, <2>2 DEF BackfillGrants, goods, faults, Booked
<1>6. ASSUME NEW o \in Orders, RefundApply(o) \/ \E i \in 1..MaxRefunds : ReviewNext(o, i)
      PROVE  /\ UNCHANGED <<view, exceptions>> /\ ent'[p].rows = ent[p].rows
             /\ Booked(txn'[p], ExternalKey) <=> Booked(txn[p], ExternalKey)
  <2>1. ASSUME NEW i \in 1..MaxRefunds, ReviewApprove(o, i)
        PROVE  /\ UNCHANGED <<view, exceptions>> /\ ent'[p].rows = ent[p].rows
               /\ Booked(txn'[p], ExternalKey) <=> Booked(txn[p], ExternalKey)
    <3>1. UNCHANGED <<view, exceptions>>
      BY <2>1 DEF ReviewApprove, jobs, faults
    <3>2. /\ ent'[o].rows = ent[o].rows
          /\ Booked(txn'[o], ExternalKey) <=> Booked(txn[o], ExternalKey)
          /\ p # o => txn'[p] = txn[p] /\ ent'[p] = ent[p]
      BY <2>1, ApproveEffect
    <3>3. QED
      BY <3>1, <3>2
  <2>2. QED
    BY <1>6, <2>1 DEF RefundApply, OpensRefund, ReviewNext, ReviewReject, jobs, money, goods,
       faults
<1>7. ASSUME Quiet
      PROVE  /\ view'[p] # NoRow => p \in Polled
             /\ ent'[p].rows = ent[p].rows
             /\ Booked(txn'[p], ExternalKey) <=> Booked(txn[p], ExternalKey)
  BY <1>1, <1>7 DEF Quiet
<1>8. ASSUME NEW o \in Orders,
             \/ BackfillGrants(o) \/ RefundApply(o)
             \/ \E i \in 1..MaxRefunds : ReviewNext(o, i)
      PROVE  /\ view'[p] # NoRow => p \in Polled
             /\ Kind[p] = "plan" /\ Booked(txn'[p], ExternalKey) =>
                   ent'[p].rows > 0 \/ (p \in Polled /\ exceptions' > 0)
  BY <1>1, <1>5, <1>6, <1>8
<1>9. ASSUME Quiet
      PROVE  /\ view'[p] # NoRow => p \in Polled
             /\ Kind[p] = "plan" /\ Booked(txn'[p], ExternalKey) =>
                   ent'[p].rows > 0 \/ (p \in Polled /\ exceptions' > 0)
  BY <1>1, <1>2, <1>7, <1>9
<1>10. QED
  BY <1>3, <1>4, <1>8, <1>9, StepKinds

(***************************************************************************)
(* PaymentTraces: a step that leaves a first trace of an order follows an  *)
(* older one or the payment, and no trade is ever unpaid again.            *)
(***************************************************************************)
Traced(o) ==
    \/ order[o].fulfilled \/ purchases[o] > 0 \/ ent[o].rows > 0
    \/ \E k \in Keys : Booked(txn[o], k)
    \/ sweep[o] # NoRow /\ sweep[o].fulfilled
    \/ view[o] # NoRow /\ view[o].fulfilled
    \/ notify[o] # {} \/ busy[o] # {} \/ refund[o] # <<>> \/ o \in backfill

LEMMA TracedMeansPaid == PaymentTraces <=> \A o \in Orders : Traced(o) => Paid(o)
BY DEF PaymentTraces, Traced

LEMMA PaymentTracesStep ==
    ASSUME TypeOK, PaymentTraces, [Next]_vars
    PROVE  PaymentTraces'
<1>1. ASSUME NEW o \in Orders, NEW row \in OrderRow, Processes(o, row), NEW p \in Orders
      PROVE  Traced(p)' => Paid(p)'
  <2>1. p # o => order'[p] = order[p] /\ txn'[p] = txn[p]
                 /\ purchases'[p] = purchases[p] /\ ent'[p] = ent[p]
    BY <1>1, ProcessPaidEffect DEF Processes
  <2>2. UNCHANGED <<refund, sweep, backfill, trade>> /\ Paid(o)
    BY <1>1 DEF Processes
  <2>3. view'[p] \in {view[p], NoRow} /\ notify'[p] \subseteq notify[p] /\ busy'[p] \subseteq busy[p]
    BY <1>1 DEF Processes
  <2>4. p # o => (Traced(p)' => Traced(p))
    BY <2>1, <2>2, <2>3 DEF Traced
  <2>5. QED
    BY <2>2, <2>4, TracedMeansPaid DEF Paid
<1>2. ASSUME NEW o \in Orders,
             \/ ReconcileStopsHalfway(o) \/ BackfillGrants(o) \/ RefundApply(o)
             \/ \E i \in 1..MaxRefunds : ReviewNext(o, i),
             NEW p \in Orders
      PROVE  Traced(p)' => Paid(p)'
  <2> USE DEF jobs, provider, handler, money, goods
  <2>1. Traced(o) \/ Paid(o)
    BY <1>2 DEF ReconcileStopsHalfway, BackfillGrants, RefundApply, OpensRefund, ReviewNext,
                ReviewApprove, ReviewReject, Traced, Paid
  <2>2. /\ UNCHANGED <<trade, notify, busy, sweep, purchases>>
        /\ view'[p] \in {view[p], NoRow}
        /\ backfill' \subseteq backfill
    BY <1>2 DEF TypeOK, ReconcileStopsHalfway, BackfillGrants, RefundApply, OpensRefund,
                ReviewNext, ReviewApprove, ReviewReject
  <2>3. p # o => order'[p] = order[p] /\ refund'[p] = refund[p]
    BY <1>2 DEF TypeOK, ReconcileStopsHalfway, BackfillGrants, RefundApply, OpensRefund,
                ReviewNext, ReviewApprove, ReviewReject
  <2>4. p # o => txn'[p] = txn[p] /\ ent'[p] = ent[p]
    BY <1>2 DEF TypeOK, ReconcileStopsHalfway, BackfillGrants, RefundApply, OpensRefund,
                ReviewNext, ReviewApprove, ReviewReject, Books, RevokeOrderEntitlements
  <2>5. p # o => (Traced(p)' => Traced(p))
    BY <2>2, <2>3, <2>4 DEF Traced
  <2>6. QED
    BY <2>1, <2>2, <2>5, TracedMeansPaid DEF Paid
<1>3. ASSUME Quiet, NEW p \in Orders
      PROVE  Traced(p)' => Paid(p)'
  <2>1. Traced(p)' => Traced(p) \/ Paid(p)'
    BY <1>3 DEF Quiet, TakesRow, Traced
  <2>2. Paid(p) => Paid(p)'
    BY <1>3 DEF Quiet
  <2>3. QED
    BY <2>1, <2>2, TracedMeansPaid
<1>4. (\A p \in Orders : Traced(p)' => Paid(p)') => PaymentTraces'
  BY DEF PaymentTraces, Traced, Paid
<1>5. QED
  BY <1>1, <1>2, <1>3, <1>4, StepKinds

(***************************************************************************)
(* RefundTraces: only the three refund operations touch the requests, and  *)
(* only an approval books under a refund key.                              *)
(***************************************************************************)
LEMMA RefundTracesKept ==
    ASSUME RefundTraces, UNCHANGED refund,
           \A p \in Orders, n \in 1..MaxRefunds :
              txn'[p][RefundKey(n)] = txn[p][RefundKey(n)]
    PROVE  RefundTraces'
BY DEF RefundTraces, OpenRefunds, Booked

LEMMA RefundTracesApply ==
    ASSUME TypeOK, RefundTraces, NEW o \in Orders, RefundApply(o)
    PROVE  RefundTraces'
<1> DEFINE asked == [status |-> "pending", amount |-> Refundable(o)]
           len == Len(refund[o])
<1>1. /\ refund' = [refund EXCEPT ![o] = Append(refund[o], asked)]
      /\ Refundable(o) > 0
      /\ OpenRefunds(o) = {}
      /\ UNCHANGED txn
  BY DEF RefundApply, OpensRefund, money
<1>2. asked.status = "pending" /\ asked.amount <= Amount[o]
  <2>1. order[o].refunded \in Nat
    BY DEF TypeOK, OrderRow
  <2>2. QED
    BY <2>1, AmountType DEF Refundable
<1>3. refund[o] \in Seq(RefundRow) /\ len \in Nat /\ DOMAIN refund[o] = 1..len
  BY DEF TypeOK
<1> HIDE DEF asked, len
<1>4. /\ refund'[o] = Append(refund[o], asked)
      /\ \A p \in Orders \ {o} : refund'[p] = refund[p]
  BY <1>1 DEF TypeOK
<1>5. /\ DOMAIN refund'[o] = 1..(len + 1)
      /\ \A j \in 1..len : refund'[o][j] = refund[o][j]
      /\ refund'[o][len + 1] = asked
  BY <1>3, <1>4 DEF len
<1>6. \A j \in DOMAIN refund[o] : refund[o][j].status \notin {"pending", "approved"}
  BY <1>1 DEF OpenRefunds
<1>7. \A j \in DOMAIN refund'[o] :
          refund'[o][j].status \in {"pending", "approved"} => j = len + 1
  BY <1>3, <1>5, <1>6
<1>8. \A j \in DOMAIN refund'[o] : refund'[o][j].amount <= Amount[o]
  BY <1>2, <1>3, <1>5 DEF RefundTraces
<1>9. ASSUME NEW n \in 1..MaxRefunds
      PROVE  /\ txn'[o][RefundKey(n)] <= Amount[o]
             /\ ~Booked(txn'[o], RefundKey(n))
  BY <1>1, <1>6 DEF RefundTraces, Booked
<1>10. QED
  BY <1>1, <1>4, <1>7, <1>8, <1>9 DEF RefundTraces, OpenRefunds

LEMMA RefundTracesReview ==
    ASSUME TypeOK, RefundTraces, NEW o \in Orders, NEW i \in 1..MaxRefunds,
           ReviewNext(o, i)
    PROVE  RefundTraces'
<1>1. i \in DOMAIN refund[o] /\ refund[o][i].status = "pending"
  BY DEF ReviewNext, ReviewApprove, ReviewReject
<1>2. PICK st \in {"approved", "rejected"} :
         /\ refund' = [refund EXCEPT ![o][i].status = st]
         /\ st = "approved" => ReviewApprove(o, i)
         /\ st = "rejected" => UNCHANGED txn
  BY DEF ReviewNext, ReviewApprove, ReviewReject, money
<1>3. /\ DOMAIN refund'[o] = DOMAIN refund[o]
      /\ \A p \in Orders \ {o} : refund'[p] = refund[p]
      /\ refund'[o][i].status = st /\ refund'[o][i].amount = refund[o][i].amount
      /\ \A j \in DOMAIN refund[o] \ {i} : refund'[o][j] = refund[o][j]
  <2>1. refund' = [refund EXCEPT ![o][i].status = st]
    BY <1>2
  <2>2. refund'[o][i] = [status |-> st, amount |-> refund[o][i].amount]
    BY <1>1, <2>1, ReviewedRefund
  <2>3. /\ DOMAIN refund'[o] = DOMAIN refund[o]
        /\ \A p \in Orders \ {o} : refund'[p] = refund[p]
        /\ \A j \in DOMAIN refund[o] \ {i} : refund'[o][j] = refund[o][j]
    BY <1>1, <2>1, ReviewedRefund
  <2>4. QED
    BY <2>2, <2>3
<1>4. /\ \A n \in (1..MaxRefunds) \ {i} : txn'[o][RefundKey(n)] = txn[o][RefundKey(n)]
      /\ txn'[o][RefundKey(i)] = txn[o][RefundKey(i)]
           \/ (st = "approved" /\ txn'[o][RefundKey(i)] = refund[o][i].amount)
      /\ \A p \in Orders \ {o} : txn'[p] = txn[p]
  BY <1>2, ApproveEffect
<1>5. ~Booked(txn[o], RefundKey(i))
  BY <1>1 DEF RefundTraces
<1>6. ASSUME NEW n \in 1..MaxRefunds
      PROVE  /\ txn'[o][RefundKey(n)] <= Amount[o]
             /\ Booked(txn'[o], RefundKey(n)) =>
                   n \in DOMAIN refund'[o] /\ refund'[o][n].status = "approved"
  <2>1. CASE n = i
    BY <1>1, <1>3, <1>4, <1>5, <2>1 DEF RefundTraces, Booked
  <2>2. CASE n # i
    BY <1>3, <1>4, <2>2 DEF RefundTraces, Booked
  <2>3. QED
    BY <2>1, <2>2
<1>7. \A j, k \in OpenRefunds(o)' : j = k
  BY <1>1, <1>3 DEF RefundTraces, OpenRefunds
<1>8. \A j \in DOMAIN refund'[o] : refund'[o][j].amount <= Amount[o]
  BY <1>3 DEF RefundTraces
<1>9. QED
  BY <1>3, <1>4, <1>6, <1>7, <1>8 DEF RefundTraces, OpenRefunds

LEMMA RefundTracesStep ==
    ASSUME TypeOK, PaymentTraces, RefundTraces, [Next]_vars
    PROVE  RefundTraces'
<1>1. ASSUME NEW o \in Orders, NEW row \in OrderRow, Processes(o, row)
      PROVE  RefundTraces'
  <2>1. UNCHANGED refund
    BY <1>1 DEF Processes
  <2>2. \A p \in Orders, n \in 1..MaxRefunds :
           txn'[p][RefundKey(n)] = txn[p][RefundKey(n)]
    BY <1>1, ProcessPaidEffect DEF Processes
  <2>3. QED
    BY <2>1, <2>2, RefundTracesKept
<1>2. ASSUME NEW o \in Orders, ReconcileStopsHalfway(o)
      PROVE  RefundTraces'
  BY <1>2, HalfwayEffect, RefundTracesKept DEF ReconcileStopsHalfway
<1>3. ASSUME NEW o \in Orders, BackfillGrants(o)
      PROVE  RefundTraces'
  BY <1>3, BackfillEffect, KeysDiffer, RefundTracesKept DEF BackfillGrants
<1>4. Quiet => RefundTraces'
  BY RefundTracesKept DEF Quiet
<1>5. QED
  BY <1>1, <1>2, <1>3, <1>4, RefundTracesApply, RefundTracesReview, StepKinds

(***************************************************************************)
(* FlagTellsGrants and RefundRevokes: a guarded order is processed with    *)
(* the row as it is, so its flag decides what is granted.                  *)
(***************************************************************************)
LEMMA FlagTellsGrantsStep ==
    ASSUME TypeOK, PaymentTraces, FlagTellsGrants, [Next]_vars
    PROVE  FlagTellsGrants'
<1> DEFINE Told(p) ==
        /\ sweep[p] = NoRow
        /\ view[p] = NoRow
        /\ purchases[p] = IF order[p].fulfilled /\ Kind[p] = "item" THEN 1 ELSE 0
        /\ ent[p].rows = IF order[p].fulfilled /\ Kind[p] # "wallet" THEN 1 ELSE 0
        /\ Booked(txn[p], RechargeKey) <=> order[p].fulfilled /\ Kind[p] = "wallet"
        /\ refund[p] # <<>> => order[p].fulfilled /\ Kind[p] # "wallet"
<1> SUFFICES ASSUME NEW p \in Guarded PROVE Told(p)'
  BY DEF FlagTellsGrants
<1>1. p \in Orders /\ p \notin Expirable /\ p \notin Polled /\ Told(p)
  BY DEF FlagTellsGrants, Guarded, Exposed
<1>2. order[p] \in OrderRow /\ order[p] # NoRow
  BY <1>1, OrdersAssumption DEF TypeOK
<1>3. ASSUME NEW o \in Orders, NEW row \in OrderRow, Processes(o, row)
      PROVE  Told(p)'
  <2>1. UNCHANGED <<refund, sweep>> /\ view'[p] = NoRow
    BY <1>1, <1>3 DEF Processes
  <2>2. CASE p # o
    <3>1. order'[p] = order[p] /\ txn'[p] = txn[p] /\ purchases'[p] = purchases[p]
          /\ ent'[p] = ent[p]
      BY <1>1, <1>3, <2>2, ProcessPaidEffect DEF Processes
    <3>2. QED
      BY <1>1, <2>1, <3>1
  <2>3. CASE p = o
    <3>1. row = order[o]
      BY <1>1, <1>2, <1>3, <2>3, OrdersAssumption DEF Processes
    <3>2. Paying(o, row)
      BY <1>3 DEF Processes
    <3>3. order'[o].fulfilled
      BY <3>2, ProcessPaidEffect
    <3>4. CASE order[o].fulfilled
      <4>1. UNCHANGED <<txn, purchases, ent>>
        BY <3>1, <3>2, <3>4, ProcessPaidEffect DEF money, goods
      <4>2. QED
        BY <1>1, <2>1, <2>3, <3>3, <3>4, <4>1
    <3>5. CASE ~order[o].fulfilled
      <4>1. /\ purchases'[o] = IF Kind[o] = "item" THEN purchases[o] + 1 ELSE purchases[o]
            /\ ent'[o].rows =
                  IF Kind[o] = "plan" \/ (Kind[o] = "item" /\ ent[o].rows = 0)
                  THEN ent[o].rows + 1 ELSE ent[o].rows
            /\ Booked(txn'[o], RechargeKey)
                  <=> Kind[o] = "wallet" \/ Booked(txn[o], RechargeKey)
        BY <3>1, <3>2, <3>5, ProcessPaidEffect
      <4>2. /\ purchases[o] = 0 /\ ent[o].rows = 0 /\ ~Booked(txn[o], RechargeKey)
            /\ refund'[o] = <<>>
        BY <1>1, <2>1, <2>3, <3>5
      <4>3. QED
        BY <1>1, <2>1, <2>3, <3>3, <4>1, <4>2, AmountType
    <3>6. QED
      BY <3>4, <3>5
  <2>4. QED
    BY <2>2, <2>3
<1>4. ASSUME NEW o \in Orders, ReconcileStopsHalfway(o)
      PROVE  Told(p)'
  <2>1. p # o
    BY <1>1, <1>4 DEF ReconcileStopsHalfway
  <2>2. txn'[p] = txn[p]
    BY <1>1, <1>4, <2>1, HalfwayEffect
  <2>3. order'[p] = order[p] /\ view'[p] = view[p]
        /\ UNCHANGED <<refund, sweep, purchases, ent>>
    BY <1>1, <1>4, <2>1 DEF ReconcileStopsHalfway, TypeOK, goods
  <2>4. QED
    BY <1>1, <2>2, <2>3
<1>5. ASSUME NEW o \in Orders, BackfillGrants(o)
      PROVE  Told(p)'
  <2>1. txn'[p][RechargeKey] = txn[p][RechargeKey]
    BY <1>1, <1>5, BackfillEffect, KeysDiffer
  <2>2. UNCHANGED <<order, refund, sweep, view, purchases, ent>>
    BY <1>5 DEF BackfillGrants, goods
  <2>3. QED
    BY <1>1, <2>1, <2>2 DEF Booked
<1>6. ASSUME NEW o \in Orders,
             RefundApply(o) \/ \E i \in 1..MaxRefunds : ReviewNext(o, i)
      PROVE  Told(p)'
  <2>1. UNCHANGED <<sweep, view, purchases>>
    BY <1>6 DEF RefundApply, OpensRefund, ReviewNext, ReviewApprove, ReviewReject, jobs, goods
  <2>2. order'[p].fulfilled = order[p].fulfilled /\ ent'[p].rows = ent[p].rows
    <3>1. ASSUME NEW i \in 1..MaxRefunds, ReviewApprove(o, i)
          PROVE  order'[p].fulfilled = order[p].fulfilled /\ ent'[p].rows = ent[p].rows
      BY <1>1, <3>1, ApproveEffect
    <3>2. ASSUME NEW st \in Statuses, order' = [order EXCEPT ![o].status = st]
          PROVE  order'[p].fulfilled = order[p].fulfilled
      BY <1>1, <3>2 DEF TypeOK, OrderRow
    <3>3. QED
      BY <1>6, <3>1, <3>2 DEF RefundApply, OpensRefund, ReviewNext, ReviewReject, goods, Statuses
  <2>3. Booked(txn'[p], RechargeKey) <=> Booked(txn[p], RechargeKey)
    <3>1. ASSUME NEW i \in 1..MaxRefunds, ReviewApprove(o, i)
          PROVE  Booked(txn'[p], RechargeKey) <=> Booked(txn[p], RechargeKey)
      BY <1>1, <3>1, ApproveEffect
    <3>2. QED
      BY <1>6, <3>1 DEF RefundApply, OpensRefund, ReviewNext, ReviewReject, money
  <2>4. refund'[p] # <<>> => order[p].fulfilled /\ Kind[p] # "wallet"
    <3>1. p # o => refund'[p] = refund[p]
      BY <1>1, <1>6 DEF RefundApply, OpensRefund, ReviewNext, ReviewApprove, ReviewReject, TypeOK
    <3>2. refund[o] # <<>> \/ (order[o].fulfilled /\ Kind[o] # "wallet")
      BY <1>6 DEF RefundApply, OpensRefund, ReviewNext, ReviewApprove, ReviewReject
    <3>3. QED
      BY <1>1, <3>1, <3>2
  <2>5. QED
    BY <1>1, <2>1, <2>2, <2>3, <2>4
<1>7. ASSUME Quiet
      PROVE  Told(p)'
  BY <1>1, <1>7 DEF Quiet
<1>8. QED
  BY <1>3, <1>4, <1>5, <1>6, <1>7, StepKinds

LEMMA RefundRevokesStep ==
    ASSUME TypeOK, PaymentTraces, FlagTellsGrants, RefundRevokes, [Next]_vars
    PROVE  RefundRevokes'
<1> DEFINE Gone(p) ==
        /\ ~ent[p].active
        /\ p \notin ActivePlans(plans[Buyer[p]])
        /\ xp[p] # "order_paid"
<1> SUFFICES ASSUME NEW p \in Guarded, Approved(p)' PROVE Gone(p)'
  BY DEF RefundRevokes
<1>1. p \in Orders /\ (Approved(p) => Gone(p))
  BY DEF RefundRevokes, Guarded
<1>2. UNCHANGED refund => Approved(p)
  BY DEF Approved
<1>3. ASSUME NEW o \in Orders, NEW row \in OrderRow, Processes(o, row)
      PROVE  Gone(p)'
  <2>1. Approved(p) /\ Paying(o, row)
    BY <1>2, <1>3 DEF Processes
  <2>2. CASE p # o
    BY <1>1, <2>1, <2>2, ProcessPaidEffect
  <2>3. CASE p = o
    <3>1. refund[o] # <<>>
      BY <2>1, <2>3 DEF Approved
    <3>2. order[o].fulfilled /\ view[o] = NoRow
      BY <2>3, <3>1 DEF FlagTellsGrants
    <3>3. row = order[o]
      BY <1>3, <3>2, OrdersAssumption DEF Processes
    <3>4. UNCHANGED goods
      BY <2>1, <3>2, <3>3, ProcessPaidEffect
    <3>5. QED
      BY <1>1, <2>1, <3>4 DEF goods
  <2>4. QED
    BY <2>2, <2>3
<1>4. ASSUME NEW o \in Orders, ReconcileStopsHalfway(o) \/ BackfillGrants(o)
      PROVE  Gone(p)'
  BY <1>1, <1>2, <1>4 DEF ReconcileStopsHalfway, BackfillGrants, goods
<1>5. ASSUME NEW o \in Orders, RefundApply(o)
      PROVE  Gone(p)'
  <2>1. /\ UNCHANGED <<ent, plans, xp>>
        /\ refund' = [refund EXCEPT ![o] =
                Append(refund[o], [status |-> "pending", amount |-> Refundable(o)])]
    BY <1>5 DEF RefundApply, OpensRefund, goods
  <2>2. p = o => Approved(p)
    <3> DEFINE asked == [status |-> "pending", amount |-> Refundable(o)]
               len == Len(refund[o])
    <3>1. refund'[o] = Append(refund[o], asked) /\ asked.status # "approved"
      BY <2>1 DEF TypeOK
    <3>2. refund[o] \in Seq(RefundRow) /\ len \in Nat /\ DOMAIN refund[o] = 1..len
      BY DEF TypeOK
    <3> HIDE DEF asked
    <3>3. \A j \in DOMAIN refund'[o] :
             refund'[o][j] = asked \/ (j \in DOMAIN refund[o] /\ refund'[o][j] = refund[o][j])
      BY <3>1, <3>2
    <3>4. QED
      BY <3>1, <3>3 DEF Approved
  <2>3. p # o => Approved(p)
    BY <1>1, <2>1 DEF Approved, TypeOK
  <2>4. QED
    BY <1>1, <2>1, <2>2, <2>3
<1>6. ASSUME NEW o \in Orders, NEW i \in 1..MaxRefunds, ReviewApprove(o, i)
      PROVE  Gone(p)'
  <2>1. CASE p = o
    BY <1>6, <2>1, ApproveEffect
  <2>2. CASE p # o
    <3>1. refund'[p] = refund[p]
      BY <1>1, <1>6, <2>2 DEF ReviewApprove, TypeOK
    <3>2. QED
      BY <1>1, <1>6, <2>2, <3>1, ApproveEffect DEF Approved
  <2>3. QED
    BY <2>1, <2>2
<1>7. ASSUME NEW o \in Orders, NEW i \in 1..MaxRefunds, ReviewReject(o, i)
      PROVE  Gone(p)'
  <2>1. UNCHANGED <<ent, plans, xp>>
    BY <1>7 DEF ReviewReject, goods
  <2> DEFINE st == "rejected"
  <2>2. i \in DOMAIN refund[o] /\ refund' = [refund EXCEPT ![o][i].status = st]
    BY <1>7 DEF ReviewReject
  <2>3. st \in {"approved", "rejected"} /\ st # "approved"
    OBVIOUS
  <2> HIDE DEF st
  <2>4. refund'[o][i] = [status |-> st, amount |-> refund[o][i].amount]
    BY <2>2, <2>3, ReviewedRefund
  <2>5. /\ DOMAIN refund'[o] = DOMAIN refund[o]
        /\ \A q \in Orders \ {o} : refund'[q] = refund[q]
        /\ \A j \in DOMAIN refund[o] \ {i} : refund'[o][j] = refund[o][j]
    BY <2>2, <2>3, ReviewedRefund
  <2>6. Approved(p)
    BY <1>1, <2>3, <2>4, <2>5 DEF Approved
  <2>7. QED
    BY <1>1, <2>1, <2>6
<1>8. ASSUME Quiet
      PROVE  Gone(p)'
  BY <1>1, <1>2, <1>8 DEF Quiet
<1>9. QED
  BY <1>3, <1>4, <1>5, <1>6, <1>7, <1>8, StepKinds DEF ReviewNext

----------------------------------------------------------------------------
(***************************************************************************)
(* The invariant holds at the start, every step keeps it, and the          *)
(* properties follow.                                                      *)
(***************************************************************************)
LEMMA InitPlans ==
    ASSUME Init
    PROVE  /\ plans \in [Users -> Seq(PlanRow(Orders))]
           /\ \A u \in Users : Cardinality(ActiveRows(plans[u])) <= 1
<1> DEFINE First(u) == CHOOSE o \in LegacyOf(u) : TRUE
           rows(u) == ActivatePlan(<<>>, {}, First(u))
<1>1. ASSUME NEW u \in Users, LegacyOf(u) # {}
      PROVE  First(u) \in Orders
  BY <1>1, LegacyAssumption DEF LegacyOf
<1>2. /\ <<>> \in Seq(PlanRow(Orders)) /\ ActiveRows(<<>>) = {}
      /\ CurrentPlan(<<>>) = {}
      /\ Cardinality({}) = 0
  BY FS_EmptySet DEF ActiveRows, CurrentPlan
<1> HIDE DEF First
<1>3. ASSUME NEW u \in Users, LegacyOf(u) # {}
      PROVE  rows(u) \in Seq(PlanRow(Orders)) /\ Cardinality(ActiveRows(rows(u))) <= 1
  <2>1. rows(u) \in Seq(PlanRow(Orders))
    BY <1>1, <1>2, <1>3, ActivatePlanEffect
  <2>2. LET after == Cardinality(ActiveRows(rows(u)))
        IN  after \in Nat /\ after <= 0 + 1
    BY <1>1, <1>2, <1>3, ActivatePlanRows
  <2>3. QED
    BY <2>1, <2>2
<1>4. plans = [u \in Users |-> IF LegacyOf(u) = {} THEN <<>> ELSE rows(u)]
  BY DEF Init, First
<1> HIDE DEF rows
<1>5. ASSUME NEW u \in Users
      PROVE  /\ plans[u] \in Seq(PlanRow(Orders))
             /\ Cardinality(ActiveRows(plans[u])) <= 1
  <2>1. CASE LegacyOf(u) = {}
    <3>1. plans[u] = <<>>
      BY <1>4, <2>1
    <3>2. QED
      BY <1>2, <3>1
  <2>2. CASE LegacyOf(u) # {}
    <3>1. plans[u] = rows(u)
      BY <1>4, <2>2
    <3>2. QED
      BY <1>3, <2>2, <3>1
  <2>3. QED
    BY <2>1, <2>2
<1>6. DOMAIN plans = Users /\ plans = [u \in Users |-> plans[u]]
  BY <1>4
<1>7. QED
  BY <1>5, <1>6

LEMMA InitType ==
    ASSUME Init
    PROVE  TypeOK
<1>1. order \in [Orders -> OrderRow]
  BY DEF Init, OrderRow, Statuses
<1>2. txn \in [Orders -> [Keys -> Int]]
  <2>1. \A o \in Orders : Amount[o] \in Int /\ -Amount[o] \in Int
    BY AmountType
  <2>2. QED
    BY <2>1 DEF Init
<1>3. ent \in [Orders -> Entitlement]
  BY DEF Init, AddEntitlement, NoEntitlement, Entitlement
<1>4. quota \in [Users -> [QuotaTypes -> Quota]]
  <2>1. NoQuota \in [QuotaTypes -> Quota]
    BY DEF NoQuota, Quota
  <2>2. ASSUME NEW o \in Orders
        PROVE  ApplyPlanQuotas(NoQuota, NoQuota, PlanQuota[o]) \in [QuotaTypes -> Quota]
    BY <2>1, AmountType, QuotaTypesKept
  <2>3. \A u \in Users : LegacyOf(u) # {} => (CHOOSE o \in LegacyOf(u) : TRUE) \in Orders
    BY LegacyAssumption DEF LegacyOf
  <2> HIDE DEF ApplyPlanQuotas
  <2>4. QED
    BY <2>1, <2>2, <2>3 DEF Init
<1>5. plans \in [Users -> Seq([order : Orders, active : BOOLEAN])]
  BY InitPlans DEF PlanRow
<1>6. /\ refund \in [Orders -> Seq(RefundRow)]
      /\ sweep \in [Orders -> OrderRow \cup {NoRow}]
      /\ view \in [Orders -> OrderRow \cup {NoRow}]
      /\ backfill \subseteq Orders
      /\ trade \in [Orders -> TradeStates]
      /\ notify \in [Orders -> SUBSET Notices]
      /\ seen \subseteq Orders
      /\ busy \in [Orders -> SUBSET Notices]
      /\ plansRead \in [Orders -> PlansRead \cup {NoRow}]
      /\ balance \in [Users -> Int]
      /\ spent \in [Users -> Nat]
      /\ purchases \in [Orders -> Nat]
      /\ xp \in [Orders -> {"none", "order_paid", "order_refunded"}]
      /\ exceptions \in Nat /\ lostMarks \in Nat
  BY DEF Init, TradeStates, Notices
<1>7. QED
  BY <1>1, <1>2, <1>3, <1>4, <1>5, <1>6 DEF TypeOK

LEMMA InitIInv ==
    ASSUME Init
    PROVE  IInv
<1>1. /\ sweep = [o \in Orders |-> NoRow]
      /\ view = [o \in Orders |-> NoRow]
      /\ refund = [o \in Orders |-> <<>>]
      /\ notify = [o \in Orders |-> {}] /\ busy = [o \in Orders |-> {}]
      /\ backfill = {}
      /\ purchases = [o \in Orders |-> 0]
  BY DEF Init
<1>2. ASSUME NEW o \in Orders
      PROVE  /\ order[o].fulfilled <=> o \in Legacy
             /\ ent[o].rows = IF o \in Legacy THEN 1 ELSE 0
             /\ o \in Legacy => Paid(o) /\ Kind[o] = "plan"
  BY LegacyAssumption DEF Init, AddEntitlement, NoEntitlement, Paid, PaidTrades
<1>3. ASSUME NEW o \in Orders, NEW k \in Keys, Booked(txn[o], k)
      PROVE  o \in Legacy /\ k \in {ExternalKey, SpendKey}
  BY <1>3 DEF Init, Booked
<1>4. PaymentTraces
  BY <1>1, <1>2, <1>3 DEF PaymentTraces
<1>5. RefundTraces
  <2>1. ASSUME NEW o \in Orders, NEW n \in 1..MaxRefunds
        PROVE  ~Booked(txn[o], RefundKey(n))
    BY <1>3, KeysDiffer
  <2>2. QED
    BY <1>1, <2>1, AmountType DEF RefundTraces, OpenRefunds, Booked
<1>6. FlagTellsGrants
  <2>1. ASSUME NEW o \in Orders
        PROVE  ~Booked(txn[o], RechargeKey)
    BY <1>3, KeysDiffer
  <2>2. QED
    BY <1>1, <1>2, <2>1 DEF FlagTellsGrants, Guarded
<1>7. RefundRevokes
  BY <1>1 DEF RefundRevokes, Approved, Guarded
<1>8. PlanTraces
  BY <1>1, <1>2, <1>3, KeysDiffer DEF PlanTraces
<1>9. PlanCount
  <2>1. ASSUME NEW u \in Users
        PROVE  GrantedBeside(u) \in Nat /\ Cardinality(ActiveRows(plans[u])) \in Nat
    <3> DEFINE f == [o \in ExposedPlans(u) |-> Regrants(o)]
    <3>1. \A o \in ExposedPlans(u) : o \in Orders /\ Regrants(o) = 0
      <4>1. exceptions = 0
        BY DEF Init
      <4>2. ExposedPlans(u) \subseteq Orders
        BY OrdersAssumption DEF ExposedPlans, Exposed
      <4>3. QED
        BY <1>2, <4>1, <4>2 DEF Regrants
    <3>2. IsFiniteSet(ExposedPlans(u)) /\ \A o \in ExposedPlans(u) : f[o] = 0
      <4>1. IsFiniteSet(ExposedPlans(u))
        BY OrdersAssumption, FS_Subset DEF ExposedPlans, Exposed
      <4>2. QED
        BY <3>1, <4>1
    <3>3. GrantedBeside(u) = SumFunctionOnSet(f, ExposedPlans(u))
      BY DEF GrantedBeside, SumFunction
    <3> HIDE DEF f
    <3>4. GrantedBeside(u) = 0
      BY <3>2, <3>3, SumZero
    <3>5. plans[u] \in Seq(PlanRow(Orders))
      BY InitPlans
    <3>6. QED
      BY <3>4, <3>5, ActiveRowsFinite
  <2>2. ASSUME NEW u \in Users
        PROVE  Holders(u) = {}
    BY DEF Init, Holders, RowFree
  <2>3. QED
    BY <2>1, <2>2, InitPlans DEF PlanCount, Outdated
<1>10. QED
  BY <1>4, <1>5, <1>6, <1>7, <1>8, <1>9, InitType DEF IInv

LEMMA IInvStep ==
    ASSUME IInv, [Next]_vars
    PROVE  IInv'
BY TypeStep, PaymentTracesStep, RefundTracesStep, FlagTellsGrantsStep, PlanTracesStep,
   PlanCountStep, RefundRevokesStep DEF IInv

\* The invariant the other theorems follow from.
THEOREM Invariance == Spec => []IInv
<1>1. Init => IInv
  BY InitIInv
<1>2. IInv /\ [Next]_vars => IInv'
  BY IInvStep
<1>3. QED
  BY <1>1, <1>2, PTL DEF Spec

\* Every variable keeps its type: no handler writes a row the schema has not.
THEOREM TypeCorrect == Spec => []TypeOK
<1>1. IInv => TypeOK
  BY DEF IInv
<1>2. QED
  BY <1>1, Invariance, PTL

\* Nothing is booked, granted or fulfilled for an order that is not paid,
\* whoever notifies, polls, sweeps or throws, on guarded and exposed orders.
THEOREM NothingForNothing == Spec => []NoValueWithoutPayment
<1>1. IInv => NoValueWithoutPayment
  BY DEF IInv, PaymentTraces, NoValueWithoutPayment, Paid
<1>2. QED
  BY <1>1, Invariance, PTL

\* One request per order is open or granted, and no refund exceeds what was
\* paid: late notifications and rejected requests included.
THEOREM RefundBound == Spec => []RefundsBounded
<1>1. IInv => RefundsBounded
  BY DEF IInv, RefundTraces, RefundsBounded, OpenRefunds
<1>2. QED
  BY <1>1, Invariance, PTL

\* A guarded order is granted at most once, however often it is notified.
THEOREM GrantOnce == Spec => []GrantedOnce
<1>1. IInv => GrantedOnce
  BY DEF IInv, FlagTellsGrants, GrantedOnce, Grants
<1>2. QED
  BY <1>1, Invariance, PTL

\* A user has one active plan at most, and one more for every grant that was
\* made without the wallet lock and so beside the fulfilment of another plan;
\* of users none of whose plans a stale row can reach there are no such grants.
THEOREM SinglePlan == Spec => []OneActivePlan
<1>1. IInv => OneActivePlan
  <2>1. SUFFICES ASSUME IInv, NEW u \in Users
                 PROVE  Cardinality(ActiveRows(plans[u])) <= 1 + GrantedBeside(u)
    BY DEF OneActivePlan
  <2>2. plans[u] \in Seq(PlanRow(Orders))
    BY <2>1 DEF IInv, TypeOK, PlanRow
  <2>3. Cardinality(ActiveRows(plans[u])) \in Nat
    BY <2>2, ActiveRowsFinite
  <2>4. GrantedBeside(u) \in Nat
    BY <2>1, BesideNat DEF IInv
  <2>5. QED
    BY <2>1, <2>3, <2>4 DEF IInv, PlanCount
<1>2. QED
  BY <1>1, Invariance, PTL

\* What a refunded guarded order had granted is gone and stays gone.
THEOREM RefundTakesBack == Spec => []RefundRevokes
<1>1. IInv => RefundRevokes
  BY DEF IInv
<1>2. QED
  BY <1>1, Invariance, PTL

----------------------------------------------------------------------------
(***************************************************************************)
(* The money: every step books what it moves.  The ledger of a user is a   *)
(* sum over orders of sums over keys; Sums tells how much it changes when  *)
(* the transactions of one order do.                                       *)
(***************************************************************************)
OrdersOf(u) == {o \in Orders : Buyer[o] = u}

LEMMA SoundAccount ==
    ASSUME TypeOK, MoneyInv, NEW o \in Orders
    PROVE  Sound(AccountOf(o))
<1>1. AccountOf(o) \in Account /\ AccountOf(o).txn = txn[o]
  BY AccountOfType
<1>2. AccountOf(o).balance = balance[Buyer[o]]
  BY DEF AccountOf
<1>3. balance[Buyer[o]] >= 0 /\ txn[o][SpendKey] = -txn[o][ExternalKey]
  BY AmountType DEF MoneyInv, BalanceMatchesLedger, SpentAsPaid
<1>4. QED
  BY <1>1, <1>2, <1>3 DEF Sound

\* What one order is worth is an integer; the ledger adds it up.
LEMMA LedgerIsSum ==
    ASSUME NEW t \in [Orders -> [Keys -> Int]], NEW u,
           NEW w, w = [o \in Orders |-> SumFunction(t[o])]
    PROVE  /\ \A o \in Orders : w[o] \in Int
           /\ SumFunction([o \in OrdersOf(u) |-> SumFunction(t[o])])
                 = SumFunctionOnSet(w, OrdersOf(u))
           /\ SumFunctionOnSet(w, OrdersOf(u)) \in Int
<1> DEFINE mine == [o \in OrdersOf(u) |-> SumFunction(t[o])]
<1>1. ASSUME NEW o \in Orders
      PROVE  w[o] \in Int
  <2>1. t[o] \in [Keys -> Int]
    OBVIOUS
  <2>2. SumFunctionOnSet(t[o], Keys) \in Int
    BY <2>1, KeysFinite, SumInt
  <2>3. QED
    BY <2>1, <2>2 DEF SumFunction
<1>2. IsFiniteSet(OrdersOf(u))
  BY OrdersAssumption, FS_Subset DEF OrdersOf
<1>3. \A o \in OrdersOf(u) : mine[o] = w[o] /\ w[o] \in Int
  BY <1>1 DEF OrdersOf
<1>4. SumFunction(mine) = SumFunctionOnSet(mine, OrdersOf(u))
  BY DEF SumFunction
<1> HIDE DEF mine
<1>5. SumFunctionOnSet(mine, OrdersOf(u)) = SumFunctionOnSet(w, OrdersOf(u))
  BY <1>2, <1>3, SumSame
<1>6. SumFunctionOnSet(w, OrdersOf(u)) \in Int
  BY <1>2, <1>3, SumInt
<1>7. QED
  BY <1>1, <1>4, <1>5, <1>6 DEF mine

LEMMA LedgerChange ==
    ASSUME TypeOK, NEW o \in Orders, txn' \in [Orders -> [Keys -> Int]],
           \A p \in Orders \ {o} : txn'[p] = txn[p], NEW u
    PROVE  /\ Ledger(u) \in Int
           /\ SumFunction(txn[o]) \in Int /\ SumFunction(txn'[o]) \in Int
           /\ Ledger(u)' = IF Buyer[o] = u
                           THEN (Ledger(u) + SumFunction(txn'[o])) - SumFunction(txn[o])
                           ELSE Ledger(u)
<1> DEFINE w == [p \in Orders |-> SumFunction(txn[p])]
           v == [p \in Orders |-> SumFunction(txn'[p])]
           t == txn
           r == txn'
<1>1. t \in [Orders -> [Keys -> Int]] /\ r \in [Orders -> [Keys -> Int]]
  BY DEF TypeOK
<1>2. /\ \A p \in Orders : w[p] \in Int
      /\ Ledger(u) = SumFunctionOnSet(w, OrdersOf(u))
      /\ SumFunctionOnSet(w, OrdersOf(u)) \in Int
  <2>1. w = [p \in Orders |-> SumFunction(t[p])]
    OBVIOUS
  <2>2. Ledger(u) = SumFunction([p \in OrdersOf(u) |-> SumFunction(t[p])])
    BY DEF Ledger, OrdersOf
  <2> HIDE DEF w, t
  <2>3. QED
    BY <1>1, <2>1, <2>2, LedgerIsSum
<1>3. /\ \A p \in Orders : v[p] \in Int
      /\ Ledger(u)' = SumFunctionOnSet(v, OrdersOf(u))
  <2>1. v = [p \in Orders |-> SumFunction(r[p])]
    OBVIOUS
  <2>2. Ledger(u)' = SumFunction([p \in OrdersOf(u) |-> SumFunction(r[p])])
    BY DEF Ledger, OrdersOf
  <2> HIDE DEF v, r
  <2>3. QED
    BY <1>1, <2>1, <2>2, LedgerIsSum
<1>4. w[o] = SumFunction(txn[o]) /\ v[o] = SumFunction(txn'[o])
  OBVIOUS
<1>5. \A p \in Orders \ {o} : v[p] = w[p]
  OBVIOUS
<1>6. IsFiniteSet(OrdersOf(u)) /\ OrdersOf(u) \subseteq Orders
      /\ (o \in OrdersOf(u) <=> Buyer[o] = u)
  BY OrdersAssumption, FS_Subset DEF OrdersOf
<1> HIDE DEF w, v
<1>7. CASE Buyer[o] = u
  <2>1. SumFunctionOnSet(v, OrdersOf(u)) = SumFunctionOnSet(w, OrdersOf(u)) + v[o] - w[o]
    BY <1>2, <1>3, <1>5, <1>6, <1>7, SumChange
  <2>2. QED
    BY <1>2, <1>3, <1>4, <1>7, <2>1
<1>8. CASE Buyer[o] # u
  <2>1. SumFunctionOnSet(v, OrdersOf(u)) = SumFunctionOnSet(w, OrdersOf(u))
    BY <1>5, <1>6, <1>8, SumSame
  <2>2. QED
    BY <1>2, <1>3, <1>4, <1>8, <2>1
<1>9. QED
  BY <1>7, <1>8

\* A sound move of one order's account keeps the balances on the ledger.
LEMMA BooksMoney ==
    ASSUME TypeOK, MoneyInv, NEW o \in Orders, NEW acct,
           Moves(AccountOf(o), acct), Books(o, acct), UNCHANGED spent
    PROVE  MoneyInv'
<1> DEFINE b == Buyer[o]
<1>1. /\ acct \in Account /\ acct.balance >= 0 /\ acct.balance \in Int
      /\ acct.txn[SpendKey] = -acct.txn[ExternalKey]
      /\ Outside(acct) = Outside(AccountOf(o))
  BY DEF Moves, Sound, Account
<1>2. /\ txn' \in [Orders -> [Keys -> Int]]
      /\ txn'[o] = acct.txn
      /\ \A p \in Orders \ {o} : txn'[p] = txn[p]
  BY <1>1, BooksEffect
<1>3. b \in Users /\ balance' = [balance EXCEPT ![b] = acct.balance]
  BY AmountType DEF Books
<1>4. acct.balance - SumFunction(txn'[o]) = balance[b] - SumFunction(txn[o])
  <2>1. AccountOf(o).balance = balance[b] /\ AccountOf(o).txn = txn[o]
    BY DEF AccountOf
  <2>2. QED
    BY <1>1, <1>2, <2>1 DEF Outside
<1> HIDE DEF b
<1>5. ASSUME NEW u \in Users
      PROVE  balance'[u] >= 0 /\ balance'[u] = Ledger(u)' - spent'[u]
  <2>1. /\ balance[u] \in Int /\ balance[u] >= 0 /\ spent[u] \in Nat
        /\ balance[u] = Ledger(u) - spent[u] /\ spent'[u] = spent[u]
    BY DEF TypeOK, MoneyInv, BalanceMatchesLedger
  <2>2. /\ Ledger(u) \in Int
        /\ SumFunction(txn[o]) \in Int /\ SumFunction(txn'[o]) \in Int
        /\ Ledger(u)' = IF b = u
                        THEN (Ledger(u) + SumFunction(txn'[o])) - SumFunction(txn[o])
                        ELSE Ledger(u)
    BY <1>2, LedgerChange DEF b
  <2>3. balance'[u] = IF u = b THEN acct.balance ELSE balance[u]
    BY <1>3 DEF TypeOK
  <2>4. CASE u = b
    <3>1. balance'[u] = acct.balance /\ Ledger(u)'
            = (Ledger(u) + SumFunction(txn'[o])) - SumFunction(txn[o])
      BY <2>2, <2>3, <2>4
    <3>2. QED
      BY <1>1, <1>4, <2>1, <2>2, <2>4, <3>1
  <2>5. CASE u # b
    BY <2>1, <2>2, <2>3, <2>5
  <2>6. QED
    BY <2>4, <2>5
<1>6. ASSUME NEW p \in Orders
      PROVE  txn'[p][SpendKey] = -txn'[p][ExternalKey]
  BY <1>1, <1>2 DEF MoneyInv, SpentAsPaid
<1>7. QED
  BY <1>5, <1>6 DEF MoneyInv, BalanceMatchesLedger, SpentAsPaid

LEMMA MoneyKept ==
    ASSUME MoneyInv, UNCHANGED <<balance, txn, spent>>
    PROVE  MoneyInv'
BY DEF MoneyInv, BalanceMatchesLedger, Ledger, SpentAsPaid

LEMMA ProcessMoney ==
    ASSUME TypeOK, MoneyInv, NEW o \in Orders, NEW row, Paying(o, row),
           UNCHANGED spent
    PROVE  MoneyInv'
<1>1. CASE \E by, read : FulfilAs(o, row, by, read)
  <2> DEFINE before == AccountOf(o)
             after == FulfilAccount(before, Kind[o], Amount[o])
  <2>1. Books(o, after)
    BY <1>1 DEF FulfilAs
  <2>2. Sound(before)
    BY SoundAccount
  <2> HIDE DEF before
  <2>3. Moves(before, after)
    BY <2>2, AmountType, FulfilAccountMoves
  <2> HIDE DEF after
  <2>4. QED
    BY <2>1, <2>3, BooksMoney DEF before
<1>2. CASE AlreadyFulfilled(o, row)
  BY <1>2, MoneyKept DEF AlreadyFulfilled, money
<1>3. QED
  BY <1>1, <1>2 DEF Paying, ProcessPaid, Fulfil

LEMMA OrderMoney ==
    ASSUME TypeOK, MoneyInv, NEW o \in Orders,
           ReconcileStopsHalfway(o) \/ BackfillGrants(o)
    PROVE  MoneyInv'
<1> DEFINE before == AccountOf(o)
           halfway == PayAndSpend(before, Amount[o])
           granted == GrantTokens(before, Amount[o])
<1>1. /\ UNCHANGED spent
      /\ Books(o, halfway) \/ Books(o, granted)
  BY DEF ReconcileStopsHalfway, BackfillGrants
<1>2. Sound(before)
  BY SoundAccount
<1> HIDE DEF before
<1>3. Moves(before, halfway) /\ Moves(before, granted)
  BY <1>2, AmountType, PayAndSpendMoves, GrantTokensMoves
<1> HIDE DEF halfway, granted
<1>4. QED
  BY <1>1, <1>3, BooksMoney DEF before

LEMMA ApproveMoney ==
    ASSUME TypeOK, MoneyInv, NEW o \in Orders, NEW i \in 1..MaxRefunds,
           ReviewApprove(o, i)
    PROVE  MoneyInv'
<1> DEFINE before == AccountOf(o)
           amount == refund[o][i].amount
           after == RefundAccount(before, Kind[o], Amount[o], amount, i)
<1>1. UNCHANGED spent /\ Books(o, after)
  BY DEF ReviewApprove
<1>2. Sound(before)
  BY SoundAccount
<1>3. amount \in Nat
  <2>1. i \in DOMAIN refund[o] /\ refund[o] \in Seq(RefundRow)
    BY DEF ReviewApprove, TypeOK
  <2>2. refund[o][i] \in RefundRow
    BY <2>1
  <2>3. QED
    BY <2>2 DEF RefundRow
<1> HIDE DEF before, amount
<1>4. Moves(before, after)
  BY <1>2, <1>3, AmountType, RefundAccountMoves
<1> HIDE DEF after
<1>5. QED
  BY <1>1, <1>4, BooksMoney DEF before

LEMMA SpendMoney ==
    ASSUME TypeOK, MoneyInv, NEW u \in Users, Spend(u)
    PROVE  MoneyInv'
<1>1. /\ balance[u] > 0 /\ UNCHANGED txn
      /\ balance' = [balance EXCEPT ![u] = balance[u] - 1]
      /\ spent' = [spent EXCEPT ![u] = spent[u] + 1]
  BY DEF Spend
<1>2. ASSUME NEW v \in Users
      PROVE  balance'[v] >= 0 /\ balance'[v] = Ledger(v)' - spent'[v]
  <2>1. Ledger(v)' = Ledger(v)
    BY <1>1 DEF Ledger
  <2>2. /\ balance[v] \in Int /\ balance[v] >= 0 /\ spent[v] \in Nat
        /\ balance[v] = Ledger(v) - spent[v]
    BY DEF TypeOK, MoneyInv, BalanceMatchesLedger
  <2>3. Ledger(v) \in Int
    <3>1. txn \in [Orders -> [Keys -> Int]]
      BY DEF TypeOK
    <3>2. SumFunction([o \in OrdersOf(v) |-> SumFunction(txn[o])]) \in Int
      BY <3>1, LedgerIsSum
    <3>3. QED
      BY <3>2 DEF Ledger, OrdersOf
  <2>4. \/ balance'[v] = balance[v] /\ spent'[v] = spent[v]
        \/ v = u /\ balance'[v] = balance[v] - 1 /\ spent'[v] = spent[v] + 1
    BY <1>1 DEF TypeOK
  <2>5. QED
    BY <1>1, <2>1, <2>2, <2>3, <2>4
<1>3. SpentAsPaid'
  BY <1>1 DEF MoneyInv, SpentAsPaid
<1>4. QED
  BY <1>2, <1>3 DEF MoneyInv, BalanceMatchesLedger

LEMMA MoneyStep ==
    ASSUME TypeOK, MoneyInv, [Next]_vars
    PROVE  MoneyInv'
<1>1. ASSUME NEW o \in Orders,
             \/ BuyerNext(o) \/ ProviderNext(o) \/ PollNext(o)
             \/ MarkExpires(o) \/ BackfillGrants(o)
             \/ \E by \in Notices \cup {"poll"} : ReadsPlans(o, by)
      PROVE  MoneyInv'
  <2>1. CASE \/ BuyerNext(o) \/ ProviderNext(o) \/ MarkExpires(o)
             \/ \E by \in Notices \cup {"poll"} : ReadsPlans(o, by)
    BY <2>1, MoneyKept DEF BuyerNext, ProviderNext, Checkout, BuyerPays, CancelPending,
          RefundApply, OpensRefund, ProviderOpens, ProviderRefuses, TradeFinishes,
          MarkExpires, ReadsPlans, money
  <2>2. CASE PollReads(o) \/ ReconcileFindsNothing(o)
    BY <2>2, MoneyKept DEF PollReads, ReconcileFindsNothing, money
  <2>3. CASE Reconcile(o)
    BY <2>3, ProcessMoney DEF Reconcile, Paying
  <2>4. CASE ReconcileStopsHalfway(o) \/ BackfillGrants(o)
    BY <2>4, OrderMoney
  <2>5. QED
    BY <1>1, <2>1, <2>2, <2>3, <2>4 DEF PollNext
<1>2. ASSUME NEW o \in Orders, NEW n \in Notices, NotifyNext(o, n)
      PROVE  MoneyInv'
  <2>1. CASE WechatNotify(o, n) \/ AlipayProcess(o, n)
    BY <2>1, ProcessMoney DEF WechatNotify, AlipayProcess, Paying
  <2>2. CASE AlipayMark(o, n) \/ AlipayDuplicate(o, n) \/ AlipayThrows(o, n)
                \/ AlipayLosesMark(o, n)
    BY <2>2, MoneyKept DEF AlipayMark, AlipayDuplicate, AlipayThrows, AlipayLosesMark, money
  <2>3. QED
    BY <1>2, <2>1, <2>2 DEF NotifyNext
<1>3. ASSUME NEW o \in Orders, NEW i \in 1..MaxRefunds, ReviewNext(o, i)
      PROVE  MoneyInv'
  BY <1>3, ApproveMoney, MoneyKept DEF ReviewNext, ReviewReject, money
<1>4. CASE SweepReads \/ SweepWrites \/ BackfillReads
  BY <1>4, MoneyKept DEF SweepReads, SweepWrites, BackfillReads, money
<1>5. ASSUME NEW u \in Users, UserNext(u)
      PROVE  MoneyInv'
  BY <1>5, SpendMoney, MoneyKept DEF UserNext, ConsumeQuota, ResetQuota, money
<1>6. CASE UNCHANGED vars
  BY <1>6, MoneyKept DEF vars, money
<1>7. QED
  BY <1>1, <1>2, <1>3, <1>4, <1>5, <1>6 DEF Next

\* A legacy plan has its payment and its spending booked, nothing else is.
LEMMA InitMoney ==
    ASSUME Init
    PROVE  MoneyInv
<1>1. TypeOK
  BY InitType
<1>2. ASSUME NEW o \in Orders
      PROVE  txn[o][SpendKey] = -txn[o][ExternalKey] /\ SumFunction(txn[o]) = 0
  <2> DEFINE paid == [k \in Keys |-> IF o \in Legacy /\ k = ExternalKey THEN Amount[o] ELSE 0]
             zero == [k \in Keys |-> 0]
             f == txn[o]
  <2>1. /\ ExternalKey \in Keys /\ SpendKey \in Keys /\ ExternalKey # SpendKey
        /\ Amount[o] \in Int
    BY AmountType DEF Keys, ExternalKey, SpendKey
  <2>2. f = [k \in Keys |-> IF o \in Legacy /\ k = ExternalKey THEN Amount[o]
                            ELSE IF o \in Legacy /\ k = SpendKey THEN -Amount[o]
                            ELSE 0]
    BY DEF Init
  <2>3. /\ f \in [Keys -> Int] /\ paid \in [Keys -> Int] /\ zero \in [Keys -> Int]
        /\ \A k \in Keys : k # ExternalKey => paid[k] = zero[k]
        /\ \A k \in Keys : k # SpendKey => f[k] = paid[k]
        /\ zero[ExternalKey] = 0 /\ paid[SpendKey] = 0
        /\ f[SpendKey] = -f[ExternalKey]
        /\ paid[ExternalKey] = f[ExternalKey]
    BY <2>1, <2>2
  <2>4. SumFunction(zero) = 0
    <3>1. \A k \in Keys : zero[k] = 0
      OBVIOUS
    <3>2. SumFunction(zero) = SumFunctionOnSet(zero, Keys)
      BY DEF SumFunction
    <3> HIDE DEF zero
    <3>3. QED
      BY <3>1, <3>2, KeysFinite, SumZero
  <2> HIDE DEF f, paid, zero
  <2>5. SumFunction(paid) = SumFunction(zero) + paid[ExternalKey] - zero[ExternalKey]
    BY <2>1, <2>3, TxnSum
  <2>6. SumFunction(f) = SumFunction(paid) + f[SpendKey] - paid[SpendKey]
    BY <2>1, <2>3, TxnSum
  <2>7. f[ExternalKey] \in Int
    BY <2>1, <2>3
  <2>8. SumFunction(f) = 0 /\ f[SpendKey] = -f[ExternalKey]
    BY <2>3, <2>4, <2>5, <2>6, <2>7
  <2>9. QED
    BY <2>8 DEF f
<1>3. ASSUME NEW u \in Users
      PROVE  Ledger(u) = 0
  <2> DEFINE w == [o \in Orders |-> SumFunction(txn[o])]
  <2>1. SumFunction([o \in OrdersOf(u) |-> SumFunction(txn[o])])
          = SumFunctionOnSet(w, OrdersOf(u))
    <3>1. txn \in [Orders -> [Keys -> Int]] /\ w = [o \in Orders |-> SumFunction(txn[o])]
      BY <1>1 DEF TypeOK
    <3> HIDE DEF w
    <3>2. QED
      BY <3>1, LedgerIsSum
  <2>2. IsFiniteSet(OrdersOf(u)) /\ \A o \in OrdersOf(u) : w[o] = 0
    BY <1>2, OrdersAssumption, FS_Subset DEF OrdersOf
  <2> HIDE DEF w
  <2>3. QED
    BY <2>1, <2>2, SumZero DEF Ledger, OrdersOf
<1>4. \A u \in Users : balance[u] = 0 /\ spent[u] = 0
  BY DEF Init
<1>5. QED
  BY <1>2, <1>3, <1>4 DEF MoneyInv, BalanceMatchesLedger, SpentAsPaid

\* The balance of every user is what the booked transactions and the metered
\* usage leave, and never below zero, for any number of users and orders.
THEOREM WalletMatchesLedger == Spec => []BalanceMatchesLedger
<1>1. Init => MoneyInv
  BY InitMoney
<1>2. IInv /\ MoneyInv /\ [Next]_vars => MoneyInv'
  BY MoneyStep DEF IInv
<1>3. MoneyInv => BalanceMatchesLedger
  BY DEF MoneyInv
<1>4. QED
  BY <1>1, <1>2, <1>3, Invariance, PTL DEF Spec

----------------------------------------------------------------------------
(***************************************************************************)
(* The tokens of a plan.  ClawbackInv speaks of one order at a time: Tokens *)
(* is what it says of one, and a step of another order keeps it.           *)
(***************************************************************************)
Tokens(o) ==
    /\ TokenTrace(o)
    /\ Kind[o] = "plan" /\ Approved(o) =>
          /\ -txn[o][TokenRevokeKey] >= Lesser(RoundYuan(Amount[o]), Amount[o])
          /\ o \notin Legacy => -txn[o][TokenRevokeKey] <= txn[o][TokenKey]

LEMMA TokensIsClawbackInv == ClawbackInv <=> \A o \in Orders : Tokens(o)
BY DEF ClawbackInv, TokenTraces, ClawbackComplete, Tokens

\* The rows of an order after a step say what rows before it said.
SameRows(o) == \A new \in RowsOf(o)' : \E row \in RowsOf(o) : TakesRow(new, row)

LEMMA TokensKept ==
    ASSUME NEW o \in Orders, Tokens(o), SameRows(o),
           refund'[o] = refund[o],
           txn'[o][TokenKey] = txn[o][TokenKey],
           txn'[o][TokenRevokeKey] = txn[o][TokenRevokeKey]
    PROVE  Tokens(o)'
<1>1. Approved(o)' <=> Approved(o)
  BY DEF Approved
<1>2. TokenGrant(o)' = TokenGrant(o)
  BY DEF TokenGrant
<1>3. TokenTrace(o)'
  <2>1. (\E new \in RowsOf(o)' : new.fulfilled) => \E row \in RowsOf(o) : row.fulfilled
    BY DEF SameRows, TakesRow
  <2>2. (\A row \in RowsOf(o) : row.refunded = 0) => \A new \in RowsOf(o)' : new.refunded = 0
    BY DEF SameRows, TakesRow
  <2>3. QED
    BY <1>1, <1>2, <2>1, <2>2 DEF Tokens, TokenTrace
<1>4. QED
  BY <1>1, <1>3 DEF Tokens

\* A row is a row, never the mark of having loaded none.
LEMMA RowIsNotNoRow ==
    ASSUME TypeOK, NEW o \in Orders
    PROVE  /\ order[o] \in OrderRow /\ order[o] # NoRow /\ order[o] \in RowsOf(o)
           /\ sweep[o] # NoRow => sweep[o] \in RowsOf(o)
           /\ view[o] # NoRow => view[o] \in RowsOf(o)
BY OrdersAssumption DEF TypeOK, RowsOf

LEMMA RowsKept ==
    ASSUME TypeOK, NEW o \in Orders,
           \/ TakesRow(order'[o], order[o])
           \/ sweep[o] # NoRow /\ TakesRow(order'[o], sweep[o])
           \/ view[o] # NoRow /\ TakesRow(order'[o], view[o]),
           sweep'[o] \in {sweep[o], NoRow, order[o]},
           view'[o] \in {view[o], NoRow, order[o]}
    PROVE  SameRows(o)
<1>1. \A row : TakesRow(row, row)
  BY DEF TakesRow
<1>2. \E row \in RowsOf(o) : TakesRow(order'[o], row)
  BY RowIsNotNoRow
<1>3. \A new \in RowsOf(o)' : new = order'[o] \/ new \in RowsOf(o)
  BY RowIsNotNoRow DEF RowsOf
<1>4. QED
  BY <1>1, <1>2, <1>3 DEF SameRows

LEMMA QuietTokens ==
    ASSUME TypeOK, NEW o \in Orders, Tokens(o), Quiet
    PROVE  Tokens(o)'
<1>1. SameRows(o)
  BY RowsKept DEF Quiet
<1>2. refund'[o] = refund[o] /\ txn'[o] = txn[o]
  BY DEF Quiet
<1>3. QED
  BY <1>1, <1>2, TokensKept

\* A step that books tokens, if at all, as a grant does.
LEMMA GrantKeepsTokens ==
    ASSUME TypeOK, NEW o \in Orders, Tokens(o), SameRows(o),
           refund'[o] = refund[o],
           txn'[o][TokenKey] = GrantedTokens(txn[o], RoundYuan(Amount[o])),
           txn'[o][TokenRevokeKey] = txn[o][TokenRevokeKey]
    PROVE  Tokens(o)'
<1> DEFINE t == txn[o][TokenKey]
           r == RoundYuan(Amount[o])
<1>1. r \in Int /\ t \in {0, TokenGrant(o)}
  BY AmountType, RoundYuanType DEF Tokens, TokenTrace
<1>2. /\ txn'[o][TokenKey] = IF r <= 0 \/ t # 0 THEN t ELSE r
      /\ TokenGrant(o) = IF r <= 0 THEN 0 ELSE r
  BY DEF GrantedTokens, Booked, TokenGrant
<1> HIDE DEF r, t
<1>3. txn'[o][TokenKey] = TokenGrant(o)
  BY <1>1, <1>2
<1>4. TokenGrant(o)' = TokenGrant(o)
  BY DEF TokenGrant
<1>5. Approved(o)' <=> Approved(o)
  BY DEF Approved
<1>6. TokenTrace(o)'
  <2>1. (\A row \in RowsOf(o) : row.refunded = 0) => \A new \in RowsOf(o)' : new.refunded = 0
    BY DEF SameRows, TakesRow
  <2>2. QED
    BY <1>3, <1>4, <1>5, <2>1 DEF Tokens, TokenTrace
<1>7. Kind[o] = "plan" /\ Approved(o) /\ o \notin Legacy => txn[o][TokenKey] = TokenGrant(o)
  <2>1. Approved(o) => refund[o] # <<>>
    BY DEF Approved
  <2>2. QED
    BY <2>1 DEF Tokens, TokenTrace
<1>8. QED
  BY <1>3, <1>5, <1>6, <1>7 DEF Tokens

LEMMA BackfillTokens ==
    ASSUME TypeOK, NEW o \in Orders, BackfillGrants(o), NEW p \in Orders, Tokens(p)
    PROVE  Tokens(p)'
<1>1. UNCHANGED <<order, sweep, view, refund>>
  BY DEF BackfillGrants
<1>2. SameRows(p)
  BY <1>1, RowsKept DEF TakesRow
<1>3. CASE p # o
  <2>1. txn'[p] = txn[p]
    BY <1>3 DEF BackfillGrants, Books, TypeOK
  <2>2. QED
    BY <1>1, <1>2, <2>1, TokensKept
<1>4. CASE p = o
  <2> DEFINE before == AccountOf(o)
             after == GrantTokens(before, Amount[o])
  <2>1. before \in Account /\ before.txn = txn[o] /\ Amount[o] \in Nat
    BY AccountOfType, AmountType
  <2>2. Books(o, after)
    BY DEF BackfillGrants
  <2> HIDE DEF before
  <2>3. /\ after \in Account
        /\ after.txn[TokenRevokeKey] = before.txn[TokenRevokeKey]
        /\ after.txn[TokenKey] = GrantedTokens(before.txn, RoundYuan(Amount[o]))
    BY <2>1, KeysDiffer, GrantTokensEffect, GrantTokensBooks
       DEF TokenKey, TokenRevokeKey
  <2> HIDE DEF after
  <2>4. txn'[o] = after.txn
    BY <2>2, <2>3, BooksEffect
  <2>5. QED
    BY <1>1, <1>2, <1>4, <2>1, <2>3, <2>4, GrantKeepsTokens
<1>5. QED
  BY <1>3, <1>4

LEMMA HalfwayTokens ==
    ASSUME TypeOK, NEW o \in Orders, ReconcileStopsHalfway(o), NEW p \in Orders, Tokens(p)
    PROVE  Tokens(p)'
<1>1. /\ UNCHANGED <<sweep, refund>>
      /\ view' = [view EXCEPT ![o] = NoRow] /\ view[o] # NoRow
      /\ order' = order \/ order' = [order EXCEPT ![o] = PaidRow(view[o])]
  BY DEF ReconcileStopsHalfway
<1>2. TakesRow(PaidRow(view[o]), view[o])
  BY <1>1 DEF PaidRow, TakesRow, TypeOK, OrderRow
<1>3. SameRows(p)
  <2>1. DOMAIN order = Orders /\ DOMAIN view = Orders
    BY DEF TypeOK
  <2>2. \/ TakesRow(order'[p], order[p])
        \/ view[p] # NoRow /\ TakesRow(order'[p], view[p])
    <3>1. order'[p] = order[p] \/ (p = o /\ order'[p] = PaidRow(view[o]))
      BY <1>1, <2>1
    <3>2. TakesRow(order[p], order[p])
      BY DEF TakesRow
    <3>3. QED
      BY <1>1, <1>2, <3>1, <3>2
  <2>3. view'[p] \in {view[p], NoRow} /\ sweep'[p] = sweep[p]
    BY <1>1, <2>1
  <2>4. QED
    BY <2>2, <2>3, RowsKept
<1>4. txn'[p][TokenKey] = txn[p][TokenKey] /\ txn'[p][TokenRevokeKey] = txn[p][TokenRevokeKey]
  <2> DEFINE before == AccountOf(o)
             after == PayAndSpend(before, Amount[o])
  <2>1. before \in Account /\ before.txn = txn[o] /\ Amount[o] \in Nat
    BY AccountOfType, AmountType
  <2>2. Books(o, after)
    BY DEF ReconcileStopsHalfway
  <2> HIDE DEF before
  <2>3. /\ after \in Account
        /\ \A k \in Keys \ {ExternalKey, SpendKey} : after.txn[k] = before.txn[k]
    BY <2>1, PayAndSpendEffect
  <2> HIDE DEF after
  <2>4. txn'[o] = after.txn /\ \A q \in Orders \ {o} : txn'[q] = txn[q]
    BY <2>2, <2>3, BooksEffect
  <2>5. /\ TokenKey \in Keys \ {ExternalKey, SpendKey}
        /\ TokenRevokeKey \in Keys \ {ExternalKey, SpendKey}
    BY DEF Keys, TokenKey, TokenRevokeKey, ExternalKey, SpendKey
  <2>6. QED
    BY <2>1, <2>3, <2>4, <2>5
<1>5. refund'[p] = refund[p]
  BY <1>1
<1>6. QED
  BY <1>3, <1>4, <1>5, TokensKept

LEMMA ProcessTokens ==
    ASSUME TypeOK, NEW o \in Orders, NEW row \in OrderRow, Processes(o, row),
           NEW p \in Orders, Tokens(p)
    PROVE  Tokens(p)'
<1>1. /\ Paying(o, row)
      /\ row = order[o] \/ row = view[o]
      /\ UNCHANGED <<refund, sweep>>
      /\ \A q \in Orders : view'[q] \in {view[q], NoRow}
  BY DEF Processes
<1>2. row \in RowsOf(o) /\ row # NoRow
  <2>1. row # NoRow
    BY OrdersAssumption
  <2>2. QED
    BY <1>1, <2>1 DEF RowsOf
<1>3. AccountOf(o) \in Account /\ AccountOf(o).txn = txn[o] /\ Amount[o] \in Nat
  BY AccountOfType, AmountType
<1>4. /\ order'[o].refunded = row.refunded
      /\ row.fulfilled => TakesRow(order'[o], row)
      /\ \A q \in Orders \ {o} : order'[q] = order[q]
  <2>1. DOMAIN order = Orders
    BY DEF TypeOK
  <2>2. /\ FulfilledRow(row).refunded = row.refunded
        /\ PaidRow(row).refunded = row.refunded
        /\ PaidRow(row).fulfilled = row.fulfilled
    BY DEF FulfilledRow, PaidRow, OrderRow
  <2>3. \/ ~row.fulfilled /\ order' = [order EXCEPT ![o] = FulfilledRow(row)]
        \/ order' = [order EXCEPT ![o] = PaidRow(row)]
    BY <1>1 DEF Paying, ProcessPaid, Fulfil, FulfilAs, AlreadyFulfilled
  <2>4. QED
    BY <2>1, <2>2, <2>3 DEF TakesRow
<1>5. CASE p # o
  <2>1. SameRows(p)
    <3>1. TakesRow(order'[p], order[p])
      BY <1>4, <1>5 DEF TakesRow
    <3>2. view'[p] \in {view[p], NoRow} /\ sweep'[p] = sweep[p]
      BY <1>1
    <3>3. QED
      BY <3>1, <3>2, RowsKept
  <2>2. txn'[p] = txn[p] /\ refund'[p] = refund[p]
    BY <1>1, <1>5 DEF Paying, ProcessPaid, Fulfil, FulfilAs, AlreadyFulfilled, Books, money, TypeOK
  <2>3. QED
    BY <2>1, <2>2, TokensKept
<1>6. CASE p = o /\ row.fulfilled
  <2>1. TakesRow(order'[o], row)
    BY <1>4, <1>6
  <2>2. SameRows(o)
    <3>1. \/ TakesRow(order'[o], order[o])
          \/ view[o] # NoRow /\ TakesRow(order'[o], view[o])
      BY <1>1, <1>2, <2>1
    <3>2. view'[o] \in {view[o], NoRow} /\ sweep'[o] = sweep[o]
      BY <1>1
    <3>3. QED
      BY <3>1, <3>2, RowsKept
  <2>3. txn' = txn /\ refund' = refund
    BY <1>1, <1>6 DEF Paying, ProcessPaid, Fulfil, FulfilAs, AlreadyFulfilled, money
  <2>4. QED
    BY <1>6, <2>2, <2>3, TokensKept
<1>7. CASE p = o /\ ~row.fulfilled
  <2> DEFINE before == AccountOf(o)
             kind == Kind[o]
             after == FulfilAccount(before, kind, Amount[o])
             t == txn[o][TokenKey]
             r == RoundYuan(Amount[o])
  <2>1. Books(o, after)
    BY <1>1, <1>7 DEF Paying, ProcessPaid, Fulfil, FulfilAs, AlreadyFulfilled
  <2>2. after \in Account
    BY <1>3, AmountType, FulfilAccountEffect
  <2>3. /\ after.txn[TokenRevokeKey] = txn[o][TokenRevokeKey]
        /\ after.txn[TokenKey] = IF kind = "plan" THEN GrantedTokens(txn[o], r) ELSE t
    <3> HIDE DEF kind, before
    <3>1. before \in Account /\ before.txn = txn[o] /\ Amount[o] \in Nat
      BY <1>3 DEF before
    <3>2. QED
      BY <3>1, FulfilAccountTokens
  <2> HIDE DEF after
  <2>4. txn'[o] = after.txn
    BY <2>1, <2>2, BooksEffect
  <2>5. r \in Int /\ t \in {0, TokenGrant(o)}
    BY <1>3, <1>7, RoundYuanType DEF Tokens, TokenTrace
  <2>6. /\ TokenGrant(o) = IF r <= 0 THEN 0 ELSE r
        /\ GrantedTokens(txn[o], r) = IF r <= 0 \/ t # 0 THEN t ELSE r
    BY DEF TokenGrant, GrantedTokens, Booked
  <2> HIDE DEF t, r
  <2>7. /\ txn'[o][TokenKey] \in {0, TokenGrant(o)}
        /\ kind = "plan" => txn'[o][TokenKey] = TokenGrant(o)
    BY <2>3, <2>4, <2>5, <2>6
  <2>8. /\ Approved(o)' <=> Approved(o)
        /\ TokenGrant(o)' = TokenGrant(o)
        /\ refund'[o] = refund[o]
    BY <1>1 DEF Approved, TokenGrant
  <2>9. (\A q \in RowsOf(o) : q.refunded = 0) => \A q \in RowsOf(o)' : q.refunded = 0
    <3>1. \A q \in RowsOf(o)' : q = order'[o] \/ q \in RowsOf(o)
      BY <1>1 DEF RowsOf
    <3>2. QED
      BY <1>2, <1>4, <3>1
  <2>10. TokenTrace(o)'
    BY <1>7, <2>3, <2>4, <2>7, <2>8, <2>9 DEF Tokens, TokenTrace, kind
  <2>11. kind = "plan" /\ Approved(o) /\ o \notin Legacy => t = TokenGrant(o)
    <3>1. Approved(o) => refund[o] # <<>>
      BY DEF Approved
    <3>2. QED
      BY <1>7, <3>1 DEF Tokens, TokenTrace, t, kind
  <2>12. QED
    BY <1>7, <2>3, <2>4, <2>7, <2>8, <2>10, <2>11 DEF Tokens, t, kind
<1>8. QED
  BY <1>5, <1>6, <1>7

\* A new request is for all of the order; nothing of it was refunded yet.
LEMMA ApplyTokens ==
    ASSUME TypeOK, NEW o \in Orders, RefundApply(o), NEW p \in Orders, Tokens(p)
    PROVE  Tokens(p)'
<1> DEFINE asked == [status |-> "pending", amount |-> Refundable(o)]
<1>1. /\ refund' = [refund EXCEPT ![o] = Append(refund[o], asked)]
      /\ order' = [order EXCEPT ![o].status = "refunding"]
      /\ order[o].fulfilled /\ OpenRefunds(o) = {}
      /\ UNCHANGED <<sweep, view, txn>>
  BY DEF RefundApply, OpensRefund, jobs, money
<1>2. SameRows(p)
  <2>1. TakesRow(order'[p], order[p])
    BY <1>1 DEF TypeOK, OrderRow, TakesRow
  <2>2. QED
    BY <1>1, <2>1, RowsKept
<1>3. CASE p # o
  <2>1. refund'[p] = refund[p]
    BY <1>1, <1>3 DEF TypeOK
  <2>2. QED
    BY <1>1, <1>2, <2>1, TokensKept
<1>4. CASE p = o
  <2>1. refund[o] \in Seq(RefundRow) /\ refund'[o] = Append(refund[o], asked)
    BY <1>1 DEF TypeOK
  <2>2. ~Approved(o) /\ asked.status # "approved" /\ asked.amount = Refundable(o)
    BY <1>1 DEF Approved, OpenRefunds
  <2>3. Refundable(o) = Amount[o]
    <3>1. order[o].refunded = 0
      BY <1>4, <2>2, RowIsNotNoRow DEF Tokens, TokenTrace
    <3>2. QED
      BY <3>1, AmountType DEF Refundable
  <2> HIDE DEF asked
  <2>4. \A j \in DOMAIN refund'[o] :
            refund'[o][j] = asked \/ (j \in DOMAIN refund[o] /\ refund'[o][j] = refund[o][j])
    BY <2>1
  <2>5. ~Approved(o)' /\ TokenGrant(o)' = TokenGrant(o)
    BY <2>2, <2>4 DEF Approved, TokenGrant
  <2>6. \A i \in DOMAIN refund'[o] : refund'[o][i].amount = Amount[o]
    BY <1>4, <2>2, <2>3, <2>4 DEF Tokens, TokenTrace
  <2>7. \A q \in RowsOf(o)' : q.refunded = 0
    BY <1>2, <1>4, <2>2 DEF Tokens, TokenTrace, SameRows, TakesRow
  <2>8. Kind[o] = "plan" /\ o \notin Legacy => txn[o][TokenKey] = TokenGrant(o)
    BY <1>1, <1>4, RowIsNotNoRow DEF Tokens, TokenTrace
  <2>9. TokenTrace(o)'
    BY <1>1, <1>4, <2>2, <2>5, <2>6, <2>7, <2>8 DEF Tokens, TokenTrace
  <2>10. QED
    BY <1>4, <2>5, <2>9 DEF Tokens
<1>5. QED
  BY <1>3, <1>4

LEMMA RejectTokens ==
    ASSUME TypeOK, NEW o \in Orders, NEW i \in 1..MaxRefunds, ReviewReject(o, i),
           NEW p \in Orders, Tokens(p)
    PROVE  Tokens(p)'
<1>1. /\ i \in DOMAIN refund[o] /\ refund[o][i].status = "pending"
      /\ refund' = [refund EXCEPT ![o][i].status = "rejected"]
      /\ order' = [order EXCEPT ![o].status = "paid"]
      /\ UNCHANGED <<sweep, view, txn>>
  BY DEF ReviewReject, jobs, money
<1>2. SameRows(p)
  <2>1. TakesRow(order'[p], order[p])
    BY <1>1 DEF TypeOK, OrderRow, TakesRow
  <2>2. QED
    BY <1>1, <2>1, RowsKept
<1>3. /\ DOMAIN refund'[o] = DOMAIN refund[o]
      /\ \A q \in Orders \ {o} : refund'[q] = refund[q]
      /\ refund'[o][i] = [status |-> "rejected", amount |-> refund[o][i].amount]
      /\ \A j \in DOMAIN refund[o] \ {i} : refund'[o][j] = refund[o][j]
  BY <1>1, ReviewedRefund
<1>4. CASE p # o
  BY <1>1, <1>2, <1>3, <1>4, TokensKept
<1>5. CASE p = o
  <2>1. Approved(o)' <=> Approved(o)
    BY <1>1, <1>3 DEF Approved
  <2>2. TokenGrant(o)' = TokenGrant(o)
    BY DEF TokenGrant
  <2>3. \A j \in DOMAIN refund'[o] : refund'[o][j].amount = Amount[o]
    BY <1>3, <1>5 DEF Tokens, TokenTrace
  <2>4. (\A q \in RowsOf(o) : q.refunded = 0) => \A q \in RowsOf(o)' : q.refunded = 0
    BY <1>2, <1>5 DEF SameRows, TakesRow
  <2>5. Kind[o] = "plan" /\ o \notin Legacy => txn[o][TokenKey] = TokenGrant(o)
    <3>1. refund[o] # <<>>
      BY <1>1
    <3>2. QED
      BY <1>5, <3>1 DEF Tokens, TokenTrace
  <2>6. TokenTrace(o)'
    BY <1>1, <1>5, <2>1, <2>2, <2>3, <2>4, <2>5 DEF Tokens, TokenTrace
  <2>7. QED
    BY <1>1, <1>5, <2>1, <2>6 DEF Tokens
<1>6. QED
  BY <1>4, <1>5

LEMMA ApproveTokens ==
    ASSUME IInv, MoneyInv, NEW o \in Orders, NEW i \in 1..MaxRefunds, ReviewApprove(o, i),
           NEW p \in Orders, Tokens(p)
    PROVE  Tokens(p)'
<1> DEFINE before == AccountOf(o)
           amount == refund[o][i].amount
           after == RefundAccount(before, Kind[o], Amount[o], amount, i)
<1>1. TypeOK /\ RefundTraces
  BY DEF IInv
<1>2. /\ i \in DOMAIN refund[o] /\ refund[o][i].status = "pending"
      /\ refund' = [refund EXCEPT ![o][i].status = "approved"]
      /\ Books(o, after)
      /\ UNCHANGED <<sweep, view>>
  BY DEF ReviewApprove, jobs
<1>3. /\ DOMAIN refund'[o] = DOMAIN refund[o]
      /\ \A q \in Orders \ {o} : refund'[q] = refund[q]
      /\ refund'[o][i] = [status |-> "approved", amount |-> refund[o][i].amount]
      /\ \A j \in DOMAIN refund[o] \ {i} : refund'[o][j] = refund[o][j]
  BY <1>1, <1>2, ReviewedRefund
<1>4. /\ order'[o].fulfilled = order[o].fulfilled
      /\ \A q \in Orders \ {o} : order'[q] = order[q] /\ txn'[q] = txn[q]
  BY <1>1, ApproveEffect
<1>5. CASE p # o
  <2>1. SameRows(p)
    <3>1. TakesRow(order'[p], order[p])
      BY <1>4, <1>5 DEF TakesRow
    <3>2. QED
      BY <1>1, <1>2, <3>1, RowsKept
  <2>2. QED
    BY <1>3, <1>4, <1>5, <2>1, TokensKept
<1>6. CASE p = o
  <2>1. ~Approved(o)
    BY <1>1, <1>2 DEF RefundTraces, OpenRefunds, Approved
  <2>2. /\ amount = Amount[o] /\ ~Booked(txn[o], TokenRevokeKey)
        /\ txn[o][TokenKey] \in {0, TokenGrant(o)}
    BY <1>2, <1>6, <2>1 DEF Tokens, TokenTrace, Booked
  <2>3. ~Booked(txn[o], RefundKey(i))
    BY <1>1, <1>2 DEF RefundTraces
  <2>4. Sound(before) /\ before \in Account /\ before.txn = txn[o]
    BY <1>1, SoundAccount, AccountOfType
  <2>5. Amount[o] \in Nat \ {0} /\ Amount[o] \in Nat
    BY AmountType
  <2> HIDE DEF before, amount
  <2>6. after \in Account /\ after.txn[TokenKey] = txn[o][TokenKey]
    <3> DEFINE key == RefundKey(i)
               kind == Kind[o]
    <3>1. key = RefundKey(i) /\ TokenKey \in Keys /\ TokenKey # key /\ TokenKey # TokenRevokeKey
      BY KeysDiffer DEF TokenKey, TokenRevokeKey
    <3>2. amount \in Nat
      BY <2>2, <2>5
    <3>3. after = RefundAccount(before, kind, Amount[o], amount, i)
      OBVIOUS
    <3> HIDE DEF key, kind, after
    <3>4. /\ after \in Account
          /\ \A k \in Keys : k # key /\ k # TokenRevokeKey => after.txn[k] = before.txn[k]
      BY <2>4, <2>5, <3>1, <3>2, <3>3, RefundAccountEffect
    <3>5. QED
      BY <2>4, <3>1, <3>4
  <2>7. Kind[o] = "plan" =>
           /\ -after.txn[TokenRevokeKey] >= Lesser(RoundYuan(Amount[o]), Amount[o])
           /\ -after.txn[TokenRevokeKey] <= TokenGrant(o)
    <3>1. SUFFICES ASSUME Kind[o] = "plan"
                   PROVE  /\ -after.txn[TokenRevokeKey] >= Lesser(RoundYuan(Amount[o]), Amount[o])
                          /\ -after.txn[TokenRevokeKey] <= TokenGrant(o)
      OBVIOUS
    <3>2. after = RefundAccount(before, "plan", Amount[o], Amount[o], i)
      BY <2>2, <3>1
    <3>3. ~Booked(before.txn, RefundKey(i)) /\ ~Booked(before.txn, TokenRevokeKey)
      BY <2>2, <2>3, <2>4
    <3> HIDE DEF after
    <3>4. /\ -after.txn[TokenRevokeKey] >= Lesser(RoundYuan(Amount[o]), Amount[o])
          /\ -after.txn[TokenRevokeKey] <=
                IF RoundYuan(Amount[o]) <= 0 THEN 0 ELSE RoundYuan(Amount[o])
      BY <2>4, <2>5, <3>2, <3>3, RefundAccountTokens
    <3>5. QED
      BY <3>4 DEF TokenGrant
  <2> HIDE DEF after
  <2>8. txn'[o] = after.txn
    BY <1>1, <1>2, <2>6, BooksEffect
  <2>9. Approved(o)' /\ TokenGrant(o)' = TokenGrant(o)
    BY <1>2, <1>3 DEF Approved, TokenGrant
  <2>10. \A j \in DOMAIN refund'[o] : refund'[o][j].amount = Amount[o]
    BY <1>3, <1>6 DEF Tokens, TokenTrace
  <2>11. Kind[o] = "plan" /\ o \notin Legacy => txn[o][TokenKey] = TokenGrant(o)
    <3>1. refund[o] # <<>>
      BY <1>2
    <3>2. QED
      BY <1>6, <3>1 DEF Tokens, TokenTrace
  <2>12. TokenTrace(o)'
    BY <2>2, <2>6, <2>8, <2>9, <2>10, <2>11 DEF TokenTrace
  <2>13. QED
    BY <1>6, <2>6, <2>7, <2>8, <2>9, <2>11, <2>12 DEF Tokens
<1>7. QED
  BY <1>5, <1>6

LEMMA ClawbackStep ==
    ASSUME IInv, MoneyInv, ClawbackInv, [Next]_vars
    PROVE  ClawbackInv'
<1>1. TypeOK /\ PaymentTraces /\ \A o \in Orders : Tokens(o)
  BY TokensIsClawbackInv DEF IInv
<1>2. SUFFICES ASSUME NEW p \in Orders
               PROVE  Tokens(p)'
  BY DEF ClawbackInv, TokenTraces, ClawbackComplete, Tokens
<1>3. ASSUME NEW o \in Orders, NEW i \in 1..MaxRefunds, ReviewNext(o, i)
      PROVE  Tokens(p)'
  BY <1>1, <1>3, ApproveTokens, RejectTokens DEF ReviewNext
<1>4. QED
  BY <1>1, <1>3, StepKinds, ProcessTokens, HalfwayTokens, BackfillTokens, ApplyTokens,
     QuietTokens

LEMMA InitClawback ==
    ASSUME Init
    PROVE  ClawbackInv
<1>1. SUFFICES ASSUME NEW o \in Orders
               PROVE  Tokens(o)
  BY TokensIsClawbackInv
<1>2. /\ refund[o] = <<>> /\ sweep[o] = NoRow /\ view[o] = NoRow
      /\ order[o].refunded = 0
      /\ order[o].fulfilled => o \in Legacy
  BY DEF Init
<1>3. txn[o][TokenKey] = 0 /\ txn[o][TokenRevokeKey] = 0
  BY DEF Init, Keys, TokenKey, TokenRevokeKey, ExternalKey, SpendKey
<1>4. ~Approved(o) /\ RowsOf(o) \subseteq {order[o]}
  BY <1>2 DEF Approved, RowsOf
<1>5. QED
  BY <1>2, <1>3, <1>4 DEF Tokens, TokenTrace

\* A refunded plan has paid back its tokens or as many as it was refunded,
\* whatever was spent meanwhile, and no more than it was granted.
THEOREM RefundClawsBack == Spec => []ClawbackComplete
<1>1. Init => MoneyInv /\ ClawbackInv
  BY InitMoney, InitClawback
<1>2. IInv /\ (MoneyInv /\ ClawbackInv) /\ [Next]_vars => (MoneyInv /\ ClawbackInv)'
  BY MoneyStep, ClawbackStep DEF IInv
<1>3. MoneyInv /\ ClawbackInv => ClawbackComplete
  BY DEF ClawbackInv
<1>4. QED
  BY <1>1, <1>2, <1>3, Invariance, PTL DEF Spec

----------------------------------------------------------------------------
(***************************************************************************)
(* The answers to the provider.  Answered is what AnswerInv says of one    *)
(* order; NoFailure, that no handler has failed so far.                    *)
(***************************************************************************)
NoFailure == exceptions = 0 /\ lostMarks = 0

Answered(o) ==
    /\ Paid(o) /\ notify[o] = {} => Handled(o)
    /\ o \in seen => Handled(o)

LEMMA AnsweredIsAnswerInv == AnswerInv <=> \A o \in Guarded : Answered(o)
BY DEF AnswerInv, AnsweredMeansHandled, MarkMeansHandled, Answered, Paid

\* Nothing takes the flag from the row of a guarded order.
LEMMA StaysFulfilled ==
    ASSUME IInv, [Next]_vars, NEW o \in Guarded, order[o].fulfilled
    PROVE  order'[o].fulfilled
<1>1. /\ TypeOK /\ PaymentTraces /\ o \in Orders
      /\ sweep[o] = NoRow /\ view[o] = NoRow
  BY DEF IInv, FlagTellsGrants, Guarded
<1>2. ASSUME NEW q \in Orders, NEW row \in OrderRow, Processes(q, row)
      PROVE  order'[o].fulfilled
  <2>1. Paying(q, row)
    BY <1>2 DEF Processes
  <2>2. order'[q].fulfilled /\ \A r \in Orders \ {q} : order'[r] = order[r]
    BY <1>1, <2>1, ProcessPaidEffect
  <2>3. QED
    BY <1>1, <2>2
<1>3. ASSUME NEW q \in Orders, ReconcileStopsHalfway(q) \/ BackfillGrants(q) \/ RefundApply(q)
      PROVE  order'[o].fulfilled
  <2>1. DOMAIN order = Orders /\ \A r \in Orders : order[r] \in OrderRow
    BY <1>1 DEF TypeOK
  <2>2. CASE ReconcileStopsHalfway(q)
    <3>1. q # o /\ (order' = order \/ order' = [order EXCEPT ![q] = PaidRow(view[q])])
      BY <1>1, <2>2 DEF ReconcileStopsHalfway
    <3>2. QED
      BY <1>1, <2>1, <3>1
  <2>3. CASE BackfillGrants(q)
    BY <2>3 DEF BackfillGrants
  <2>4. CASE RefundApply(q)
    BY <1>1, <2>1, <2>4 DEF RefundApply, OpensRefund, OrderRow
  <2>5. QED
    BY <1>3, <2>2, <2>3, <2>4
<1>4. ASSUME NEW q \in Orders, NEW i \in 1..MaxRefunds, ReviewNext(q, i)
      PROVE  order'[o].fulfilled
  <2>1. CASE ReviewApprove(q, i)
    <3>1. /\ order'[q].fulfilled = order[q].fulfilled
          /\ \A r \in Orders \ {q} : order'[r] = order[r]
      BY <1>1, <2>1, ApproveEffect
    <3>2. QED
      BY <1>1, <3>1
  <2>2. CASE ReviewReject(q, i)
    BY <1>1, <2>2 DEF ReviewReject, TypeOK, OrderRow
  <2>3. QED
    BY <1>4, <2>1, <2>2 DEF ReviewNext
<1>5. ASSUME Quiet
      PROVE  order'[o].fulfilled
  BY <1>1, <1>5 DEF Quiet
<1>6. QED
  BY <1>1, <1>2, <1>3, <1>4, <1>5, StepKinds

\* What neither pays, nor answers, nor handles leaves an order as answered.
LEMMA AnsweredKept ==
    ASSUME IInv, [Next]_vars, NEW o \in Guarded, Answered(o),
           Paid(o)' => Paid(o), notify'[o] = notify[o] \/ notify'[o] # {},
           o \in seen' => o \in seen, busy'[o] = busy[o]
    PROVE  Answered(o)'
<1>1. Handled(o) => Handled(o)'
  BY StaysFulfilled DEF Handled
<1>2. QED
  BY <1>1 DEF Answered

LEMMA ProcessAnswers ==
    ASSUME IInv, NEW o \in Guarded, NEW row \in OrderRow, Paying(o, row)
    PROVE  Answered(o)'
<1>1. order'[o].fulfilled
  BY ProcessPaidEffect DEF IInv, Guarded
<1>2. QED
  BY <1>1 DEF Answered, Handled

LEMMA NoticeAnswered ==
    ASSUME IInv, [Next]_vars, NoFailure', NEW o \in Guarded, Answered(o),
           NEW q \in Orders, NEW n \in Notices, NotifyNext(q, n)
    PROVE  Answered(o)'
<1>1. TypeOK /\ order[q] \in OrderRow
  BY DEF IInv, TypeOK
<1>2. /\ DOMAIN notify = Orders /\ DOMAIN busy = Orders /\ o \in Orders
      /\ exceptions \in Nat /\ lostMarks \in Nat
  BY <1>1 DEF TypeOK, Guarded
<1>3. CASE WechatNotify(q, n) \/ AlipayProcess(q, n)
  <2>1. Paying(q, order[q]) /\ UNCHANGED <<trade, seen>>
    BY <1>3 DEF WechatNotify, AlipayProcess, Paying
  <2>2. q # o => notify'[o] = notify[o] /\ busy'[o] = busy[o]
    BY <1>2, <1>3 DEF WechatNotify, AlipayProcess, Answer, handler
  <2>3. CASE q = o
    BY <1>1, <2>1, <2>3, ProcessAnswers
  <2>4. CASE q # o
    BY <2>1, <2>2, <2>4, AnsweredKept DEF Paid
  <2>5. QED
    BY <2>3, <2>4
<1>4. CASE AlipayMark(q, n)
  <2>1. /\ busy' = [busy EXCEPT ![q] = busy[q] \cup {n}]
        /\ UNCHANGED <<trade, notify>> /\ seen' \subseteq seen \cup {q}
    BY <1>4 DEF AlipayMark, provider
  <2>2. CASE q = o
    BY <1>2, <2>1, <2>2 DEF Answered, Handled
  <2>3. CASE q # o
    BY <1>2, <2>1, <2>3, AnsweredKept DEF Paid
  <2>4. QED
    BY <2>2, <2>3
<1>5. CASE AlipayDuplicate(q, n)
  <2>1. /\ q \in seen /\ UNCHANGED <<order, trade, seen, busy>>
        /\ notify' = [notify EXCEPT ![q] = notify[q] \ {n}]
    BY <1>5 DEF AlipayDuplicate, handler
  <2>2. CASE q = o
    BY <2>1, <2>2 DEF Answered, Handled
  <2>3. CASE q # o
    BY <1>2, <2>1, <2>3, AnsweredKept DEF Paid
  <2>4. QED
    BY <2>2, <2>3
<1>6. ~AlipayThrows(q, n) /\ ~AlipayLosesMark(q, n)
  BY <1>2 DEF AlipayThrows, AlipayLosesMark, NoFailure
<1>7. QED
  BY <1>3, <1>4, <1>5, <1>6 DEF NotifyNext

LEMMA OrderAnswered ==
    ASSUME IInv, [Next]_vars, NEW o \in Guarded, Answered(o), NEW q \in Orders,
           \/ BuyerNext(q) \/ ProviderNext(q) \/ PollNext(q)
           \/ MarkExpires(q) \/ BackfillGrants(q)
           \/ \E by \in Notices \cup {"poll"} : ReadsPlans(q, by)
           \/ \E i \in 1..MaxRefunds : ReviewNext(q, i)
    PROVE  Answered(o)'
<1>1. /\ DOMAIN notify = Orders /\ DOMAIN trade = Orders /\ o \in Orders
      /\ view[o] = NoRow /\ TypeOK
  BY DEF IInv, TypeOK, Guarded, FlagTellsGrants
<1>2. CASE BuyerPays(q) \/ TradeFinishes(q)
  <2>1. /\ UNCHANGED <<seen, busy, order>>
        /\ \/ q = o /\ notify'[o] # {}
           \/ notify'[o] = notify[o] /\ trade'[o] = trade[o]
    BY <1>1, <1>2 DEF BuyerPays, TradeFinishes, handler
  <2>2. QED
    BY <2>1 DEF Answered, Handled, Paid
<1>3. CASE ProviderOpens(q) \/ ProviderRefuses(q)
  <2>1. /\ UNCHANGED <<notify, seen, busy>>
        /\ trade'[o] \in {trade[o], "open", "refused"}
    BY <1>1, <1>3 DEF ProviderOpens, ProviderRefuses, handler
  <2>2. QED
    BY <2>1, AnsweredKept DEF Paid, PaidTrades
<1>4. CASE MarkExpires(q)
  <2>1. UNCHANGED <<trade, notify, busy>> /\ seen' \subseteq seen
    BY <1>4 DEF MarkExpires, provider
  <2>2. QED
    BY <2>1, AnsweredKept DEF Paid
<1>5. CASE \/ Checkout(q) \/ CancelPending(q) \/ RefundApply(q) \/ PollReads(q)
           \/ Reconcile(q) \/ ReconcileFindsNothing(q) \/ ReconcileStopsHalfway(q)
           \/ BackfillGrants(q) \/ (\E by \in Notices \cup {"poll"} : ReadsPlans(q, by))
           \/ \E i \in 1..MaxRefunds : ReviewNext(q, i)
  <2>1. UNCHANGED <<trade, notify, seen, busy>>
    BY <1>5 DEF Checkout, CancelPending, RefundApply, OpensRefund, PollReads, Reconcile,
       ReconcileFindsNothing, ReconcileStopsHalfway, BackfillGrants, ReadsPlans,
       ReviewNext, ReviewApprove, ReviewReject, provider, handler
  <2>2. QED
    BY <2>1, AnsweredKept DEF Paid
<1>6. QED
  BY <1>2, <1>3, <1>4, <1>5 DEF BuyerNext, ProviderNext, PollNext

\* Failures are counted and never forgotten.
LEMMA FaultsCount ==
    ASSUME [Next]_vars
    PROVE  /\ exceptions' \in {exceptions, exceptions + 1}
           /\ lostMarks' \in {lostMarks, lostMarks + 1}
<1> DEFINE Counted == /\ exceptions' \in {exceptions, exceptions + 1}
                      /\ lostMarks' \in {lostMarks, lostMarks + 1}
<1>1. ASSUME NEW q \in Orders, BuyerNext(q) \/ ProviderNext(q) \/ MarkExpires(q)
                \/ BackfillGrants(q) \/ (\E by \in Notices \cup {"poll"} : ReadsPlans(q, by))
      PROVE  Counted
  BY <1>1 DEF faults, BuyerNext, ProviderNext, Checkout, BuyerPays, CancelPending,
     RefundApply, OpensRefund, ProviderOpens, ProviderRefuses, TradeFinishes, MarkExpires,
     BackfillGrants, ReadsPlans
<1>2. ASSUME NEW q \in Orders, PollNext(q)
      PROVE  Counted
  BY <1>2 DEF faults, PollNext, PollReads, Reconcile, ReconcileFindsNothing,
     ReconcileStopsHalfway
<1>3. ASSUME NEW q \in Orders, NEW n \in Notices, NotifyNext(q, n)
      PROVE  Counted
  BY <1>3 DEF faults, NotifyNext, WechatNotify, AlipayMark, AlipayDuplicate,
     AlipayProcess, AlipayThrows, AlipayLosesMark
<1>4. ASSUME NEW q \in Orders, NEW i \in 1..MaxRefunds, ReviewNext(q, i)
      PROVE  Counted
  BY <1>4 DEF faults, ReviewNext, ReviewApprove, ReviewReject
<1>5. ASSUME SweepReads \/ SweepWrites \/ BackfillReads
      PROVE  Counted
  BY <1>5 DEF faults, SweepReads, SweepWrites, BackfillReads
<1>6. ASSUME NEW u \in Users, UserNext(u)
      PROVE  Counted
  BY <1>6 DEF faults, UserNext, Spend, ConsumeQuota, ResetQuota
<1>7. ASSUME UNCHANGED vars
      PROVE  Counted
  BY <1>7 DEF vars, faults
<1> HIDE DEF Counted
<1>8. Counted
  BY <1>1, <1>2, <1>3, <1>4, <1>5, <1>6, <1>7 DEF Next
<1>9. QED
  BY <1>8 DEF Counted

LEMMA AnswerStep ==
    ASSUME IInv, NoFailure => AnswerInv, [Next]_vars
    PROVE  (NoFailure => AnswerInv)'
<1>1. SUFFICES ASSUME NoFailure', NEW o \in Guarded
               PROVE  Answered(o)'
  BY DEF AnswerInv, AnsweredMeansHandled, MarkMeansHandled, Answered, Paid
<1>2. NoFailure
  <2>1. exceptions \in Nat /\ lostMarks \in Nat
    BY DEF IInv, TypeOK
  <2>2. /\ exceptions' \in {exceptions, exceptions + 1}
        /\ lostMarks' \in {lostMarks, lostMarks + 1}
    BY FaultsCount
  <2>3. QED
    BY <1>1, <2>1, <2>2 DEF NoFailure
<1>3. Answered(o)
  BY <1>2, AnsweredIsAnswerInv
<1>4. ASSUME NEW q \in Orders, NEW n \in Notices, NotifyNext(q, n)
      PROVE  Answered(o)'
  BY <1>1, <1>3, <1>4, NoticeAnswered
<1>5. ASSUME SweepReads \/ SweepWrites \/ BackfillReads \/ (\E u \in Users : UserNext(u))
                \/ UNCHANGED vars
      PROVE  Answered(o)'
  <2>1. UNCHANGED <<trade, notify, seen, busy>>
    BY <1>5 DEF SweepReads, SweepWrites, BackfillReads, UserNext, Spend, ConsumeQuota,
       ResetQuota, vars, provider, handler
  <2>2. QED
    BY <1>3, <2>1, AnsweredKept DEF Paid
<1>6. QED
  BY <1>3, <1>4, <1>5, OrderAnswered DEF Next

\* While no handler transaction throws and no mark is left behind, the
\* provider has its last answer only when the guarded order is fulfilled or
\* a handler is still at it.
THEOREM AnswersAreKept == Spec => [](NoFailure => AnsweredMeansHandled)
<1>1. Init => (NoFailure => AnswerInv)
  <2>1. SUFFICES ASSUME Init, NEW o \in Guarded
                 PROVE  Answered(o)
    BY AnsweredIsAnswerInv
  <2>2. QED
    BY <2>1 DEF Init, Guarded, Answered, Handled, Paid, PaidTrades
<1>2. IInv /\ (NoFailure => AnswerInv) /\ [Next]_vars => (NoFailure => AnswerInv)'
  BY AnswerStep
<1>3. (NoFailure => AnswerInv) => (NoFailure => AnsweredMeansHandled)
  BY DEF AnswerInv
<1>4. QED
  BY <1>1, <1>2, <1>3, Invariance, PTL DEF Spec

----------------------------------------------------------------------------
(***************************************************************************)
(* The refinement: what the guarded orders show is a behaviour of          *)
(* Settlement.  BuyerPays is Pay, the first processing of a paid order is  *)
(* Grant, an approval is Return, and every other step is a stutter.        *)
(***************************************************************************)
paidOrders == {o \in Guarded : trade[o] \in PaidTrades}
grantedOrders == {o \in Guarded : Grants(o) > 0}
returnedOrders == {o \in Guarded : Approved(o)}

LEMMA GrantedIsFulfilled ==
    ASSUME FlagTellsGrants, NEW o \in Guarded
    PROVE  o \in grantedOrders <=> order[o].fulfilled
<1>1. Kind[o] \in {"wallet", "plan", "item"}
  BY AmountType DEF Guarded
<1>2. QED
  BY <1>1 DEF FlagTellsGrants, grantedOrders, Grants

LEMMA InitSettles ==
    ASSUME Init
    PROVE  S!Init
<1>1. FlagTellsGrants
  BY InitIInv DEF IInv
<1>2. \A o \in Guarded : (trade[o] \in PaidTrades <=> o \in Legacy)
                         /\ (order[o].fulfilled <=> o \in Legacy) /\ ~Approved(o)
  BY DEF Init, Guarded, PaidTrades, Approved
<1>3. /\ paidOrders = Guarded \cap Legacy
      /\ grantedOrders = Guarded \cap Legacy
      /\ returnedOrders = {}
  <2>1. grantedOrders \subseteq Guarded
    BY DEF grantedOrders
  <2>2. grantedOrders = Guarded \cap Legacy
    BY <1>1, <1>2, <2>1, GrantedIsFulfilled
  <2>3. QED
    BY <1>2, <2>2 DEF paidOrders, returnedOrders
<1>4. QED
  BY <1>3 DEF S!Init, paidOrders, grantedOrders, returnedOrders

LEMMA StepSettles ==
    ASSUME IInv, IInv', [Next]_vars
    PROVE  [S!Next]_(S!vars)
<1> USE DEF IInv
<1> DEFINE Stutter == UNCHANGED <<paidOrders, grantedOrders, returnedOrders>>
           Pays(o) == /\ o \notin paidOrders
                      /\ paidOrders' = paidOrders \cup {o}
                      /\ UNCHANGED <<grantedOrders, returnedOrders>>
           Gets(o) == /\ o \in paidOrders \ grantedOrders
                      /\ grantedOrders' = grantedOrders \cup {o}
                      /\ UNCHANGED <<paidOrders, returnedOrders>>
           Returns(o) == /\ o \in (grantedOrders \cap {p \in Guarded : Kind[p] # "wallet"})
                                    \ returnedOrders
                         /\ returnedOrders' = returnedOrders \cup {o}
                         /\ UNCHANGED <<paidOrders, grantedOrders>>
<1>1. SUFFICES Stutter \/ \E o \in Guarded : Pays(o) \/ Gets(o) \/ Returns(o)
  BY DEF S!Next, S!Pay, S!Grant, S!Return, S!vars, paidOrders, grantedOrders, returnedOrders
<1>2. \A o \in Guarded : o \in Orders
  BY DEF Guarded
<1>3. /\ \A o \in Guarded : o \in grantedOrders <=> order[o].fulfilled
      /\ \A o \in Guarded : o \in grantedOrders' <=> order'[o].fulfilled
      /\ grantedOrders \subseteq Guarded /\ grantedOrders' \subseteq Guarded
  <2>1. \A o \in Guarded : o \in grantedOrders <=> order[o].fulfilled
    BY GrantedIsFulfilled
  <2>2. ASSUME NEW o \in Guarded
        PROVE  o \in grantedOrders' <=> order'[o].fulfilled
    BY <1>2, AmountType DEF FlagTellsGrants, grantedOrders, Grants
  <2>3. QED
    BY <2>1, <2>2 DEF grantedOrders
<1>4. /\ UNCHANGED <<trade, refund>> => UNCHANGED <<paidOrders, returnedOrders>>
      /\ (\A o \in Guarded : order'[o].fulfilled = order[o].fulfilled) => UNCHANGED grantedOrders
  BY <1>3 DEF paidOrders, returnedOrders, Approved
<1> HIDE DEF IInv
<1>5. ASSUME NEW o \in Orders, NEW row \in OrderRow, Processes(o, row)
      PROVE  Stutter \/ (o \in Guarded /\ Gets(o))
  <2>1. UNCHANGED <<trade, refund>> /\ Paying(o, row) /\ Paid(o)
    BY <1>5 DEF Processes
  <2>2. order'[o].fulfilled /\ \A p \in Orders \ {o} : order'[p] = order[p]
    BY <2>1, ProcessPaidEffect DEF IInv
  <2>3. CASE o \in Guarded /\ ~order[o].fulfilled
    <3>1. grantedOrders' = grantedOrders \cup {o}
      BY <1>2, <1>3, <2>2, <2>3
    <3>2. o \in paidOrders \ grantedOrders
      BY <1>3, <2>1, <2>3 DEF paidOrders, Paid
    <3>3. QED
      BY <1>4, <2>1, <2>3, <3>1, <3>2
  <2>4. CASE ~(o \in Guarded /\ ~order[o].fulfilled)
    <3>1. order[o].fulfilled \in BOOLEAN /\ order'[o].fulfilled \in BOOLEAN
      BY DEF IInv, TypeOK, OrderRow
    <3>2. ASSUME NEW p \in Guarded
          PROVE  order'[p].fulfilled = order[p].fulfilled
      BY <1>2, <2>2, <2>4, <3>1
    <3>3. QED
      BY <1>4, <2>1, <3>2
  <2>5. QED
    BY <2>3, <2>4
<1>6. ASSUME NEW o \in Orders, ReconcileStopsHalfway(o) \/ BackfillGrants(o)
      PROVE  Stutter
  <2>1. UNCHANGED <<trade, refund>>
    BY <1>6 DEF ReconcileStopsHalfway, BackfillGrants, provider
  <2>2. ReconcileStopsHalfway(o) => o \notin Guarded
    BY DEF ReconcileStopsHalfway, IInv, FlagTellsGrants
  <2>3. \A p \in Guarded : order'[p] = order[p]
    BY <1>2, <1>6, <2>2 DEF ReconcileStopsHalfway, BackfillGrants, IInv, TypeOK
  <2>4. QED
    BY <1>4, <2>1, <2>3
<1>7. ASSUME NEW o \in Orders,
             RefundApply(o) \/ \E i \in 1..MaxRefunds : ReviewNext(o, i)
      PROVE  /\ UNCHANGED <<paidOrders, grantedOrders>>
             /\ \A p \in Guarded \ {o} : Approved(p)' = Approved(p)
  <2>1. UNCHANGED trade
    BY <1>7 DEF RefundApply, OpensRefund, ReviewNext, ReviewApprove, ReviewReject, provider
  <2>2. \A p \in Guarded : order'[p].fulfilled = order[p].fulfilled
    <3>1. ASSUME NEW i \in 1..MaxRefunds, ReviewApprove(o, i), NEW p \in Guarded
          PROVE  order'[p].fulfilled = order[p].fulfilled
      BY <1>2, <3>1, ApproveEffect DEF IInv
    <3>2. ASSUME NEW st \in Statuses, order' = [order EXCEPT ![o].status = st], NEW p \in Guarded
          PROVE  order'[p].fulfilled = order[p].fulfilled
      BY <1>2, <3>2 DEF IInv, TypeOK, OrderRow
    <3>3. QED
      BY <1>7, <3>1, <3>2 DEF RefundApply, OpensRefund, ReviewNext, ReviewReject, Statuses
  <2>3. \A p \in Guarded \ {o} : refund'[p] = refund[p]
    BY <1>2, <1>7 DEF RefundApply, OpensRefund, ReviewNext, ReviewApprove, ReviewReject,
                      IInv, TypeOK
  <2>4. QED
    BY <1>4, <2>1, <2>2, <2>3 DEF paidOrders, Approved
<1>8. ASSUME NEW o \in Orders, RefundApply(o)
      PROVE  Stutter
  <2> DEFINE asked == [status |-> "pending", amount |-> Refundable(o)]
  <2>1. refund[o] \in Seq(RefundRow) /\ refund'[o] = Append(refund[o], asked)
    BY <1>8 DEF RefundApply, OpensRefund, IInv, TypeOK
  <2>2. OpenRefunds(o) = {} /\ asked.status # "approved"
    BY <1>8 DEF RefundApply
  <2> HIDE DEF asked
  <2>3. ~Approved(o) /\ ~Approved(o)'
    <3>1. ~Approved(o)
      BY <2>2 DEF Approved, OpenRefunds
    <3>2. \A j \in DOMAIN refund'[o] :
             refund'[o][j] = asked \/ (j \in DOMAIN refund[o] /\ refund'[o][j] = refund[o][j])
      BY <2>1
    <3>3. QED
      BY <2>2, <3>1, <3>2 DEF Approved
  <2>4. UNCHANGED returnedOrders
    BY <1>7, <1>8, <2>3 DEF returnedOrders
  <2>5. QED
    BY <1>7, <1>8, <2>4
<1>9. ASSUME NEW o \in Orders, NEW i \in 1..MaxRefunds, ReviewNext(o, i)
      PROVE  Stutter \/ (o \in Guarded /\ Returns(o))
  <2>1. i \in DOMAIN refund[o] /\ refund[o][i].status = "pending"
    BY <1>9 DEF ReviewNext, ReviewApprove, ReviewReject
  <2>2. ~Approved(o)
    BY <2>1 DEF IInv, RefundTraces, OpenRefunds, Approved
  <2>3. CASE ~Approved(o)' \/ o \notin Guarded
    <3>1. UNCHANGED returnedOrders
      BY <1>7, <1>9, <2>2, <2>3 DEF returnedOrders
    <3>2. QED
      BY <1>7, <1>9, <3>1
  <2>4. CASE Approved(o)' /\ o \in Guarded
    <3>1. returnedOrders' = returnedOrders \cup {o}
      BY <1>7, <1>9, <2>4 DEF returnedOrders
    <3>2. order[o].fulfilled /\ Kind[o] # "wallet"
      BY <2>1, <2>4 DEF IInv, FlagTellsGrants
    <3>3. o \in grantedOrders /\ o \notin returnedOrders
      BY <1>3, <2>2, <2>4, <3>2 DEF returnedOrders
    <3>4. QED
      BY <1>7, <1>9, <2>4, <3>1, <3>2, <3>3
  <2>5. QED
    BY <2>3, <2>4
<1>10. ASSUME Quiet
       PROVE  Stutter \/ \E o \in Guarded : Pays(o)
  <2>1. UNCHANGED refund /\ \A p \in Guarded : order'[p].fulfilled = order[p].fulfilled
    BY <1>2, <1>10 DEF Quiet, IInv, FlagTellsGrants
  <2>2. UNCHANGED <<grantedOrders, returnedOrders>>
    BY <1>4, <2>1 DEF returnedOrders, Approved
  <2>3. CASE \A p \in Orders : Paid(p)' = Paid(p)
    BY <1>2, <2>2, <2>3 DEF paidOrders, Paid
  <2>4. ASSUME NEW o \in Orders, BuyerPays(o)
        PROVE  Stutter \/ (o \in Guarded /\ Pays(o))
    <3>1. /\ trade[o] \notin PaidTrades /\ trade'[o] \in PaidTrades
          /\ \A p \in Orders \ {o} : trade'[p] = trade[p]
      BY <2>4 DEF BuyerPays, PaidTrades, IInv, TypeOK
    <3>2. CASE o \in Guarded
      BY <1>2, <2>2, <3>1, <3>2 DEF paidOrders
    <3>3. CASE o \notin Guarded
      BY <1>2, <2>2, <3>1, <3>3 DEF paidOrders
    <3>4. QED
      BY <3>2, <3>3
  <2>5. QED
    BY <1>10, <2>3, <2>4 DEF Quiet
<1>11. TypeOK /\ PaymentTraces
  BY DEF IInv
<1>12. QED
  BY <1>5, <1>6, <1>8, <1>9, <1>10, <1>11, StepKinds

\* For the orders no stale row can overwrite, the service keeps what
\* Settlement promises: paid once, granted once and only when paid, returned
\* once and only when granted - whatever else the code does to the rows.
THEOREM Refinement == Spec => Settles
<1>1. Init => S!Init
  BY InitSettles
<1>2. IInv /\ IInv' /\ [Next]_vars => [S!Next]_(S!vars)
  BY StepSettles
<1>3. QED
  BY <1>1, <1>2, Invariance, PTL DEF Spec, Settles, S!Spec
=============================================================================
