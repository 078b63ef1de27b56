-------------------------- MODULE OrderLifecycle --------------------------
(***************************************************************************)
(* One order of the Java payment service from checkout to refund:          *)
(* OrderService, RefundService, the two notification controllers, the      *)
(* pending-order cleanup job, and the checks checkout makes.               *)
(*                                                                         *)
(* A @Transactional method that holds the order row FOR UPDATE from its    *)
(* first statement is one step.  What is not under that lock is split into *)
(* the steps other actors can come between: the Redis mark and the         *)
(* database transaction of the Alipay handler, the unlocked read and the   *)
(* write of the cleanup job, the query and the grants of the token         *)
(* backfill, and the read and the write of a polling request: its session  *)
(* is open from the first query on, so the row it then locks is the one it *)
(* had loaded before.  A fulfilment locks the buyer's wallet row when it   *)
(* books the payment, and not when the payment is booked already; where    *)
(* two of one buyer may overlap, each reads the plans in one step and      *)
(* writes them in another.  The payment provider and the buyer are the     *)
(* environment.  Of users.experience only the ledger entry of the order is *)
(* here (the rest: AccountLevelService).                                   *)
(***************************************************************************)
EXTENDS WalletService, EntitlementService, FiniteSets, Functions

CONSTANTS
    Orders, Users,
    Buyer,          \* [Orders -> Users]
    Kind,           \* [Orders -> {"wallet", "plan", "item"}]
    Channel,        \* [Orders -> {"alipay", "wechat"}]
    Amount,         \* [Orders -> units of money]
    Item,           \* [Orders -> catalogue items], read for kind "item"
    EmployeePacks,  \* the orders whose item is an employee pack
    Tier,           \* [Orders -> Nat], read for kind "plan": membership tier
    SvipTier,       \* tiers above it are sold to holders of it or more
    PlanQuota,      \* [Orders -> quota totals the plan names]
    Expirable,      \* the orders that may reach the cleanup age while pending
    Polled,         \* the orders whose page polls with reconcile=true
    Legacy,         \* plan orders fulfilled before tokens were granted
    MaxSpend,       \* bound: units a user spends on metered usage
    MaxExceptions,  \* bound: handler transactions that throw
    MaxLostMarks,   \* bound: handlers that leave their Redis mark behind
    NoRow

Statuses == {"none", "pending", "paid", "closed", "failed",
             "refunding", "refunded", "partial_refunded"}
OrderRow == [status : Statuses, fulfilled : BOOLEAN, refunded : Nat]
RefundRow == [status : {"pending", "approved", "rejected"}, amount : Nat]
TradeStates == {"none", "refused", "open", "paid", "finished"}
Notices == {"TRADE_SUCCESS", "TRADE_FINISHED"}
\* What a fulfilment has read of the buyer's plans and quotas, and by whom
\* it is run: the handler of a notification or a poll.
PlansRead == [by : Notices \cup {"poll"},
              current : SUBSET Nat,
              quota : [QuotaTypes -> Quota]]

ASSUME OrdersAssumption ==
    /\ IsFiniteSet(Orders)
    /\ Buyer \in [Orders -> Users]
    /\ Kind \in [Orders -> {"wallet", "plan", "item"}]
    /\ Channel \in [Orders -> {"alipay", "wechat"}]
    /\ Amount \in [Orders -> Nat \ {0}]
    /\ Tier \in [Orders -> Nat]
    /\ \A o \in Orders :
          /\ DOMAIN PlanQuota[o] \subseteq QuotaTypes
          /\ \A t \in DOMAIN PlanQuota[o] : PlanQuota[o][t] \in Nat
    /\ Expirable \subseteq Orders
    /\ Polled \subseteq {o \in Orders : Channel[o] = "alipay"}
    /\ NoRow \notin OrderRow \cup PlansRead

ASSUME LegacyAssumption ==
    /\ Legacy \subseteq {o \in Orders : Kind[o] = "plan"}
    /\ \A o, p \in Legacy : Buyer[o] = Buyer[p] => o = p

ASSUME BoundsAssumption ==
    /\ MaxSpend \in Nat
    /\ MaxExceptions \in Nat
    /\ MaxLostMarks \in Nat

VARIABLES
    order,      \* rows of orders
    refund,     \* refund requests of an order, oldest first
    sweep,      \* rows the running cleanup transaction has read
    view,       \* the row the session of a polling request has loaded
    backfill,   \* orders the running backfill has still to grant
    trade,      \* the provider's side of an order
    notify,     \* provider notifications not yet answered with success
    seen,       \* orders whose Redis key payment:notify:* is set
    busy,       \* notifications whose handler is past the mark
    plansRead,  \* what a fulfilment that has not written yet has read
    balance, txn, spent,
    purchases,  \* rows of purchases inserted for an order
    ent, plans, quota,
    xp,         \* experience ledger: none, order_paid, order_refunded
    exceptions, lostMarks

money == <<balance, txn>>
goods == <<purchases, ent, plans, quota, xp>>
provider == <<trade, notify>>
handler == <<seen, busy, plansRead>>
jobs == <<sweep, view, backfill>>
faults == <<exceptions, lostMarks>>
vars == <<order, refund, jobs, provider, handler, money, spent, goods, faults>>

PaidTrades == {"paid", "finished"}
LegacyOf(u) == {o \in Legacy : Buyer[o] = u}
NoQuota == [t \in QuotaTypes |-> [total |-> 0, used |-> 0]]

Init ==
    /\ order = [o \in Orders |->
                    IF o \in Legacy
                    THEN [status |-> "paid", fulfilled |-> TRUE, refunded |-> 0]
                    ELSE [status |-> "none", fulfilled |-> FALSE, refunded |-> 0]]
    /\ refund = [o \in Orders |-> <<>>]
    /\ sweep = [o \in Orders |-> NoRow]
    /\ view = [o \in Orders |-> NoRow]
    /\ backfill = {}
    /\ trade = [o \in Orders |-> IF o \in Legacy THEN "finished" ELSE "none"]
    /\ notify = [o \in Orders |-> {}]
    /\ seen = {}
    /\ busy = [o \in Orders |-> {}]
    /\ plansRead = [o \in Orders |-> NoRow]
    /\ balance = [u \in Users |-> 0]
    /\ txn = [o \in Orders |-> [k \in Keys |->
                    IF o \in Legacy /\ k = ExternalKey THEN Amount[o]
                    ELSE IF o \in Legacy /\ k = SpendKey THEN -Amount[o]
                    ELSE 0]]
    /\ spent = [u \in Users |-> 0]
    /\ purchases = [o \in Orders |-> 0]
    /\ ent = [o \in Orders |->
                    IF o \in Legacy THEN AddEntitlement(NoEntitlement) ELSE NoEntitlement]
    /\ plans = [u \in Users |->
                    IF LegacyOf(u) = {}
                    THEN <<>>
                    ELSE ActivatePlan(<<>>, {}, CHOOSE o \in LegacyOf(u) : TRUE)]
    /\ quota = [u \in Users |->
                    IF LegacyOf(u) = {}
                    THEN NoQuota
                    ELSE ApplyPlanQuotas(NoQuota, NoQuota,
                                         PlanQuota[CHOOSE o \in LegacyOf(u) : TRUE])]
    /\ xp = [o \in Orders |-> "none"]
    /\ exceptions = 0
    /\ lostMarks = 0

----------------------------------------------------------------------------
(***************************************************************************)
(* Checkout: the gates, the new row, and the provider's answer.            *)
(***************************************************************************)
HasPurchasedOrActiveEntitlement(u, item) ==
    \E o \in Orders :
        /\ Buyer[o] = u /\ Kind[o] = "item" /\ Item[o] = item
        /\ purchases[o] > 0 \/ ent[o].active

MayBuyPlan(u, tier) ==
    /\ \A p \in ActivePlans(plans[u]) : Tier[p] <= tier
    /\ tier > SvipTier =>
          \E i \in DOMAIN plans[u] :
             IsCurrentPlan(plans[u], i) /\ Tier[plans[u][i].order] >= SvipTier

Checkout(o) ==
    /\ order[o].status = "none"
    /\ Kind[o] = "item" => ~HasPurchasedOrActiveEntitlement(Buyer[o], Item[o])
    /\ Kind[o] = "plan" => MayBuyPlan(Buyer[o], Tier[o])
    /\ order' = [order EXCEPT ![o].status = "pending"]
    /\ UNCHANGED <<refund, jobs, provider, handler, money, spent, goods, faults>>

\* The session of the request still has the row it created: storing the
\* payment metadata writes "pending" over a cancellation made meanwhile.
ProviderOpens(o) ==
    /\ order[o].status # "none"
    /\ trade[o] = "none"
    /\ trade' = [trade EXCEPT ![o] = "open"]
    /\ order' = [order EXCEPT ![o].status = "pending"]
    /\ UNCHANGED <<refund, jobs, notify, handler, money, spent, goods, faults>>

ProviderRefuses(o) ==
    /\ order[o].status # "none"
    /\ trade[o] = "none"
    /\ trade' = [trade EXCEPT ![o] = "refused"]
    /\ order' = [order EXCEPT ![o].status = "failed"]
    /\ UNCHANGED <<refund, jobs, notify, handler, money, spent, goods, faults>>

BuyerPays(o) ==
    /\ trade[o] = "open"
    /\ trade' = [trade EXCEPT ![o] = "paid"]
    /\ notify' = [notify EXCEPT ![o] = @ \cup {"TRADE_SUCCESS"}]
    /\ UNCHANGED <<order, refund, jobs, handler, money, spent, goods, faults>>

TradeFinishes(o) ==
    /\ Channel[o] = "alipay"
    /\ trade[o] = "paid"
    /\ trade' = [trade EXCEPT ![o] = "finished"]
    /\ notify' = [notify EXCEPT ![o] = @ \cup {"TRADE_FINISHED"}]
    /\ UNCHANGED <<order, refund, jobs, handler, money, spent, goods, faults>>

----------------------------------------------------------------------------
(***************************************************************************)
(* processAlipayNotify / processWechatNotify: the row becomes paid, and is *)
(* fulfilled unless it already was.  The row is the one the transaction    *)
(* has loaded; its update writes every column.  The order row is locked    *)
(* until the transaction ends.  changeBalance locks the buyer's wallet row *)
(* to book a payment, but not when its keys are there already: an order    *)
(* that is fulfilled again, or completed after a reconcile that stopped    *)
(* halfway, then reads and writes the buyer's plans and quotas beside any  *)
(* other.  ReadsPlans is the step before the writes; a buyer none of whose *)
(* plans can come to that has only fulfilments that the lock keeps apart,  *)
(* and they read when they write.                                          *)
(***************************************************************************)
\* A mutant that stores the status the provider sent.
PaidRowAsSent(row) == [row EXCEPT !.status = "TRADE_SUCCESS"]

PaidRow(row) == [row EXCEPT !.status = "paid"]
FulfilledRow(row) == [row EXCEPT !.status = "paid", !.fulfilled = TRUE]

\* A hundred to the yuan, halves up.
XpOf(amount) == (200 * amount + UnitsPerYuan) \div (2 * UnitsPerYuan)

AccountOf(o) == [balance |-> balance[Buyer[o]], txn |-> txn[o]]

Books(o, acct) ==
    /\ balance' = [balance EXCEPT ![Buyer[o]] = acct.balance]
    /\ txn' = [txn EXCEPT ![o] = acct.txn]

\* No fulfilment is between its reads and its writes, holding the order row.
RowFree(o) == plansRead[o] = NoRow

\* changeBalance finds the payment booked and returns before it locks.
NoWalletLock(o) ==
    IF Kind[o] = "wallet" THEN Booked(txn[o], RechargeKey)
    ELSE Booked(txn[o], ExternalKey) /\ Booked(txn[o], SpendKey)

\* The orders of u whose fulfilment has read the plans and holds the lock.
Holders(u) == {o \in Orders : Buyer[o] = u /\ ~RowFree(o) /\ ~NoWalletLock(o)}

\* A mutant that reads the wallet row without locking it.
UnlockedWallet(u) == TRUE

WalletFree(u) == Holders(u) = {}

\* Orders whose row another transaction may overwrite with an older one.
Exposed == Expirable \cup Polled
ExposedPlans(u) == {o \in Exposed : Buyer[o] = u /\ Kind[o] = "plan"}

\* The buyer's plans and quotas, as `by` finds them.
PlansNow(o, by) ==
    [by |-> by, current |-> CurrentPlan(plans[Buyer[o]]), quota |-> quota[Buyer[o]]]

\* The transactions that may be at an order that has been paid.
Handling(o) ==
    busy[o] \cup (IF Channel[o] = "wechat" THEN notify[o] ELSE {})
            \cup {b \in {"poll"} : view[o] # NoRow /\ trade[o] \in PaidTrades}

RowOf(o, by) == IF by = "poll" THEN view[o] ELSE order[o]

ReadsPlans(o, by) ==
    /\ Kind[o] = "plan"
    /\ ExposedPlans(Buyer[o]) # {}
    /\ by \in Handling(o)
    /\ RowFree(o)
    /\ ~RowOf(o, by).fulfilled
    /\ NoWalletLock(o) \/ WalletFree(Buyer[o])
    /\ plansRead' = [plansRead EXCEPT ![o] = PlansNow(o, by)]
    /\ UNCHANGED <<order, refund, jobs, provider, seen, busy, money, spent, goods, faults>>

\* What the buyer gets.  The experience entry is unique per order.
FulfilGoods(o, read) ==
    LET u == Buyer[o]
        newEmployee == Kind[o] = "item" /\ o \in EmployeePacks /\ ent[o].rows = 0
    IN  /\ purchases' = IF Kind[o] = "item"
                        THEN [purchases EXCEPT ![o] = @ + 1] ELSE purchases
        /\ ent' = [ent EXCEPT ![o] =
                        IF Kind[o] = "item" THEN GrantCatalogEntitlement(@)
                        ELSE IF Kind[o] = "plan" THEN AddEntitlement(@) ELSE @]
        /\ plans' = IF Kind[o] = "plan"
                    THEN [plans EXCEPT ![u] = ActivatePlan(@, read.current, o)] ELSE plans
        /\ quota' = [quota EXCEPT ![u] =
                        IF Kind[o] = "plan" THEN ApplyPlanQuotas(@, read.quota, PlanQuota[o])
                        ELSE IF newEmployee THEN IncrementEmployeeCount(@) ELSE @]
        /\ xp' = IF xp[o] = "none" /\ XpOf(Amount[o]) > 0
                 THEN [xp EXCEPT ![o] = "order_paid"] ELSE xp

\* The plans have been read by ReadsPlans, or are read as they are written.
FulfilAs(o, row, by, read) ==
    /\ IF RowFree(o)
       THEN /\ read = PlansNow(o, by)
            /\ NoWalletLock(o) \/ WalletFree(Buyer[o])
       ELSE read = plansRead[o]
    /\ read.by = by
    /\ order' = [order EXCEPT ![o] = FulfilledRow(row)]
    /\ plansRead' = [plansRead EXCEPT ![o] = NoRow]
    /\ Books(o, FulfilAccount(AccountOf(o), Kind[o], Amount[o]))
    /\ FulfilGoods(o, read)

\* A mutant that goes by the status instead of the fulfilled flag.
FulfilUnlessPaid(o, row, by) ==
    row.status # "paid" /\ \E read \in {PlansNow(o, by), plansRead[o]} : FulfilAs(o, row, by, read)

Fulfil(o, row, by) ==
    ~row.fulfilled /\ \E read \in {PlansNow(o, by), plansRead[o]} : FulfilAs(o, row, by, read)

AlreadyFulfilled(o, row) ==
    /\ row.fulfilled
    /\ RowFree(o)
    /\ order' = [order EXCEPT ![o] = PaidRow(row)]
    /\ UNCHANGED <<money, goods, plansRead>>

\* A mutant that takes the payment of a closed order for settled.
ProcessOpen(o, row, by) ==
    IF row.status = "closed"
    THEN UNCHANGED <<order, money, goods, plansRead>>
    ELSE Fulfil(o, row, by) \/ AlreadyFulfilled(o, row)

ProcessPaid(o, row, by) == Fulfil(o, row, by) \/ AlreadyFulfilled(o, row)

----------------------------------------------------------------------------
(***************************************************************************)
(* Notifications.  The provider repeats one until it is answered with      *)
(* success; an answer may be lost on its way.                              *)
(***************************************************************************)
Answer(o, n) ==
    \/ notify' = [notify EXCEPT ![o] = @ \ {n}]
    \/ UNCHANGED notify

WechatNotify(o, n) ==
    /\ Channel[o] = "wechat"
    /\ n \in notify[o]
    /\ ProcessPaid(o, order[o], n)
    /\ Answer(o, n)
    /\ UNCHANGED <<refund, jobs, trade, seen, busy, spent, faults>>

\* A mutant that drops notifications of orders no longer pending.
AlipayMarkPending(o, n) ==
    /\ Channel[o] = "alipay"
    /\ n \in notify[o]
    /\ n \notin busy[o]
    /\ order[o].status = "pending"
    /\ seen' = seen \cup {o}
    /\ busy' = [busy EXCEPT ![o] = @ \cup {n}]
    /\ UNCHANGED <<order, refund, jobs, provider, plansRead, money, spent, goods, faults>>

\* markAlipayNotifySeen: the key is set first; when Redis is unavailable the
\* handler goes on without it.
AlipayMark(o, n) ==
    /\ Channel[o] = "alipay"
    /\ n \in notify[o]
    /\ n \notin busy[o]
    /\ \/ o \notin seen /\ seen' = seen \cup {o}
       \/ UNCHANGED seen
    /\ busy' = [busy EXCEPT ![o] = @ \cup {n}]
    /\ UNCHANGED <<order, refund, jobs, provider, plansRead, money, spent, goods, faults>>

\* The key is there: the notification is answered without being processed.
AlipayDuplicate(o, n) ==
    /\ Channel[o] = "alipay"
    /\ n \in notify[o]
    /\ o \in seen
    /\ notify' = [notify EXCEPT ![o] = @ \ {n}]
    /\ UNCHANGED <<order, refund, jobs, trade, handler, money, spent, goods, faults>>

AlipayProcess(o, n) ==
    /\ n \in busy[o]
    /\ ProcessPaid(o, order[o], n)
    /\ busy' = [busy EXCEPT ![o] = @ \ {n}]
    /\ Answer(o, n)
    /\ UNCHANGED <<refund, jobs, trade, seen, spent, faults>>

\* The transaction throws and is rolled back; the key is deleted again.  It
\* leaves nothing of what it has read: it fails before reading as well.
AlipayThrows(o, n) ==
    /\ n \in busy[o]
    /\ RowFree(o)
    /\ exceptions < MaxExceptions
    /\ exceptions' = exceptions + 1
    /\ busy' = [busy EXCEPT ![o] = @ \ {n}]
    /\ seen' = seen \ {o}
    /\ UNCHANGED <<order, refund, jobs, provider, plansRead, money, spent, goods, lostMarks>>

\* The process dies before it commits, or the transaction throws and the
\* key cannot be deleted: the key outlives a notification nobody processed.
AlipayLosesMark(o, n) ==
    /\ n \in busy[o]
    /\ RowFree(o)
    /\ lostMarks < MaxLostMarks
    /\ lostMarks' = lostMarks + 1
    /\ busy' = [busy EXCEPT ![o] = @ \ {n}]
    /\ UNCHANGED <<order, refund, jobs, provider, seen, plansRead, money, spent, goods,
                   exceptions>>

\* The key's time to live is a day; no handler runs for as long.
MarkExpires(o) ==
    /\ o \in seen
    /\ busy[o] = {}
    /\ seen' = seen \ {o}
    /\ UNCHANGED <<order, refund, jobs, provider, busy, plansRead, money, spent, goods, faults>>

(***************************************************************************)
(* queryOrder with reconcile=true: the order is read, and                  *)
(* reconcileWithAlipayIfUnfulfilled settles it if Alipay has the money.    *)
(* Only a row that can still be settled is worth reading here.             *)
(***************************************************************************)
Unsettled(row) ==
    row.status = "pending" \/ (row.status = "paid" /\ ~row.fulfilled)

PollReads(o) ==
    /\ o \in Polled
    /\ view[o] = NoRow
    /\ Unsettled(order[o])
    /\ view' = [view EXCEPT ![o] = order[o]]
    /\ UNCHANGED <<order, refund, sweep, backfill, provider, handler, money, spent, goods, faults>>

\* A mutant that settles whatever Alipay says of the trade.
ReconcileUnpaid(o) ==
    /\ view[o] # NoRow
    /\ view' = [view EXCEPT ![o] = NoRow]
    /\ ProcessPaid(o, view[o], "poll")
    /\ UNCHANGED <<refund, sweep, backfill, provider, seen, busy, spent, faults>>

Reconcile(o) ==
    /\ view[o] # NoRow
    /\ trade[o] \in PaidTrades
    /\ view' = [view EXCEPT ![o] = NoRow]
    /\ ProcessPaid(o, view[o], "poll")
    /\ UNCHANGED <<refund, sweep, backfill, provider, seen, busy, spent, faults>>

ReconcileFindsNothing(o) ==
    /\ view[o] # NoRow
    /\ trade[o] \notin PaidTrades
    /\ view' = [view EXCEPT ![o] = NoRow]
    /\ UNCHANGED <<order, refund, sweep, backfill, provider, handler, money, spent, goods, faults>>

(***************************************************************************)
(* The plan's template is gone.  fulfillOrder throws out of a call on the  *)
(* service itself, reconcile catches it, and what was done so far commits: *)
(* the row is paid, its payment and spending are booked, nothing else.  A  *)
(* loaded row that says paid already is not dirty and not written.         *)
(***************************************************************************)
ReconcileStopsHalfway(o) ==
    /\ view[o] # NoRow
    /\ trade[o] \in PaidTrades
    /\ Kind[o] = "plan"
    /\ ~view[o].fulfilled
    /\ RowFree(o)
    /\ exceptions < MaxExceptions
    /\ exceptions' = exceptions + 1
    /\ view' = [view EXCEPT ![o] = NoRow]
    /\ order' = IF view[o].status = "paid"
                THEN order ELSE [order EXCEPT ![o] = PaidRow(view[o])]
    /\ Books(o, PayAndSpend(AccountOf(o), Amount[o]))
    /\ UNCHANGED <<refund, sweep, backfill, provider, handler, spent, goods, lostMarks>>

----------------------------------------------------------------------------
(***************************************************************************)
(* Orders that are never paid: the buyer cancels, or the job of every five *)
(* minutes closes what has been pending for half an hour.  The job reads   *)
(* without a lock and its update writes every column of the row it read.   *)
(***************************************************************************)
CancelPending(o) ==
    /\ order[o].status = "pending"
    /\ RowFree(o)
    /\ order' = [order EXCEPT ![o].status = "closed"]
    /\ UNCHANGED <<refund, jobs, provider, handler, money, spent, goods, faults>>

Expired == {o \in Expirable : order[o].status = "pending"}
NoSweep == [o \in Orders |-> NoRow]

SweepReads ==
    /\ sweep = NoSweep
    /\ \E due \in SUBSET Expired \ {{}} :
          sweep' = [o \in Orders |-> IF o \in due THEN order[o] ELSE NoRow]
    /\ UNCHANGED <<order, refund, view, backfill, provider, handler, money, spent, goods, faults>>

SweepWrites ==
    /\ sweep # NoSweep
    /\ \A o \in Orders : sweep[o] # NoRow => RowFree(o)
    /\ order' = [o \in Orders |->
                    IF sweep[o] = NoRow THEN order[o]
                    ELSE [sweep[o] EXCEPT !.status = "closed"]]
    /\ sweep' = NoSweep
    /\ UNCHANGED <<refund, view, backfill, provider, handler, money, spent, goods, faults>>

----------------------------------------------------------------------------
(***************************************************************************)
(* RefundService.apply answers with the open request if there is one;      *)
(* otherwise it opens a request for all that has not been refunded.        *)
(***************************************************************************)
OpenRefunds(o) ==
    {i \in DOMAIN refund[o] : refund[o][i].status \in {"pending", "approved"}}

Refundable(o) == Amount[o] - order[o].refunded

OpensRefund(o) ==
    /\ RowFree(o)
    /\ order[o].fulfilled
    /\ order[o].status = "paid"
    /\ Kind[o] # "wallet"
    /\ Refundable(o) > 0
    /\ Len(refund[o]) < MaxRefunds
    /\ refund' = [refund EXCEPT ![o] =
                    Append(@, [status |-> "pending", amount |-> Refundable(o)])]
    /\ order' = [order EXCEPT ![o].status = "refunding"]
    /\ UNCHANGED <<jobs, provider, handler, money, spent, goods, faults>>

\* An open or approved request is answered as it is.
RefundApply(o) == OpenRefunds(o) = {} /\ OpensRefund(o)

(***************************************************************************)
(* RefundService.review.  The request is locked before the order, and      *)
(* loading it loads the order too; until then only the status of the row   *)
(* can change, which review overwrites.  The repository methods that look  *)
(* the entitlement and the plan up throw, and roll back, on a second row.  *)
(***************************************************************************)
RefundedRow(o, amount) ==
    LET total == order[o].refunded + amount
    IN  [status |-> IF total >= Amount[o] THEN "refunded" ELSE "partial_refunded",
         fulfilled |-> order[o].fulfilled,
         refunded |-> total]

\* A mutant that closes the entitlement only together with a plan.
RevokeWithPlan(o) ==
    LET u == Buyer[o]
        bought == PlanRows(plans[u], o) # {}
    IN  /\ ent' = IF bought
                  THEN [ent EXCEPT ![o] = RevokeEntitlement(@)] ELSE ent
        /\ plans' = [plans EXCEPT ![u] = DeactivatePlan(@, o)]
        /\ quota' = IF bought
                    THEN [quota EXCEPT ![u] = ClampQuotas(@)] ELSE quota

RevokeOrderEntitlements(o) ==
    LET u == Buyer[o]
    IN  /\ ent[o].rows <= 1
        /\ Cardinality(PlanRows(plans[u], o)) <= 1
        /\ ent' = [ent EXCEPT ![o] = RevokeEntitlement(@)]
        /\ plans' = [plans EXCEPT ![u] = DeactivatePlan(@, o)]
        /\ quota' = IF PlanRows(plans[u], o) = {}
                    THEN quota ELSE [quota EXCEPT ![u] = ClampQuotas(@)]

ReviewApprove(o, i) ==
    /\ i \in DOMAIN refund[o]
    /\ refund[o][i].status = "pending"
    /\ RowFree(o) /\ WalletFree(Buyer[o])
    /\ refund' = [refund EXCEPT ![o][i].status = "approved"]
    /\ order' = [order EXCEPT ![o] = RefundedRow(o, refund[o][i].amount)]
    /\ Books(o, RefundAccount(AccountOf(o), Kind[o], Amount[o], refund[o][i].amount, i))
    /\ RevokeOrderEntitlements(o)
    /\ xp' = IF xp[o] = "order_paid" THEN [xp EXCEPT ![o] = "order_refunded"] ELSE xp
    /\ UNCHANGED <<purchases, jobs, provider, handler, spent, faults>>

ReviewReject(o, i) ==
    /\ i \in DOMAIN refund[o]
    /\ refund[o][i].status = "pending"
    /\ RowFree(o)
    /\ refund' = [refund EXCEPT ![o][i].status = "rejected"]
    /\ order' = [order EXCEPT ![o].status = "paid"]
    /\ UNCHANGED <<jobs, provider, handler, money, spent, goods, faults>>

----------------------------------------------------------------------------
(***************************************************************************)
(* backfillPlanMembershipTokenGrants: an unlocked query, then one order    *)
(* after the other.  The transaction keeps every wallet it has credited    *)
(* locked until it commits; the steps of one run may be consecutive, and   *)
(* other steps between them only add behaviours.                           *)
(***************************************************************************)
LacksTokens(o) ==
    /\ Kind[o] = "plan"
    /\ order[o].fulfilled
    /\ order[o].status = "paid"
    /\ RoundYuan(Amount[o]) > 0
    /\ ~Booked(txn[o], TokenKey)

BackfillReads ==
    /\ backfill = {}
    /\ \E o \in Orders : LacksTokens(o)
    /\ backfill' = {o \in Orders : LacksTokens(o)}
    /\ UNCHANGED <<order, refund, sweep, view, provider, handler, money, spent, goods, faults>>

BackfillGrants(o) ==
    /\ o \in backfill
    /\ backfill' = backfill \ {o}
    /\ Books(o, GrantTokens(AccountOf(o), Amount[o]))
    /\ UNCHANGED <<order, refund, sweep, view, provider, handler, spent, goods, faults>>

----------------------------------------------------------------------------
(***************************************************************************)
(* What the user does with what was bought: metered usage is debited from  *)
(* the balance; quota_middleware counts calls against the quota and, once  *)
(* a month, starts the count again.                                        *)
(***************************************************************************)
Spend(u) ==
    /\ balance[u] > 0
    /\ spent[u] < MaxSpend
    /\ balance' = [balance EXCEPT ![u] = @ - 1]
    /\ spent' = [spent EXCEPT ![u] = @ + 1]
    /\ UNCHANGED <<order, refund, jobs, provider, handler, txn, goods, faults>>

ConsumeQuota(u, t) ==
    /\ quota[u][t].used + 1 <= quota[u][t].total
    /\ quota' = [quota EXCEPT ![u][t].used = @ + 1]
    /\ UNCHANGED <<order, refund, jobs, provider, handler, money, spent,
                   purchases, ent, plans, xp, faults>>

ResetQuota(u, t) ==
    /\ quota[u][t].used > 0
    /\ quota' = [quota EXCEPT ![u][t].used = 0]
    /\ UNCHANGED <<order, refund, jobs, provider, handler, money, spent,
                   purchases, ent, plans, xp, faults>>

----------------------------------------------------------------------------
BuyerNext(o) ==
    Checkout(o) \/ BuyerPays(o) \/ CancelPending(o) \/ RefundApply(o)
ProviderNext(o) ==
    ProviderOpens(o) \/ ProviderRefuses(o) \/ TradeFinishes(o)
NotifyNext(o, n) ==
    \/ WechatNotify(o, n) \/ AlipayMark(o, n) \/ AlipayDuplicate(o, n)
    \/ AlipayProcess(o, n) \/ AlipayThrows(o, n) \/ AlipayLosesMark(o, n)
PollNext(o) ==
    \/ PollReads(o) \/ Reconcile(o) \/ ReconcileFindsNothing(o)
    \/ ReconcileStopsHalfway(o)
ReviewNext(o, i) == ReviewApprove(o, i) \/ ReviewReject(o, i)
UserNext(u) == Spend(u) \/ \E t \in QuotaTypes : ConsumeQuota(u, t) \/ ResetQuota(u, t)

Next ==
    \/ \E o \in Orders :
          \/ BuyerNext(o) \/ ProviderNext(o) \/ PollNext(o)
          \/ MarkExpires(o) \/ BackfillGrants(o)
          \/ \E by \in Notices \cup {"poll"} : ReadsPlans(o, by)
          \/ \E n \in Notices : NotifyNext(o, n)
          \/ \E i \in 1..MaxRefunds : ReviewNext(o, i)
    \/ SweepReads \/ SweepWrites \/ BackfillReads
    \/ \E u \in Users : UserNext(u)

Spec == Init /\ [][Next]_vars

\* The provider repeats a notification until it has an answer, and a handler
\* that has set its mark runs to its end.
Fairness ==
    \A o \in Orders, n \in Notices :
        /\ WF_vars(WechatNotify(o, n))
        /\ WF_vars(AlipayMark(o, n) \/ AlipayDuplicate(o, n))
        /\ WF_vars(ReadsPlans(o, n))
        /\ WF_vars(AlipayProcess(o, n))

FairSpec == Spec /\ Fairness

----------------------------------------------------------------------------
(***************************************************************************)
(* Properties                                                              *)
(***************************************************************************)
TypeOK ==
    /\ order \in [Orders -> OrderRow]
    /\ refund \in [Orders -> Seq(RefundRow)]
    /\ sweep \in [Orders -> OrderRow \cup {NoRow}]
    /\ view \in [Orders -> OrderRow \cup {NoRow}]
    /\ backfill \subseteq Orders
    /\ trade \in [Orders -> TradeStates]
    /\ notify \in [Orders -> SUBSET Notices]
    /\ seen \subseteq Orders
    /\ busy \in [Orders -> SUBSET Notices]
    /\ plansRead \in [Orders -> PlansRead \cup {NoRow}]
    /\ balance \in [Users -> Int]
    /\ txn \in [Orders -> [Keys -> Int]]
    /\ spent \in [Users -> Nat]
    /\ purchases \in [Orders -> Nat]
    /\ ent \in [Orders -> Entitlement]
    /\ plans \in [Users -> Seq([order : Orders, active : BOOLEAN])]
    /\ quota \in [Users -> [QuotaTypes -> Quota]]
    /\ xp \in [Orders -> {"none", "order_paid", "order_refunded"}]
    /\ exceptions \in Nat
    /\ lostMarks \in Nat

Guarded == Orders \ Exposed

Approved(o) == \E i \in DOMAIN refund[o] : refund[o][i].status = "approved"
Grants(o) ==
    IF Kind[o] = "item" THEN purchases[o]
    ELSE IF Kind[o] = "plan" THEN ent[o].rows
    ELSE IF Booked(txn[o], RechargeKey) THEN 1 ELSE 0

(***************************************************************************)
(* Money                                                                   *)
(***************************************************************************)
Ledger(u) ==
    SumFunction([o \in {p \in Orders : Buyer[p] = u} |-> SumFunction(txn[o])])

\* The balance is what the booked transactions and the metered usage leave,
\* and never below zero, however often and in whatever order the handlers,
\* reviews, backfills and polls of the user's orders run.  changeBalance.
BalanceMatchesLedger ==
    \A u \in Users : balance[u] >= 0 /\ balance[u] = Ledger(u) - spent[u]

\* Money and goods only for money: nothing is booked, granted or marked
\* fulfilled for an order whose trade the provider has not seen paid.
NoValueWithoutPayment ==
    \A o \in Orders :
        \/ order[o].fulfilled \/ purchases[o] > 0 \/ ent[o].rows > 0
        \/ \E k \in Keys : Booked(txn[o], k)
        => trade[o] \in PaidTrades

\* An order has at most one request that is open or was granted, and what
\* goes back to the wallet is never more than was paid - also after late
\* notifications have set a row in refund back to paid.  apply and review.
RefundsBounded ==
    \A o \in Orders :
        /\ \A i, j \in OpenRefunds(o) : i = j
        /\ \A n \in 1..MaxRefunds :
              /\ txn[o][RefundKey(n)] <= Amount[o]
              /\ Booked(txn[o], RefundKey(n)) => n \in OpenRefunds(o)

\* Refunding a plan takes its tokens back: all of them, or at least as much
\* as was just paid back, whatever the user has spent meanwhile, and never
\* more than the order was granted.  Only revokePlanMembershipTokenAllowance
\* after refundToWallet gives that.  An order from before the grants existed
\* pays back tokens it may never have had.
ClawbackComplete ==
    \A o \in Orders :
        Kind[o] = "plan" /\ Approved(o) =>
            /\ -txn[o][TokenRevokeKey] >= Lesser(RoundYuan(Amount[o]), Amount[o])
            /\ o \notin Legacy => -txn[o][TokenRevokeKey] <= txn[o][TokenKey]

(***************************************************************************)
(* Goods                                                                   *)
(***************************************************************************)
\* However often an order is notified, it is granted once.  fulfillOrder.
GrantedOnce == \A o \in Guarded : Grants(o) <= 1

\* The same of the orders the cleanup job may close.
SweptGrantedOnce == \A o \in Expirable : Grants(o) <= 1

\* How often a plan order that stale rows can reach was granted without the
\* wallet lock: every time but the first, and that too if it may complete a
\* reconcile that stopped halfway.
Regrants(o) ==
    IF (o \in Polled /\ exceptions > 0) \/ ent[o].rows = 0
    THEN ent[o].rows ELSE ent[o].rows - 1
GrantedBeside(u) == SumFunction([o \in ExposedPlans(u) |-> Regrants(o)])

\* A user has one plan at a time, whatever order payments and refunds of
\* different plans come in - and one more at most for every time a plan was
\* granted without the wallet lock, beside the fulfilment of another.  The
\* lock keeps all other fulfilments apart.  activatePlan, changeBalance.
OneActivePlan ==
    \A u \in Users : Cardinality(ActiveRows(plans[u])) <= 1 + GrantedBeside(u)

\* After the refund the order's entitlement, plan and experience are gone,
\* and no later notification brings them back.  review, fulfillOrder.
RefundRevokes ==
    \A o \in Guarded :
        Approved(o) =>
            /\ ~ent[o].active
            /\ o \notin ActivePlans(plans[Buyer[o]])
            /\ xp[o] # "order_paid"

(***************************************************************************)
(* Notifications                                                           *)
(***************************************************************************)
Handled(o) == order[o].fulfilled \/ busy[o] # {}

\* When the provider has its last answer, the order is fulfilled or a
\* handler is still at it: late payments of closed orders included.
AnsweredMeansHandled ==
    \A o \in Guarded :
        trade[o] \in PaidTrades /\ notify[o] = {} => Handled(o)

\* What is paid is eventually granted, once the provider repeats itself.
PaidEventuallyGranted ==
    \A o \in Guarded :
        (trade[o] \in PaidTrades) ~> (order[o].fulfilled /\ Grants(o) > 0)

(***************************************************************************)
(* The orders no stale row can overwrite settle as Settlement promises.    *)
(***************************************************************************)
S == INSTANCE Settlement WITH
        Orders <- Guarded,
        Returnable <- {o \in Guarded : Kind[o] # "wallet"},
        Settled <- Guarded \cap Legacy,
        paid <- {o \in Guarded : trade[o] \in PaidTrades},
        granted <- {o \in Guarded : Grants(o) > 0},
        returned <- {o \in Guarded : Approved(o)}

Settles == S!Spec

----------------------------------------------------------------------------
(***************************************************************************)
(* The inductive invariant.                                                *)
(***************************************************************************)
Paid(o) == trade[o] \in PaidTrades

\* Every trace of a payment, loaded rows included, is of a trade that is paid.
PaymentTraces ==
    \A o \in Orders :
        \/ order[o].fulfilled \/ purchases[o] > 0 \/ ent[o].rows > 0
        \/ \E k \in Keys : Booked(txn[o], k)
        \/ sweep[o] # NoRow /\ sweep[o].fulfilled
        \/ view[o] # NoRow /\ view[o].fulfilled
        \/ notify[o] # {} \/ busy[o] # {} \/ refund[o] # <<>> \/ o \in backfill
        => Paid(o)

\* Refund requests: what the transactions and the row say of them.
RefundTraces ==
    \A o \in Orders :
        /\ \A i, j \in OpenRefunds(o) : i = j
        /\ \A i \in DOMAIN refund[o] : refund[o][i].amount <= Amount[o]
        /\ \A n \in 1..MaxRefunds :
              /\ txn[o][RefundKey(n)] <= Amount[o]
              /\ Booked(txn[o], RefundKey(n)) =>
                    n \in DOMAIN refund[o] /\ refund[o][n].status = "approved"

\* The fulfilled flag of a guarded order tells what has been granted.
FlagTellsGrants ==
    \A o \in Guarded :
        /\ sweep[o] = NoRow
        /\ view[o] = NoRow
        /\ purchases[o] = IF order[o].fulfilled /\ Kind[o] = "item" THEN 1 ELSE 0
        /\ ent[o].rows = IF order[o].fulfilled /\ Kind[o] # "wallet" THEN 1 ELSE 0
        /\ Booked(txn[o], RechargeKey) <=> order[o].fulfilled /\ Kind[o] = "wallet"
        /\ refund[o] # <<>> => order[o].fulfilled /\ Kind[o] # "wallet"

\* A plan whose payment is booked has been granted, unless a reconcile of it
\* stopped halfway, which only a polled order has.
PlanTraces ==
    \A o \in Orders :
        /\ view[o] # NoRow => o \in Polled
        /\ Kind[o] = "plan" /\ Booked(txn[o], ExternalKey) =>
              ent[o].rows > 0 \/ (o \in Polled /\ exceptions > 0)

\* The holder of the wallet lock has read of no plan that is active now.
Outdated(u) ==
    \E o \in Holders(u) : plansRead[o].current \cap ActiveRows(plans[u]) = {}

\* One fulfilment holds the lock, and the plan it is about to add is one too
\* many only if the plan it means to end was ended beside it.
PlanCount ==
    \A u \in Users :
        /\ \A o, p \in Holders(u) : o = p
        /\ Cardinality(ActiveRows(plans[u])) + (IF Outdated(u) THEN 1 ELSE 0)
              <= 1 + GrantedBeside(u)

IInv ==
    /\ TypeOK
    /\ PaymentTraces
    /\ RefundTraces
    /\ FlagTellsGrants
    /\ PlanTraces
    /\ PlanCount
    /\ RefundRevokes

\* The payment of an order and the spending of it are booked together, so
\* that booking them again never leaves only the spending to be booked.
SpentAsPaid == \A o \in Orders : txn[o][SpendKey] = -txn[o][ExternalKey]

MoneyInv == BalanceMatchesLedger /\ SpentAsPaid

\* What a plan is granted in tokens; nothing below half a yuan.
TokenGrant(o) == IF RoundYuan(Amount[o]) <= 0 THEN 0 ELSE RoundYuan(Amount[o])

\* Rows of the order, the loaded ones included, that a transaction may use.
RowsOf(o) == {order[o], sweep[o], view[o]} \ {NoRow}

\* Until its request is approved nothing of an order is refunded or revoked,
\* so that the request is for all of it; and a plan whose row says fulfilled
\* has been granted its tokens.
TokenTrace(o) ==
    /\ \A i \in DOMAIN refund[o] : refund[o][i].amount = Amount[o]
    /\ ~Approved(o) => /\ txn[o][TokenRevokeKey] = 0
                       /\ \A row \in RowsOf(o) : row.refunded = 0
    /\ txn[o][TokenKey] \in {0, TokenGrant(o)}
    /\ /\ Kind[o] = "plan" /\ o \notin Legacy
       /\ refund[o] # <<>> \/ \E row \in RowsOf(o) : row.fulfilled
       => txn[o][TokenKey] = TokenGrant(o)

TokenTraces == \A o \in Orders : TokenTrace(o)

ClawbackInv == TokenTraces /\ ClawbackComplete

\* While no handler fails, a Redis mark stands for a payment that has been
\* processed or that a handler is processing.
MarkMeansHandled == \A o \in Guarded \cap seen : Handled(o)

AnswerInv == AnsweredMeansHandled /\ MarkMeansHandled
============================================================================
