------------------------------ MODULE MCOrders ------------------------------
(***************************************************************************)
(* Small instances of OrderLifecycle.  A cfg picks its orders out of the   *)
(* ones below; all are bought by one user, who is the one that the orders  *)
(* compete over.  One yuan is two units, so that an order of three units   *)
(* (1.50) is granted more tokens (2.00) than was paid for it, while one of *)
(* two units (1.00) is granted exactly what was paid.                      *)
(***************************************************************************)
EXTENDS OrderLifecycle

CONSTANT MaxRows     \* bound: plan rows a user may have

MCBuyer == [o \in Orders |-> "user"]

MCKind == [o \in Orders |->
    CASE o \in {"basic", "pro", "old"} -> "plan"
      [] o = "recharge" -> "wallet"
      [] OTHER -> "item"]

MCChannel == [o \in Orders |->
    IF o = "pro" THEN "wechat" ELSE "alipay"]

MCAmount == [o \in Orders |->
    CASE o \in {"basic", "old"} -> 3 [] OTHER -> 2]

MCItem == [o \in Orders |-> "employee"]
MCEmployeePacks == {"pack"}
MCTier == [o \in Orders |-> IF o = "pro" THEN 2 ELSE 1]
MCPlanQuota == [o \in Orders |-> [t \in {"llm_calls"} \cap QuotaTypes |-> 1]]

\* Duplicate grants of an exposed order have no bound in the code.
FewRows ==
    /\ \A o \in Orders : purchases[o] <= MaxRows /\ ent[o].rows <= MaxRows
    /\ \A u \in Users : Len(plans[u]) <= MaxRows
    /\ \A u \in Users, t \in QuotaTypes : quota[u][t].total <= MaxRows
=============================================================================
