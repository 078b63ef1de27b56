------------------------ MODULE EntitlementService ------------------------
(***************************************************************************)
(* What a payment buys: membership plans (rows of user_plans, in the order *)
(* they were started), the entitlement rows of an order, and the user's    *)
(* quotas.  Pure operators; what a transaction has read of the plans and   *)
(* the quotas is an argument, since it may be older than what it writes    *)
(* over.                                                                   *)
(***************************************************************************)
EXTENDS Integers, Sequences

CONSTANT QuotaTypes     \* e.g. "llm_calls"; always with "employee_count"

ASSUME QuotaTypesAssumption == "employee_count" \in QuotaTypes

Quota == [total : Nat, used : Nat]

\* No entitlement row for the order yet / rows inserted, newest still valid.
NoEntitlement == [rows |-> 0, active |-> FALSE]
Entitlement == [rows : Nat, active : BOOLEAN]

----------------------------------------------------------------------------
(***************************************************************************)
(* user_plans                                                              *)
(***************************************************************************)
\* findFirstByUserAndActiveTrueOrderByStartedAtDesc
IsCurrentPlan(plans, i) ==
    /\ plans[i].active
    /\ \A j \in (i + 1)..Len(plans) : ~plans[j].active

CurrentPlan(plans) == {i \in DOMAIN plans : IsCurrentPlan(plans, i)}
ActiveRows(plans) == {i \in DOMAIN plans : plans[i].active}
ActivePlans(plans) == {plans[i].order : i \in ActiveRows(plans)}

\* A mutant of activatePlan that leaves the previous plan active.
StackPlan(plans, current, o) == Append(plans, [order |-> o, active |-> TRUE])

\* activatePlan: the rows it found current are deactivated, the new one is
\* appended.
ActivatePlan(plans, current, o) ==
    Append([i \in DOMAIN plans |-> [plans[i] EXCEPT !.active = @ /\ i \notin current]],
           [order |-> o, active |-> TRUE])

\* revokeOrderEntitlements, the UserPlan of the order.
DeactivatePlan(plans, o) ==
    [i \in DOMAIN plans |->
        [plans[i] EXCEPT !.active = @ /\ plans[i].order # o]]

PlanRows(plans, o) == {i \in DOMAIN plans : plans[i].order = o}

----------------------------------------------------------------------------
(***************************************************************************)
(* entitlements and quotas                                                 *)
(***************************************************************************)
AddEntitlement(ent) == [rows |-> ent.rows + 1, active |-> TRUE]

\* grantCatalogEntitlement looks the order up before it inserts a row.
GrantCatalogEntitlement(ent) ==
    IF ent.rows > 0 THEN ent ELSE AddEntitlement(ent)

\* A mutant that deletes the order's rows instead of closing them.
DeleteEntitlement(ent) == NoEntitlement

RevokeEntitlement(ent) == [rows |-> ent.rows, active |-> FALSE]

\* applyPlanQuotas sets the totals the plan names and saves the rows it
\* read, with what was used by then; a row that had the total is not dirty.
ApplyPlanQuotas(quota, read, totals) ==
    [t \in QuotaTypes |->
        IF t \in DOMAIN totals /\ read[t].total # totals[t]
        THEN [total |-> totals[t], used |-> read[t].used] ELSE quota[t]]

IncrementEmployeeCount(quota) == [quota EXCEPT !["employee_count"].total = @ + 1]

\* revokeOrderEntitlements clamps every quota of the user to what was used.
ClampQuotas(quota) ==
    [t \in QuotaTypes |->
        [quota[t] EXCEPT !.total = IF quota[t].used <= @ THEN quota[t].used ELSE @]]
============================================================================
