----------------------------- MODULE CompanyBilling -----------------------------
(***************************************************************************)
(* The quota of one company: its plan (company_plans, at most one row),    *)
(* the usage of each billing cycle (company_usages), its top-ups, and all  *)
(* that reads and writes them at once:                                     *)
(*   - emissions: ActivePlanGuard, then the transaction of                 *)
(*     InvoicesService.create, then the threshold alerts,                  *)
(*   - refunds (revertUsage), top-up purchases, the assignment of a plan,  *)
(*     and runs of the nightly renewal.                                    *)
(* A company without a plan is metered by its tenant's (TenantPlans).      *)
(*                                                                         *)
(* Each of them is a call with its step and the plan as it read it.  Only  *)
(* the emission and one renewal are transactions; the row locks that a     *)
(* transaction takes last to its commit, so an action is a transaction     *)
(* from its first write, or one statement.  A cycle is <<n, k>>: the k-th  *)
(* renewal of the n-th assignment (the code keys cycles by start date).    *)
(***************************************************************************)
EXTENDS TenantPlans, Sequences, SequencesExt, Functions, Folds

CONSTANTS
  Emissions, Refunds, Topups, Renewals,  \* concurrent calls of each kind
  Exempt,       \* the emissions whose API key has scope ADMIN
  Codes,        \* the plan codes
  Included,     \* includedInvoices of each plan
  PackSize,     \* invoiceCount of the top-up pack
  MaxInvoices, MaxAssigns, MaxRenewed, MaxTopups  \* bounds

Calls == Emissions \cup Refunds \cup Topups \cup Renewals \cup {"assign"}

ASSUME CompanyAssumption ==
  /\ Exempt \subseteq Emissions /\ IsFiniteSet(Emissions)
  /\ Codes # {} /\ Included \in [Codes -> Nat] /\ PackSize \in Nat
  /\ MaxInvoices \in Nat /\ MaxAssigns \in Nat /\ MaxRenewed \in Nat /\ MaxTopups \in Nat

VARIABLES
  plan,       \* the row of company_plans: status, planCode, cycle; NONE without a row
  autoRenew,  \* its autoRenew column
  ended,      \* the cycles whose end date has passed
  assigned,   \* how often a plan was assigned
  usage,      \* cycle -> baseUsed, topupUsed, totalQuota, notified flags
  purchases,  \* the top-up purchases, oldest first: cycle and invoicesUsed
  alerts,     \* the billing alerts: cycle and percentage
  call,       \* each call: step, plan as read, what it will flag, if it notifies
  emitted,    \* invoices committed
  metered,    \* of them, those counted on a usage of the company
  reverted    \* refunds that found a plan to refund to

ledger == <<usage, purchases>>
tally == <<emitted, metered, reverted>>
billingVars == <<tenantVars, plan, autoRenew, ended, assigned, ledger, alerts, call, tally>>

NoPlan == [status |-> "NONE", code |-> CHOOSE c \in Codes : TRUE, cycle |-> <<0, 0>>]
Idle == [step |-> "idle", read |-> NoPlan, due |-> {}]

BillingInit ==
  /\ TenantInit
  /\ plan = NoPlan /\ autoRenew \in BOOLEAN
  /\ ended = {} /\ assigned = 0
  /\ usage = << >> /\ purchases = << >> /\ alerts = {}
  /\ call = [c \in Calls |-> Idle]
  /\ emitted = 0 /\ metered = 0 /\ reverted = 0

-----------------------------------------------------------------------------
(* Shared notions *)

At(c, step) == call[c].step = step
Read(c) == call[c].read
Goto(c, step) ==
  call' = [call EXCEPT ![c] = IF step = "idle" THEN Idle ELSE [@ EXCEPT !.step = step]]
ReadPlan(c, step) == call' = [call EXCEPT ![c] = [@ EXCEPT !.step = step, !.read = plan]]

HasUsage(y) == y \in DOMAIN usage
Used(u) == u.base + u.topup
Fresh(quota) == [base |-> 0, topup |-> 0, quota |-> quota, notified |-> {}]
WithUsage(y, u) == [z \in DOMAIN usage \cup {y} |-> IF z = y THEN u ELSE usage[z]]
Next30Days(y) == <<y[1], y[2] + 1>>

Room_IncludesLast(u) == Used(u) <= u.quota
\* "(base_used + topup_used) < total_quota", in the WHERE of both updates.
Room(u) == Used(u) < u.quota

-----------------------------------------------------------------------------
(* POST /invoices *)

\* CompanyBillingService.canEmitInvoice for a company with a plan.
CompanyAllows ==
  /\ plan.status = "ACTIVE"
  /\ plan.cycle \notin ended
  /\ HasUsage(plan.cycle) => Room(usage[plan.cycle])

\* ActivePlanGuard: what it decides may be stale when the transaction runs.
Guard(e) ==
  /\ At(e, "idle") /\ emitted < MaxInvoices
  /\ \/ e \in Exempt
     \/ plan.status # "NONE" /\ CompanyAllows
     \/ plan.status = "NONE" /\ TenantAllows
  /\ Goto(e, "create")
  /\ UNCHANGED <<tenantVars, plan, autoRenew, ended, assigned, ledger, alerts, tally>>

\* The transaction looks the plan up again: it decides which meter counts.
CreateRead(e) ==
  /\ At(e, "create")
  /\ ReadPlan(e, "charge")
  /\ UNCHANGED <<tenantVars, plan, autoRenew, ended, assigned, ledger, alerts, tally>>

\* The tenant's meter counts only what no plan of the company counts.
CountsTenant(e) == Read(e).status = "NONE"

\* The oldest purchase of the cycle that has not ended; its capacity is not looked at.
ChargedPurchase(y) ==
  LET open == {i \in DOMAIN purchases : purchases[i].cycle = y /\ y \notin ended}
  IN {i \in open : \A j \in open : i <= j}

\* incrementUsage: base first, then the top-ups, each by one guarded update.
Charged(y, code) ==
  IF usage[y].base < Included[code] THEN [usage[y] EXCEPT !.base = @ + 1]
                                    ELSE [usage[y] EXCEPT !.topup = @ + 1]

ChargeCompany(e) ==
  LET y == Read(e).cycle
      u == Charged(y, Read(e).code)
  IN /\ HasUsage(y) /\ Room(usage[y])
     /\ usage' = [usage EXCEPT ![y] = u]
     /\ purchases' = [i \in DOMAIN purchases |->
          IF u.topup > usage[y].topup /\ i \in ChargedPurchase(y)
            THEN [purchases[i] EXCEPT !.used = @ + 1] ELSE purchases[i]]
     /\ plan' = IF ~Room(u) /\ Read(e).status # "EXHAUSTED"
                  THEN [plan EXCEPT !.status = "EXHAUSTED"] ELSE plan
     /\ metered' = metered + 1

\* A company plan that is EXPIRED by now counts nothing.
CreateCommit(e) ==
  /\ At(e, "charge")
  /\ \/ Read(e).status \in {"ACTIVE", "EXHAUSTED"} /\ ChargeCompany(e)
     \/ Read(e).status \in {"EXPIRED", "NONE"} /\ UNCHANGED <<ledger, plan, metered>>
  /\ IF CountsTenant(e) THEN CountTenantInvoice ELSE UNCHANGED tenantPlan
  /\ emitted' = emitted + 1
  /\ Goto(e, "notify")
  /\ UNCHANGED <<adminCall, autoRenew, ended, assigned, alerts, reverted>>

\* No room: the exception rolls everything back, the EXHAUSTED it wrote included.
\* So does any other failure of the transaction.
CreateRollback(e) ==
  /\ At(e, "charge")
  /\ Goto(e, "idle")
  /\ UNCHANGED <<tenantVars, plan, autoRenew, ended, assigned, ledger, alerts, tally>>

(* notifyThresholds, after the commit and waited for by nobody *)

Thresholds == {70, 85, 95, 100}
Reached(u) == {t \in Thresholds : u.quota > 0 /\ Used(u) * 100 >= t * u.quota}

\* The plan, then the usage of its cycle, which later cycles leave alone: one step.
NotifyRead(e) ==
  LET y == plan.cycle
      due == IF plan.status # "NONE" /\ HasUsage(y) THEN Reached(usage[y]) \ usage[y].notified
                                                   ELSE {}
  IN /\ At(e, "notify")
     /\ IF due = {} THEN Goto(e, "idle")
                    ELSE call' = [call EXCEPT ![e] = [step |-> "notifyAlert", read |-> plan, due |-> due]]
     /\ UNCHANGED <<tenantVars, plan, autoRenew, ended, assigned, ledger, alerts, tally>>

\* The alerts, and at 100 % the plan becomes EXHAUSTED, whatever it is by now.
NotifyAlert(e) ==
  /\ At(e, "notifyAlert")
  /\ alerts' = alerts \cup {<<Read(e).cycle, t>> : t \in call[e].due}
  /\ plan' = IF 100 \in call[e].due THEN [plan EXCEPT !.status = "EXHAUSTED"] ELSE plan
  /\ Goto(e, "notifyFlags")
  /\ UNCHANGED <<tenantVars, autoRenew, ended, assigned, ledger, tally>>

NotifyFlags(e) ==
  /\ At(e, "notifyFlags")
  /\ usage' = [usage EXCEPT ![Read(e).cycle].notified = @ \cup call[e].due]
  /\ Goto(e, "idle")
  /\ UNCHANGED <<tenantVars, plan, autoRenew, ended, assigned, purchases, alerts, tally>>

-----------------------------------------------------------------------------
(* revertUsage of an invoice whose refund was claimed (EcfPipeline: at most once *)
(* each): the refund goes to the current cycle of the company.                   *)

RefundRead(f) ==
  /\ At(f, "idle") /\ plan.status # "NONE" /\ reverted < emitted
  /\ ReadPlan(f, "refund")
  /\ reverted' = reverted + 1
  /\ UNCHANGED <<tenantVars, plan, autoRenew, ended, assigned, ledger, alerts, emitted, metered>>

RefundUsage(f) ==
  LET y == Read(f).cycle
      u == usage[y]
  IN /\ At(f, "refund")
     /\ IF HasUsage(y) /\ u.topup > 0
          THEN /\ usage' = [usage EXCEPT ![y].topup = @ - 1]
               /\ Goto(f, "refundPurchase")
          ELSE /\ usage' = IF HasUsage(y) /\ u.base > 0
                             THEN [usage EXCEPT ![y].base = @ - 1] ELSE usage
               /\ Goto(f, "refundPlan")
     /\ UNCHANGED <<tenantVars, plan, autoRenew, ended, assigned, purchases, alerts, tally>>

\* The youngest purchase of the cycle that was charged.
RefundedPurchase(y) ==
  LET charged == {i \in DOMAIN purchases : purchases[i].cycle = y /\ purchases[i].used > 0}
  IN {i \in charged : \A j \in charged : j <= i}

RefundPurchase(f) ==
  /\ At(f, "refundPurchase")
  /\ purchases' = [i \in DOMAIN purchases |->
       IF i \in RefundedPurchase(Read(f).cycle) THEN [purchases[i] EXCEPT !.used = @ - 1]
                                                ELSE purchases[i]]
  /\ Goto(f, "refundPlan")
  /\ UNCHANGED <<tenantVars, plan, autoRenew, ended, assigned, usage, alerts, tally>>

RefundPlan(f) ==
  /\ At(f, "refundPlan")
  /\ plan' = IF Read(f).status = "EXHAUSTED" THEN [plan EXCEPT !.status = "ACTIVE"] ELSE plan
  /\ Goto(f, "idle")
  /\ UNCHANGED <<tenantVars, autoRenew, ended, assigned, ledger, alerts, tally>>

-----------------------------------------------------------------------------
(* purchaseTopup: four statements, no transaction *)

TopupRead(t) ==
  /\ At(t, "idle") /\ plan.status # "NONE"
  /\ Len(purchases) + Cardinality({s \in Topups : At(s, "purchase")}) < MaxTopups
  /\ ReadPlan(t, "purchase")
  /\ UNCHANGED <<tenantVars, plan, autoRenew, ended, assigned, ledger, alerts, tally>>

TopupPurchase(t) ==
  /\ At(t, "purchase")
  /\ purchases' = Append(purchases, [cycle |-> Read(t).cycle, used |-> 0])
  /\ Goto(t, "quota")
  /\ UNCHANGED <<tenantVars, plan, autoRenew, ended, assigned, usage, alerts, tally>>

TopupQuota(t) ==
  LET y == Read(t).cycle IN
  /\ At(t, "quota")
  /\ usage' = IF HasUsage(y)
                THEN [usage EXCEPT ![y].quota = @ + PackSize, ![y].notified = @ \ {100}]
                ELSE usage
  /\ Goto(t, IF Read(t).status = "EXHAUSTED" THEN "reopen" ELSE "idle")
  /\ UNCHANGED <<tenantVars, plan, autoRenew, ended, assigned, purchases, alerts, tally>>

TopupReopen(t) ==
  /\ At(t, "reopen")
  /\ plan' = [plan EXCEPT !.status = "ACTIVE"]
  /\ Goto(t, "idle")
  /\ UNCHANGED <<tenantVars, autoRenew, ended, assigned, ledger, alerts, tally>>

-----------------------------------------------------------------------------
(* assignPlan: the plan row, then the usage of its new cycle *)

AssignPlan ==
  /\ At("assign", "idle") /\ assigned < MaxAssigns
  /\ \E c \in Codes :
       /\ plan' = [status |-> "ACTIVE", code |-> c, cycle |-> <<assigned + 1, 0>>]
       /\ call' = [call EXCEPT !["assign"] = [Idle EXCEPT !.step = "usage", !.read = plan']]
  /\ assigned' = assigned + 1
  /\ UNCHANGED <<tenantVars, autoRenew, ended, ledger, alerts, tally>>

AssignUsage ==
  LET y == Read("assign").cycle IN
  /\ At("assign", "usage")
  /\ usage' = IF HasUsage(y) THEN usage
                             ELSE WithUsage(y, Fresh(Included[Read("assign").code]))
  /\ Goto("assign", "idle")
  /\ UNCHANGED <<tenantVars, plan, autoRenew, ended, assigned, purchases, alerts, tally>>

(* RenewPlansJob: the nightly run under its lock (which may expire) *)

\* The end date of the current cycle passes.
CycleEnds ==
  /\ plan.status # "NONE" /\ plan.cycle[2] < MaxRenewed
  /\ ended' = ended \cup {plan.cycle}
  /\ ended' # ended
  /\ UNCHANGED <<tenantVars, plan, autoRenew, assigned, ledger, alerts, call, tally>>

Renewable_ActiveOnly == {"ACTIVE"}
Renewable == {"ACTIVE", "EXHAUSTED"}

RenewList(n) ==
  /\ At(n, "idle")
  /\ plan.status \in Renewable /\ plan.cycle \in ended
  /\ ReadPlan(n, "renew")
  /\ UNCHANGED <<tenantVars, plan, autoRenew, ended, assigned, ledger, alerts, tally>>

RenewConflicts_Never(y) == FALSE
\* The unique key (company_id, cycle_start_date) of company_usages.
RenewConflicts(y) == HasUsage(y)

\* One transaction per plan of the list; a conflict is logged and undoes it.
RenewPlan(n) ==
  LET y == Next30Days(Read(n).cycle) IN
  /\ At(n, "renew")
  /\ \/ /\ autoRenew /\ ~RenewConflicts(y)
        /\ plan' = [plan EXCEPT !.cycle = y, !.status = "ACTIVE"]
        /\ usage' = WithUsage(y, Fresh(Included[Read(n).code]))
     \/ autoRenew /\ RenewConflicts(y) /\ UNCHANGED <<plan, usage>>
     \/ ~autoRenew /\ plan' = [plan EXCEPT !.status = "EXPIRED"] /\ UNCHANGED usage
  /\ Goto(n, "idle")
  /\ UNCHANGED <<tenantVars, autoRenew, ended, assigned, purchases, alerts, tally>>

-----------------------------------------------------------------------------

EmissionStep(e) ==
  \/ Guard(e) \/ CreateRead(e) \/ CreateCommit(e) \/ CreateRollback(e)
  \/ NotifyRead(e) \/ NotifyAlert(e) \/ NotifyFlags(e)
RefundStep(f) == RefundRead(f) \/ RefundUsage(f) \/ RefundPurchase(f) \/ RefundPlan(f)
TopupStep(t) == TopupRead(t) \/ TopupPurchase(t) \/ TopupQuota(t) \/ TopupReopen(t)
RenewalStep(n) == RenewList(n) \/ RenewPlan(n)
TenantOnly ==
  /\ TenantStep
  /\ UNCHANGED <<plan, autoRenew, ended, assigned, ledger, alerts, call, tally>>

BillingNext ==
  \/ \E e \in Emissions : EmissionStep(e)
  \/ \E f \in Refunds : RefundStep(f)
  \/ \E t \in Topups : TopupStep(t)
  \/ \E n \in Renewals : RenewalStep(n)
  \/ AssignPlan \/ AssignUsage
  \/ CycleEnds
  \/ TenantOnly

-----------------------------------------------------------------------------
(* Properties *)

\* incrementUsage: "concurrent emissions can NEVER push the counter past the
\* quota", whatever refunds, top-ups and renewals do meanwhile.
WithinQuota == \A y \in DOMAIN usage : Used(usage[y]) <= usage[y].quota

AllUsed == SumFunction([y \in DOMAIN usage |-> Used(usage[y])])
TenantCounted ==
  SumFunction([r \in DOMAIN tenantPlan |-> IF tenantPlan[r].count = NoUsage THEN 0 ELSE tenantPlan[r].count])

\* Usage disappears only by refunds: no renewal, assignment or top-up resets a
\* counter that an emission has charged.
UsageLostOnlyToRefunds == AllUsed >= metered - reverted

\* "count exactly ONE billing meter": no invoice is on the meter of the company
\* and of the tenant, even when a plan is assigned during its creation.
NeverCountedTwice == AllUsed + TenantCounted <= emitted

\* The tenant's limit is checked before the count: the emissions that pass
\* together go past it, one each; a plan that no other has been activated
\* beside is never overrun by more.
TenantOverrunBounded ==
  \A r \in TenantRows :
    (Exempt = {} /\ \A s \in TenantRows \ {r} : ~tenantPlan[s].activated) =>
      Count(r) <= TenantIncluded + Cardinality(Emissions) - 1

\* A cycle that is over can always be renewed: the plan is one the nightly run
\* lists, and no usage of the next cycle is there to refuse the transaction,
\* whatever stale lists, assignments and exhaustion came before.
RenewalNeverBlocked ==
  (autoRenew /\ plan.status # "NONE" /\ plan.cycle \in ended) =>
    plan.status \in Renewable /\ ~RenewConflicts(Next30Days(plan.cycle))

-----------------------------------------------------------------------------
(* What the comments and docs promise and the code does not give *)

\* "Increase quota and reset exhausted state": with no call under way, a plan is
\* EXHAUSTED only if its cycle has no room.
ExhaustedIsFull ==
  (plan.status = "EXHAUSTED" /\ HasUsage(plan.cycle) /\ \A c \in Calls : At(c, "idle")) =>
    ~Room(usage[plan.cycle])

\* "Tenant ya tiene plan activo. Cancelar primero.": one active plan per tenant.
OneActivePlan == \A r, s \in ActivePlans : r = s
=============================================================================
