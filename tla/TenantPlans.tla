------------------------------ MODULE TenantPlans ------------------------------
(***************************************************************************)
(* The plans of one tenant (tenant_plans, monthly_usages), the legacy      *)
(* meter of its emissions: the calls of the admin API that assign,         *)
(* activate and cancel a plan, the hourly expiry, and what the emission of *)
(* an invoice reads and counts (CompanyBilling composes it).               *)
(*                                                                         *)
(* A call of the admin API reads a plan and writes it in a later           *)
(* statement: other calls come between.  No write is guarded by what was   *)
(* read, except by the unique key of monthly_usages.                       *)
(***************************************************************************)
EXTENDS Integers, FiniteSets

CONSTANTS
  TenantRows,      \* the ids of tenant_plans rows that may be created
  Admins,          \* concurrent calls of the admin API
  TenantIncluded   \* includedInvoices of the tenant's plan

ASSUME TenantAssumption == TenantIncluded \in Nat \ {0}
\* Each row is created by a call of the admin API: there are finitely many.
ASSUME TenantRowsAssumption == IsFiniteSet(TenantRows)

VARIABLES
  tenantPlan,  \* status, activatedAt set, expiresAt passed and monthly usage of each row
  adminCall    \* step of each admin call, the row it is about, the status it read

tenantVars == <<tenantPlan, adminCall>>

NoUsage == -1

Quiet == [step |-> "idle", row |-> CHOOSE r \in TenantRows : TRUE]
Absent == [status |-> "ABSENT", activated |-> FALSE, ended |-> FALSE, count |-> NoUsage]

TenantInit ==
  /\ tenantPlan = [r \in TenantRows |-> Absent]
  /\ adminCall = [a \in Admins |-> Quiet]

-----------------------------------------------------------------------------
(* What an emission asks of the tenant's plans *)

\* getActivePlan: any row ACTIVE whose expiresAt is in the future.  The query
\* has no order.
ActivePlans == {r \in TenantRows : tenantPlan[r].status = "ACTIVE" /\ ~tenantPlan[r].ended}

Count(r) == IF tenantPlan[r].count = NoUsage THEN 0 ELSE tenantPlan[r].count

TenantAllows_OffByOne == \E r \in ActivePlans : Count(r) <= TenantIncluded
\* canEmitInvoice: there is a plan and its count is below the limit.
TenantAllows == \E r \in ActivePlans : Count(r) < TenantIncluded

\* incrementInvoiceCount: no limit is checked again, and without an active plan
\* nothing is counted.
CountTenantInvoice ==
  IF ActivePlans = {}
    THEN UNCHANGED tenantPlan
    ELSE \E r \in ActivePlans :
           tenantPlan' = [tenantPlan EXCEPT ![r].count = Count(r) + 1]

-----------------------------------------------------------------------------
(* The admin API and the clock *)

\* assignPlan refuses while a plan is ACTIVE, expired or not.
AssignCheck(a) ==
  /\ adminCall[a].step = "idle"
  /\ \A r \in TenantRows : tenantPlan[r].status # "ACTIVE"
  /\ adminCall' = [adminCall EXCEPT ![a].step = "create"]
  /\ UNCHANGED tenantPlan

AssignCreate(a) ==
  /\ adminCall[a].step = "create"
  /\ \E r \in TenantRows :
       /\ tenantPlan[r].status = "ABSENT"
       /\ tenantPlan' = [tenantPlan EXCEPT ![r].status = "PENDING_PAYMENT"]
  /\ adminCall' = [adminCall EXCEPT ![a] = Quiet]

\* activatePlan refuses a plan it reads as ACTIVE or CANCELED, and no other.
ActivateCheck(a) ==
  /\ adminCall[a].step = "idle"
  /\ \E r \in TenantRows :
       /\ tenantPlan[r].status \in {"PENDING_PAYMENT", "EXPIRED"}
       /\ adminCall' = [adminCall EXCEPT ![a] = [step |-> "activate", row |-> r]]
  /\ UNCHANGED tenantPlan

\* The unique key of monthly_usages: one period per plan row.
UsageConflicts(r) == tenantPlan[r].count # NoUsage

\* The transaction updates the plan and creates its usage; a conflict undoes both.
ActivateCommit(a) ==
  LET r == adminCall[a].row IN
  /\ adminCall[a].step = "activate"
  /\ IF UsageConflicts(r)
       THEN UNCHANGED tenantPlan
       ELSE tenantPlan' = [tenantPlan EXCEPT ![r] =
              [status |-> "ACTIVE", activated |-> TRUE, ended |-> FALSE, count |-> 0]]
  /\ adminCall' = [adminCall EXCEPT ![a] = Quiet]

\* cancelPlan only checks that the row exists.
CancelPlan(r) ==
  /\ tenantPlan[r].status \notin {"ABSENT", "CANCELED"}
  /\ tenantPlan' = [tenantPlan EXCEPT ![r].status = "CANCELED"]
  /\ UNCHANGED adminCall

\* expiresAt (30 days after the activation) passes.
PeriodEnds(r) ==
  /\ tenantPlan[r].activated /\ ~tenantPlan[r].ended
  /\ tenantPlan' = [tenantPlan EXCEPT ![r].ended = TRUE]
  /\ UNCHANGED adminCall

\* expireStalePlans, one guarded update of all rows.
ExpireStalePlans ==
  /\ \E r \in TenantRows : tenantPlan[r].status = "ACTIVE" /\ tenantPlan[r].ended
  /\ tenantPlan' = [r \in TenantRows |->
       IF tenantPlan[r].status = "ACTIVE" /\ tenantPlan[r].ended
         THEN [tenantPlan[r] EXCEPT !.status = "EXPIRED"] ELSE tenantPlan[r]]
  /\ UNCHANGED adminCall

TenantStep ==
  \/ \E a \in Admins : AssignCheck(a) \/ AssignCreate(a) \/ ActivateCheck(a) \/ ActivateCommit(a)
  \/ \E r \in TenantRows : CancelPlan(r) \/ PeriodEnds(r)
  \/ ExpireStalePlans
=============================================================================
