------------------------------ MODULE TenancyProofs ------------------------------
(* Proofs about Tenancy, for every value of its constants. *)
EXTENDS Tenancy, FiniteSums, FiniteSetTheorems, TLAPS

\* A step of one part leaves the others alone.
LEMMA Parted ==
  ASSUME [Next]_vars
  PROVE  /\ BillingNext \/ UNCHANGED billingVars
         /\ TenantAccountNext \/ KeyNext \/ CompanyNext \/ UNCHANGED accountVars
         /\ BuyerNext \/ UNCHANGED buyerVars
BY DEF Next, vars

-----------------------------------------------------------------------------
(* The rows of the billing *)

PlanStatus == {"NONE", "ACTIVE", "EXHAUSTED", "EXPIRED"}
PlanRow == [status : PlanStatus, code : Codes, cycle : Nat \X Nat]
UsageRow == [base : Nat, topup : Nat, quota : Nat, notified : SUBSET Thresholds]
Steps == {"idle", "create", "charge", "notify", "notifyAlert", "notifyFlags",
          "refund", "refundPurchase", "refundPlan", "purchase", "quota", "reopen",
          "renew", "usage"}
CallRow == [step : Steps, read : PlanRow, due : SUBSET Thresholds]

BillingTypes ==
  /\ plan \in PlanRow /\ assigned \in Nat
  /\ \A y \in DOMAIN usage : usage[y] \in UsageRow
  /\ call \in [Calls -> CallRow]

\* A call goes on with what it has read, or forgets it.
LEMMA GotoMoves ==
  ASSUME BillingTypes, NEW c \in Calls, NEW step \in Steps, Goto(c, step)
  PROVE  /\ call' \in [Calls -> CallRow] /\ call'[c].step = step
         /\ \A d \in Calls \ {c} : call'[d] = call[d]
         /\ step # "idle" => call'[c].read = call[c].read
<1>1. Idle \in CallRow /\ Idle.step = "idle"
  BY CompanyAssumption DEF Idle, NoPlan, CallRow, Steps, PlanRow, PlanStatus
<1>2. [call[c] EXCEPT !.step = step] \in CallRow
  BY DEF BillingTypes, CallRow
<1> QED BY <1>1, <1>2 DEF Goto, BillingTypes, CallRow

\* A call reads the plan.
LEMMA ReadPlanMoves ==
  ASSUME BillingTypes, NEW c \in Calls, NEW step \in Steps, ReadPlan(c, step)
  PROVE  /\ call' \in [Calls -> CallRow] /\ call'[c].step = step /\ call'[c].read = plan
         /\ \A d \in Calls \ {c} : call'[d] = call[d]
<1>1. [call[c] EXCEPT !.step = step, !.read = plan] \in CallRow
  BY DEF BillingTypes, CallRow
<1> QED BY <1>1 DEF ReadPlan, BillingTypes, CallRow

-----------------------------------------------------------------------------
(* The quota *)

\* A usage row that is written again with no more use and no less quota.
LEMMA RowKept ==
  ASSUME BillingTypes, WithinQuota, NEW y \in DOMAIN usage, NEW u \in UsageRow,
         Used(u) <= u.quota, usage' = [usage EXCEPT ![y] = u]
  PROVE  \A z \in DOMAIN usage' : usage'[z] \in UsageRow /\ Used(usage'[z]) <= usage'[z].quota
BY DEF BillingTypes, WithinQuota

\* A new row of a plan has its quota and no use.
LEMMA RowCreated ==
  ASSUME BillingTypes, WithinQuota, NEW y, NEW code \in Codes,
         usage' = WithUsage(y, Fresh(Included[code]))
  PROVE  \A z \in DOMAIN usage' : usage'[z] \in UsageRow /\ Used(usage'[z]) <= usage'[z].quota
<1>1. Fresh(Included[code]) \in UsageRow
  BY CompanyAssumption DEF Fresh, UsageRow
<1>2. Used(Fresh(Included[code])) <= Fresh(Included[code]).quota
  BY CompanyAssumption DEF Fresh, Used
<1> QED BY <1>1, <1>2 DEF WithUsage, BillingTypes, WithinQuota

\* An emission is charged only where there is room.
LEMMA ChargeKeeps ==
  ASSUME BillingTypes, WithinQuota, NEW e \in Calls, ChargeCompany(e)
  PROVE  /\ \A z \in DOMAIN usage' : usage'[z] \in UsageRow /\ Used(usage'[z]) <= usage'[z].quota
         /\ plan' \in PlanRow
<1> DEFINE y == Read(e).cycle
           u == Charged(y, Read(e).code)
<1>1. y \in DOMAIN usage /\ Used(usage[y]) < usage[y].quota /\ usage[y] \in UsageRow
  BY DEF ChargeCompany, HasUsage, Room, BillingTypes
<1>2. u \in UsageRow /\ Used(u) = Used(usage[y]) + 1 /\ u.quota = usage[y].quota
  BY <1>1 DEF Charged, UsageRow, Used
<1>3. Used(u) <= u.quota
  BY <1>1, <1>2 DEF Used, UsageRow
<1>4. usage' = [usage EXCEPT ![y] = u]
  BY DEF ChargeCompany
<1>5. plan' \in PlanRow
  BY DEF ChargeCompany, BillingTypes, PlanRow, PlanStatus
<1> QED BY <1>1, <1>2, <1>3, <1>4, <1>5, RowKept

\* A refund takes one from a counter that has one.
LEMMA RefundKeeps ==
  ASSUME BillingTypes, WithinQuota, NEW f \in Calls, RefundUsage(f)
  PROVE  \A z \in DOMAIN usage' : usage'[z] \in UsageRow /\ Used(usage'[z]) <= usage'[z].quota
<1> DEFINE y == Read(f).cycle
<1>1. CASE usage' = usage
  BY <1>1 DEF BillingTypes, WithinQuota
<1>2. CASE y \in DOMAIN usage /\ usage[y].topup > 0 /\ usage' = [usage EXCEPT ![y].topup = @ - 1]
  <2> DEFINE u == [usage[y] EXCEPT !.topup = @ - 1]
  <2>1. u \in UsageRow /\ Used(u) <= u.quota
    BY <1>2 DEF BillingTypes, WithinQuota, UsageRow, Used
  <2> QED BY <1>2, <2>1, RowKept
<1>3. CASE y \in DOMAIN usage /\ usage[y].base > 0 /\ usage' = [usage EXCEPT ![y].base = @ - 1]
  <2> DEFINE u == [usage[y] EXCEPT !.base = @ - 1]
  <2>1. u \in UsageRow /\ Used(u) <= u.quota
    BY <1>3 DEF BillingTypes, WithinQuota, UsageRow, Used
  <2> QED BY <1>3, <2>1, RowKept
<1> QED BY <1>1, <1>2, <1>3 DEF RefundUsage, HasUsage

\* A top-up adds to the quota, and the flags are no quota.
LEMMA TopupKeeps ==
  ASSUME BillingTypes, WithinQuota, NEW t \in Calls, TopupQuota(t) \/ NotifyFlags(t)
  PROVE  \A z \in DOMAIN usage' : usage'[z] \in UsageRow /\ Used(usage'[z]) <= usage'[z].quota
<1> DEFINE y == Read(t).cycle
<1>1. CASE usage' = usage
  BY <1>1 DEF BillingTypes, WithinQuota
<1>2. CASE /\ y \in DOMAIN usage
           /\ usage' = [usage EXCEPT ![y].quota = @ + PackSize, ![y].notified = @ \ {100}]
  <2> DEFINE u == [[usage[y] EXCEPT !.quota = @ + PackSize] EXCEPT !.notified = @ \ {100}]
  <2>1. u \in UsageRow /\ Used(u) <= u.quota
    BY <1>2, CompanyAssumption DEF BillingTypes, WithinQuota, UsageRow, Used
  <2>2. usage' = [usage EXCEPT ![y] = u]
    BY <1>2
  <2> QED BY <1>2, <2>1, <2>2, RowKept
<1>3. CASE y \in DOMAIN usage /\ usage' = [usage EXCEPT ![y].notified = @ \cup call[t].due]
  <2> DEFINE u == [usage[y] EXCEPT !.notified = @ \cup call[t].due]
  <2>1. u \in UsageRow /\ Used(u) <= u.quota
    BY <1>3 DEF BillingTypes, WithinQuota, UsageRow, Used, CallRow
  <2> QED BY <1>3, <2>1, RowKept
<1>4. CASE y \notin DOMAIN usage /\ usage' = [usage EXCEPT ![y].notified = @ \cup call[t].due]
  BY <1>4 DEF BillingTypes, WithinQuota
<1> QED BY <1>1, <1>2, <1>3, <1>4 DEF TopupQuota, NotifyFlags, HasUsage

\* The rows of all billing actions, one step each.
LEMMA BillingStep ==
  ASSUME BillingTypes, WithinQuota, BillingNext
  PROVE  BillingTypes' /\ WithinQuota'
<1> DEFINE Kept == \A z \in DOMAIN usage' :
                     usage'[z] \in UsageRow /\ Used(usage'[z]) <= usage'[z].quota
<1>0. SUFFICES plan' \in PlanRow /\ assigned' \in Nat /\ Kept /\ call' \in [Calls -> CallRow]
  BY DEF BillingTypes, WithinQuota
<1>u. (UNCHANGED usage) => Kept
  BY DEF BillingTypes, WithinQuota
<1>t. plan \in PlanRow /\ assigned \in Nat /\ call \in [Calls -> CallRow]
  BY DEF BillingTypes
<1> HIDE DEF Kept
<1>1. ASSUME NEW e \in Emissions, EmissionStep(e)
      PROVE  plan' \in PlanRow /\ assigned' \in Nat /\ Kept /\ call' \in [Calls -> CallRow]
  <2>c. e \in Calls
    BY DEF Calls
  <2>1. CASE Guard(e)
    BY <2>1, <2>c, <1>u, <1>t, GotoMoves DEF Guard, ledger, Steps
  <2>2. CASE CreateRead(e)
    BY <2>2, <2>c, <1>u, <1>t, ReadPlanMoves DEF CreateRead, ledger, Steps
  <2>3. CASE CreateCommit(e)
    <3>1. plan' \in PlanRow /\ Kept
      <4>1. CASE ChargeCompany(e)
        BY <4>1, <2>c, ChargeKeeps DEF Kept
      <4>2. CASE UNCHANGED <<ledger, plan>>
        BY <4>2, <1>u, <1>t DEF ledger
      <4> QED BY <2>3, <4>1, <4>2 DEF CreateCommit
    <3>2. call' \in [Calls -> CallRow]
      BY <2>3, <2>c, GotoMoves DEF CreateCommit, Steps
    <3> QED BY <2>3, <3>1, <3>2, <1>t DEF CreateCommit
  <2>4. CASE CreateRollback(e)
    BY <2>4, <2>c, <1>u, <1>t, GotoMoves DEF CreateRollback, ledger, Steps
  <2>5. CASE NotifyRead(e)
    <3> DEFINE due == IF plan.status # "NONE" /\ HasUsage(plan.cycle)
                        THEN Reached(usage[plan.cycle]) \ usage[plan.cycle].notified ELSE {}
    <3>1. due \subseteq Thresholds
      BY DEF Reached
    <3>2. CASE Goto(e, "idle")
      BY <3>2, <2>5, <2>c, <1>u, <1>t, GotoMoves DEF NotifyRead, ledger, Steps
    <3>3. CASE call' = [call EXCEPT ![e] = [step |-> "notifyAlert", read |-> plan, due |-> due]]
      <4>1. [step |-> "notifyAlert", read |-> plan, due |-> due] \in CallRow
        BY <3>1, <1>t DEF CallRow, Steps
      <4> QED BY <3>3, <4>1, <2>5, <2>c, <1>u, <1>t DEF NotifyRead, ledger
    <3> QED BY <2>5, <3>2, <3>3 DEF NotifyRead
  <2>6. CASE NotifyAlert(e)
    <3>1. plan' \in PlanRow
      BY <2>6, <1>t DEF NotifyAlert, PlanRow, PlanStatus
    <3> QED BY <2>6, <3>1, <2>c, <1>u, <1>t, GotoMoves DEF NotifyAlert, ledger, Steps
  <2>7. CASE NotifyFlags(e)
    <3>1. Kept
      BY <2>7, <2>c, TopupKeeps DEF Kept
    <3> QED BY <2>7, <3>1, <2>c, <1>t, GotoMoves DEF NotifyFlags, Steps
  <2> QED BY <1>1, <2>1, <2>2, <2>3, <2>4, <2>5, <2>6, <2>7 DEF EmissionStep
<1>2. ASSUME NEW f \in Refunds, RefundStep(f)
      PROVE  plan' \in PlanRow /\ assigned' \in Nat /\ Kept /\ call' \in [Calls -> CallRow]
  <2>c. f \in Calls
    BY DEF Calls
  <2>1. CASE RefundRead(f)
    BY <2>1, <2>c, <1>u, <1>t, ReadPlanMoves DEF RefundRead, ledger, Steps
  <2>2. CASE RefundUsage(f)
    <3>1. Kept
      BY <2>2, <2>c, RefundKeeps DEF Kept
    <3>2. Goto(f, "refundPurchase") \/ Goto(f, "refundPlan")
      BY <2>2 DEF RefundUsage
    <3> QED BY <2>2, <3>1, <3>2, <2>c, <1>t, GotoMoves DEF RefundUsage, Steps
  <2>3. CASE RefundPurchase(f)
    BY <2>3, <2>c, <1>u, <1>t, GotoMoves DEF RefundPurchase, Steps
  <2>4. CASE RefundPlan(f)
    <3>1. plan' \in PlanRow
      BY <2>4, <1>t DEF RefundPlan, PlanRow, PlanStatus
    <3> QED BY <2>4, <3>1, <2>c, <1>u, <1>t, GotoMoves DEF RefundPlan, ledger, Steps
  <2> QED BY <1>2, <2>1, <2>2, <2>3, <2>4 DEF RefundStep
<1>3. ASSUME NEW t \in Topups, TopupStep(t)
      PROVE  plan' \in PlanRow /\ assigned' \in Nat /\ Kept /\ call' \in [Calls -> CallRow]
  <2>c. t \in Calls
    BY DEF Calls
  <2>1. CASE TopupRead(t)
    BY <2>1, <2>c, <1>u, <1>t, ReadPlanMoves DEF TopupRead, ledger, Steps
  <2>2. CASE TopupPurchase(t)
    BY <2>2, <2>c, <1>u, <1>t, GotoMoves DEF TopupPurchase, Steps
  <2>3. CASE TopupQuota(t)
    <3>1. Kept
      BY <2>3, <2>c, TopupKeeps DEF Kept
    <3>2. Goto(t, "reopen") \/ Goto(t, "idle")
      BY <2>3 DEF TopupQuota
    <3> QED BY <2>3, <3>1, <3>2, <2>c, <1>t, GotoMoves DEF TopupQuota, Steps
  <2>4. CASE TopupReopen(t)
    <3>1. plan' \in PlanRow
      BY <2>4, <1>t DEF TopupReopen, PlanRow, PlanStatus
    <3> QED BY <2>4, <3>1, <2>c, <1>u, <1>t, GotoMoves DEF TopupReopen, ledger, Steps
  <2> QED BY <1>3, <2>1, <2>2, <2>3, <2>4 DEF TopupStep
<1>4. ASSUME NEW n \in Renewals, RenewalStep(n)
      PROVE  plan' \in PlanRow /\ assigned' \in Nat /\ Kept /\ call' \in [Calls -> CallRow]
  <2>c. n \in Calls
    BY DEF Calls
  <2>1. CASE RenewList(n)
    BY <2>1, <2>c, <1>u, <1>t, ReadPlanMoves DEF RenewList, ledger, Steps
  <2>2. CASE RenewPlan(n)
    <3> DEFINE y == Next30Days(Read(n).cycle)
    <3>1. Read(n) \in PlanRow /\ Read(n).code \in Codes /\ y \in Nat \X Nat
      BY <2>c, <1>t DEF Read, CallRow, PlanRow, Next30Days
    <3>2. plan' \in PlanRow
      BY <2>2, <3>1, <1>t DEF RenewPlan, PlanRow, PlanStatus
    <3>3. Kept
      <4>1. CASE usage' = WithUsage(y, Fresh(Included[Read(n).code]))
        BY <4>1, <3>1, RowCreated DEF Kept
      <4>2. CASE UNCHANGED usage
        BY <4>2, <1>u
      <4> QED BY <2>2, <4>1, <4>2 DEF RenewPlan
    <3> QED BY <2>2, <3>2, <3>3, <2>c, <1>t, GotoMoves DEF RenewPlan, Steps
  <2> QED BY <1>4, <2>1, <2>2 DEF RenewalStep
<1>5. CASE AssignPlan
  <2> PICK c \in Codes :
        /\ plan' = [status |-> "ACTIVE", code |-> c, cycle |-> <<assigned + 1, 0>>]
        /\ call' = [call EXCEPT !["assign"] = [Idle EXCEPT !.step = "usage", !.read = plan']]
    BY <1>5 DEF AssignPlan
  <2>1. plan' \in PlanRow /\ assigned' \in Nat
    BY <1>5, <1>t DEF AssignPlan, PlanRow, PlanStatus
  <2>2. [Idle EXCEPT !.step = "usage", !.read = plan'] \in CallRow
    BY <2>1, CompanyAssumption DEF Idle, NoPlan, CallRow, Steps, PlanRow, PlanStatus
  <2> QED BY <1>5, <2>1, <2>2, <1>u, <1>t DEF AssignPlan, ledger
<1>6. CASE AssignUsage
  <2>c. "assign" \in Calls /\ Read("assign").code \in Codes
    BY <1>t DEF Calls, Read, CallRow, PlanRow
  <2>1. Kept
    <3>1. CASE UNCHANGED usage
      BY <3>1, <1>u
    <3>2. CASE usage' = WithUsage(Read("assign").cycle, Fresh(Included[Read("assign").code]))
      BY <3>2, <2>c, RowCreated DEF Kept
    <3> QED BY <1>6, <3>1, <3>2 DEF AssignUsage
  <2> QED BY <1>6, <2>1, <2>c, <1>t, GotoMoves DEF AssignUsage, Steps
<1>7. CASE CycleEnds \/ TenantOnly
  BY <1>7, <1>u, <1>t DEF CycleEnds, TenantOnly, ledger
<1> QED BY <1>1, <1>2, <1>3, <1>4, <1>5, <1>6, <1>7 DEF BillingNext

\* Nothing is used at first, and another part uses nothing.
LEMMA BillingRows == Spec => [](BillingTypes /\ WithinQuota)
<1>1. Init => BillingTypes /\ WithinQuota
  BY CompanyAssumption
     DEF Init, BillingInit, BillingTypes, WithinQuota, NoPlan, Idle, PlanRow, PlanStatus, CallRow, Steps
<1>2. BillingTypes /\ WithinQuota /\ [Next]_vars => (BillingTypes /\ WithinQuota)'
  <2> SUFFICES ASSUME BillingTypes, WithinQuota, [Next]_vars
               PROVE  BillingTypes' /\ WithinQuota'
    OBVIOUS
  <2>1. CASE BillingNext
    BY <2>1, BillingStep
  <2>2. CASE UNCHANGED billingVars
    BY <2>2 DEF billingVars, ledger, BillingTypes, WithinQuota
  <2> QED BY <2>1, <2>2, Parted
<1> QED BY <1>1, <1>2, PTL DEF Spec

\* incrementUsage: whatever emissions, refunds, top-ups, assignments and renewals do at
\* once, the use of no cycle passes its quota.
THEOREM QuotaHolds == Spec => []WithinQuota
BY BillingRows, PTL

-----------------------------------------------------------------------------
(* The renewal *)

Numbered == {"renew", "usage"}

\* What leaves the cycles alone.
CyclesKept ==
  /\ DOMAIN usage' = DOMAIN usage /\ plan'.cycle = plan.cycle
  /\ plan'.status \in {plan.status, "ACTIVE", "EXHAUSTED"}
  /\ UNCHANGED <<assigned, autoRenew>>
  /\ \A c \in Calls : call'[c].step \in Numbered => call'[c] = call[c]

LEMMA OthersKeepCycles ==
  ASSUME BillingTypes,
         \/ \E e \in Emissions : EmissionStep(e)
         \/ \E f \in Refunds : RefundStep(f)
         \/ \E t \in Topups : TopupStep(t)
         \/ CycleEnds \/ TenantOnly
  PROVE  CyclesKept
<1>t. plan \in PlanRow /\ call \in [Calls -> CallRow]
  BY DEF BillingTypes
<1>g. ASSUME NEW c \in Calls, NEW step \in Steps \ Numbered, Goto(c, step) \/ ReadPlan(c, step)
      PROVE  \A d \in Calls : call'[d].step \in Numbered => call'[d] = call[d]
  BY <1>g, GotoMoves, ReadPlanMoves
<1>1. ASSUME NEW e \in Emissions, EmissionStep(e) PROVE CyclesKept
  <2>c. e \in Calls
    BY DEF Calls
  <2>1. CASE Guard(e)
    BY <2>1, <2>c, <1>g DEF Guard, ledger, CyclesKept, Steps, Numbered
  <2>2. CASE CreateRead(e)
    BY <2>2, <2>c, <1>g DEF CreateRead, ledger, CyclesKept, Steps, Numbered
  <2>3. CASE CreateCommit(e)
    <3>1. /\ DOMAIN usage' = DOMAIN usage /\ plan'.cycle = plan.cycle
          /\ plan'.status \in {plan.status, "EXHAUSTED"}
      BY <2>3, <1>t DEF CreateCommit, ChargeCompany, ledger, PlanRow
    <3>2. \A d \in Calls : call'[d].step \in Numbered => call'[d] = call[d]
      BY <2>3, <2>c, <1>g DEF CreateCommit, Steps, Numbered
    <3> QED BY <2>3, <3>1, <3>2 DEF CreateCommit, CyclesKept
  <2>4. CASE CreateRollback(e)
    BY <2>4, <2>c, <1>g DEF CreateRollback, ledger, CyclesKept, Steps, Numbered
  <2>5. CASE NotifyRead(e)
    <3>1. \A d \in Calls : call'[d].step \in Numbered => call'[d] = call[d]
      BY <2>5, <2>c, <1>g, <1>t DEF NotifyRead, Steps, Numbered
    <3> QED BY <2>5, <3>1 DEF NotifyRead, ledger, CyclesKept
  <2>6. CASE NotifyAlert(e)
    <3>1. plan'.cycle = plan.cycle /\ plan'.status \in {plan.status, "EXHAUSTED"}
      BY <2>6, <1>t DEF NotifyAlert, PlanRow
    <3> QED BY <2>6, <3>1, <2>c, <1>g DEF NotifyAlert, ledger, CyclesKept, Steps, Numbered
  <2>7. CASE NotifyFlags(e)
    BY <2>7, <2>c, <1>g DEF NotifyFlags, CyclesKept, Steps, Numbered
  <2> QED BY <1>1, <2>1, <2>2, <2>3, <2>4, <2>5, <2>6, <2>7 DEF EmissionStep
<1>2. ASSUME NEW f \in Refunds, RefundStep(f) PROVE CyclesKept
  <2>c. f \in Calls
    BY DEF Calls
  <2>1. CASE RefundRead(f)
    BY <2>1, <2>c, <1>g DEF RefundRead, ledger, CyclesKept, Steps, Numbered
  <2>2. CASE RefundUsage(f)
    <3>1. DOMAIN usage' = DOMAIN usage
      BY <2>2 DEF RefundUsage
    <3>2. Goto(f, "refundPurchase") \/ Goto(f, "refundPlan")
      BY <2>2 DEF RefundUsage
    <3> QED BY <2>2, <3>1, <3>2, <2>c, <1>g DEF RefundUsage, CyclesKept, Steps, Numbered
  <2>3. CASE RefundPurchase(f)
    BY <2>3, <2>c, <1>g DEF RefundPurchase, CyclesKept, Steps, Numbered
  <2>4. CASE RefundPlan(f)
    <3>1. plan'.cycle = plan.cycle /\ plan'.status \in {plan.status, "ACTIVE"}
      BY <2>4, <1>t DEF RefundPlan, PlanRow
    <3> QED BY <2>4, <3>1, <2>c, <1>g DEF RefundPlan, ledger, CyclesKept, Steps, Numbered
  <2> QED BY <1>2, <2>1, <2>2, <2>3, <2>4 DEF RefundStep
<1>3. ASSUME NEW t \in Topups, TopupStep(t) PROVE CyclesKept
  <2>c. t \in Calls
    BY DEF Calls
  <2>1. CASE TopupRead(t)
    BY <2>1, <2>c, <1>g DEF TopupRead, ledger, CyclesKept, Steps, Numbered
  <2>2. CASE TopupPurchase(t)
    BY <2>2, <2>c, <1>g DEF TopupPurchase, CyclesKept, Steps, Numbered
  <2>3. CASE TopupQuota(t)
    <3>1. Goto(t, "reopen") \/ Goto(t, "idle")
      BY <2>3 DEF TopupQuota
    <3> QED BY <2>3, <3>1, <2>c, <1>g DEF TopupQuota, CyclesKept, Steps, Numbered
  <2>4. CASE TopupReopen(t)
    <3>1. plan'.cycle = plan.cycle /\ plan'.status = "ACTIVE"
      BY <2>4, <1>t DEF TopupReopen, PlanRow
    <3> QED BY <2>4, <3>1, <2>c, <1>g DEF TopupReopen, ledger, CyclesKept, Steps, Numbered
  <2> QED BY <1>3, <2>1, <2>2, <2>3, <2>4 DEF TopupStep
<1>4. CASE CycleEnds \/ TenantOnly
  BY <1>4 DEF CycleEnds, TenantOnly, ledger, CyclesKept
<1> QED BY <1>1, <1>2, <1>3, <1>4

\* A cycle that has been the current one of its assignment: it has its usage if it is a
\* renewal, and no later one has, unless the next one has.
Begun(y, cycles) == y[2] = 0 \/ y \in cycles
Latest(y, cycles) == \A z \in cycles : z[1] = y[1] => z[2] <= y[2]

CyclesInOrder ==
  /\ \A y \in DOMAIN usage : y \in Nat \X Nat /\ y[1] <= assigned
  /\ plan.cycle[1] <= assigned /\ Begun(plan.cycle, DOMAIN usage) /\ Latest(plan.cycle, DOMAIN usage)
  /\ autoRenew => plan.status # "EXPIRED"
  /\ \A c \in Calls : At(c, "renew") =>
       /\ Read(c).cycle[1] <= assigned /\ Begun(Read(c).cycle, DOMAIN usage)
       /\ Latest(Read(c).cycle, DOMAIN usage) \/ HasUsage(Next30Days(Read(c).cycle))
  /\ \A c \in Calls : At(c, "usage") => Read(c).cycle[1] <= assigned /\ Read(c).cycle[2] = 0

\* The next cycle of the latest one has no usage yet.
LEMMA NextIsFree ==
  ASSUME NEW y \in Nat \X Nat, Latest(y, DOMAIN usage) PROVE ~HasUsage(Next30Days(y))
BY DEF Latest, HasUsage, Next30Days

LEMMA CyclesStep ==
  ASSUME BillingTypes, CyclesInOrder, BillingNext PROVE CyclesInOrder'
<1>t. /\ plan \in PlanRow /\ call \in [Calls -> CallRow] /\ assigned \in Nat
      /\ plan.cycle \in Nat \X Nat /\ \A c \in Calls : Read(c).cycle \in Nat \X Nat
  BY DEF BillingTypes, Read, CallRow, PlanRow
<1>1. CASE CyclesKept
  <2>1. \A y : (Begun(y, DOMAIN usage) => Begun(y, DOMAIN usage')) /\ (Latest(y, DOMAIN usage) => Latest(y, DOMAIN usage')) /\ (HasUsage(y) => y \in DOMAIN usage')
    BY <1>1 DEF CyclesKept, Begun, Latest, HasUsage
  <2>2. \A c \in Calls : At(c, "renew")' => At(c, "renew") /\ Read(c)' = Read(c)
    BY <1>1 DEF CyclesKept, Numbered, At, Read
  <2>3. \A c \in Calls : At(c, "usage")' => At(c, "usage") /\ Read(c)' = Read(c)
    BY <1>1 DEF CyclesKept, Numbered, At, Read
  <2>4. plan'.cycle = plan.cycle /\ assigned' = assigned /\ autoRenew' = autoRenew
    BY <1>1 DEF CyclesKept
  <2> QED BY <1>1, <2>1, <2>2, <2>3, <2>4
          DEF CyclesInOrder, CyclesKept, Next30Days, HasUsage, Begun, Latest
<1>2. ASSUME NEW n \in Renewals, RenewList(n) PROVE CyclesInOrder'
  <2>1. n \in Calls /\ "renew" \in Steps
    BY DEF Calls, Steps
  <2>2. /\ call'[n].step = "renew" /\ call'[n].read = plan
        /\ \A d \in Calls \ {n} : call'[d] = call[d]
    BY <1>2, <2>1, ReadPlanMoves DEF RenewList
  <2> QED BY <1>2, <2>1, <2>2
          DEF CyclesInOrder, RenewList, ledger, At, Read, Begun, Latest, HasUsage, Next30Days
<1>3. ASSUME NEW n \in Renewals, RenewPlan(n) PROVE CyclesInOrder'
  <2> DEFINE r == Read(n).cycle
             y == Next30Days(r)
  <2>1. n \in Calls /\ r \in Nat \X Nat /\ y \in Nat \X Nat /\ y[1] = r[1] /\ y[2] = r[2] + 1
    BY <1>t DEF Calls, Next30Days
  <2>2. r[1] <= assigned /\ Begun(r, DOMAIN usage) /\ (Latest(r, DOMAIN usage) \/ HasUsage(y))
    BY <1>3, <2>1 DEF CyclesInOrder, RenewPlan
  <2>3. call'[n].step = "idle" /\ \A d \in Calls \ {n} : call'[d] = call[d]
    BY <1>3, <2>1, GotoMoves DEF RenewPlan, Steps
  <2>4. UNCHANGED <<assigned, autoRenew>>
    BY <1>3 DEF RenewPlan
  <2>5. CASE UNCHANGED usage
    <3>1. plan'.cycle = plan.cycle /\ (autoRenew => plan'.status = plan.status)
      BY <1>3, <2>5, <1>t, <2>1 DEF RenewPlan, RenewConflicts, HasUsage, WithUsage, PlanRow
    <3> QED BY <2>3, <2>4, <2>5, <3>1
            DEF CyclesInOrder, At, Read, Begun, Latest, HasUsage, Next30Days
  <2>6. CASE /\ ~HasUsage(y)
             /\ plan' = [plan EXCEPT !.cycle = y, !.status = "ACTIVE"]
             /\ usage' = WithUsage(y, Fresh(Included[Read(n).code]))
    <3>1. DOMAIN usage' = DOMAIN usage \cup {y} /\ plan'.cycle = y /\ plan'.status = "ACTIVE"
      BY <2>6, <1>t DEF WithUsage, PlanRow
    <3>2. Latest(r, DOMAIN usage)
      BY <2>2, <2>6
    <3>3. Begun(y, DOMAIN usage') /\ Latest(y, DOMAIN usage')
      BY <3>1, <3>2, <2>1 DEF Begun, Latest, CyclesInOrder
    <3>4. ASSUME NEW c \in Calls, At(c, "renew")'
          PROVE  /\ Read(c)'.cycle[1] <= assigned' /\ Begun(Read(c)'.cycle, DOMAIN usage')
                 /\ Latest(Read(c)'.cycle, DOMAIN usage') \/ Next30Days(Read(c)'.cycle) \in DOMAIN usage'
      <4> DEFINE z == Read(c).cycle
      <4>1. c # n /\ At(c, "renew") /\ Read(c)' = Read(c) /\ z \in Nat \X Nat
        BY <3>4, <2>3, <1>t DEF At, Read
      <4>2. z[1] <= assigned /\ Begun(z, DOMAIN usage) /\ (Latest(z, DOMAIN usage) \/ HasUsage(Next30Days(z)))
        BY <4>1 DEF CyclesInOrder
      <4>3. Begun(z, DOMAIN usage')
        BY <4>1, <4>2, <3>1 DEF Begun
      <4>4. CASE HasUsage(Next30Days(z))
        BY <4>4, <4>1, <4>2, <4>3, <3>1, <2>4 DEF HasUsage
      <4>5. CASE Latest(z, DOMAIN usage) /\ (z[1] # y[1] \/ y[2] <= z[2])
        BY <4>5, <4>1, <4>2, <4>3, <3>1, <2>4 DEF Latest
      <4>6. CASE Latest(z, DOMAIN usage) /\ z[1] = y[1] /\ z[2] < y[2]
        <5>1. r[2] <= z[2]
          BY <4>6, <4>1, <2>1, <2>2 DEF Begun, Latest
        <5>2. Next30Days(z) = y
          BY <5>1, <4>6, <4>1, <2>1 DEF Next30Days
        <5> QED BY <5>2, <4>1, <4>2, <4>3, <3>1, <2>4 DEF HasUsage, Next30Days
      <4> QED BY <4>1, <4>2, <4>3, <4>4, <4>5, <4>6, <2>1, <2>4
    <3>5. \A c \in Calls : At(c, "usage")' => At(c, "usage") /\ Read(c)' = Read(c)
      BY <2>3 DEF At, Read
    <3>6. \A x \in DOMAIN usage' : x \in Nat \X Nat /\ x[1] <= assigned'
      BY <3>1, <2>1, <2>2, <2>4 DEF CyclesInOrder
    <3>7. /\ plan'.cycle[1] <= assigned' /\ Begun(plan'.cycle, DOMAIN usage') /\ Latest(plan'.cycle, DOMAIN usage')
      BY <3>1, <3>3, <2>1, <2>2, <2>4 DEF Begun, Latest
    <3>8. \A c \in Calls : At(c, "usage")' =>
            Read(c)'.cycle[1] <= assigned' /\ Read(c)'.cycle[2] = 0
      BY <3>5, <2>4 DEF CyclesInOrder
    <3> QED BY <3>1, <3>4, <3>6, <3>7, <3>8 DEF CyclesInOrder, Begun, Latest, HasUsage, Next30Days
  <2> QED BY <1>3, <2>5, <2>6 DEF RenewPlan, RenewConflicts
<1>4. CASE AssignPlan
  <2> DEFINE y == <<assigned + 1, 0>>
  <2>1. plan'.cycle = y /\ plan'.status = "ACTIVE"
    BY <1>4 DEF AssignPlan
  <2>2. assigned' = assigned + 1 /\ UNCHANGED <<usage, autoRenew>>
    BY <1>4 DEF AssignPlan, ledger
  <2>3. "assign" \in Calls
    BY DEF Calls
  <2>4. /\ call'["assign"].step = "usage" /\ call'["assign"].read = plan'
        /\ \A d \in Calls \ {"assign"} : call'[d] = call[d]
    BY <1>4, <2>3, <1>t DEF AssignPlan, Idle
  <2>5. Begun(plan'.cycle, DOMAIN usage') /\ Latest(plan'.cycle, DOMAIN usage')
    BY <2>1, <2>2, <1>t DEF Begun, Latest, CyclesInOrder
  <2>6. \A c \in Calls : At(c, "renew")' => At(c, "renew") /\ Read(c)' = Read(c)
    BY <2>4 DEF At, Read
  <2>7. \A c \in Calls : At(c, "usage")' => Read(c)'.cycle[1] <= assigned' /\ Read(c)'.cycle[2] = 0
    BY <2>1, <2>2, <2>4, <1>t DEF At, Read, CyclesInOrder
  <2>8. \A z : (Begun(z, DOMAIN usage) <=> Begun(z, DOMAIN usage')) /\ (Latest(z, DOMAIN usage) <=> Latest(z, DOMAIN usage')) /\ (HasUsage(z) <=> z \in DOMAIN usage')
    BY <2>2 DEF Begun, Latest, HasUsage
  <2>9. \A c \in Calls : At(c, "renew")' =>
          /\ Read(c)'.cycle[1] <= assigned' /\ Begun(Read(c)'.cycle, DOMAIN usage')
          /\ Latest(Read(c)'.cycle, DOMAIN usage') \/ Next30Days(Read(c)'.cycle) \in DOMAIN usage'
    BY <2>2, <2>6, <2>8, <1>t DEF CyclesInOrder, Next30Days
  <2>10. \A x \in DOMAIN usage' : x \in Nat \X Nat /\ x[1] <= assigned'
    BY <2>2, <1>t DEF CyclesInOrder
  <2> QED BY <2>1, <2>2, <2>5, <2>7, <2>9, <2>10, <1>t
          DEF CyclesInOrder, Begun, Latest, HasUsage, Next30Days
<1>5. CASE AssignUsage
  <2> DEFINE y == Read("assign").cycle
  <2>1. "assign" \in Calls /\ y \in Nat \X Nat /\ y[1] <= assigned /\ y[2] = 0
    BY <1>5, <1>t DEF AssignUsage, CyclesInOrder, Calls
  <2>2. DOMAIN usage' = DOMAIN usage \cup {y}
    BY <1>5 DEF AssignUsage, HasUsage, WithUsage
  <2>3. call'["assign"].step = "idle" /\ \A d \in Calls \ {"assign"} : call'[d] = call[d]
    BY <1>5, <2>1, GotoMoves DEF AssignUsage, Steps
  <2>4. UNCHANGED <<plan, assigned, autoRenew>>
    BY <1>5 DEF AssignUsage
  <2>5. \A z \in Nat \X Nat :
          (Begun(z, DOMAIN usage) => Begun(z, DOMAIN usage')) /\ (Latest(z, DOMAIN usage) => Latest(z, DOMAIN usage')) /\ (HasUsage(z) => z \in DOMAIN usage')
    BY <2>1, <2>2 DEF Begun, Latest, HasUsage
  <2>6. \A c \in Calls : call'[c].step \in Numbered => call'[c] = call[c]
    BY <2>3 DEF Numbered
  <2>7. \A c \in Calls : At(c, "renew")' =>
          /\ Read(c)'.cycle[1] <= assigned' /\ Begun(Read(c)'.cycle, DOMAIN usage')
          /\ Latest(Read(c)'.cycle, DOMAIN usage') \/ Next30Days(Read(c)'.cycle) \in DOMAIN usage'
    BY <2>4, <2>5, <2>6, <1>t DEF CyclesInOrder, Next30Days, At, Read, Numbered
  <2>8. \A c \in Calls : At(c, "usage")' => Read(c)'.cycle[1] <= assigned' /\ Read(c)'.cycle[2] = 0
    BY <2>4, <2>6 DEF CyclesInOrder, At, Read, Numbered
  <2>9. \A x \in DOMAIN usage' : x \in Nat \X Nat /\ x[1] <= assigned'
    BY <2>1, <2>2, <2>4 DEF CyclesInOrder
  <2>10. Begun(plan'.cycle, DOMAIN usage') /\ Latest(plan'.cycle, DOMAIN usage')
    BY <2>4, <2>5, <1>t DEF CyclesInOrder
  <2> QED BY <2>4, <2>7, <2>8, <2>9, <2>10
          DEF CyclesInOrder, Begun, Latest, HasUsage, Next30Days
<1> QED BY <1>1, <1>2, <1>3, <1>4, <1>5, OthersKeepCycles DEF BillingNext, RenewalStep

\* A cycle that is over can always be renewed, for any number of renewals that work on
\* stale lists and of plans assigned meanwhile: the nightly run lists the plan, and no
\* usage of the next cycle refuses its transaction.
THEOREM RenewalIsFree == Spec => []RenewalNeverBlocked
<1>1. Init => CyclesInOrder
  BY DEF Init, BillingInit, NoPlan, Idle, CyclesInOrder, Begun, Latest, At
<1>2. BillingTypes /\ CyclesInOrder /\ [Next]_vars => CyclesInOrder'
  <2> SUFFICES ASSUME BillingTypes, CyclesInOrder, [Next]_vars PROVE CyclesInOrder'
    OBVIOUS
  <2>1. CASE BillingNext
    BY <2>1, CyclesStep
  <2>2. CASE UNCHANGED billingVars
    BY <2>2 DEF billingVars, ledger, CyclesInOrder, Begun, Latest, HasUsage, At, Read, Next30Days
  <2> QED BY <2>1, <2>2, Parted
<1>3. BillingTypes /\ CyclesInOrder => RenewalNeverBlocked
  <2> SUFFICES ASSUME BillingTypes, CyclesInOrder, autoRenew, plan.status # "NONE"
               PROVE  plan.status \in Renewable /\ ~RenewConflicts(Next30Days(plan.cycle))
    BY DEF RenewalNeverBlocked
  <2>1. plan.cycle \in Nat \X Nat /\ plan.status \in PlanStatus
    BY DEF BillingTypes, PlanRow
  <2> QED BY <2>1, NextIsFree DEF CyclesInOrder, RenewConflicts, Renewable, PlanStatus
<1> QED BY <1>1, <1>2, <1>3, BillingRows, PTL DEF Spec

-----------------------------------------------------------------------------
(* The tenant's plan *)

TenantRow ==
  [status : {"ABSENT", "PENDING_PAYMENT", "ACTIVE", "EXPIRED", "CANCELED"},
   activated : BOOLEAN, ended : BOOLEAN, count : Nat \cup {NoUsage}]

\* A plan that is or was active has been activated, and no other has a count.
TenantTypes ==
  /\ tenantPlan \in [TenantRows -> TenantRow]
  /\ \A r \in TenantRows :
       /\ tenantPlan[r].status = "ACTIVE" => tenantPlan[r].activated
       /\ ~tenantPlan[r].activated => tenantPlan[r].count = NoUsage
  /\ \A a \in Admins : adminCall[a].step = "activate" => adminCall[a].row \in TenantRows
  /\ DOMAIN adminCall = Admins

\* The emissions that will count on the tenant's plan.
Pending ==
  {e \in Emissions : \/ At(e, "create") /\ plan.status = "NONE"
                     \/ At(e, "charge") /\ Read(e).status = "NONE"}

Alone(r) == \A s \in TenantRows \ {r} : ~tenantPlan[s].activated

\* The emissions that passed the check together, all but one of them beside the limit.
OverrunCounted ==
  Exempt = {} => \A r \in TenantRows :
    Alone(r) => Count(r) + Cardinality(Pending) <= TenantIncluded + Cardinality(Emissions) - 1

\* What neither counts nor lets an emission pass.
PlansKept ==
  \A r \in TenantRows : /\ tenantPlan[r].activated => tenantPlan'[r].activated
                        /\ Count(r)' <= Count(r)

LEMMA TenantStepKeeps ==
  ASSUME TenantTypes, TenantStep
  PROVE  TenantTypes' /\ PlansKept
<1> USE DEF TenantTypes, PlansKept, Count, NoUsage, TenantRow
<1>1. ASSUME NEW a \in Admins, AssignCheck(a) PROVE TenantTypes' /\ PlansKept
  BY <1>1 DEF AssignCheck
<1>2. ASSUME NEW a \in Admins, AssignCreate(a) PROVE TenantTypes' /\ PlansKept
  BY <1>2 DEF AssignCreate, Quiet
<1>3. ASSUME NEW a \in Admins, ActivateCheck(a) PROVE TenantTypes' /\ PlansKept
  BY <1>3 DEF ActivateCheck
<1>4. ASSUME NEW a \in Admins, ActivateCommit(a) PROVE TenantTypes' /\ PlansKept
  <2> DEFINE r == adminCall[a].row
             row == [status |-> "ACTIVE", activated |-> TRUE, ended |-> FALSE, count |-> 0]
  <2>1. r \in TenantRows /\ row \in TenantRow /\ row.activated /\ row.count = 0
    BY <1>4 DEF ActivateCommit
  <2>2. adminCall' = [adminCall EXCEPT ![a] = Quiet] /\ Quiet.step = "idle"
    BY <1>4 DEF ActivateCommit, Quiet
  <2>3. CASE UNCHANGED tenantPlan
    BY <2>2, <2>3
  <2>4. CASE tenantPlan' = [tenantPlan EXCEPT ![r] = row] /\ tenantPlan[r].count = NoUsage
    <3> HIDE DEF row, r
    <3> QED BY <2>1, <2>2, <2>4
  <2> QED BY <1>4, <2>3, <2>4 DEF ActivateCommit, UsageConflicts
<1>5. ASSUME NEW r \in TenantRows, CancelPlan(r) PROVE TenantTypes' /\ PlansKept
  BY <1>5 DEF CancelPlan
<1>6. ASSUME NEW r \in TenantRows, PeriodEnds(r) PROVE TenantTypes' /\ PlansKept
  <2> DEFINE row == [tenantPlan[r] EXCEPT !.ended = TRUE]
  <2>1. /\ row \in TenantRow /\ row.count = tenantPlan[r].count /\ row.status = tenantPlan[r].status
        /\ row.activated = tenantPlan[r].activated
    OBVIOUS
  <2>2. tenantPlan' = [tenantPlan EXCEPT ![r] = row] /\ UNCHANGED adminCall
    BY <1>6 DEF PeriodEnds
  <2> HIDE DEF row
  <2> QED BY <2>1, <2>2
<1>7. CASE ExpireStalePlans
  BY <1>7 DEF ExpireStalePlans
<1> QED BY <1>1, <1>2, <1>3, <1>4, <1>5, <1>6, <1>7 DEF TenantStep

LEMMA CountKeeps ==
  ASSUME TenantTypes, CountTenantInvoice, UNCHANGED adminCall
  PROVE  /\ TenantTypes'
         /\ \A r \in TenantRows : /\ tenantPlan'[r].activated = tenantPlan[r].activated
                                  /\ Count(r)' <= Count(r) + 1
BY DEF TenantTypes, CountTenantInvoice, ActivePlans, Count, NoUsage, TenantRow

\* All but the emissions that pass or are counted.
LEMMA OthersPlansKept ==
  ASSUME BillingTypes, TenantTypes, BillingNext,
         \A e \in Emissions : ~Guard(e) /\ ~CreateCommit(e)
  PROVE  TenantTypes' /\ PlansKept
<1>1. CASE TenantOnly
  BY <1>1, TenantStepKeeps DEF TenantOnly
<1>2. CASE UNCHANGED tenantVars
  BY <1>2 DEF tenantVars, TenantTypes, PlansKept, Count, NoUsage, TenantRow
<1>3. TenantOnly \/ UNCHANGED tenantVars
  BY DEF BillingNext, EmissionStep, RefundStep, TopupStep, RenewalStep, CreateRead, CreateRollback,
         NotifyRead, NotifyAlert, NotifyFlags, RefundRead, RefundUsage, RefundPurchase, RefundPlan,
         TopupRead, TopupPurchase, TopupQuota, TopupReopen, RenewList, RenewPlan, AssignPlan,
         AssignUsage, CycleEnds
<1> QED BY <1>1, <1>2, <1>3

\* What brings no emission nearer to its count.
PendingKept ==
  /\ plan'.status = "NONE" => plan.status = "NONE"
  /\ \A c \in Calls : call'[c].step \in {"create", "charge"} => call'[c] = call[c]

LEMMA OthersPendingKept ==
  ASSUME BillingTypes, BillingNext,
         \A e \in Emissions : ~Guard(e) /\ ~CreateRead(e) /\ ~CreateCommit(e)
  PROVE  PendingKept
<1>t. plan \in PlanRow /\ call \in [Calls -> CallRow]
  BY DEF BillingTypes
<1>g. ASSUME NEW c \in Calls, NEW step \in Steps \ {"create", "charge"},
             Goto(c, step) \/ ReadPlan(c, step)
      PROVE  \A d \in Calls : call'[d].step \in {"create", "charge"} => call'[d] = call[d]
  BY <1>g, GotoMoves, ReadPlanMoves
<1>1. ASSUME NEW e \in Emissions, CreateRollback(e) \/ NotifyRead(e) \/ NotifyAlert(e) \/ NotifyFlags(e)
      PROVE  PendingKept
  <2>c. e \in Calls
    BY DEF Calls
  <2>1. CASE CreateRollback(e)
    BY <2>1, <2>c, <1>g DEF CreateRollback, PendingKept, Steps
  <2>2. CASE NotifyRead(e)
    <3>1. \A d \in Calls : call'[d].step \in {"create", "charge"} => call'[d] = call[d]
      BY <2>2, <2>c, <1>g, <1>t DEF NotifyRead, Steps
    <3> QED BY <2>2, <3>1 DEF NotifyRead, PendingKept
  <2>3. CASE NotifyAlert(e)
    BY <2>3, <2>c, <1>g, <1>t DEF NotifyAlert, PendingKept, Steps, PlanRow
  <2>4. CASE NotifyFlags(e)
    BY <2>4, <2>c, <1>g DEF NotifyFlags, PendingKept, Steps
  <2> QED BY <1>1, <2>1, <2>2, <2>3, <2>4
<1>2. ASSUME NEW f \in Refunds, RefundStep(f) PROVE PendingKept
  <2>c. f \in Calls
    BY DEF Calls
  <2>1. CASE RefundRead(f)
    BY <2>1, <2>c, <1>g DEF RefundRead, PendingKept, Steps
  <2>2. CASE RefundUsage(f)
    <3>1. Goto(f, "refundPurchase") \/ Goto(f, "refundPlan")
      BY <2>2 DEF RefundUsage
    <3> QED BY <2>2, <3>1, <2>c, <1>g DEF RefundUsage, PendingKept, Steps
  <2>3. CASE RefundPurchase(f)
    BY <2>3, <2>c, <1>g DEF RefundPurchase, PendingKept, Steps
  <2>4. CASE RefundPlan(f)
    BY <2>4, <2>c, <1>g, <1>t DEF RefundPlan, PendingKept, Steps, PlanRow
  <2> QED BY <1>2, <2>1, <2>2, <2>3, <2>4 DEF RefundStep
<1>3. ASSUME NEW t \in Topups, TopupStep(t) PROVE PendingKept
  <2>c. t \in Calls
    BY DEF Calls
  <2>1. CASE TopupRead(t)
    BY <2>1, <2>c, <1>g DEF TopupRead, PendingKept, Steps
  <2>2. CASE TopupPurchase(t)
    BY <2>2, <2>c, <1>g DEF TopupPurchase, PendingKept, Steps
  <2>3. CASE TopupQuota(t)
    <3>1. Goto(t, "reopen") \/ Goto(t, "idle")
      BY <2>3 DEF TopupQuota
    <3> QED BY <2>3, <3>1, <2>c, <1>g DEF TopupQuota, PendingKept, Steps
  <2>4. CASE TopupReopen(t)
    BY <2>4, <2>c, <1>g, <1>t DEF TopupReopen, PendingKept, Steps, PlanRow
  <2> QED BY <1>3, <2>1, <2>2, <2>3, <2>4 DEF TopupStep
<1>4. ASSUME NEW n \in Renewals, RenewalStep(n) PROVE PendingKept
  <2>c. n \in Calls
    BY DEF Calls
  <2>1. CASE RenewList(n)
    BY <2>1, <2>c, <1>g DEF RenewList, PendingKept, Steps
  <2>2. CASE RenewPlan(n)
    BY <2>2, <2>c, <1>g, <1>t DEF RenewPlan, PendingKept, Steps, PlanRow
  <2> QED BY <1>4, <2>1, <2>2 DEF RenewalStep
<1>5. CASE AssignPlan
  <2>1. plan'.status = "ACTIVE"
    BY <1>5 DEF AssignPlan
  <2>2. \A d \in Calls : call'[d].step \in {"create", "charge"} => call'[d] = call[d]
    BY <1>5, <1>t DEF AssignPlan, Idle
  <2> QED BY <2>1, <2>2 DEF PendingKept
<1>6. CASE AssignUsage
  <2>c. "assign" \in Calls
    BY DEF Calls
  <2> QED BY <1>6, <2>c, <1>g DEF AssignUsage, PendingKept, Steps
<1>7. CASE CycleEnds \/ TenantOnly
  BY <1>7 DEF CycleEnds, TenantOnly, PendingKept
<1> QED BY <1>1, <1>2, <1>3, <1>4, <1>5, <1>6, <1>7 DEF BillingNext, EmissionStep

\* Fewer emissions pending: none that was not.
LEMMA FewerPending ==
  ASSUME NEW P, P \subseteq Pending
  PROVE  IsFiniteSet(P) /\ Cardinality(P) \in Nat /\ Cardinality(P) <= Cardinality(Pending)
<1>1. IsFiniteSet(Pending)
  BY CompanyAssumption, FS_Subset DEF Pending
<1> QED BY <1>1, FS_Subset, FS_CardinalityType

LEMMA PendingBound == IsFiniteSet(Pending) /\ Cardinality(Pending) \in Nat
                      /\ Cardinality(Pending) <= Cardinality(Emissions) /\ Cardinality(Emissions) \in Nat
BY CompanyAssumption, FS_Subset, FS_CardinalityType DEF Pending

LEMMA OverrunStep ==
  ASSUME BillingTypes, TenantTypes, OverrunCounted, BillingNext
  PROVE  TenantTypes' /\ OverrunCounted'
<1>t. plan \in PlanRow /\ call \in [Calls -> CallRow] /\ Emissions \subseteq Calls
  BY DEF BillingTypes, Calls
<1>n. /\ \A r \in TenantRows : Count(r) \in Nat
      /\ TenantTypes' => \A r \in TenantRows : Count(r)' \in Nat
  BY DEF TenantTypes, TenantRow, Count, NoUsage
<1>k. ASSUME PlansKept, TenantTypes', Pending' \subseteq Pending PROVE OverrunCounted'
  <2>1. Cardinality(Pending') \in Nat /\ Cardinality(Pending') <= Cardinality(Pending)
    BY <1>k, FewerPending
  <2>2. \A r \in TenantRows : Alone(r)' => Alone(r)
    BY <1>k DEF PlansKept, Alone
  <2> QED BY <1>k, <1>n, <2>1, <2>2, PendingBound, TenantAssumption DEF OverrunCounted, PlansKept
<1>1. ASSUME NEW e \in Emissions, Guard(e) PROVE TenantTypes' /\ OverrunCounted'
  <2>1. UNCHANGED <<tenantPlan, adminCall, plan>>
    BY <1>1 DEF Guard, tenantVars
  <2>2. TenantTypes' /\ PlansKept
    BY <2>1, <1>n DEF TenantTypes, PlansKept, Count
  <2>3. /\ call'[e].step = "create" /\ call'[e].read = call[e].read
        /\ \A d \in Calls \ {e} : call'[d] = call[d]
    BY <1>1, <1>t, GotoMoves DEF Guard, Steps
  <2>4. CASE plan.status # "NONE"
    <3>1. Pending' \subseteq Pending
      BY <2>1, <2>3, <2>4, <1>t DEF Pending, At, Read
    <3> QED BY <3>1, <2>2, <1>k
  <2>5. CASE plan.status = "NONE"
    <3> SUFFICES ASSUME Exempt = {}, NEW r \in TenantRows, Alone(r)'
                 PROVE  Count(r)' + Cardinality(Pending)' <= TenantIncluded + Cardinality(Emissions) - 1
      BY <2>2, TenantAssumption DEF OverrunCounted
    <3>1. PICK s \in ActivePlans : Count(s) < TenantIncluded
      BY <1>1, <2>5 DEF Guard, TenantAllows
    <3>2. s = r
      BY <3>1, <2>1 DEF ActivePlans, TenantTypes, Alone
    <3>3. Count(r)' = Count(r)
      BY <2>1 DEF Count
    <3>4. Pending' \subseteq Emissions
      BY DEF Pending
    <3>5. Cardinality(Pending') \in Nat /\ Cardinality(Pending') <= Cardinality(Emissions)
      BY <3>4, CompanyAssumption, FS_Subset, FS_CardinalityType
    <3> QED BY <3>1, <3>2, <3>3, <3>5, <1>n, PendingBound, TenantAssumption
  <2> QED BY <2>2, <2>4, <2>5
<1>2. ASSUME NEW e \in Emissions, CreateRead(e) PROVE TenantTypes' /\ OverrunCounted'
  <2>1. UNCHANGED <<tenantPlan, adminCall, plan>>
    BY <1>2 DEF CreateRead, tenantVars
  <2>2. TenantTypes' /\ PlansKept
    BY <2>1, <1>n DEF TenantTypes, PlansKept, Count
  <2>3. /\ call'[e].step = "charge" /\ call'[e].read = plan
        /\ \A d \in Calls \ {e} : call'[d] = call[d]
    BY <1>2, <1>t, ReadPlanMoves DEF CreateRead, Steps
  <2>4. Pending' \subseteq Pending
    BY <1>2, <2>1, <2>3, <1>t DEF Pending, At, Read, CreateRead
  <2> QED BY <2>2, <2>4, <1>k
<1>3. ASSUME NEW e \in Emissions, CreateCommit(e) PROVE TenantTypes' /\ OverrunCounted'
  <2>1. /\ call'[e].step = "notify" /\ \A d \in Calls \ {e} : call'[d] = call[d]
    BY <1>3, <1>t, GotoMoves DEF CreateCommit, Steps
  <2>2. plan'.status = "NONE" => plan.status = "NONE"
    BY <1>3, <1>t DEF CreateCommit, ChargeCompany, PlanRow
  <2>3. Pending' \subseteq Pending \ {e}
    BY <2>1, <2>2, <1>t DEF Pending, At, Read
  <2>4. UNCHANGED adminCall
    BY <1>3 DEF CreateCommit
  <2>5. CASE UNCHANGED tenantPlan
    <3>1. TenantTypes' /\ PlansKept
      BY <2>4, <2>5, <1>n DEF TenantTypes, PlansKept, Count
    <3> QED BY <3>1, <2>3, <1>k
  <2>6. CASE CountTenantInvoice /\ CountsTenant(e)
    <3>1. TenantTypes'
      BY <2>4, <2>6, CountKeeps
    <3>2. \A r \in TenantRows : /\ tenantPlan'[r].activated = tenantPlan[r].activated
                                /\ Count(r)' <= Count(r) + 1
      BY <2>4, <2>6, CountKeeps
    <3>3. e \in Pending
      BY <1>3, <2>6 DEF Pending, CreateCommit, CountsTenant
    <3>4. Cardinality(Pending \ {e}) = Cardinality(Pending) - 1
      BY <3>3, PendingBound, FS_RemoveElement
    <3>5. Cardinality(Pending') <= Cardinality(Pending) - 1 /\ Cardinality(Pending') \in Nat
      BY <2>3, <3>4, PendingBound, FS_Subset, FS_CardinalityType
    <3>6. \A r \in TenantRows : Alone(r)' => Alone(r)
      BY <3>2 DEF Alone
    <3> QED BY <3>1, <3>2, <3>5, <3>6, <1>n, PendingBound, TenantAssumption DEF OverrunCounted
  <2> QED BY <1>3, <2>5, <2>6 DEF CreateCommit
<1>4. CASE \A e \in Emissions : ~Guard(e) /\ ~CreateRead(e) /\ ~CreateCommit(e)
  <2>1. TenantTypes' /\ PlansKept
    BY <1>4, OthersPlansKept
  <2>2. PendingKept
    BY <1>4, OthersPendingKept
  <2>3. Pending' \subseteq Pending
    BY <2>2, <1>t DEF Pending, PendingKept, At, Read
  <2> QED BY <2>1, <2>3, <1>k
<1> QED BY <1>1, <1>2, <1>3, <1>4

\* The tenant's rows and what their counters owe to the emissions under way.
LEMMA TenantRowsKept == Spec => [](TenantTypes /\ OverrunCounted)
<1>1. Init => TenantTypes /\ OverrunCounted
  <2> SUFFICES ASSUME Init PROVE TenantTypes /\ OverrunCounted
    OBVIOUS
  <2>1. TenantTypes /\ \A r \in TenantRows : Count(r) = 0
    BY DEF Init, BillingInit, TenantInit, TenantTypes, TenantRow, Absent, Quiet, NoUsage, Count
  <2>2. Pending = {}
    BY DEF Init, BillingInit, Pending, At, Idle, Calls
  <2>3. Cardinality(Pending) = 0
    BY <2>2, FS_EmptySet
  <2> QED BY <2>1, <2>3, PendingBound, TenantAssumption DEF OverrunCounted
<1>2. BillingTypes /\ TenantTypes /\ OverrunCounted /\ [Next]_vars => (TenantTypes /\ OverrunCounted)'
  <2> SUFFICES ASSUME BillingTypes, TenantTypes, OverrunCounted, [Next]_vars
               PROVE  TenantTypes' /\ OverrunCounted'
    OBVIOUS
  <2>1. CASE BillingNext
    BY <2>1, OverrunStep
  <2>2. CASE UNCHANGED billingVars
    BY <2>2 DEF billingVars, tenantVars, TenantTypes, OverrunCounted, Count, Pending, Alone, At, Read
  <2> QED BY <2>1, <2>2, Parted
<1> QED BY <1>1, <1>2, BillingRows, PTL DEF Spec

\* The tenant's plan is checked before it is counted: the emissions that pass the check
\* together overrun it by one each and no more, however many there are.
THEOREM OverrunIsBounded == Spec => []TenantOverrunBounded
<1>1. TenantTypes /\ OverrunCounted => TenantOverrunBounded
  <2> SUFFICES ASSUME TenantTypes, OverrunCounted, Exempt = {}, NEW r \in TenantRows, Alone(r)
               PROVE  Count(r) <= TenantIncluded + Cardinality(Emissions) - 1
    BY DEF TenantOverrunBounded, Alone
  <2>1. Count(r) \in Nat
    BY DEF TenantTypes, TenantRow, Count, NoUsage
  <2> QED BY <2>1, PendingBound, TenantAssumption DEF OverrunCounted
<1> QED BY <1>1, TenantRowsKept, PTL

-----------------------------------------------------------------------------
(* The use of all cycles *)

\* AllUsed of any rows.
UseOf(rows) == SumFunction([y \in DOMAIN rows |-> Used(rows[y])])

\* One cycle is counted beside the others.
LEMMA UseOfWithout ==
  ASSUME NEW rows, IsFiniteSet(DOMAIN rows), \A y \in DOMAIN rows : rows[y] \in UsageRow
  PROVE  /\ UseOf(rows) \in Int
         /\ \A y \in DOMAIN rows : /\ UseOf(Without(rows, y)) \in Int
                                   /\ UseOf(rows) = UseOf(Without(rows, y)) + Used(rows[y])
<1> DEFINE w == [x \in DOMAIN rows |-> Used(rows[x])]
<1>1. DOMAIN w = DOMAIN rows /\ \A x \in DOMAIN w : w[x] \in Int
  BY DEF Used, UsageRow
<1>2. UseOf(rows) = SumFunction(w)
  BY DEF UseOf
<1>3. ASSUME NEW y \in DOMAIN rows
      PROVE  UseOf(Without(rows, y)) = SumFunction(Without(w, y)) /\ w[y] = Used(rows[y])
             /\ IsFiniteSet(DOMAIN Without(w, y)) /\ \A x \in DOMAIN Without(w, y) : Without(w, y)[x] \in Int
  <2> DEFINE v == Without(rows, y)
  <2>1. IsFiniteSet(DOMAIN v) /\ IsFiniteSet(DOMAIN Without(w, y))
    BY FS_RemoveElement DEF Without
  <2>2. [x \in DOMAIN v |-> Used(v[x])] = Without(w, y)
    BY DEF Without
  <2>3. \A x \in DOMAIN Without(w, y) : Without(w, y)[x] \in Int
    BY <1>1 DEF Without
  <2> HIDE DEF v
  <2>4. UseOf(v) = SumFunction(Without(w, y))
    BY <2>2 DEF UseOf
  <2> QED BY <2>1, <2>3, <2>4, <1>3 DEF v
<1> HIDE DEF w
<1>4. SumFunction(w) \in Int
  BY <1>1, SumFunctionType
<1>5. ASSUME NEW y \in DOMAIN rows
      PROVE  SumFunction(Without(w, y)) \in Int /\ SumFunction(w) = SumFunction(Without(w, y)) + w[y]
  BY <1>1, <1>3, <1>5, SumFunctionType, SumFunctionWithout
<1> QED BY <1>2, <1>3, <1>4, <1>5

\* A row that is written again, and a row that is added.
LEMMA UseOfWritten ==
  ASSUME NEW rows, IsFiniteSet(DOMAIN rows), \A y \in DOMAIN rows : rows[y] \in UsageRow,
         NEW new, IsFiniteSet(DOMAIN new), \A y \in DOMAIN new : new[y] \in UsageRow,
         NEW y \in DOMAIN new, \A x \in (DOMAIN rows \cup DOMAIN new) \ {y} : x \in DOMAIN rows /\ x \in DOMAIN new /\ new[x] = rows[x]
  PROVE  /\ UseOf(rows) \in Int /\ UseOf(new) \in Int
         /\ UseOf(new) = UseOf(rows) + Used(new[y]) - (IF y \in DOMAIN rows THEN Used(rows[y]) ELSE 0)
<1>1. UseOf(rows) \in Int /\ UseOf(new) \in Int /\ UseOf(Without(new, y)) \in Int
      /\ UseOf(new) = UseOf(Without(new, y)) + Used(new[y])
  BY UseOfWithout
<1>2. Used(new[y]) \in Int
  BY DEF Used, UsageRow
<1>3. CASE y \in DOMAIN rows
  <2>1. Without(new, y) = Without(rows, y)
    BY DEF Without
  <2>2. UseOf(rows) = UseOf(Without(rows, y)) + Used(rows[y]) /\ Used(rows[y]) \in Int
    BY <1>3, UseOfWithout DEF Used, UsageRow
  <2> QED BY <1>1, <1>2, <1>3, <2>1, <2>2
<1>4. CASE y \notin DOMAIN rows
  <2>1. DOMAIN new \ {y} = DOMAIN rows
    BY <1>4
  <2> DEFINE v == Without(new, y)
  <2>2. DOMAIN v = DOMAIN rows /\ \A x \in DOMAIN v : v[x] = rows[x]
    BY <2>1 DEF Without
  <2> HIDE DEF v
  <2>3. [x \in DOMAIN v |-> Used(v[x])] = [x \in DOMAIN rows |-> Used(rows[x])]
    BY <2>2
  <2>4. UseOf(v) = UseOf(rows)
    BY <2>3 DEF UseOf
  <2> QED BY <1>1, <1>2, <1>4, <2>4 DEF v
<1> QED BY <1>3, <1>4

\* The refunds that were counted and have not yet taken their use.
Owed == {f \in Calls : At(f, "refund")}

UsageCounted ==
  /\ IsFiniteSet(DOMAIN usage) /\ IsFiniteSet(Owed)
  /\ metered \in Nat /\ reverted \in Nat
  /\ UseOf(usage) >= metered - reverted + Cardinality(Owed)

\* A call at another step than the refund's is no refund that is owed.
LEMMA OwedKept ==
  ASSUME BillingTypes, NEW c \in Calls, ~At(c, "refund"), call'[c].step # "refund",
         \A d \in Calls \ {c} : call'[d] = call[d]
  PROVE  Owed' = Owed
BY DEF Owed, At

\* What neither charges nor refunds keeps the use and the refunds that are owed.
UseKept ==
  /\ Owed' = Owed /\ UNCHANGED <<metered, reverted>>
  /\ IsFiniteSet(DOMAIN usage') /\ UseOf(usage') = UseOf(usage)

\* One row is written: what the sum of all becomes.
LEMMA RowWritten ==
  ASSUME BillingTypes, UsageCounted, NEW y \in DOMAIN usage, NEW u \in UsageRow,
         usage' = [usage EXCEPT ![y] = u]
  PROVE  /\ IsFiniteSet(DOMAIN usage') /\ UseOf(usage) \in Int /\ UseOf(usage') \in Int
         /\ UseOf(usage') = UseOf(usage) + Used(u) - Used(usage[y])
<1> DEFINE new == [usage EXCEPT ![y] = u]
<1>1. /\ DOMAIN new = DOMAIN usage /\ new[y] = u /\ y \in DOMAIN new
      /\ \A x \in (DOMAIN usage \cup DOMAIN new) \ {y} : x \in DOMAIN usage /\ x \in DOMAIN new /\ new[x] = usage[x]
  OBVIOUS
<1>2. IsFiniteSet(DOMAIN usage) /\ \A x \in DOMAIN usage : usage[x] \in UsageRow
  BY DEF UsageCounted, BillingTypes
<1>3. \A x \in DOMAIN new : new[x] \in UsageRow
  BY <1>2
<1>4. usage' = new
  OBVIOUS
<1> HIDE DEF new
<1>5. PICK rows, more : rows = usage /\ more = new
  OBVIOUS
<1>6. /\ UseOf(rows) \in Int /\ UseOf(more) \in Int
      /\ UseOf(more) = UseOf(rows) + Used(more[y]) - (IF y \in DOMAIN rows THEN Used(rows[y]) ELSE 0)
  <2>1. /\ IsFiniteSet(DOMAIN rows) /\ \A x \in DOMAIN rows : rows[x] \in UsageRow
        /\ IsFiniteSet(DOMAIN more) /\ \A x \in DOMAIN more : more[x] \in UsageRow
        /\ y \in DOMAIN more
        /\ \A x \in (DOMAIN rows \cup DOMAIN more) \ {y} :
             x \in DOMAIN rows /\ x \in DOMAIN more /\ more[x] = rows[x]
    BY <1>1, <1>2, <1>3, <1>5
  <2> QED BY <2>1, UseOfWritten
<1> QED BY <1>1, <1>2, <1>4, <1>5, <1>6

\* A new row counts nothing.
LEMMA RowAdded ==
  ASSUME BillingTypes, UsageCounted, NEW y, ~HasUsage(y), NEW code \in Codes,
         usage' = WithUsage(y, Fresh(Included[code]))
  PROVE  IsFiniteSet(DOMAIN usage') /\ UseOf(usage') = UseOf(usage)
<1> DEFINE u == Fresh(Included[code])
           new == WithUsage(y, u)
<1>0. u \in UsageRow /\ Used(u) = 0
  BY CompanyAssumption DEF Fresh, UsageRow, Used
<1> HIDE DEF u
<1>1. /\ DOMAIN new = DOMAIN usage \cup {y} /\ new[y] = u /\ y \notin DOMAIN usage
      /\ \A x \in DOMAIN usage : new[x] = usage[x]
  BY DEF WithUsage, HasUsage
<1>2. IsFiniteSet(DOMAIN usage) /\ \A x \in DOMAIN usage : usage[x] \in UsageRow
  BY DEF UsageCounted, BillingTypes
<1>4. usage' = new
  BY DEF u
<1> HIDE DEF new
<1>3. IsFiniteSet(DOMAIN new) /\ \A x \in DOMAIN new : new[x] \in UsageRow
  BY <1>0, <1>1, <1>2, FS_AddElement
<1>5. PICK rows, more : rows = usage /\ more = new
  OBVIOUS
<1>6. /\ UseOf(rows) \in Int /\ UseOf(more) \in Int
      /\ UseOf(more) = UseOf(rows) + Used(more[y]) - (IF y \in DOMAIN rows THEN Used(rows[y]) ELSE 0)
  <2>1. /\ IsFiniteSet(DOMAIN rows) /\ \A x \in DOMAIN rows : rows[x] \in UsageRow
        /\ IsFiniteSet(DOMAIN more) /\ \A x \in DOMAIN more : more[x] \in UsageRow
        /\ y \in DOMAIN more
        /\ \A x \in (DOMAIN rows \cup DOMAIN more) \ {y} :
             x \in DOMAIN rows /\ x \in DOMAIN more /\ more[x] = rows[x]
    BY <1>1, <1>2, <1>3, <1>5
  <2> QED BY <2>1, UseOfWritten
<1>7. UseOf(rows) = UseOf(more)
  BY <1>0, <1>1, <1>5, <1>6
<1> QED BY <1>3, <1>4, <1>5, <1>7

\* What keeps the use keeps the count.
LEMMA KeptCounted == ASSUME UsageCounted, UseKept PROVE UsageCounted'
BY DEF UsageCounted, UseKept

\* A top-up and the flags write no use.
LEMMA FlagsKeepUse ==
  ASSUME BillingTypes, UsageCounted, NEW t \in Calls, TopupQuota(t) \/ NotifyFlags(t)
  PROVE  IsFiniteSet(DOMAIN usage') /\ UseOf(usage') = UseOf(usage)
<1> DEFINE y == Read(t).cycle
<1>1. CASE usage' = usage
  BY <1>1 DEF UsageCounted
<1>2. CASE /\ y \in DOMAIN usage
           /\ usage' = [usage EXCEPT ![y].quota = @ + PackSize, ![y].notified = @ \ {100}]
  <2> DEFINE u == [[usage[y] EXCEPT !.quota = @ + PackSize] EXCEPT !.notified = @ \ {100}]
  <2>0. usage[y] \in UsageRow
    BY <1>2 DEF BillingTypes
  <2>3. Used(usage[y]) \in Int
    BY <2>0 DEF UsageRow, Used
  <2>4. u \in UsageRow
    BY <1>2, CompanyAssumption DEF BillingTypes, UsageRow
  <2>5. u.base = usage[y].base /\ u.topup = usage[y].topup
    BY <2>0 DEF UsageRow
  <2>1. u \in UsageRow /\ Used(u) = Used(usage[y]) /\ Used(u) \in Int
    BY <2>3, <2>4, <2>5 DEF Used
  <2>2. usage' = [usage EXCEPT ![y] = u]
    BY <1>2
  <2> HIDE DEF u, y
  <2>6. PICK z, v : z = y /\ v = u
    OBVIOUS
  <2>7. z \in DOMAIN usage /\ v \in UsageRow /\ usage' = [usage EXCEPT ![z] = v]
    BY <1>2, <2>1, <2>2, <2>6
  <2>8. /\ IsFiniteSet(DOMAIN usage') /\ UseOf(usage) \in Int /\ UseOf(usage') \in Int
        /\ UseOf(usage') = UseOf(usage) + Used(v) - Used(usage[z])
    BY <2>7, RowWritten
  <2> QED BY <2>1, <2>6, <2>8
<1>3. CASE y \in DOMAIN usage /\ usage' = [usage EXCEPT ![y].notified = @ \cup call[t].due]
  <2> DEFINE u == [usage[y] EXCEPT !.notified = @ \cup call[t].due]
  <2>0. usage[y] \in UsageRow /\ call[t].due \subseteq Thresholds
    BY <1>3 DEF BillingTypes, CallRow
  <2>3. Used(usage[y]) \in Int
    BY <2>0 DEF UsageRow, Used
  <2>4. u \in UsageRow
    BY <2>0 DEF UsageRow
  <2>5. u.base = usage[y].base /\ u.topup = usage[y].topup
    BY <2>0 DEF UsageRow
  <2>1. u \in UsageRow /\ Used(u) = Used(usage[y]) /\ Used(u) \in Int
    BY <2>3, <2>4, <2>5 DEF Used
  <2>2. usage' = [usage EXCEPT ![y] = u]
    BY <1>3
  <2> HIDE DEF u, y
  <2>6. PICK z, v : z = y /\ v = u
    OBVIOUS
  <2>7. z \in DOMAIN usage /\ v \in UsageRow /\ usage' = [usage EXCEPT ![z] = v]
    BY <1>3, <2>1, <2>2, <2>6
  <2>8. /\ IsFiniteSet(DOMAIN usage') /\ UseOf(usage) \in Int /\ UseOf(usage') \in Int
        /\ UseOf(usage') = UseOf(usage) + Used(v) - Used(usage[z])
    BY <2>7, RowWritten
  <2> QED BY <2>1, <2>6, <2>8
<1>4. CASE y \notin DOMAIN usage /\ usage' = [usage EXCEPT ![y].notified = @ \cup call[t].due]
  <2>1. DOMAIN usage' = DOMAIN usage /\ \A x \in DOMAIN usage : usage'[x] = usage[x]
    BY <1>4
  <2>2. PICK rows, more : rows = usage /\ more = usage'
    OBVIOUS
  <2>3. IsFiniteSet(DOMAIN rows) /\ DOMAIN more = DOMAIN rows
    BY <2>1, <2>2 DEF UsageCounted
  <2>4. [x \in DOMAIN more |-> Used(more[x])] = [x \in DOMAIN rows |-> Used(rows[x])]
    BY <2>1, <2>2
  <2>5. UseOf(more) = UseOf(rows)
    BY <2>4 DEF UseOf
  <2> QED BY <2>2, <2>3, <2>5
<1> QED BY <1>1, <1>2, <1>3, <1>4 DEF TopupQuota, NotifyFlags, HasUsage

\* A charge adds one use, for the one invoice that it meters.
LEMMA ChargeCounts ==
  ASSUME BillingTypes, UsageCounted, NEW e \in Calls, ChargeCompany(e)
  PROVE  /\ IsFiniteSet(DOMAIN usage') /\ metered' = metered + 1
         /\ UseOf(usage) \in Int /\ UseOf(usage') = UseOf(usage) + 1
<1> DEFINE y == Read(e).cycle
           u == Charged(y, Read(e).code)
<1>1. y \in DOMAIN usage /\ usage[y] \in UsageRow
  BY DEF ChargeCompany, HasUsage, BillingTypes
<1>2. u \in UsageRow /\ Used(u) = Used(usage[y]) + 1 /\ Used(usage[y]) \in Int
  BY <1>1 DEF Charged, UsageRow, Used
<1>3. usage' = [usage EXCEPT ![y] = u] /\ metered' = metered + 1
  BY DEF ChargeCompany
<1> HIDE DEF u, y
<1>4. PICK z, v : z = y /\ v = u
  OBVIOUS
<1>5. z \in DOMAIN usage /\ v \in UsageRow /\ usage' = [usage EXCEPT ![z] = v]
  BY <1>1, <1>2, <1>3, <1>4
<1>6. /\ IsFiniteSet(DOMAIN usage') /\ UseOf(usage) \in Int /\ UseOf(usage') \in Int
      /\ UseOf(usage') = UseOf(usage) + Used(v) - Used(usage[z])
  BY <1>5, RowWritten
<1> QED BY <1>2, <1>3, <1>4, <1>6

\* A refund takes one use at most.
LEMMA RefundCounts ==
  ASSUME BillingTypes, UsageCounted, NEW f \in Calls, RefundUsage(f)
  PROVE  IsFiniteSet(DOMAIN usage') /\ UseOf(usage) \in Int /\ UseOf(usage') \in Int
         /\ UseOf(usage') >= UseOf(usage) - 1 /\ UseOf(usage') <= UseOf(usage)
<1> DEFINE y == Read(f).cycle
<1>0. UseOf(usage) \in Int
  <2>1. PICK rows : rows = usage
    OBVIOUS
  <2>2. IsFiniteSet(DOMAIN rows) /\ \A x \in DOMAIN rows : rows[x] \in UsageRow
    BY <2>1 DEF UsageCounted, BillingTypes
  <2> QED BY <2>1, <2>2, UseOfWithout
<1>1. CASE usage' = usage
  BY <1>0, <1>1 DEF UsageCounted
<1>2. CASE y \in DOMAIN usage /\ usage[y].topup > 0 /\ usage' = [usage EXCEPT ![y].topup = @ - 1]
  <2> DEFINE u == [usage[y] EXCEPT !.topup = @ - 1]
  <2>0. usage[y] \in UsageRow
    BY <1>2 DEF BillingTypes
  <2>3. u \in UsageRow
    BY <1>2, <2>0 DEF UsageRow
  <2>4. u.topup = usage[y].topup - 1 /\ u.base = usage[y].base
    BY <2>0 DEF UsageRow
  <2>1. u \in UsageRow /\ Used(u) = Used(usage[y]) - 1 /\ Used(usage[y]) \in Int
    BY <2>0, <2>3, <2>4 DEF Used, UsageRow
  <2>2. usage' = [usage EXCEPT ![y] = u]
    BY <1>2
  <2> HIDE DEF u, y
  <2>6. PICK z, v : z = y /\ v = u
    OBVIOUS
  <2>7. z \in DOMAIN usage /\ v \in UsageRow /\ usage' = [usage EXCEPT ![z] = v]
    BY <1>2, <2>1, <2>2, <2>6
  <2>8. /\ IsFiniteSet(DOMAIN usage') /\ UseOf(usage) \in Int /\ UseOf(usage') \in Int
        /\ UseOf(usage') = UseOf(usage) + Used(v) - Used(usage[z])
    BY <2>7, RowWritten
  <2> QED BY <2>1, <2>6, <2>8
<1>3. CASE y \in DOMAIN usage /\ usage[y].base > 0 /\ usage' = [usage EXCEPT ![y].base = @ - 1]
  <2> DEFINE u == [usage[y] EXCEPT !.base = @ - 1]
  <2>0. usage[y] \in UsageRow
    BY <1>3 DEF BillingTypes
  <2>3. u \in UsageRow
    BY <1>3, <2>0 DEF UsageRow
  <2>4. u.base = usage[y].base - 1 /\ u.topup = usage[y].topup
    BY <2>0 DEF UsageRow
  <2>1. u \in UsageRow /\ Used(u) = Used(usage[y]) - 1 /\ Used(usage[y]) \in Int
    BY <2>0, <2>3, <2>4 DEF Used, UsageRow
  <2>2. usage' = [usage EXCEPT ![y] = u]
    BY <1>3
  <2> HIDE DEF u, y
  <2>6. PICK z, v : z = y /\ v = u
    OBVIOUS
  <2>7. z \in DOMAIN usage /\ v \in UsageRow /\ usage' = [usage EXCEPT ![z] = v]
    BY <1>3, <2>1, <2>2, <2>6
  <2>8. /\ IsFiniteSet(DOMAIN usage') /\ UseOf(usage) \in Int /\ UseOf(usage') \in Int
        /\ UseOf(usage') = UseOf(usage) + Used(v) - Used(usage[z])
    BY <2>7, RowWritten
  <2> QED BY <2>1, <2>6, <2>8
<1> QED BY <1>1, <1>2, <1>3 DEF RefundUsage, HasUsage

\* A call that is no refund moves on.
LEMMA MoveOwesNothing ==
  ASSUME BillingTypes, NEW c \in Calls, NEW from, At(c, from), from # "refund",
         NEW step \in Steps \ {"refund"}, Goto(c, step) \/ ReadPlan(c, step)
  PROVE  Owed' = Owed
<1>1. call'[c].step = step /\ \A d \in Calls \ {c} : call'[d] = call[d]
  BY GotoMoves, ReadPlanMoves
<1>2. ~At(c, "refund")
  BY DEF At
<1> QED BY <1>1, <1>2, OwedKept

\* All but the charge of an emission and the first two steps of a refund.
LEMMA OthersKeepUse ==
  ASSUME BillingTypes, UsageCounted, BillingNext,
         \A e \in Emissions : ~(CreateCommit(e) /\ ChargeCompany(e)),
         \A f \in Refunds : ~RefundRead(f) /\ ~RefundUsage(f)
  PROVE  UseKept
<1>0. UNCHANGED usage => IsFiniteSet(DOMAIN usage') /\ UseOf(usage') = UseOf(usage)
  BY DEF UsageCounted
<1>s. SUFFICES /\ Owed' = Owed /\ UNCHANGED <<metered, reverted>>
               /\ UNCHANGED usage \/ (IsFiniteSet(DOMAIN usage') /\ UseOf(usage') = UseOf(usage))
  BY <1>0 DEF UseKept
<1> DEFINE Same == UNCHANGED usage \/ (IsFiniteSet(DOMAIN usage') /\ UseOf(usage') = UseOf(usage))
           Goal == Owed' = Owed /\ UNCHANGED <<metered, reverted>> /\ Same
<1>u. UNCHANGED usage => Same
  OBVIOUS
<1>v. IsFiniteSet(DOMAIN usage') /\ UseOf(usage') = UseOf(usage) => Same
  OBVIOUS
<1> HIDE DEF Same
<1>1. ASSUME NEW e \in Emissions, EmissionStep(e) PROVE Goal
  <2>c. e \in Calls
    BY DEF Calls
  <2>1. CASE Guard(e)
    BY <2>1, <2>c, <1>u, MoveOwesNothing DEF Guard, ledger, tally, Steps
  <2>2. CASE CreateRead(e)
    BY <2>2, <2>c, <1>u, MoveOwesNothing DEF CreateRead, ledger, tally, Steps
  <2>3. CASE CreateCommit(e)
    <3>1. UNCHANGED <<ledger, plan, metered>>
      BY <2>3 DEF CreateCommit
    <3> QED BY <2>3, <3>1, <2>c, <1>u, MoveOwesNothing DEF CreateCommit, ledger, Steps
  <2>4. CASE CreateRollback(e)
    BY <2>4, <2>c, <1>u, MoveOwesNothing DEF CreateRollback, ledger, tally, Steps
  <2>5. CASE NotifyRead(e)
    <3>1. At(e, "notify") /\ UNCHANGED usage /\ UNCHANGED <<metered, reverted>>
      BY <2>5 DEF NotifyRead, ledger, tally
    <3>2. CASE Goto(e, "idle")
      BY <3>1, <3>2, <2>c, <1>u, MoveOwesNothing DEF Steps
    <3>3. CASE \E due : call' = [call EXCEPT ![e] = [step |-> "notifyAlert", read |-> plan, due |-> due]]
      <4>1. call'[e].step = "notifyAlert" /\ \A d \in Calls \ {e} : call'[d] = call[d]
        BY <3>3, <2>c DEF BillingTypes
      <4>2. Owed' = Owed
        BY <4>1, <3>1, <2>c, OwedKept DEF At
      <4> QED BY <4>2, <3>1, <1>u
    <3> QED BY <2>5, <3>2, <3>3 DEF NotifyRead
  <2>6. CASE NotifyAlert(e)
    BY <2>6, <2>c, <1>u, MoveOwesNothing DEF NotifyAlert, ledger, tally, Steps
  <2>7. CASE NotifyFlags(e)
    <3>1. Same
      BY <2>7, <2>c, <1>v, FlagsKeepUse
    <3> QED BY <2>7, <3>1, <2>c, MoveOwesNothing DEF NotifyFlags, tally, Steps
  <2> QED BY <1>1, <2>1, <2>2, <2>3, <2>4, <2>5, <2>6, <2>7 DEF EmissionStep
<1>2. ASSUME NEW f \in Refunds, RefundStep(f) PROVE Goal
  <2>c. f \in Calls
    BY DEF Calls
  <2>1. CASE RefundPurchase(f)
    BY <2>1, <2>c, <1>u, MoveOwesNothing DEF RefundPurchase, tally, Steps
  <2>2. CASE RefundPlan(f)
    BY <2>2, <2>c, <1>u, MoveOwesNothing DEF RefundPlan, ledger, tally, Steps
  <2> QED BY <1>2, <2>1, <2>2 DEF RefundStep
<1>3. ASSUME NEW t \in Topups, TopupStep(t) PROVE Goal
  <2>c. t \in Calls
    BY DEF Calls
  <2>1. CASE TopupRead(t)
    BY <2>1, <2>c, <1>u, MoveOwesNothing DEF TopupRead, ledger, tally, Steps
  <2>2. CASE TopupPurchase(t)
    BY <2>2, <2>c, <1>u, MoveOwesNothing DEF TopupPurchase, tally, Steps
  <2>3. CASE TopupQuota(t)
    <3>1. Same
      BY <2>3, <2>c, <1>v, FlagsKeepUse
    <3>2. Goto(t, "reopen") \/ Goto(t, "idle")
      BY <2>3 DEF TopupQuota
    <3> QED BY <2>3, <3>1, <3>2, <2>c, MoveOwesNothing DEF TopupQuota, tally, Steps
  <2>4. CASE TopupReopen(t)
    BY <2>4, <2>c, <1>u, MoveOwesNothing DEF TopupReopen, ledger, tally, Steps
  <2> QED BY <1>3, <2>1, <2>2, <2>3, <2>4 DEF TopupStep
<1>4. ASSUME NEW n \in Renewals, RenewalStep(n) PROVE Goal
  <2>c. n \in Calls
    BY DEF Calls
  <2>1. CASE RenewList(n)
    BY <2>1, <2>c, <1>u, MoveOwesNothing DEF RenewList, ledger, tally, Steps
  <2>2. CASE RenewPlan(n)
    <3> DEFINE y == Next30Days(Read(n).cycle)
    <3>1. Same
      <4>1. CASE usage' = WithUsage(y, Fresh(Included[Read(n).code])) /\ ~HasUsage(y)
        <5>1. Read(n).code \in Codes
          BY <2>c DEF Read, CallRow, PlanRow, BillingTypes
        <5> HIDE DEF y
        <5>2. PICK z, code : z = y /\ code = Read(n).code
          OBVIOUS
        <5>3. usage' = WithUsage(z, Fresh(Included[code])) /\ ~HasUsage(z) /\ code \in Codes
          BY <4>1, <5>1, <5>2
        <5>4. IsFiniteSet(DOMAIN usage') /\ UseOf(usage') = UseOf(usage)
          BY <5>3, RowAdded
        <5> QED BY <5>4, <1>v
      <4>2. CASE UNCHANGED usage
        BY <4>2, <1>u
      <4> QED BY <2>2, <4>1, <4>2 DEF RenewPlan, RenewConflicts
    <3> QED BY <2>2, <3>1, <2>c, MoveOwesNothing DEF RenewPlan, tally, Steps
  <2> QED BY <1>4, <2>1, <2>2 DEF RenewalStep
<1>5. CASE AssignPlan
  <2>1. PICK c \in Codes : call' = [call EXCEPT !["assign"] = [Idle EXCEPT !.step = "usage", !.read = plan']]
    BY <1>5 DEF AssignPlan
  <2>2. /\ "assign" \in Calls /\ At("assign", "idle") /\ call'["assign"].step = "usage"
        /\ \A d \in Calls \ {"assign"} : call'[d] = call[d]
    BY <1>5, <2>1 DEF AssignPlan, BillingTypes, Calls, Idle
  <2>3. Owed' = Owed
    BY <2>2, OwedKept DEF At
  <2> QED BY <1>5, <2>3, <1>u DEF AssignPlan, ledger, tally
<1>6. CASE AssignUsage
  <2>c. "assign" \in Calls /\ Read("assign").code \in Codes
    BY DEF Calls, Read, CallRow, PlanRow, BillingTypes
  <2>1. Same
    <3>1. CASE UNCHANGED usage
      BY <3>1, <1>u
    <3>2. CASE ~HasUsage(Read("assign").cycle)
               /\ usage' = WithUsage(Read("assign").cycle, Fresh(Included[Read("assign").code]))
      <4>1. PICK z, code : z = Read("assign").cycle /\ code = Read("assign").code
        OBVIOUS
      <4>2. usage' = WithUsage(z, Fresh(Included[code])) /\ ~HasUsage(z) /\ code \in Codes
        BY <3>2, <4>1, <2>c
      <4>3. IsFiniteSet(DOMAIN usage') /\ UseOf(usage') = UseOf(usage)
        BY <4>2, RowAdded
      <4> QED BY <4>3, <1>v
    <3> QED BY <1>6, <3>1, <3>2 DEF AssignUsage
  <2> QED BY <1>6, <2>1, <2>c, MoveOwesNothing DEF AssignUsage, tally, Steps, Same
<1>7. CASE CycleEnds \/ TenantOnly
  BY <1>7, <1>u DEF CycleEnds, TenantOnly, ledger, tally, Owed, At
<1> QED BY <1>1, <1>2, <1>3, <1>4, <1>5, <1>6, <1>7 DEF BillingNext, Same

\* One use more for one invoice more; one refund more that is owed; one use less for one
\* refund less that is owed.
LEMMA UsageStep ==
  ASSUME BillingTypes, UsageCounted, BillingNext
  PROVE  UsageCounted'
<1>0. UseOf(usage) \in Int /\ metered \in Nat /\ reverted \in Nat /\ Cardinality(Owed) \in Nat
  <2>1. PICK rows : rows = usage
    OBVIOUS
  <2>2. IsFiniteSet(DOMAIN rows) /\ \A x \in DOMAIN rows : rows[x] \in UsageRow
    BY <2>1 DEF UsageCounted, BillingTypes
  <2>3. UseOf(rows) \in Int
    BY <2>2, UseOfWithout
  <2> QED BY <2>1, <2>3, FS_CardinalityType DEF UsageCounted
<1>1. ASSUME NEW e \in Emissions, CreateCommit(e), ChargeCompany(e) PROVE UsageCounted'
  <2>1. e \in Calls
    BY DEF Calls
  <2>2. IsFiniteSet(DOMAIN usage') /\ metered' = metered + 1 /\ UseOf(usage') = UseOf(usage) + 1
    BY <1>1, <2>1, ChargeCounts
  <2>3. Owed' = Owed /\ reverted' = reverted
    BY <1>1, <2>1, MoveOwesNothing DEF CreateCommit, Steps
  <2> QED BY <1>0, <2>2, <2>3 DEF UsageCounted
<1>2. ASSUME NEW f \in Refunds, RefundRead(f) PROVE UsageCounted'
  <2>1. f \in Calls
    BY DEF Calls
  <2>2. call'[f].step = "refund" /\ \A d \in Calls \ {f} : call'[d] = call[d]
    BY <1>2, <2>1, ReadPlanMoves DEF RefundRead, Steps
  <2>3. Owed' = Owed \cup {f} /\ f \notin Owed
    BY <1>2, <2>1, <2>2 DEF Owed, At, RefundRead
  <2>4. IsFiniteSet(Owed') /\ Cardinality(Owed') = Cardinality(Owed) + 1
    BY <2>3, FS_AddElement DEF UsageCounted
  <2>5. usage' = usage /\ metered' = metered /\ reverted' = reverted + 1
    BY <1>2 DEF RefundRead, ledger
  <2>6. IsFiniteSet(DOMAIN usage') /\ UseOf(usage') = UseOf(usage)
    BY <2>5 DEF UsageCounted
  <2> QED BY <1>0, <2>4, <2>5, <2>6 DEF UsageCounted
<1>3. ASSUME NEW f \in Refunds, RefundUsage(f) PROVE UsageCounted'
  <2>1. f \in Calls
    BY DEF Calls
  <2>2. Goto(f, "refundPurchase") \/ Goto(f, "refundPlan")
    BY <1>3 DEF RefundUsage
  <2>3. call'[f].step # "refund" /\ \A d \in Calls \ {f} : call'[d] = call[d]
    BY <2>1, <2>2, GotoMoves DEF Steps
  <2>4. Owed' = Owed \ {f} /\ f \in Owed
    BY <1>3, <2>1, <2>3 DEF Owed, At, RefundUsage
  <2>5. IsFiniteSet(Owed') /\ Cardinality(Owed') = Cardinality(Owed) - 1
    BY <2>4, FS_RemoveElement DEF UsageCounted
  <2>6. IsFiniteSet(DOMAIN usage') /\ UseOf(usage') \in Int /\ UseOf(usage') >= UseOf(usage) - 1
    BY <1>3, <2>1, RefundCounts
  <2>7. metered' = metered /\ reverted' = reverted
    BY <1>3 DEF RefundUsage, tally
  <2> QED BY <1>0, <2>5, <2>6, <2>7 DEF UsageCounted
<1>4. CASE /\ \A e \in Emissions : ~(CreateCommit(e) /\ ChargeCompany(e))
           /\ \A f \in Refunds : ~RefundRead(f) /\ ~RefundUsage(f)
  BY <1>4, OthersKeepUse, KeptCounted
<1> QED BY <1>1, <1>2, <1>3, <1>4

\* The usage rows and what they hold of the invoices that were metered.
LEMMA UsageInvariant == Spec => [](BillingTypes /\ UsageCounted)
<1>1. Init => UsageCounted
  <2> SUFFICES ASSUME Init PROVE UsageCounted
    OBVIOUS
  <2>1. usage = << >> /\ metered = 0 /\ reverted = 0 /\ call = [c \in Calls |-> Idle]
    BY DEF Init, BillingInit
  <2>2. Owed = {} /\ IsFiniteSet(Owed) /\ Cardinality(Owed) = 0
    BY <2>1, FS_EmptySet DEF Owed, At, Idle
  <2>3. DOMAIN usage = {} /\ IsFiniteSet(DOMAIN usage)
    BY <2>1, FS_EmptySet
  <2>4. UseOf(usage) = 0
    <3>1. PICK rows : rows = usage
      OBVIOUS
    <3>2. DOMAIN rows = {} /\ IsFiniteSet(DOMAIN rows)
      BY <2>3, <3>1
    <3> DEFINE w == [x \in DOMAIN rows |-> Used(rows[x])]
    <3>3. DOMAIN w = {}
      BY <3>2
    <3>4. UseOf(rows) = SumFunction(w)
      BY DEF UseOf
    <3> HIDE DEF w
    <3> QED BY <3>1, <3>3, <3>4, SumFunctionEmpty
  <2> QED BY <2>1, <2>2, <2>3, <2>4 DEF UsageCounted
<1>2. BillingTypes /\ UsageCounted /\ [Next]_vars => UsageCounted'
  <2> SUFFICES ASSUME BillingTypes, UsageCounted, [Next]_vars PROVE UsageCounted'
    OBVIOUS
  <2>1. CASE BillingNext
    BY <2>1, UsageStep
  <2>2. CASE UNCHANGED billingVars
    BY <2>2 DEF billingVars, ledger, tally, UsageCounted, Owed, At
  <2> QED BY <2>1, <2>2, Parted
<1> QED BY <1>1, <1>2, BillingRows, PTL DEF Spec

\* revertUsage and incrementUsage: whatever emissions, refunds, top-ups, assignments and
\* renewals do at once, the use of all cycles together falls short of the invoices that
\* were metered by no more than the refunds.
THEOREM UsageIsKept == Spec => []UsageLostOnlyToRefunds
<1>1. BillingTypes /\ UsageCounted => UsageLostOnlyToRefunds
  <2> SUFFICES ASSUME BillingTypes, UsageCounted PROVE UsageLostOnlyToRefunds
    OBVIOUS
  <2>1. PICK rows : rows = usage
    OBVIOUS
  <2>2. IsFiniteSet(DOMAIN rows) /\ \A x \in DOMAIN rows : rows[x] \in UsageRow
    BY <2>1 DEF UsageCounted, BillingTypes
  <2>3. UseOf(usage) \in Int
    BY <2>1, <2>2, UseOfWithout
  <2>4. UseOf(usage) >= metered - reverted
    BY <2>3, FS_CardinalityType DEF UsageCounted
  <2>5. AllUsed = UseOf(usage)
    BY DEF AllUsed, UseOf
  <2> QED BY <2>4, <2>5 DEF UsageLostOnlyToRefunds
<1> QED BY <1>1, UsageInvariant, PTL

-----------------------------------------------------------------------------
(* The two meters *)

Counts == [r \in TenantRows |-> Count(r)]

\* Both meters together have counted no more than what was emitted.
MeterCounted == emitted \in Nat /\ UseOf(usage) + SumFunction(Counts) <= emitted

\* The counts of the tenant's rows can be added up.
LEMMA CountsAreNumbers ==
  ASSUME TenantTypes
  PROVE  Counts \in [TenantRows -> Nat] /\ SumFunction(Counts) \in Nat
<1>1. Counts \in [TenantRows -> Nat]
  BY DEF Counts, TenantTypes, TenantRow, Count, NoUsage
<1>2. PICK u : u = Counts
  OBVIOUS
<1>3. u \in [TenantRows -> Nat]
  BY <1>1, <1>2
<1>4. SumFunction(u) \in Nat
  BY <1>3, TenantRowsAssumption, SumFunctionNat
<1> QED BY <1>1, <1>2, <1>4

\* What keeps the tenant's plans adds nothing to their counts.
LEMMA KeptCountsNoMore ==
  ASSUME TenantTypes, TenantTypes', PlansKept
  PROVE  SumFunction(Counts') \in Nat /\ SumFunction(Counts') <= SumFunction(Counts)
<1>1. PICK u, v : u = Counts /\ v = Counts'
  OBVIOUS
<1>2. u \in [TenantRows -> Nat] /\ v \in [TenantRows -> Nat]
  BY <1>1 DEF Counts, TenantTypes, TenantRow, Count, NoUsage
<1>3. u \in [TenantRows -> Int] /\ v \in [TenantRows -> Int]
  BY <1>2
<1>4. \A r \in TenantRows : v[r] <= u[r]
  BY <1>1 DEF Counts, PlansKept
<1>5. SumFunction(v) <= SumFunction(u)
  BY <1>3, <1>4, TenantRowsAssumption, SumFunctionMonotone
<1>6. SumFunction(v) \in Nat
  BY <1>2, TenantRowsAssumption, SumFunctionNat
<1> QED BY <1>1, <1>5, <1>6

\* An invoice is counted on one plan, or on none.
LEMMA CountedOnce ==
  ASSUME TenantTypes, TenantTypes', CountTenantInvoice
  PROVE  SumFunction(Counts') \in Nat /\ SumFunction(Counts') <= SumFunction(Counts) + 1
<1>1. PICK u, v : u = Counts /\ v = Counts'
  OBVIOUS
<1>2. u \in [TenantRows -> Nat] /\ v \in [TenantRows -> Nat]
  BY <1>1 DEF Counts, TenantTypes, TenantRow, Count, NoUsage
<1>3. SumFunction(u) \in Nat /\ SumFunction(v) \in Nat
  BY <1>2, TenantRowsAssumption, SumFunctionNat
<1>4. CASE UNCHANGED tenantPlan
  <2>1. v = u
    BY <1>1, <1>4 DEF Counts, Count
  <2> QED BY <1>1, <1>3, <2>1
<1>5. ASSUME NEW r \in TenantRows, tenantPlan' = [tenantPlan EXCEPT ![r].count = Count(r) + 1]
      PROVE  SumFunction(v) <= SumFunction(u) + 1
  <2>1. v[r] = u[r] + 1 /\ \A s \in TenantRows \ {r} : u[s] = v[s]
    BY <1>1, <1>5 DEF Counts, Count, TenantTypes, TenantRow, NoUsage
  <2>2. u \in [TenantRows -> Int] /\ v \in [TenantRows -> Int]
    BY <1>2
  <2>3. SumFunction(v) = SumFunction(u) + v[r] - u[r]
    BY <2>1, <2>2, TenantRowsAssumption, SumFunctionChanges
  <2> QED BY <1>2, <1>3, <2>1, <2>3
<1> QED BY <1>1, <1>3, <1>4, <1>5 DEF CountTenantInvoice, ActivePlans

\* Only a commit emits.
LEMMA OthersEmitNothing ==
  ASSUME BillingNext, \A e \in Emissions : ~CreateCommit(e)
  PROVE  emitted' = emitted
BY DEF BillingNext, EmissionStep, RefundStep, TopupStep, RenewalStep, Guard, CreateRead, CreateRollback,
       NotifyRead, NotifyAlert, NotifyFlags, RefundRead, RefundUsage, RefundPurchase, RefundPlan,
       TopupRead, TopupPurchase, TopupQuota, TopupReopen, RenewList, RenewPlan, AssignPlan,
       AssignUsage, CycleEnds, TenantOnly, tally

\* An invoice is charged to the company, or counted by the tenant, or neither.
LEMMA MeterStep ==
  ASSUME BillingTypes, UsageCounted, TenantTypes, TenantTypes', MeterCounted, BillingNext
  PROVE  MeterCounted'
<1>0. UseOf(usage) \in Int /\ SumFunction(Counts) \in Nat /\ emitted \in Nat
  <2>1. PICK rows : rows = usage
    OBVIOUS
  <2>2. IsFiniteSet(DOMAIN rows) /\ \A x \in DOMAIN rows : rows[x] \in UsageRow
    BY <2>1 DEF UsageCounted, BillingTypes
  <2>3. UseOf(rows) \in Int
    BY <2>2, UseOfWithout
  <2> QED BY <2>1, <2>3, CountsAreNumbers DEF MeterCounted
<1>1. ASSUME NEW e \in Emissions, CreateCommit(e) PROVE MeterCounted'
  <2>0. e \in Calls /\ emitted' = emitted + 1
    BY <1>1 DEF Calls, CreateCommit
  <2>1. CASE ChargeCompany(e) /\ Read(e).status \in {"ACTIVE", "EXHAUSTED"}
    <3>1. UseOf(usage') = UseOf(usage) + 1
      BY <2>0, <2>1, ChargeCounts
    <3>2. UNCHANGED tenantPlan
      BY <1>1, <2>1 DEF CreateCommit, CountsTenant
    <3>3. Counts' = Counts
      BY <3>2 DEF Counts, Count
    <3> QED BY <1>0, <2>0, <3>1, <3>3 DEF MeterCounted
  <2>2. CASE UNCHANGED <<ledger, plan, metered>>
    <3>1. usage' = usage
      BY <2>2 DEF ledger
    <3>2. SumFunction(Counts') \in Nat /\ SumFunction(Counts') <= SumFunction(Counts) + 1
      <4>1. CASE CountTenantInvoice
        BY <4>1, CountedOnce
      <4>2. CASE UNCHANGED tenantPlan
        <5>1. Counts' = Counts
          BY <4>2 DEF Counts, Count
        <5> QED BY <1>0, <5>1
      <4> QED BY <1>1, <4>1, <4>2 DEF CreateCommit
    <3> QED BY <1>0, <2>0, <3>1, <3>2 DEF MeterCounted
  <2> QED BY <1>1, <2>1, <2>2 DEF CreateCommit
<1>2. ASSUME \A e \in Emissions : ~CreateCommit(e) PROVE MeterCounted'
  <2>1. emitted' = emitted
    BY <1>2, OthersEmitNothing
  <2>2. UseOf(usage') \in Int /\ UseOf(usage') <= UseOf(usage)
    <3>1. ASSUME NEW f \in Refunds, RefundUsage(f) PROVE UseOf(usage') \in Int /\ UseOf(usage') <= UseOf(usage)
      <4>1. f \in Calls
        BY DEF Calls
      <4> QED BY <3>1, <4>1, RefundCounts
    <3>2. ASSUME NEW f \in Refunds, RefundRead(f) PROVE usage' = usage
      BY <3>2 DEF RefundRead, ledger
    <3>3. CASE \A f \in Refunds : ~RefundRead(f) /\ ~RefundUsage(f)
      BY <1>0, <1>2, <3>3, OthersKeepUse DEF UseKept
    <3> QED BY <1>0, <3>1, <3>2, <3>3
  <2>3. SumFunction(Counts') \in Nat /\ SumFunction(Counts') <= SumFunction(Counts)
    <3>1. CASE PlansKept
      BY <3>1, KeptCountsNoMore
    <3>2. CASE UNCHANGED tenantPlan
      <4>1. Counts' = Counts
        BY <3>2 DEF Counts, Count
      <4> QED BY <1>0, <4>1
    <3>3. ASSUME NEW e \in Emissions, Guard(e) PROVE UNCHANGED tenantPlan
      BY <3>3 DEF Guard, tenantVars
    <3> QED BY <1>2, <3>1, <3>2, <3>3, OthersPlansKept
  <2> QED BY <1>0, <2>1, <2>2, <2>3 DEF MeterCounted
<1> QED BY <1>1, <1>2

\* "count exactly ONE billing meter": whatever plans are assigned, renewed, activated and
\* cancelled while invoices are created, no invoice is on the meter of the company and on
\* that of the tenant, nor twice on one.
THEOREM OneMeter == Spec => []NeverCountedTwice
<1>1. Init => MeterCounted
  <2> SUFFICES ASSUME Init PROVE MeterCounted
    OBVIOUS
  <2>1. usage = << >> /\ emitted = 0 /\ tenantPlan = [r \in TenantRows |-> Absent]
    BY DEF Init, BillingInit, TenantInit
  <2>2. PICK rows, u, z : rows = usage /\ u = Counts /\ z = [r \in TenantRows |-> 0]
    OBVIOUS
  <2>3. UseOf(rows) = 0
    <3> DEFINE w == [x \in DOMAIN rows |-> Used(rows[x])]
    <3>1. DOMAIN w = {}
      BY <2>1, <2>2
    <3>2. UseOf(rows) = SumFunction(w)
      BY DEF UseOf
    <3> HIDE DEF w
    <3> QED BY <3>1, <3>2, SumFunctionEmpty
  <2>4. u = z /\ z \in [TenantRows -> Int] /\ \A r \in TenantRows : z[r] = z[r] + z[r]
    BY <2>1, <2>2 DEF Counts, Count, Absent
  <2>5. SumFunction(z) = SumFunction(z) + SumFunction(z)
    BY <2>4, TenantRowsAssumption, SumFunctionAdds
  <2>6. SumFunction(z) \in Int
    BY <2>4, TenantRowsAssumption, SumFunctionType
  <2> QED BY <2>1, <2>2, <2>3, <2>4, <2>5, <2>6 DEF MeterCounted
<1>2. BillingTypes /\ UsageCounted /\ TenantTypes /\ TenantTypes' /\ MeterCounted /\ [Next]_vars => MeterCounted'
  <2> SUFFICES ASSUME BillingTypes, UsageCounted, TenantTypes, TenantTypes', MeterCounted, [Next]_vars
               PROVE  MeterCounted'
    OBVIOUS
  <2>1. CASE BillingNext
    BY <2>1, MeterStep
  <2>2. CASE UNCHANGED billingVars
    <3>1. UNCHANGED <<usage, emitted, tenantPlan>>
      BY <2>2 DEF billingVars, ledger, tally, tenantVars
    <3>2. Counts' = Counts
      BY <3>1 DEF Counts, Count
    <3> QED BY <3>1, <3>2 DEF MeterCounted
  <2> QED BY <2>1, <2>2, Parted
<1>3. TenantTypes /\ MeterCounted => NeverCountedTwice
  <2> SUFFICES ASSUME TenantTypes, MeterCounted PROVE NeverCountedTwice
    OBVIOUS
  <2>1. DOMAIN tenantPlan = TenantRows
    BY DEF TenantTypes
  <2>2. [r \in DOMAIN tenantPlan |-> IF tenantPlan[r].count = NoUsage THEN 0 ELSE tenantPlan[r].count] = Counts
    BY <2>1 DEF Counts, Count
  <2>3. TenantCounted = SumFunction(Counts)
    BY <2>2 DEF TenantCounted
  <2>4. AllUsed = UseOf(usage)
    BY DEF AllUsed, UseOf
  <2> QED BY <2>3, <2>4 DEF NeverCountedTwice, MeterCounted
<1> QED BY <1>1, <1>2, <1>3, UsageInvariant, TenantRowsKept, PTL DEF Spec
-----------------------------------------------------------------------------
(* What is answered with was created *)

TenantColumns == [by : Creations \cup {NoRow}, keys : SUBSET DefaultKeys, plan : BOOLEAN]

\* A creation that goes on has the row, and what is left to add to it is to come.
CreationsOwn ==
  /\ tenant \in TenantColumns
  /\ DOMAIN op = AccountCalls /\ \A c \in AccountCalls : DOMAIN op[c] = {"step", "key", "read", "env"}
  /\ \A c \in Creations :
       /\ Doing(c, "keys") => tenant.by = c /\ ~tenant.plan
       /\ Doing(c, "plan") \/ Doing(c, "ok") => tenant.by = c /\ tenant.keys = DefaultKeys
       /\ Doing(c, "plan") => c \in Planned /\ ~tenant.plan
       /\ Doing(c, "ok") => (tenant.plan <=> c \in Planned)

LEMMA AccountStep ==
  ASSUME CreationsOwn, TenantAccountNext \/ KeyNext \/ CompanyNext
  PROVE  CreationsOwn'
<1>t. /\ tenant \in TenantColumns /\ NoRow \notin Creations /\ NoTenant.by = NoRow
      /\ \A c \in Creations : c \in AccountCalls
      /\ \A c \in Creations : Doing(c, "keys") \/ Doing(c, "plan") \/ Doing(c, "ok") => tenant.by = c
  BY AccountsAssumption DEF CreationsOwn, AccountCalls, NoTenant
<1>1. ASSUME UNCHANGED tenant, NEW d \in AccountCalls, DOMAIN op' = DOMAIN op, DOMAIN op'[d] = DOMAIN op[d],
             \A c \in AccountCalls \ {d} : op'[c] = op[c],
             d \notin Creations \/ op'[d].step \in {"insert", "refused", "died"}
      PROVE  CreationsOwn'
  BY <1>1, <1>t DEF CreationsOwn, Doing
<1>2. ASSUME NEW d \in AccountCalls, NEW step, Become(d, step)
      PROVE  /\ DOMAIN op' = DOMAIN op /\ DOMAIN op'[d] = DOMAIN op[d] /\ op'[d].step = step
             /\ \A c \in AccountCalls \ {d} : op'[c] = op[c]
  BY <1>2 DEF CreationsOwn, Become
<1>3. ASSUME NEW d \in Creations, CreationInsert(d), ~EmailTaken PROVE CreationsOwn'
  <2>1. tenant = NoTenant /\ tenant' = [NoTenant EXCEPT !.by = d] /\ Become(d, "keys")
    BY <1>3 DEF CreationInsert, EmailTaken
  <2>2. tenant' \in TenantColumns /\ tenant'.by = d /\ ~tenant'.plan
    BY <2>1 DEF NoTenant, TenantColumns
  <2>3. \A c \in Creations \ {d} : ~Doing(c, "keys") /\ ~Doing(c, "plan") /\ ~Doing(c, "ok")
    BY <2>1, <1>t
  <2> QED BY <2>1, <2>2, <2>3, <1>t, <1>2 DEF CreationsOwn, Doing
<1>4. ASSUME NEW d \in Creations, CreationKey(d) PROVE CreationsOwn'
  <2>1. PICK k \in DefaultKeys : tenant' = [tenant EXCEPT !.keys = @ \cup {k}]
    BY <1>4 DEF CreationKey
  <2>2. tenant.by = d /\ ~tenant.plan /\ Doing(d, "keys")
    BY <1>4 DEF CreationKey, CreationsOwn
  <2>3. tenant' \in TenantColumns /\ tenant'.by = d /\ tenant'.plan = FALSE
    BY <2>1, <2>2, <1>t DEF TenantColumns
  <2>4. \A c \in Creations \ {d} : ~Doing(c, "keys") /\ ~Doing(c, "plan") /\ ~Doing(c, "ok")
    BY <2>2, <1>t
  <2>5. CASE tenant'.keys # DefaultKeys
    <3>1. Become(d, "keys")
      BY <1>4, <2>5 DEF CreationKey, AfterKeys
    <3> QED BY <3>1, <2>3, <2>4, <1>t, <1>2 DEF CreationsOwn, Doing
  <2>6. CASE tenant'.keys = DefaultKeys
    <3>2. CASE d \in Planned
      <4>1. Become(d, "plan")
        BY <1>4, <2>6, <3>2 DEF CreationKey, AfterKeys
      <4> QED BY <4>1, <2>6, <3>2, <2>3, <2>4, <1>t, <1>2 DEF CreationsOwn, Doing
    <3>3. CASE d \notin Planned
      <4>1. Become(d, "ok")
        BY <1>4, <2>6, <3>3 DEF CreationKey, AfterKeys
      <4> QED BY <4>1, <2>6, <3>3, <2>3, <2>4, <1>t, <1>2 DEF CreationsOwn, Doing
    <3> QED BY <3>2, <3>3
  <2> QED BY <2>5, <2>6
<1>5. ASSUME NEW d \in Creations, CreationPlan(d) PROVE CreationsOwn'
  <2>1. /\ tenant.by = d /\ tenant.keys = DefaultKeys /\ d \in Planned /\ Doing(d, "plan")
        /\ tenant' = [tenant EXCEPT !.plan = TRUE] /\ Become(d, "ok")
    BY <1>5 DEF CreationPlan, CreationsOwn
  <2>2. tenant' \in TenantColumns /\ tenant'.by = d /\ tenant'.keys = DefaultKeys /\ tenant'.plan = TRUE
    BY <2>1, <1>t DEF TenantColumns
  <2>3. \A c \in Creations \ {d} : ~Doing(c, "keys") /\ ~Doing(c, "plan") /\ ~Doing(c, "ok")
    BY <2>1, <1>t
  <2> QED BY <2>1, <2>2, <2>3, <1>t, <1>2 DEF CreationsOwn, Doing
<1>6. ASSUME NEW d \in Creations,
             CreationCheck(d) \/ (CreationInsert(d) /\ EmailTaken) \/ CallDies(d)
      PROVE  CreationsOwn'
  BY <1>6, <1>t, <1>1, <1>2 DEF CreationCheck, CreationInsert, CallDies
<1>7. CASE TenantAccountNext
  BY <1>7, <1>3, <1>4, <1>5, <1>6 DEF TenantAccountNext
<1>8. ASSUME NEW d \in KeyCalls \cup ApiRequests \cup CompanyCalls, UNCHANGED tenant,
             DOMAIN op' = DOMAIN op, DOMAIN op'[d] = DOMAIN op[d],
             \A c \in AccountCalls \ {d} : op'[c] = op[c]
      PROVE  CreationsOwn'
  BY <1>8, <1>1, AccountsAssumption DEF AccountCalls
<1>9. CASE KeyNext
  <2>1. UNCHANGED tenant
    BY <1>9 DEF KeyNext, RotateRead, RevokeRead, KeyRevoke, KeyCreate, CallDies, RequestGuard,
                RequestEnds, TokenIssue, TokenConsume
  <2>2. ASSUME NEW r \in KeyCalls, RotateRead(r) \/ RevokeRead(r) PROVE CreationsOwn'
    BY <2>1, <2>2, <1>8 DEF RotateRead, RevokeRead, CreationsOwn, AccountCalls
  <2>3. ASSUME NEW r \in KeyCalls, KeyRevoke(r) \/ KeyCreate(r) \/ CallDies(r) PROVE CreationsOwn'
    BY <2>1, <2>3, <1>2, <1>8 DEF KeyRevoke, KeyCreate, CallDies, AccountCalls
  <2>4. ASSUME NEW q \in ApiRequests, RequestGuard(q) PROVE CreationsOwn'
    BY <2>1, <2>4, <1>8 DEF RequestGuard, CreationsOwn, AccountCalls
  <2>5. ASSUME NEW q \in ApiRequests, RequestEnds(q) \/ TokenIssue(q) PROVE CreationsOwn'
    BY <2>1, <2>5, <1>2, <1>8 DEF RequestEnds, TokenIssue, AccountCalls
  <2>6. CASE TokenConsume
    BY <2>1, <2>6 DEF TokenConsume, CreationsOwn, Doing
  <2> QED BY <1>9, <2>2, <2>3, <2>4, <2>5, <2>6 DEF KeyNext
<1>10. CASE CompanyNext
  <2>1. UNCHANGED tenant
    BY <1>10 DEF CompanyNext, CompanyCheck, CompanyInsert, UpdateRead, UpdateWrite, CompanyAudit, CallDies
  <2>2. ASSUME NEW c \in CompanyCalls, CompanyCheck(c) \/ UpdateRead(c) PROVE CreationsOwn'
    BY <2>1, <2>2, <1>8 DEF CompanyCheck, UpdateRead, CreationsOwn, AccountCalls
  <2>3. ASSUME NEW c \in CompanyCalls,
               CompanyInsert(c) \/ UpdateWrite(c) \/ CompanyAudit(c) \/ CallDies(c)
        PROVE  CreationsOwn'
    BY <2>1, <2>3, <1>2, <1>8 DEF CompanyInsert, UpdateWrite, CompanyAudit, CallDies, AccountCalls
  <2> QED BY <1>10, <2>2, <2>3 DEF CompanyNext
<1> QED BY <1>7, <1>9, <1>10

BuyerCallRow == [step : {"idle", "register", "refresh", "insert", "write", "ok", "refused"},
                 of : BuyerCalls \cup {"none"}, name : Names \cup {"", "edited"},
                 info : Taxpayers \cup {NoTaxpayer}]
BuyerRow == [name : Names \cup {"", "edited"}, status : RegistryStates \cup {""},
             buyerType : {"", "GOBIERNO", "REGIMEN_ESPECIAL", "CONTRIBUYENTE"},
             ecfType : {"", "E45", "E44", "E31"}]

NameGiven(name) == name = "edited" \/ \E info \in answers : info.name = name

\* A call that writes has an answer of the registry, about the one RNC.
BuyersBacked ==
  /\ buyerOp \in [BuyerCalls -> BuyerCallRow] /\ buyer \in [BuyerCalls -> BuyerRow]
  /\ answers \subseteq Taxpayers
  /\ buyerRnc = NoRnc => Stored = {} /\ \A c \in BuyerCalls : BuyerDoing(c, "idle")
  /\ \A c \in BuyerCalls :
       /\ BuyerDoing(c, "insert") \/ BuyerDoing(c, "write") => buyerOp[c].info \in answers
       /\ BuyerDoing(c, "refresh") \/ BuyerDoing(c, "write") =>
            buyerOp[c].of \in Stored /\ NameGiven(buyerOp[c].name)
  /\ BuyersVerified

\* What the registry has answered backs a row.
Backed(row) ==
  /\ \E info \in answers :
       ResolveEcfType(buyerRnc, info) = [buyerType |-> row.buyerType, ecfType |-> row.ecfType]
  /\ \E info \in answers : info.status = row.status
  /\ NameGiven(row.name)

LEMMA BuyerStep ==
  ASSUME BuyersBacked, BuyerNext PROVE BuyersBacked'
<1>t. /\ buyerOp \in [BuyerCalls -> BuyerCallRow] /\ buyer \in [BuyerCalls -> BuyerRow]
      /\ answers \subseteq Taxpayers
  BY DEF BuyersBacked
<1>v. \A b \in Stored : Backed(buyer[b])
  BY DEF BuyersBacked, BuyersVerified, Backed, NameGiven
<1>s. ASSUME
        /\ buyerOp' \in [BuyerCalls -> BuyerCallRow] /\ buyer' \in [BuyerCalls -> BuyerRow]
        /\ answers' \subseteq Taxpayers
        /\ buyerRnc' = NoRnc => Stored' = {} /\ \A c \in BuyerCalls : BuyerDoing(c, "idle")'
        /\ \A c \in BuyerCalls :
             /\ BuyerDoing(c, "insert")' \/ BuyerDoing(c, "write")' => buyerOp'[c].info \in answers'
             /\ BuyerDoing(c, "refresh")' \/ BuyerDoing(c, "write")' =>
                  buyerOp'[c].of \in Stored' /\ NameGiven(buyerOp[c].name)'
        /\ \A b \in Stored' : Backed(buyer[b])'
      PROVE BuyersBacked'
  BY <1>s DEF BuyersBacked, BuyersVerified, Backed, NameGiven
<1>1. ASSUME NEW c \in BuyerCalls, NEW r \in Rnc, BuyerCheck(c, r) PROVE BuyersBacked'
  <2>1. r # NoRnc /\ buyerRnc' = r /\ buyer' = buyer /\ answers' = answers /\ Stored' = Stored
    BY <1>1 DEF BuyerCheck, Rnc, NoRnc, Stored
  <2>2. buyerRnc = r \/ Stored = {}
    BY <1>1 DEF BuyerCheck, BuyersBacked
  <2>3. /\ buyerOp' \in [BuyerCalls -> BuyerCallRow]
        /\ buyerOp'[c].step \in {"register", "refused"}
        /\ \A d \in BuyerCalls \ {c} : buyerOp'[d] = buyerOp[d]
    <3>1. PICK step \in {"register", "refused"} : buyerOp' = [buyerOp EXCEPT ![c].step = step]
      BY <1>1 DEF BuyerCheck, BuyerBecomes
    <3> QED BY <3>1, <1>t DEF BuyerCallRow
  <2>4. \A b \in Stored' : Backed(buyer[b])'
    BY <2>1, <2>2, <1>v DEF Backed, NameGiven
  <2> QED BY <2>1, <2>3, <2>4, <1>t, <1>s DEF BuyersBacked, BuyerDoing, NameGiven
<1>2. ASSUME NEW c \in BuyerCalls, BuyerLookup(c) PROVE BuyersBacked'
  <2>1. PICK info \in LookupDgii :
          /\ answers' = answers \cup ({info} \ {NoTaxpayer})
          /\ buyerOp' = [buyerOp EXCEPT ![c] =
               [@ EXCEPT !.info = info,
                         !.step = IF ~Found(info) THEN "refused"
                                  ELSE IF BuyerDoing(c, "register") THEN "insert" ELSE "write"]]
    BY <1>2 DEF BuyerLookup
  <2>2. UNCHANGED <<buyerRnc, buyer, Stored>>
    BY <1>2 DEF BuyerLookup, Stored
  <2>3. answers \subseteq answers' /\ answers' \subseteq Taxpayers /\ (Found(info) => info \in answers')
    BY <2>1, <1>t DEF LookupDgii, Found
  <2>4. /\ buyerOp' \in [BuyerCalls -> BuyerCallRow] /\ buyerOp'[c].info = info
        /\ buyerOp'[c].of = buyerOp[c].of /\ buyerOp'[c].name = buyerOp[c].name
        /\ \A d \in BuyerCalls \ {c} : buyerOp'[d] = buyerOp[d]
    <3>1. PICK step \in {"refused", "insert", "write"} :
            buyerOp' = [buyerOp EXCEPT ![c] = [@ EXCEPT !.info = info, !.step = step]]
      BY <2>1
    <3>2. info \in Taxpayers \cup {NoTaxpayer}
      BY <2>1 DEF LookupDgii
    <3> QED BY <3>1, <3>2, <1>t DEF BuyerCallRow
  <2>5. /\ buyerOp'[c].step \in {"insert", "write", "refused"}
        /\ buyerOp'[c].step \in {"insert", "write"} => Found(info)
        /\ buyerOp'[c].step = "write" => BuyerDoing(c, "refresh")
    <3>1. BuyerDoing(c, "register") \/ BuyerDoing(c, "refresh")
      BY <1>2 DEF BuyerLookup, BuyerDoing
    <3> DEFINE step == IF ~Found(info) THEN "refused"
                       ELSE IF BuyerDoing(c, "register") THEN "insert" ELSE "write"
    <3>2. step \in {"insert", "write", "refused"} /\ (step \in {"insert", "write"} => Found(info))
          /\ (step = "write" => BuyerDoing(c, "refresh"))
      BY <3>1
    <3>3. buyerOp' = [buyerOp EXCEPT ![c] = [@ EXCEPT !.info = info, !.step = step]]
      BY <2>1
    <3> HIDE DEF step
    <3>4. buyerOp'[c].step = step
      BY <3>3, <1>t DEF BuyerCallRow
    <3> QED BY <3>2, <3>4
  <2>6. \A name : NameGiven(name) => NameGiven(name)'
    BY <2>3 DEF NameGiven
  <2>7. \A b \in Stored' : Backed(buyer[b])'
    BY <2>2, <2>3, <1>v DEF Backed, NameGiven
  <2>8. buyerRnc # NoRnc
    BY <1>2 DEF BuyerLookup, BuyersBacked, BuyerDoing
  <2>9. \A d \in BuyerCalls :
          /\ BuyerDoing(d, "insert")' \/ BuyerDoing(d, "write")' => buyerOp'[d].info \in answers'
          /\ BuyerDoing(d, "refresh")' \/ BuyerDoing(d, "write")' =>
               buyerOp'[d].of \in Stored' /\ NameGiven(buyerOp[d].name)'
    BY <2>2, <2>3, <2>4, <2>5, <2>6 DEF BuyersBacked, BuyerDoing, NameGiven
  <2> QED BY <2>2, <2>3, <2>4, <2>7, <2>8, <2>9, <1>t, <1>s
<1>3. ASSUME NEW c \in BuyerCalls, UNCHANGED <<buyerRnc, answers>>,
             NEW b \in BuyerCalls, NEW row \in BuyerRow, buyer' = [buyer EXCEPT ![b] = row],
             row # NoBuyer, Backed(row),
             BuyerBecomes(c, "ok"), ~BuyerDoing(c, "idle") \/ Stored # {}
      PROVE  BuyersBacked'
  <2>1. buyer' \in [BuyerCalls -> BuyerRow] /\ Stored' = Stored \cup {b}
    BY <1>3, <1>t DEF Stored
  <2>2. /\ buyerOp' \in [BuyerCalls -> BuyerCallRow] /\ buyerOp'[c].step = "ok"
        /\ \A d \in BuyerCalls \ {c} : buyerOp'[d] = buyerOp[d]
    BY <1>3, <1>t DEF BuyerBecomes, BuyerCallRow
  <2>3. buyerRnc # NoRnc
    BY <1>3 DEF BuyersBacked
  <2>4. \A d \in Stored' : Backed(buyer'[d])
    BY <1>3, <1>v, <1>t, <2>1 DEF Stored
  <2>5. \A d \in Stored' : Backed(buyer[d])'
    BY <1>3, <2>4 DEF Backed, NameGiven
  <2> QED BY <1>3, <2>1, <2>2, <2>3, <2>5, <1>t, <1>s DEF BuyersBacked, BuyerDoing, NameGiven
<1>4. ASSUME NEW c \in BuyerCalls, BuyerInsert(c) PROVE BuyersBacked'
  <2> DEFINE info == buyerOp[c].info
             resolution == ResolveEcfType(buyerRnc, info)
             row == [name |-> info.name, status |-> info.status,
                     buyerType |-> resolution.buyerType, ecfType |-> resolution.ecfType]
  <2>1. info \in answers /\ info \in Taxpayers /\ BuyerDoing(c, "insert")
    BY <1>4, <1>t DEF BuyersBacked, BuyerInsert
  <2>2. /\ resolution.buyerType \in {"GOBIERNO", "REGIMEN_ESPECIAL", "CONTRIBUYENTE"}
        /\ resolution.ecfType \in {"E45", "E44", "E31"}
        /\ resolution = [buyerType |-> resolution.buyerType, ecfType |-> resolution.ecfType]
    BY DEF ResolveEcfType
  <2>3. row \in BuyerRow /\ row # NoBuyer
    BY <2>1, <2>2 DEF BuyerRow, Taxpayers, NoBuyer
  <2>4. Backed(row)
    BY <2>1, <2>2 DEF Backed, NameGiven
  <2>5. /\ buyer' = [buyer EXCEPT ![c] = row] /\ UNCHANGED <<buyerRnc, answers>>
        /\ BuyerBecomes(c, "ok") /\ ~BuyerDoing(c, "idle")
    BY <1>4, <2>1 DEF BuyerInsert, BuyerDoing
  <2> HIDE DEF row
  <2> QED BY <2>3, <2>4, <2>5, <1>3
<1>5. ASSUME NEW c \in BuyerCalls, BuyerUpdate(c) PROVE BuyersBacked'
  <2>1. PICK b \in Stored : buyer' = [buyer EXCEPT ![b].name = "edited"]
    BY <1>5 DEF BuyerUpdate
  <2> DEFINE row == [buyer[b] EXCEPT !.name = "edited"]
  <2>2. row \in BuyerRow /\ row # NoBuyer /\ b \in BuyerCalls /\ buyer' = [buyer EXCEPT ![b] = row]
    BY <2>1, <1>t DEF BuyerRow, NoBuyer, Stored
  <2>3. Backed(row)
    BY <1>v, <1>t, <2>1, <2>2 DEF Backed, NameGiven, BuyerRow
  <2> HIDE DEF row
  <2> QED BY <1>5, <2>1, <2>2, <2>3, <1>3 DEF BuyerUpdate
<1>6. ASSUME NEW c \in BuyerCalls, RefreshRead(c) PROVE BuyersBacked'
  <2>1. PICK b \in Stored :
          buyerOp' = [buyerOp EXCEPT ![c] = [@ EXCEPT !.step = "refresh", !.of = b, !.name = buyer[b].name]]
    BY <1>6 DEF RefreshRead
  <2>2. UNCHANGED <<buyerRnc, buyer, answers, Stored>> /\ b \in BuyerCalls
    BY <1>6 DEF RefreshRead, Stored
  <2>3. buyer[b].name \in Names \cup {"", "edited"} /\ NameGiven(buyer[b].name)
    BY <2>2, <1>t, <1>v DEF BuyerRow, Backed
  <2>4. /\ buyerOp' \in [BuyerCalls -> BuyerCallRow] /\ buyerOp'[c].step = "refresh"
        /\ buyerOp'[c].of = b /\ buyerOp'[c].name = buyer[b].name
        /\ \A d \in BuyerCalls \ {c} : buyerOp'[d] = buyerOp[d]
    BY <2>1, <2>2, <2>3, <1>t DEF BuyerCallRow
  <2>5. buyerRnc # NoRnc
    BY DEF BuyersBacked
  <2>6. \A d \in Stored' : Backed(buyer[d])'
    BY <2>2, <1>v DEF Backed, NameGiven
  <2> QED BY <2>2, <2>3, <2>4, <2>5, <2>6, <1>t, <1>s DEF BuyersBacked, BuyerDoing, NameGiven
<1>7. ASSUME NEW c \in BuyerCalls, RefreshWrite(c) PROVE BuyersBacked'
  <2> DEFINE info == buyerOp[c].info
             b == buyerOp[c].of
             name == IF info.name = "" THEN buyerOp[c].name ELSE info.name
             row == [buyer[b] EXCEPT !.name = name, !.status = info.status]
  <2>1. /\ BuyerDoing(c, "write") /\ info \in answers /\ info \in Taxpayers
        /\ b \in Stored /\ b \in BuyerCalls /\ NameGiven(buyerOp[c].name)
        /\ buyerOp[c].name \in Names \cup {"", "edited"}
    BY <1>7, <1>t DEF RefreshWrite, BuyersBacked, Stored, BuyerCallRow
  <2>n. name \in Names \cup {"", "edited"} /\ NameGiven(name) /\ info.status \in RegistryStates
    BY <2>1 DEF Taxpayers, NameGiven
  <2> HIDE DEF name
  <2>2. /\ row \in BuyerRow /\ row.ecfType = buyer[b].ecfType /\ row.buyerType = buyer[b].buyerType
        /\ row.status = info.status /\ row.name = name
    <3>1. buyer[b] \in BuyerRow
      BY <2>1, <1>t
    <3> HIDE DEF b, info
    <3> QED BY <2>n, <3>1 DEF BuyerRow
  <2>3. Backed(row)
    <3>1. Backed(buyer[b])
      BY <2>1, <1>v
    <3> QED BY <2>1, <2>2, <2>n, <3>1 DEF Backed
  <2>4. row # NoBuyer
    <3>1. \E i \in answers : ResolveEcfType(buyerRnc, i) = [buyerType |-> row.buyerType, ecfType |-> row.ecfType]
      BY <2>3 DEF Backed
    <3> HIDE DEF row
    <3>2. row.ecfType # ""
      BY <3>1 DEF ResolveEcfType
    <3>3. NoBuyer.ecfType = ""
      BY DEF NoBuyer
    <3> QED BY <3>2, <3>3
  <2>5. /\ buyer' = [buyer EXCEPT ![b] = row] /\ UNCHANGED <<buyerRnc, answers>>
        /\ BuyerBecomes(c, "ok") /\ ~BuyerDoing(c, "idle")
    BY <1>7, <2>1 DEF RefreshWrite, BuyerDoing, name
  <2> HIDE DEF row
  <2> QED BY <2>1, <2>2, <2>3, <2>4, <2>5, <1>3
<1> QED BY <1>1, <1>2, <1>4, <1>5, <1>6, <1>7 DEF BuyerNext

\* What a call that creates a tenant or a buyer answers with is there, whatever calls race
\* with it and wherever others die: the row, both keys and the plan of the tenant, and a
\* buyer as the registry knows it.
THEOREM CreatedIsThere == Spec => []CreatedComplete
<1>1. Init => CreationsOwn /\ BuyersBacked
  <2> SUFFICES ASSUME Init PROVE CreationsOwn /\ BuyersBacked
    OBVIOUS
  <2>1. CreationsOwn
    BY DEF Init, AccountInit, CreationsOwn, NoTenant, TenantColumns, Waiting, Doing, AccountCalls
  <2>2. /\ buyerOp \in [BuyerCalls -> BuyerCallRow] /\ buyer \in [BuyerCalls -> BuyerRow]
        /\ answers = {} /\ \A c \in BuyerCalls : BuyerDoing(c, "idle")
    BY DEF Init, BuyerInit, NoCall, NoBuyer, BuyerCallRow, BuyerRow, BuyerDoing
  <2>3. Stored = {}
    BY DEF Init, BuyerInit, Stored
  <2> QED BY <2>1, <2>2, <2>3 DEF BuyersBacked, BuyersVerified, BuyerDoing
<1>2. CreationsOwn /\ BuyersBacked /\ [Next]_vars => (CreationsOwn /\ BuyersBacked)'
  <2> SUFFICES ASSUME CreationsOwn, BuyersBacked, [Next]_vars PROVE CreationsOwn' /\ BuyersBacked'
    OBVIOUS
  <2>1. CreationsOwn'
    <3>1. CASE UNCHANGED accountVars
      BY <3>1 DEF accountVars, CreationsOwn, Doing
    <3> QED BY <3>1, Parted, AccountStep
  <2>2. BuyersBacked'
    <3>1. CASE UNCHANGED buyerVars
      BY <3>1 DEF buyerVars, BuyersBacked, BuyersVerified, BuyerDoing, Stored, NameGiven
    <3> QED BY <3>1, Parted, BuyerStep
  <2> QED BY <2>1, <2>2
<1>3. CreationsOwn /\ BuyersBacked => CreatedComplete
  <2> SUFFICES ASSUME CreationsOwn, BuyersBacked PROVE TenantsComplete /\ BuyersVerified
    BY DEF CreatedComplete
  <2>1. ASSUME NEW c \in Creations, Doing(c, "ok")
        PROVE  tenant = [by |-> c, keys |-> DefaultKeys, plan |-> c \in Planned]
    <3>1. tenant \in TenantColumns /\ tenant.by = c /\ tenant.keys = DefaultKeys
      BY <2>1 DEF CreationsOwn
    <3>2. tenant = [by |-> c, keys |-> DefaultKeys, plan |-> tenant.plan]
      BY <3>1 DEF TenantColumns
    <3>3. tenant.plan \in BOOLEAN /\ (tenant.plan <=> c \in Planned)
      BY <2>1 DEF CreationsOwn, TenantColumns
    <3>4. tenant.plan = (c \in Planned)
      BY <3>3
    <3> QED BY <3>2, <3>4
  <2> QED BY <2>1 DEF TenantsComplete, BuyersBacked
<1> QED BY <1>1, <1>2, <1>3, PTL DEF Spec
=============================================================================
