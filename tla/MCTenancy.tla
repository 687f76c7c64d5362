------------------------------- MODULE MCTenancy -------------------------------
(* Finite instances of Tenancy for TLC. *)
EXTENDS Tenancy

LOCAL INSTANCE TLC

CONSTANTS e1, e2, f1, t1, n1, n2, a1, r1, r2
CONSTANTS c1, c2, c3, k1, k2, k3, x1, x2, q1, u1, u2, u3, b1, b2

None == {}
TwoEmissions == {e1, e2}
OneRefund == {f1}
OneTopup == {t1}
TwoRenewals == {n1, n2}
OneAdmin == {a1}
OneRow == {r1}

\* A plan of one invoice.
OnePlan == {"basic"}
OneInvoicePlan == [c \in OnePlan |-> 1]

ThreeCreations == {c1, c2, c3}
OneBootstrap == {c1}
OnePlanned == {c2}
ThreeKeys == {k1, k2, k3}
TwoKeyCalls == {x1, x2}
OneRequest == {q1}
ThreeCompanyCalls == {u1, u2, u3}
TwoBuyerCalls == {b1, b2}
SomeNames == {"", "gobierno", "other"}
SomeCategories == {"special", "other"}
SomeStates == {"ACTIVO", "SUSPENDIDO"}
TwoEnvs == {"CERT", "PROD"}

Symmetric == Permutations(TwoEmissions) \cup Permutations(TwoRenewals)

\* At most two calls of the billing are under way at a time; the company gets its plan
\* while the tenant has none or an active one, and the tenant's plans then rest.
TwoAtATime ==
  /\ Cardinality({c \in Calls : call'[c].step # "idle"}) <= 2
  /\ tenantVars' # tenantVars => plan.status = "NONE"
  /\ assigned' # assigned =>
       \A r \in TenantRows : tenantPlan[r].status = "ABSENT" \/ r \in ActivePlans

=============================================================================
