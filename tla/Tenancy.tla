-------------------------------- MODULE Tenancy --------------------------------
(***************************************************************************)
(* The plans and the quota of one company, the accounts of the tenants and *)
(* the buyers they register.  They share no variable: a behaviour is about *)
(* one of them.                                                            *)
(***************************************************************************)
EXTENDS CompanyBilling, Accounts, Buyers

VARIABLES part  \* what the behaviour is about

vars == <<part, billingVars, accountVars, buyerVars>>

Parts == {"billing", "tenants", "keys", "companies", "buyers"}

Init == part \in Parts /\ BillingInit /\ AccountInit /\ BuyerInit

Next ==
  /\ \/ part = "billing" /\ BillingNext /\ UNCHANGED <<accountVars, buyerVars>>
     \/ part = "tenants" /\ TenantAccountNext /\ UNCHANGED <<billingVars, buyerVars>>
     \/ part = "keys" /\ KeyNext /\ UNCHANGED <<billingVars, buyerVars>>
     \/ part = "companies" /\ CompanyNext /\ UNCHANGED <<billingVars, buyerVars>>
     \/ part = "buyers" /\ BuyerNext /\ UNCHANGED <<billingVars, accountVars>>
  /\ UNCHANGED part

Spec == Init /\ [][Next]_vars

\* What a call that creates a tenant or a buyer answers with is there: the tenant has its
\* keys and its plan, and the buyer was verified.
CreatedComplete == TenantsComplete /\ BuyersVerified
=============================================================================
