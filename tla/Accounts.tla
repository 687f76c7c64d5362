-------------------------------- MODULE Accounts --------------------------------
(***************************************************************************)
(* Tenants, their API keys, and the companies they register.               *)
(* Every operation reads, waits (for bcrypt, for the RNC lookup, for the   *)
(* database) and writes in a later statement, and none of them is a        *)
(* transaction: what it read may have changed, and the process may die     *)
(* between two statements.  Only the unique indexes on the email of a      *)
(* tenant and on the RNC of a company of a tenant refuse a late write.     *)
(*                                                                         *)
(* A call has its step and what it was given and read.  One email and one  *)
(* RNC of a company stand for all: different ones do not meet.             *)
(***************************************************************************)
EXTENDS Naturals, FiniteSets, Sequences, SequencesExt

CONSTANTS
  Creations,      \* concurrent calls that create a tenant
  Bootstraps,     \* of them, those of the public registration
  Planned,        \* of them, those that ask for a billing plan
  KeyCalls,       \* rotations and revocations of API keys
  KeyIds,         \* the API keys that may exist
  ApiRequests,    \* requests with an API key
  CompanyCalls,   \* registrations and updates of a company
  Envs            \* the DGII environments

AccountCalls == Creations \cup KeyCalls \cup ApiRequests \cup CompanyCalls

NoRow == "NoRow"

ASSUME AccountsAssumption ==
  /\ Bootstraps \subseteq Creations /\ Planned \subseteq Creations \ Bootstraps
  /\ Creations \cap (KeyCalls \cup ApiRequests \cup CompanyCalls \cup {NoRow}) = {}

VARIABLES
  tenant,     \* the tenant row: the call that created it, its default keys, its plan
  key,        \* the API keys of another tenant: absent, active or revoked
  company,    \* dgiiEnv of the company row, or NoRow
  audit,      \* the environments that the company's audit log names, in order
  token,      \* the download token: none, issued, used
  downloads,  \* how often the XML of the token was served
  op          \* step of each call, and the key or environments it is about

accountVars == <<tenant, key, company, audit, token, downloads, op>>

NoTenant == [by |-> NoRow, keys |-> {}, plan |-> FALSE]
Waiting == [step |-> "idle", key |-> NoRow, read |-> NoRow, env |-> NoRow]

FirstKey == CHOOSE k \in KeyIds : TRUE

Doing(c, step) == op[c].step = step
Become(c, step) == op' = [op EXCEPT ![c].step = step]

AccountInit ==
  /\ tenant = NoTenant
  /\ key = [k \in KeyIds |-> IF k = FirstKey THEN "active" ELSE "absent"]
  /\ company = NoRow /\ audit = << >>
  /\ token = "none" /\ downloads = 0
  /\ op = [c \in AccountCalls |-> Waiting]

-----------------------------------------------------------------------------
(* Creation of a tenant: POST /admin/tenants, and the public registration,     *)
(* which is refused once there is a tenant.                                    *)

\* For the registration no tenant at all, for the admin none with this email.
Unregistered == tenant = NoTenant

CreationCheck(c) ==
  /\ Doing(c, "idle") /\ Unregistered
  /\ Become(c, "insert")
  /\ UNCHANGED <<tenant, key, company, audit, token, downloads>>

\* The unique index on tenants.email.
EmailTaken == tenant # NoTenant

CreationInsert(c) ==
  /\ Doing(c, "insert")
  /\ IF EmailTaken
       THEN Become(c, "refused") /\ UNCHANGED tenant
       ELSE tenant' = [NoTenant EXCEPT !.by = c] /\ Become(c, "keys")
  /\ UNCHANGED <<key, company, audit, token, downloads>>

DefaultKeys == {"test", "live"}

AfterKeys_First(c, keys) == IF c \in Planned THEN "plan" ELSE "ok"
\* The admin awaits both keys at once, the registration one after the other.
AfterKeys(c, keys) ==
  IF keys # DefaultKeys THEN "keys" ELSE IF c \in Planned THEN "plan" ELSE "ok"

CreationKey(c) ==
  /\ Doing(c, "keys")
  /\ \E k \in DefaultKeys \ tenant.keys :
       /\ c \in Bootstraps /\ k = "live" => "test" \in tenant.keys
       /\ tenant' = [tenant EXCEPT !.keys = @ \cup {k}]
  /\ Become(c, AfterKeys(c, tenant'.keys))
  /\ UNCHANGED <<key, company, audit, token, downloads>>

CreationPlan(c) ==
  /\ Doing(c, "plan")
  /\ tenant' = [tenant EXCEPT !.plan = TRUE]
  /\ Become(c, "ok")
  /\ UNCHANGED <<key, company, audit, token, downloads>>

\* A statement fails or the process dies: what was written stays.
CallDies(c) ==
  /\ op[c].step \in {"insert", "keys", "plan", "create", "audit"}
  /\ Become(c, "died")
  /\ UNCHANGED <<tenant, key, company, audit, token, downloads>>

-----------------------------------------------------------------------------
(* API keys *)

Active == {k \in KeyIds : key[k] = "active"}

\* rotateApiKey reads an active key, revokeApiKey any key.
RotateRead(r) ==
  /\ Doing(r, "idle")
  /\ \E k \in Active : op' = [op EXCEPT ![r] = [@ EXCEPT !.step = "rotate", !.key = k]]
  /\ UNCHANGED <<tenant, key, company, audit, token, downloads>>

RevokeRead(r) ==
  /\ Doing(r, "idle")
  /\ \E k \in KeyIds :
       key[k] # "absent" /\ op' = [op EXCEPT ![r] = [@ EXCEPT !.step = "revoke", !.key = k]]
  /\ UNCHANGED <<tenant, key, company, audit, token, downloads>>

KeyRevoke(r) ==
  /\ op[r].step \in {"rotate", "revoke"}
  /\ key' = [key EXCEPT ![op[r].key] = "revoked"]
  /\ Become(r, IF Doing(r, "rotate") THEN "create" ELSE "ok")
  /\ UNCHANGED <<tenant, company, audit, token, downloads>>

\* generateApiKey, with the name, the scopes and the environment of the old key.
KeyCreate(r) ==
  /\ Doing(r, "create")
  /\ \E k \in KeyIds : key[k] = "absent" /\ key' = [key EXCEPT ![k] = "active"]
  /\ Become(r, "ok")
  /\ UNCHANGED <<tenant, company, audit, token, downloads>>

\* ApiKeyGuard lets the request pass, and its handler runs.
RequestGuard(q) ==
  /\ Doing(q, "idle")
  /\ \E k \in Active : op' = [op EXCEPT ![q] = [@ EXCEPT !.step = "handler", !.key = k]]
  /\ UNCHANGED <<tenant, key, company, audit, token, downloads>>

RequestEnds(q) ==
  /\ Doing(q, "handler")
  /\ Become(q, "ok")
  /\ UNCHANGED <<tenant, key, company, audit, token, downloads>>

\* A request for a download token: SET NX with a lifetime; the key of it is new.
TokenIssue(q) ==
  /\ Doing(q, "handler") /\ token = "none"
  /\ token' = "issued"
  /\ Become(q, "ok")
  /\ UNCHANGED <<tenant, key, company, audit, downloads>>

\* The download reads and deletes it in one script, before it reads the XML.
TokenConsume ==
  /\ token = "issued"
  /\ token' = "used" /\ downloads' = downloads + 1
  /\ UNCHANGED <<tenant, key, company, audit, op>>

-----------------------------------------------------------------------------
(* Companies.  The lookup of the RNC fills in names or refuses; the existing   *)
(* row is looked for after it.                                                 *)

CompanyCheck(c) ==
  /\ Doing(c, "idle") /\ company = NoRow
  /\ \E e \in Envs : op' = [op EXCEPT ![c] = [@ EXCEPT !.step = "insert", !.env = e]]
  /\ UNCHANGED <<tenant, key, company, audit, token, downloads>>

\* The unique index on (tenant_id, rnc) of companies.
CompanyInsert(c) ==
  /\ Doing(c, "insert")
  /\ IF company # NoRow
       THEN Become(c, "refused") /\ UNCHANGED company
       ELSE company' = op[c].env /\ Become(c, "audit")
  /\ UNCHANGED <<tenant, key, audit, token, downloads>>

UpdateRead(c) ==
  /\ Doing(c, "idle") /\ company # NoRow
  /\ \E e \in Envs :
       op' = [op EXCEPT ![c] = [@ EXCEPT !.step = "update", !.read = company, !.env = e]]
  /\ UNCHANGED <<tenant, key, company, audit, token, downloads>>

\* dgiiEnvChanged compares with the row as it was read.
EnvChanged(c) == op[c].env # op[c].read

UpdateWrite(c) ==
  /\ Doing(c, "update")
  /\ company' = op[c].env
  /\ Become(c, IF EnvChanged(c) THEN "audit" ELSE "ok")
  /\ UNCHANGED <<tenant, key, audit, token, downloads>>

\* company_created or dgii_env_changed.
CompanyAudit(c) ==
  /\ Doing(c, "audit")
  /\ audit' = Append(audit, op[c].env)
  /\ Become(c, "ok")
  /\ UNCHANGED <<tenant, key, company, token, downloads>>

-----------------------------------------------------------------------------

TenantAccountNext ==
  \E c \in Creations :
    CreationCheck(c) \/ CreationInsert(c) \/ CreationKey(c) \/ CreationPlan(c) \/ CallDies(c)

KeyNext ==
  \/ \E r \in KeyCalls :
       RotateRead(r) \/ RevokeRead(r) \/ KeyRevoke(r) \/ KeyCreate(r) \/ CallDies(r)
  \/ \E q \in ApiRequests : RequestGuard(q) \/ RequestEnds(q) \/ TokenIssue(q)
  \/ TokenConsume

CompanyNext ==
  \E c \in CompanyCalls :
    \/ CompanyCheck(c) \/ CompanyInsert(c) \/ UpdateRead(c) \/ UpdateWrite(c) \/ CompanyAudit(c)
    \/ CallDies(c)

-----------------------------------------------------------------------------
(* Properties *)

\* A creation that is answered with credentials left all it answers with: a row of its
\* own, both default keys and the plan that was asked for, whatever other creations
\* passed the same checks and whichever of them died.
TenantsComplete ==
  \A c \in Creations :
    Doing(c, "ok") => tenant = [by |-> c, keys |-> DefaultKeys, plan |-> c \in Planned]

-----------------------------------------------------------------------------
(* What the comments and docs promise and the code does not give *)

\* "Capture critical-config change (DEV->PROD) for the audit trail": with no call under
\* way or dead, the last entry of the log is the environment.
AuditExplainsEnv ==
  (\A c \in CompanyCalls : op[c].step \in {"idle", "ok", "refused"}) =>
    company = NoRow \/ Last(audit) = company

\* "Los requests en vuelo con esa key seran rechazados inmediatamente".
RevokedAtOnce == \A q \in ApiRequests : Doing(q, "handler") => op[q].key \in Active

\* "Revoke old one and create new one": a rotation does not add a key.
OneKeyPerRotation == Cardinality(Active) <= 1

\* A tenant that exists has its keys, or somebody is creating them.
TenantHasKeys ==
  tenant = NoTenant \/ tenant.keys = DefaultKeys \/ \E c \in Creations : Doing(c, "keys")
=============================================================================
