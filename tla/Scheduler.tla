------------------------------- MODULE Scheduler -------------------------------
(***************************************************************************)
(* The cron jobs of the scheduler that run under DistributedLock, and the  *)
(* cache of DGII tokens that one of them cleans while getToken reads,      *)
(* discards and writes it.  Each pod encrypts with the key it started      *)
(* with; during a change of the key two pods have different ones.          *)
(* The other cron jobs run under keys of their own: contingency-retry does *)
(* what EcfPipeline models, the certificate job enqueues a check.          *)
(***************************************************************************)
EXTENDS DistributedLock, FiniteSets

CONSTANTS
  Calls,     \* concurrent calls of getToken for one company
  MaxAuth,   \* MAX_AUTH_RETRIES
  MaxTokenRows  \* bound on the rows of dgii_tokens created

ASSUME SchedulerAssumption ==
  /\ "token-cleanup" \in Keys
  /\ MaxAuth \in Nat \ {0} /\ MaxTokenRows \in Nat

VARIABLES
  podKey,    \* the encryption key of each pod, PLAIN for none
  tokens,    \* the rows of dgii_tokens: id, age, key they are encrypted with
  created,   \* rows created
  call       \* each call: step, pod, row it found or wrote, failed authentications

tokenVars == <<tokens, created, call>>
vars == <<lockVars, podKey, tokenVars>>

Ages == {"fresh", "stale"}
PodKeys == {"old", "new"}
NoRow == [id |-> 0, age |-> "stale", key |-> "plain"]
Idle == [step |-> "idle", pod |-> CHOOSE p \in Pods : TRUE, row |-> NoRow, failed |-> 0]

\* A row written in plain text by an older version may be there.
Init ==
  /\ LockInit
  /\ podKey = [p \in Pods |-> "old"]
  /\ tokens \in SUBSET {[id |-> 1, age |-> "fresh", key |-> "plain"]}
  /\ created = 1
  /\ call = [c \in Calls |-> Idle]

-----------------------------------------------------------------------------
(* The cron jobs *)

Tick(p, k) == Acquire(p, k) /\ UNCHANGED <<podKey, tokenVars>>

\* cleanupTokens: one deleteMany.
CleanupTokens(p) ==
  /\ WorkEnds(p, "token-cleanup")
  /\ tokens' = {t \in tokens : t.age = "fresh"}
  /\ UNCHANGED <<podKey, created, call>>

LockStep ==
  /\ \/ \E p \in Pods, k \in Keys : Release(p, k)
     \/ \E k \in Keys : Expire(k)
  /\ UNCHANGED <<podKey, tokenVars>>

\* The pod dies, its calls with it, and starts again, perhaps with the new key.
Restart(p) ==
  /\ PodDies(p)
  /\ podKey' \in {[podKey EXCEPT ![p] = k] : k \in PodKeys}
  /\ call' = [c \in Calls |-> IF call[c].pod = p THEN Idle ELSE call[c]]
  /\ UNCHANGED <<tokens, created>>

-----------------------------------------------------------------------------
(* getToken *)

At(c, step) == call[c].step = step
Goto(c, step) == call' = [call EXCEPT ![c].step = step]
TokenOnly == UNCHANGED <<lockVars, podKey>>

\* Another row that has expired is not served: expiresAt > now.
Servable == {t \in tokens : t.age = "fresh"}

Lookup(c, p) ==
  /\ At(c, "idle") /\ created < MaxTokenRows
  /\ \/ \E t \in Servable : call' = [call EXCEPT ![c] = [Idle EXCEPT !.step = "decrypt", !.pod = p, !.row = t]]
     \/ Servable = {} /\ call' = [call EXCEPT ![c] = [Idle EXCEPT !.step = "auth", !.pod = p]]
  /\ UNCHANGED <<tokens, created>> /\ TokenOnly

Readable_Always(c) == TRUE
\* decryptString throws on plain text and on another key.
Readable(c) == call[c].row.key = podKey[call[c].pod]

\* A row that cannot be read is discarded, and the call authenticates.
Decrypt(c) ==
  /\ At(c, "decrypt")
  /\ IF Readable(c)
       THEN Goto(c, "served") /\ UNCHANGED tokens
       ELSE Goto(c, "auth") /\ tokens' = {t \in tokens : t.id # call[c].row.id}
  /\ UNCHANGED created /\ TokenOnly

\* authenticateWithRetry: the last attempt throws.
AuthGivesUp(c) == call[c].failed + 1 = MaxAuth

\* Seed, signature, validation: it fails and waits, it fails for good, or DGII's
\* answer holds no token.
AuthFails(c) ==
  /\ At(c, "auth")
  /\ call' = [call EXCEPT ![c] =
       IF AuthGivesUp(c) THEN [@ EXCEPT !.step = "error", !.failed = 0]
                         ELSE [@ EXCEPT !.failed = (call[c].failed + 1) % MaxAuth]]
  /\ UNCHANGED <<tokens, created>> /\ TokenOnly

NoTokenInAnswer(c) ==
  /\ At(c, "auth")
  /\ call' = [call EXCEPT ![c].step = "error", ![c].failed = 0]
  /\ UNCHANGED <<tokens, created>> /\ TokenOnly

\* A token: the expired rows go, then its own is written.
AuthSucceeds(c) ==
  /\ At(c, "auth")
  /\ call' = [call EXCEPT ![c].step = "store", ![c].failed = 0]
  /\ tokens' = {t \in tokens : t.age = "fresh"}
  /\ UNCHANGED created /\ TokenOnly

\* encryptString with the key of the pod.
StoredUnder(c) == podKey[call[c].pod]

Store(c) ==
  /\ At(c, "store")
  /\ LET t == [id |-> created + 1, age |-> "fresh", key |-> StoredUnder(c)] IN
       /\ tokens' = tokens \cup {t}
       /\ call' = [call EXCEPT ![c].step = "served", ![c].row = t]
  /\ created' = created + 1
  /\ TokenOnly

\* The caller has its answer.
Return(c) ==
  /\ At(c, "served") \/ At(c, "error")
  /\ call' = [call EXCEPT ![c] = Idle]
  /\ UNCHANGED <<tokens, created>> /\ TokenOnly

\* 55 minutes pass for a row.
TokenAges ==
  /\ \E t \in tokens :
       /\ t.age = "fresh"
       /\ tokens' = (tokens \ {t}) \cup {[t EXCEPT !.age = "stale"]}
  /\ UNCHANGED <<created, call>> /\ TokenOnly

-----------------------------------------------------------------------------

TokenStep(c) ==
  Decrypt(c) \/ AuthFails(c) \/ NoTokenInAnswer(c) \/ AuthSucceeds(c) \/ Store(c) \/ Return(c)

Next ==
  \/ \E p \in Pods, k \in Keys : Tick(p, k)
  \/ \E p \in Pods : CleanupTokens(p) \/ Restart(p)
  \/ LockStep
  \/ \E c \in Calls, p \in Pods : Lookup(c, p)
  \/ \E c \in Calls : TokenStep(c)
  \/ TokenAges

Spec == Init /\ [][Next]_vars

-----------------------------------------------------------------------------
(* Properties *)

LegacyRow == [id : {0, 1}, age : Ages, key : {"plain"}]
TokenRow == LegacyRow \cup [id : 2 .. MaxTokenRows + Cardinality(Calls), age : Ages, key : PodKeys]

\* Type invariant: the lock, the calls, and rows of dgii_tokens that are encrypted
\* but for the one an older version wrote.
TypeOK ==
  /\ LockTypeOK
  /\ podKey \in [Pods -> PodKeys]
  /\ tokens \subseteq TokenRow
  /\ created \in Nat
  /\ call \in [Calls -> [step : {"idle", "decrypt", "auth", "store", "served", "error"},
                         pod : Pods, row : TokenRow, failed : 0 .. MaxAuth - 1]]

\* "so we never serve an unusable token": what a call returns was encrypted with
\* the key of its pod, or is the token it just got, and had not expired when read,
\* whatever other pods discard, clean and write.
NeverServeUnusable ==
  \A c \in Calls : At(c, "served") =>
    call[c].row.key = podKey[call[c].pod] /\ call[c].row.age = "fresh"
=============================================================================
