---------------------------- MODULE DistributedLock ----------------------------
(***************************************************************************)
(* The Redis lock of the cron jobs: SET key token NX PX ttl, the body, and *)
(* a release script that deletes the key only if it still has the token of *)
(* the caller.  A body may outlive the TTL; a pod may die at any step; a   *)
(* release may fail.  Tokens are random UUIDs: here 1, 2, ... in order.    *)
(***************************************************************************)
EXTENDS Integers

CONSTANTS
  Pods,       \* the replicas of the API
  Keys,       \* the lock keys, one per cron job
  MaxTokens   \* bound on the acquisitions

ASSUME LockAssumption == MaxTokens \in Nat

VARIABLES
  lock,       \* the value of each key in Redis
  run,        \* each pod's run of each job: step, token, and if the TTL passed meanwhile
  nextToken

lockVars == <<lock, run, nextToken>>

Free == 0
Off == [step |-> "idle", token |-> Free, ttl |-> "left"]

LockInit ==
  /\ lock = [k \in Keys |-> Free]
  /\ run = [p \in Pods |-> [k \in Keys |-> Off]]
  /\ nextToken = 1

-----------------------------------------------------------------------------

\* NX
CanSet(k) == lock[k] = Free

\* acquire; a tick that finds the lock held does nothing.
Acquire(p, k) ==
  /\ run[p][k].step = "idle" /\ nextToken <= MaxTokens
  /\ CanSet(k)
  /\ lock' = [lock EXCEPT ![k] = nextToken]
  /\ run' = [run EXCEPT ![p][k] = [step |-> "working", token |-> nextToken, ttl |-> "left"]]
  /\ nextToken' = nextToken + 1

\* The body of withLock ends, with or without an exception.
WorkEnds(p, k) ==
  /\ run[p][k].step = "working"
  /\ run' = [run EXCEPT ![p][k].step = "releasing"]
  /\ UNCHANGED <<lock, nextToken>>

Releases_Any(p, k) == TRUE
\* RELEASE_SCRIPT: GET key == token.
Releases(p, k) == lock[k] = run[p][k].token

\* release; its failure is logged and the key waits for its TTL.
Release(p, k) ==
  /\ run[p][k].step = "releasing"
  /\ run' = [run EXCEPT ![p][k] = Off]
  /\ \/ lock' = IF Releases(p, k) THEN [lock EXCEPT ![k] = Free] ELSE lock
     \/ UNCHANGED lock
  /\ UNCHANGED nextToken

\* PX
Expires(k) == lock[k] # Free

Expire(k) ==
  /\ Expires(k)
  /\ lock' = [lock EXCEPT ![k] = Free]
  /\ run' = [p \in Pods |-> IF run[p][k].token = lock[k] THEN [run[p] EXCEPT ![k].ttl = "passed"]
                                                          ELSE run[p]]
  /\ UNCHANGED nextToken

\* The pod dies, or is restarted: it forgets its runs.
PodDies(p) ==
  /\ \E k \in Keys : run[p][k].step # "idle"
  /\ run' = [run EXCEPT ![p] = [k \in Keys |-> Off]]
  /\ UNCHANGED <<lock, nextToken>>

LockNext ==
  \/ \E p \in Pods, k \in Keys : Acquire(p, k) \/ WorkEnds(p, k) \/ Release(p, k)
  \/ \E k \in Keys : Expire(k)
  \/ \E p \in Pods : PodDies(p)

LockSpec == LockInit /\ [][LockNext]_lockVars

-----------------------------------------------------------------------------
(* Properties *)

RunRecord == [step : {"idle", "working", "releasing"}, token : 0 .. MaxTokens,
              ttl : {"left", "passed"}]

LockTypeOK ==
  /\ nextToken \in 1 .. MaxTokens + 1
  /\ lock \in [Keys -> 0 .. MaxTokens]
  /\ run \in [Pods -> [Keys -> RunRecord]]

\* A pod works under the lock: it has it and its TTL has not passed.
Holds(p, k) == run[p][k].step = "working" /\ run[p][k].ttl = "left"

\* "only one of them actually does the work per tick": two pods never work on a
\* job at once, unless the body of one has outlived its TTL; not even when such a
\* body then releases a lock that others have taken over since.
Exclusive == \A k \in Keys, p, q \in Pods : Holds(p, k) /\ Holds(q, k) => p = q

\* "another worker that grabbed the same key after our TTL cannot be accidentally
\* evicted": the lock of a pod that works goes away only with its own release,
\* its TTL or its death.
NeverEvicted ==
  [][\A k \in Keys, p \in Pods :
       (Holds(p, k) /\ lock[k] = run[p][k].token /\ lock'[k] # lock[k]) =>
         run'[p][k] # run[p][k]]_lockVars

=============================================================================
