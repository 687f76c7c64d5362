---------------------------- MODULE SchedulerProofs ----------------------------
(***************************************************************************)
(* The lock keeps the workers of a job apart, for every number of pods,    *)
(* jobs and acquisitions, and the scheduler's steps are steps of the lock. *)
(* The cache of DGII tokens serves what its pod can read, for every number *)
(* of pods, calls and rows, while keys change and pods restart.            *)
(***************************************************************************)
EXTENDS Scheduler, TLAPS

\* Tokens are used once.
TokensApart ==
  /\ \A k \in Keys : lock[k] < nextToken
  /\ \A k \in Keys, p \in Pods :
       run[p][k].step # "idle" => run[p][k].token # Free /\ run[p][k].token < nextToken
  /\ \A k \in Keys, p, q \in Pods :
       run[p][k].step # "idle" /\ run[q][k].step # "idle" /\ run[p][k].token = run[q][k].token
         => p = q

\* Until its TTL has passed, the lock has the token of the run that took it.
LockIsMine ==
  \A k \in Keys, p \in Pods :
    run[p][k].step # "idle" /\ run[p][k].ttl = "left" => lock[k] = run[p][k].token

LockInv == LockTypeOK /\ TokensApart /\ LockIsMine

LEMMA LockInitInv == LockInit => LockInv
BY LockAssumption DEF LockInit, LockInv, LockTypeOK, TokensApart, LockIsMine, Off, Free, RunRecord

LEMMA AcquireInv ==
  ASSUME LockInv, NEW p \in Pods, NEW k \in Keys, Acquire(p, k)
  PROVE  LockInv'
<1> USE LockAssumption DEF LockInv
<1>1. LockTypeOK'
  BY DEF LockTypeOK, Acquire, RunRecord
<1>2. TokensApart'
  <2>1. \A j \in Keys : lock'[j] < nextToken'
    BY DEF LockTypeOK, Acquire, TokensApart
  <2>2. /\ run'[p][k].token = nextToken
        /\ \A q \in Pods, j \in Keys : q # p \/ j # k => run'[q][j] = run[q][j]
    BY DEF LockTypeOK, Acquire
  <2>3. /\ nextToken' = nextToken + 1 /\ nextToken # Free
        /\ \A q \in Pods, j \in Keys : run[q][j].token \in Nat
    BY DEF LockTypeOK, RunRecord, Acquire, Free
  <2>4. \A j \in Keys, q \in Pods : run'[q][j].step # "idle" =>
          run'[q][j].token # Free /\ run'[q][j].token < nextToken'
    BY <2>2, <2>3 DEF TokensApart, LockTypeOK
  <2>5. \A j \in Keys, q, r \in Pods :
          run'[q][j].step # "idle" /\ run'[r][j].step # "idle" /\ run'[q][j].token = run'[r][j].token
            => q = r
    BY <2>2, <2>3 DEF TokensApart, LockTypeOK
  <2>6. QED
    BY <2>1, <2>4, <2>5 DEF TokensApart
<1>3. LockIsMine'
  <2> SUFFICES ASSUME NEW j \in Keys, NEW q \in Pods,
                      run'[q][j].step # "idle", run'[q][j].ttl = "left"
               PROVE  lock'[j] = run'[q][j].token
    BY DEF LockIsMine
  <2>1. CASE j = k /\ q = p
    BY <2>1 DEF LockTypeOK, Acquire
  <2>2. CASE j # k \/ q # p
    <3>1. run'[q][j] = run[q][j]
      BY <2>2 DEF LockTypeOK, Acquire
    <3>2. lock[j] = run[q][j].token /\ run[q][j].token # Free
      BY <3>1 DEF LockIsMine, TokensApart
    <3>3. j # k
      BY <3>2 DEF Acquire, CanSet
    <3>4. QED
      BY <3>1, <3>2, <3>3 DEF LockTypeOK, Acquire
  <2>3. QED
    BY <2>1, <2>2
<1>4. QED
  BY <1>1, <1>2, <1>3

LEMMA WorkEndsInv ==
  ASSUME LockInv, NEW p \in Pods, NEW k \in Keys, WorkEnds(p, k)
  PROVE  LockInv'
<1> USE LockAssumption DEF LockInv
<1>1. LockTypeOK'
  <2>1. [run[p][k] EXCEPT !.step = "releasing"] \in RunRecord
    BY DEF LockTypeOK, RunRecord
  <2>2. QED
    BY <2>1 DEF LockTypeOK, WorkEnds
<1>2. TokensApart'
  BY DEF LockTypeOK, WorkEnds, TokensApart
<1>3. LockIsMine'
  BY DEF LockTypeOK, WorkEnds, LockIsMine
<1>4. QED
  BY <1>1, <1>2, <1>3

LEMMA ReleaseInv ==
  ASSUME LockInv, NEW p \in Pods, NEW k \in Keys, Release(p, k)
  PROVE  LockInv'
<1> USE LockAssumption DEF LockInv
<1>1. LockTypeOK'
  <2>1. Off \in RunRecord
    BY DEF Off, Free, RunRecord
  <2>2. lock' \in [Keys -> 0 .. MaxTokens]
    BY DEF LockTypeOK, Release, Free
  <2>3. QED
    BY <2>1, <2>2 DEF LockTypeOK, Release
<1>2. TokensApart'
  <2>1. \A q \in Pods, j \in Keys : run'[q][j] = IF q = p /\ j = k THEN Off ELSE run[q][j]
    BY DEF LockTypeOK, Release
  <2>2. \A j \in Keys : lock'[j] \in {lock[j], Free}
    BY DEF LockTypeOK, Release
  <2>3. nextToken' = nextToken
    BY DEF Release
  <2>4. \A j \in Keys : lock'[j] < nextToken'
    BY <2>2, <2>3 DEF LockTypeOK, TokensApart, Free
  <2>5. \A q \in Pods, j \in Keys : run'[q][j].step # "idle" => run'[q][j] = run[q][j]
    BY <2>1 DEF Off
  <2>6. QED
    BY <2>3, <2>4, <2>5 DEF TokensApart
<1>3. LockIsMine'
  <2> SUFFICES ASSUME NEW j \in Keys, NEW q \in Pods,
                      run'[q][j].step # "idle", run'[q][j].ttl = "left"
               PROVE  lock'[j] = run'[q][j].token
    BY DEF LockIsMine
  <2>1. j # k \/ q # p
    BY DEF LockTypeOK, Release, Off
  <2>2. run'[q][j] = run[q][j]
    BY <2>1 DEF LockTypeOK, Release
  <2>3. lock[j] = run[q][j].token
    BY <2>2 DEF LockIsMine
  <2>4. lock'[j] = lock[j]
    <3>1. CASE j = k
      <4>1. run[p][k].token # run[q][k].token
        BY <2>1, <2>2, <3>1 DEF TokensApart, Release
      <4>2. QED
        BY <4>1, <2>3, <3>1 DEF Release, Releases
    <3>2. CASE j # k
      BY <3>2 DEF LockTypeOK, Release
    <3>3. QED
      BY <3>1, <3>2
  <2>5. QED
    BY <2>2, <2>3, <2>4
<1>4. QED
  BY <1>1, <1>2, <1>3

LEMMA ExpireInv ==
  ASSUME LockInv, NEW k \in Keys, Expire(k)
  PROVE  LockInv'
<1> USE LockAssumption DEF LockInv
<1>1. LockTypeOK'
  <2>1. \A r \in RunRecord : [r EXCEPT !.ttl = "passed"] \in RunRecord
    BY DEF RunRecord
  <2>2. \A q \in Pods : [run[q] EXCEPT ![k].ttl = "passed"] \in [Keys -> RunRecord]
    BY <2>1 DEF LockTypeOK
  <2>3. QED
    BY <2>2 DEF LockTypeOK, Expire, Free
<1>2. \A q \in Pods, j \in Keys :
        /\ run'[q][j].step = run[q][j].step /\ run'[q][j].token = run[q][j].token
        /\ run'[q][j].ttl = "left" => run[q][j].ttl = "left" /\ (j = k => run[q][j].token # lock[k])
  BY DEF LockTypeOK, Expire
<1>3. \A j \in Keys : lock'[j] = IF j = k THEN Free ELSE lock[j]
  BY DEF LockTypeOK, Expire
<1>4. nextToken' = nextToken
  BY DEF Expire
<1>5. TokensApart'
  BY <1>2, <1>3, <1>4 DEF LockTypeOK, TokensApart, Free
<1>6. LockIsMine'
  BY <1>2, <1>3 DEF LockIsMine
<1>7. QED
  BY <1>1, <1>5, <1>6

LEMMA PodDiesInv ==
  ASSUME LockInv, NEW p \in Pods, PodDies(p)
  PROVE  LockInv'
<1> USE LockAssumption DEF LockInv
<1>1. LockTypeOK'
  BY DEF LockTypeOK, PodDies, Off, Free, RunRecord
<1>2. TokensApart'
  BY DEF LockTypeOK, PodDies, TokensApart, Off, Free
<1>3. LockIsMine'
  BY DEF LockTypeOK, PodDies, LockIsMine, Off, Free
<1>4. QED
  BY <1>1, <1>2, <1>3

LEMMA LockNextInv == LockInv /\ [LockNext]_lockVars => LockInv'
<1> SUFFICES ASSUME LockInv, [LockNext]_lockVars PROVE LockInv'
  OBVIOUS
<1>1. CASE \E p \in Pods, k \in Keys : Acquire(p, k) \/ WorkEnds(p, k) \/ Release(p, k)
  BY <1>1, AcquireInv, WorkEndsInv, ReleaseInv
<1>2. CASE \E k \in Keys : Expire(k)
  BY <1>2, ExpireInv
<1>3. CASE \E p \in Pods : PodDies(p)
  BY <1>3, PodDiesInv
<1>4. CASE UNCHANGED lockVars
  BY <1>4 DEF lockVars, LockInv, LockTypeOK, TokensApart, LockIsMine
<1>5. QED
  BY <1>1, <1>2, <1>3, <1>4 DEF LockNext

LEMMA LockInvExclusive == LockInv => Exclusive
BY DEF LockInv, TokensApart, LockIsMine, Exclusive, Holds

\* A step of the lock takes the lock from a run whose TTL has not passed only
\* with that run's own release, expiry or death.
LEMMA LockStepEvictsNobody ==
  ASSUME LockInv, [LockNext]_lockVars, NEW k \in Keys, NEW p \in Pods,
         Holds(p, k), lock[k] = run[p][k].token, lock'[k] # lock[k]
  PROVE  run'[p][k] # run[p][k]
<1> USE LockAssumption DEF LockInv
<1>1. CASE \E q \in Pods, j \in Keys : Acquire(q, j)
  <2>1. PICK q \in Pods, j \in Keys : Acquire(q, j)
    BY <1>1
  <2>2. run[p][k].token # Free
    BY DEF TokensApart, Holds
  <2>3. QED
    BY <2>1, <2>2 DEF Acquire, CanSet, LockTypeOK
<1>2. CASE \E q \in Pods, j \in Keys : WorkEnds(q, j)
  BY <1>2 DEF WorkEnds
<1>3. CASE \E q \in Pods, j \in Keys : Release(q, j)
  <2>1. PICK q \in Pods, j \in Keys : Release(q, j)
    BY <1>3
  <2>2. j = k /\ run[q][k].token = lock[k] /\ run[q][k].step = "releasing"
    BY <2>1 DEF Release, Releases, LockTypeOK
  <2>3. p = q
    BY <2>2 DEF TokensApart, Holds
  <2>4. QED
    BY <2>2, <2>3 DEF Holds
<1>4. CASE \E j \in Keys : Expire(j)
  <2>1. PICK j \in Keys : Expire(j)
    BY <1>4
  <2>2. j = k
    BY <2>1 DEF Expire, LockTypeOK
  <2>3. run'[p][k].ttl = "passed"
    BY <2>1, <2>2 DEF Expire, LockTypeOK
  <2>4. QED
    BY <2>3 DEF Holds
<1>5. CASE \E q \in Pods : PodDies(q)
  BY <1>5 DEF PodDies
<1>6. CASE UNCHANGED lockVars
  BY <1>6 DEF lockVars
<1>7. QED
  BY <1>1, <1>2, <1>3, <1>4, <1>5, <1>6 DEF LockNext

-----------------------------------------------------------------------------

\* What the scheduler does to the lock is what the lock allows: every step of the
\* scheduler and of getToken is a step of DistributedLock or leaves it alone.
THEOREM SchedulerImplementsLock == Spec => LockSpec
<1>1. Init => LockInit
  BY DEF Init
<1>2. [Next]_vars => [LockNext]_lockVars
  <2> SUFFICES ASSUME [Next]_vars PROVE [LockNext]_lockVars
    OBVIOUS
  <2>1. CASE \E p \in Pods, k \in Keys : Tick(p, k)
    BY <2>1 DEF Tick, LockNext
  <2>2. CASE \E p \in Pods : CleanupTokens(p) \/ Restart(p)
    BY <2>2, SchedulerAssumption DEF CleanupTokens, Restart, LockNext
  <2>3. CASE LockStep
    BY <2>3 DEF LockStep, LockNext
  <2>4. CASE \E c \in Calls, p \in Pods : Lookup(c, p)
    BY <2>4 DEF Lookup, TokenOnly
  <2>5. CASE \E c \in Calls : TokenStep(c)
    BY <2>5 DEF TokenStep, Decrypt, AuthFails, NoTokenInAnswer, AuthSucceeds, Store, Return, TokenOnly
  <2>6. CASE TokenAges
    BY <2>6 DEF TokenAges, TokenOnly
  <2>7. CASE UNCHANGED vars
    BY <2>7 DEF vars
  <2>8. QED
    BY <2>1, <2>2, <2>3, <2>4, <2>5, <2>6, <2>7 DEF Next
<1>3. QED
  BY <1>1, <1>2, PTL DEF Spec, LockSpec

\* The invariant of the lock alone.
THEOREM LockInvariant == LockSpec => []LockInv
<1>1. QED
  BY LockInitInv, LockNextInv, PTL DEF LockSpec

\* Two pods never work on a job at once unless the body of one outlived its TTL.
THEOREM WorkersExclusive == Spec => []Exclusive
<1>1. LockSpec => []Exclusive
  BY LockInvariant, LockInvExclusive, PTL
<1>2. QED
  BY <1>1, SchedulerImplementsLock, PTL

\* Nobody but its owner, its TTL or its owner's death takes the lock from a run.
THEOREM LockNeverEvicted == Spec => NeverEvicted
<1> DEFINE Kept == \A k \in Keys, p \in Pods :
       (Holds(p, k) /\ lock[k] = run[p][k].token /\ lock'[k] # lock[k]) =>
         run'[p][k] # run[p][k]
<1>1. LockInv /\ [LockNext]_lockVars => [Kept]_lockVars
  BY LockStepEvictsNobody
<1>2. LockSpec => [][Kept]_lockVars
  BY <1>1, LockInvariant, PTL DEF LockSpec
<1>3. LockSpec => NeverEvicted
  BY <1>2 DEF NeverEvicted
<1>4. QED
  BY <1>3, SchedulerImplementsLock, PTL

-----------------------------------------------------------------------------
(* The cache of DGII tokens *)

RowRecord == [id : Nat, age : Ages, key : PodKeys \cup {"plain"}]
CallRecord == [step : {"idle", "decrypt", "auth", "store", "served", "error"},
               pod : Pods \cup {Idle.pod}, row : RowRecord, failed : Nat]

\* Type invariant of the cache; a call that has started is of a pod.
TokenTypeOK ==
  /\ podKey \in [Pods -> PodKeys]
  /\ tokens \subseteq RowRecord
  /\ created \in Nat
  /\ call \in [Calls -> CallRecord]
  /\ \A c \in Calls : ~At(c, "idle") => call[c].pod \in Pods

\* The row a call goes on with had not expired when it was read.
ReadFresh == \A c \in Calls : At(c, "decrypt") => call[c].row.age = "fresh"

TokenInv == TokenTypeOK /\ ReadFresh /\ NeverServeUnusable

LEMMA IdleCall == Idle \in CallRecord /\ Idle.step = "idle" /\ Idle.row = NoRow /\ Idle.failed = 0
<1> DEFINE anyPod == CHOOSE p \in Pods : TRUE
<1>1. Idle = [step |-> "idle", pod |-> anyPod, row |-> NoRow, failed |-> 0]
  BY DEF Idle
<1>2. NoRow \in RowRecord
  BY DEF NoRow, RowRecord, Ages
<1> HIDE DEF anyPod
<1>3. QED
  BY <1>1, <1>2 DEF CallRecord

LEMMA TokenInitInv == Init => TokenInv
<1> SUFFICES ASSUME Init PROVE TokenInv
  OBVIOUS
<1>1. podKey \in [Pods -> PodKeys] /\ tokens \subseteq RowRecord /\ created \in Nat
  BY DEF Init, PodKeys, RowRecord, Ages
<1>2. call \in [Calls -> CallRecord] /\ \A c \in Calls : call[c].step = "idle"
  BY IdleCall DEF Init
<1>3. QED
  BY <1>1, <1>2 DEF TokenInv, TokenTypeOK, ReadFresh, NeverServeUnusable, At

\* One call moves, and the others stay: what has to be shown of the one that moves.
LEMMA OneCallMoves ==
  ASSUME TokenInv, NEW c \in Calls, call' \in [Calls -> CallRecord],
         \A d \in Calls \ {c} : call'[d] = call[d],
         podKey' = podKey, tokens' \subseteq RowRecord, created' \in Nat,
         call'[c].step # "idle" => call'[c].pod \in Pods,
         call'[c].step = "decrypt" => call'[c].row.age = "fresh",
         call'[c].step = "served" =>
           call'[c].row.key = podKey[call'[c].pod] /\ call'[c].row.age = "fresh"
  PROVE  TokenInv'
<1> USE DEF TokenInv
<1>1. TokenTypeOK'
  BY DEF TokenTypeOK, At
<1>2. ReadFresh'
  BY DEF ReadFresh, At
<1>3. NeverServeUnusable'
  BY DEF NeverServeUnusable, At
<1>4. QED
  BY <1>1, <1>2, <1>3

\* The cron jobs and the clock leave the calls of getToken alone.
LEMMA RowsOnlyInv ==
  ASSUME TokenInv, tokens' \subseteq RowRecord, UNCHANGED <<podKey, created, call>>
  PROVE  TokenInv'
BY DEF TokenInv, TokenTypeOK, ReadFresh, NeverServeUnusable, At

LEMMA RestartInv ==
  ASSUME TokenInv, NEW p \in Pods, Restart(p)
  PROVE  TokenInv'
<1> USE DEF TokenInv
<1>1. /\ podKey' \in [Pods -> PodKeys] /\ \A q \in Pods \ {p} : podKey'[q] = podKey[q]
      /\ UNCHANGED <<tokens, created>>
  BY DEF Restart, TokenTypeOK
<1>2. call' \in [Calls -> CallRecord]
  BY IdleCall DEF Restart, TokenTypeOK
<1>3. \A c \in Calls : call'[c].step # "idle" => call'[c] = call[c] /\ call[c].pod \in Pods \ {p}
  BY IdleCall DEF Restart, TokenTypeOK, At
<1>4. TokenTypeOK'
  BY <1>1, <1>2, <1>3 DEF TokenTypeOK, At
<1>5. ReadFresh' /\ NeverServeUnusable'
  BY <1>1, <1>3 DEF ReadFresh, NeverServeUnusable, At
<1>6. QED
  BY <1>4, <1>5

LEMMA LookupInv ==
  ASSUME TokenInv, NEW c \in Calls, NEW p \in Pods, Lookup(c, p)
  PROVE  TokenInv'
<1> USE DEF TokenInv
<1>1. UNCHANGED <<podKey, tokens, created>> /\ tokens \subseteq RowRecord /\ created \in Nat
  BY DEF Lookup, TokenOnly, TokenTypeOK
<1>2. CASE \E t \in Servable :
             call' = [call EXCEPT ![c] = [Idle EXCEPT !.step = "decrypt", !.pod = p, !.row = t]]
  <2>1. PICK t \in Servable :
          call' = [call EXCEPT ![c] = [Idle EXCEPT !.step = "decrypt", !.pod = p, !.row = t]]
    BY <1>2
  <2>2. t \in RowRecord /\ t.age = "fresh"
    BY <1>1 DEF Servable
  <2> DEFINE r == [Idle EXCEPT !.step = "decrypt", !.pod = p, !.row = t]
  <2>3. r \in CallRecord /\ r.step = "decrypt" /\ r.pod = p /\ r.row = t
    BY <2>2, IdleCall DEF CallRecord
  <2>4. call' = [call EXCEPT ![c] = r]
    BY <2>1
  <2> HIDE DEF r
  <2>5. call' \in [Calls -> CallRecord] /\ call'[c] = r /\ \A d \in Calls \ {c} : call'[d] = call[d]
    BY <2>3, <2>4 DEF TokenTypeOK
  <2>6. QED
    BY <1>1, <2>2, <2>3, <2>5, OneCallMoves
<1>3. CASE call' = [call EXCEPT ![c] = [Idle EXCEPT !.step = "auth", !.pod = p]]
  <2> DEFINE r == [Idle EXCEPT !.step = "auth", !.pod = p]
  <2>1. r \in CallRecord /\ r.step = "auth" /\ r.pod = p
    BY IdleCall DEF CallRecord
  <2>2. call' = [call EXCEPT ![c] = r]
    BY <1>3
  <2> HIDE DEF r
  <2>3. call' \in [Calls -> CallRecord] /\ call'[c] = r /\ \A d \in Calls \ {c} : call'[d] = call[d]
    BY <2>1, <2>2 DEF TokenTypeOK
  <2>4. QED
    BY <1>1, <2>1, <2>3, OneCallMoves
<1>4. QED
  BY <1>2, <1>3 DEF Lookup

\* Only a row that the key of the pod opens is served from the cache.
LEMMA DecryptInv ==
  ASSUME TokenInv, NEW c \in Calls, Decrypt(c)
  PROVE  TokenInv'
<1> DEFINE step == IF Readable(c) THEN "served" ELSE "auth"
           r == [call[c] EXCEPT !.step = step]
<1> USE DEF TokenInv
<1>1. /\ call' = [call EXCEPT ![c] = r] /\ podKey' = podKey /\ created' = created
      /\ tokens' \subseteq tokens
  BY DEF Decrypt, Goto, TokenOnly, TokenTypeOK
<1>2. /\ call[c] \in CallRecord /\ call[c].step = "decrypt" /\ call[c].pod \in Pods
      /\ call[c].row.age = "fresh"
  BY DEF Decrypt, At, TokenTypeOK, ReadFresh
<1>3. /\ r \in CallRecord /\ r.step = step /\ r.pod = call[c].pod /\ r.row = call[c].row
  BY <1>2 DEF CallRecord
<1>4. step = "served" => call[c].row.key = podKey[call[c].pod]
  BY DEF Readable
<1>5. step \in {"served", "auth"}
  OBVIOUS
<1> HIDE DEF step, r
<1>6. call' \in [Calls -> CallRecord] /\ call'[c] = r /\ \A d \in Calls \ {c} : call'[d] = call[d]
  BY <1>1, <1>3 DEF TokenTypeOK
<1>7. QED
  BY <1>1, <1>2, <1>3, <1>4, <1>5, <1>6, OneCallMoves DEF TokenTypeOK

\* An authentication moves its call to a step that serves nothing.
LEMMA AuthMoves ==
  ASSUME TokenInv, NEW c \in Calls, NEW step \in {"auth", "error", "store"}, NEW n \in Nat,
         At(c, "auth"), call' = [call EXCEPT ![c] = [call[c] EXCEPT !.step = step, !.failed = n]],
         podKey' = podKey, created' = created, tokens' \subseteq tokens
  PROVE  TokenInv'
<1> DEFINE r == [call[c] EXCEPT !.step = step, !.failed = n]
<1>1. call[c] \in CallRecord /\ call[c].pod \in Pods /\ tokens \subseteq RowRecord /\ created \in Nat
  BY DEF At, TokenInv, TokenTypeOK
<1>2. r \in CallRecord /\ r.step = step /\ r.pod = call[c].pod
  BY <1>1 DEF CallRecord
<1> HIDE DEF r
<1>3. call' \in [Calls -> CallRecord] /\ call'[c] = r /\ \A d \in Calls \ {c} : call'[d] = call[d]
  BY <1>2 DEF TokenInv, TokenTypeOK, r
<1>4. QED
  BY <1>1, <1>2, <1>3, OneCallMoves

LEMMA AuthInv ==
  ASSUME TokenInv, NEW c \in Calls, AuthFails(c) \/ NoTokenInAnswer(c) \/ AuthSucceeds(c)
  PROVE  TokenInv'
<1> USE DEF TokenInv
<1>1. podKey' = podKey /\ created' = created /\ tokens' \subseteq tokens /\ At(c, "auth")
  BY DEF AuthFails, NoTokenInAnswer, AuthSucceeds, TokenOnly
<1>2. call \in [Calls -> CallRecord] /\ call[c].step = "auth"
  BY <1>1 DEF At, TokenTypeOK
<1>3. CASE AuthFails(c) /\ AuthGivesUp(c)
  <2>1. call' = [call EXCEPT ![c] = [call[c] EXCEPT !.step = "error", !.failed = 0]]
    BY <1>3 DEF AuthFails
  <2>2. QED
    BY <1>1, <2>1, AuthMoves
<1>4. CASE AuthFails(c) /\ ~AuthGivesUp(c)
  <2> DEFINE n == (call[c].failed + 1) % MaxAuth
  <2>1. call' = [call EXCEPT ![c] = [call[c] EXCEPT !.failed = n]]
    BY <1>4 DEF AuthFails
  <2>2. n \in Nat
    BY <1>2, SchedulerAssumption DEF CallRecord
  <2> HIDE DEF n
  <2>3. [call[c] EXCEPT !.failed = n] = [call[c] EXCEPT !.step = "auth", !.failed = n]
    BY <1>2 DEF CallRecord
  <2>4. QED
    BY <1>1, <2>1, <2>2, <2>3, AuthMoves
<1>5. CASE NoTokenInAnswer(c)
  <2>1. call' = [call EXCEPT ![c] = [call[c] EXCEPT !.step = "error", !.failed = 0]]
    BY <1>5, <1>2 DEF NoTokenInAnswer
  <2>2. QED
    BY <1>1, <2>1, AuthMoves
<1>6. CASE AuthSucceeds(c)
  <2>1. call' = [call EXCEPT ![c] = [call[c] EXCEPT !.step = "store", !.failed = 0]]
    BY <1>6, <1>2 DEF AuthSucceeds
  <2>2. QED
    BY <1>1, <2>1, AuthMoves
<1>7. QED
  BY <1>3, <1>4, <1>5, <1>6

\* The row a call writes has the key of its pod.
LEMMA StoreInv ==
  ASSUME TokenInv, NEW c \in Calls, Store(c)
  PROVE  TokenInv'
<1> DEFINE t == [id |-> created + 1, age |-> "fresh", key |-> podKey[call[c].pod]]
<1> USE DEF TokenInv
<1>1. call[c] \in CallRecord /\ call[c].pod \in Pods
  BY DEF Store, At, TokenTypeOK
<1>2. t \in RowRecord /\ t.age = "fresh" /\ t.key = podKey[call[c].pod]
  BY <1>1 DEF TokenTypeOK, RowRecord, Ages
<1>3. /\ podKey' = podKey /\ created' = created + 1 /\ tokens' = tokens \cup {t}
      /\ call' = [call EXCEPT ![c].step = "served", ![c].row = t]
  BY DEF Store, StoredUnder, TokenOnly
<1> HIDE DEF t
<1>4. /\ call' \in [Calls -> CallRecord] /\ \A d \in Calls \ {c} : call'[d] = call[d]
      /\ call'[c].pod = call[c].pod /\ call'[c].row = t
  BY <1>1, <1>2, <1>3 DEF TokenTypeOK, CallRecord
<1>5. tokens' \subseteq RowRecord /\ created' \in Nat
  BY <1>2, <1>3 DEF TokenTypeOK
<1>6. call'[c].step = "served"
  BY <1>1, <1>3 DEF TokenTypeOK, CallRecord
<1>7. QED
  BY <1>1, <1>2, <1>3, <1>4, <1>5, <1>6, OneCallMoves

LEMMA ReturnInv ==
  ASSUME TokenInv, NEW c \in Calls, Return(c)
  PROVE  TokenInv'
<1>1. /\ call' = [call EXCEPT ![c] = Idle]
      /\ UNCHANGED <<podKey, tokens, created>>
  BY DEF Return, TokenOnly
<1>2. tokens \subseteq RowRecord /\ created \in Nat /\ call \in [Calls -> CallRecord]
  BY DEF TokenInv, TokenTypeOK
<1>3. /\ call' \in [Calls -> CallRecord] /\ call'[c].step = "idle"
      /\ \A d \in Calls \ {c} : call'[d] = call[d]
  BY <1>1, <1>2, IdleCall
<1>4. QED
  BY <1>1, <1>2, <1>3, OneCallMoves

LEMMA TokenNextInv == TokenInv /\ [Next]_vars => TokenInv'
<1> SUFFICES ASSUME TokenInv, [Next]_vars PROVE TokenInv'
  OBVIOUS
<1>1. CASE \E p \in Pods, k \in Keys : Tick(p, k)
  BY <1>1, RowsOnlyInv DEF Tick, tokenVars, TokenInv, TokenTypeOK
<1>2. CASE \E p \in Pods : CleanupTokens(p)
  BY <1>2, RowsOnlyInv DEF CleanupTokens, TokenInv, TokenTypeOK
<1>3. CASE \E p \in Pods : Restart(p)
  BY <1>3, RestartInv
<1>4. CASE LockStep
  BY <1>4, RowsOnlyInv DEF LockStep, tokenVars, TokenInv, TokenTypeOK
<1>5. CASE \E c \in Calls, p \in Pods : Lookup(c, p)
  BY <1>5, LookupInv
<1>6. CASE \E c \in Calls : TokenStep(c)
  BY <1>6, DecryptInv, AuthInv, StoreInv, ReturnInv DEF TokenStep
<1>7. CASE TokenAges
  <2>1. PICK t \in tokens : tokens' = (tokens \ {t}) \cup {[t EXCEPT !.age = "stale"]}
    BY <1>7 DEF TokenAges
  <2>2. tokens' \subseteq RowRecord
    BY <2>1 DEF TokenInv, TokenTypeOK, RowRecord, Ages
  <2>3. QED
    BY <1>7, <2>2, RowsOnlyInv DEF TokenAges, TokenOnly
<1>8. CASE UNCHANGED vars
  BY <1>8, RowsOnlyInv DEF vars, tokenVars, TokenInv, TokenTypeOK
<1>9. QED
  BY <1>1, <1>2, <1>3, <1>4, <1>5, <1>6, <1>7, <1>8 DEF Next

\* No call of getToken returns a token its pod cannot use or one that had expired
\* when it was read, whatever the other pods discard, clean and write.
THEOREM TokensServedAreUsable == Spec => []NeverServeUnusable
<1>1. TokenInv => NeverServeUnusable
  BY DEF TokenInv
<1>2. QED
  BY <1>1, TokenInitInv, TokenNextInv, PTL DEF Spec
=============================================================================
