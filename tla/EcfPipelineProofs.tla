-------------------------- MODULE EcfPipelineProofs --------------------------
(* Proofs about EcfPipeline, for every value of its constants. *)
EXTENDS EcfPipeline, SequenceTheorems, TLAPS

-----------------------------------------------------------------------------
(* The inductive invariant of the types and of the verdicts *)

\* DGII gave verdict s on some submission.
Reported(s) == \E i \in DOMAIN received : received[i].verdict = s

\* What a process holds is real: its trackIds are of submissions, it queries
\* only with one, and a favourable answer it carries was DGII's.
Sound(x) ==
  /\ x \in Process
  /\ x.seen.trackId <= Len(received) /\ x.answer.trackId <= Len(received)
  /\ x.step = "query" => x.seen.trackId # NoTrack
  /\ x.answer.status \in {"ACCEPTED", "CONDITIONAL"} => Reported(x.answer.status)

\* The attempts are used up only when the job has ended, and its worker is busy
\* just while the job is active.
JobCounted ==
  /\ ecfJob \in {"none", "lost", "waiting", "active"} => attemptsMade < MaxAttempts
  /\ ~At(EcfWorker, "idle") => ecfJob = "active"

Pipeline ==
  /\ TypeOK
  /\ trackId <= Len(received)
  /\ \A p \in Actors : Sound(proc[p])
  /\ JobCounted
  /\ AcceptedByDgii

\* DGII forgets no submission and takes no verdict back.
Grows ==
  /\ Len(received) <= Len(received')
  /\ \A s \in {"ACCEPTED", "CONDITIONAL"} : Reported(s) => Reported(s)'

\* A step that leaves DGII alone.
LEMMA SameGrows == TypeOK /\ UNCHANGED received => Grows
BY DEF Grows, Reported, TypeOK

\* An idle process holds nothing.
LEMMA IdleSound == TypeOK => Sound(Idle)
BY PipelineAssumption, LenProperties DEF Sound, Idle, Process, Steps, Statuses, NoTrack, TypeOK

\* A process that goes on to a step keeps what it holds, or forgets it, and the
\* others stay.
LEMMA GotoSound ==
  ASSUME TypeOK, \A q \in Actors : Sound(proc[q]), Grows,
         NEW p \in Actors, NEW step \in Steps, step # "query", Goto(p, step)
  PROVE  /\ proc' \in [Actors -> Process]
         /\ \A q \in Actors : Sound(proc[q])'
         /\ proc'[p].step = step
         /\ \A q \in Actors \ {p} : proc'[q] = proc[q]
<1> DEFINE new == IF step = "idle" THEN Idle ELSE [proc[p] EXCEPT !.step = step]
<1>1. proc' = [proc EXCEPT ![p] = new]
  BY DEF Goto
<1>2. Sound(new) /\ new.step = step
  <2>1. CASE step = "idle"
    BY <2>1, IdleSound DEF Idle
  <2>2. CASE step # "idle"
    BY <2>2 DEF Sound, Process
  <2> QED BY <2>1, <2>2
<1>3. \A x \in Process : Sound(x) => (Sound(x))'
  BY DEF Grows, Sound, Process
<1> QED BY <1>1, <1>2, <1>3 DEF Sound, TypeOK

\* A process that reads the row holds what the row holds.
LEMMA ReadSound ==
  ASSUME Pipeline, UNCHANGED received, NEW p \in Actors, NEW step \in Steps,
         step = "query" => trackId # NoTrack, Read(p, step)
  PROVE  /\ proc' \in [Actors -> Process]
         /\ \A q \in Actors : Sound(proc[q])'
         /\ proc'[p].step = step
         /\ \A q \in Actors \ {p} : proc'[q] = proc[q]
<1> DEFINE new == [proc[p] EXCEPT !.step = step,
                     !.seen = [status |-> status, trackId |-> trackId, rfce |-> hasRfce]]
<1>1. proc' = [proc EXCEPT ![p] = new]
  BY DEF Read
<1>2. Sound(new) /\ new.step = step
  BY DEF Pipeline, TypeOK, Sound, Process, NoTrack
<1>3. \A x : Sound(x) => (Sound(x))'
  BY DEF Sound, Reported
<1> QED BY <1>1, <1>2, <1>3 DEF Sound, TypeOK, Pipeline

\* A process that is answered holds the answer.
LEMMA AnsweredSound ==
  ASSUME Pipeline, Grows, NEW p \in Actors, NEW s \in Statuses, NEW track \in 0 .. MaxSubmits,
         track <= Len(received'), s \in {"ACCEPTED", "CONDITIONAL"} => Reported(s)',
         Answered(p, s, track)
  PROVE  /\ proc' \in [Actors -> Process]
         /\ \A q \in Actors : Sound(proc[q])'
         /\ proc'[p].step = "update"
         /\ \A q \in Actors \ {p} : proc'[q] = proc[q]
<1> DEFINE new == [proc[p] EXCEPT !.step = "update", !.answer = [status |-> s, trackId |-> track]]
<1>1. proc' = [proc EXCEPT ![p] = new]
  BY DEF Answered
<1>2. \A x \in Process : Sound(x) => (Sound(x))'
  BY DEF Grows, Sound, Process, Pipeline, TypeOK
<1>3. ASSUME NEW x, x = new PROVE x.step = "update" /\ (Sound(x))'
  <2>1. /\ proc[p] \in Process /\ proc[p].seen.trackId <= Len(received)
        /\ "update" \in Steps
    BY DEF Pipeline, Sound, Steps
  <2>2. /\ x \in Process /\ x.step = "update" /\ x.seen = proc[p].seen
        /\ x.answer = [status |-> s, trackId |-> track]
    BY <1>3, <2>1 DEF Process
  <2>3. proc[p].seen.trackId <= Len(received')
    BY <2>1 DEF Grows, Process, Pipeline, TypeOK
  <2> QED BY <2>2, <2>3 DEF Sound
<1> QED BY <1>1, <1>2, <1>3 DEF Sound, TypeOK, Pipeline

\* What the actions that only move a process establish.
Moved(p) ==
  /\ proc' \in [Actors -> Process]
  /\ \A q \in Actors : Sound(proc[q])'
  /\ \A q \in Actors \ {p} : proc'[q] = proc[q]

\* A process that goes on to a step moves.
LEMMA GotoMoves ==
  ASSUME Pipeline, Grows, NEW p \in Actors, NEW step \in Steps, step # "query", Goto(p, step)
  PROVE  Moved(p) /\ proc'[p].step = step
BY GotoSound DEF Moved, Pipeline

\* A process that leaves the row, the jobs and DGII alone keeps the invariant.
LEMMA MovedKeeps ==
  ASSUME Pipeline, NEW p \in Actors, Moved(p), p = EcfWorker => ~At(p, "idle"),
         UNCHANGED <<row, referenced, jobs, notified, crashed>>, usageReverted' \in BOOLEAN,
         refunds' \in Nat, received' \in Seq(Submission), Len(received') <= MaxSubmits, Grows
  PROVE  Pipeline'
<1> USE DEF row, jobs
<1>1. TypeOK'
  BY DEF Pipeline, TypeOK, Moved
<1>2. trackId' <= Len(received')
  BY DEF Pipeline, Grows, TypeOK
<1>3. JobCounted'
  BY DEF Pipeline, JobCounted, Moved, At, Actors
<1>4. AcceptedByDgii'
  BY DEF Pipeline, AcceptedByDgii, Grows, Reported
<1> QED BY <1>1, <1>2, <1>3, <1>4 DEF Pipeline, Moved

\* A call to DGII that throws.
LEMMA FailedMoves ==
  ASSUME Pipeline, Grows, NEW p \in Actors, Failed(p)
  PROVE  Moved(p)
<1> DEFINE step == CASE p = EcfWorker -> "catchNetwork" [] p \in Queries -> "idle"
                     [] OTHER -> "catch"
<1>1. step \in Steps /\ step # "query"
  BY DEF Steps
<1> QED BY <1>1, GotoMoves DEF Failed

\* DGII takes a submission: what it answers is the verdict it recorded.
LEMMA SubmitReceivedKeeps ==
  ASSUME Pipeline, NEW p \in Actors, SubmitReceived(p)
  PROVE  Pipeline'
<1> DEFINE n == Len(received) + 1
<1>1. PICK verdict \in Verdicts \cup {"PROCESSING"} :
        /\ received' = Append(received, [channel |-> Channel(p), verdict |-> verdict])
        /\ Channel(p) = "ECF" => verdict = "PROCESSING"
        /\ \/ \E a \in Answers(Channel(p), verdict, n) : Answered(p, a.status, a.trackId)
           \/ "lost" \in Faults /\ Failed(p)
  BY DEF SubmitReceived, Channel
<1>2. [channel |-> Channel(p), verdict |-> verdict] \in Submission
  BY DEF Submission, Channel
<1>3. /\ received' \in Seq(Submission) /\ Len(received') = n
      /\ \A i \in 1 .. Len(received) : received'[i] = received[i]
      /\ received'[n] = [channel |-> Channel(p), verdict |-> verdict]
  BY <1>1, <1>2, AppendProperties DEF Pipeline, TypeOK
<1>4. /\ Len(received) \in Nat /\ DOMAIN received = 1 .. Len(received)
      /\ DOMAIN received' = 1 .. n
  <2>1. received \in Seq(Submission)
    BY DEF Pipeline, TypeOK
  <2> QED BY <1>3, <2>1, LenProperties
<1>5. Grows
  BY <1>3, <1>4 DEF Grows, Reported
<1>6. Len(received') <= MaxSubmits /\ n \in 1 .. MaxSubmits
  BY <1>3, <1>4, PipelineAssumption DEF SubmitReceived
<1>7. CASE \E a \in Answers(Channel(p), verdict, n) : Answered(p, a.status, a.trackId)
  <2>1. PICK a \in Answers(Channel(p), verdict, n) : Answered(p, a.status, a.trackId)
    BY <1>7
  <2>2. a.status \in {verdict, "SENT", "PROCESSING"} /\ a.trackId \in {n, NoTrack}
    <3>1. CASE Channel(p) = "FC"
      BY <2>1, <3>1 DEF Answers
    <3>2. CASE Channel(p) # "FC"
      BY <2>1, <3>2 DEF Answers
    <3> QED BY <3>1, <3>2
  <2>3. /\ a.status \in Statuses /\ a.trackId \in 0 .. MaxSubmits /\ a.trackId <= n
        /\ a.status \in {"ACCEPTED", "CONDITIONAL"} => a.status = verdict
    BY <1>4, <1>6, <2>2, PipelineAssumption DEF Statuses, Verdicts, NoTrack
  <2>4. Reported(verdict)'
    BY <1>3, <1>4, <1>6 DEF Reported
  <2>5. Moved(p)
    BY <1>3, <1>5, <2>1, <2>3, <2>4, AnsweredSound DEF Moved
  <2> QED BY <1>3, <1>5, <1>6, <2>5, MovedKeeps DEF SubmitReceived, quota, At, Pipeline, TypeOK
<1>8. CASE Failed(p)
  BY <1>3, <1>5, <1>6, <1>8, FailedMoves, MovedKeeps DEF SubmitReceived, quota, At, Pipeline, TypeOK
<1> QED BY <1>1, <1>7, <1>8

\* The conversations with DGII and the refunds.
LEMMA SharedKeeps ==
  ASSUME Pipeline, NEW p \in Actors, SharedStep(p)
  PROVE  Pipeline'
<1> USE DEF quota, dgii, At
<1>1. /\ TypeOK /\ received \in Seq(Submission) /\ Len(received) <= MaxSubmits
      /\ refunds \in Nat /\ usageReverted \in BOOLEAN
  BY DEF Pipeline, TypeOK
<1>2. UNCHANGED received => Grows
  BY <1>1, SameGrows
<1>3. CASE SubmitReceived(p)
  BY <1>3, SubmitReceivedKeeps
<1>4. CASE SubmitRefused(p)
  <2> DEFINE s == IF Channel(p) = "FC" THEN "SENT" ELSE "REJECTED"
  <2>1. s \in Statuses /\ s \notin {"ACCEPTED", "CONDITIONAL"} /\ NoTrack \in 0 .. MaxSubmits
    BY PipelineAssumption DEF Statuses, Verdicts, NoTrack
  <2>2. NoTrack <= Len(received') /\ Grows
    BY <1>1, <1>2, <1>4, LenProperties DEF SubmitRefused, NoTrack
  <2>3. Moved(p)
    BY <1>4, <2>1, <2>2, AnsweredSound DEF SubmitRefused, Moved
  <2> QED BY <1>1, <1>4, <2>2, <2>3, MovedKeeps DEF SubmitRefused
<1>5. CASE DgiiUnreachable(p)
  <2>1. Grows /\ Moved(p)
    BY <1>2, <1>5, FailedMoves DEF DgiiUnreachable
  <2> QED BY <1>1, <1>5, <2>1, MovedKeeps DEF DgiiUnreachable
<1>6. CASE Query(p)
  <2>1. /\ Seen(p).trackId \in 1 .. Len(received) /\ Seen(p).trackId \in 0 .. MaxSubmits
        /\ DOMAIN received = 1 .. Len(received)
    BY <1>1, <1>6, LenProperties DEF Query, Pipeline, Sound, Process, Seen, NoTrack
  <2>2. received[Seen(p).trackId] \in Submission
    BY <1>1, <2>1, ElementOfSeq
  <2>3. PICK s \in {received[Seen(p).trackId].verdict, "SENT"} : Answered(p, s, Seen(p).trackId)
    BY <1>6 DEF Query
  <2>4. s \in Statuses /\ (s \in {"ACCEPTED", "CONDITIONAL"} => Reported(s))
    BY <2>1, <2>2, <2>3 DEF Submission, Statuses, Verdicts, Reported
  <2>5. UNCHANGED received /\ Grows
    BY <1>2, <1>6 DEF Query
  <2>6. (s \in {"ACCEPTED", "CONDITIONAL"} => Reported(s)') /\ Seen(p).trackId <= Len(received')
    BY <2>1, <2>4, <2>5 DEF Grows
  <2>7. Moved(p)
    BY <2>1, <2>3, <2>4, <2>5, <2>6, AnsweredSound DEF Moved
  <2> QED BY <1>1, <1>6, <2>5, <2>7, MovedKeeps DEF Query
<1>7. CASE Refund(p)
  <2> DEFINE step == IF ClaimWon THEN "decrement" ELSE AfterRefund(p)
  <2>1. step \in Steps /\ step # "query"
    BY DEF AfterRefund, Steps
  <2>2. Grows /\ Moved(p)
    BY <1>2, <1>7, <2>1, GotoMoves DEF Refund
  <2> QED BY <1>1, <1>7, <2>2, MovedKeeps DEF Refund
<1>8. CASE Decrement(p)
  <2>1. AfterRefund(p) \in Steps /\ AfterRefund(p) # "query"
    BY DEF AfterRefund, Steps
  <2>2. Grows /\ Moved(p)
    BY <1>2, <1>8, <2>1, GotoMoves DEF Decrement
  <2> QED BY <1>1, <1>8, <2>2, MovedKeeps DEF Decrement
<1> QED BY <1>3, <1>4, <1>5, <1>6, <1>7, <1>8 DEF SharedStep

JobsTyped ==
  /\ ecfJob \in {"none", "lost", "waiting", "active", "completed", "exhausted", "failed"}
  /\ attemptsMade \in 0 .. MaxAttempts
  /\ pollJob \in {"none", "delayed", "active", "completed", "failed"}
  /\ pollAttempt \in Nat

\* What a step that leaves DGII alone does to the row and the webhooks.
RowKept ==
  /\ status' \in Statuses
  /\ status' = status \/ status' \notin {"ACCEPTED", "CONDITIONAL"} \/ Reported(status')
  /\ trackId' \in 0 .. MaxSubmits /\ trackId' <= Len(received) /\ hasRfce' \in BOOLEAN
  /\ usageReverted' \in BOOLEAN /\ refunds' \in Nat
  /\ notified' \subseteq Events
  /\ "accepted" \in notified' => "accepted" \in notified \/ Reported("ACCEPTED")
  /\ crashed' \in BOOLEAN
  /\ UNCHANGED <<received, referenced>>

\* Who writes the row or the jobs keeps the invariant.
LEMMA WriteKeeps ==
  ASSUME Pipeline, NEW p \in Actors, Moved(p), RowKept, JobsTyped', JobCounted'
  PROVE  Pipeline'
<1>1. TypeOK'
  BY DEF Pipeline, TypeOK, Moved, RowKept, JobsTyped
<1>2. trackId' <= Len(received')
  BY DEF RowKept
<1>3. AcceptedByDgii'
  BY DEF Pipeline, AcceptedByDgii, Reported, RowKept
<1> QED BY <1>1, <1>2, <1>3 DEF Pipeline, Moved

\* A step that is not of the ecf-processing job.
LEMMA OtherKeeps ==
  ASSUME Pipeline, NEW p \in Actors \ {EcfWorker}, Moved(p), RowKept,
         UNCHANGED <<ecfJob, attemptsMade>>, pollAttempt' \in Nat,
         pollJob' \in {"none", "delayed", "active", "completed", "failed"}
  PROVE  Pipeline'
<1>1. JobsTyped'
  BY DEF Pipeline, TypeOK, JobsTyped
<1>2. JobCounted'
  BY DEF Pipeline, JobCounted, At, Moved, Actors
<1> QED BY <1>1, <1>2, WriteKeeps

\* Nobody moves.
LEMMA NobodyMoves ==
  ASSUME Pipeline, UNCHANGED <<proc, received>>, NEW p \in Actors
  PROVE  Moved(p)
BY DEF Pipeline, TypeOK, Moved, Sound, Reported

\* What the types say of the row and the jobs before a step.
LEMMA Typed ==
  ASSUME Pipeline
  PROVE  /\ status \in Statuses /\ trackId \in 0 .. MaxSubmits /\ trackId <= Len(received)
         /\ hasRfce \in BOOLEAN /\ usageReverted \in BOOLEAN /\ refunds \in Nat
         /\ notified \subseteq Events /\ crashed \in BOOLEAN /\ JobsTyped
         /\ received \in Seq(Submission) /\ referenced \in BOOLEAN
         /\ UNCHANGED received => Grows
BY SameGrows DEF Pipeline, TypeOK, JobsTyped

\* The ecf-processing job.
LEMMA EcfKeeps ==
  ASSUME Pipeline, EcfStep
  PROVE  Pipeline'
<1> DEFINE w == EcfWorker
<1> USE Typed DEF row, quota, dgii, jobs
<1>1. w \in Actors
  BY DEF Actors
<1>2. EnqueuePoll => /\ pollJob' \in {"none", "delayed", "active", "completed", "failed"}
                     /\ pollAttempt' \in Nat
  BY DEF EnqueuePoll, JobsTyped
<1>3. ASSUME EcfAttemptFailed, At(w, "idle")', ecfJob \in {"waiting", "active"}
      PROVE  /\ attemptsMade' \in 0 .. MaxAttempts /\ ecfJob' \in {"waiting", "exhausted"}
             /\ JobCounted'
  <2>1. attemptsMade < MaxAttempts
    BY <1>3 DEF Pipeline, JobCounted
  <2> QED BY <1>3, <2>1, PipelineAssumption DEF EcfAttemptFailed, JobsTyped, JobCounted
<1>4. ASSUME At(w, "idle")', ecfJob' = "completed"
      PROVE  JobCounted'
  BY <1>4 DEF JobCounted, At
<1>5. ASSUME ~At(w, "idle")
      PROVE  ecfJob = "active" /\ attemptsMade < MaxAttempts
  BY <1>5 DEF Pipeline, JobCounted
<1>6. CASE EcfSkip
  <2>1. Moved(w) /\ At(w, "idle")'
    BY <1>1, <1>6, NobodyMoves DEF EcfSkip, At
  <2> QED BY <1>1, <1>4, <1>6, <2>1, WriteKeeps DEF EcfSkip, RowKept, JobsTyped
<1>7. CASE EcfReconcile
  <2>1. Moved(w) /\ At(w, "idle")'
    BY <1>1, <1>7, NobodyMoves DEF EcfReconcile, At
  <2> QED BY <1>1, <1>2, <1>4, <1>7, <2>1, WriteKeeps DEF EcfReconcile, RowKept, JobsTyped
<1>8. CASE EcfWaitReference
  <2>1. Moved(w) /\ At(w, "idle")'
    BY <1>1, <1>8, NobodyMoves DEF EcfWaitReference, At
  <2> QED BY <1>1, <1>3, <1>8, <2>1, WriteKeeps DEF EcfWaitReference, RowKept, JobsTyped
<1>9. CASE EcfStart
  <2>1. Moved(w)
    BY <1>1, <1>9, GotoMoves DEF EcfStart, Steps
  <2>2. JobCounted'
    BY <1>9 DEF EcfStart, Pipeline, JobCounted
  <2> QED BY <1>1, <1>9, <2>1, <2>2, WriteKeeps DEF EcfStart, RowKept, JobsTyped
<1>10. CASE EcfSign
  <2>1. Moved(w)
    BY <1>1, <1>10, GotoMoves DEF EcfSign, Steps
  <2>2. JobCounted'
    BY <1>5, <1>10 DEF EcfSign, JobCounted, At
  <2>3. RowKept
    BY <1>10 DEF EcfSign, RowKept, Statuses
  <2> QED BY <1>1, <1>10, <2>1, <2>2, <2>3, WriteKeeps DEF EcfSign, JobsTyped
<1>11. CASE EcfXsdInvalid
  <2>1. Moved(w) /\ At(w, "idle")'
    BY <1>1, <1>11, GotoMoves DEF EcfXsdInvalid, Steps, At
  <2>2. RowKept
    BY <1>11 DEF EcfXsdInvalid, RowKept, Statuses
  <2> QED BY <1>1, <1>4, <1>11, <2>1, <2>2, WriteKeeps DEF EcfXsdInvalid, JobsTyped
<1>12. CASE EcfPrepare
  <2>1. Moved(w)
    BY <1>1, <1>12, GotoMoves DEF EcfPrepare, Steps
  <2>2. JobCounted'
    BY <1>5, <1>12 DEF EcfPrepare, JobCounted, At
  <2>3. RowKept
    BY <1>12, PipelineAssumption DEF EcfPrepare, RowKept
  <2> QED BY <1>1, <1>12, <2>1, <2>2, <2>3, WriteKeeps DEF EcfPrepare, JobsTyped
<1>13. CASE EcfUpdate
  <2>1. Moved(w)
    BY <1>1, <1>13, GotoMoves DEF EcfUpdate, Steps
  <2>2. JobCounted'
    BY <1>5, <1>13 DEF EcfUpdate, JobCounted, At
  <2>3. Sound(proc[w])
    BY <1>1 DEF Pipeline
  <2>4. RowKept
    BY <1>13, <2>3 DEF EcfUpdate, RowKept, Sound, Process, Answer
  <2> QED BY <1>1, <1>13, <2>1, <2>2, <2>4, WriteKeeps DEF EcfUpdate, JobsTyped
<1>14. CASE EcfUpdateFails
  <2>1. Moved(w)
    BY <1>1, <1>14, GotoMoves DEF EcfUpdateFails, Steps
  <2> QED BY <1>1, <1>14, <2>1, MovedKeeps DEF EcfUpdateFails, At, Pipeline, TypeOK
<1>15. CASE EcfNotify
  <2>1. Moved(w) /\ At(w, "idle")'
    BY <1>1, <1>15, GotoMoves DEF EcfNotify, Steps, At
  <2>2. Sound(proc[w])
    BY <1>1 DEF Pipeline
  <2>3. RowKept
    BY <1>15, <2>2 DEF EcfNotify, RowKept, Sound, Answer, Events
  <2>4. JobsTyped'
    BY <1>2, <1>15 DEF EcfNotify, JobsTyped
  <2> QED BY <1>1, <1>4, <1>15, <2>1, <2>3, <2>4, WriteKeeps DEF EcfNotify
<1>16. CASE EcfNotifyFails
  <2>1. Moved(w)
    BY <1>1, <1>16, GotoMoves DEF EcfNotifyFails, Steps
  <2> QED BY <1>1, <1>16, <2>1, MovedKeeps DEF EcfNotifyFails, At, Pipeline, TypeOK
<1>17. CASE EcfCatchNetwork
  <2>1. Moved(w) /\ At(w, "idle")'
    BY <1>1, <1>17, GotoMoves DEF EcfCatchNetwork, Steps, At
  <2>2. ecfJob = "active"
    BY <1>5, <1>17 DEF EcfCatchNetwork, At
  <2>3. RowKept
    BY <1>17 DEF EcfCatchNetwork, RowKept, Statuses
  <2> QED BY <1>1, <1>3, <1>17, <2>1, <2>2, <2>3, WriteKeeps DEF EcfCatchNetwork, JobsTyped
<1>18. CASE EcfCatchError
  <2>1. Moved(w) /\ At(w, "idle")'
    BY <1>1, <1>18, GotoMoves DEF EcfCatchError, Steps, At
  <2>2. RowKept
    BY <1>18 DEF EcfCatchError, RowKept, Statuses
  <2> QED BY <1>1, <1>4, <1>18, <2>1, <2>2, WriteKeeps DEF EcfCatchError, JobsTyped
<1>19. CASE SharedStep(w)
  BY <1>1, <1>19, SharedKeeps
<1>20. CASE EcfOnFailed
  <2>1. Moved(w) /\ At(w, "idle")'
    BY <1>1, <1>5, <1>20, NobodyMoves DEF EcfOnFailed, At
  <2>2. RowKept
    BY <1>20 DEF EcfOnFailed, RowKept, Events
  <2>3. JobsTyped' /\ JobCounted'
    BY <1>20, <2>1 DEF EcfOnFailed, JobsTyped, JobCounted
  <2> QED BY <1>1, <2>1, <2>2, <2>3, WriteKeeps
<1> QED BY <1>6, <1>7, <1>8, <1>9, <1>10, <1>11, <1>12, <1>13, <1>14, <1>15, <1>16, <1>17,
           <1>18, <1>19, <1>20 DEF EcfStep

\* A step of another process that changes the row alone.
LEMMA RowOnly ==
  ASSUME Pipeline, NEW p \in Actors \ {EcfWorker}, Moved(p), RowKept, UNCHANGED jobs
  PROVE  Pipeline'
BY Typed, OtherKeeps DEF jobs, JobsTyped

\* The status-poll job.
LEMMA PollKeeps ==
  ASSUME Pipeline, PollStep
  PROVE  Pipeline'
<1> DEFINE w == PollWorker
<1> USE Typed DEF row, quota, dgii, jobs
<1>1. w \in Actors \ {EcfWorker}
  BY PipelineAssumption DEF Actors
<1>2. Sound(proc[w])
  BY <1>1 DEF Pipeline
<1>3. CASE PollLoad
  <2> DEFINE step == CASE trackId = NoTrack -> "recover"
                       [] trackId # NoTrack /\ pollAttempt > MaxPolls -> "timeout"
                       [] OTHER -> "query"
  <2>1. CASE UNCHANGED proc
    <3>1. Moved(w)
      BY <1>1, <1>3, <2>1, NobodyMoves DEF PollLoad
    <3> QED BY <1>1, <1>3, <3>1, OtherKeeps DEF PollLoad, RowKept, JobsTyped
  <2>2. CASE Read(w, step)
    <3>1. step \in Steps /\ (step = "query" => trackId # NoTrack)
      BY DEF Steps
    <3>2. Moved(w)
      BY <1>1, <1>3, <2>2, <3>1, ReadSound DEF PollLoad, Moved
    <3> QED BY <1>1, <1>3, <3>2, OtherKeeps DEF PollLoad, RowKept, JobsTyped
  <2> QED BY <1>3, <2>1, <2>2 DEF PollLoad
<1>4. CASE PollRecover
  <2>1. Moved(w)
    BY <1>1, <1>4, GotoMoves DEF PollRecover, Steps
  <2>2. trackId' \in 1 .. Len(received) /\ Len(received) <= MaxSubmits
    BY <1>4, LenProperties DEF PollRecover, Pipeline, TypeOK
  <2>3. RowKept
    BY <1>4, <2>2, PipelineAssumption, LenProperties DEF PollRecover, RowKept
  <2> QED BY <1>1, <1>4, <2>1, <2>3, OtherKeeps DEF PollRecover, PollAgain, JobsTyped
<1>5. CASE PollGiveUp
  <2>1. Moved(w)
    BY <1>1, <1>5, GotoMoves DEF PollGiveUp, Steps
  <2>2. RowKept
    BY <1>5 DEF PollGiveUp, RowKept, Statuses
  <2> QED BY <1>1, <1>5, <2>1, <2>2, OtherKeeps DEF PollGiveUp, PollEnds, JobsTyped
<1>6. CASE PollUpdate
  <2>1. Moved(w)
    BY <1>1, <1>6, GotoMoves DEF PollUpdate, Steps
  <2>2. RowKept
    BY <1>2, <1>6 DEF PollUpdate, RowKept, Sound, Process, Answer
  <2>3. pollJob' \in {"none", "delayed", "active", "completed", "failed"} /\ pollAttempt' \in Nat
    BY <1>6 DEF PollUpdate, PollAgain, NextAttempt, JobsTyped
  <2> QED BY <1>1, <1>6, <2>1, <2>2, <2>3, OtherKeeps DEF PollUpdate
<1>7. CASE PollNotify
  <2>1. Moved(w)
    BY <1>1, <1>7, GotoMoves DEF PollNotify, Steps
  <2>2. /\ notified' \subseteq Events
        /\ "accepted" \in notified' => "accepted" \in notified \/ Answer(w).status = "ACCEPTED"
    BY <1>7 DEF PollNotify, Events
  <2>3. Answer(w).status = "ACCEPTED" => Reported("ACCEPTED")
    BY <1>2 DEF Sound, Answer
  <2>4. RowKept
    BY <1>7, <2>2, <2>3 DEF PollNotify, RowKept
  <2> QED BY <1>1, <1>7, <2>1, <2>4, OtherKeeps DEF PollNotify, PollEnds, JobsTyped
<1>8. CASE PollCatchNetwork
  <2>1. Moved(w)
    BY <1>1, <1>8, GotoMoves DEF PollCatchNetwork, Steps
  <2>2. RowKept
    BY <1>8 DEF PollCatchNetwork, RowKept
  <2> QED BY <1>1, <1>8, <2>1, <2>2, OtherKeeps
          DEF PollCatchNetwork, PollAgain, NextAttempt, JobsTyped
<1>9. CASE PollCatchError
  <2>1. Moved(w)
    BY <1>1, <1>9, GotoMoves DEF PollCatchError, Steps
  <2>2. RowKept
    BY <1>9 DEF PollCatchError, RowKept, Statuses
  <2> QED BY <1>1, <1>9, <2>1, <2>2, OtherKeeps DEF PollCatchError, PollEnds, JobsTyped
<1>10. CASE SharedStep(w)
  BY <1>1, <1>10, SharedKeeps
<1> QED BY <1>3, <1>4, <1>5, <1>6, <1>7, <1>8, <1>9, <1>10 DEF PollStep

\* A run of the contingency queue.
LEMMA RunKeeps ==
  ASSUME Pipeline, NEW c \in Runs, RunStep(c)
  PROVE  Pipeline'
<1> USE Typed DEF row, quota, dgii, jobs
<1>1. c \in Actors \ {EcfWorker}
  BY PipelineAssumption DEF Actors
<1>2. Sound(proc[c])
  BY <1>1 DEF Pipeline
<1>3. CASE RunLoad(c)
  <2> DEFINE step == IF trackId # NoTrack THEN ReconcileStep ELSE "submit"
  <2>1. step \in Steps /\ (step = "query" => trackId # NoTrack)
    BY DEF Steps, ReconcileStep
  <2>2. Moved(c)
    BY <1>1, <1>3, <2>1, ReadSound DEF RunLoad, Moved
  <2> QED BY <1>1, <1>3, <2>2, RowOnly DEF RunLoad, RowKept
<1>4. CASE RunWindowExceeded(c)
  <2>1. Moved(c)
    BY <1>1, <1>4, GotoMoves DEF RunWindowExceeded, Steps
  <2>2. RowKept
    BY <1>4 DEF RunWindowExceeded, RowKept, Statuses
  <2> QED BY <1>1, <1>4, <2>1, <2>2, RowOnly DEF RunWindowExceeded
<1>5. CASE RunUpdate(c)
  <2>1. Moved(c)
    BY <1>1, <1>5, GotoMoves DEF RunUpdate, AfterRunUpdate, Steps
  <2>2. /\ status' \in Statuses
        /\ status' \notin {"ACCEPTED", "CONDITIONAL"} \/ Reported(status')
    BY <1>2, <1>5 DEF RunUpdate, RunStatus, Sound, Answer, Statuses, Verdicts
  <2>3. trackId' \in 0 .. MaxSubmits /\ trackId' <= Len(received)
    BY <1>2, <1>5 DEF RunUpdate, Sound, Process, Answer
  <2> QED BY <1>1, <1>5, <2>1, <2>2, <2>3, RowOnly DEF RunUpdate, RowKept
<1>6. CASE RunUpdateFails(c)
  <2>1. Moved(c)
    BY <1>1, <1>6, GotoMoves DEF RunUpdateFails, Steps
  <2> QED BY <1>1, <1>6, <2>1, RowOnly DEF RunUpdateFails, RowKept
<1>7. CASE RunEnqueue(c)
  <2>1. Moved(c)
    BY <1>1, <1>7, GotoMoves DEF RunEnqueue, Steps
  <2>2. RowKept
    BY <1>7 DEF RunEnqueue, RowKept
  <2>3. pollJob' \in {"none", "delayed", "active", "completed", "failed"} /\ pollAttempt' \in Nat
    BY <1>7 DEF RunEnqueue, EnqueuePoll, JobsTyped
  <2> QED BY <1>1, <1>7, <2>1, <2>2, <2>3, OtherKeeps DEF RunEnqueue
<1>8. CASE RunCatch(c)
  <2>1. Moved(c)
    BY <1>1, <1>8, GotoMoves DEF RunCatch, Steps
  <2>2. RowKept
    BY <1>8 DEF RunCatch, RowKept, Statuses
  <2> QED BY <1>1, <1>8, <2>1, <2>2, RowOnly DEF RunCatch
<1>9. CASE SharedStep(c)
  BY <1>1, <1>9, SharedKeeps
<1> QED BY <1>3, <1>4, <1>5, <1>6, <1>7, <1>8, <1>9 DEF RunStep

\* The API calls.
LEMMA CallKeeps ==
  ASSUME Pipeline,
         \/ \E q \in Queries : QueryLoad(q) \/ QueryStep(q)
         \/ \E v \in Voids : VoidLoad(v) \/ VoidCommit(v)
         \/ \E m \in Marks : MarkLoad(m) \/ MarkWrite(m)
         \/ MarkAll
  PROVE  Pipeline'
<1> USE Typed DEF row, quota, dgii, jobs
<1>1. Queries \cup Voids \cup Marks \subseteq Actors \ {EcfWorker}
  BY PipelineAssumption DEF Actors
<1>2. ASSUME NEW q \in Queries, QueryLoad(q)
      PROVE  Pipeline'
  <2>1. Moved(q)
    BY <1>1, <1>2, ReadSound DEF QueryLoad, Moved, Steps
  <2> QED BY <1>1, <1>2, <2>1, RowOnly DEF QueryLoad, RowKept
<1>3. ASSUME NEW q \in Queries, QueryUpdate(q)
      PROVE  Pipeline'
  <2>1. Moved(q)
    BY <1>1, <1>3, GotoMoves DEF QueryUpdate, Steps
  <2>2. Sound(proc[q])
    BY <1>1 DEF Pipeline
  <2>3. RowKept
    BY <1>3, <2>2 DEF QueryUpdate, RowKept, Sound, Process, Answer
  <2> QED BY <1>1, <1>3, <2>1, <2>3, RowOnly DEF QueryUpdate
<1>4. ASSUME NEW q \in Queries, SharedStep(q)
      PROVE  Pipeline'
  BY <1>1, <1>4, SharedKeeps
<1>5. ASSUME NEW v \in Voids, VoidLoad(v)
      PROVE  Pipeline'
  <2>1. Moved(v)
    BY <1>1, <1>5, GotoMoves DEF VoidLoad, Steps
  <2> QED BY <1>1, <1>5, <2>1, RowOnly DEF VoidLoad, RowKept
<1>6. ASSUME NEW v \in Voids, VoidCommit(v)
      PROVE  Pipeline'
  <2>1. Moved(v)
    BY <1>1, <1>6, GotoMoves DEF VoidCommit, Steps
  <2>2. RowKept
    BY <1>6 DEF VoidCommit, RowKept, Statuses
  <2> QED BY <1>1, <1>6, <2>1, <2>2, RowOnly DEF VoidCommit
<1>7. ASSUME NEW m \in Marks, MarkLoad(m)
      PROVE  Pipeline'
  <2>1. Moved(m)
    BY <1>1, <1>7, GotoMoves DEF MarkLoad, Steps
  <2> QED BY <1>1, <1>7, <2>1, RowOnly DEF MarkLoad, RowKept
<1>8. ASSUME NEW m \in Marks, MarkWrite(m)
      PROVE  Pipeline'
  <2>1. Moved(m)
    BY <1>1, <1>8, GotoMoves DEF MarkWrite, Steps
  <2>2. RowKept
    BY <1>8 DEF MarkWrite, RowKept, Statuses
  <2> QED BY <1>1, <1>8, <2>1, <2>2, RowOnly DEF MarkWrite
<1>9. CASE MarkAll
  <2>1. PICK m \in Marks : TRUE
    BY <1>9 DEF MarkAll
  <2>2. Moved(m)
    BY <1>1, <1>9, NobodyMoves DEF MarkAll
  <2>3. RowKept
    BY <1>9 DEF MarkAll, RowKept, Statuses
  <2> QED BY <1>1, <1>9, <2>2, <2>3, RowOnly DEF MarkAll
<1> QED BY <1>2, <1>3, <1>4, <1>5, <1>6, <1>7, <1>8, <1>9 DEF QueryStep

\* The enqueueing of the jobs, and a crash.
LEMMA JobsKeep ==
  ASSUME Pipeline,
         \/ EnqueueEcf \/ EnqueueLost \/ PollJobRemoved
         \/ \E p \in Actors : Crash(p)
  PROVE  Pipeline'
<1> USE Typed DEF row, quota, dgii, jobs
<1>1. CASE EnqueueEcf \/ EnqueueLost \/ PollJobRemoved
  <2>1. EcfWorker \in Actors /\ UNCHANGED <<proc, received>>
    BY <1>1 DEF Actors, EnqueueEcf, EnqueueLost, PollJobRemoved
  <2>2. Moved(EcfWorker)
    BY <2>1, NobodyMoves
  <2>3. RowKept
    BY <1>1 DEF RowKept, EnqueueEcf, EnqueueLost, PollJobRemoved
  <2>4. JobsTyped'
    BY <1>1 DEF JobsTyped, EnqueueEcf, EnqueueLost, PollJobRemoved
  <2>5. JobCounted'
    BY <1>1 DEF Pipeline, JobCounted, At, EnqueueEcf, EnqueueLost, PollJobRemoved
  <2> QED BY <2>1, <2>2, <2>3, <2>4, <2>5, WriteKeeps
<1>2. ASSUME NEW p \in Actors, Crash(p)
      PROVE  Pipeline'
  <2>1. Moved(p) /\ At(p, "idle")'
    BY <1>2, GotoMoves DEF Crash, Steps, At
  <2>2. RowKept
    BY <1>2 DEF Crash, RowKept
  <2>3. JobsTyped'
    BY <1>2 DEF Crash, JobsTyped
  <2>4. JobCounted'
    <3>1. CASE p = EcfWorker
      BY <1>2, <2>1, <3>1 DEF Crash, Pipeline, JobCounted, At
    <3>2. CASE p # EcfWorker
      BY <1>2, <2>1, <3>2 DEF Crash, Pipeline, JobCounted, At, Moved, Actors
    <3> QED BY <3>1, <3>2
  <2> QED BY <2>1, <2>2, <2>3, <2>4, WriteKeeps
<1> QED BY <1>1, <1>2

\* DGII decides a submission that had no verdict; the referenced e-CF is accepted.
LEMMA DgiiKeeps ==
  ASSUME Pipeline,
         \/ \E i \in 1 .. MaxSubmits, verdict \in Verdicts : Decide(i, verdict)
         \/ ReferenceAccepted
  PROVE  Pipeline'
<1> USE Typed DEF row, quota, dgii, jobs
<1>1. ASSUME NEW i \in 1 .. MaxSubmits, NEW verdict \in Verdicts, Decide(i, verdict)
      PROVE  Pipeline'
  <2>1. /\ i \in 1 .. Len(received) /\ DOMAIN received = 1 .. Len(received)
        /\ received[i] \in Submission /\ Len(received) \in Nat
    BY <1>1, LenProperties, ElementOfSeq DEF Decide
  <2> DEFINE new == [received[i] EXCEPT !.verdict = verdict]
  <2>2. new \in Submission /\ new.verdict = verdict
    BY <2>1 DEF Submission
  <2>3. received' = [received EXCEPT ![i] = new]
    BY <1>1 DEF Decide
  <2>4. /\ received' \in Seq(Submission) /\ Len(received') = Len(received)
        /\ DOMAIN received' = 1 .. Len(received)
        /\ \A j \in 1 .. Len(received) \ {i} : received'[j] = received[j]
    BY <2>1, <2>2, <2>3, ExceptSeq
  <2>5. Grows
    BY <1>1, <2>1, <2>4 DEF Grows, Reported, Decide
  <2>6. Moved(EcfWorker) /\ EcfWorker \in Actors
    BY <1>1, <2>5 DEF Decide, Pipeline, TypeOK, Moved, Sound, Grows, Process, Actors
  <2>7. TypeOK'
    BY <1>1, <2>4 DEF Decide, Pipeline, TypeOK
  <2>8. trackId' <= Len(received')
    BY <1>1, <2>4 DEF Decide
  <2>9. JobCounted' /\ AcceptedByDgii'
    BY <1>1, <2>5 DEF Decide, Pipeline, JobCounted, At, AcceptedByDgii, Grows, Reported
  <2> QED BY <2>6, <2>7, <2>8, <2>9 DEF Pipeline, Moved
<1>2. CASE ReferenceAccepted
  BY <1>2 DEF ReferenceAccepted, Pipeline, TypeOK, Sound, Reported, JobCounted, At, AcceptedByDgii
<1> QED BY <1>1, <1>2

\* The invariant holds initially.
LEMMA InitPipeline == Init => Pipeline
<1> SUFFICES ASSUME Init PROVE Pipeline
  OBVIOUS
<1>1. received \in Seq(Submission) /\ Len(received) = 0
  BY EmptySeq DEF Init
<1>2. Idle \in Process /\ Idle.step = "idle"
  BY PipelineAssumption DEF Idle, Process, Steps, Statuses, NoTrack
<1>3. TypeOK
  <2>1. referenced \in BOOLEAN
    BY DEF Init
  <2>2. /\ status = "QUEUED" /\ trackId = 0 /\ hasRfce = FALSE /\ usageReverted = FALSE
        /\ refunds = 0 /\ attemptsMade = 0 /\ pollAttempt = 0
        /\ ecfJob = "none" /\ pollJob = "none" /\ notified = {} /\ crashed = FALSE
    BY DEF Init, NoTrack
  <2>3. proc \in [Actors -> Process]
    BY <1>2 DEF Init
  <2>4. /\ hasRfce \in BOOLEAN /\ usageReverted \in BOOLEAN
        /\ notified \subseteq Events /\ crashed \in BOOLEAN
    BY <2>2
  <2>5. 0 \in 0 .. MaxSubmits /\ 0 \in 0 .. MaxAttempts /\ 0 <= MaxSubmits
    BY PipelineAssumption
  <2>6. /\ status \in Statuses /\ trackId \in 0 .. MaxSubmits /\ refunds \in Nat
        /\ attemptsMade \in 0 .. MaxAttempts /\ pollAttempt \in Nat
    BY <2>2, <2>5 DEF Statuses
  <2> QED BY <1>1, <2>1, <2>2, <2>3, <2>4, <2>5, <2>6 DEF TypeOK
<1>4. \A p \in Actors : Sound(proc[p])
  BY <1>3, IdleSound DEF Init
<1>5. JobCounted
  BY <1>2, PipelineAssumption DEF Init, JobCounted, At, Actors
<1>6. AcceptedByDgii
  BY DEF Init, AcceptedByDgii
<1> QED BY <1>1, <1>3, <1>4, <1>5, <1>6 DEF Init, Pipeline, NoTrack

\* Every step keeps the invariant.
LEMMA NextPipeline == Pipeline /\ [Next]_vars => Pipeline'
<1> SUFFICES ASSUME Pipeline, [Next]_vars PROVE Pipeline'
  OBVIOUS
<1>1. CASE UNCHANGED vars
  BY <1>1 DEF vars, row, quota, dgii, jobs, Pipeline, TypeOK, Sound, Reported, JobCounted, At,
              AcceptedByDgii
<1>2. CASE EcfStep \/ PollStep \/ \E c \in Runs : RunStep(c)
  BY <1>2, EcfKeeps, PollKeeps, RunKeeps
<1>3. CASE \/ \E q \in Queries : QueryLoad(q) \/ QueryStep(q)
           \/ \E v \in Voids : VoidLoad(v) \/ VoidCommit(v)
           \/ \E m \in Marks : MarkLoad(m) \/ MarkWrite(m)
           \/ MarkAll
  BY <1>3, CallKeeps
<1>4. CASE EnqueueEcf \/ EnqueueLost \/ PollJobRemoved \/ \E p \in Actors : Crash(p)
  BY <1>4, JobsKeep
<1>5. CASE \/ \E i \in 1 .. MaxSubmits, verdict \in Verdicts : Decide(i, verdict)
           \/ ReferenceAccepted
  BY <1>5, DgiiKeeps
<1> QED BY <1>1, <1>2, <1>3, <1>4, <1>5 DEF Next

\* The columns of the row, the jobs and the processes keep their types.
THEOREM PipelineTypes == Spec => []TypeOK
<1>1. Pipeline => TypeOK
  BY DEF Pipeline
<1> QED BY <1>1, InitPipeline, NextPipeline, PTL DEF Spec

\* No stale answer, parser default or race invents an acceptance: the row and
\* the webhooks say only what DGII said, for any number of contingency runs and
\* callers, whatever fails.
THEOREM AcceptanceIsReal == Spec => []AcceptedByDgii
<1>1. Pipeline => AcceptedByDgii
  BY DEF Pipeline
<1> QED BY <1>1, InitPipeline, NextPipeline, PTL DEF Spec

-----------------------------------------------------------------------------
(* The quota is given back once *)

\* Who flipped usageReverted owns the refund: until he decrements, nothing has
\* been given back, and nobody else is about to.
RefundOwned ==
  /\ ~usageReverted => refunds = 0 /\ \A p \in Actors : ~At(p, "decrement")
  /\ \A p \in Actors : At(p, "decrement") => refunds = 0
  /\ \A p, q \in Actors : At(p, "decrement") /\ At(q, "decrement") => p = q
  /\ refunds \in 0 .. 1

\* p alone moves, and not to a decrement.
NoClaim(p) ==
  /\ proc' \in [Actors -> Process] /\ \A q \in Actors \ {p} : proc'[q] = proc[q]
  /\ ~At(p, "decrement")'
  /\ UNCHANGED quota

\* Whoever moves so leaves the refund to its owner.
LEMMA NoClaimKeeps ==
  ASSUME TypeOK, RefundOwned, NEW p \in Actors, NoClaim(p)
  PROVE  RefundOwned'
BY DEF RefundOwned, NoClaim, At, quota, TypeOK

\* A process that goes on, reads or is answered claims nothing.
LEMMA StepClaimsNothing ==
  ASSUME TypeOK, TypeOK', UNCHANGED quota, NEW p \in Actors,
         \/ \E step \in Steps \ {"decrement"} : Goto(p, step) \/ Read(p, step)
         \/ \E s, track : Answered(p, s, track)
  PROVE  NoClaim(p)
<1>1. PICK new : new.step # "decrement" /\ proc' = [proc EXCEPT ![p] = new]
  <2>1. ASSUME NEW step \in Steps \ {"decrement"}, Goto(p, step)
        PROVE  \E new : new.step # "decrement" /\ proc' = [proc EXCEPT ![p] = new]
    <3> DEFINE new == IF step = "idle" THEN Idle ELSE [proc[p] EXCEPT !.step = step]
    <3>1. proc' = [proc EXCEPT ![p] = new]
      BY <2>1 DEF Goto
    <3>2. new.step # "decrement"
      BY DEF Idle, TypeOK, Process
    <3> QED BY <3>1, <3>2
  <2>2. ASSUME NEW step \in Steps \ {"decrement"}, Read(p, step)
        PROVE  \E new : new.step # "decrement" /\ proc' = [proc EXCEPT ![p] = new]
    <3> DEFINE new == [proc[p] EXCEPT !.step = step,
                         !.seen = [status |-> status, trackId |-> trackId, rfce |-> hasRfce]]
    <3>1. proc' = [proc EXCEPT ![p] = new]
      BY <2>2 DEF Read
    <3>2. new.step # "decrement"
      BY DEF TypeOK, Process
    <3> QED BY <3>1, <3>2
  <2>3. ASSUME NEW s, NEW track, Answered(p, s, track)
        PROVE  \E new : new.step # "decrement" /\ proc' = [proc EXCEPT ![p] = new]
    <3> DEFINE new == [proc[p] EXCEPT !.step = "update",
                         !.answer = [status |-> s, trackId |-> track]]
    <3>1. proc' = [proc EXCEPT ![p] = new]
      BY <2>3 DEF Answered
    <3>2. new.step # "decrement"
      BY DEF TypeOK, Process
    <3> QED BY <3>1, <3>2
  <2> QED BY <2>1, <2>2, <2>3
<1> QED BY <1>1 DEF NoClaim, At, TypeOK

\* The claim and the decrement.
LEMMA SharedRefunds ==
  ASSUME TypeOK, TypeOK', RefundOwned, NEW p \in Actors, SharedStep(p)
  PROVE  RefundOwned'
<1>1. CASE SubmitReceived(p) \/ SubmitRefused(p) \/ DgiiUnreachable(p) \/ Query(p)
  <2> DEFINE step == CASE p = EcfWorker -> "catchNetwork" [] p \in Queries -> "idle"
                       [] OTHER -> "catch"
  <2>1. step \in Steps \ {"decrement"}
    BY DEF Steps
  <2>2. Failed(p) => Goto(p, step)
    BY DEF Failed
  <2>3. UNCHANGED quota /\ (Failed(p) \/ \E s, track : Answered(p, s, track))
    BY <1>1 DEF SubmitReceived, SubmitRefused, DgiiUnreachable, Query
  <2> QED BY <2>1, <2>2, <2>3, StepClaimsNothing, NoClaimKeeps
<1>2. CASE Refund(p)
  <2>1. CASE ClaimWon
    <3>1. proc' = [proc EXCEPT ![p] = [proc[p] EXCEPT !.step = "decrement"]]
      BY <1>2, <2>1 DEF Refund, Goto
    <3>2. /\ proc'[p].step = "decrement"
          /\ \A q \in Actors \ {p} : proc'[q] = proc[q]
      BY <3>1 DEF TypeOK, Process
    <3>3. refunds = 0 /\ \A q \in Actors : ~At(q, "decrement")
      BY <2>1 DEF ClaimWon, RefundOwned
    <3> QED BY <1>2, <3>2, <3>3 DEF Refund, RefundOwned, At
  <2>2. CASE ~ClaimWon
    <3>1. AfterRefund(p) \in Steps \ {"decrement"}
      BY DEF AfterRefund, Steps
    <3>2. UNCHANGED quota
      BY <1>2, <2>2 DEF Refund, ClaimWon, quota, TypeOK
    <3> QED BY <1>2, <2>2, <3>1, <3>2, StepClaimsNothing, NoClaimKeeps DEF Refund
  <2> QED BY <2>1, <2>2
<1>3. CASE Decrement(p)
  <2>1. AfterRefund(p) \in {"notify", "idle"}
    BY DEF AfterRefund
  <2>2. /\ ~At(p, "decrement")'
        /\ \A q \in Actors \ {p} : proc'[q] = proc[q]
    BY <1>3, <2>1 DEF Decrement, Goto, At, Idle, TypeOK, Process
  <2>3. /\ At(p, "decrement") /\ UNCHANGED usageReverted
        /\ refunds' \in {refunds, refunds + 1}
    BY <1>3 DEF Decrement
  <2>4. usageReverted /\ refunds = 0 /\ \A q \in Actors \ {p} : ~At(q, "decrement")
    BY <2>3 DEF RefundOwned
  <2>5. \A q \in Actors : ~At(q, "decrement")'
    BY <2>2, <2>4 DEF At
  <2> QED BY <2>3, <2>4, <2>5 DEF RefundOwned
<1> QED BY <1>1, <1>2, <1>3 DEF SharedStep

\* Every step leaves the refund to its owner.
LEMMA NextRefunds == TypeOK /\ TypeOK' /\ RefundOwned /\ [Next]_vars => RefundOwned'
<1> SUFFICES ASSUME TypeOK, TypeOK', RefundOwned, [Next]_vars PROVE RefundOwned'
  OBVIOUS
<1> USE DEF Steps
<1>1. /\ EcfWorker \in Actors /\ PollWorker \in Actors
      /\ Runs \cup Queries \cup Voids \cup Marks \subseteq Actors
  BY DEF Actors
<1>2. ASSUME UNCHANGED <<proc, quota>>
      PROVE  RefundOwned'
  BY <1>2 DEF RefundOwned, At, quota
<1>3. ASSUME NEW p \in Actors, UNCHANGED quota,
             \E step \in Steps \ {"decrement"} : Goto(p, step) \/ Read(p, step)
      PROVE  RefundOwned'
  BY <1>3, StepClaimsNothing, NoClaimKeeps
<1>4. CASE UNCHANGED vars
  BY <1>2, <1>4 DEF vars
<1>5. CASE EcfStep
  <2>1. CASE EcfSkip \/ EcfReconcile \/ EcfWaitReference \/ EcfOnFailed
    BY <1>2, <2>1 DEF EcfSkip, EcfReconcile, EcfWaitReference, EcfOnFailed
  <2>2. CASE EcfStart \/ EcfSign \/ EcfXsdInvalid \/ EcfPrepare
    BY <1>1, <1>3, <2>2 DEF EcfStart, EcfSign, EcfXsdInvalid, EcfPrepare
  <2>3. CASE EcfUpdate \/ EcfUpdateFails
    BY <1>1, <1>3, <2>3 DEF EcfUpdate, EcfUpdateFails
  <2>4. CASE EcfNotify \/ EcfNotifyFails \/ EcfCatchNetwork \/ EcfCatchError
    BY <1>1, <1>3, <2>4 DEF EcfNotify, EcfNotifyFails, EcfCatchNetwork, EcfCatchError
  <2> QED BY <1>1, <1>5, <2>1, <2>2, <2>3, <2>4, SharedRefunds DEF EcfStep
<1>6. CASE PollStep
  <2>1. CASE PollLoad
    BY <1>1, <1>2, <1>3, <2>1 DEF PollLoad
  <2>2. CASE PollRecover \/ PollGiveUp \/ PollUpdate
    BY <1>1, <1>3, <2>2 DEF PollRecover, PollGiveUp, PollUpdate
  <2>3. CASE PollNotify \/ PollCatchNetwork \/ PollCatchError
    BY <1>1, <1>3, <2>3 DEF PollNotify, PollCatchNetwork, PollCatchError
  <2> QED BY <1>1, <1>6, <2>1, <2>2, <2>3, SharedRefunds DEF PollStep
<1>7. ASSUME NEW c \in Runs, RunStep(c)
      PROVE  RefundOwned'
  <2>1. CASE RunLoad(c) \/ RunWindowExceeded(c) \/ RunUpdate(c)
    BY <1>1, <1>3, <2>1 DEF RunLoad, ReconcileStep, RunWindowExceeded, RunUpdate, AfterRunUpdate
  <2>2. CASE RunUpdateFails(c) \/ RunEnqueue(c) \/ RunCatch(c)
    BY <1>1, <1>3, <2>2 DEF RunUpdateFails, RunEnqueue, RunCatch
  <2> QED BY <1>1, <1>7, <2>1, <2>2, SharedRefunds DEF RunStep
<1>8. ASSUME NEW q \in Queries, QueryLoad(q) \/ QueryStep(q)
      PROVE  RefundOwned'
  BY <1>1, <1>3, <1>8, SharedRefunds DEF QueryLoad, QueryStep, QueryUpdate
<1>9. ASSUME NEW v \in Voids, VoidLoad(v)
      PROVE  RefundOwned'
  BY <1>1, <1>3, <1>9 DEF VoidLoad
<1>10. ASSUME NEW v \in Voids, VoidCommit(v)
       PROVE  RefundOwned'
  <2>1. /\ ~At(v, "decrement")'
        /\ \A q \in Actors \ {v} : proc'[q] = proc[q]
    BY <1>1, <1>10 DEF VoidCommit, Goto, At, Idle, TypeOK
  <2>2. usageReverted' = TRUE
    BY <1>10 DEF VoidCommit
  <2>3. CASE ClaimWon
    <3>1. refunds = 0 /\ \A q \in Actors : ~At(q, "decrement")
      BY <2>3 DEF ClaimWon, RefundOwned
    <3>2. refunds' = 1 /\ \A q \in Actors : ~At(q, "decrement")'
      BY <1>10, <2>1, <2>3, <3>1 DEF VoidCommit, At
    <3> QED BY <2>2, <3>2 DEF RefundOwned
  <2>4. CASE ~ClaimWon
    BY <1>10, <2>1, <2>2, <2>4 DEF VoidCommit, RefundOwned, At
  <2> QED BY <2>3, <2>4
<1>11. ASSUME NEW m \in Marks, MarkLoad(m) \/ MarkWrite(m)
       PROVE  RefundOwned'
  BY <1>1, <1>3, <1>11 DEF MarkLoad, MarkWrite
<1>12. ASSUME NEW p \in Actors, Crash(p)
       PROVE  RefundOwned'
  BY <1>3, <1>12 DEF Crash
<1>13. CASE EnqueueEcf \/ EnqueueLost \/ MarkAll \/ ReferenceAccepted \/ PollJobRemoved
  BY <1>2, <1>13 DEF EnqueueEcf, EnqueueLost, MarkAll, ReferenceAccepted, PollJobRemoved
<1>14. ASSUME NEW i \in 1 .. MaxSubmits, NEW verdict \in Verdicts, Decide(i, verdict)
       PROVE  RefundOwned'
  BY <1>2, <1>14 DEF Decide
<1> HIDE DEF Steps
<1> QED BY <1>4, <1>5, <1>6, <1>7, <1>8, <1>9, <1>10, <1>11, <1>12, <1>13, <1>14 DEF Next

\* The quota of an invoice is given back at most once, for any number of
\* contingency runs and callers, whatever fails.
THEOREM RefundIsOnce == Spec => []RefundedAtMostOnce
<1>1. Init => RefundOwned
  BY DEF Init, RefundOwned, At, Idle
<1>2. RefundOwned => RefundedAtMostOnce
  BY DEF RefundOwned, RefundedAtMostOnce
<1> QED BY <1>1, <1>2, PipelineTypes, NextRefunds, PTL DEF Spec

-----------------------------------------------------------------------------
(***************************************************************************)
(* The handlers, when they do not interleave: between the first and the    *)
(* last step of one, no step of another.  DGII, BullMQ and the referenced  *)
(* e-CF move on all the same.  What the comments of the code promise of a  *)
(* repeated submission and of an accepted e-CF it keeps then, for any      *)
(* number of attempts, runs of the contingency and callers; when handlers  *)
(* interleave it does not (section 5 of the README).                       *)
(***************************************************************************)

\* At most one process is in a handler.
OneAtATime ==
  \A p, q \in Actors : proc[p].step # "idle" /\ proc[q].step # "idle" => p = q

SerialSpec == Init /\ [][Next /\ OneAtATime']_vars

\* The steps of each kind of process.
OwnSteps(p) ==
  CASE p = EcfWorker  -> {"idle", "sign", "prepare", "submit", "update", "refund", "decrement",
                          "notify", "catchNetwork", "catchError"}
    [] p = PollWorker -> {"idle", "recover", "timeout", "query", "update", "refund", "decrement",
                          "notify", "catch"}
    [] p \in Runs     -> {"idle", "query", "submit", "update", "refund", "decrement", "enqueue",
                          "catch"}
    [] p \in Queries  -> {"idle", "query", "update", "refund", "decrement"}
    [] p \in Voids    -> {"idle", "void"}
    [] OTHER          -> {"idle", "mark"}

StepsOwned == \A p \in Actors : proc[p].step \in OwnSteps(p)

Submitters == {EcfWorker} \cup Runs

\* Submitter p has an answer to a submission of its own to save.
InFlight(p) == At(p, "update") /\ Seen(p).trackId = NoTrack

\* What DGII received the row knows, or the process that sent it brings its trackId.
OnceInv ==
  /\ Len(received) <= 1
  /\ Seen(EcfWorker).trackId = NoTrack
  /\ \A p \in Actors : proc[p].step \in {"sign", "prepare", "submit"} => received = <<>>
  /\ \A p \in Submitters : At(p, "submit") => Seen(p).trackId = NoTrack
  /\ \A p \in Submitters : InFlight(p) /\ received # <<>> => Answer(p).trackId # NoTrack
  /\ received # <<>> => trackId # NoTrack \/ \E p \in Submitters : InFlight(p)

\* Everybody rests, apart from the worker that learnt of the acceptance.
Resting ==
  \A p \in Actors :
    \/ At(p, "idle")
    \/ p = PollWorker /\ proc[p].step \in {"notify", "catch"}
    \/ p = EcfWorker /\ At(p, "notify") /\ IsRfce

\* Nobody is on the way to take an accepted e-CF out of its state; only the endpoint of
\* the summaries answers a submission with an acceptance.
AcceptedRests ==
  /\ status = "ACCEPTED" => Resting
  /\ ~IsRfce /\ At(EcfWorker, "update") => Answer(EcfWorker).status # "ACCEPTED"

-----------------------------------------------------------------------------
(* How a process moves *)

OthersStay(p) == \A q \in Actors \ {p} : proc'[q] = proc[q]

\* A process that goes on keeps what it holds; one that ends forgets it.
LEMMA GotoStep ==
  ASSUME TypeOK, NEW p \in Actors, NEW step \in Steps, Goto(p, step)
  PROVE  /\ OthersStay(p)
         /\ proc'[p].step = step
         /\ step = "idle" => proc'[p] = Idle
         /\ step # "idle" => proc'[p].seen = proc[p].seen /\ proc'[p].answer = proc[p].answer
<1> DEFINE new == IF step = "idle" THEN Idle ELSE [proc[p] EXCEPT !.step = step]
<1>1. proc' = [proc EXCEPT ![p] = new]
  BY DEF Goto
<1>2. proc[p] \in Process /\ proc \in [Actors -> Process]
  BY DEF TypeOK
<1>3. /\ new.step = step
      /\ step = "idle" => new = Idle
      /\ step # "idle" => new.seen = proc[p].seen /\ new.answer = proc[p].answer
  BY <1>2 DEF Process, Idle
<1> HIDE DEF new
<1> QED BY <1>1, <1>2, <1>3 DEF OthersStay

\* A process that reads the row holds its trackId.
LEMMA ReadStep ==
  ASSUME TypeOK, NEW p \in Actors, NEW step \in Steps, Read(p, step)
  PROVE  /\ OthersStay(p)
         /\ proc'[p].step = step
         /\ proc'[p].seen = [status |-> status, trackId |-> trackId, rfce |-> hasRfce]
<1> DEFINE new == [proc[p] EXCEPT !.step = step,
                     !.seen = [status |-> status, trackId |-> trackId, rfce |-> hasRfce]]
<1>1. proc' = [proc EXCEPT ![p] = new]
  BY DEF Read
<1>2. proc[p] \in Process /\ proc \in [Actors -> Process]
  BY DEF TypeOK
<1>3. new.step = step /\ new.seen = [status |-> status, trackId |-> trackId, rfce |-> hasRfce]
  BY <1>2 DEF Process
<1> HIDE DEF new
<1> QED BY <1>1, <1>2, <1>3 DEF OthersStay

\* A process that is answered goes to its update.
LEMMA AnsweredStep ==
  ASSUME TypeOK, NEW p \in Actors, NEW s, NEW track, Answered(p, s, track)
  PROVE  /\ OthersStay(p)
         /\ proc'[p].step = "update"
         /\ proc'[p].seen = proc[p].seen
         /\ proc'[p].answer = [status |-> s, trackId |-> track]
<1> DEFINE new == [proc[p] EXCEPT !.step = "update", !.answer = [status |-> s, trackId |-> track]]
<1>1. proc' = [proc EXCEPT ![p] = new]
  BY DEF Answered
<1>2. proc[p] \in Process /\ proc \in [Actors -> Process]
  BY DEF TypeOK
<1>3. /\ new.step = "update" /\ new.seen = proc[p].seen
      /\ new.answer = [status |-> s, trackId |-> track]
  BY <1>2 DEF Process
<1> HIDE DEF new
<1> QED BY <1>1, <1>2, <1>3 DEF OthersStay

\* A call that throws leads to the catch block of its handler.
LEMMA FailedStep ==
  ASSUME TypeOK, NEW p \in Actors, Failed(p)
  PROVE  /\ OthersStay(p)
         /\ proc'[p].step \in {"catchNetwork", "idle", "catch"}
         /\ p = EcfWorker => proc'[p].step = "catchNetwork"
         /\ p # EcfWorker => proc'[p].step # "catchNetwork"
         /\ p \in Queries \ {EcfWorker} => proc'[p].step = "idle"
         /\ proc'[p].step = "idle" => proc'[p] = Idle
         /\ proc'[p].step # "idle" => proc'[p].seen = proc[p].seen
<1>1. PICK step \in {"catchNetwork", "idle", "catch"} :
        /\ Goto(p, step)
        /\ p = EcfWorker => step = "catchNetwork"
        /\ p # EcfWorker => step # "catchNetwork"
        /\ p \in Queries \ {EcfWorker} => step = "idle"
  <2>1. CASE p = EcfWorker
    <3>1. Goto(p, "catchNetwork")
      BY <2>1, PipelineAssumption DEF Failed
    <3> QED BY <2>1, <3>1
  <2>2. CASE p # EcfWorker /\ p \in Queries
    BY <2>2 DEF Failed
  <2>3. CASE p # EcfWorker /\ p \notin Queries
    BY <2>3 DEF Failed
  <2> QED BY <2>1, <2>2, <2>3
<1>2. step \in Steps
  BY DEF Steps
<1> QED BY <1>1, <1>2, GotoStep

-----------------------------------------------------------------------------
(* Each process takes the steps of its kind *)

\* The one process that moves gets to a step of its kind.
LEMMA OwnedFrame ==
  ASSUME StepsOwned, NEW p \in Actors, OthersStay(p), proc'[p].step \in OwnSteps(p)
  PROVE  StepsOwned'
BY DEF StepsOwned, OthersStay, OwnSteps

\* The calls to DGII and the refunds, of the kinds of process that make them.
LEMMA SharedOwned ==
  ASSUME TypeOK, StepsOwned, NEW p \in Actors, SharedStep(p)
  PROVE  StepsOwned'
<1>1. proc[p].step \in OwnSteps(p)
  BY DEF StepsOwned
<1>2. p # EcfWorker => (p \in Queries => p # PollWorker /\ p \notin Runs)
  BY PipelineAssumption
<1>3. CASE SubmitReceived(p) \/ SubmitRefused(p)
  <2>1. p = EcfWorker \/ (p \in Runs /\ p # PollWorker /\ p # EcfWorker)
    BY <1>1, <1>3, PipelineAssumption DEF SubmitReceived, SubmitRefused, At, OwnSteps
  <2>2. CASE Failed(p)
    BY <2>1, <2>2, FailedStep, OwnedFrame, PipelineAssumption DEF OwnSteps
  <2>3. ASSUME NEW s, NEW track, Answered(p, s, track) PROVE StepsOwned'
    <3>1. "update" \in OwnSteps(p)
      BY <2>1, PipelineAssumption DEF OwnSteps
    <3> QED BY <2>3, <3>1, AnsweredStep, OwnedFrame
  <2> QED BY <1>3, <2>2, <2>3 DEF SubmitReceived, SubmitRefused
<1>4. CASE DgiiUnreachable(p)
  <2>1. proc[p].step \in {"prepare", "submit", "query"} /\ Failed(p)
    BY <1>4 DEF DgiiUnreachable
  <2>2. proc'[p].step \in OwnSteps(p)
    BY <1>1, <2>1, FailedStep, PipelineAssumption DEF OwnSteps
  <2> QED BY <2>1, <2>2, FailedStep, OwnedFrame
<1>5. CASE Query(p)
  <2>1. PICK s : Answered(p, s, Seen(p).trackId)
    BY <1>5 DEF Query
  <2>2. "update" \in OwnSteps(p)
    BY <1>1, <1>5 DEF Query, At, OwnSteps
  <2> QED BY <2>1, <2>2, AnsweredStep, OwnedFrame
<1>6. CASE Refund(p) \/ Decrement(p)
  <2>1. PICK step \in {"decrement", "notify", "idle"} :
          /\ Goto(p, step)
          /\ step = "notify" => p \in {EcfWorker, PollWorker}
    BY <1>6 DEF Refund, Decrement, AfterRefund
  <2>2. step \in Steps
    BY DEF Steps
  <2>3. step \in OwnSteps(p)
    <3>1. proc[p].step \in {"refund", "decrement"}
      BY <1>6 DEF Refund, Decrement, At
    <3> QED BY <1>1, <2>1, <3>1, PipelineAssumption DEF OwnSteps
  <2> QED BY <2>1, <2>2, <2>3, GotoStep, OwnedFrame
<1> QED BY <1>3, <1>4, <1>5, <1>6 DEF SharedStep

\* No action takes a process to a step of another kind.
LEMMA OwnedStep ==
  ASSUME TypeOK, StepsOwned, [Next]_vars
  PROVE  StepsOwned'
<1>1. ASSUME NEW p \in Actors, NEW step \in Steps, Goto(p, step), step \in OwnSteps(p)
      PROVE  StepsOwned'
  BY <1>1, GotoStep, OwnedFrame
<1>2. ASSUME NEW p \in Actors, NEW step \in Steps, Read(p, step), step \in OwnSteps(p)
      PROVE  StepsOwned'
  BY <1>2, ReadStep, OwnedFrame
<1>3. CASE UNCHANGED proc
  BY <1>3 DEF StepsOwned, OwnSteps
<1>4. CASE EcfStep
  <2>1. CASE SharedStep(EcfWorker)
    BY <2>1, SharedOwned DEF Actors
  <2>2. CASE ~SharedStep(EcfWorker)
    <3>1. \/ UNCHANGED proc
          \/ \E step \in {"idle", "sign", "prepare", "submit", "refund", "notify", "catchNetwork",
                          "catchError"} : Goto(EcfWorker, step)
      BY <1>4, <2>2
         DEF EcfStep, EcfSkip, EcfReconcile, EcfWaitReference, EcfStart, EcfSign, EcfXsdInvalid,
             EcfPrepare, EcfUpdate, EcfUpdateFails, EcfNotify, EcfNotifyFails, EcfCatchNetwork,
             EcfCatchError, EcfOnFailed
    <3>2. \A step \in {"idle", "sign", "prepare", "submit", "refund", "notify", "catchNetwork",
                       "catchError"} : step \in OwnSteps(EcfWorker) /\ step \in Steps
      BY PipelineAssumption DEF OwnSteps, Steps
    <3> QED BY <1>1, <1>3, <3>1, <3>2 DEF Actors
  <2> QED BY <2>1, <2>2
<1>5. CASE PollStep
  <2>1. CASE SharedStep(PollWorker)
    BY <2>1, SharedOwned DEF Actors
  <2>2. CASE ~SharedStep(PollWorker)
    <3>1. \/ UNCHANGED proc
          \/ \E step \in {"recover", "timeout", "query"} : Read(PollWorker, step)
          \/ \E step \in {"idle", "refund", "notify", "catch"} : Goto(PollWorker, step)
      <4>1. CASE PollLoad
        BY <4>1 DEF PollLoad
      <4>2. CASE ~PollLoad
        BY <1>5, <2>2, <4>2
           DEF PollStep, PollRecover, PollGiveUp, PollUpdate, PollNotify, PollCatchNetwork,
               PollCatchError
      <4> QED BY <4>1, <4>2
    <3>2. \A step \in {"recover", "timeout", "query", "idle", "refund", "notify", "catch"} :
            step \in OwnSteps(PollWorker) /\ step \in Steps
      BY PipelineAssumption DEF OwnSteps, Steps
    <3> QED BY <1>1, <1>2, <1>3, <3>1, <3>2 DEF Actors
  <2> QED BY <2>1, <2>2
<1>6. ASSUME NEW c \in Runs, RunStep(c) PROVE StepsOwned'
  <2>1. CASE SharedStep(c)
    BY <2>1, SharedOwned DEF Actors
  <2>2. CASE ~SharedStep(c)
    <3>1. \/ \E step \in {"query", "submit"} : Read(c, step)
          \/ \E step \in {"idle", "refund", "enqueue", "catch"} : Goto(c, step)
      BY <1>6, <2>2
         DEF RunStep, RunLoad, ReconcileStep, RunWindowExceeded, RunUpdate, AfterRunUpdate,
             RunUpdateFails, RunEnqueue, RunCatch
    <3>2. \A step \in {"query", "submit", "idle", "refund", "enqueue", "catch"} :
            step \in OwnSteps(c) /\ step \in Steps
      BY PipelineAssumption DEF OwnSteps, Steps
    <3> QED BY <1>1, <1>2, <3>1, <3>2 DEF Actors
  <2> QED BY <2>1, <2>2
<1>7. ASSUME NEW q \in Queries, QueryLoad(q) \/ QueryStep(q) PROVE StepsOwned'
  <2>1. CASE SharedStep(q)
    BY <2>1, SharedOwned DEF Actors
  <2>2. CASE ~SharedStep(q)
    <3>1. Read(q, "query") \/ \E step \in {"idle", "refund"} : Goto(q, step)
      BY <1>7, <2>2 DEF QueryLoad, QueryStep, QueryUpdate
    <3>2. \A step \in {"query", "idle", "refund"} : step \in OwnSteps(q) /\ step \in Steps
      BY PipelineAssumption DEF OwnSteps, Steps
    <3> QED BY <1>1, <1>2, <3>1, <3>2 DEF Actors
  <2> QED BY <2>1, <2>2
<1>8. ASSUME NEW v \in Voids, VoidLoad(v) \/ VoidCommit(v) PROVE StepsOwned'
  <2>1. \A step \in {"idle", "void"} : step \in OwnSteps(v) /\ step \in Steps
    BY PipelineAssumption DEF OwnSteps, Steps
  <2>2. \E step \in {"idle", "void"} : Goto(v, step)
    BY <1>8 DEF VoidLoad, VoidCommit
  <2> QED BY <1>1, <2>1, <2>2 DEF Actors
<1>9. ASSUME NEW m \in Marks, MarkLoad(m) \/ MarkWrite(m) PROVE StepsOwned'
  <2>1. \A step \in {"idle", "mark"} : step \in OwnSteps(m) /\ step \in Steps
    BY PipelineAssumption DEF OwnSteps, Steps
  <2>2. \E step \in {"idle", "mark"} : Goto(m, step)
    BY <1>9 DEF MarkLoad, MarkWrite
  <2> QED BY <1>1, <2>1, <2>2 DEF Actors
<1>10. ASSUME NEW p \in Actors, Crash(p) PROVE StepsOwned'
  BY <1>1, <1>10 DEF Crash, OwnSteps, Steps
<1>11. CASE \/ EnqueueEcf \/ EnqueueLost \/ MarkAll \/ ReferenceAccepted \/ PollJobRemoved
            \/ \E i \in 1 .. MaxSubmits, verdict \in Verdicts : Decide(i, verdict)
            \/ UNCHANGED vars
  BY <1>3, <1>11 DEF EnqueueEcf, EnqueueLost, MarkAll, ReferenceAccepted, PollJobRemoved, Decide, vars
<1> QED BY <1>4, <1>5, <1>6, <1>7, <1>8, <1>9, <1>10, <1>11 DEF Next

-----------------------------------------------------------------------------
(* One submission *)

\* The document goes to DGII with a trackId and an answer for it: what fails is the XSD,
\* the network before DGII took it, the API process before the enqueue, or Redis.
AnswersArrive == ~IsRfce /\ Faults \subseteq {"lostJob", "emit"}

\* A process that is not bringing a trackId to the row moves.
LEMMA OnceMoves ==
  ASSUME OnceInv, NEW p \in Actors, OthersStay(p), received' = received,
         trackId' = trackId \/ trackId' # NoTrack,
         p \notin Submitters \/ ~At(p, "update"),
         p = EcfWorker => proc'[p].seen.trackId = NoTrack,
         proc'[p].step \in {"sign", "prepare", "submit"} => received = <<>>,
         proc'[p].step = "submit" /\ p \in Submitters => proc'[p].seen.trackId = NoTrack,
         proc'[p].step = "update" /\ p \in Submitters =>
           received = <<>> \/ proc'[p].seen.trackId # NoTrack
  PROVE  OnceInv'
<1>1. \A q \in Actors \ {p} : proc'[q] = proc[q]
  BY DEF OthersStay
<1>2. Submitters \subseteq Actors /\ EcfWorker \in Submitters
  BY DEF Submitters, Actors
<1>3. Seen(EcfWorker)'.trackId = NoTrack
  BY <1>1, <1>2 DEF OnceInv, Seen
<1>4. \A q \in Actors : proc'[q].step \in {"sign", "prepare", "submit"} => received' = <<>>
  BY <1>1 DEF OnceInv
<1>5. \A q \in Submitters : At(q, "submit")' => Seen(q)'.trackId = NoTrack
  BY <1>1, <1>2 DEF OnceInv, At, Seen
<1>6. \A q \in Submitters : InFlight(q)' /\ received' # <<>> => Answer(q)'.trackId # NoTrack
  BY <1>1, <1>2 DEF OnceInv, At, Seen, InFlight, Answer
<1>7. received' # <<>> => trackId' # NoTrack \/ \E q \in Submitters : InFlight(q)'
  BY <1>1, <1>2 DEF OnceInv, At, Seen, InFlight
<1> QED BY <1>3, <1>4, <1>5, <1>6, <1>7 DEF OnceInv

\* The submitter writes the trackId that it brings.
LEMMA OnceWrites ==
  ASSUME OnceInv, NEW p \in Submitters, OthersStay(p), received' = received,
         OneAtATime, At(p, "update"),
         trackId' = IF Seen(p).trackId = NoTrack THEN Answer(p).trackId ELSE trackId,
         proc'[p].step \notin {"sign", "prepare", "submit", "update"},
         p = EcfWorker => proc'[p].seen.trackId = NoTrack
  PROVE  OnceInv'
<1>1. \A q \in Actors \ {p} : proc'[q] = proc[q] /\ proc[q].step = "idle"
  BY DEF OthersStay, OneAtATime, At, Submitters, Actors
<1>2. Submitters \subseteq Actors /\ EcfWorker \in Submitters
  BY DEF Submitters, Actors
<1>3. received' # <<>> => trackId' # NoTrack
  BY <1>1, <1>2 DEF OnceInv, InFlight, At
<1>4. \A q \in Submitters : ~InFlight(q)'
  BY <1>1, <1>2 DEF InFlight, At
<1>5. Seen(EcfWorker)'.trackId = NoTrack
  BY <1>1, <1>2 DEF OnceInv, Seen
<1>6. \A q \in Actors : proc'[q].step \notin {"sign", "prepare", "submit"}
  BY <1>1
<1> QED BY <1>2, <1>3, <1>4, <1>5, <1>6 DEF OnceInv, At

\* Nobody moves and DGII receives nothing.
LEMMA OnceStays ==
  ASSUME OnceInv, UNCHANGED <<proc, received, trackId>>
  PROVE  OnceInv'
BY DEF OnceInv, InFlight, At, Seen, Answer

\* A process begins to submit only when the row has no trackId and nobody brings one.
LEMMA OnceStarts ==
  ASSUME OnceInv, NEW p \in Actors, OthersStay(p), OneAtATime', At(p, "idle"),
         proc'[p].step # "idle", trackId = NoTrack
  PROVE  received = <<>>
<1>1. \A q \in Submitters : ~InFlight(q)
  BY DEF OneAtATime, OthersStay, InFlight, At, Submitters, Actors
<1> QED BY <1>1 DEF OnceInv

\* A process that goes on in its handler, past the submission or on the way to it.
LEMMA OnceGoes ==
  ASSUME TypeOK, OnceInv, NEW p \in Actors, NEW step \in Steps \ {"update"}, Goto(p, step),
         received' = received, trackId' = trackId \/ trackId' # NoTrack,
         p \notin Submitters \/ ~At(p, "update"),
         step \in {"sign", "prepare", "submit"} => p = EcfWorker /\ received = <<>>
  PROVE  OnceInv'
<1>1. /\ OthersStay(p) /\ proc'[p].step = step
      /\ step = "idle" => proc'[p] = Idle
      /\ step # "idle" => proc'[p].seen = proc[p].seen
  BY GotoStep
<1>2. p = EcfWorker => proc'[p].seen.trackId = NoTrack
  BY <1>1 DEF Idle, OnceInv, Seen
<1> QED BY <1>1, <1>2, OnceMoves

\* The calls to DGII: the first submission is the only one, since nobody gets to submit
\* before the trackId of it is on the row.
LEMMA OnceShared ==
  ASSUME AnswersArrive, Pipeline, StepsOwned, OneAtATime, OneAtATime', OnceInv,
         NEW p \in Actors, SharedStep(p)
  PROVE  OnceInv'
<1>1. TypeOK /\ Sound(proc[p]) /\ proc[p].step \in OwnSteps(p)
  BY DEF Pipeline, StepsOwned
<1>2. CASE SubmitReceived(p)
  <2>1. /\ At(p, "submit") /\ Channel(p) = "ECF" /\ trackId' = trackId
        /\ \E verdict : received' = Append(received, [channel |-> Channel(p), verdict |-> verdict])
        /\ \E verdict : \E a \in Answers(Channel(p), verdict, Len(received) + 1) :
             Answered(p, a.status, a.trackId)
    BY <1>2 DEF SubmitReceived, Channel, AnswersArrive, row
  <2>2. received = <<>> /\ Len(received) = 0
    BY <2>1 DEF OnceInv, At
  <2>3. received' # <<>> /\ Len(received') = 1
    BY <2>1, <2>2
  <2>4. PICK s, track : Answered(p, s, track) /\ track = 1
    BY <2>1, <2>2 DEF Answers, AnswersArrive
  <2>5. /\ OthersStay(p) /\ proc'[p].step = "update" /\ proc'[p].seen = proc[p].seen
        /\ proc'[p].answer.trackId = 1
    <3>1. /\ OthersStay(p) /\ proc'[p].step = "update" /\ proc'[p].seen = proc[p].seen
          /\ proc'[p].answer = [status |-> s, trackId |-> track]
      BY <1>1, <2>4, AnsweredStep
    <3>2. [status |-> s, trackId |-> track].trackId = 1
      BY <2>4
    <3> QED BY <3>1, <3>2
  <2>6. p \in Submitters
    BY <1>1, <2>1, PipelineAssumption DEF At, OwnSteps, Submitters
  <2>7. \A q \in Actors \ {p} : proc'[q] = proc[q] /\ proc[q].step = "idle"
    BY <2>1, <2>5 DEF OthersStay, OneAtATime, At
  <2>8. Seen(p).trackId = NoTrack
    BY <2>1, <2>6 DEF OnceInv
  <2>9. InFlight(p)' /\ Answer(p)'.trackId # NoTrack
    BY <2>5, <2>8 DEF InFlight, At, Seen, Answer, NoTrack
  <2>10. Submitters \subseteq Actors /\ EcfWorker \in Submitters
    BY DEF Submitters, Actors
  <2>11. Seen(EcfWorker)'.trackId = NoTrack
    BY <2>5, <2>7, <2>10 DEF OnceInv, Seen
  <2>12. \A q \in Actors : proc'[q].step \notin {"sign", "prepare", "submit"}
    BY <2>5, <2>7
  <2>13. \A q \in Submitters : InFlight(q)' => q = p
    BY <2>7, <2>10 DEF InFlight, At
  <2> QED BY <2>3, <2>6, <2>9, <2>10, <2>11, <2>12, <2>13 DEF OnceInv, At
<1>3. CASE SubmitRefused(p)
  <2>1. /\ At(p, "submit") /\ UNCHANGED <<received, trackId>>
        /\ \E s : Answered(p, s, NoTrack)
    BY <1>3 DEF SubmitRefused, row, dgii
  <2>2. OthersStay(p) /\ proc'[p].step = "update" /\ proc'[p].seen = proc[p].seen
    BY <1>1, <2>1, AnsweredStep
  <2>3. received = <<>>
    BY <2>1 DEF OnceInv, At
  <2>4. p = EcfWorker => proc'[p].seen.trackId = NoTrack
    BY <2>2 DEF OnceInv, Seen
  <2> QED BY <2>1, <2>2, <2>3, <2>4, OnceMoves DEF At
<1>4. CASE DgiiUnreachable(p)
  <2>1. /\ proc[p].step \in {"prepare", "submit", "query"} /\ Failed(p)
        /\ UNCHANGED <<received, trackId>>
    BY <1>4 DEF DgiiUnreachable, row, dgii
  <2>2. /\ OthersStay(p) /\ proc'[p].step \in {"catchNetwork", "idle", "catch"}
        /\ proc'[p].step = "idle" => proc'[p] = Idle
        /\ proc'[p].step # "idle" => proc'[p].seen = proc[p].seen
    BY <1>1, <2>1, FailedStep
  <2>3. p = EcfWorker => proc'[p].seen.trackId = NoTrack
    BY <2>2 DEF OnceInv, Seen, Idle
  <2> QED BY <2>1, <2>2, <2>3, OnceMoves DEF At
<1>5. CASE Query(p)
  <2>1. /\ At(p, "query") /\ UNCHANGED <<received, trackId>>
        /\ \E s : Answered(p, s, Seen(p).trackId)
    BY <1>5 DEF Query, row, dgii
  <2>2. OthersStay(p) /\ proc'[p].step = "update" /\ proc'[p].seen = proc[p].seen
    BY <1>1, <2>1, AnsweredStep
  <2>3. proc[p].seen.trackId # NoTrack
    BY <1>1, <2>1 DEF Sound, At
  <2>4. p # EcfWorker
    BY <1>1, <2>1, PipelineAssumption DEF OwnSteps, At
  <2> QED BY <2>1, <2>2, <2>3, <2>4, OnceMoves DEF At
<1>6. CASE Refund(p) \/ Decrement(p)
  <2>1. /\ proc[p].step \in {"refund", "decrement"} /\ UNCHANGED <<received, trackId>>
        /\ \E step \in {"decrement", "notify", "idle"} : Goto(p, step)
    BY <1>6 DEF Refund, Decrement, AfterRefund, At, row, dgii
  <2>2. PICK step \in {"decrement", "notify", "idle"} : Goto(p, step)
    BY <2>1
  <2>3. step \in Steps \ {"update"}
    BY DEF Steps
  <2>4. ~At(p, "update")
    BY <2>1 DEF At
  <2> QED BY <1>1, <2>1, <2>2, <2>3, <2>4, OnceGoes
<1> QED BY <1>2, <1>3, <1>4, <1>5, <1>6 DEF SharedStep

\* The job submits once: its next attempt finds the trackId of the one before.
LEMMA OnceEcf ==
  ASSUME AnswersArrive, Pipeline, StepsOwned, OneAtATime, OneAtATime', OnceInv, EcfStep
  PROVE  OnceInv'
<1>1. TypeOK /\ EcfWorker \in Actors /\ EcfWorker \in Submitters
  BY DEF Pipeline, Actors, Submitters
<1> USE DEF row, dgii
<1>2. CASE EcfSkip \/ EcfReconcile \/ EcfWaitReference \/ EcfOnFailed
  BY <1>2, OnceStays DEF EcfSkip, EcfReconcile, EcfWaitReference, EcfOnFailed
<1>3. CASE EcfStart
  <2>1. /\ At(EcfWorker, "idle") /\ trackId = NoTrack /\ UNCHANGED <<received, trackId>>
        /\ Goto(EcfWorker, "sign")
    BY <1>3 DEF EcfStart, KnownAtDgii
  <2>2. "sign" \in Steps \ {"update"}
    BY DEF Steps
  <2>3. OthersStay(EcfWorker) /\ proc'[EcfWorker].step = "sign"
    BY <1>1, <2>1, <2>2, GotoStep
  <2>4. received = <<>>
    BY <1>1, <2>1, <2>3, OnceStarts
  <2>5. ~At(EcfWorker, "update")
    BY <2>1 DEF At
  <2> QED BY <1>1, <2>1, <2>2, <2>4, <2>5, OnceGoes
<1>4. CASE EcfSign \/ EcfPrepare
  <2>1. /\ proc[EcfWorker].step \in {"sign", "prepare"} /\ UNCHANGED <<received, trackId>>
        /\ \E step \in {"prepare", "catchError", "submit"} : Goto(EcfWorker, step)
    BY <1>4 DEF EcfSign, EcfPrepare, At
  <2>2. PICK step \in {"prepare", "catchError", "submit"} : Goto(EcfWorker, step)
    BY <2>1
  <2>3. step \in Steps \ {"update"}
    BY DEF Steps
  <2>4. received = <<>> /\ ~At(EcfWorker, "update")
    BY <1>1, <2>1 DEF OnceInv, At
  <2> QED BY <1>1, <2>1, <2>2, <2>3, <2>4, OnceGoes
<1>5. CASE EcfXsdInvalid \/ EcfNotify \/ EcfNotifyFails \/ EcfCatchNetwork \/ EcfCatchError
  <2>1. /\ proc[EcfWorker].step # "update" /\ UNCHANGED <<received, trackId>>
        /\ \E step \in {"idle", "catchNetwork", "catchError"} : Goto(EcfWorker, step)
    BY <1>5 DEF EcfXsdInvalid, EcfNotify, EcfNotifyFails, EcfCatchNetwork, EcfCatchError, At
  <2>2. PICK step \in {"idle", "catchNetwork", "catchError"} : Goto(EcfWorker, step)
    BY <2>1
  <2>3. step \in Steps \ {"update"}
    BY DEF Steps
  <2>4. ~At(EcfWorker, "update")
    BY <2>1 DEF At
  <2> QED BY <1>1, <2>1, <2>2, <2>3, <2>4, OnceGoes
<1>6. CASE EcfUpdate
  <2>1. /\ At(EcfWorker, "update") /\ received' = received
        /\ trackId' = Answer(EcfWorker).trackId
        /\ \E step \in {"refund", "notify"} : Goto(EcfWorker, step)
    BY <1>6 DEF EcfUpdate
  <2>2. PICK step \in {"refund", "notify"} : Goto(EcfWorker, step)
    BY <2>1
  <2>3. step \in Steps
    BY DEF Steps
  <2>4. /\ OthersStay(EcfWorker) /\ proc'[EcfWorker].step = step
        /\ proc'[EcfWorker].seen = proc[EcfWorker].seen
    BY <1>1, <2>2, <2>3, GotoStep
  <2>5. Seen(EcfWorker).trackId = NoTrack
    BY DEF OnceInv
  <2>6. proc'[EcfWorker].seen.trackId = NoTrack
    BY <2>4, <2>5 DEF Seen
  <2> QED BY <1>1, <2>1, <2>4, <2>5, <2>6, OnceWrites
<1>7. ~EcfUpdateFails
  BY DEF EcfUpdateFails, AnswersArrive
<1>8. CASE SharedStep(EcfWorker)
  BY <1>1, <1>8, OnceShared
<1> QED BY <1>2, <1>3, <1>4, <1>5, <1>6, <1>7, <1>8 DEF EcfStep

\* The poll only recovers trackIds.
LEMMA OncePoll ==
  ASSUME AnswersArrive, Pipeline, StepsOwned, OneAtATime, OneAtATime', OnceInv, PollStep
  PROVE  OnceInv'
<1>1. TypeOK /\ PollWorker \in Actors /\ PollWorker \notin Submitters /\ PollWorker # EcfWorker
  BY PipelineAssumption DEF Pipeline, Actors, Submitters
<1> USE DEF row, dgii
<1>2. CASE PollLoad /\ ~UNCHANGED proc
  <2>1. /\ UNCHANGED <<received, trackId>>
        /\ \E step \in {"recover", "timeout", "query"} : Read(PollWorker, step)
    BY <1>2 DEF PollLoad
  <2>2. PICK step \in {"recover", "timeout", "query"} : Read(PollWorker, step)
    BY <2>1
  <2>3. step \in Steps
    BY DEF Steps
  <2>4. OthersStay(PollWorker) /\ proc'[PollWorker].step = step
    BY <1>1, <2>2, <2>3, ReadStep
  <2> QED BY <1>1, <2>1, <2>4, OnceMoves
<1>3. CASE PollLoad /\ UNCHANGED proc
  BY <1>3, OnceStays DEF PollLoad
<1>4. CASE PollRecover \/ PollGiveUp \/ PollUpdate \/ PollNotify \/ PollCatchNetwork \/ PollCatchError
  <2>1. /\ received' = received
        /\ \E step \in {"idle", "refund", "notify", "catch"} : Goto(PollWorker, step)
    BY <1>4 DEF PollRecover, PollGiveUp, PollUpdate, PollNotify, PollCatchNetwork, PollCatchError
  <2>2. trackId' = trackId \/ trackId' # NoTrack
    <3>1. CASE PollRecover
      <4>1. PICK i \in DOMAIN received : trackId' = i
        BY <3>1 DEF PollRecover
      <4>2. i # 0
        BY <1>1 DEF TypeOK
      <4> QED BY <4>1, <4>2 DEF NoTrack
    <3>2. CASE ~PollRecover
      BY <1>4, <3>2 DEF PollGiveUp, PollUpdate, PollNotify, PollCatchNetwork, PollCatchError
    <3> QED BY <3>1, <3>2
  <2>3. PICK step \in {"idle", "refund", "notify", "catch"} : Goto(PollWorker, step)
    BY <2>1
  <2>4. step \in Steps \ {"update"}
    BY DEF Steps
  <2> QED BY <1>1, <2>1, <2>2, <2>3, <2>4, OnceGoes
<1>5. CASE SharedStep(PollWorker)
  BY <1>1, <1>5, OnceShared
<1> QED BY <1>2, <1>3, <1>4, <1>5 DEF PollStep

\* A run of the contingency submits the e-CF only if the row has no trackId, and brings
\* the trackId of its answer.
LEMMA OnceRun ==
  ASSUME AnswersArrive, Pipeline, StepsOwned, OneAtATime, OneAtATime', OnceInv,
         NEW c \in Runs, RunStep(c)
  PROVE  OnceInv'
<1>1. TypeOK /\ c \in Actors /\ c \in Submitters /\ c # EcfWorker
  BY PipelineAssumption DEF Pipeline, Actors, Submitters
<1> USE DEF row, dgii
<1>2. CASE RunLoad(c)
  <2>1. /\ At(c, "idle") /\ UNCHANGED <<received, trackId>>
        /\ Read(c, IF trackId # NoTrack THEN "query" ELSE "submit")
    BY <1>2 DEF RunLoad, ReconcileStep
  <2>2. PICK step \in {"query", "submit"} :
          /\ Read(c, step)
          /\ step = "submit" => trackId = NoTrack
    BY <2>1
  <2>3. step \in Steps
    BY DEF Steps
  <2>4. /\ OthersStay(c) /\ proc'[c].step = step
        /\ proc'[c].seen = [status |-> status, trackId |-> trackId, rfce |-> hasRfce]
    BY <1>1, <2>2, <2>3, ReadStep
  <2>5. proc'[c].seen.trackId = trackId
    BY <2>4
  <2>6. step = "submit" => received = <<>>
    BY <1>1, <2>1, <2>2, <2>4, OnceStarts
  <2> QED BY <1>1, <2>1, <2>2, <2>4, <2>5, <2>6, OnceMoves DEF At
<1>3. CASE RunWindowExceeded(c) \/ RunEnqueue(c) \/ RunCatch(c)
  <2>1. /\ proc[c].step # "update" /\ UNCHANGED <<received, trackId>>
        /\ \E step \in {"idle", "catch"} : Goto(c, step)
    BY <1>3 DEF RunWindowExceeded, RunEnqueue, RunCatch, At
  <2>2. PICK step \in {"idle", "catch"} : Goto(c, step)
    BY <2>1
  <2>3. step \in Steps \ {"update"}
    BY DEF Steps
  <2>4. ~At(c, "update")
    BY <2>1 DEF At
  <2> QED BY <1>1, <2>1, <2>2, <2>3, <2>4, OnceGoes
<1>4. CASE RunUpdate(c)
  <2>1. /\ At(c, "update") /\ received' = received
        /\ trackId' = IF Seen(c).trackId = NoTrack THEN Answer(c).trackId ELSE trackId
        /\ \E step \in {"refund", "enqueue", "idle"} : Goto(c, step)
    BY <1>4 DEF RunUpdate, AfterRunUpdate
  <2>2. PICK step \in {"refund", "enqueue", "idle"} : Goto(c, step)
    BY <2>1
  <2>3. step \in Steps
    BY DEF Steps
  <2>4. OthersStay(c) /\ proc'[c].step = step
    BY <1>1, <2>2, <2>3, GotoStep
  <2> QED BY <1>1, <2>1, <2>4, OnceWrites
<1>5. ~RunUpdateFails(c)
  BY DEF RunUpdateFails, AnswersArrive
<1>6. CASE SharedStep(c)
  BY <1>1, <1>6, OnceShared
<1> QED BY <1>2, <1>3, <1>4, <1>5, <1>6 DEF RunStep

\* The API calls submit nothing and keep the trackId.
LEMMA OnceCalls ==
  ASSUME AnswersArrive, Pipeline, StepsOwned, OneAtATime, OneAtATime', OnceInv,
         \/ \E q \in Queries : QueryLoad(q) \/ QueryStep(q)
         \/ \E v \in Voids : VoidLoad(v) \/ VoidCommit(v)
         \/ \E m \in Marks : MarkLoad(m) \/ MarkWrite(m)
  PROVE  OnceInv'
<1>1. TypeOK
  BY DEF Pipeline
<1>2. \A p \in Queries \cup Voids \cup Marks : p \in Actors /\ p \notin Submitters /\ p # EcfWorker
  BY PipelineAssumption DEF Actors, Submitters
<1> USE DEF row, dgii
<1>3. ASSUME NEW q \in Queries, QueryLoad(q) PROVE OnceInv'
  <2>1. Read(q, "query") /\ UNCHANGED <<received, trackId>> /\ "query" \in Steps
    BY <1>3 DEF QueryLoad, Steps
  <2>2. OthersStay(q) /\ proc'[q].step = "query"
    BY <1>1, <1>2, <2>1, ReadStep
  <2> QED BY <1>2, <2>1, <2>2, OnceMoves
<1>4. ASSUME NEW q \in Queries, QueryStep(q) PROVE OnceInv'
  <2>1. CASE SharedStep(q)
    BY <1>2, <2>1, OnceShared
  <2>2. CASE QueryUpdate(q)
    <3>1. PICK step \in {"refund", "idle"} : Goto(q, step)
      BY <2>2 DEF QueryUpdate
    <3>2. step \in Steps \ {"update"} /\ UNCHANGED <<received, trackId>>
      BY <2>2 DEF Steps, QueryUpdate
    <3> QED BY <1>1, <1>2, <3>1, <3>2, OnceGoes
  <2> QED BY <1>4, <2>1, <2>2 DEF QueryStep
<1>5. ASSUME NEW p \in Voids \cup Marks, VoidLoad(p) \/ VoidCommit(p) \/ MarkLoad(p) \/ MarkWrite(p)
      PROVE  OnceInv'
  <2>1. PICK step \in {"void", "mark", "idle"} : Goto(p, step)
    BY <1>5 DEF VoidLoad, VoidCommit, MarkLoad, MarkWrite
  <2>2. step \in Steps \ {"update"} /\ UNCHANGED <<received, trackId>>
    BY <1>5 DEF Steps, VoidLoad, VoidCommit, MarkLoad, MarkWrite
  <2> QED BY <1>1, <1>2, <2>1, <2>2, OnceGoes
<1> QED BY <1>3, <1>4, <1>5

\* DGII decides; it receives nothing by that.
LEMMA OnceDecides ==
  ASSUME TypeOK, OnceInv, NEW i, NEW verdict, Decide(i, verdict)
  PROVE  OnceInv'
<1>1. /\ received' = [received EXCEPT ![i].verdict = verdict]
      /\ UNCHANGED <<proc, trackId>>
  BY DEF Decide, row
<1>2. i \in DOMAIN received /\ received \in Seq(Submission)
  BY DEF Decide, TypeOK
<1>3. Len(received') = Len(received) /\ received # <<>> /\ received' # <<>>
  BY <1>1, <1>2
<1> QED BY <1>1, <1>3 DEF OnceInv, InFlight, At, Seen, Answer

\* Every step keeps OnceInv.
LEMMA OnceStep ==
  ASSUME AnswersArrive, Pipeline, StepsOwned, OneAtATime, OnceInv,
         [Next /\ OneAtATime']_vars
  PROVE  OnceInv'
<1>1. CASE UNCHANGED vars
  BY <1>1, OnceStays DEF vars, row, dgii
<1>2. CASE Next /\ OneAtATime'
  <2> USE <1>2
  <2>1. CASE EcfStep
    BY <2>1, OnceEcf
  <2>2. CASE PollStep
    BY <2>2, OncePoll
  <2>3. ASSUME NEW c \in Runs, RunStep(c) PROVE OnceInv'
    BY <2>3, OnceRun
  <2>4. CASE \/ \E q \in Queries : QueryLoad(q) \/ QueryStep(q)
             \/ \E v \in Voids : VoidLoad(v) \/ VoidCommit(v)
             \/ \E m \in Marks : MarkLoad(m) \/ MarkWrite(m)
    BY <2>4, OnceCalls
  <2>5. \A p \in Actors : ~Crash(p)
    BY DEF Crash, AnswersArrive
  <2>6. ASSUME NEW i, NEW verdict, Decide(i, verdict) PROVE OnceInv'
    BY <2>6, OnceDecides DEF Pipeline
  <2>7. CASE EnqueueEcf \/ EnqueueLost \/ MarkAll \/ ReferenceAccepted \/ PollJobRemoved
    BY <2>7, OnceStays
       DEF EnqueueEcf, EnqueueLost, MarkAll, ReferenceAccepted, PollJobRemoved, row, dgii
  <2> QED BY <2>1, <2>2, <2>3, <2>4, <2>5, <2>6, <2>7 DEF Next
<1> QED BY <1>1, <1>2

\* What holds at the start.
LEMMA SerialInit ==
  ASSUME Init
  PROVE  StepsOwned /\ OneAtATime /\ OnceInv
<1>1. \A p \in Actors : proc[p] = Idle
  BY DEF Init
<1>2. \A p \in Actors : proc[p].step = "idle" /\ proc[p].seen.trackId = NoTrack
  BY <1>1 DEF Idle
<1>3. StepsOwned
  BY <1>2 DEF StepsOwned, OwnSteps
<1>4. OneAtATime
  BY <1>2 DEF OneAtATime
<1>5. received = <<>> /\ Len(received) = 0
  BY DEF Init
<1>6. EcfWorker \in Actors /\ Submitters \subseteq Actors
  BY DEF Actors, Submitters
<1>7. OnceInv
  BY <1>2, <1>5, <1>6 DEF OnceInv, At, Seen, InFlight
<1> QED BY <1>3, <1>4, <1>7

\* Handlers that do not interleave submit an e-CF once, by any number of attempts of the
\* job and of runs of the contingency queue, as long as DGII's answers arrive and are saved.
THEOREM SerialSubmitsOnce ==
  ASSUME AnswersArrive
  PROVE  SerialSpec => []SubmittedOnce
<1> DEFINE Inv == Pipeline /\ StepsOwned /\ OneAtATime /\ OnceInv
<1>1. Init => Inv
  BY InitPipeline, SerialInit
<1>2. Inv /\ [Next /\ OneAtATime']_vars => Inv'
  <2> SUFFICES ASSUME Inv, [Next /\ OneAtATime']_vars PROVE Inv'
    OBVIOUS
  <2>1. [Next]_vars /\ TypeOK
    BY DEF Pipeline
  <2>2. Pipeline'
    BY <2>1, NextPipeline
  <2>3. StepsOwned'
    BY <2>1, OwnedStep
  <2>4. OneAtATime'
    BY DEF OneAtATime, vars, Actors
  <2>5. OnceInv'
    BY OnceStep
  <2> QED BY <2>2, <2>3, <2>4, <2>5
<1>3. Inv => SubmittedOnce
  BY DEF OnceInv, SubmittedOnce
<1> QED BY <1>1, <1>2, <1>3, PTL DEF SerialSpec

-----------------------------------------------------------------------------
(* An accepted e-CF *)

\* A resting process that starts to rest, or the poll that goes on, leaves the others at rest.
LEMMA RestGoes ==
  ASSUME TypeOK, Resting, NEW p \in Actors, NEW step \in Steps, Goto(p, step),
         step = "idle" \/ (p = PollWorker /\ step = "catch")
  PROVE  Resting'
<1>1. OthersStay(p) /\ proc'[p].step = step
  BY GotoStep
<1> QED BY <1>1 DEF Resting, At, OthersStay

\* The job of a summary tells an acceptance to the webhooks without an error.
TellsAcceptance == IsRfce => "emit" \notin Faults

\* Nothing that starts or goes on once the e-CF is accepted changes its status.
LEMMA AcceptedKept ==
  ASSUME TypeOK, AcceptedRests, TellsAcceptance, Queries = {}, Next, status = "ACCEPTED"
  PROVE  status' = "ACCEPTED" /\ Resting'
<1>1. Resting /\ \A p \in Actors \ {EcfWorker, PollWorker} : At(p, "idle")
  BY DEF AcceptedRests, Resting
<1>2. "idle" \in Steps /\ "catch" \in Steps
  BY DEF Steps
<1>3. EcfWorker \in Actors /\ PollWorker \in Actors /\ EcfWorker # PollWorker
      /\ Runs \cup Voids \cup Marks \subseteq Actors \ {EcfWorker, PollWorker}
  BY PipelineAssumption DEF Actors
<1>4. /\ At(PollWorker, "idle") \/ proc[PollWorker].step \in {"notify", "catch"}
      /\ At(EcfWorker, "idle") \/ (At(EcfWorker, "notify") /\ "emit" \notin Faults)
  BY <1>1, <1>3 DEF Resting, TellsAcceptance
<1>5. \A p \in Actors : ~SharedStep(p)
  BY <1>1 DEF Resting, At, SharedStep, SubmitReceived, SubmitRefused, DgiiUnreachable, Query, Refund,
             Decrement
<1>6. CASE UNCHANGED <<status, proc>>
  BY <1>1, <1>6 DEF Resting, At
<1>7. CASE EcfStep
  <2>1. ~SharedStep(EcfWorker) /\ AlreadyProcessed
    BY <1>3, <1>5 DEF AlreadyProcessed
  <2>2. EcfSkip \/ EcfNotify \/ EcfOnFailed
    BY <1>4, <1>7, <2>1
       DEF EcfStep, EcfReconcile, EcfWaitReference, EcfStart, EcfSign, EcfXsdInvalid, EcfPrepare,
           EcfUpdate, EcfUpdateFails, EcfNotifyFails, EcfCatchNetwork, EcfCatchError, At
  <2>3. CASE EcfSkip \/ EcfOnFailed
    BY <1>6, <2>3 DEF EcfSkip, EcfOnFailed, row
  <2>4. CASE EcfNotify
    BY <1>1, <1>2, <1>3, <2>4, RestGoes DEF EcfNotify, row
  <2> QED BY <2>2, <2>3, <2>4
<1>8. CASE PollStep
  <2>1. PollLoad \/ PollNotify \/ PollCatchNetwork \/ PollCatchError
    BY <1>3, <1>4, <1>5, <1>8 DEF PollStep, PollRecover, PollGiveUp, PollUpdate, At
  <2>2. CASE PollLoad
    BY <1>6, <2>2 DEF PollLoad, row
  <2>3. CASE PollNotify \/ PollCatchNetwork \/ PollCatchError
    <3>1. status' = "ACCEPTED"
      BY <2>3 DEF PollNotify, PollCatchNetwork, PollCatchError, Clobbered, row
    <3>2. PICK step \in {"idle", "catch"} : Goto(PollWorker, step)
      BY <2>3 DEF PollNotify, PollCatchNetwork, PollCatchError
    <3> QED BY <1>1, <1>2, <1>3, <3>1, <3>2, RestGoes
  <2> QED BY <2>1, <2>2, <2>3
<1>9. ASSUME NEW c \in Runs PROVE ~RunStep(c)
  BY <1>1, <1>3, <1>5
     DEF RunStep, RunLoad, RunWindowExceeded, RunUpdate, RunUpdateFails, RunEnqueue, RunCatch, At
<1>10. /\ \A v \in Voids : ~VoidLoad(v) /\ ~VoidCommit(v)
       /\ \A m \in Marks : ~MarkLoad(m) /\ ~MarkWrite(m)
       /\ ~MarkAll
  BY <1>1, <1>3 DEF VoidLoad, Voidable, VoidCommit, MarkLoad, MarkWrite, MarkAll, At
<1>11. ASSUME NEW p \in Actors, Crash(p) PROVE status' = "ACCEPTED" /\ Resting'
  BY <1>1, <1>2, <1>11, RestGoes DEF Crash, row
<1>12. CASE EnqueueEcf \/ EnqueueLost \/ ReferenceAccepted \/ PollJobRemoved
  BY <1>6, <1>12 DEF EnqueueEcf, EnqueueLost, ReferenceAccepted, PollJobRemoved, row
<1>13. ASSUME NEW i, NEW verdict, Decide(i, verdict) PROVE status' = "ACCEPTED" /\ Resting'
  BY <1>6, <1>13 DEF Decide, row
<1> QED BY <1>7, <1>8, <1>9, <1>10, <1>11, <1>12, <1>13 DEF Next

\* An e-CF becomes accepted by the poll, by a run of the contingency or, a summary, by its job.
LEMMA Acceptance ==
  ASSUME TypeOK, AcceptedRests, Queries = {}, Next, status # "ACCEPTED", status' = "ACCEPTED"
  PROVE  \/ PollUpdate
         \/ \E c \in Runs : RunUpdate(c)
         \/ EcfUpdate /\ IsRfce
<1> USE DEF row
<1>1. \A p \in Actors : ~SharedStep(p)
  BY DEF SharedStep, SubmitReceived, SubmitRefused, DgiiUnreachable, Query, Refund, Decrement
<1>2. EcfWorker \in Actors /\ PollWorker \in Actors /\ Runs \subseteq Actors
  BY DEF Actors
<1>3. CASE EcfStep
  BY <1>1, <1>2, <1>3
     DEF EcfStep, EcfSkip, EcfReconcile, EcfWaitReference, EcfStart, EcfSign, EcfXsdInvalid,
         EcfPrepare, EcfUpdate, EcfUpdateFails, EcfNotify, EcfNotifyFails, EcfCatchNetwork,
         EcfCatchError, EcfOnFailed, AcceptedRests
<1>4. CASE PollStep
  BY <1>1, <1>2, <1>4
     DEF PollStep, PollLoad, PollRecover, PollGiveUp, PollNotify, PollCatchNetwork, PollCatchError
<1>5. ASSUME NEW c \in Runs, RunStep(c) PROVE RunUpdate(c)
  BY <1>1, <1>2, <1>5
     DEF RunStep, RunLoad, RunWindowExceeded, RunUpdateFails, RunEnqueue, RunCatch
<1>6. /\ \A v \in Voids : ~VoidLoad(v) /\ ~VoidCommit(v)
      /\ \A m \in Marks : ~MarkLoad(m) /\ ~MarkWrite(m)
      /\ ~MarkAll
  BY DEF VoidLoad, VoidCommit, MarkLoad, MarkWrite, MarkAll
<1>7. \A p \in Actors : ~Crash(p)
  BY DEF Crash
<1>8. ~(EnqueueEcf \/ EnqueueLost \/ ReferenceAccepted \/ PollJobRemoved)
  BY DEF EnqueueEcf, EnqueueLost, ReferenceAccepted, PollJobRemoved
<1>9. \A i \in 1 .. MaxSubmits, verdict \in Verdicts : ~Decide(i, verdict)
  BY DEF Decide
<1> QED BY <1>3, <1>4, <1>5, <1>6, <1>7, <1>8, <1>9 DEF Next

\* Who makes the e-CF accepted was the only one in a handler: now everybody rests.
LEMMA AcceptedLeavesRest ==
  ASSUME TypeOK, OneAtATime, AcceptedRests, Queries = {}, Next, status # "ACCEPTED",
         status' = "ACCEPTED"
  PROVE  Resting'
<1>1. ASSUME NEW p \in Actors, NEW step \in {"notify", "idle"}, At(p, "update"), Goto(p, step),
             step = "idle" \/ p = PollWorker \/ (p = EcfWorker /\ IsRfce)
      PROVE  Resting'
  <2>1. OthersStay(p) /\ proc'[p].step = step
    BY <1>1, GotoStep DEF Steps
  <2> QED BY <1>1, <2>1 DEF OneAtATime, Resting, OthersStay, At
<1>2. CASE PollUpdate
  <2>1. Answer(PollWorker).status # "REJECTED"
    BY <1>2 DEF PollUpdate
  <2>2. At(PollWorker, "update") /\ PollWorker \in Actors
        /\ \E step \in {"notify", "idle"} : Goto(PollWorker, step)
    BY <1>2, <2>1 DEF PollUpdate, Actors
  <2> QED BY <1>1, <2>2
<1>3. ASSUME NEW c \in Runs, RunUpdate(c) PROVE Resting'
  <2>1. At(c, "update") /\ c \in Actors /\ Goto(c, "idle")
    BY <1>3 DEF RunUpdate, AfterRunUpdate, Actors
  <2> QED BY <1>1, <2>1
<1>4. CASE EcfUpdate /\ IsRfce
  <2>1. At(EcfWorker, "update") /\ EcfWorker \in Actors /\ Goto(EcfWorker, "notify")
    BY <1>4 DEF EcfUpdate, Actors
  <2> QED BY <1>1, <1>4, <2>1
<1> QED BY <1>2, <1>3, <1>4, Acceptance

\* The job of an e-CF never saves an acceptance: its endpoint answers with a trackId or an error.
LEMMA EcfAnswerStep ==
  ASSUME TypeOK, StepsOwned, AcceptedRests, ~IsRfce, Next, At(EcfWorker, "update")'
  PROVE  Answer(EcfWorker)'.status # "ACCEPTED"
<1>1. EcfWorker \in Actors /\ proc[EcfWorker].step \in OwnSteps(EcfWorker)
  BY DEF StepsOwned, Actors
<1>2. CASE proc'[EcfWorker] = proc[EcfWorker]
  BY <1>2 DEF AcceptedRests, At, Answer
<1>3. ASSUME NEW s, NEW track, Answered(EcfWorker, s, track), s # "ACCEPTED"
      PROVE  Answer(EcfWorker)'.status # "ACCEPTED"
  <2>1. proc'[EcfWorker].answer = [status |-> s, trackId |-> track]
    BY <1>1, <1>3, AnsweredStep
  <2>2. [status |-> s, trackId |-> track].status = s
    OBVIOUS
  <2> QED BY <1>3, <2>1, <2>2 DEF Answer
<1>4. ASSUME NEW step \in Steps \ {"update"} PROVE ~Goto(EcfWorker, step)
  BY <1>1, <1>4, GotoStep DEF At
<1>5. ASSUME NEW p \in Actors \ {EcfWorker}, OthersStay(p) PROVE Answer(EcfWorker)'.status # "ACCEPTED"
  BY <1>1, <1>2, <1>5 DEF OthersStay
<1>6. CASE SharedStep(EcfWorker)
  <2>1. CASE SubmitReceived(EcfWorker) \/ SubmitRefused(EcfWorker)
    <3>1. ~Failed(EcfWorker)
      BY <1>1, FailedStep DEF At
    <3>2. CASE SubmitReceived(EcfWorker)
      <4>1. PICK verdict : \E a \in Answers("ECF", verdict, Len(received) + 1) :
                             Answered(EcfWorker, a.status, a.trackId)
        BY <3>1, <3>2 DEF SubmitReceived, Channel
      <4>2. PICK a \in Answers("ECF", verdict, Len(received) + 1) :
              Answered(EcfWorker, a.status, a.trackId)
        BY <4>1
      <4>3. a.status = "PROCESSING"
        BY DEF Answers
      <4> QED BY <1>3, <4>2, <4>3
    <3>3. CASE SubmitRefused(EcfWorker)
      <4>1. Answered(EcfWorker, "REJECTED", NoTrack)
        BY <3>3 DEF SubmitRefused, Channel
      <4> QED BY <1>3, <4>1
    <3> QED BY <2>1, <3>2, <3>3
  <2>2. ~DgiiUnreachable(EcfWorker)
    BY <1>1, FailedStep DEF DgiiUnreachable, At
  <2>3. ~Query(EcfWorker)
    BY <1>1, PipelineAssumption DEF Query, At, OwnSteps
  <2>4. ~Refund(EcfWorker) /\ ~Decrement(EcfWorker)
    BY <1>4 DEF Refund, Decrement, AfterRefund, Steps
  <2> QED BY <1>6, <2>1, <2>2, <2>3, <2>4 DEF SharedStep
<1>7. CASE EcfStep /\ ~SharedStep(EcfWorker)
  <2>1. \A step \in {"idle", "sign", "prepare", "submit", "refund", "notify", "catchNetwork",
                      "catchError"} : step \in Steps \ {"update"}
    BY DEF Steps
  <2>2. UNCHANGED proc
    BY <1>4, <1>7, <2>1
       DEF EcfStep, EcfSkip, EcfReconcile, EcfWaitReference, EcfStart, EcfSign, EcfXsdInvalid,
           EcfPrepare, EcfUpdate, EcfUpdateFails, EcfNotify, EcfNotifyFails, EcfCatchNetwork,
           EcfCatchError, EcfOnFailed
  <2> QED BY <1>2, <2>2
<1>8. \/ EcfStep
      \/ \E p \in Actors \ {EcfWorker} : OthersStay(p)
      \/ \E p \in Actors : Crash(p)
      \/ UNCHANGED proc
  <2> USE DEF Goto, Read, Answered, Failed, OthersStay, TypeOK
  <2>1. EcfWorker # PollWorker /\ PollWorker \in Actors
        /\ Runs \cup Queries \cup Voids \cup Marks \subseteq Actors \ {EcfWorker}
    BY PipelineAssumption DEF Actors
  <2>2. ASSUME NEW p \in Actors, SharedStep(p) PROVE OthersStay(p)
    BY <2>2 DEF SharedStep, SubmitReceived, SubmitRefused, DgiiUnreachable, Query, Refund, Decrement
  <2>3. PollStep => OthersStay(PollWorker)
    BY <2>1, <2>2
       DEF PollStep, PollLoad, PollRecover, PollGiveUp, PollUpdate, PollNotify, PollCatchNetwork,
           PollCatchError
  <2>4. \A c \in Runs : RunStep(c) => OthersStay(c)
    BY <2>1, <2>2
       DEF RunStep, RunLoad, RunWindowExceeded, RunUpdate, RunUpdateFails, RunEnqueue, RunCatch
  <2>5. \A q \in Queries : QueryLoad(q) \/ QueryStep(q) => OthersStay(q)
    BY <2>1, <2>2 DEF QueryLoad, QueryStep, QueryUpdate
  <2>6. \A v \in Voids : VoidLoad(v) \/ VoidCommit(v) => OthersStay(v)
    BY <2>1 DEF VoidLoad, VoidCommit
  <2>7. \A m \in Marks : MarkLoad(m) \/ MarkWrite(m) => OthersStay(m)
    BY <2>1 DEF MarkLoad, MarkWrite
  <2>8. \/ EnqueueEcf \/ EnqueueLost \/ MarkAll \/ ReferenceAccepted \/ PollJobRemoved
        \/ \E i \in 1 .. MaxSubmits, verdict \in Verdicts : Decide(i, verdict)
        => UNCHANGED proc
    BY DEF EnqueueEcf, EnqueueLost, MarkAll, ReferenceAccepted, PollJobRemoved, Decide
  <2> QED BY <2>1, <2>3, <2>4, <2>5, <2>6, <2>7, <2>8 DEF Next
<1>9. ASSUME NEW p \in Actors, Crash(p) PROVE Answer(EcfWorker)'.status # "ACCEPTED"
  <2>1. Goto(p, "idle") /\ "idle" \in Steps \ {"update"}
    BY <1>9 DEF Crash, Steps
  <2> QED BY <1>4, <1>5, <2>1, GotoStep
<1> QED BY <1>2, <1>5, <1>6, <1>7, <1>8, <1>9

\* Handlers that do not interleave never take an accepted e-CF out of its state, whatever
\* fails, when no call of pollStatus asks DGII again.  For a summary the emission of the
\* webhook is not to fail: the catch block of its job would write over the acceptance.
THEOREM SerialAcceptanceStays ==
  ASSUME TellsAcceptance, Queries = {}
  PROVE  SerialSpec => AcceptedStays
<1> DEFINE Inv == Pipeline /\ StepsOwned /\ OneAtATime /\ AcceptedRests
<1>1. Init => Inv
  <2> SUFFICES ASSUME Init PROVE AcceptedRests
    BY InitPipeline, SerialInit
  <2>1. status = "QUEUED" /\ proc[EcfWorker] = Idle
    BY DEF Init, Actors
  <2> QED BY <2>1 DEF AcceptedRests, At, Idle
<1>2. ASSUME Inv, Next, OneAtATime' PROVE Inv' /\ (status = "ACCEPTED" => status' = "ACCEPTED")
  <2>1. Pipeline' /\ StepsOwned' /\ TypeOK
    BY <1>2, NextPipeline, OwnedStep DEF Pipeline
  <2>2. status = "ACCEPTED" => status' = "ACCEPTED" /\ Resting'
    BY <1>2, <2>1, AcceptedKept
  <2>3. status # "ACCEPTED" /\ status' = "ACCEPTED" => Resting'
    BY <1>2, <2>1, AcceptedLeavesRest
  <2>4. ~IsRfce /\ At(EcfWorker, "update")' => Answer(EcfWorker)'.status # "ACCEPTED"
    BY <1>2, <2>1, EcfAnswerStep
  <2>5. AcceptedRests'
    BY <2>2, <2>3, <2>4 DEF AcceptedRests
  <2> QED BY <1>2, <2>1, <2>2, <2>5
<1>3. Inv /\ [Next /\ OneAtATime']_vars => Inv' /\ [status = "ACCEPTED" => status' = "ACCEPTED"]_vars
  <2>1. ASSUME Inv, UNCHANGED vars PROVE Inv'
    <3>1. Pipeline' /\ StepsOwned'
      BY <2>1, NextPipeline, OwnedStep DEF Pipeline
    <3>2. OneAtATime' /\ AcceptedRests'
      BY <2>1 DEF OneAtATime, AcceptedRests, Resting, At, Answer, vars, row
    <3> QED BY <3>1, <3>2
  <2> QED BY <1>2, <2>1
<1> QED BY <1>1, <1>3, PTL DEF SerialSpec, AcceptedStays

-----------------------------------------------------------------------------
(***************************************************************************)
(* The refinement of InvoiceLifecycle.  Most steps of the pipeline are no   *)
(* steps of the life of the invoice: reading, signing, asking DGII, the     *)
(* jobs.  The others are one step of it each.                              *)
(***************************************************************************)

\* While the invoice is queued nothing but its job has begun, and no poll is scheduled.
QueuedRests ==
  status = "QUEUED" =>
    /\ trackId = NoTrack /\ pollJob = "none"
    /\ \A p \in Actors : At(p, "idle") \/ (p = EcfWorker /\ proc[p].step \in {"sign", "catchError"})

\* What the answers in hand say, and that the poll asks about an invoice without a verdict.
AnswersInHand ==
  \A p \in Actors :
    /\ At(p, "update") => Answer(p).status \in Verdicts \cup {"PROCESSING", "SENT"}
    /\ proc[p].step \in {"refund", "decrement"} => Answer(p).status = "REJECTED"
    /\ p = PollWorker /\ proc[p].step \in {"query", "update"} =>
         Seen(p).status \notin {"ACCEPTED", "REJECTED", "VOIDED"}

Living == Pipeline /\ StepsOwned /\ QueuedRests /\ AnswersInHand

\* What a process has to do is nothing, unless it is at one of four steps.
LEMMA TodoIs ==
  ASSUME NEW p \in Actors
  PROVE  /\ proc[p].step \notin {"void", "refund", "decrement", "notify"} => Todo(p) = "nothing"
         /\ At(p, "notify") /\ Answer(p).status # "ACCEPTED" => Todo(p) = "nothing"
         /\ At(p, "notify") /\ Answer(p).status = "ACCEPTED" => Todo(p) = "announce"
         /\ At(p, "void") => Todo(p) = "void"
         /\ At(p, "refund") => Todo(p) = "refund"
         /\ At(p, "decrement") => Todo(p) = "decrement"
BY DEF Todo, At

\* Only the process that moves has something else to do.
LEMMA TodoOfOne ==
  ASSUME NEW p \in Actors, OthersStay(p)
  PROVE  [q \in Actors |-> Todo(q)]' = [[q \in Actors |-> Todo(q)] EXCEPT ![p] = (Todo(p))']
<1>1. \A q \in Actors \ {p} : (Todo(q))' = Todo(q)
  BY DEF OthersStay, Todo, At, Answer
<1> QED BY <1>1

\* A step that its clients do not see.
LEMMA Unseen ==
  ASSUME NEW p \in Actors, OthersStay(p), (Todo(p))' = Todo(p),
         UNCHANGED <<status, received, quota, notified>>
  PROVE  UNCHANGED Lifecycle!lifecycleVars
<1>1. [q \in Actors |-> Todo(q)]' = [q \in Actors |-> Todo(q)]
  BY TodoOfOne
<1> QED BY <1>1 DEF Lifecycle!lifecycleVars, quota

\* A step that moves no process and changes nothing of the invoice.
LEMMA NotSeen ==
  ASSUME UNCHANGED <<proc, status, received, quota, notified>>
  PROVE  UNCHANGED Lifecycle!lifecycleVars
<1>1. [q \in Actors |-> Todo(q)]' = [q \in Actors |-> Todo(q)]
  BY DEF Todo, At, Answer
<1> QED BY <1>1 DEF Lifecycle!lifecycleVars, quota

\* A step to a status without a verdict, by a process that has nothing to do for it.
LEMMA SeenMove ==
  ASSUME NEW p \in Actors, OthersStay(p), (Todo(p))' = Todo(p),
         status' \in {"PROCESSING", "SENT", "CONTINGENCY", "ERROR"},
         status = "QUEUED" => status' \in {"PROCESSING", "ERROR"},
         UNCHANGED <<received, quota, notified>>
  PROVE  Lifecycle!LifecycleNext
<1>1. [q \in Actors |-> Todo(q)]' = [q \in Actors |-> Todo(q)]
  BY TodoOfOne
<1> QED BY <1>1 DEF Lifecycle!LifecycleNext, Lifecycle!Begin, Lifecycle!Move, quota

\* The verdicts that DGII has given.
LEMMA SaidIs ==
  ASSUME NEW s, s # "PROCESSING"
  PROVE  Reported(s) <=> s \in {received[i].verdict : i \in DOMAIN received} \ {"PROCESSING"}
BY DEF Reported

\* A step to a verdict.
LEMMA SeenVerdict ==
  ASSUME NEW p \in Actors, OthersStay(p), Todo(p) = "nothing", status # "QUEUED",
         status' \in Verdicts,
         status' = "REJECTED" => (Todo(p))' = "refund",
         status' # "REJECTED" => Reported(status'),
         status' = "CONDITIONAL" => (Todo(p))' = "nothing",
         status' = "ACCEPTED" => (Todo(p))' \in {"nothing", "announce"},
         UNCHANGED <<received, quota, notified>>
  PROVE  Lifecycle!LifecycleNext
<1>1. [q \in Actors |-> Todo(q)]' = [[q \in Actors |-> Todo(q)] EXCEPT ![p] = (Todo(p))']
  BY TodoOfOne
<1>2. [q \in Actors |-> Todo(q)][p] = "nothing"
  OBVIOUS
<1>3. CASE status' = "REJECTED"
  <2>1. Lifecycle!Reject(p)
    BY <1>1, <1>2, <1>3 DEF Lifecycle!Reject, Lifecycle!Becomes, quota
  <2> QED BY <2>1 DEF Lifecycle!LifecycleNext
<1>4. CASE status' # "REJECTED"
  <2>1. status' \in {"ACCEPTED", "CONDITIONAL"}
    BY <1>4 DEF Verdicts
  <2>2. status' \in {received[i].verdict : i \in DOMAIN received} \ {"PROCESSING"}
    BY <1>4, <2>1, SaidIs
  <2>3. Lifecycle!Accept(p)
    BY <1>1, <1>2, <2>1, <2>2 DEF Lifecycle!Accept, Lifecycle!Becomes, quota
  <2> QED BY <2>3 DEF Lifecycle!LifecycleNext
<1> QED BY <1>3, <1>4

\* A step that forgets what was to be done.
LEMMA SeenForget ==
  ASSUME NEW p \in Actors, OthersStay(p), (Todo(p))' = "nothing",
         UNCHANGED <<status, received, quota, notified>>
  PROVE  [Lifecycle!LifecycleNext]_(Lifecycle!lifecycleVars)
<1>1. CASE Todo(p) = "nothing"
  BY <1>1, Unseen
<1>2. CASE Todo(p) # "nothing"
  <2>1. [q \in Actors |-> Todo(q)]' = [[q \in Actors |-> Todo(q)] EXCEPT ![p] = (Todo(p))']
    BY TodoOfOne
  <2>2. [q \in Actors |-> Todo(q)][p] # "nothing"
    BY <1>2
  <2>3. Lifecycle!Forget(p)
    BY <2>1, <2>2 DEF Lifecycle!Forget, Lifecycle!Becomes, quota
  <2> QED BY <2>3 DEF Lifecycle!LifecycleNext
<1> QED BY <1>1, <1>2

\* What a process that has moved has to do.
LEMMA TodoThen ==
  ASSUME NEW p \in Actors
  PROVE  /\ proc'[p].step \notin {"void", "refund", "decrement", "notify"} => (Todo(p))' = "nothing"
         /\ proc'[p].step = "notify" /\ proc'[p].answer.status # "ACCEPTED" => (Todo(p))' = "nothing"
         /\ proc'[p].step = "notify" /\ proc'[p].answer.status = "ACCEPTED" => (Todo(p))' = "announce"
         /\ proc'[p].step = "void" => (Todo(p))' = "void"
         /\ proc'[p].step = "refund" => (Todo(p))' = "refund"
         /\ proc'[p].step = "decrement" => (Todo(p))' = "decrement"
BY DEF Todo, At, Answer

\* The claim of a refund is one of its life.
LEMMA SeenClaim ==
  ASSUME TypeOK, AnswersInHand, NEW p \in Actors, Refund(p)
  PROVE  Lifecycle!LifecycleNext
<1>1. PICK step \in {"decrement", "notify", "idle"} :
        Goto(p, step) /\ step = IF ClaimWon THEN "decrement" ELSE AfterRefund(p)
  BY DEF Refund, AfterRefund
<1>2. step \in Steps
  BY DEF Steps
<1>3. OthersStay(p) /\ proc'[p].step = step
      /\ (step # "idle" => proc'[p].answer = proc[p].answer)
  BY <1>1, <1>2, GotoStep
<1>4. proc[p].answer.status = "REJECTED" /\ Todo(p) = "refund"
  BY TodoIs DEF AnswersInHand, Refund, At, Answer
<1>5. (Todo(p))' = IF usageReverted THEN "nothing" ELSE "decrement"
  <2>1. CASE usageReverted
    <3>1. step \in {"notify", "idle"}
      BY <1>1, <2>1 DEF ClaimWon, AfterRefund
    <3> QED BY <1>3, <1>4, <2>1, <3>1, TodoThen
  <2>2. CASE ~usageReverted
    BY <1>1, <1>3, <2>2, TodoThen DEF ClaimWon
  <2> QED BY <2>1, <2>2
<1>6. [q \in Actors |-> Todo(q)]' = [[q \in Actors |-> Todo(q)] EXCEPT ![p] = (Todo(p))']
  BY <1>3, TodoOfOne
<1>7. [q \in Actors |-> Todo(q)][p] = "refund"
  BY <1>4
<1>8. UNCHANGED <<status, received, refunds, notified>> /\ usageReverted' = TRUE
  BY DEF Refund, row, dgii
<1>9. Lifecycle!Claim(p)
  BY <1>5, <1>6, <1>7, <1>8 DEF Lifecycle!Claim, Lifecycle!Becomes
<1> QED BY <1>9 DEF Lifecycle!LifecycleNext

\* So is the refund itself, unless it fails: then it is forgotten.
LEMMA SeenDecrement ==
  ASSUME TypeOK, AnswersInHand, NEW p \in Actors, Decrement(p)
  PROVE  Lifecycle!LifecycleNext
<1>1. PICK step \in {"notify", "idle"} : Goto(p, step)
  BY DEF Decrement, AfterRefund
<1>2. step \in Steps
  BY DEF Steps
<1>3. OthersStay(p) /\ proc'[p].step = step
      /\ (step # "idle" => proc'[p].answer = proc[p].answer)
  BY <1>1, <1>2, GotoStep
<1>4. proc[p].answer.status = "REJECTED" /\ Todo(p) = "decrement"
  BY TodoIs DEF AnswersInHand, Decrement, At, Answer
<1>5. (Todo(p))' = "nothing"
  BY <1>3, <1>4, TodoThen
<1>6. [q \in Actors |-> Todo(q)]' = [[q \in Actors |-> Todo(q)] EXCEPT ![p] = "nothing"]
  BY <1>3, <1>5, TodoOfOne
<1>7. [q \in Actors |-> Todo(q)][p] = "decrement"
  BY <1>4
<1>8. UNCHANGED <<status, received, usageReverted, notified>>
  BY DEF Decrement, row, dgii
<1>9. CASE refunds' = refunds + 1
  <2>1. Lifecycle!GiveBack(p)
    BY <1>6, <1>7, <1>8, <1>9 DEF Lifecycle!GiveBack, Lifecycle!Becomes
  <2> QED BY <2>1 DEF Lifecycle!LifecycleNext
<1>10. CASE UNCHANGED refunds
  <2>1. Lifecycle!Forget(p)
    BY <1>6, <1>7, <1>8, <1>10 DEF Lifecycle!Forget, Lifecycle!Becomes
  <2> QED BY <2>1 DEF Lifecycle!LifecycleNext
<1> QED BY <1>9, <1>10 DEF Decrement

\* A verdict that is added to those of DGII.
LEMMA SeenSay ==
  ASSUME NEW v \in Verdicts,
         {received[i].verdict : i \in DOMAIN received}' \ {"PROCESSING"}
           = ({received[i].verdict : i \in DOMAIN received} \ {"PROCESSING"}) \cup {v},
         [q \in Actors |-> Todo(q)]' = [q \in Actors |-> Todo(q)],
         UNCHANGED <<status, quota, notified>>
  PROVE  Lifecycle!LifecycleNext
<1>1. Lifecycle!Say
  BY DEF Lifecycle!Say, Verdicts, quota
<1> QED BY <1>1 DEF Lifecycle!LifecycleNext

\* DGII decides on a submission.
LEMMA SeenDecide ==
  ASSUME TypeOK, NEW i, NEW v \in Verdicts, Decide(i, v)
  PROVE  Lifecycle!LifecycleNext
<1>1. /\ i \in DOMAIN received /\ received[i].verdict = "PROCESSING"
      /\ received' = [received EXCEPT ![i].verdict = v]
      /\ UNCHANGED <<status, quota, notified, proc>>
  BY DEF Decide, row
<1>2. \A j \in DOMAIN received : received[j] \in Submission
  BY DEF TypeOK
<1>3. DOMAIN received' = DOMAIN received
  BY <1>1
<1>4. received'[i].verdict = v /\ \A j \in DOMAIN received \ {i} : received'[j] = received[j]
  BY <1>1, <1>2 DEF Submission
<1>5. {received[j].verdict : j \in DOMAIN received}' \ {"PROCESSING"}
        = ({received[j].verdict : j \in DOMAIN received} \ {"PROCESSING"}) \cup {v}
  BY <1>1, <1>3, <1>4 DEF Verdicts
<1>6. [q \in Actors |-> Todo(q)]' = [q \in Actors |-> Todo(q)]
  BY <1>1 DEF Todo, At, Answer
<1> QED BY <1>1, <1>5, <1>6, SeenSay

\* A process that is answered, or whose call throws, has nothing to do yet.
LEMMA AnsweredIdle ==
  ASSUME TypeOK, NEW p \in Actors, proc[p].step \in {"prepare", "submit", "query"},
         Failed(p) \/ \E s, track : Answered(p, s, track)
  PROVE  OthersStay(p) /\ Todo(p) = "nothing" /\ (Todo(p))' = "nothing"
<1>1. Todo(p) = "nothing"
  BY TodoIs
<1>2. OthersStay(p) /\ proc'[p].step \in {"catchNetwork", "idle", "catch", "update"}
  <2>1. CASE Failed(p)
    BY <2>1, FailedStep
  <2>2. ASSUME NEW s, NEW track, Answered(p, s, track)
        PROVE  OthersStay(p) /\ proc'[p].step = "update"
    BY <2>2, AnsweredStep
  <2> QED BY <2>1, <2>2
<1> QED BY <1>1, <1>2, TodoThen

\* DGII takes a submission, and a summary with its verdict.
LEMMA SeenSubmit ==
  ASSUME TypeOK, NEW p \in Actors, SubmitReceived(p)
  PROVE  [Lifecycle!LifecycleNext]_(Lifecycle!lifecycleVars)
<1> DEFINE n == Len(received) + 1
<1>1. PICK verdict \in Verdicts \cup {"PROCESSING"} :
        received' = Append(received, [channel |-> Channel(p), verdict |-> verdict])
  BY DEF SubmitReceived
<1>2. proc[p].step = "submit" /\ (Failed(p) \/ \E s, track : Answered(p, s, track))
  BY DEF SubmitReceived, At
<1>3. OthersStay(p) /\ (Todo(p))' = Todo(p)
  BY <1>2, AnsweredIdle
<1>4. [q \in Actors |-> Todo(q)]' = [q \in Actors |-> Todo(q)]
  BY <1>3, TodoOfOne
<1>5. UNCHANGED <<status, quota, notified>>
  BY DEF SubmitReceived, row
<1>6. [channel |-> Channel(p), verdict |-> verdict] \in Submission
  BY <1>1 DEF Submission, Channel
<1>7. /\ Len(received') = n
      /\ \A i \in 1 .. Len(received) : received'[i] = received[i]
      /\ received'[n] = [channel |-> Channel(p), verdict |-> verdict]
      /\ received' \in Seq(Submission)
  BY <1>1, <1>6, AppendProperties DEF TypeOK
<1>8. /\ Len(received) \in Nat /\ DOMAIN received = 1 .. Len(received)
      /\ DOMAIN received' = 1 .. n
  <2>1. received \in Seq(Submission)
    BY DEF TypeOK
  <2> QED BY <1>7, <2>1, LenProperties
<1>9. {received[i].verdict : i \in DOMAIN received}'
        = {received[i].verdict : i \in DOMAIN received} \cup {verdict}
  <2>1. received'[n].verdict = verdict
    BY <1>7
  <2>2. DOMAIN received' = DOMAIN received \cup {n} /\ n \notin DOMAIN received
    BY <1>8
  <2>3. \A i \in DOMAIN received : received'[i] = received[i]
    BY <1>7, <1>8
  <2> HIDE DEF n
  <2> QED BY <2>1, <2>2, <2>3
<1>10. CASE verdict = "PROCESSING"
  <2>1. {received[i].verdict : i \in DOMAIN received}' \ {"PROCESSING"}
          = {received[i].verdict : i \in DOMAIN received} \ {"PROCESSING"}
    BY <1>9, <1>10
  <2> QED BY <1>4, <1>5, <2>1 DEF Lifecycle!lifecycleVars, quota
<1>11. CASE verdict # "PROCESSING"
  <2>1. {received[i].verdict : i \in DOMAIN received}' \ {"PROCESSING"}
          = ({received[i].verdict : i \in DOMAIN received} \ {"PROCESSING"}) \cup {verdict}
    BY <1>9, <1>11
  <2>2. verdict \in Verdicts
    BY <1>11
  <2> QED BY <1>4, <1>5, <2>1, <2>2, SeenSay
<1> QED BY <1>10, <1>11

\* The conversations with DGII and the refunds.
LEMMA SeenShared ==
  ASSUME TypeOK, AnswersInHand, NEW p \in Actors, SharedStep(p)
  PROVE  [Lifecycle!LifecycleNext]_(Lifecycle!lifecycleVars)
<1>1. CASE SubmitReceived(p)
  BY <1>1, SeenSubmit
<1>2. CASE SubmitRefused(p) \/ DgiiUnreachable(p) \/ Query(p)
  <2>1. /\ proc[p].step \in {"prepare", "submit", "query"}
        /\ Failed(p) \/ \E s, track : Answered(p, s, track)
        /\ UNCHANGED <<status, received, quota, notified>>
    BY <1>2 DEF SubmitRefused, DgiiUnreachable, Query, At, row, dgii
  <2>2. OthersStay(p) /\ (Todo(p))' = Todo(p)
    BY <2>1, AnsweredIdle
  <2> QED BY <2>1, <2>2, Unseen
<1>3. CASE Refund(p)
  BY <1>3, SeenClaim
<1>4. CASE Decrement(p)
  BY <1>4, SeenDecrement
<1> QED BY <1>1, <1>2, <1>3, <1>4 DEF SharedStep

\* A step with nothing to do after it.
LEMMA GoesWithNothing ==
  ASSUME TypeOK, NEW p \in Actors,
         NEW step \in Steps \ {"void", "refund", "decrement", "notify"}, Goto(p, step)
  PROVE  OthersStay(p) /\ (Todo(p))' = "nothing"
BY GotoStep, TodoThen

\* Who is busy has found the invoice signed.
LEMMA BusyIsBegun ==
  ASSUME QueuedRests, NEW p \in Actors, proc[p].step \notin {"idle", "sign", "catchError"}
  PROVE  status # "QUEUED"
BY DEF QueuedRests, At

\* The end of a handler that tells an acceptance to the webhooks.
LEMMA SeenAnnounce ==
  ASSUME TypeOK, NEW p \in Actors, At(p, "notify"), Goto(p, "idle"),
         notified' = IF Answer(p).status = "ACCEPTED" THEN notified \cup {"accepted"} ELSE notified,
         UNCHANGED <<status, received, quota>>
  PROVE  [Lifecycle!LifecycleNext]_(Lifecycle!lifecycleVars)
<1>1. OthersStay(p) /\ (Todo(p))' = "nothing"
  BY GoesWithNothing DEF Steps
<1>2. CASE Answer(p).status = "ACCEPTED"
  <2>1. Todo(p) = "announce"
    BY <1>2, TodoIs
  <2>2. [q \in Actors |-> Todo(q)]' = [[q \in Actors |-> Todo(q)] EXCEPT ![p] = "nothing"]
    BY <1>1, TodoOfOne
  <2>3. [q \in Actors |-> Todo(q)][p] = "announce"
    BY <2>1
  <2>4. Lifecycle!Announce(p)
    BY <1>2, <2>2, <2>3 DEF Lifecycle!Announce, Lifecycle!Becomes, quota
  <2> QED BY <2>4 DEF Lifecycle!LifecycleNext
<1>3. CASE Answer(p).status # "ACCEPTED"
  <2>1. Todo(p) = "nothing"
    BY <1>3, TodoIs
  <2> QED BY <1>1, <1>3, <2>1, Unseen
<1> QED BY <1>2, <1>3

\* The update with an answer of DGII: what is favourable in it DGII said, and a rejection is
\* refunded.
LEMMA SeenUpdate ==
  ASSUME Pipeline, QueuedRests, AnswersInHand, NEW p \in Actors, At(p, "update"), OthersStay(p),
         status' \in {Answer(p).status, "PROCESSING"},
         status' = "REJECTED" => proc'[p].step = "refund",
         status' # "REJECTED" => proc'[p].step \in {"notify", "enqueue", "idle"},
         proc'[p].step = "notify" => proc'[p].answer.status = status',
         UNCHANGED <<received, quota, notified>>
  PROVE  Lifecycle!LifecycleNext
<1>1. status # "QUEUED" /\ Todo(p) = "nothing"
  BY BusyIsBegun, TodoIs DEF At
<1>2. status' \in Verdicts \cup {"PROCESSING", "SENT"}
  BY DEF AnswersInHand
<1>3. /\ status' = "REJECTED" => (Todo(p))' = "refund"
      /\ status' \notin {"REJECTED", "ACCEPTED"} => (Todo(p))' = "nothing"
      /\ status' = "ACCEPTED" => (Todo(p))' \in {"nothing", "announce"}
  BY TodoThen
<1>4. CASE status' \in Verdicts
  <2>1. Sound(proc[p])
    BY DEF Pipeline
  <2>2. status' = Answer(p).status
    BY <1>4 DEF Verdicts
  <2>3. status' # "REJECTED" => Reported(status')
    BY <1>4, <2>1, <2>2 DEF Sound, Verdicts, Answer
  <2> QED BY <1>1, <1>3, <1>4, <2>3, SeenVerdict
<1>5. CASE status' \notin Verdicts
  <2>1. status' \in {"PROCESSING", "SENT"} /\ (Todo(p))' = Todo(p)
    BY <1>1, <1>2, <1>3, <1>5 DEF Verdicts
  <2> QED BY <1>1, <2>1, SeenMove
<1> QED BY <1>4, <1>5

\* A process that gives the invoice up, or puts it in contingency.
LEMMA SeenGiveUp ==
  ASSUME TypeOK, NEW p \in Actors,
         proc[p].step \notin {"void", "refund", "decrement", "notify"},
         NEW step \in Steps \ {"void", "refund", "decrement", "notify"}, Goto(p, step),
         status' \in {"PROCESSING", "CONTINGENCY", "ERROR"},
         status = "QUEUED" => status' \in {"PROCESSING", "ERROR"},
         UNCHANGED <<received, quota, notified>>
  PROVE  Lifecycle!LifecycleNext
<1>1. OthersStay(p) /\ (Todo(p))' = Todo(p)
  BY GoesWithNothing, TodoIs
<1> QED BY <1>1, SeenMove

\* A process that goes on and has nothing to do before or after.
LEMMA UnseenGoto ==
  ASSUME TypeOK, NEW p \in Actors,
         proc[p].step \notin {"void", "refund", "decrement", "notify"},
         NEW step \in Steps \ {"void", "refund", "decrement", "notify"}, Goto(p, step),
         UNCHANGED <<status, received, quota, notified>>
  PROVE  UNCHANGED Lifecycle!lifecycleVars
<1>1. OthersStay(p) /\ (Todo(p))' = Todo(p)
  BY GoesWithNothing, TodoIs
<1> QED BY <1>1, Unseen

\* The job of the invoice.
LEMMA SeenEcf ==
  ASSUME Living, EcfStep
  PROVE  [Lifecycle!LifecycleNext]_(Lifecycle!lifecycleVars)
<1> USE DEF row, dgii, quota
<1>1. TypeOK /\ Pipeline /\ QueuedRests /\ AnswersInHand /\ EcfWorker \in Actors
  BY DEF Living, Pipeline, Actors
<1>2. \A step \in {"idle", "sign", "prepare", "submit", "catchNetwork", "catchError"} :
        step \in Steps \ {"void", "refund", "decrement", "notify"}
  BY DEF Steps
<1>3. "refund" \in Steps /\ "notify" \in Steps
  BY DEF Steps
<1>4. CASE EcfSkip \/ EcfReconcile \/ EcfWaitReference
  BY <1>4, NotSeen DEF EcfSkip, EcfReconcile, EcfWaitReference
<1>5. CASE EcfStart \/ EcfPrepare \/ EcfUpdateFails \/ (EcfSign /\ UNCHANGED status)
  <2>1. PICK step \in {"idle", "sign", "prepare", "submit", "catchNetwork", "catchError"} :
          Goto(EcfWorker, step)
    BY <1>5 DEF EcfStart, EcfPrepare, EcfUpdateFails, EcfSign
  <2>2. proc[EcfWorker].step \notin {"void", "refund", "decrement", "notify"}
        /\ UNCHANGED <<status, received, quota, notified>>
    BY <1>5 DEF EcfStart, EcfPrepare, EcfUpdateFails, EcfSign, At
  <2> QED BY <1>1, <1>2, <2>1, <2>2, UnseenGoto
<1>6. CASE (EcfSign /\ status' = "PROCESSING") \/ EcfXsdInvalid \/ EcfCatchNetwork \/ EcfCatchError
  <2>1. PICK step \in {"idle", "sign", "prepare", "submit", "catchNetwork", "catchError"} :
          Goto(EcfWorker, step)
    BY <1>6 DEF EcfSign, EcfXsdInvalid, EcfCatchNetwork, EcfCatchError
  <2>2. proc[EcfWorker].step \notin {"void", "refund", "decrement", "notify"}
        /\ UNCHANGED <<received, quota, notified>>
    BY <1>6 DEF EcfSign, EcfXsdInvalid, EcfCatchNetwork, EcfCatchError, At
  <2>3. status' \in {"PROCESSING", "CONTINGENCY", "ERROR"}
        /\ (status = "QUEUED" => status' \in {"PROCESSING", "ERROR"})
    BY <1>1, <1>6, BusyIsBegun DEF EcfSign, EcfXsdInvalid, EcfCatchNetwork, EcfCatchError, At
  <2> QED BY <1>1, <1>2, <2>1, <2>2, <2>3, SeenGiveUp
<1>7. CASE EcfUpdate
  <2>1. /\ status' = Answer(EcfWorker).status /\ At(EcfWorker, "update")
        /\ UNCHANGED <<received, quota, notified>>
    BY <1>7 DEF EcfUpdate
  <2>2. PICK step \in {"refund", "notify"} :
          Goto(EcfWorker, step) /\ step = IF status' = "REJECTED" THEN "refund" ELSE "notify"
    BY <1>7 DEF EcfUpdate
  <2>3. /\ OthersStay(EcfWorker) /\ proc'[EcfWorker].step = step
        /\ proc'[EcfWorker].answer = proc[EcfWorker].answer
    BY <1>1, <1>3, <2>2, GotoStep
  <2> QED BY <1>1, <2>1, <2>2, <2>3, SeenUpdate DEF Answer
<1>8. CASE EcfNotify
  BY <1>1, <1>8, SeenAnnounce DEF EcfNotify
<1>9. CASE EcfNotifyFails
  <2>1. PICK step \in {"catchNetwork", "catchError"} : Goto(EcfWorker, step)
    BY <1>9 DEF EcfNotifyFails
  <2>2. UNCHANGED <<status, received, quota, notified>>
    BY <1>9 DEF EcfNotifyFails
  <2> QED BY <1>1, <1>2, <2>1, <2>2, GoesWithNothing, SeenForget
<1>10. CASE EcfOnFailed
  <2>1. [q \in Actors |-> Todo(q)]' = [q \in Actors |-> Todo(q)]
    BY <1>10 DEF EcfOnFailed, Todo, At, Answer
  <2>2. CASE UNCHANGED notified
    BY <1>10, <2>2, NotSeen DEF EcfOnFailed
  <2>3. CASE status = "CONTINGENCY" /\ notified' = notified \cup {"contingency"}
    <3>1. Lifecycle!Warn
      BY <1>10, <2>1, <2>3 DEF Lifecycle!Warn, EcfOnFailed
    <3> QED BY <3>1 DEF Lifecycle!LifecycleNext
  <2> QED BY <1>10, <2>2, <2>3 DEF EcfOnFailed
<1>11. CASE SharedStep(EcfWorker)
  BY <1>1, <1>11, SeenShared
<1>12. EcfSign => UNCHANGED status \/ status' = "PROCESSING"
  BY DEF EcfSign
<1> QED BY <1>4, <1>5, <1>6, <1>7, <1>8, <1>9, <1>10, <1>11, <1>12 DEF EcfStep

\* A process that reads the row.
LEMMA UnseenRead ==
  ASSUME TypeOK, NEW p \in Actors, At(p, "idle"),
         NEW step \in {"recover", "timeout", "query", "submit"}, Read(p, step),
         UNCHANGED <<status, received, quota, notified>>
  PROVE  UNCHANGED Lifecycle!lifecycleVars
<1>1. OthersStay(p) /\ proc'[p].step = step
  BY ReadStep DEF Steps
<1>2. (Todo(p))' = Todo(p)
  BY <1>1, TodoIs, TodoThen DEF At
<1> QED BY <1>1, <1>2, Unseen

\* The poll job.
LEMMA SeenPoll ==
  ASSUME Living, PollStep
  PROVE  [Lifecycle!LifecycleNext]_(Lifecycle!lifecycleVars)
<1> USE DEF row, dgii, quota
<1>1. TypeOK /\ Pipeline /\ QueuedRests /\ AnswersInHand /\ PollWorker \in Actors
  BY DEF Living, Pipeline, Actors
<1>2. \A step \in {"idle", "catch"} : step \in Steps \ {"void", "refund", "decrement", "notify"}
  BY DEF Steps
<1>3. "refund" \in Steps /\ "notify" \in Steps
  BY DEF Steps
<1>4. CASE PollLoad
  <2>1. CASE UNCHANGED proc
    BY <1>4, <2>1, NotSeen DEF PollLoad
  <2>2. CASE ~UNCHANGED proc
    <3>1. PICK step \in {"recover", "timeout", "query"} : Read(PollWorker, step)
      BY <1>4, <2>2 DEF PollLoad
    <3>2. At(PollWorker, "idle") /\ UNCHANGED <<status, received, quota, notified>>
      BY <1>4 DEF PollLoad
    <3> QED BY <1>1, <3>1, <3>2, UnseenRead
  <2> QED BY <2>1, <2>2
<1>5. CASE PollRecover \/ PollCatchNetwork \/ (PollCatchError /\ UNCHANGED status)
  <2>1. Goto(PollWorker, "idle") /\ UNCHANGED <<status, received, quota, notified>>
        /\ proc[PollWorker].step \notin {"void", "refund", "decrement", "notify"}
    BY <1>5 DEF PollRecover, PollCatchNetwork, PollCatchError, At
  <2> QED BY <1>1, <1>2, <2>1, UnseenGoto
<1>6. CASE PollGiveUp \/ (PollCatchError /\ status' = "ERROR")
  <2>1. Goto(PollWorker, "idle") /\ status' = "ERROR" /\ UNCHANGED <<received, quota, notified>>
        /\ proc[PollWorker].step \notin {"void", "refund", "decrement", "notify"}
    BY <1>6 DEF PollGiveUp, PollCatchError, At
  <2> QED BY <1>1, <1>2, <2>1, SeenGiveUp
<1>7. CASE PollUpdate
  <2> DEFINE new == Answer(PollWorker).status
  <2>1. /\ At(PollWorker, "update") /\ UNCHANGED <<received, quota, notified>>
        /\ status' = IF new # Seen(PollWorker).status THEN new ELSE status
    BY <1>7 DEF PollUpdate
  <2>2. PICK step \in {"refund", "notify", "idle"} :
          /\ Goto(PollWorker, step)
          /\ step = "refund" <=> new = "REJECTED"
    BY <1>7 DEF PollUpdate, Verdicts
  <2>3. OthersStay(PollWorker) /\ proc'[PollWorker].step = step
        /\ (step # "idle" => proc'[PollWorker].answer = proc[PollWorker].answer)
    BY <1>1, <1>2, <1>3, <2>2, GotoStep
  <2>4. CASE new # Seen(PollWorker).status
    BY <1>1, <2>1, <2>2, <2>3, <2>4, SeenUpdate DEF Answer
  <2>5. CASE new = Seen(PollWorker).status
    <3>1. new \notin {"ACCEPTED", "REJECTED"} /\ UNCHANGED status
      BY <1>1, <2>1, <2>5 DEF AnswersInHand, At
    <3>2. Todo(PollWorker) = "nothing" /\ (Todo(PollWorker))' = "nothing"
      BY <1>1, <2>1, <2>2, <2>3, <3>1, TodoIs, TodoThen DEF At, Answer
    <3> QED BY <1>1, <2>1, <2>3, <3>1, <3>2, Unseen
  <2> QED BY <2>4, <2>5
<1>8. CASE PollNotify /\ Goto(PollWorker, "idle")
      /\ notified' = IF Answer(PollWorker).status = "ACCEPTED"
                       THEN notified \cup {"accepted"} ELSE notified
  BY <1>1, <1>8, SeenAnnounce DEF PollNotify
<1>9. CASE PollNotify /\ Goto(PollWorker, "catch") /\ UNCHANGED notified
  <2>1. UNCHANGED <<status, received, quota, notified>>
    BY <1>9 DEF PollNotify
  <2> QED BY <1>1, <1>2, <1>9, <2>1, GoesWithNothing, SeenForget
<1>10. CASE SharedStep(PollWorker)
  BY <1>1, <1>10, SeenShared
<1>11. PollCatchError => UNCHANGED status \/ status' = "ERROR"
  BY DEF PollCatchError
<1>12. ASSUME PollNotify
       PROVE  \/ /\ Goto(PollWorker, "idle")
                 /\ notified' = IF Answer(PollWorker).status = "ACCEPTED"
                                  THEN notified \cup {"accepted"} ELSE notified
              \/ Goto(PollWorker, "catch") /\ UNCHANGED notified
  BY <1>12 DEF PollNotify
<1> QED BY <1>4, <1>5, <1>6, <1>7, <1>8, <1>9, <1>10, <1>11, <1>12 DEF PollStep

\* A run of the contingency queue.
LEMMA SeenRun ==
  ASSUME Living, NEW c \in Runs, RunStep(c)
  PROVE  [Lifecycle!LifecycleNext]_(Lifecycle!lifecycleVars)
<1> USE DEF row, dgii, quota
<1>1. TypeOK /\ Pipeline /\ QueuedRests /\ AnswersInHand /\ c \in Actors
  BY DEF Living, Pipeline, Actors
<1>2. \A step \in {"idle", "catch"} : step \in Steps \ {"void", "refund", "decrement", "notify"}
  BY DEF Steps
<1>3. CASE RunLoad(c)
  <2>1. PICK step \in {"query", "submit"} : Read(c, step)
    BY <1>3 DEF RunLoad, ReconcileStep
  <2>2. At(c, "idle") /\ UNCHANGED <<status, received, quota, notified>>
    BY <1>3 DEF RunLoad
  <2> QED BY <1>1, <2>1, <2>2, UnseenRead
<1>4. CASE RunWindowExceeded(c) \/ RunCatch(c)
  <2>1. Goto(c, "idle") /\ status' = "ERROR" /\ UNCHANGED <<received, quota, notified>>
        /\ proc[c].step \notin {"void", "refund", "decrement", "notify"}
    BY <1>4 DEF RunWindowExceeded, RunCatch, At
  <2> QED BY <1>1, <1>2, <2>1, SeenGiveUp
<1>5. CASE RunUpdate(c)
  <2>1. /\ At(c, "update") /\ UNCHANGED <<received, quota, notified>>
        /\ status' \in {Answer(c).status, "PROCESSING"}
    BY <1>5 DEF RunUpdate, RunStatus
  <2>2. PICK step \in {"refund", "enqueue", "idle"} :
          Goto(c, step) /\ (status' = "REJECTED" => step = "refund")
                        /\ (status' # "REJECTED" => step \in {"enqueue", "idle"})
    BY <1>5 DEF RunUpdate, AfterRunUpdate
  <2>3. OthersStay(c) /\ proc'[c].step = step
    BY <1>1, <2>2, GotoStep DEF Steps
  <2> QED BY <1>1, <2>1, <2>2, <2>3, SeenUpdate
<1>6. CASE RunUpdateFails(c) \/ RunEnqueue(c)
  <2>1. PICK step \in {"idle", "catch"} : Goto(c, step)
    BY <1>6 DEF RunUpdateFails, RunEnqueue
  <2>2. proc[c].step \notin {"void", "refund", "decrement", "notify"}
        /\ UNCHANGED <<status, received, quota, notified>>
    BY <1>6 DEF RunUpdateFails, RunEnqueue, At
  <2> QED BY <1>1, <1>2, <2>1, <2>2, UnseenGoto
<1>7. CASE SharedStep(c)
  BY <1>1, <1>7, SeenShared
<1> QED BY <1>3, <1>4, <1>5, <1>6, <1>7 DEF RunStep

\* A call of pollStatus.
LEMMA SeenQuery ==
  ASSUME Living, NEW q \in Queries, QueryLoad(q) \/ QueryStep(q)
  PROVE  [Lifecycle!LifecycleNext]_(Lifecycle!lifecycleVars)
<1> USE DEF row, dgii, quota
<1>1. TypeOK /\ Pipeline /\ QueuedRests /\ AnswersInHand /\ q \in Actors
  BY DEF Living, Pipeline, Actors
<1>2. CASE QueryLoad(q)
  BY <1>1, <1>2, UnseenRead DEF QueryLoad
<1>3. CASE QueryUpdate(q)
  <2> DEFINE new == Answer(q).status
  <2>1. /\ At(q, "update") /\ UNCHANGED <<received, quota, notified>>
        /\ status' = IF new # Seen(q).status THEN new ELSE status
    BY <1>3 DEF QueryUpdate
  <2>2. PICK step \in {"refund", "idle"} :
          /\ Goto(q, step)
          /\ step = "refund" <=> new = "REJECTED" /\ new # Seen(q).status
    BY <1>3 DEF QueryUpdate
  <2>3. OthersStay(q) /\ proc'[q].step = step
    BY <1>1, <2>2, GotoStep DEF Steps
  <2>4. CASE new # Seen(q).status
    BY <1>1, <2>1, <2>2, <2>3, <2>4, SeenUpdate
  <2>5. CASE new = Seen(q).status
    <3>1. (Todo(q))' = Todo(q) /\ UNCHANGED status
      BY <2>1, <2>2, <2>3, <2>5, <1>1, TodoIs, TodoThen DEF At
    <3> QED BY <1>1, <2>1, <2>3, <3>1, Unseen
  <2> QED BY <2>4, <2>5
<1>4. CASE SharedStep(q)
  BY <1>1, <1>4, SeenShared
<1> QED BY <1>2, <1>3, <1>4 DEF QueryStep

\* A call of voidInvoice: granted, and then written.
LEMMA SeenVoid ==
  ASSUME Living, NEW v \in Voids, VoidLoad(v) \/ VoidCommit(v)
  PROVE  [Lifecycle!LifecycleNext]_(Lifecycle!lifecycleVars)
<1> USE DEF row, dgii, quota
<1>1. TypeOK /\ QueuedRests /\ v \in Actors
  BY DEF Living, Pipeline, Actors
<1>2. "idle" \in Steps /\ "void" \in Steps
  BY DEF Steps
<1>3. CASE VoidLoad(v)
  <2>1. OthersStay(v) /\ proc'[v].step = "void" /\ Todo(v) = "nothing"
    BY <1>1, <1>2, <1>3, GotoStep, TodoIs DEF VoidLoad, At
  <2>2. [q \in Actors |-> Todo(q)]' = [[q \in Actors |-> Todo(q)] EXCEPT ![v] = "void"]
    BY <1>1, <2>1, TodoThen, TodoOfOne
  <2>3. [q \in Actors |-> Todo(q)][v] = "nothing"
    BY <1>1, <2>1
  <2>4. Lifecycle!GrantVoid(v)
    BY <1>3, <2>2, <2>3 DEF Lifecycle!GrantVoid, Lifecycle!Becomes, VoidLoad, Voidable
  <2> QED BY <1>1, <2>4 DEF Lifecycle!LifecycleNext
<1>4. CASE VoidCommit(v)
  <2>1. OthersStay(v) /\ proc'[v].step = "idle" /\ Todo(v) = "void" /\ status # "QUEUED"
    BY <1>1, <1>2, <1>4, GotoStep, TodoIs, BusyIsBegun DEF VoidCommit, At
  <2>2. [q \in Actors |-> Todo(q)]' = [[q \in Actors |-> Todo(q)] EXCEPT ![v] = "nothing"]
    BY <1>1, <2>1, TodoThen, TodoOfOne
  <2>3. [q \in Actors |-> Todo(q)][v] = "void"
    BY <1>1, <2>1
  <2>4. /\ status' = "VOIDED" /\ usageReverted' = TRUE /\ UNCHANGED <<received, notified>>
        /\ refunds' = IF usageReverted THEN refunds ELSE refunds + 1
    BY <1>4 DEF VoidCommit, ClaimWon
  <2>5. Lifecycle!Void(v)
    BY <2>1, <2>2, <2>3, <2>4 DEF Lifecycle!Void, Lifecycle!Becomes
  <2> QED BY <1>1, <2>5 DEF Lifecycle!LifecycleNext
<1> QED BY <1>3, <1>4

\* The calls that mark the invoice for retry.
LEMMA SeenMark ==
  ASSUME Living, MarkAll \/ \E m \in Marks : MarkLoad(m) \/ MarkWrite(m)
  PROVE  [Lifecycle!LifecycleNext]_(Lifecycle!lifecycleVars)
<1> USE DEF row, dgii, quota
<1>1. TypeOK /\ QueuedRests /\ Marks \subseteq Actors
  BY DEF Living, Pipeline, Actors
<1>2. \A step \in {"idle", "mark"} : step \in Steps \ {"void", "refund", "decrement", "notify"}
  BY DEF Steps
<1>3. CASE MarkAll
  <2>1. [q \in Actors |-> Todo(q)]' = [q \in Actors |-> Todo(q)]
    BY <1>3 DEF MarkAll, Todo, At, Answer
  <2>2. Lifecycle!Move
    BY <1>3, <2>1 DEF MarkAll, Lifecycle!Move
  <2> QED BY <2>2 DEF Lifecycle!LifecycleNext
<1>4. ASSUME NEW m \in Marks, MarkLoad(m) PROVE UNCHANGED Lifecycle!lifecycleVars
  BY <1>1, <1>2, <1>4, UnseenGoto DEF MarkLoad, At
<1>5. ASSUME NEW m \in Marks, MarkWrite(m) PROVE Lifecycle!LifecycleNext
  <2>1. /\ Goto(m, "idle") /\ status' = "CONTINGENCY" /\ UNCHANGED <<received, quota, notified>>
        /\ proc[m].step = "mark"
    BY <1>5 DEF MarkWrite, At
  <2>2. status # "QUEUED"
    BY <1>1, <2>1, BusyIsBegun
  <2> QED BY <1>1, <1>2, <2>1, <2>2, SeenGiveUp
<1> QED BY <1>3, <1>4, <1>5

\* Every step of the pipeline is one of the life of the invoice, or its clients do not see it.
LEMMA LifecycleStep ==
  ASSUME Living, [Next]_vars
  PROVE  [Lifecycle!LifecycleNext]_(Lifecycle!lifecycleVars)
<1>1. TypeOK
  BY DEF Living, Pipeline
<1>2. ASSUME NEW p \in Actors, Crash(p) PROVE [Lifecycle!LifecycleNext]_(Lifecycle!lifecycleVars)
  <2>1. Goto(p, "idle") /\ UNCHANGED <<status, received, quota, notified>>
    BY <1>2 DEF Crash, row, dgii
  <2> QED BY <1>1, <2>1, GoesWithNothing, SeenForget DEF Steps
<1>3. CASE EnqueueEcf \/ EnqueueLost \/ ReferenceAccepted \/ PollJobRemoved \/ UNCHANGED vars
  BY <1>3, NotSeen
     DEF EnqueueEcf, EnqueueLost, ReferenceAccepted, PollJobRemoved, vars, row, dgii, quota
<1>4. ASSUME NEW i \in 1 .. MaxSubmits, NEW verdict \in Verdicts, Decide(i, verdict)
      PROVE  Lifecycle!LifecycleNext
  BY <1>1, <1>4, SeenDecide
<1> QED BY <1>2, <1>3, <1>4, SeenEcf, SeenPoll, SeenRun, SeenQuery, SeenVoid, SeenMark DEF Next

\* Who goes on to a step carries the same answer.
LEMMA AnswersGo ==
  ASSUME TypeOK, AnswersInHand, NEW p \in Actors, NEW step \in Steps \ {"update", "query"},
         Goto(p, step), step \in {"refund", "decrement"} => Answer(p).status = "REJECTED"
  PROVE  AnswersInHand'
<1>1. /\ OthersStay(p) /\ proc'[p].step = step
      /\ step # "idle" => proc'[p].answer = proc[p].answer
  BY GotoStep
<1> QED BY <1>1 DEF AnswersInHand, OthersStay, At, Answer, Seen

\* Who reads the row is not yet answered; the poll asks only about an invoice without a verdict.
LEMMA AnswersRead ==
  ASSUME TypeOK, AnswersInHand, NEW p \in Actors,
         NEW step \in {"recover", "timeout", "query", "submit"}, Read(p, step),
         p = PollWorker => status \notin {"ACCEPTED", "REJECTED", "VOIDED"}
  PROVE  AnswersInHand'
<1>1. /\ OthersStay(p) /\ proc'[p].step = step
      /\ proc'[p].seen = [status |-> status, trackId |-> trackId, rfce |-> hasRfce]
  BY ReadStep DEF Steps
<1>2. proc'[p].seen.status = status
  BY <1>1
<1> QED BY <1>1, <1>2 DEF AnswersInHand, OthersStay, At, Answer, Seen

\* Who is answered has a verdict, or none yet.
LEMMA AnswersCome ==
  ASSUME TypeOK, AnswersInHand, NEW p \in Actors, NEW s \in Verdicts \cup {"PROCESSING", "SENT"},
         NEW track, Answered(p, s, track), p = PollWorker => At(p, "query")
  PROVE  AnswersInHand'
<1>1. /\ OthersStay(p) /\ proc'[p].step = "update" /\ proc'[p].seen = proc[p].seen
      /\ proc'[p].answer = [status |-> s, trackId |-> track]
  BY AnsweredStep
<1>2. proc'[p].answer.status = s
  BY <1>1
<1> QED BY <1>1, <1>2 DEF AnswersInHand, OthersStay, At, Answer, Seen

\* The conversations with DGII and the refunds.
LEMMA AnswersShared ==
  ASSUME Living, NEW p \in Actors, SharedStep(p)
  PROVE  AnswersInHand'
<1>1. TypeOK /\ AnswersInHand /\ proc[p].step \in OwnSteps(p) /\ Sound(proc[p])
  BY DEF Living, Pipeline, StepsOwned
<1>2. CASE Failed(p)
  <2>1. PICK step \in {"catchNetwork", "idle", "catch"} : Goto(p, step)
    BY <1>2 DEF Failed
  <2> QED BY <1>1, <2>1, AnswersGo DEF Steps
<1>3. At(p, "submit") => p # PollWorker
  BY <1>1, PipelineAssumption DEF OwnSteps, At
<1>4. CASE SubmitReceived(p)
  <2>1. CASE ~Failed(p)
    <3>1. PICK verdict \in Verdicts \cup {"PROCESSING"} :
            \E a \in Answers(Channel(p), verdict, Len(received) + 1) : Answered(p, a.status, a.trackId)
      BY <1>4, <2>1 DEF SubmitReceived
    <3>2. PICK a \in Answers(Channel(p), verdict, Len(received) + 1) : Answered(p, a.status, a.trackId)
      BY <3>1
    <3>3. a.status \in Verdicts \cup {"PROCESSING", "SENT"}
      <4>1. CASE Channel(p) = "FC"
        BY <3>2, <4>1 DEF Answers
      <4>2. CASE Channel(p) # "FC"
        BY <3>2, <4>2 DEF Answers
      <4> QED BY <4>1, <4>2
    <3> QED BY <1>1, <1>3, <1>4, <3>2, <3>3, AnswersCome DEF SubmitReceived
  <2> QED BY <1>2, <2>1
<1>5. CASE SubmitRefused(p)
  <2>1. PICK s \in {"SENT", "REJECTED"} : Answered(p, s, NoTrack)
    BY <1>5 DEF SubmitRefused
  <2> QED BY <1>1, <1>3, <1>5, <2>1, AnswersCome DEF SubmitRefused, Verdicts
<1>6. CASE Query(p)
  <2>1. Seen(p).trackId \in DOMAIN received
    <3>1. Seen(p).trackId \in 0 .. MaxSubmits /\ Seen(p).trackId # 0
          /\ Seen(p).trackId <= Len(received)
      BY <1>1, <1>6 DEF Query, At, Sound, Process, Seen, NoTrack
    <3>2. DOMAIN received = 1 .. Len(received) /\ Len(received) \in Nat
      <4>1. received \in Seq(Submission)
        BY <1>1 DEF TypeOK
      <4> QED BY <4>1, LenProperties
    <3> QED BY <3>1, <3>2, PipelineAssumption
  <2>2. received[Seen(p).trackId] \in Submission
    BY <1>1, <2>1 DEF TypeOK
  <2>3. received[Seen(p).trackId].verdict \in Verdicts \cup {"PROCESSING"}
    BY <2>2 DEF Submission
  <2>4. PICK s \in Verdicts \cup {"PROCESSING", "SENT"} : Answered(p, s, Seen(p).trackId)
    BY <1>6, <2>3 DEF Query
  <2> QED BY <1>1, <1>6, <2>4, AnswersCome DEF Query
<1>7. CASE Refund(p) \/ Decrement(p)
  <2>1. PICK step \in {"decrement", "notify", "idle"} : Goto(p, step)
    BY <1>7 DEF Refund, Decrement, AfterRefund
  <2>2. Answer(p).status = "REJECTED"
    BY <1>1, <1>7 DEF AnswersInHand, Refund, Decrement, At
  <2> QED BY <1>1, <2>1, <2>2, AnswersGo DEF Steps
<1> QED BY <1>2, <1>4, <1>5, <1>6, <1>7 DEF SharedStep, DgiiUnreachable

\* The answers in hand stay what they are.
LEMMA AnswersKept ==
  ASSUME Living, [Next]_vars
  PROVE  AnswersInHand'
<1>1. TypeOK /\ AnswersInHand
  BY DEF Living, Pipeline
<1>2. \A step \in {"idle", "sign", "prepare", "submit", "notify", "enqueue", "catch", "catchNetwork",
                   "catchError", "void", "mark"} :
        step \in Steps \ {"update", "query"} /\ step \notin {"refund", "decrement"}
  BY DEF Steps
<1>3. "refund" \in Steps \ {"update", "query"}
  BY DEF Steps
<1>4. ASSUME NEW p \in Actors,
             NEW step \in {"idle", "sign", "prepare", "submit", "notify", "enqueue", "catch",
                           "catchNetwork", "catchError", "void", "mark"}, Goto(p, step)
      PROVE  AnswersInHand'
  BY <1>1, <1>2, <1>4, AnswersGo
<1>5. ASSUME NEW p \in Actors, Goto(p, "refund"), Answer(p).status = "REJECTED" PROVE AnswersInHand'
  BY <1>1, <1>3, <1>5, AnswersGo
<1>6. CASE UNCHANGED proc
  BY <1>1, <1>6 DEF AnswersInHand, At, Answer, Seen
<1>7. EcfWorker \in Actors /\ PollWorker \in Actors /\ EcfWorker # PollWorker
      /\ Runs \cup Queries \cup Voids \cup Marks \subseteq Actors \ {PollWorker}
  BY PipelineAssumption DEF Actors
<1>8. ASSUME NEW p \in Actors, SharedStep(p) PROVE AnswersInHand'
  BY <1>8, AnswersShared
<1>9. CASE EcfStep
  <2>1. \/ UNCHANGED proc
        \/ SharedStep(EcfWorker)
        \/ \E step \in {"idle", "sign", "prepare", "submit", "notify", "catchNetwork", "catchError"} :
             Goto(EcfWorker, step)
        \/ Goto(EcfWorker, "refund") /\ Answer(EcfWorker).status = "REJECTED"
    BY <1>9
       DEF EcfStep, EcfSkip, EcfReconcile, EcfWaitReference, EcfStart, EcfSign, EcfXsdInvalid,
           EcfPrepare, EcfUpdate, EcfUpdateFails, EcfNotify, EcfNotifyFails, EcfCatchNetwork,
           EcfCatchError, EcfOnFailed
  <2> QED BY <1>4, <1>5, <1>6, <1>7, <1>8, <2>1
<1>10. CASE PollStep
  <2>1. CASE PollLoad
    <3>1. CASE ~UNCHANGED proc
      <4>1. PICK step \in {"recover", "timeout", "query"} : Read(PollWorker, step)
        BY <2>1, <3>1 DEF PollLoad
      <4>2. status \notin {"ACCEPTED", "REJECTED", "VOIDED"}
        BY <2>1, <3>1 DEF PollLoad
      <4> QED BY <1>1, <1>7, <4>1, <4>2, AnswersRead
    <3> QED BY <1>6, <3>1
  <2>2. CASE ~PollLoad
    <3>1. \/ SharedStep(PollWorker)
          \/ \E step \in {"idle", "notify", "catch"} : Goto(PollWorker, step)
          \/ Goto(PollWorker, "refund") /\ Answer(PollWorker).status = "REJECTED"
      BY <1>10, <2>2
         DEF PollStep, PollRecover, PollGiveUp, PollUpdate, PollNotify, PollCatchNetwork,
             PollCatchError
    <3> QED BY <1>4, <1>5, <1>7, <1>8, <3>1
  <2> QED BY <2>1, <2>2
<1>11. ASSUME NEW c \in Runs, RunStep(c) PROVE AnswersInHand'
  <2>1. CASE RunLoad(c)
    <3>1. PICK step \in {"query", "submit"} : Read(c, step)
      BY <2>1 DEF RunLoad, ReconcileStep
    <3> QED BY <1>1, <1>7, <3>1, AnswersRead
  <2>2. CASE ~RunLoad(c)
    <3>1. \/ SharedStep(c)
          \/ \E step \in {"idle", "enqueue", "catch"} : Goto(c, step)
          \/ Goto(c, "refund") /\ Answer(c).status = "REJECTED"
      BY <1>11, <2>2
         DEF RunStep, RunWindowExceeded, RunUpdate, RunStatus, AfterRunUpdate, RunUpdateFails,
             RunEnqueue, RunCatch
    <3> QED BY <1>4, <1>5, <1>7, <1>8, <3>1
  <2> QED BY <2>1, <2>2
<1>12. ASSUME NEW q \in Queries, QueryLoad(q) \/ QueryStep(q) PROVE AnswersInHand'
  <2>1. CASE QueryLoad(q)
    BY <1>1, <1>7, <2>1, AnswersRead DEF QueryLoad
  <2>2. CASE QueryStep(q)
    <3>1. SharedStep(q) \/ Goto(q, "idle") \/ (Goto(q, "refund") /\ Answer(q).status = "REJECTED")
      BY <2>2 DEF QueryStep, QueryUpdate
    <3> QED BY <1>4, <1>5, <1>7, <1>8, <3>1
  <2> QED BY <1>12, <2>1, <2>2
<1>13. ASSUME NEW v \in Voids, VoidLoad(v) \/ VoidCommit(v) PROVE AnswersInHand'
  BY <1>4, <1>7, <1>13 DEF VoidLoad, VoidCommit
<1>14. ASSUME NEW m \in Marks, MarkLoad(m) \/ MarkWrite(m) PROVE AnswersInHand'
  BY <1>4, <1>7, <1>14 DEF MarkLoad, MarkWrite
<1>15. ASSUME NEW p \in Actors, Crash(p) PROVE AnswersInHand'
  BY <1>4, <1>15 DEF Crash
<1>16. CASE \/ EnqueueEcf \/ EnqueueLost \/ MarkAll \/ ReferenceAccepted \/ PollJobRemoved
            \/ \E i \in 1 .. MaxSubmits, verdict \in Verdicts : Decide(i, verdict)
            \/ UNCHANGED vars
  BY <1>6, <1>16 DEF EnqueueEcf, EnqueueLost, MarkAll, ReferenceAccepted, PollJobRemoved, Decide, vars
<1> QED BY <1>9, <1>10, <1>11, <1>12, <1>13, <1>14, <1>15, <1>16 DEF Next

\* The invoice is queued once: no step queues it again.
LEMMA NeverQueuedAgain ==
  ASSUME Living, Next, status' = "QUEUED"
  PROVE  status = "QUEUED"
<1> USE DEF row
<1>1. /\ EcfWorker \in Actors /\ PollWorker \in Actors
      /\ Runs \cup Queries \cup Voids \cup Marks \subseteq Actors
  BY DEF Actors
<1>2. \A p \in Actors : At(p, "update") => Answer(p).status # "QUEUED"
  BY DEF Living, AnswersInHand, Verdicts
<1>3. ASSUME NEW p \in Actors, SharedStep(p) PROVE status' = status
  BY <1>3 DEF SharedStep, SubmitReceived, SubmitRefused, DgiiUnreachable, Query, Refund, Decrement
<1>4. CASE EcfStep
  BY <1>1, <1>2, <1>3, <1>4
     DEF EcfStep, EcfSkip, EcfReconcile, EcfWaitReference, EcfStart, EcfSign, EcfXsdInvalid,
         EcfPrepare, EcfUpdate, EcfUpdateFails, EcfNotify, EcfNotifyFails, EcfCatchNetwork,
         EcfCatchError, EcfOnFailed
<1>5. CASE PollStep
  BY <1>1, <1>2, <1>3, <1>5
     DEF PollStep, PollLoad, PollRecover, PollGiveUp, PollUpdate, PollNotify, PollCatchNetwork,
         PollCatchError
<1>6. ASSUME NEW c \in Runs, RunStep(c) PROVE status = "QUEUED"
  BY <1>1, <1>2, <1>3, <1>6
     DEF RunStep, RunLoad, RunWindowExceeded, RunUpdate, RunStatus, RunUpdateFails, RunEnqueue,
         RunCatch
<1>7. ASSUME NEW q \in Queries, QueryLoad(q) \/ QueryStep(q) PROVE status = "QUEUED"
  BY <1>1, <1>2, <1>3, <1>7 DEF QueryLoad, QueryStep, QueryUpdate
<1>8. ASSUME NEW v \in Voids, VoidLoad(v) \/ VoidCommit(v) PROVE status = "QUEUED"
  BY <1>8 DEF VoidLoad, VoidCommit
<1>9. ASSUME NEW m \in Marks, MarkLoad(m) \/ MarkWrite(m) PROVE status = "QUEUED"
  BY <1>9 DEF MarkLoad, MarkWrite
<1>10. ASSUME NEW p \in Actors, Crash(p) PROVE status = "QUEUED"
  BY <1>10 DEF Crash
<1>11. EnqueueEcf \/ EnqueueLost \/ MarkAll \/ ReferenceAccepted \/ PollJobRemoved => status = "QUEUED"
  BY DEF EnqueueEcf, EnqueueLost, MarkAll, ReferenceAccepted, PollJobRemoved
<1>12. ASSUME NEW i, NEW verdict, Decide(i, verdict) PROVE status = "QUEUED"
  BY <1>12 DEF Decide
<1> QED BY <1>4, <1>5, <1>6, <1>7, <1>8, <1>9, <1>10, <1>11, <1>12 DEF Next

\* While it stays queued nothing but its job goes on.
LEMMA QueuedActs ==
  ASSUME Living, Next, status' = "QUEUED"
  PROVE  QueuedRests'
<1> USE DEF row
<1>1. TypeOK
  BY DEF Living, Pipeline
<1>2. status = "QUEUED" /\ trackId = NoTrack /\ pollJob = "none"
      /\ \A p \in Actors : At(p, "idle") \/ (p = EcfWorker /\ proc[p].step \in {"sign", "catchError"})
  BY NeverQueuedAgain DEF Living, QueuedRests
<1>3. /\ EcfWorker \in Actors /\ PollWorker \in Actors /\ EcfWorker # PollWorker
      /\ Runs \cup Queries \cup Voids \cup Marks \subseteq Actors \ {EcfWorker}
  BY PipelineAssumption DEF Actors
<1>4. \A p \in Actors : ~SharedStep(p)
  BY <1>2 DEF At, SharedStep, SubmitReceived, SubmitRefused, DgiiUnreachable, Query, Refund, Decrement
<1>5. \A step \in {"idle", "sign", "catchError"} : step \in Steps
  BY DEF Steps
<1>6. ASSUME NEW p \in Actors, NEW step \in {"idle", "sign", "catchError"}, Goto(p, step),
             p = EcfWorker \/ step = "idle", UNCHANGED <<trackId, pollJob>>
      PROVE  QueuedRests'
  <2>1. OthersStay(p) /\ proc'[p].step = step
    BY <1>1, <1>5, <1>6, GotoStep
  <2> QED BY <1>2, <1>6, <2>1 DEF QueuedRests, OthersStay, At
<1>7. CASE UNCHANGED <<proc, trackId, pollJob>>
  BY <1>2, <1>7 DEF QueuedRests, At
<1>8. CASE EcfStep
  <2>1. EcfWaitReference \/ EcfStart \/ EcfSign \/ EcfOnFailed
    BY <1>2, <1>3, <1>4, <1>8
       DEF EcfStep, EcfSkip, AlreadyProcessed, EcfReconcile, KnownAtDgii, EcfXsdInvalid, EcfPrepare,
           EcfUpdate, EcfUpdateFails, EcfNotify, EcfNotifyFails, EcfCatchNetwork, EcfCatchError, At
  <2>2. UNCHANGED <<trackId, pollJob>>
    BY <2>1 DEF EcfWaitReference, EcfStart, EcfSign, EcfOnFailed, jobs
  <2>3. UNCHANGED proc \/ \E step \in {"sign", "catchError"} : Goto(EcfWorker, step)
    BY <2>1 DEF EcfWaitReference, EcfStart, EcfSign, EcfOnFailed
  <2> QED BY <1>3, <1>6, <1>7, <2>2, <2>3
<1>9. ~PollStep
  BY <1>2, <1>3, <1>4
     DEF PollStep, PollLoad, PollRecover, PollGiveUp, PollUpdate, PollNotify, PollCatchNetwork,
         PollCatchError, At
<1>10. ASSUME NEW c \in Runs PROVE ~RunStep(c)
  BY <1>2, <1>3, <1>4
     DEF RunStep, RunLoad, RunWindowExceeded, RunUpdate, RunUpdateFails, RunEnqueue, RunCatch, At
<1>11. \A q \in Queries : ~QueryLoad(q) /\ ~QueryStep(q)
  BY <1>2, <1>3, <1>4 DEF QueryLoad, QueryStep, QueryUpdate, At
<1>12. /\ \A v \in Voids : ~VoidLoad(v) /\ ~VoidCommit(v)
       /\ \A m \in Marks : ~MarkLoad(m) /\ ~MarkWrite(m)
       /\ ~MarkAll /\ ~PollJobRemoved
  BY <1>2, <1>3
     DEF VoidLoad, Voidable, VoidCommit, MarkLoad, MarkWrite, MarkAll, PollJobRemoved, At
<1>13. ASSUME NEW p \in Actors, Crash(p) PROVE QueuedRests'
  <2>1. p # PollWorker
    BY <1>2, <1>3, <1>13 DEF Crash, At
  <2> QED BY <1>6, <1>13, <2>1 DEF Crash
<1>14. EnqueueEcf \/ EnqueueLost \/ ReferenceAccepted => UNCHANGED <<proc, trackId, pollJob>>
  BY DEF EnqueueEcf, EnqueueLost, ReferenceAccepted, jobs
<1>15. ASSUME NEW i, NEW verdict, Decide(i, verdict) PROVE UNCHANGED <<proc, trackId, pollJob>>
  BY <1>15 DEF Decide, jobs
<1> QED BY <1>7, <1>8, <1>9, <1>10, <1>11, <1>12, <1>13, <1>14, <1>15 DEF Next

\* Nothing but its job begins while the invoice is queued.
LEMMA QueuedKept ==
  ASSUME Living, [Next]_vars
  PROVE  QueuedRests'
<1>1. CASE UNCHANGED vars
  BY <1>1 DEF Living, QueuedRests, At, vars, row, jobs
<1>2. CASE Next /\ status' = "QUEUED"
  BY <1>2, QueuedActs
<1> QED BY <1>1, <1>2 DEF QueuedRests

\* The invoice starts its life queued.
LEMMA LifecycleStart ==
  ASSUME Init
  PROVE  Living /\ Lifecycle!LifecycleInit
<1>1. Pipeline /\ StepsOwned
  BY InitPipeline, SerialInit
<1>2. \A p \in Actors : proc[p] = Idle /\ proc[p].step = "idle"
  BY DEF Init, Idle
<1>3. QueuedRests /\ AnswersInHand
  BY <1>2 DEF QueuedRests, AnswersInHand, At, Init
<1>4. \A p \in Actors : Todo(p) = "nothing"
  BY <1>2, TodoIs
<1>5. {received[i].verdict : i \in DOMAIN received} = {}
  BY DEF Init
<1>6. Lifecycle!LifecycleInit
  BY <1>4, <1>5 DEF Lifecycle!LifecycleInit, Init
<1> QED BY <1>1, <1>3, <1>6 DEF Living

\* For its clients the invoice lives as the diagram of states says: its status moves, an
\* acceptance is DGII's own, a refund follows a rejection or a voiding, only the first claim of
\* it counts, and the webhooks tell only what was written, for any number of runs, calls and
\* attempts, in any order and with every failure.
THEOREM ImplementsTheLifecycle == Spec => ImplementsLifecycle
<1>1. Init => Living /\ Lifecycle!LifecycleInit
  BY LifecycleStart
<1>2. Living /\ [Next]_vars => Living'
  BY NextPipeline, OwnedStep, QueuedKept, AnswersKept DEF Living, Pipeline
<1>3. Living /\ [Next]_vars => [Lifecycle!LifecycleNext]_(Lifecycle!lifecycleVars)
  BY LifecycleStep
<1> QED BY <1>1, <1>2, <1>3, PTL DEF Spec, ImplementsLifecycle, Lifecycle!LifecycleSpec
=============================================================================
