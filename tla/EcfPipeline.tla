------------------------------ MODULE EcfPipeline ------------------------------
(***************************************************************************)
(* The life of one invoice from the commit of its row to DGII's verdict,   *)
(* with everything that writes the row:                                    *)
(*   - the ecf-processing job (sign, submit to DGII, up to MaxAttempts),   *)
(*   - the status-poll job (ask DGII for the verdict, up to MaxPolls),     *)
(*   - the runs of the contingency queue (the cron and POST                *)
(*     /contingency/process run the same code, which takes no row lock),   *)
(*   - the API calls that poll, void or mark the invoice for retry.        *)
(*                                                                         *)
(* Each of them is a process: proc[p] has its step, what it read of the    *)
(* row (seen) and what DGII answered (answer).  An action is what it does  *)
(* between two awaits, so seen and answer may be stale when it writes.     *)
(* "idle" forgets both.  The queries of the code are                       *)
(* all by invoice id: invoices meet only through referenceEncf, which is   *)
(* the variable referenced.  DGII and BullMQ are external: they do what    *)
(* the code relies on.  Which of their failures occur is Faults.           *)
(***************************************************************************)
EXTENDS Integers, Sequences

CONSTANTS
  EcfWorker, PollWorker,  \* the workers of the two jobs of the invoice
  Runs,         \* concurrent runs of ContingencyService.processQueue
  Queries,      \* calls of GET /invoices/:id/status (pollStatus)
  Voids,        \* calls of voidInvoice
  Marks,        \* calls of markForRetry and markAllForRetry
  IsRfce,       \* the invoice is an E32 below the threshold: its summary goes to FC
  HasReference, \* the invoice is a note on another e-CF
  MaxAttempts,  \* attempts of the ecf-processing job
  MaxPolls,     \* MAX_ATTEMPTS of the status-poll job
  MaxSubmits,   \* bound on the submissions DGII receives
  Faults        \* the failures that may occur, among FaultKinds

FaultKinds ==
  {"crash",    \* one process dies between two steps of a handler
   "lostJob",  \* the API process dies between the commit and the enqueue
   "lost",     \* DGII takes a submission and its answer does not arrive
   "noTrack",  \* DGII's 200 answer carries no trackId
   "db",       \* the update after a submission, or a refund, fails
   "emit"}     \* emitting a webhook or enqueueing a poll fails

Actors == {EcfWorker, PollWorker} \cup Runs \cup Queries \cup Voids \cup Marks

ASSUME PipelineAssumption ==
  /\ IsRfce \in BOOLEAN /\ HasReference \in BOOLEAN
  /\ MaxAttempts \in Nat \ {0} /\ MaxPolls \in Nat \ {0} /\ MaxSubmits \in Nat
  /\ Faults \subseteq FaultKinds
  /\ EcfWorker # PollWorker
  /\ {EcfWorker, PollWorker} \cap (Runs \cup Queries \cup Voids \cup Marks) = {}
  /\ Runs \cap (Queries \cup Voids \cup Marks) = {}
  /\ Queries \cap (Voids \cup Marks) = {} /\ Voids \cap Marks = {}

VARIABLES
  \* the row of the invoice
  status, trackId, hasRfce, usageReverted,
  refunds,     \* how often decrementUsage gave its quota back
  received,    \* the submissions DGII took: their endpoint and verdict
  referenced,  \* the e-CF it refers to is ACCEPTED
  \* its jobs in BullMQ
  ecfJob, attemptsMade, pollJob, pollAttempt,
  \* the processes
  proc,
  notified,    \* the events emitted to the webhooks, among Events
  crashed      \* the crash that may occur has occurred

row == <<status, trackId, hasRfce>>
quota == <<usageReverted, refunds>>
dgii == <<received, referenced>>
jobs == <<ecfJob, attemptsMade, pollJob, pollAttempt>>
vars == <<row, quota, dgii, jobs, proc, notified, crashed>>

Verdicts == {"ACCEPTED", "REJECTED", "CONDITIONAL"}
NoTrack == 0

-----------------------------------------------------------------------------
(* Steps that several processes share *)

Idle == [step |-> "idle",
         seen |-> [status |-> "QUEUED", trackId |-> NoTrack, rfce |-> FALSE],
         answer |-> [status |-> "QUEUED", trackId |-> NoTrack]]

At(p, step) == proc[p].step = step
Seen(p) == proc[p].seen
Answer(p) == proc[p].answer

Goto(p, step) ==
  proc' = [proc EXCEPT ![p] = IF step = "idle" THEN Idle ELSE [@ EXCEPT !.step = step]]

\* p goes to a step with what it reads of the row.
Read(p, step) ==
  proc' = [proc EXCEPT ![p] =
    [@ EXCEPT !.step = step,
              !.seen = [status |-> status, trackId |-> trackId, rfce |-> hasRfce]]]

\* p is answered by DGII and goes on to update the row.
Answered(p, s, track) ==
  proc' = [proc EXCEPT ![p] =
    [@ EXCEPT !.step = "update", !.answer = [status |-> s, trackId |-> track]]]

\* A call to DGII throws: p enters its catch block; pollStatus has none.
Failed(p) == Goto(p, CASE p = EcfWorker -> "catchNetwork"
                       [] p \in Queries -> "idle"
                       [] OTHER -> "catch")

\* enqueueStatusPoll: a job id that BullMQ still holds, even completed, is not
\* added again.
EnqueuePoll ==
  IF pollJob = "none" THEN pollJob' = "delayed" /\ pollAttempt' = 1
                      ELSE UNCHANGED <<pollJob, pollAttempt>>

\* BullMQ drops the record of a finished poll job (removeOnComplete, removeOnFail).
PollJobRemoved ==
  /\ pollJob \in {"completed", "failed"}
  /\ pollJob' = "none"
  /\ UNCHANGED <<row, quota, dgii, ecfJob, attemptsMade, pollAttempt, proc, notified, crashed>>

\* The endpoint for the submission of p: the summary if p has one to send.
Channel(p) == IF IsRfce /\ (p = EcfWorker \/ Seen(p).rfce) THEN "FC" ELSE "ECF"

\* The answers to the submission number n on a channel, given its verdict.
\* FC answers with the verdict, or with text the parser does not understand;
\* the e-CF endpoint answers with a trackId.
Answers(channel, verdict, n) ==
  IF channel = "FC"
    THEN [status : {verdict, "SENT"}, trackId : {NoTrack}]
    ELSE [status : {"PROCESSING"},
          trackId : {n} \cup (IF "noTrack" \in Faults THEN {NoTrack} ELSE {})]

\* DGII takes the submission; its answer arrives, or the request times out.
SubmitReceived(p) ==
  /\ At(p, "submit") /\ Len(received) < MaxSubmits
  /\ \E verdict \in IF Channel(p) = "FC" THEN Verdicts ELSE {"PROCESSING"} :
       /\ received' = Append(received, [channel |-> Channel(p), verdict |-> verdict])
       /\ \/ \E a \in Answers(Channel(p), verdict, Len(received) + 1) :
               Answered(p, a.status, a.trackId)
          \/ "lost" \in Faults /\ Failed(p)
  /\ UNCHANGED <<row, quota, referenced, jobs, notified, crashed>>

\* DGII answers with an HTTP error: submitEcf says REJECTED; the FC parser does
\* not understand the page.
SubmitRefused(p) ==
  /\ At(p, "submit")
  /\ Answered(p, IF Channel(p) = "FC" THEN "SENT" ELSE "REJECTED", NoTrack)
  /\ UNCHANGED <<row, quota, dgii, jobs, notified, crashed>>

\* DGII cannot be reached: authentication or the request itself fails.
DgiiUnreachable(p) ==
  /\ proc[p].step \in {"prepare", "submit", "query"}
  /\ Failed(p)
  /\ UNCHANGED <<row, quota, dgii, jobs, notified, crashed>>

\* queryStatus on the trackId that p read; an HTTP error is NOT_FOUND, which
\* maps to SENT.
Query(p) ==
  /\ At(p, "query")
  /\ \E s \in {received[Seen(p).trackId].verdict, "SENT"} : Answered(p, s, Seen(p).trackId)
  /\ UNCHANGED <<row, quota, dgii, jobs, notified, crashed>>

ClaimWon_Unguarded == TRUE
\* revertUsage flips usageReverted with a guarded update: who flips it, refunds.
ClaimWon == ~usageReverted

\* What p does once its REJECTED is refunded.
AfterRefund(p) == IF p \in {EcfWorker, PollWorker} THEN "notify" ELSE "idle"

\* revertUsage outside a transaction: the claim and the decrement are two
\* writes, and an error between them is only logged.
Refund(p) ==
  /\ At(p, "refund")
  /\ Goto(p, IF ClaimWon THEN "decrement" ELSE AfterRefund(p))
  /\ usageReverted' = TRUE
  /\ UNCHANGED <<row, refunds, dgii, jobs, notified, crashed>>

Decrement(p) ==
  /\ At(p, "decrement")
  /\ Goto(p, AfterRefund(p))
  /\ \/ refunds' = refunds + 1
     \/ "db" \in Faults /\ UNCHANGED refunds
  /\ UNCHANGED <<row, usageReverted, dgii, jobs, notified, crashed>>

-----------------------------------------------------------------------------
(* POST /invoices, after its commit; DGII; the referenced e-CF *)

EnqueueEcf ==
  /\ ecfJob = "none"
  /\ ecfJob' = "waiting"
  /\ UNCHANGED <<row, quota, dgii, attemptsMade, pollJob, pollAttempt, proc, notified, crashed>>

\* The API process dies first; nothing enqueues the invoice later.
EnqueueLost ==
  /\ "lostJob" \in Faults
  /\ ecfJob = "none"
  /\ ecfJob' = "lost"
  /\ UNCHANGED <<row, quota, dgii, attemptsMade, pollJob, pollAttempt, proc, notified, crashed>>

Decide(i, verdict) ==
  /\ i \in DOMAIN received /\ received[i].verdict = "PROCESSING"
  /\ received' = [received EXCEPT ![i].verdict = verdict]
  /\ UNCHANGED <<row, quota, referenced, jobs, proc, notified, crashed>>

ReferenceAccepted ==
  /\ ~referenced
  /\ referenced' = TRUE
  /\ UNCHANGED <<row, quota, received, jobs, proc, notified, crashed>>

-----------------------------------------------------------------------------
(* The ecf-processing job: EcfProcessingProcessor.process *)

\* A failed attempt: BullMQ runs the job again until its attempts are used up.
EcfAttemptFailed ==
  /\ attemptsMade' = attemptsMade + 1
  /\ ecfJob' = IF attemptsMade + 1 < MaxAttempts THEN "waiting" ELSE "exhausted"

AlreadyProcessed == status \in {"ACCEPTED", "VOIDED"}

KnownAtDgii_Ignored == FALSE
\* FIX A: a persisted trackId means that an earlier attempt submitted the e-CF.
KnownAtDgii == trackId # NoTrack

EcfSkip ==
  /\ At(EcfWorker, "idle") /\ ecfJob = "waiting"
  /\ AlreadyProcessed
  /\ ecfJob' = "completed"
  /\ UNCHANGED <<row, quota, dgii, attemptsMade, pollJob, pollAttempt, proc, notified, crashed>>

EcfReconcile ==
  /\ At(EcfWorker, "idle") /\ ecfJob = "waiting"
  /\ ~AlreadyProcessed /\ KnownAtDgii
  /\ EnqueuePoll
  /\ ecfJob' = "completed"
  /\ UNCHANGED <<row, quota, dgii, attemptsMade, proc, notified, crashed>>

\* The e-CF it refers to is missing or not ACCEPTED: thrown outside the try, so
\* the attempt fails and the row keeps its status.
EcfWaitReference ==
  /\ At(EcfWorker, "idle") /\ ecfJob = "waiting"
  /\ ~AlreadyProcessed /\ ~KnownAtDgii
  /\ HasReference /\ ~referenced
  /\ EcfAttemptFailed
  /\ UNCHANGED <<row, quota, dgii, pollJob, pollAttempt, proc, notified, crashed>>

EcfStart ==
  /\ At(EcfWorker, "idle") /\ ecfJob = "waiting"
  /\ ~AlreadyProcessed /\ ~KnownAtDgii
  /\ HasReference => referenced
  /\ ecfJob' = "active"
  /\ Goto(EcfWorker, "sign")
  /\ UNCHANGED <<row, quota, dgii, attemptsMade, pollJob, pollAttempt, notified, crashed>>

EcfSign ==
  /\ At(EcfWorker, "sign")
  /\ \/ Goto(EcfWorker, "prepare") /\ status' = "PROCESSING"
     \/ Goto(EcfWorker, "catchError") /\ UNCHANGED status  \* no usable certificate
  /\ UNCHANGED <<trackId, hasRfce, quota, dgii, jobs, notified, crashed>>

\* The XSD refuses the signed XML.
EcfXsdInvalid ==
  /\ At(EcfWorker, "prepare")
  /\ Goto(EcfWorker, "idle")
  /\ ecfJob' = "completed"
  /\ status' = "ERROR"
  /\ UNCHANGED <<trackId, hasRfce, quota, dgii, attemptsMade, pollJob, pollAttempt, notified, crashed>>

\* Authenticated; the summary of an E32 below the threshold is signed and saved.
EcfPrepare ==
  /\ At(EcfWorker, "prepare")
  /\ Goto(EcfWorker, "submit")
  /\ hasRfce' = (hasRfce \/ IsRfce)
  /\ UNCHANGED <<status, trackId, quota, dgii, jobs, notified, crashed>>

EcfUpdate ==
  /\ At(EcfWorker, "update")
  /\ status' = Answer(EcfWorker).status
  /\ trackId' = Answer(EcfWorker).trackId
  /\ Goto(EcfWorker, IF status' = "REJECTED" THEN "refund" ELSE "notify")
  /\ UNCHANGED <<hasRfce, quota, dgii, jobs, notified, crashed>>

\* The update fails and the answer of DGII is gone.
EcfUpdateFails ==
  /\ "db" \in Faults
  /\ At(EcfWorker, "update")
  /\ Goto(EcfWorker, "catchError")
  /\ UNCHANGED <<row, quota, dgii, jobs, notified, crashed>>

\* The webhooks are emitted and a poll is scheduled for an e-CF in process.
EcfNotify ==
  LET a == Answer(EcfWorker)
  IN /\ At(EcfWorker, "notify")
     /\ Goto(EcfWorker, "idle")
     /\ ecfJob' = "completed"
     /\ IF a.status \in {"PROCESSING", "SENT"} /\ ~(IsRfce /\ a.trackId = NoTrack)
          THEN EnqueuePoll
          ELSE UNCHANGED <<pollJob, pollAttempt>>
     /\ notified' = IF a.status = "ACCEPTED" THEN notified \cup {"accepted"} ELSE notified
     /\ UNCHANGED <<row, quota, dgii, attemptsMade, crashed>>

\* Redis fails while a webhook is emitted or the poll is scheduled.
EcfNotifyFails ==
  /\ "emit" \in Faults
  /\ At(EcfWorker, "notify")
  /\ \E step \in {"catchNetwork", "catchError"} : Goto(EcfWorker, step)
  /\ UNCHANGED <<row, quota, dgii, jobs, notified, crashed>>

\* A network failure: contingency, and the attempt fails so that BullMQ retries.
EcfCatchNetwork ==
  /\ At(EcfWorker, "catchNetwork")
  /\ Goto(EcfWorker, "idle")
  /\ status' = "CONTINGENCY"
  /\ EcfAttemptFailed
  /\ UNCHANGED <<trackId, hasRfce, quota, dgii, pollJob, pollAttempt, notified, crashed>>

\* Any other failure: the job ends.
EcfCatchError ==
  /\ At(EcfWorker, "catchError")
  /\ Goto(EcfWorker, "idle")
  /\ status' = "ERROR"
  /\ ecfJob' = "completed"
  /\ UNCHANGED <<trackId, hasRfce, quota, dgii, attemptsMade, pollJob, pollAttempt, notified, crashed>>

\* onFailed: once the attempts are used up, an invoice still in contingency is
\* announced; an emission that fails is only logged.
EcfOnFailed ==
  /\ ecfJob = "exhausted"
  /\ ecfJob' = "failed"
  /\ \/ notified' = IF status = "CONTINGENCY" THEN notified \cup {"contingency"} ELSE notified
     \/ "emit" \in Faults /\ UNCHANGED notified
  /\ UNCHANGED <<row, quota, dgii, attemptsMade, pollJob, pollAttempt, proc, crashed>>

-----------------------------------------------------------------------------
(* The status-poll job: StatusPollProcessor.process *)

PollEnds(outcome) == pollJob' = outcome /\ UNCHANGED pollAttempt

NextAttempt_Same(n) == n
NextAttempt(n) == n + 1
\* moveToDelayed and updateData: the same job again, its attempt counted.
PollAgain(n) == pollJob' = "delayed" /\ pollAttempt' = n

PollLoad ==
  /\ At(PollWorker, "idle") /\ pollJob = "delayed"
  /\ IF status \in {"ACCEPTED", "REJECTED", "VOIDED"}
       THEN pollJob' = "completed" /\ UNCHANGED proc
       ELSE /\ pollJob' = "active"
            /\ Read(PollWorker, CASE trackId = NoTrack -> "recover"
                                  [] trackId # NoTrack /\ pollAttempt > MaxPolls -> "timeout"
                                  [] OTHER -> "query")
  /\ UNCHANGED <<row, quota, dgii, ecfJob, attemptsMade, pollAttempt, notified, crashed>>

\* DGII's queryTrackIds by eNCF knows the e-CF: its trackId is recovered.
PollRecover ==
  /\ At(PollWorker, "recover")
  /\ \E i \in DOMAIN received : received[i].channel = "ECF" /\ trackId' = i
  /\ Goto(PollWorker, "idle")
  /\ PollAgain(pollAttempt)
  /\ UNCHANGED <<status, hasRfce, quota, dgii, ecfJob, attemptsMade, notified, crashed>>

\* No trackId can be had, or MAX_ATTEMPTS polls got no verdict.
PollGiveUp ==
  /\ proc[PollWorker].step \in {"recover", "timeout"}
  /\ status' = "ERROR"
  /\ Goto(PollWorker, "idle")
  /\ PollEnds("completed")
  /\ UNCHANGED <<trackId, hasRfce, quota, dgii, ecfJob, attemptsMade, notified, crashed>>

\* The verdict is written if it differs from the status that was read; without
\* a verdict the job is delayed.
PollUpdate ==
  LET new == Answer(PollWorker).status
  IN /\ At(PollWorker, "update")
     /\ status' = IF new # Seen(PollWorker).status THEN new ELSE status
     /\ IF new \in Verdicts
          THEN /\ Goto(PollWorker, IF new = "REJECTED" THEN "refund" ELSE "notify")
               /\ UNCHANGED <<pollJob, pollAttempt>>
          ELSE /\ Goto(PollWorker, "idle")
               /\ PollAgain(NextAttempt(pollAttempt))
     /\ UNCHANGED <<trackId, hasRfce, quota, dgii, ecfJob, attemptsMade, notified, crashed>>

PollNotify ==
  /\ At(PollWorker, "notify")
  /\ \/ /\ Goto(PollWorker, "idle")
        /\ PollEnds("completed")
        /\ notified' = IF Answer(PollWorker).status = "ACCEPTED"
                         THEN notified \cup {"accepted"} ELSE notified
     \/ /\ "emit" \in Faults
        /\ Goto(PollWorker, "catch")
        /\ UNCHANGED <<pollJob, pollAttempt, notified>>
  /\ UNCHANGED <<row, quota, dgii, ecfJob, attemptsMade, crashed>>

\* A refused or reset connection is polled again.
PollCatchNetwork ==
  /\ At(PollWorker, "catch")
  /\ Goto(PollWorker, "idle")
  /\ PollAgain(NextAttempt(pollAttempt))
  /\ UNCHANGED <<row, quota, dgii, ecfJob, attemptsMade, notified, crashed>>

Clobbered_All == {"PROCESSING", "SENT", "ACCEPTED", "CONDITIONAL"}
Clobbered_None == {}
\* The statuses that a failed poll may turn into ERROR.
Clobbered == {"PROCESSING", "SENT"}

\* Any other failure ends the job.
PollCatchError ==
  /\ At(PollWorker, "catch")
  /\ status' = IF status \in Clobbered THEN "ERROR" ELSE status
  /\ Goto(PollWorker, "idle")
  /\ PollEnds("completed")
  /\ UNCHANGED <<trackId, hasRfce, quota, dgii, ecfJob, attemptsMade, notified, crashed>>

-----------------------------------------------------------------------------
(* The contingency queue: ContingencyService.processQueue *)

\* FIX B: an invoice with a trackId is reconciled, not submitted again.
ReconcileStep == "query"

\* The batch is read; the invoice waits in it for its turn.
RunLoad(c) ==
  /\ At(c, "idle") /\ status = "CONTINGENCY"
  /\ Read(c, IF trackId # NoTrack THEN ReconcileStep ELSE "submit")
  /\ UNCHANGED <<row, quota, dgii, jobs, notified, crashed>>

\* 72 hours after its creation the invoice is given up.
RunWindowExceeded(c) ==
  /\ proc[c].step \in {"query", "submit"}
  /\ Goto(c, "idle")
  /\ status' = "ERROR"
  /\ UNCHANGED <<trackId, hasRfce, quota, dgii, jobs, notified, crashed>>

RunStatus_DefaultAccepted(s) ==
  IF s \in {"REJECTED", "CONDITIONAL", "PROCESSING"} THEN s ELSE "ACCEPTED"
\* What the run makes of an answer: without a verdict, PROCESSING.
RunStatus(s) == IF s \in Verdicts THEN s ELSE "PROCESSING"

AfterRunUpdate_NoRefund(s) == IF s = "PROCESSING" THEN "enqueue" ELSE "idle"
AfterRunUpdate(s) ==
  CASE s = "REJECTED" -> "refund" [] s = "PROCESSING" -> "enqueue" [] OTHER -> "idle"

\* A resubmission writes the trackId of its answer, a reconciliation keeps it.
RunUpdate(c) ==
  /\ At(c, "update")
  /\ status' = RunStatus(Answer(c).status)
  /\ trackId' = IF Seen(c).trackId = NoTrack THEN Answer(c).trackId ELSE trackId
  /\ Goto(c, AfterRunUpdate(status'))
  /\ UNCHANGED <<hasRfce, quota, dgii, jobs, notified, crashed>>

RunUpdateFails(c) ==
  /\ "db" \in Faults
  /\ At(c, "update")
  /\ Goto(c, "catch")
  /\ UNCHANGED <<row, quota, dgii, jobs, notified, crashed>>

RunEnqueue(c) ==
  /\ At(c, "enqueue")
  /\ \/ Goto(c, "idle") /\ EnqueuePoll
     \/ "emit" \in Faults /\ Goto(c, "catch") /\ UNCHANGED <<pollJob, pollAttempt>>
  /\ UNCHANGED <<row, quota, dgii, ecfJob, attemptsMade, notified, crashed>>

RunCatch(c) ==
  /\ At(c, "catch")
  /\ Goto(c, "idle")
  /\ status' = "ERROR"
  /\ UNCHANGED <<trackId, hasRfce, quota, dgii, jobs, notified, crashed>>

-----------------------------------------------------------------------------
(* API calls *)

\* pollStatus asks whatever the status is.
QueryLoad(q) ==
  /\ At(q, "idle") /\ trackId # NoTrack
  /\ Read(q, "query")
  /\ UNCHANGED <<row, quota, dgii, jobs, notified, crashed>>

QueryUpdate(q) ==
  LET new == Answer(q).status
  IN /\ At(q, "update")
     /\ status' = IF new # Seen(q).status THEN new ELSE status
     /\ Goto(q, IF new = "REJECTED" /\ new # Seen(q).status THEN "refund" ELSE "idle")
     /\ UNCHANGED <<trackId, hasRfce, quota, dgii, jobs, notified, crashed>>

Voidable_NotAccepted == status # "ACCEPTED"
\* The statuses in which voidInvoice does not refuse to void.
Voidable == status \in {"ERROR", "CONTINGENCY", "REJECTED"}

VoidLoad(v) ==
  /\ At(v, "idle") /\ Voidable
  /\ Goto(v, "void")
  /\ UNCHANGED <<row, quota, dgii, jobs, notified, crashed>>

\* The transaction: VOIDED whatever the status is now, and the refund with it.
VoidCommit(v) ==
  /\ At(v, "void")
  /\ Goto(v, "idle")
  /\ status' = "VOIDED"
  /\ refunds' = IF ClaimWon THEN refunds + 1 ELSE refunds
  /\ usageReverted' = TRUE
  /\ UNCHANGED <<trackId, hasRfce, dgii, jobs, notified, crashed>>

MarkLoad(m) ==
  /\ At(m, "idle") /\ status = "ERROR"
  /\ Goto(m, "mark")
  /\ UNCHANGED <<row, quota, dgii, jobs, notified, crashed>>

\* markForRetry writes without looking at the status again.
MarkWrite(m) ==
  /\ At(m, "mark")
  /\ Goto(m, "idle")
  /\ status' = "CONTINGENCY"
  /\ UNCHANGED <<trackId, hasRfce, quota, dgii, jobs, notified, crashed>>

\* markAllForRetry is one guarded update.
MarkAll ==
  /\ Marks # {} /\ status = "ERROR"
  /\ status' = "CONTINGENCY"
  /\ UNCHANGED <<trackId, hasRfce, quota, dgii, jobs, proc, notified, crashed>>

-----------------------------------------------------------------------------
\* The process of p dies: BullMQ finds the job of a worker stalled and runs it
\* again (one crash stays below its default maxStalledCount); the others end.
Crash(p) ==
  /\ "crash" \in Faults /\ ~crashed
  /\ proc[p].step # "idle"
  /\ crashed' = TRUE
  /\ Goto(p, "idle")
  /\ ecfJob' = IF p = EcfWorker THEN "waiting" ELSE ecfJob
  /\ pollJob' = IF p = PollWorker THEN "delayed" ELSE pollJob
  /\ UNCHANGED <<row, quota, dgii, attemptsMade, pollAttempt, notified>>

Init ==
  /\ status = "QUEUED" /\ trackId = NoTrack /\ hasRfce = FALSE
  /\ usageReverted = FALSE /\ refunds = 0
  /\ received = <<>>
  /\ referenced = ~HasReference
  /\ ecfJob = "none" /\ attemptsMade = 0
  /\ pollJob = "none" /\ pollAttempt = 0
  /\ proc = [p \in Actors |-> Idle]
  /\ notified = {} /\ crashed = FALSE

\* Conversations with DGII and refunds, by whoever needs them.
SharedStep(p) ==
  \/ SubmitReceived(p)
  \/ SubmitRefused(p)
  \/ DgiiUnreachable(p)
  \/ Query(p)
  \/ Refund(p)
  \/ Decrement(p)

EcfStep ==
  \/ EcfSkip
  \/ EcfReconcile
  \/ EcfWaitReference
  \/ EcfStart
  \/ EcfSign
  \/ EcfXsdInvalid
  \/ EcfPrepare
  \/ EcfUpdate
  \/ EcfUpdateFails
  \/ EcfNotify
  \/ EcfNotifyFails
  \/ EcfCatchNetwork
  \/ EcfCatchError
  \/ EcfOnFailed
  \/ SharedStep(EcfWorker)

PollStep ==
  \/ PollLoad
  \/ PollRecover
  \/ PollGiveUp
  \/ PollUpdate
  \/ PollNotify
  \/ PollCatchNetwork
  \/ PollCatchError
  \/ SharedStep(PollWorker)

RunStep(c) ==
  \/ RunLoad(c)
  \/ RunWindowExceeded(c)
  \/ RunUpdate(c)
  \/ RunUpdateFails(c)
  \/ RunEnqueue(c)
  \/ RunCatch(c)
  \/ SharedStep(c)

QueryStep(q) == QueryUpdate(q) \/ SharedStep(q)

Next ==
  \/ EnqueueEcf
  \/ EnqueueLost
  \/ EcfStep
  \/ PollStep
  \/ \E c \in Runs : RunStep(c)
  \/ \E q \in Queries : QueryLoad(q)
  \/ \E q \in Queries : QueryStep(q)
  \/ \E v \in Voids : VoidLoad(v) \/ VoidCommit(v)
  \/ \E m \in Marks : MarkLoad(m) \/ MarkWrite(m)
  \/ MarkAll
  \/ \E p \in Actors : Crash(p)
  \/ \E i \in 1 .. MaxSubmits, verdict \in Verdicts : Decide(i, verdict)
  \/ ReferenceAccepted
  \/ PollJobRemoved

Spec == Init /\ [][Next]_vars

\* A job that BullMQ holds is run, its steps end (every DGII call has a
\* timeout), and a contingency run is followed by the next cron tick.  Nothing
\* is assumed of DGII: it may never decide.
FairSpec ==
  /\ Spec
  /\ WF_vars(EnqueueEcf) /\ WF_vars(EcfStep) /\ WF_vars(PollStep)
  /\ \A c \in Runs : WF_vars(RunStep(c))
  /\ \A q \in Queries : WF_vars(QueryStep(q))

-----------------------------------------------------------------------------
(* Properties *)

Statuses ==
  {"QUEUED", "PROCESSING", "SENT", "CONTINGENCY", "ERROR", "VOIDED"} \cup Verdicts
Steps ==
  {"idle", "sign", "prepare", "submit", "query", "recover", "timeout", "update", "refund",
   "decrement", "notify", "enqueue", "catch", "catchNetwork", "catchError", "void", "mark"}

Events == {"accepted", "contingency"}
Submission == [channel : {"FC", "ECF"}, verdict : Verdicts \cup {"PROCESSING"}]
Process ==
  [step : Steps,
   seen : [status : Statuses, trackId : 0 .. MaxSubmits, rfce : BOOLEAN],
   answer : [status : Statuses, trackId : 0 .. MaxSubmits]]

\* Type invariant: the columns of the row, the jobs and the processes.
TypeOK ==
  /\ status \in Statuses /\ trackId \in 0 .. MaxSubmits /\ hasRfce \in BOOLEAN
  /\ usageReverted \in BOOLEAN /\ refunds \in Nat
  /\ received \in Seq(Submission)
  /\ Len(received) <= MaxSubmits
  /\ referenced \in BOOLEAN
  /\ ecfJob \in {"none", "lost", "waiting", "active", "completed", "exhausted", "failed"}
  /\ attemptsMade \in 0 .. MaxAttempts
  /\ pollJob \in {"none", "delayed", "active", "completed", "failed"}
  /\ pollAttempt \in Nat
  /\ proc \in [Actors -> Process]
  /\ notified \subseteq Events /\ crashed \in BOOLEAN

\* The quota of an invoice is given back at most once, however the job, the
\* poll, the contingency runs, pollStatus and voidInvoice meet.
RefundedAtMostOnce == refunds <= 1

\* An invoice is valid here, and the webhooks are told so, only if DGII gave that
\* very verdict on one of its submissions: no stale answer, parser default or
\* race invents an acceptance.
AcceptedByDgii ==
  /\ status \in {"ACCEPTED", "CONDITIONAL"} => \E i \in DOMAIN received : received[i].verdict = status
  /\ "accepted" \in notified => \E i \in DOMAIN received : received[i].verdict = "ACCEPTED"

\* FIX A and FIX B: DGII receives the e-CF once ("resubmitting would create a
\* DUPLICATE e-CF at DGII").
SubmittedOnce == Len(received) <= 1

\* An accepted e-CF stays accepted.
AcceptedStays == [][status = "ACCEPTED" => status' = "ACCEPTED"]_vars

\* A rejected invoice gives its quota back, whoever learns of the rejection.
RejectedIsRefunded == status = "REJECTED" ~> refunds = 1

\* No invoice stays in the pipeline without an end ("zombie state"): it leaves
\* QUEUED, PROCESSING and SENT.
NoZombie == status \in {"QUEUED", "PROCESSING", "SENT"} ~> status \notin {"QUEUED", "PROCESSING", "SENT"}

\* The jobs end: the attempts of the one and the polls of the other are bounded.
JobsEnd ==
  /\ ecfJob = "waiting" ~> ecfJob \in {"completed", "failed"}
  /\ pollJob = "delayed" ~> pollJob \in {"completed", "failed", "none"}

\* What a process has still to do, as the clients of the invoice see it.
Todo(p) ==
  CASE proc[p].step \in {"void", "refund", "decrement"} -> proc[p].step
    [] At(p, "notify") /\ Answer(p).status = "ACCEPTED" -> "announce"
    [] OTHER -> "nothing"

Lifecycle == INSTANCE InvoiceLifecycle WITH
  Writers <- Actors,
  said    <- {received[i].verdict : i \in DOMAIN received} \ {"PROCESSING"},
  todo    <- [p \in Actors |-> Todo(p)],
  claimed <- usageReverted,
  told    <- notified

\* "Diagrama de estados": what the integration guide promises of an invoice, as far as the
\* code keeps to it, and it keeps to that whatever meets and fails.
ImplementsLifecycle == Lifecycle!LifecycleSpec

-----------------------------------------------------------------------------
(* What the comments and docs promise and the code does not give *)

\* "ACCEPTED: Cannot void directly": an accepted e-CF is never voided.
AcceptedNeverVoided == [][~(status = "ACCEPTED" /\ status' = "VOIDED")]_vars

\* "`invoice.accepted`: DGII acepto la factura": an acceptance is notified.
AcceptedIsNotified == status = "ACCEPTED" ~> "accepted" \in notified
=============================================================================
