------------------------------ MODULE SignedCopies ------------------------------
(***************************************************************************)
(* The copies of one signed invoice: every attempt of its job and every    *)
(* run of the contingency signs the stored XML anew, with another time and *)
(* another security code, and saves them; DGII holds the documents that    *)
(* reached it; and the QR code of the printed representation is made of    *)
(* what the row keeps.  The copies agree when DGII finds what is printed.  *)
(*                                                                         *)
(* A signature is the number of its signing: the document, its time and    *)
(* its code are told apart by it, and a summary is known by the signature  *)
(* it was made from.  The quota, the webhooks and the voiding of the       *)
(* invoice are modelled in EcfPipeline.                                    *)
(***************************************************************************)
EXTENDS Integers

CONSTANTS
  MaxSignings,  \* bound on the signatures made
  JobAttempts,  \* attempts of the ecf-processing job
  MaxStalls     \* bound on the workers that die

ASSUME CopiesAssumption == {MaxSignings, JobAttempts, MaxStalls} \subseteq Nat

VARIABLES
  isRfce,    \* the invoice goes to DGII as a summary
  copy,      \* the row: status, xmlSigned, securityCode, signedAt, xmlRfce, trackId
  held,      \* the signatures DGII holds a document of
  signings,  \* how many signatures were made
  worker,    \* the attempt of the job: its step, signature and answer
  attempt,   \* the attempts that failed
  stalls,    \* the workers that died
  polling,   \* a status poll is enqueued
  resender,  \* the run of the contingency: its step, what it read, its signature and answer
  writer,    \* who wrote the status last
  resaved    \* a run of the contingency saved a signature of its own

copyVars == <<isRfce, copy, held, signings, worker, attempt, stalls, polling, resender, writer, resaved>>

FinalVerdicts == {"ACCEPTED", "REJECTED", "CONDITIONAL"}
Answers == FinalVerdicts \cup {"PROCESSING"}

NewRow == [status |-> "QUEUED", xml |-> 0, code |-> 0, time |-> 0, rfce |-> 0, track |-> 0]
Waits == [step |-> "waiting", sig |-> 0, answer |-> "QUEUED", track |-> 0]
Rests == [step |-> "idle", sig |-> 0, seen |-> NewRow, answer |-> "QUEUED", track |-> 0]

CopiesInit ==
  /\ isRfce \in BOOLEAN /\ copy = NewRow /\ held = {} /\ signings = 0
  /\ worker = Waits /\ attempt = 0 /\ stalls = 0 /\ polling = FALSE
  /\ resender = Rests /\ writer = "nobody" /\ resaved = FALSE

\* A document with signature sig reaches DGII; a summary has no track.
Taken(sig) == held' = held \cup {sig}
TrackOf(sig, summary) == IF summary THEN 0 ELSE sig

-----------------------------------------------------------------------------
(* The job *)

JobUnchanged == UNCHANGED <<isRfce, attempt, stalls, resender, resaved>>

\* process: a final row or one with a track is not signed again.
JobLoads ==
  /\ worker.step = "waiting"
  /\ IF copy.status \in {"ACCEPTED", "VOIDED"} THEN worker' = [worker EXCEPT !.step = "done"] /\ UNCHANGED polling
     ELSE IF copy.track # 0 THEN worker' = [worker EXCEPT !.step = "done"] /\ polling' = TRUE
     ELSE worker' = [worker EXCEPT !.step = "sign"] /\ UNCHANGED polling
  /\ JobUnchanged /\ UNCHANGED <<copy, held, signings, writer>>

\* signXml: the time goes into the e-CF before it is signed, and the code is the first
\* characters of the signature.
SignXml(sig) == [xml |-> sig, code |-> sig, time |-> sig]

\* What an attempt saves of its signature if it forgets the time.
SavedSignature_NoTime(row, sig) == LET s == SignXml(sig) IN [row EXCEPT !.status = "PROCESSING", !.xml = s.xml, !.code = s.code]

\* The document, its code and its time, before anything is sent.
SavedSignature(row, sig) ==
  LET s == SignXml(sig) IN [row EXCEPT !.status = "PROCESSING", !.xml = s.xml, !.code = s.code, !.time = s.time]

JobSigns ==
  /\ worker.step = "sign" /\ signings < MaxSignings
  /\ signings' = signings + 1
  /\ copy' = SavedSignature(copy, signings + 1)
  /\ worker' = [worker EXCEPT !.step = "check", !.sig = signings + 1] /\ writer' = "job"
  /\ JobUnchanged /\ UNCHANGED <<held, polling>>

\* The certificate, the conversion, the database or a webhook fails: an error that is not
\* tried again, even after the verdict was saved.
JobErrs ==
  /\ worker.step \in {"sign", "summarise", "save", "enqueue"}
  /\ copy' = [copy EXCEPT !.status = "ERROR"] /\ writer' = "job"
  /\ worker' = [worker EXCEPT !.step = "done"]
  /\ JobUnchanged /\ UNCHANGED <<held, signings, polling>>

\* The XSD validation of what was signed.
JobChecks ==
  /\ worker.step = "check"
  /\ \/ worker' = [worker EXCEPT !.step = IF isRfce THEN "summarise" ELSE "submit"]
        /\ UNCHANGED <<copy, writer>>
     \/ copy' = [copy EXCEPT !.status = "ERROR"] /\ writer' = "job"
        /\ worker' = [worker EXCEPT !.step = "done"]
  /\ JobUnchanged /\ UNCHANGED <<held, signings, polling>>

\* convertECF32ToRFCE, signed and saved.
JobSummarises ==
  /\ worker.step = "summarise"
  /\ copy' = [copy EXCEPT !.rfce = worker.sig]
  /\ worker' = [worker EXCEPT !.step = "submit"]
  /\ JobUnchanged /\ UNCHANGED <<held, signings, polling, writer>>

\* DGII takes the document, whether or not its answer arrives, with or without a track.
JobSubmits ==
  /\ worker.step = "submit"
  /\ \/ \E answer \in Answers, track \in {0, TrackOf(worker.sig, isRfce)} :
          Taken(worker.sig) /\ worker' = [worker EXCEPT !.step = "save", !.answer = answer, !.track = track]
     \/ Taken(worker.sig) /\ worker' = [worker EXCEPT !.step = "catch"]
     \/ UNCHANGED held /\ worker' = [worker EXCEPT !.step = "catch"]
  /\ JobUnchanged /\ UNCHANGED <<copy, signings, polling, writer>>

JobSaves ==
  /\ worker.step = "save"
  /\ copy' = [copy EXCEPT !.status = worker.answer, !.track = worker.track] /\ writer' = "job"
  /\ worker' = [worker EXCEPT !.step = "enqueue"]
  /\ JobUnchanged /\ UNCHANGED <<held, signings, polling>>

\* A summary without a track is not polled.
JobEnqueues ==
  /\ worker.step = "enqueue"
  /\ polling' = (polling \/ (worker.answer = "PROCESSING" /\ ~(isRfce /\ worker.track = 0)))
  /\ worker' = [worker EXCEPT !.step = "done"]
  /\ JobUnchanged /\ UNCHANGED <<copy, held, signings, writer>>

\* DGII was not reached, or its token not got: the job is tried again while it may.
JobFails ==
  /\ worker.step \in {"catch", "check"}
  /\ copy' = [copy EXCEPT !.status = "CONTINGENCY"] /\ writer' = "job"
  /\ worker' = [Waits EXCEPT !.step = IF attempt + 1 < JobAttempts THEN "waiting" ELSE "done"]
  /\ attempt' = attempt + 1
  /\ UNCHANGED <<isRfce, held, signings, stalls, polling, resender, resaved>>

\* The worker dies; BullMQ finds the job stalled and starts it again.
WorkerDies ==
  /\ worker.step \notin {"waiting", "done"} /\ stalls < MaxStalls
  /\ stalls' = stalls + 1 /\ worker' = Waits
  /\ UNCHANGED <<isRfce, copy, held, signings, attempt, polling, resender, writer, resaved>>

-----------------------------------------------------------------------------
(* The poll *)

PollUnchanged == UNCHANGED <<isRfce, held, signings, worker, attempt, stalls, resender, resaved>>

\* queryTrackIds and extractTrackIdFromResponse: the first track of the list, whatever order
\* DGII gives it, or none.
ListedTracks == held

\* Without a track, the first that DGII lists for the e-NCF.
PollRecovers ==
  /\ polling /\ copy.track = 0 /\ copy.status \notin {"ACCEPTED", "REJECTED", "VOIDED"}
  /\ \/ \E sig \in ListedTracks : copy' = [copy EXCEPT !.track = sig] /\ UNCHANGED <<polling, writer>>
     \/ copy' = [copy EXCEPT !.status = "ERROR"] /\ polling' = FALSE /\ writer' = "poll"
  /\ PollUnchanged

\* DGII answers with a verdict, or the attempts of the poll end without one.
PollDecides ==
  /\ polling /\ copy.track # 0 /\ copy.status \notin {"ACCEPTED", "REJECTED", "VOIDED"}
  /\ \E answer \in FinalVerdicts \cup {"ERROR"} : copy' = [copy EXCEPT !.status = answer]
  /\ polling' = FALSE /\ writer' = "poll"
  /\ PollUnchanged

-----------------------------------------------------------------------------
(* The contingency *)

RunUnchanged == UNCHANGED <<isRfce, worker, attempt, stalls, resaved>>

\* markForRetry.
MarkedForRetry ==
  /\ copy.status = "ERROR" /\ copy' = [copy EXCEPT !.status = "CONTINGENCY"] /\ writer' = "mark"
  /\ RunUnchanged /\ UNCHANGED <<held, signings, polling, resender>>

RunReads ==
  /\ resender.step = "idle" /\ copy.status = "CONTINGENCY"
  /\ resender' = [Rests EXCEPT !.step = "sign", !.seen = copy]
  /\ RunUnchanged /\ UNCHANGED <<copy, held, signings, polling, writer>>

\* FIX B: with a track the verdict is asked for.
RunReconciles ==
  /\ resender.step = "sign" /\ resender.seen.track # 0
  /\ \E answer \in Answers :
       copy' = [copy EXCEPT !.status = answer] /\ polling' = (polling \/ answer = "PROCESSING")
  /\ resender' = Rests /\ writer' = "reconcile"
  /\ RunUnchanged /\ UNCHANGED <<held, signings>>

\* The stored XML is signed again; a summary that the row had is sent as it is.
RunSigns ==
  /\ resender.step = "sign" /\ resender.seen.track = 0 /\ signings < MaxSignings
  /\ signings' = signings + 1
  /\ resender' = [resender EXCEPT !.step = "submit", !.sig = signings + 1]
  /\ RunUnchanged /\ UNCHANGED <<copy, held, polling, writer>>

\* What the run sends.
SendsSummary == isRfce /\ resender.seen.rfce # 0
Resent == IF SendsSummary THEN resender.seen.rfce ELSE resender.sig

RunSubmits ==
  /\ resender.step = "submit" /\ Taken(Resent)
  /\ \E answer \in Answers, track \in {0, TrackOf(Resent, SendsSummary)} :
       resender' = [resender EXCEPT !.step = "save", !.answer = answer, !.track = track]
  /\ RunUnchanged /\ UNCHANGED <<copy, signings, polling, writer>>

\* The document and its code, but not its time.
Resaved(row, sig, answer, track) ==
  [row EXCEPT !.status = answer, !.xml = SignXml(sig).xml, !.code = SignXml(sig).code, !.track = track]

RunSaves ==
  /\ resender.step = "save"
  /\ copy' = Resaved(copy, resender.sig, resender.answer, resender.track)
  /\ polling' = (polling \/ resender.answer = "PROCESSING")
  /\ resender' = Rests /\ writer' = "run" /\ resaved' = TRUE
  /\ UNCHANGED <<isRfce, worker, attempt, stalls>> /\ UNCHANGED <<held, signings>>

\* Whatever fails, also after DGII took the document.
RunFails ==
  /\ resender.step \in {"sign", "submit", "save"}
  /\ resender.step = "submit" => held' \in {held, held \cup {Resent}}
  /\ resender.step # "submit" => UNCHANGED held
  /\ copy' = [copy EXCEPT !.status = "ERROR"] /\ resender' = Rests /\ writer' = "run failed"
  /\ RunUnchanged /\ UNCHANGED <<signings, polling>>

CopiesNext ==
  \/ JobLoads \/ JobSigns \/ JobErrs \/ JobChecks \/ JobSummarises \/ JobSubmits
  \/ JobSaves \/ JobEnqueues \/ JobFails \/ WorkerDies
  \/ PollRecovers \/ PollDecides
  \/ MarkedForRetry \/ RunReads \/ RunReconciles \/ RunSigns \/ RunSubmits \/ RunSaves \/ RunFails

CopiesSpec == CopiesInit /\ [][CopiesNext]_copyVars

-----------------------------------------------------------------------------
(* The printed representation *)

\* getInvoiceForRi and generatePdf: what must be in the row.
ForRi == copy.time # 0 /\ copy.code # 0
Printable == ForRi /\ copy.xml # 0

\* QrBuilder: a summary is asked for by its code, a document by its code and its time.
FoundByQr == copy.code \in held /\ (isRfce \/ copy.time = copy.code)

-----------------------------------------------------------------------------
(* The certification's view of an invoice *)

\* getUploadStatus: what an invoice of an upload counts as, if as anything.
UploadCount(status) ==
  CASE status = "QUEUED" -> "queued"
    [] status \in {"PROCESSING", "SENT"} -> "processing"
    [] status \in {"ACCEPTED", "CONDITIONAL"} -> "signed"
    [] status \in {"ERROR", "REJECTED"} -> "failed"
    [] status = "CONTINGENCY" -> "contingency"
    [] OTHER -> "nothing"

\* getSignedXml and buildZip: the signed document, or the unsigned one (0) before there is one.
DownloadedXml == copy.xml

\* buildRfceSourceZip: the e-CF of an accepted summary.
RfceSources == {row.xml : row \in {r \in {copy} : isRfce /\ r.status = "ACCEPTED" /\ r.xml # 0}}

-----------------------------------------------------------------------------
(* Properties *)

Validated == UploadCount(copy.status) = "signed"

\* DGII finds what is printed: a verdict that the job's own answer brought is on the
\* document whose code and time the row keeps, however often it was signed and sent before
\* and unless a run of the contingency signed it too; and one that a run brought is on the
\* document whose code the row keeps, unless that run sent an older summary.  What is
\* downloaded of it, and the e-CF that goes to DGII after its summary, is that document.
PrintedAsHeld ==
  Validated =>
    /\ (writer = "job" /\ ~resaved) =>
         Printable /\ FoundByQr /\ DownloadedXml = copy.code /\ RfceSources \subseteq held
    /\ (writer = "run" /\ ~isRfce) => copy.code \in held /\ copy.xml = copy.code

-----------------------------------------------------------------------------
(* What the comments promise and the code does not give *)

\* "Must match <FechaHoraFirma> in the signed XML byte-for-byte so that the QR's FechaFirma
\* validates against the e-CF on DGII servers": the time of the QR is that of the document.
PrintsSigningTime == (Validated /\ Printable) => copy.time = copy.xml

\* The summary that DGII holds was made from the document that the row keeps.
SummaryOfDocument == (Validated /\ isRfce) => copy.code \in held
=============================================================================
