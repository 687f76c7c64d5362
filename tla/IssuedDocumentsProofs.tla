------------------------- MODULE IssuedDocumentsProofs -------------------------
(***************************************************************************)
(* Proofs about IssuedDocuments: the copies of an e-CF, for any number of  *)
(* signatures, attempts and workers that die, the amounts of the e-CF that *)
(* a request becomes, for any requests and any number of lines, and the    *)
(* verdicts that are read in the answers of DGII.                          *)
(***************************************************************************)
EXTENDS IssuedDocuments, FiniteSums, SequenceTheorems, TLAPS

\* A behaviour of the issuer is one of the requests.
LEMMA IssuedRequests == IssuedSpec => RequestsSpec
<1>1. IssuedInit => RequestsInit
  BY DEF IssuedInit
<1>2. [IssuedNext]_issuedVars => [RequestsNext]_requestVars
  BY DEF IssuedNext, issuedVars
<1> QED BY <1>1, <1>2, PTL DEF IssuedSpec, RequestsSpec

\* And one of the copies of an e-CF.
LEMMA IssuedCopies == IssuedSpec => CopiesSpec
<1>1. IssuedInit => CopiesInit
  BY DEF IssuedInit
<1>2. [IssuedNext]_issuedVars => [CopiesNext]_copyVars
  BY DEF IssuedNext, issuedVars
<1> QED BY <1>1, <1>2, PTL DEF IssuedSpec, CopiesSpec

-----------------------------------------------------------------------------
(* The copies of an e-CF *)

Statuses == Answers \cup {"QUEUED", "ERROR", "CONTINGENCY"}
WorkerSteps == {"waiting", "sign", "check", "summarise", "submit", "save", "enqueue", "catch", "done"}
RunSteps == {"idle", "sign", "submit", "save"}
Rows == [status : Statuses, xml : Nat, code : Nat, time : Nat, rfce : Nat, track : Nat]

CopiesTypeOK ==
  /\ isRfce \in BOOLEAN
  /\ copy \in Rows
  /\ held \subseteq Nat
  /\ signings \in Nat
  /\ worker \in [step : WorkerSteps, sig : Nat, answer : Answers \cup {"QUEUED"}, track : Nat]
  /\ resender \in [step : RunSteps, sig : Nat, seen : Rows, answer : Answers \cup {"QUEUED"},
                   track : Nat]
  /\ resaved \in BOOLEAN

\* The row keeps the document, the code and the time of one signature.
KeepsSignature(sig) == sig # 0 /\ copy.xml = sig /\ copy.code = sig /\ copy.time = sig

\* From its signature to its end, the attempt works on the document that the row keeps,
\* unless a run of the contingency saved another.
WorkerKeepsItsDocument ==
  /\ worker.step \in {"check", "summarise", "submit", "save", "enqueue", "catch"} /\ ~resaved =>
       KeepsSignature(worker.sig)
  /\ worker.step = "save" => worker.sig \in held

\* What a run saves as sent is with DGII.
RunSavesWhatItSent == resender.step = "save" /\ ~isRfce => resender.sig \in held

\* The copies of a verdict: PrintedAsHeld in terms of the row.
VerdictOnTheRow ==
  copy.status \in {"ACCEPTED", "CONDITIONAL"} =>
    /\ writer = "job" /\ ~resaved => KeepsSignature(copy.code) /\ copy.code \in held
    /\ writer = "run" /\ ~isRfce => copy.code \in held /\ copy.xml = copy.code

CopiesInv == CopiesTypeOK /\ WorkerKeepsItsDocument /\ RunSavesWhatItSent /\ VerdictOnTheRow

\* A step that keeps the row's signature and writes no verdict keeps what is said of it.
LEMMA RowFrame ==
  ASSUME CopiesInv, held \subseteq held', UNCHANGED <<isRfce, resaved>>,
         copy'.xml = copy.xml, copy'.code = copy.code, copy'.time = copy.time,
         \/ copy'.status \notin {"ACCEPTED", "CONDITIONAL"}
         \/ writer' \notin {"job", "run"}
         \/ copy'.status = copy.status /\ writer' = writer
  PROVE  VerdictOnTheRow'
BY DEF CopiesInv, VerdictOnTheRow, KeepsSignature

\* The attempt that moves on with its document, or leaves it.
LEMMA WorkerFrame ==
  ASSUME CopiesInv, held \subseteq held', UNCHANGED resaved,
         copy'.xml = copy.xml, copy'.code = copy.code, copy'.time = copy.time,
         \/ worker' = worker
         \/ worker'.step \in {"waiting", "sign", "done"}
         \/ /\ worker.step \in {"check", "summarise", "submit", "save", "enqueue", "catch"}
            /\ worker'.sig = worker.sig
            /\ worker'.step = "save" => worker.sig \in held'
  PROVE  WorkerKeepsItsDocument'
BY DEF CopiesInv, WorkerKeepsItsDocument, KeepsSignature

\* The run that moves on with its document, or rests.
LEMMA RunFrame ==
  ASSUME CopiesInv, held \subseteq held', UNCHANGED isRfce,
         resender' = resender \/ resender'.step # "save"
  PROVE  RunSavesWhatItSent'
BY DEF CopiesInv, RunSavesWhatItSent

\* The first row keeps nothing.
LEMMA CopiesStart == CopiesInit => CopiesInv
<1> SUFFICES ASSUME CopiesInit PROVE CopiesInv
  OBVIOUS
<1> USE DEF CopiesInit
<1>1. NewRow \in Rows
  BY DEF NewRow, Rows, Statuses
<1>2. /\ worker \in [step : WorkerSteps, sig : Nat, answer : Answers \cup {"QUEUED"}, track : Nat]
      /\ worker.step = "waiting"
  BY DEF Waits, WorkerSteps
<1>3. /\ resender \in [step : RunSteps, sig : Nat, seen : Rows, answer : Answers \cup {"QUEUED"},
                       track : Nat]
      /\ resender.step = "idle"
  BY <1>1 DEF Rests, RunSteps
<1>4. CopiesTypeOK
  BY <1>1, <1>2, <1>3 DEF CopiesTypeOK
<1>5. copy.status = "QUEUED"
  BY DEF NewRow
<1> QED
  BY <1>2, <1>3, <1>4, <1>5
     DEF CopiesInv, WorkerKeepsItsDocument, RunSavesWhatItSent, VerdictOnTheRow

\* Every attempt of the job saves its document, its code and its time before it sends them,
\* and writes a verdict of its own answer.
LEMMA JobKeepsCopies ==
  ASSUME CopiesInv,
         JobLoads \/ JobSigns \/ JobErrs \/ JobChecks \/ JobSummarises \/ JobSubmits
           \/ JobSaves \/ JobEnqueues \/ JobFails \/ WorkerDies
  PROVE  CopiesInv'
<1> USE DEF Statuses, Answers, FinalVerdicts, WorkerSteps
<1>1. /\ isRfce \in BOOLEAN /\ resaved \in BOOLEAN /\ copy \in Rows /\ held \subseteq Nat
      /\ signings \in Nat
      /\ worker \in [step : WorkerSteps, sig : Nat, answer : Answers \cup {"QUEUED"}, track : Nat]
  BY DEF CopiesInv, CopiesTypeOK
<1>2. isRfce' = isRfce /\ resaved' = resaved /\ resender' = resender
  BY DEF JobLoads, JobSigns, JobErrs, JobChecks, JobSummarises, JobSubmits, JobSaves, JobEnqueues,
         JobFails, WorkerDies, JobUnchanged
<1>3. held \subseteq held' /\ held' \subseteq Nat
  BY <1>1 DEF JobLoads, JobSigns, JobErrs, JobChecks, JobSummarises, JobSubmits, JobSaves,
              JobEnqueues, JobFails, WorkerDies, JobUnchanged, Taken
<1>4. RunSavesWhatItSent'
  BY <1>2, <1>3, RunFrame
<1>5. CASE JobSigns
  <2> DEFINE sig == signings + 1
  <2>1. copy' = SavedSignature(copy, sig) /\ worker' = [worker EXCEPT !.step = "check", !.sig = sig]
        /\ signings' = sig /\ held' = held
    BY <1>5 DEF JobSigns
  <2>2. sig \in Nat /\ sig # 0
    BY <1>1
  <2> HIDE DEF sig
  <2>3. /\ copy' \in Rows /\ copy'.status = "PROCESSING"
        /\ copy'.xml = sig /\ copy'.code = sig /\ copy'.time = sig
    BY <1>1, <2>1, <2>2 DEF SavedSignature, SignXml, Rows
  <2>4. /\ worker' \in [step : WorkerSteps, sig : Nat, answer : Answers \cup {"QUEUED"}, track : Nat]
        /\ worker'.step = "check" /\ worker'.sig = sig
    BY <1>1, <2>1, <2>2
  <2>5. CopiesTypeOK'
    BY <1>2, <1>3, <2>1, <2>2, <2>3, <2>4 DEF CopiesInv, CopiesTypeOK
  <2>6. WorkerKeepsItsDocument' /\ VerdictOnTheRow'
    BY <2>2, <2>3, <2>4 DEF WorkerKeepsItsDocument, VerdictOnTheRow, KeepsSignature
  <2> QED BY <1>4, <2>5, <2>6 DEF CopiesInv
<1>6. CASE JobSaves
  <2>1. /\ worker.step = "save" /\ held' = held /\ signings' = signings /\ writer' = "job"
        /\ copy' = [copy EXCEPT !.status = worker.answer, !.track = worker.track]
        /\ worker' = [worker EXCEPT !.step = "enqueue"]
    BY <1>6 DEF JobSaves, JobUnchanged
  <2>2. worker.answer \in Statuses /\ worker.track \in Nat
    BY <1>1
  <2>3. /\ copy' \in Rows
        /\ copy'.xml = copy.xml /\ copy'.code = copy.code /\ copy'.time = copy.time
    BY <1>1, <2>1, <2>2 DEF Rows
  <2>4. /\ worker' \in [step : WorkerSteps, sig : Nat, answer : Answers \cup {"QUEUED"}, track : Nat]
        /\ worker'.step = "enqueue" /\ worker'.sig = worker.sig
    BY <1>1, <2>1
  <2>5. CopiesTypeOK'
    BY <1>2, <1>3, <2>1, <2>3, <2>4 DEF CopiesInv, CopiesTypeOK
  <2>6. WorkerKeepsItsDocument'
    BY <1>2, <1>3, <2>1, <2>3, <2>4, WorkerFrame
  <2>7. VerdictOnTheRow'
    BY <1>2, <2>1, <2>3 DEF CopiesInv, WorkerKeepsItsDocument, VerdictOnTheRow, KeepsSignature
  <2> QED BY <1>4, <2>5, <2>6, <2>7 DEF CopiesInv
<1>7. CASE ~JobSigns /\ ~JobSaves
  <2>1. /\ copy' \in Rows /\ signings' \in Nat
        /\ copy'.xml = copy.xml /\ copy'.code = copy.code /\ copy'.time = copy.time
        /\ \/ copy'.status \notin {"ACCEPTED", "CONDITIONAL"}
           \/ copy'.status = copy.status /\ writer' = writer
    <3>1. CASE copy' = copy /\ writer' = writer
      BY <1>1, <1>7, <3>1
         DEF JobLoads, JobErrs, JobChecks, JobSummarises, JobSubmits, JobEnqueues, JobFails, WorkerDies
    <3>2. CASE copy' = [copy EXCEPT !.status = "ERROR"] \/ copy' = [copy EXCEPT !.status = "CONTINGENCY"]
      <4>1. signings' = signings
        BY <1>7
           DEF JobLoads, JobErrs, JobChecks, JobSummarises, JobSubmits, JobEnqueues, JobFails, WorkerDies
      <4> QED BY <1>1, <3>2, <4>1 DEF Rows
    <3>3. CASE copy' = [copy EXCEPT !.rfce = worker.sig] /\ writer' = writer
      <4>1. signings' = signings
        BY <1>7
           DEF JobLoads, JobErrs, JobChecks, JobSummarises, JobSubmits, JobEnqueues, JobFails, WorkerDies
      <4>2. worker.sig \in Nat
        BY <1>1
      <4> QED BY <1>1, <3>3, <4>1, <4>2 DEF Rows
    <3> QED BY <1>7, <3>1, <3>2, <3>3
            DEF JobLoads, JobErrs, JobChecks, JobSummarises, JobSubmits, JobEnqueues, JobFails, WorkerDies
  <2>2. VerdictOnTheRow'
    BY <1>2, <1>3, <2>1, RowFrame
  <2>3. /\ worker' \in [step : WorkerSteps, sig : Nat, answer : Answers \cup {"QUEUED"}, track : Nat]
        /\ \/ worker' = worker
           \/ worker'.step \in {"waiting", "sign", "done"}
           \/ /\ worker.step \in {"check", "summarise", "submit", "save", "enqueue", "catch"}
              /\ worker'.sig = worker.sig
              /\ worker'.step = "save" => worker.sig \in held'
    <3>1. CASE JobLoads
      BY <1>1, <3>1 DEF JobLoads
    <3>2. CASE JobErrs
      BY <1>1, <3>2 DEF JobErrs
    <3>3. CASE JobChecks
      BY <1>1, <3>3 DEF JobChecks
    <3>4. CASE JobSummarises
      BY <1>1, <3>4 DEF JobSummarises
    <3>5. CASE JobSubmits
      <4>1. ASSUME NEW answer \in Answers, NEW track \in {0, TrackOf(worker.sig, isRfce)},
                   Taken(worker.sig),
                   worker' = [worker EXCEPT !.step = "save", !.answer = answer, !.track = track]
            PROVE  /\ worker' \in [step : WorkerSteps, sig : Nat, answer : Answers \cup {"QUEUED"},
                                   track : Nat]
                   /\ worker'.sig = worker.sig /\ worker.sig \in held'
        <5>1. track \in Nat
          BY <1>1 DEF TrackOf
        <5> QED BY <1>1, <4>1, <5>1 DEF Taken
      <4>2. CASE worker' = [worker EXCEPT !.step = "catch"]
        BY <1>1, <3>5, <4>2 DEF JobSubmits
      <4> QED BY <3>5, <4>1, <4>2 DEF JobSubmits
    <3>6. CASE JobEnqueues
      BY <1>1, <3>6 DEF JobEnqueues
    <3>7. CASE JobFails
      BY <1>1, <3>7 DEF JobFails, Waits
    <3>8. CASE WorkerDies
      BY <1>1, <3>8 DEF WorkerDies, Waits
    <3> QED BY <1>7, <3>1, <3>2, <3>3, <3>4, <3>5, <3>6, <3>7, <3>8
  <2>4. WorkerKeepsItsDocument'
    BY <1>2, <1>3, <2>1, <2>3, WorkerFrame
  <2>5. CopiesTypeOK'
    BY <1>2, <1>3, <2>1, <2>3 DEF CopiesInv, CopiesTypeOK
  <2> QED BY <1>4, <2>2, <2>4, <2>5 DEF CopiesInv
<1> QED BY <1>5, <1>6, <1>7

\* The poll writes verdicts of its own and leaves the documents alone.
LEMMA PollKeepsCopies ==
  ASSUME CopiesInv, PollRecovers \/ PollDecides
  PROVE  CopiesInv'
<1> USE DEF Statuses, Answers, FinalVerdicts
<1>1. copy \in Rows /\ held \subseteq Nat
  BY DEF CopiesInv, CopiesTypeOK
<1>2. UNCHANGED <<isRfce, held, signings, worker, resender, resaved>>
  BY DEF PollRecovers, PollDecides, PollUnchanged
<1>3. /\ copy' \in Rows
      /\ copy'.xml = copy.xml /\ copy'.code = copy.code /\ copy'.time = copy.time
      /\ writer' = "poll" \/ (copy'.status = copy.status /\ writer' = writer)
  <2>1. CASE \E sig \in Nat : copy' = [copy EXCEPT !.track = sig] /\ writer' = writer
    BY <1>1, <2>1 DEF Rows
  <2>2. CASE \E st \in Statuses : copy' = [copy EXCEPT !.status = st] /\ writer' = "poll"
    BY <1>1, <2>2 DEF Rows
  <2>3. ASSUME PollRecovers
        PROVE  \/ \E sig \in Nat : copy' = [copy EXCEPT !.track = sig] /\ writer' = writer
               \/ \E st \in Statuses : copy' = [copy EXCEPT !.status = st] /\ writer' = "poll"
    BY <1>1, <2>3 DEF PollRecovers, ListedTracks
  <2>4. ASSUME PollDecides
        PROVE  \E st \in Statuses : copy' = [copy EXCEPT !.status = st] /\ writer' = "poll"
    BY <2>4 DEF PollDecides
  <2> QED BY <2>1, <2>2, <2>3, <2>4
<1>4. CopiesTypeOK'
  BY <1>2, <1>3 DEF CopiesInv, CopiesTypeOK
<1>5. WorkerKeepsItsDocument' /\ RunSavesWhatItSent' /\ VerdictOnTheRow'
  BY <1>2, <1>3, WorkerFrame, RunFrame, RowFrame
<1> QED BY <1>4, <1>5 DEF CopiesInv

\* A run sends what it signed, or the summary it read, and saves what it sent.
LEMMA RunKeepsCopies ==
  ASSUME CopiesInv,
         MarkedForRetry \/ RunReads \/ RunReconciles \/ RunSigns \/ RunSubmits \/ RunSaves
           \/ RunFails
  PROVE  CopiesInv'
<1> USE DEF Statuses, Answers, FinalVerdicts, RunSteps
<1> DEFINE Runs == [step : RunSteps, sig : Nat, seen : Rows, answer : Answers \cup {"QUEUED"},
                    track : Nat]
<1>1. /\ isRfce \in BOOLEAN /\ copy \in Rows /\ held \subseteq Nat /\ signings \in Nat
      /\ resender \in Runs
  BY DEF CopiesInv, CopiesTypeOK
<1>2. isRfce' = isRfce /\ worker' = worker
  BY DEF MarkedForRetry, RunReads, RunReconciles, RunSigns, RunSubmits, RunSaves, RunFails,
         RunUnchanged
<1>3. Resent \in Nat
  <2>1. resender.seen \in Rows /\ resender.sig \in Nat
    BY <1>1
  <2> QED BY <2>1 DEF Resent, Rows
<1>4. held \subseteq held' /\ held' \subseteq Nat
  BY <1>1, <1>3
     DEF MarkedForRetry, RunReads, RunReconciles, RunSigns, RunSubmits, RunSaves, RunFails, Taken
<1>5. signings' \in Nat
  <2>1. signings' = signings + 1 \/ signings' = signings
    BY DEF MarkedForRetry, RunReads, RunReconciles, RunSigns, RunSubmits, RunSaves, RunFails
  <2> QED BY <1>1, <2>1
<1>6. resender' \in Runs
  <2>1. CASE UNCHANGED resender \/ resender' = Rests
    <3>1. NewRow \in Rows
      BY DEF NewRow, Rows
    <3> QED BY <1>1, <2>1, <3>1 DEF Rests
  <2>2. CASE RunReads
    BY <1>1, <2>2 DEF RunReads, Rests
  <2>3. CASE RunSigns
    <3>1. resender' = [resender EXCEPT !.step = "submit", !.sig = signings + 1]
      BY <2>3 DEF RunSigns
    <3>2. signings + 1 \in Nat
      BY <1>1
    <3> QED BY <1>1, <3>1, <3>2
  <2>4. CASE RunSubmits
    <3>1. PICK answer \in Answers, track \in {0, TrackOf(Resent, SendsSummary)} :
            resender' = [resender EXCEPT !.step = "save", !.answer = answer, !.track = track]
      BY <2>4 DEF RunSubmits
    <3>2. track \in Nat
      BY <1>3 DEF TrackOf
    <3> QED BY <1>1, <3>1, <3>2
  <2> QED BY <2>1, <2>2, <2>3, <2>4
          DEF MarkedForRetry, RunReconciles, RunSaves, RunFails
<1>7. CASE RunSaves
  <2> DEFINE sig == resender.sig
  <2>1. /\ resender.step = "save" /\ resender' = Rests /\ writer' = "run" /\ resaved' = TRUE
        /\ copy' = Resaved(copy, sig, resender.answer, resender.track)
        /\ held' = held
    BY <1>7 DEF RunSaves
  <2>2. sig \in Nat /\ resender.answer \in Statuses /\ resender.track \in Nat
    BY <1>1
  <2> HIDE DEF sig
  <2>3. copy' \in Rows /\ copy'.xml = sig /\ copy'.code = sig
    BY <1>1, <2>1, <2>2 DEF Resaved, SignXml, Rows
  <2>4. CopiesTypeOK'
    BY <1>1, <1>2, <1>4, <1>5, <1>6, <2>1, <2>3 DEF CopiesInv, CopiesTypeOK
  <2>5. WorkerKeepsItsDocument' /\ RunSavesWhatItSent'
    BY <1>2, <2>1 DEF CopiesInv, WorkerKeepsItsDocument, RunSavesWhatItSent, Rests
  <2>6. VerdictOnTheRow'
    BY <1>2, <2>1, <2>3 DEF CopiesInv, RunSavesWhatItSent, VerdictOnTheRow, sig
  <2> QED BY <2>4, <2>5, <2>6 DEF CopiesInv
<1>8. CASE ~RunSaves
  <2>1. /\ copy' \in Rows
        /\ copy'.xml = copy.xml /\ copy'.code = copy.code /\ copy'.time = copy.time
        /\ \/ copy'.status \notin {"ACCEPTED", "CONDITIONAL"}
           \/ writer' = "reconcile"
           \/ copy'.status = copy.status /\ writer' = writer
    <3>1. CASE \E st \in Statuses : copy' = [copy EXCEPT !.status = st] /\ writer' = "reconcile"
      BY <1>1, <3>1 DEF Rows
    <3>2. CASE copy' = [copy EXCEPT !.status = "ERROR"] \/ copy' = [copy EXCEPT !.status = "CONTINGENCY"]
      BY <1>1, <3>2 DEF Rows
    <3>3. CASE copy' = copy /\ writer' = writer
      BY <1>1, <3>3
    <3> QED BY <1>8, <3>1, <3>2, <3>3
            DEF MarkedForRetry, RunReads, RunReconciles, RunSigns, RunSubmits, RunFails
  <2>2. resaved' = resaved
    BY <1>8 DEF MarkedForRetry, RunReads, RunReconciles, RunSigns, RunSubmits, RunFails,
                RunUnchanged
  <2>3. CopiesTypeOK'
    BY <1>1, <1>2, <1>4, <1>5, <1>6, <2>1, <2>2 DEF CopiesInv, CopiesTypeOK
  <2>4. WorkerKeepsItsDocument' /\ VerdictOnTheRow'
    BY <1>2, <1>4, <2>1, <2>2, WorkerFrame, RowFrame
  <2>5. RunSavesWhatItSent'
    <3>1. CASE RunSubmits
      <4>1. ~isRfce => resender'.sig \in held'
        BY <1>1, <3>1 DEF RunSubmits, Taken, Resent, SendsSummary
      <4> QED BY <1>2, <4>1 DEF RunSavesWhatItSent
    <3>2. CASE ~RunSubmits
      <4>1. resender' = resender \/ resender'.step # "save"
        <5>1. CASE RunReads
          BY <1>1, <5>1 DEF RunReads, Rests
        <5>2. CASE RunSigns
          <6>1. resender' = [resender EXCEPT !.step = "submit", !.sig = signings + 1]
            BY <5>2 DEF RunSigns
          <6> QED BY <1>1, <6>1
        <5>3. CASE UNCHANGED resender \/ resender' = Rests
          BY <5>3 DEF Rests
        <5> QED BY <1>8, <3>2, <5>1, <5>2, <5>3
                DEF MarkedForRetry, RunReconciles, RunFails
      <4> QED BY <1>2, <1>4, <4>1, RunFrame
    <3> QED BY <3>1, <3>2
  <2> QED BY <2>3, <2>4, <2>5 DEF CopiesInv
<1> QED BY <1>7, <1>8

\* The copies agree in every reachable state.
THEOREM CopiesInvariant == CopiesSpec => []CopiesInv
<1>1. CopiesInv /\ [CopiesNext]_copyVars => CopiesInv'
  <2>1. CopiesInv /\ CopiesNext => CopiesInv'
    BY JobKeepsCopies, PollKeepsCopies, RunKeepsCopies DEF CopiesNext
  <2>2. CopiesInv /\ UNCHANGED copyVars => CopiesInv'
    BY DEF copyVars, CopiesInv, CopiesTypeOK, WorkerKeepsItsDocument, RunSavesWhatItSent,
           VerdictOnTheRow, KeepsSignature
  <2> QED BY <2>1, <2>2
<1> QED BY <1>1, CopiesStart, PTL DEF CopiesSpec

\* DGII finds what is printed, for any number of attempts, stalls and runs of the
\* contingency: a verdict of the job is on the document whose code and time the row keeps,
\* and one of a run on the document whose code it keeps.
THEOREM HeldAsPrinted == IssuedSpec => []PrintedAsHeld
<1>1. CopiesInv => PrintedAsHeld
  <2> SUFFICES ASSUME CopiesInv, Validated PROVE PrintedAsHeld
    BY DEF PrintedAsHeld
  <2>1. copy.status \in {"ACCEPTED", "CONDITIONAL"}
    <3>1. copy.status \in Statuses
      BY DEF CopiesInv, CopiesTypeOK, Rows
    <3> QED BY <3>1 DEF Validated, UploadCount, Statuses, Answers, FinalVerdicts
  <2>2. ASSUME writer = "job", ~resaved
        PROVE  Printable /\ FoundByQr /\ DownloadedXml = copy.code /\ RfceSources \subseteq held
    <3>1. KeepsSignature(copy.code) /\ copy.code \in held
      BY <2>1, <2>2 DEF CopiesInv, VerdictOnTheRow
    <3>2. RfceSources \subseteq {copy.xml}
      BY DEF RfceSources
    <3> QED BY <3>1, <3>2 DEF KeepsSignature, Printable, ForRi, FoundByQr, DownloadedXml
  <2>3. (writer = "run" /\ ~isRfce) => copy.code \in held /\ copy.xml = copy.code
    BY <2>1 DEF CopiesInv, VerdictOnTheRow
  <2> QED BY <2>2, <2>3 DEF PrintedAsHeld
<1> QED BY <1>1, CopiesInvariant, IssuedCopies, PTL

-----------------------------------------------------------------------------
(* What a sequence of elements and amounts says of an element *)

\* The elements of Totales, with an amount each.
Element == {"MontoGravadoTotal", "MontoGravadoI1", "MontoGravadoI2", "MontoGravadoI3", "MontoExento",
            "ITBIS1", "ITBIS2", "ITBIS3", "TotalITBIS", "TotalITBIS1", "TotalITBIS2", "TotalITBIS3",
            "MontoImpuestoAdicional", "ImpuestosAdicionales", "MontoTotal", "MontoNoFacturable",
            "MontoPeriodo", "ValorPagar", "TotalITBISRetenido", "TotalISRRetencion",
            "TotalITBISPercepcion", "TotalISRPercepcion"}
Pair == Element \X Int

\* The amounts in two sequences, one after the other, are those of both.
LEMMA AmountsConcat ==
  ASSUME NEW s \in Seq(Pair), NEW u \in Seq(Pair), NEW e
  PROVE  /\ s \o u \in Seq(Pair)
         /\ \A x : x \in Amounts(s \o u, e) <=> x \in Amounts(s, e) \/ x \in Amounts(u, e)
<1>1. s \o u \in Seq(Pair)
  OBVIOUS
<1>2. \A p : p \in ToSet(s \o u) <=> p \in ToSet(s) \/ p \in ToSet(u)
  <2>1. ASSUME NEW p, p \in ToSet(s) \/ p \in ToSet(u) PROVE p \in ToSet(s \o u)
    <3>1. CASE p \in ToSet(s)
      <4>1. PICK i \in 1 .. Len(s) : s[i] = p
        BY <3>1 DEF ToSet
      <4>2. i \in 1 .. Len(s \o u) /\ (s \o u)[i] = p
        BY <4>1
      <4> QED BY <4>2 DEF ToSet
    <3>2. CASE p \in ToSet(u)
      <4>1. PICK i \in 1 .. Len(u) : u[i] = p
        BY <3>2 DEF ToSet
      <4>2. Len(s) + i \in 1 .. Len(s \o u) /\ (s \o u)[Len(s) + i] = p
        BY <4>1
      <4> QED BY <4>2 DEF ToSet
    <3> QED BY <2>1, <3>1, <3>2
  <2>2. ASSUME NEW p, p \in ToSet(s \o u) PROVE p \in ToSet(s) \/ p \in ToSet(u)
    <3>1. PICK i \in 1 .. Len(s \o u) : (s \o u)[i] = p
      BY <2>2 DEF ToSet
    <3>2. CASE i <= Len(s)
      <4>1. i \in 1 .. Len(s) /\ s[i] = p
        BY <3>1, <3>2
      <4> QED BY <4>1 DEF ToSet
    <3>3. CASE ~(i <= Len(s))
      <4>1. i - Len(s) \in 1 .. Len(u) /\ u[i - Len(s)] = p
        BY <3>1, <3>3
      <4> QED BY <4>1 DEF ToSet
    <3> QED BY <3>2, <3>3
  <2> QED BY <2>1, <2>2
<1>3. \A r, x : x \in Amounts(r, e) <=> \E p \in ToSet(r) : p[1] = e /\ x = p[2]
  BY DEF Amounts
<1> QED BY <1>1, <1>2, <1>3

\* The amounts of e in the pairs s are those of A.
Tells(s, e, A) == s \in Seq(Pair) /\ Amounts(s, e) = A

\* What the pair of an element and its amount says, if it is there.
OneOf(u, d, a) == d \in Element /\ a \in Int /\ (u = << >> \/ u = <<<<d, a>>>>)
Told(u, d, a, e) == IF u # << >> /\ d = e THEN {a} ELSE {}

\* A pair alone, or none.
LEMMA SaysOne ==
  ASSUME NEW d, NEW a, NEW u, OneOf(u, d, a), NEW e
  PROVE  Tells(u, e, Told(u, d, a, e))
<1>0. PICK p : p = <<d, a>>
  OBVIOUS
<1>1. p \in Pair /\ p[1] = d /\ p[2] = a
  BY <1>0 DEF Pair, OneOf
<1>2. ToSet(<<p>>) = {p} /\ <<p>> \in Seq(Pair) /\ <<p>> # << >>
  BY <1>1 DEF ToSet
<1>3. ToSet(<< >>) = {} /\ << >> \in Seq(Pair)
  BY DEF ToSet
<1>4. \A x : x \in Amounts(<<p>>, e) <=> d = e /\ x = a
  BY <1>1, <1>2 DEF Amounts
<1>5. \A x : x \notin Amounts(<< >>, e)
  BY <1>3 DEF Amounts
<1>6. u = << >> \/ u = <<p>>
  BY <1>0 DEF OneOf
<1> QED BY <1>2, <1>3, <1>4, <1>5, <1>6 DEF Tells, Told

\* Pairs after others say what both say.
LEMMA SaysThen ==
  ASSUME NEW e, NEW s, NEW A, Tells(s, e, A), NEW u, NEW B, Tells(u, e, B)
  PROVE  Tells(s \o u, e, A \cup B)
<1>1. s \in Seq(Pair) /\ u \in Seq(Pair) /\ Amounts(s, e) = A /\ Amounts(u, e) = B
  BY DEF Tells
<1>2. /\ s \o u \in Seq(Pair)
      /\ \A x : x \in Amounts(s \o u, e) <=> x \in Amounts(s, e) \/ x \in Amounts(u, e)
  BY <1>1, AmountsConcat
<1> QED BY <1>1, <1>2 DEF Tells

\* Four more after others.
LEMMA SaysFour ==
  ASSUME NEW e, NEW s, NEW A, Tells(s, e, A), NEW u1, NEW B1, Tells(u1, e, B1), NEW u2, NEW B2,
         Tells(u2, e, B2), NEW u3, NEW B3, Tells(u3, e, B3), NEW u4, NEW B4, Tells(u4, e, B4)
  PROVE  Tells(s \o u1 \o u2 \o u3 \o u4, e, A \cup B1 \cup B2 \cup B3 \cup B4)
<1>1. Tells(s \o u1, e, A \cup B1)
  BY SaysThen
<1>2. Tells(s \o u1 \o u2, e, A \cup B1 \cup B2)
  BY <1>1, SaysThen
<1>3. Tells(s \o u1 \o u2 \o u3, e, A \cup B1 \cup B2 \cup B3)
  BY <1>2, SaysThen
<1> QED BY <1>3, SaysThen

-----------------------------------------------------------------------------
(* The header of the types that have a place for every amount *)

\* The elements of the header that are amounts of the lines.
Summed == {"MontoGravadoTotal", "MontoExento", "TotalITBIS", "MontoImpuestoAdicional",
           "MontoNoFacturable", "MontoTotal"}

\* What remains to be paid and what is retained are other elements.
LEMMA PayableElements ==
  ASSUME NEW t, NEW g, NEW raw, NEW e \in Summed
  PROVE  Tells(PayableAndRetained(t, g, raw), e, {})
<1> DEFINE retains == t \in {31, 33, 34, 41}
           Paid(d) == If(d \in g, <<<<d, 0>>>>)
           Retained(d, has) == If(d \in raw \/ (has /\ d \in g), <<<<d, 0>>>>)
           u1 == Paid("MontoPeriodo")
           u2 == Paid("ValorPagar")
           u3 == Retained("TotalITBISRetenido", retains)
           u4 == Retained("TotalISRRetencion", retains \/ t = 47)
           u5 == Retained("TotalITBISPercepcion", retains)
           u6 == Retained("TotalISRPercepcion", retains)
<1>1. PayableAndRetained(t, g, raw) = u1 \o u2 \o u3 \o u4 \o u5 \o u6
  BY DEF PayableAndRetained
<1>2. /\ OneOf(u1, "MontoPeriodo", 0)
      /\ OneOf(u2, "ValorPagar", 0)
      /\ OneOf(u3, "TotalITBISRetenido", 0)
      /\ OneOf(u4, "TotalISRRetencion", 0)
      /\ OneOf(u5, "TotalITBISPercepcion", 0)
      /\ OneOf(u6, "TotalISRPercepcion", 0)
  BY DEF If, OneOf, Element
<1> HIDE DEF u1, u2, u3, u4, u5, u6
<1>3. /\ Tells(u1, e, Told(u1, "MontoPeriodo", 0, e))
      /\ Tells(u2, e, Told(u2, "ValorPagar", 0, e))
      /\ Tells(u3, e, Told(u3, "TotalITBISRetenido", 0, e))
      /\ Tells(u4, e, Told(u4, "TotalISRRetencion", 0, e))
      /\ Tells(u5, e, Told(u5, "TotalITBISPercepcion", 0, e))
      /\ Tells(u6, e, Told(u6, "TotalISRPercepcion", 0, e))
  BY <1>2, SaysOne, Zenon
<1>4. /\ Told(u1, "MontoPeriodo", 0, e) = {}
      /\ Told(u2, "ValorPagar", 0, e) = {}
      /\ Told(u3, "TotalITBISRetenido", 0, e) = {}
      /\ Told(u4, "TotalISRRetencion", 0, e) = {}
      /\ Told(u5, "TotalITBISPercepcion", 0, e) = {}
      /\ Told(u6, "TotalISRPercepcion", 0, e) = {}
  BY DEF Told, Summed
<1>5. /\ Tells(u1, e, {}) /\ Tells(u2, e, {}) /\ Tells(u3, e, {})
      /\ Tells(u4, e, {}) /\ Tells(u5, e, {}) /\ Tells(u6, e, {})
  BY <1>3, <1>4
<1>6. Tells(u1 \o u2 \o u3 \o u4 \o u5, e, {} \cup {} \cup {} \cup {} \cup {})
  BY <1>5, SaysFour, Zenon
<1>7. Tells(u1 \o u2 \o u3 \o u4 \o u5 \o u6, e, {} \cup {} \cup {} \cup {} \cup {} \cup {})
  BY <1>5, <1>6, SaysThen, Zenon
<1> QED BY <1>1, <1>7

\* The amounts of a header with a place for all of them, when the request brings none.
HeaderAmounts(totals) ==
  [MontoGravadoTotal |-> totals.g18 + totals.g16 + totals.g0, MontoExento |-> totals.exempt,
   TotalITBIS |-> totals.i18 + totals.i16, MontoImpuestoAdicional |-> totals.adicional,
   MontoNoFacturable |-> totals.noFacturable, MontoTotal |-> totals.total]

\* Each of them is there when it is positive, and the total always.
LEMMA HeaderSays ==
  ASSUME NEW t \in FullHeader, NEW taxed, NEW g, NEW raw, raw = {},
         NEW totals,
         /\ totals.g18 \in Int /\ totals.g16 \in Int /\ totals.g0 \in Int /\ totals.exempt \in Int
         /\ totals.i18 \in Int /\ totals.i16 \in Int /\ totals.adicional \in Int
         /\ totals.noFacturable \in Int /\ totals.total \in Int,
         NEW e \in Summed
  PROVE  Amounts(Totales(t, totals, taxed, g, raw), e) =
           IF e = "MontoTotal" \/ HeaderAmounts(totals)[e] > 0 THEN {HeaderAmounts(totals)[e]} ELSE {}
<1> DEFINE gravado == totals.g18 + totals.g16 + totals.g0
           itbis == totals.i18 + totals.i16
           byRate == t \notin {43, 44, 46, 47}
           adds == t \notin {41, 43, 46, 47}
           Copied(d) == If(d \in raw, <<<<d, 0>>>>)
           Total(d, has, amount) ==
             IF d \in raw THEN Copied(d) ELSE If(has /\ amount > 0, <<<<d, amount>>>>)
           u1 == Total("MontoGravadoTotal", t \notin {43, 44, 47}, gravado)
           u2 == Total("MontoGravadoI1", byRate, totals.g18)
           u3 == Total("MontoGravadoI2", byRate, totals.g16)
           u4 == Total("MontoGravadoI3", byRate, totals.g0)
           u5 == Total("MontoExento", t # 46, totals.exempt)
           u6 == Total("ITBIS1", byRate, totals.i18)
           u7 == Total("ITBIS2", byRate, totals.i16)
           u8 == Copied("ITBIS3")
           u9 == Total("TotalITBIS", t \notin {43, 44, 47}, itbis)
           u10 == Total("TotalITBIS1", byRate, totals.i18)
           u11 == Total("TotalITBIS2", byRate, totals.i16)
           u12 == Copied("TotalITBIS3")
           u13 == Total("MontoImpuestoAdicional", adds, totals.adicional)
           u14 == If(adds /\ taxed, <<<<"ImpuestosAdicionales", 0>>>>)
           u15 == IF "MontoTotal" \in raw THEN Copied("MontoTotal") ELSE <<<<"MontoTotal", totals.total>>>>
           u16 == Total("MontoNoFacturable", t \notin {41, 43, 47}, totals.noFacturable)
           u17 == PayableAndRetained(t, g, raw)
<1>1. Totales(t, totals, taxed, g, raw) =
        u1 \o u2 \o u3 \o u4 \o u5 \o u6 \o u7 \o u8
        \o u9 \o u10 \o u11 \o u12 \o u13 \o u14 \o u15 \o u16 \o u17
  BY DEF Totales
<1>2. /\ OneOf(u1, "MontoGravadoTotal", gravado)
      /\ OneOf(u2, "MontoGravadoI1", totals.g18)
      /\ OneOf(u3, "MontoGravadoI2", totals.g16)
      /\ OneOf(u4, "MontoGravadoI3", totals.g0)
      /\ OneOf(u5, "MontoExento", totals.exempt)
      /\ OneOf(u6, "ITBIS1", totals.i18)
      /\ OneOf(u7, "ITBIS2", totals.i16)
      /\ OneOf(u8, "ITBIS3", 0)
      /\ OneOf(u9, "TotalITBIS", itbis)
      /\ OneOf(u10, "TotalITBIS1", totals.i18)
      /\ OneOf(u11, "TotalITBIS2", totals.i16)
      /\ OneOf(u12, "TotalITBIS3", 0)
      /\ OneOf(u13, "MontoImpuestoAdicional", totals.adicional)
      /\ OneOf(u14, "ImpuestosAdicionales", 0)
      /\ OneOf(u15, "MontoTotal", totals.total)
      /\ OneOf(u16, "MontoNoFacturable", totals.noFacturable)
  <2>0. gravado \in Int /\ itbis \in Int
    OBVIOUS
  <2> HIDE DEF gravado, itbis
  <2>1. OneOf(u1, "MontoGravadoTotal", gravado)
    BY <2>0 DEF If, OneOf, Element
  <2>2. OneOf(u2, "MontoGravadoI1", totals.g18)
    BY <2>0 DEF If, OneOf, Element
  <2>3. OneOf(u3, "MontoGravadoI2", totals.g16)
    BY <2>0 DEF If, OneOf, Element
  <2>4. OneOf(u4, "MontoGravadoI3", totals.g0)
    BY <2>0 DEF If, OneOf, Element
  <2>5. OneOf(u5, "MontoExento", totals.exempt)
    BY <2>0 DEF If, OneOf, Element
  <2>6. OneOf(u6, "ITBIS1", totals.i18)
    BY <2>0 DEF If, OneOf, Element
  <2>7. OneOf(u7, "ITBIS2", totals.i16)
    BY <2>0 DEF If, OneOf, Element
  <2>8. OneOf(u8, "ITBIS3", 0)
    BY <2>0 DEF If, OneOf, Element
  <2>9. OneOf(u9, "TotalITBIS", itbis)
    BY <2>0 DEF If, OneOf, Element
  <2>10. OneOf(u10, "TotalITBIS1", totals.i18)
    BY <2>0 DEF If, OneOf, Element
  <2>11. OneOf(u11, "TotalITBIS2", totals.i16)
    BY <2>0 DEF If, OneOf, Element
  <2>12. OneOf(u12, "TotalITBIS3", 0)
    BY <2>0 DEF If, OneOf, Element
  <2>13. OneOf(u13, "MontoImpuestoAdicional", totals.adicional)
    BY <2>0 DEF If, OneOf, Element
  <2>14. OneOf(u14, "ImpuestosAdicionales", 0)
    BY <2>0 DEF If, OneOf, Element
  <2>15. OneOf(u15, "MontoTotal", totals.total)
    BY <2>0 DEF If, OneOf, Element
  <2>16. OneOf(u16, "MontoNoFacturable", totals.noFacturable)
    BY <2>0 DEF If, OneOf, Element
  <2> QED BY <2>1, <2>2, <2>3, <2>4, <2>5, <2>6, <2>7, <2>8, <2>9, <2>10, <2>11, <2>12, <2>13, <2>14, <2>15, <2>16
<1>3. t \notin {41, 43, 44, 46, 47}
  BY DEF FullHeader
<1>4. /\ u1 # << >> <=> gravado > 0
      /\ u5 # << >> <=> totals.exempt > 0
      /\ u9 # << >> <=> itbis > 0
      /\ u13 # << >> <=> totals.adicional > 0
      /\ u15 # << >>
      /\ u16 # << >> <=> totals.noFacturable > 0
  BY <1>3 DEF If
<1> HIDE DEF u1, u2, u3, u4, u5, u6, u7, u8, u9, u10, u11, u12, u13, u14, u15, u16, u17
<1> DEFINE B1 == Told(u1, "MontoGravadoTotal", gravado, e)
           B2 == Told(u2, "MontoGravadoI1", totals.g18, e)
           B3 == Told(u3, "MontoGravadoI2", totals.g16, e)
           B4 == Told(u4, "MontoGravadoI3", totals.g0, e)
           B5 == Told(u5, "MontoExento", totals.exempt, e)
           B6 == Told(u6, "ITBIS1", totals.i18, e)
           B7 == Told(u7, "ITBIS2", totals.i16, e)
           B8 == Told(u8, "ITBIS3", 0, e)
           B9 == Told(u9, "TotalITBIS", itbis, e)
           B10 == Told(u10, "TotalITBIS1", totals.i18, e)
           B11 == Told(u11, "TotalITBIS2", totals.i16, e)
           B12 == Told(u12, "TotalITBIS3", 0, e)
           B13 == Told(u13, "MontoImpuestoAdicional", totals.adicional, e)
           B14 == Told(u14, "ImpuestosAdicionales", 0, e)
           B15 == Told(u15, "MontoTotal", totals.total, e)
           B16 == Told(u16, "MontoNoFacturable", totals.noFacturable, e)
<1> HIDE DEF gravado, itbis
<1>5. /\ Tells(u1, e, B1)
      /\ Tells(u2, e, B2)
      /\ Tells(u3, e, B3)
      /\ Tells(u4, e, B4)
      /\ Tells(u5, e, B5)
      /\ Tells(u6, e, B6)
      /\ Tells(u7, e, B7)
      /\ Tells(u8, e, B8)
      /\ Tells(u9, e, B9)
      /\ Tells(u10, e, B10)
      /\ Tells(u11, e, B11)
      /\ Tells(u12, e, B12)
      /\ Tells(u13, e, B13)
      /\ Tells(u14, e, B14)
      /\ Tells(u15, e, B15)
      /\ Tells(u16, e, B16)
  BY <1>2, SaysOne, Zenon
<1>6. Tells(u17, e, {})
  BY PayableElements DEF u17
<1> HIDE DEF B1, B2, B3, B4, B5, B6, B7, B8, B9, B10, B11, B12, B13, B14, B15, B16
<1> DEFINE p5 == u1 \o u2 \o u3 \o u4 \o u5
           A5 == B1 \cup B2 \cup B3 \cup B4 \cup B5
           p9 == p5 \o u6 \o u7 \o u8 \o u9
           A9 == A5 \cup B6 \cup B7 \cup B8 \cup B9
           p13 == p9 \o u10 \o u11 \o u12 \o u13
           A13 == A9 \cup B10 \cup B11 \cup B12 \cup B13
           p17 == p13 \o u14 \o u15 \o u16 \o u17
           A17 == A13 \cup B14 \cup B15 \cup B16 \cup {}
<1>7. Tells(p5, e, A5)
  BY <1>5, SaysFour, Zenon
<1>8. Tells(p9, e, A9)
  <2> HIDE DEF p5, A5
  <2> QED BY <1>5, <1>7, SaysFour, Zenon
<1>9. Tells(p13, e, A13)
  <2> HIDE DEF p9, A9
  <2> QED BY <1>5, <1>8, SaysFour, Zenon
<1>10. Tells(p17, e, A17)
  <2> HIDE DEF p13, A13
  <2> QED BY <1>5, <1>6, <1>9, SaysFour, Zenon
<1>11. Amounts(Totales(t, totals, taxed, g, raw), e) =
         B1 \cup B2 \cup B3 \cup B4 \cup B5 \cup B6 \cup B7 \cup B8 \cup B9
         \cup B10 \cup B11 \cup B12 \cup B13 \cup B14 \cup B15 \cup B16
  BY <1>1, <1>10 DEF Tells
<1>12. /\ B1 = IF e = "MontoGravadoTotal" /\ gravado > 0 THEN {gravado} ELSE {}
       /\ B5 = IF e = "MontoExento" /\ totals.exempt > 0 THEN {totals.exempt} ELSE {}
       /\ B9 = IF e = "TotalITBIS" /\ itbis > 0 THEN {itbis} ELSE {}
       /\ B13 = IF e = "MontoImpuestoAdicional" /\ totals.adicional > 0 THEN {totals.adicional} ELSE {}
       /\ B15 = IF e = "MontoTotal" THEN {totals.total} ELSE {}
       /\ B16 = IF e = "MontoNoFacturable" /\ totals.noFacturable > 0 THEN {totals.noFacturable} ELSE {}
  BY <1>4, Zenon DEF B1, B5, B9, B13, B15, B16, Told
<1>13. /\ B2 = {}
       /\ B3 = {}
       /\ B4 = {}
       /\ B6 = {}
       /\ B7 = {}
       /\ B8 = {}
       /\ B10 = {}
       /\ B11 = {}
       /\ B12 = {}
       /\ B14 = {}
  BY DEF B2, B3, B4, B6, B7, B8, B10, B11, B12, B14, Told, Summed
<1>14. /\ e = "MontoGravadoTotal" => HeaderAmounts(totals)[e] = gravado
       /\ e = "MontoExento" => HeaderAmounts(totals)[e] = totals.exempt
       /\ e = "TotalITBIS" => HeaderAmounts(totals)[e] = itbis
       /\ e = "MontoImpuestoAdicional" => HeaderAmounts(totals)[e] = totals.adicional
       /\ e = "MontoTotal" => HeaderAmounts(totals)[e] = totals.total
       /\ e = "MontoNoFacturable" => HeaderAmounts(totals)[e] = totals.noFacturable
  BY DEF HeaderAmounts, gravado, itbis
<1> QED BY <1>11, <1>12, <1>13, <1>14 DEF Summed

-----------------------------------------------------------------------------
(* The amounts of a line *)

LEMMA Products ==
  /\ \A a, b \in Int : a * b \in Int
  /\ \A a, b \in Nat : a * b \in Nat
OBVIOUS

\* Rounding to cents gives cents, and never less than nothing of something.
LEMMA RoundedType ==
  ASSUME NEW n \in Int, NEW d \in Nat, d > 0
  PROVE  Rounded(n, d) \in Int
BY DEF Rounded

LEMMA RoundedPercent ==
  ASSUME NEW n \in Nat
  PROVE  Rounded(n, 100) \in Nat
BY DEF Rounded

LEMMA RoundedZero == Rounded(0, 100) = 0
BY DEF Rounded

\* A line has a class of ITBIS, and an amount that is not negative unless its discount
\* exceeds its price.
LEMMA LineTypes ==
  ASSUME NEW l \in Line
  PROVE  /\ Indicador(l) \in 0 .. 4
         /\ EffectiveRate(l) \in {0, 16, 18}
         /\ Subtotal(l) \in Int
         /\ l.discount <= l.qty * l.price => Subtotal(l) \in Nat
<1>1. /\ l.qty \in Nat /\ l.price \in Nat /\ l.discount \in Nat /\ l.surcharge \in Nat
      /\ l.fact \in 0 .. 5 /\ l.rate \in {18, 16, 0}
  BY DEF Line, NotGiven
<1>2. Indicador(l) \in 0 .. 4
  BY <1>1 DEF Indicador, NotGiven
<1>3. l.qty * l.price \in Nat
  BY <1>1, Products
<1>4. /\ Subtotal(l) \in Int
      /\ l.discount <= l.qty * l.price => Subtotal(l) \in Nat
  <2> DEFINE p == l.qty * l.price
  <2>1. Subtotal(l) = p - l.discount + l.surcharge
    BY DEF Subtotal
  <2> HIDE DEF p
  <2> QED BY <1>1, <1>3, <2>1 DEF p
<1> QED BY <1>2, <1>4 DEF EffectiveRate

\* The ITBIS of a line is an amount, none of a line that is not taxed.
LEMMA LineItbisTypes ==
  ASSUME NEW l \in Line
  PROVE  /\ LineItbis(l) \in Int
         /\ Subtotal(l) \in Nat => LineItbis(l) \in Nat
         /\ Indicador(l) \notin {1, 2} => LineItbis(l) = 0
<1> DEFINE n == Subtotal(l) * EffectiveRate(l)
<1>1. LineItbis(l) = Rounded(n, 100)
  BY DEF LineItbis
<1>2. Subtotal(l) \in Int /\ EffectiveRate(l) \in {0, 16, 18}
  BY LineTypes
<1>3. n \in Int /\ (Subtotal(l) \in Nat => n \in Nat) /\ (EffectiveRate(l) = 0 => n = 0)
  BY <1>2
<1>4. Indicador(l) \notin {1, 2} => EffectiveRate(l) = 0
  BY DEF EffectiveRate
<1> HIDE DEF n
<1>5. Rounded(n, 100) \in Int
  BY <1>3, RoundedType
<1>6. n \in Nat => Rounded(n, 100) \in Nat
  BY RoundedPercent
<1>7. n = 0 => Rounded(n, 100) = 0
  BY RoundedZero
<1> QED BY <1>1, <1>3, <1>4, <1>5, <1>6, <1>7

\* The other taxes of a line are amounts, which may be negative.
LEMMA TaxTypes ==
  ASSUME NEW l \in Line, NEW incluido
  PROVE  /\ Especifico(l) \in Int
         /\ AdvaloremTax(l) \in Int
         /\ OtrosImpuestos(l, incluido) \in Int
<1>1. /\ l.qty \in Nat /\ l.qty > 0 /\ l.price \in Nat /\ l.tasa \in Nat /\ l.ref \in Nat /\ l.sub \in Nat
      /\ l.grados \in Nat /\ l.pvp \in Nat /\ l.rate \in {18, 16, 0}
  BY DEF Line
<1>2. OrOne(l.ref) \in Nat /\ OrOne(l.ref) > 0 /\ OrOne(l.sub) \in Nat
  BY <1>1 DEF OrOne
<1>3. IscEspecificoAlcohol(l) \in Int
  <2> DEFINE a == l.tasa * l.grados
             b == a * OrOne(l.ref)
             c == b * OrOne(l.sub)
             d == c * l.qty
  <2>1. a \in Int
    BY <1>1, Products
  <2>2. b \in Int
    <3> HIDE DEF a
    <3> QED BY <1>2, <2>1, Products
  <2>3. c \in Int
    <3> HIDE DEF b
    <3> QED BY <1>2, <2>2, Products
  <2>4. d \in Int
    <3> HIDE DEF c
    <3> QED BY <1>1, <2>3, Products
  <2>5. IscEspecificoAlcohol(l) = Rounded(d, 100)
    BY DEF IscEspecificoAlcohol
  <2> HIDE DEF d
  <2> QED BY <2>4, <2>5, RoundedType
<1>4. Especifico(l) \in Int
  <2> DEFINE a == l.qty * OrOne(l.ref)
             b == a * l.tasa
  <2>1. a \in Int
    BY <1>1, <1>2, Products
  <2>2. b \in Int
    <3> HIDE DEF a
    <3> QED BY <1>1, <2>1, Products
  <2> QED BY <1>3, <2>2 DEF Especifico
<1>5. PrecioSinItbis(l) \in Int
  <2>1. l.pvp * 100 \in Int /\ 100 + l.rate \in Nat /\ 100 + l.rate > 0
    BY <1>1
  <2> QED BY <2>1, RoundedType DEF PrecioSinItbis
<1>6. ASSUME NEW base \in Int PROVE Advalorem(l, base) \in Int
  <2> DEFINE a == Rounded(base * 100, 100 + l.tasa)
             b == a * l.tasa
             c == Rounded(b, 100)
             d == c * OrOne(l.ref)
             e == d * l.qty
  <2>1. a \in Int
    <3>1. base * 100 \in Int /\ 100 + l.tasa \in Nat /\ 100 + l.tasa > 0
      BY <1>1
    <3> QED BY <3>1, RoundedType
  <2>2. b \in Int
    <3> HIDE DEF a
    <3> QED BY <1>1, <2>1, Products
  <2>3. c \in Int
    <3> HIDE DEF b
    <3> QED BY <2>2, RoundedType
  <2>4. d \in Int
    <3> HIDE DEF c
    <3> QED BY <1>2, <2>3, Products
  <2>5. e \in Int
    <3> HIDE DEF d
    <3> QED BY <1>1, <2>4, Products
  <2>6. Advalorem(l, base) = e
    BY DEF Advalorem
  <2> QED BY <2>5, <2>6
<1>7. IscAdvalorem(l) \in Int
  <2> DEFINE bulk == l.price * 130 * l.tasa * l.qty
             units == OrOne(l.ref) * l.qty
  <2>1. bulk \in Int
    <3> DEFINE a == l.price * 130
               b == a * l.tasa
    <3>1. a \in Int
      BY <1>1
    <3>2. b \in Int
      <4> HIDE DEF a
      <4> QED BY <1>1, <3>1, Products
    <3> HIDE DEF b
    <3> QED BY <1>1, <3>2, Products DEF b
  <2>2. Rounded(bulk, 10000) \in Int
    <3> HIDE DEF bulk
    <3> QED BY <2>1, RoundedType
  <2>3. units \in Nat /\ units > 0
    BY <1>1, <1>2, Products
  <2>4. Rounded(IscEspecificoAlcohol(l), units) \in Int
    <3> HIDE DEF units
    <3> QED BY <1>3, <2>3, RoundedType
  <2>5. Advalorem(l, PrecioSinItbis(l) - l.tasa) \in Int
    BY <1>1, <1>5, <1>6
  <2>6. Advalorem(l, PrecioSinItbis(l) - Rounded(IscEspecificoAlcohol(l), units)) \in Int
    BY <1>5, <1>6, <2>4
  <2> QED BY <2>2, <2>5, <2>6 DEF IscAdvalorem
<1>8. AdvaloremTax(l) \in Int
  BY <1>7 DEF AdvaloremTax
<1>9. OtrosImpuestos(l, incluido) \in Int
  <2> DEFINE a == Subtotal(l) * l.tasa
  <2>1. a \in Int
    BY <1>1, LineTypes, Products
  <2> HIDE DEF a
  <2>2. Rounded(a, 100 + l.rate) \in Int /\ Rounded(a, 100) \in Int
    <3>1. 100 + l.rate \in Nat /\ 100 + l.rate > 0
      BY <1>1
    <3> QED BY <2>1, <3>1, RoundedType
  <2> QED BY <2>2 DEF OtrosImpuestos, a
<1> QED BY <1>4, <1>8, <1>9

-----------------------------------------------------------------------------
(* The sums over the lines of a request *)

\* What each line adds to the sum of its class, of its ITBIS, and of the other taxes.
OfClass(lines, c) == [i \in DOMAIN lines |-> IF Indicador(lines[i]) = c THEN Subtotal(lines[i]) ELSE 0]
OfItbis(lines, c) == [i \in DOMAIN lines |-> IF Indicador(lines[i]) = c THEN LineItbis(lines[i]) ELSE 0]
OfTaxes(lines, incluido) ==
  [i \in DOMAIN lines |-> Especifico(lines[i]) + AdvaloremTax(lines[i]) + OtrosImpuestos(lines[i], incluido)]

\* What each line adds to the sum of the classes up to c, and to that of the stored ITBIS.
UpToClass(lines, c) ==
  [i \in DOMAIN lines |-> IF Indicador(lines[i]) \in 0 .. c THEN Subtotal(lines[i]) ELSE 0]
OfStored(lines) == [i \in DOMAIN lines |-> StoredItbis(lines[i])]

LEMMA TotalsAre ==
  ASSUME NEW lines, NEW incluido
  PROVE  LET totals == Totals(lines, incluido)
         IN /\ totals.g18 = SumFunction(OfClass(lines, 1)) /\ totals.g16 = SumFunction(OfClass(lines, 2))
            /\ totals.g0 = SumFunction(OfClass(lines, 3)) /\ totals.exempt = SumFunction(OfClass(lines, 4))
            /\ totals.noFacturable = SumFunction(OfClass(lines, 0))
            /\ totals.i18 = SumFunction(OfItbis(lines, 1)) /\ totals.i16 = SumFunction(OfItbis(lines, 2))
            /\ totals.adicional = SumFunction(OfTaxes(lines, incluido))
            /\ totals.total = SumFunction(UpToClass(lines, 4)) + SumFunction(OfItbis(lines, 1))
                              + SumFunction(OfItbis(lines, 2)) + SumFunction(OfTaxes(lines, incluido))
BY DEF Totals, Sum, OfClass, OfItbis, OfTaxes, UpToClass, InTotal

\* The amounts that are added are amounts, not negative if no discount exceeds its price.
LEMMA AddendTypes ==
  ASSUME NEW lines \in Seq(Line), NEW c \in Int, NEW incluido
  PROVE  /\ IsFiniteSet(DOMAIN lines)
         /\ OfClass(lines, c) \in [DOMAIN lines -> Int]
         /\ OfItbis(lines, c) \in [DOMAIN lines -> Int]
         /\ UpToClass(lines, c) \in [DOMAIN lines -> Int]
         /\ OfTaxes(lines, incluido) \in [DOMAIN lines -> Int]
         /\ OfStored(lines) \in [DOMAIN lines -> Int]
         /\ (\A i \in DOMAIN lines : lines[i].discount <= lines[i].qty * lines[i].price) =>
              /\ OfClass(lines, c) \in [DOMAIN lines -> Nat]
              /\ OfItbis(lines, c) \in [DOMAIN lines -> Nat]
<1>1. IsFiniteSet(DOMAIN lines)
  <2>1. DOMAIN lines = 1 .. Len(lines) /\ Len(lines) \in Nat
    OBVIOUS
  <2> QED BY <2>1, FS_Interval
<1>2. \A i \in DOMAIN lines : lines[i] \in Line
  OBVIOUS
<1>3. \A i \in DOMAIN lines : Subtotal(lines[i]) \in Int /\ LineItbis(lines[i]) \in Int
  BY <1>2, LineTypes, LineItbisTypes
<1>4. \A i \in DOMAIN lines :
        /\ Especifico(lines[i]) \in Int /\ AdvaloremTax(lines[i]) \in Int
        /\ OtrosImpuestos(lines[i], incluido) \in Int
  BY <1>2, TaxTypes
<1>5. ASSUME \A i \in DOMAIN lines : lines[i].discount <= lines[i].qty * lines[i].price
      PROVE  \A i \in DOMAIN lines : Subtotal(lines[i]) \in Nat /\ LineItbis(lines[i]) \in Nat
  BY <1>2, <1>5, LineTypes, LineItbisTypes
<1>6. OfTaxes(lines, incluido) \in [DOMAIN lines -> Int]
  BY <1>4 DEF OfTaxes
<1>7. /\ OfClass(lines, c) \in [DOMAIN lines -> Int] /\ OfItbis(lines, c) \in [DOMAIN lines -> Int]
      /\ UpToClass(lines, c) \in [DOMAIN lines -> Int] /\ OfStored(lines) \in [DOMAIN lines -> Int]
  BY <1>3 DEF OfClass, OfItbis, UpToClass, OfStored, StoredItbis
<1>8. ASSUME \A i \in DOMAIN lines : lines[i].discount <= lines[i].qty * lines[i].price
      PROVE  OfClass(lines, c) \in [DOMAIN lines -> Nat] /\ OfItbis(lines, c) \in [DOMAIN lines -> Nat]
  <2>1. \A i \in DOMAIN lines : Subtotal(lines[i]) \in Nat /\ LineItbis(lines[i]) \in Nat
    BY <1>5, <1>8
  <2> QED BY <2>1 DEF OfClass, OfItbis
<1> QED BY <1>1, <1>6, <1>7, <1>8

\* The amounts up to a class are those up to the one before and its own.
LEMMA ClassAdds ==
  ASSUME NEW lines \in Seq(Line), NEW c \in 0 .. 3
  PROVE  SumFunction(UpToClass(lines, c + 1)) =
           SumFunction(UpToClass(lines, c)) + SumFunction(OfClass(lines, c + 1))
<1>1. c \in Int /\ c + 1 \in Int
  OBVIOUS
<1>2. /\ IsFiniteSet(DOMAIN lines) /\ UpToClass(lines, c) \in [DOMAIN lines -> Int]
      /\ OfClass(lines, c + 1) \in [DOMAIN lines -> Int] /\ UpToClass(lines, c + 1) \in [DOMAIN lines -> Int]
  BY <1>1, AddendTypes
<1>3. ASSUME NEW i \in DOMAIN lines
      PROVE  UpToClass(lines, c + 1)[i] = UpToClass(lines, c)[i] + OfClass(lines, c + 1)[i]
  <2>1. Indicador(lines[i]) \in 0 .. 4 /\ Subtotal(lines[i]) \in Int
    BY LineTypes
  <2> QED BY <2>1 DEF UpToClass, OfClass
<1> QED BY <1>2, <1>3, SumFunctionAdds

\* The amounts of the five classes are those of all lines.
LEMMA ClassesAddUp ==
  ASSUME NEW lines \in Seq(Line)
  PROVE  SumFunction(UpToClass(lines, 4)) =
           SumFunction(OfClass(lines, 0)) + SumFunction(OfClass(lines, 1)) + SumFunction(OfClass(lines, 2))
           + SumFunction(OfClass(lines, 3)) + SumFunction(OfClass(lines, 4))
<1> DEFINE places == DOMAIN lines
           To(c) == UpToClass(lines, c)
           At(c) == OfClass(lines, c)
<1>1. IsFiniteSet(places) /\ \A c \in Int : To(c) \in [places -> Int] /\ At(c) \in [places -> Int]
  BY AddendTypes
<1>2. \A c \in Int : SumFunction(To(c)) \in Int /\ SumFunction(At(c)) \in Int
  <2> HIDE DEF To, At, places
  <2> SUFFICES ASSUME NEW c \in Int PROVE SumFunction(To(c)) \in Int /\ SumFunction(At(c)) \in Int
    OBVIOUS
  <2>1. PICK u, v : u = To(c) /\ v = At(c)
    OBVIOUS
  <2>2. u \in [places -> Int] /\ v \in [places -> Int] /\ DOMAIN u = places /\ DOMAIN v = places
    BY <1>1, <2>1
  <2> QED BY <1>1, <2>1, <2>2, SumFunctionType
<1>3. \A i \in places : Indicador(lines[i]) \in 0 .. 4 /\ Subtotal(lines[i]) \in Int
  BY LineTypes
<1>4. ASSUME NEW c \in 0 .. 3
      PROVE  SumFunction(To(c + 1)) = SumFunction(To(c)) + SumFunction(At(c + 1))
  BY ClassAdds
<1>5. To(0) = At(0)
  BY <1>3 DEF UpToClass, OfClass
<1> HIDE DEF To, At
<1>6. /\ SumFunction(To(1)) = SumFunction(To(0)) + SumFunction(At(1))
      /\ SumFunction(To(2)) = SumFunction(To(1)) + SumFunction(At(2))
      /\ SumFunction(To(3)) = SumFunction(To(2)) + SumFunction(At(3))
      /\ SumFunction(To(4)) = SumFunction(To(3)) + SumFunction(At(4))
  <2>1. SumFunction(To(0 + 1)) = SumFunction(To(0)) + SumFunction(At(0 + 1))
    BY <1>4
  <2>2. SumFunction(To(1 + 1)) = SumFunction(To(1)) + SumFunction(At(1 + 1))
    BY <1>4
  <2>3. SumFunction(To(2 + 1)) = SumFunction(To(2)) + SumFunction(At(2 + 1))
    BY <1>4
  <2>4. SumFunction(To(3 + 1)) = SumFunction(To(3)) + SumFunction(At(3 + 1))
    BY <1>4
  <2>5. 0 + 1 = 1 /\ 1 + 1 = 2 /\ 2 + 1 = 3 /\ 3 + 1 = 4
    OBVIOUS
  <2> QED BY <2>1, <2>2, <2>3, <2>4, <2>5
<1>7. SumFunction(To(4)) =
        SumFunction(At(0)) + SumFunction(At(1)) + SumFunction(At(2)) + SumFunction(At(3)) + SumFunction(At(4))
  BY <1>2, <1>5, <1>6
<1> QED BY <1>7 DEF To, At

\* The ITBIS of the two rates is that of all lines.
LEMMA ItbisAddsUp ==
  ASSUME NEW lines \in Seq(Line)
  PROVE  SumFunction(OfStored(lines)) = SumFunction(OfItbis(lines, 1)) + SumFunction(OfItbis(lines, 2))
<1>1. /\ IsFiniteSet(DOMAIN lines) /\ OfStored(lines) \in [DOMAIN lines -> Int]
      /\ OfItbis(lines, 1) \in [DOMAIN lines -> Int] /\ OfItbis(lines, 2) \in [DOMAIN lines -> Int]
  BY AddendTypes
<1>2. ASSUME NEW i \in DOMAIN lines
      PROVE  OfStored(lines)[i] = OfItbis(lines, 1)[i] + OfItbis(lines, 2)[i]
  <2>1. LineItbis(lines[i]) \in Int /\ (Indicador(lines[i]) \notin {1, 2} => LineItbis(lines[i]) = 0)
    BY LineItbisTypes
  <2> QED BY <2>1 DEF OfStored, StoredItbis, OfItbis
<1> QED BY <1>1, <1>2, SumFunctionAdds

-----------------------------------------------------------------------------
(* The header of a request that is accepted *)

\* What the pairs of a header declare of an element: Declared, of any header.
DeclaredIn(pairs, e) == IF Amounts(pairs, e) = {} THEN 0 ELSE CHOOSE a \in Amounts(pairs, e) : TRUE

\* A header declares the totals, which add up, and whose ITBIS is that of the lines.
DeclaresTotals(pairs, totals, stored) ==
  /\ DeclaredIn(pairs, "MontoTotal") = totals.total
  /\ DeclaredIn(pairs, "MontoGravadoTotal") = totals.g18 + totals.g16 + totals.g0
  /\ DeclaredIn(pairs, "MontoExento") = totals.exempt
  /\ DeclaredIn(pairs, "TotalITBIS") = totals.i18 + totals.i16
  /\ totals.adicional >= 0 => DeclaredIn(pairs, "MontoImpuestoAdicional") = totals.adicional
  /\ DeclaredIn(pairs, "MontoNoFacturable") = totals.noFacturable
  /\ totals.total = totals.g18 + totals.g16 + totals.g0 + totals.exempt + totals.noFacturable
                     + totals.i18 + totals.i16 + totals.adicional
  /\ stored = totals.i18 + totals.i16
  /\ {totals.g18, totals.g16, totals.g0, totals.exempt, totals.i18, totals.i16,
      totals.noFacturable, totals.adicional} \subseteq Int

\* The header declares the sums over the lines.
LEMMA HeaderDeclares ==
  ASSUME NEW t \in FullHeader, NEW taxed, NEW g, NEW raw, raw = {}, NEW lines \in Seq(Line),
         \A i \in DOMAIN lines : lines[i].discount <= lines[i].qty * lines[i].price,
         NEW incluido, NEW totals, totals = Totals(lines, incluido), NEW header,
         header = Totales(t, totals, taxed, g, raw)
  PROVE  DeclaresTotals(header, totals, SumFunction(OfStored(lines)))
<1>1. IsFiniteSet(DOMAIN lines)
  BY AddendTypes
<1>2. ASSUME NEW c \in Int
      PROVE  SumFunction(OfClass(lines, c)) \in Nat /\ SumFunction(OfItbis(lines, c)) \in Nat
  <2>1. OfClass(lines, c) \in [DOMAIN lines -> Nat] /\ OfItbis(lines, c) \in [DOMAIN lines -> Nat]
    BY AddendTypes
  <2> QED BY <1>1, <2>1, SumFunctionNat
<1>3. SumFunction(OfTaxes(lines, incluido)) \in Int /\ SumFunction(UpToClass(lines, 4)) \in Int
  <2>1. PICK u, v : u = OfTaxes(lines, incluido) /\ v = UpToClass(lines, 4)
    OBVIOUS
  <2>2. u \in [DOMAIN lines -> Int] /\ v \in [DOMAIN lines -> Int]
    BY <2>1, AddendTypes
  <2>3. SumFunction(u) \in Int /\ SumFunction(v) \in Int
    BY <1>1, <2>2, SumFunctionType
  <2> QED BY <2>1, <2>3
<1>4. /\ totals.g18 = SumFunction(OfClass(lines, 1)) /\ totals.g16 = SumFunction(OfClass(lines, 2))
      /\ totals.g0 = SumFunction(OfClass(lines, 3)) /\ totals.exempt = SumFunction(OfClass(lines, 4))
      /\ totals.noFacturable = SumFunction(OfClass(lines, 0))
      /\ totals.i18 = SumFunction(OfItbis(lines, 1)) /\ totals.i16 = SumFunction(OfItbis(lines, 2))
      /\ totals.adicional = SumFunction(OfTaxes(lines, incluido))
      /\ totals.total = SumFunction(UpToClass(lines, 4)) + SumFunction(OfItbis(lines, 1))
                        + SumFunction(OfItbis(lines, 2)) + SumFunction(OfTaxes(lines, incluido))
  BY TotalsAre
<1>5. /\ totals.g18 \in Nat /\ totals.g16 \in Nat /\ totals.g0 \in Nat /\ totals.exempt \in Nat
      /\ totals.noFacturable \in Nat /\ totals.i18 \in Nat /\ totals.i16 \in Nat
      /\ totals.adicional \in Int
  <2>1. /\ SumFunction(OfClass(lines, 0)) \in Nat /\ SumFunction(OfClass(lines, 1)) \in Nat
        /\ SumFunction(OfClass(lines, 2)) \in Nat /\ SumFunction(OfClass(lines, 3)) \in Nat
        /\ SumFunction(OfClass(lines, 4)) \in Nat
        /\ SumFunction(OfItbis(lines, 1)) \in Nat /\ SumFunction(OfItbis(lines, 2)) \in Nat
    <3>1. \A c \in Int : SumFunction(OfClass(lines, c)) \in Nat /\ SumFunction(OfItbis(lines, c)) \in Nat
      BY <1>2
    <3>2. 0 \in Int /\ 1 \in Int /\ 2 \in Int /\ 3 \in Int /\ 4 \in Int
      OBVIOUS
    <3> QED BY <3>1, <3>2, Zenon
  <2> QED BY <1>3, <1>4, <2>1
<1>6. totals.total = totals.g18 + totals.g16 + totals.g0 + totals.exempt + totals.noFacturable
                     + totals.i18 + totals.i16 + totals.adicional
  BY <1>4, <1>5, ClassesAddUp
<1>7. SumFunction(OfStored(lines)) = totals.i18 + totals.i16
  BY <1>4, ItbisAddsUp
<1>8. totals.total \in Int
  <2>1. SumFunction(OfItbis(lines, 1)) \in Int /\ SumFunction(OfItbis(lines, 2)) \in Int
    BY <1>2
  <2> QED BY <1>3, <1>4, <2>1
<1>9. ASSUME NEW e \in Summed
      PROVE  Amounts(header, e) =
               IF e = "MontoTotal" \/ HeaderAmounts(totals)[e] > 0 THEN {HeaderAmounts(totals)[e]} ELSE {}
  BY <1>5, <1>8, HeaderSays
<1>10. ASSUME NEW e \in Summed, e = "MontoTotal" \/ HeaderAmounts(totals)[e] \in Nat
       PROVE  DeclaredIn(header, e) = HeaderAmounts(totals)[e]
  BY <1>9, <1>10 DEF DeclaredIn
<1>11. DeclaredIn(header, "MontoTotal") = totals.total
  BY <1>10 DEF Summed, HeaderAmounts
<1>12. DeclaredIn(header, "MontoGravadoTotal") = totals.g18 + totals.g16 + totals.g0
  BY <1>5, <1>10 DEF Summed, HeaderAmounts
<1>13. DeclaredIn(header, "MontoExento") = totals.exempt
  BY <1>5, <1>10 DEF Summed, HeaderAmounts
<1>14. DeclaredIn(header, "TotalITBIS") = totals.i18 + totals.i16
  BY <1>5, <1>10 DEF Summed, HeaderAmounts
<1>15. totals.adicional >= 0 => DeclaredIn(header, "MontoImpuestoAdicional") = totals.adicional
  BY <1>5, <1>10 DEF Summed, HeaderAmounts
<1>16. DeclaredIn(header, "MontoNoFacturable") = totals.noFacturable
  BY <1>5, <1>10 DEF Summed, HeaderAmounts
<1>17. {totals.g18, totals.g16, totals.g0, totals.exempt, totals.i18, totals.i16,
        totals.noFacturable, totals.adicional} \subseteq Int
  BY <1>5
<1> QED
  BY <1>6, <1>7, <1>11, <1>12, <1>13, <1>14, <1>15, <1>16, <1>17 DEF DeclaresTotals

-----------------------------------------------------------------------------
(* The document of the request *)

\* What is queued is the document of a request that was accepted, and the ITBIS of its
\* stored lines.
QueuedIsBuilt ==
  stage = "queued" =>
    /\ request.lines \in Seq(Line) /\ Accepts(request)
    /\ document.totales = Build(request).totales
    /\ lineItbis = Sum(request.lines, StoredItbis)

\* Whatever is asked, the lines that reach the builder are lines.
LEMMA LinesAsked ==
  ASSUME NEW batch \in Asked, NEW a \in batch
  PROVE  /\ a.lines \in Seq(Line)
         /\ ApiInput(a).lines = a.lines
         /\ MapRow(a).lines \in Seq(Line)
         /\ \A given, parts, reference : Input(a, given, {}, parts, a.lines, reference).lines = a.lines
<1>1. a.lines \in Seq(Line)
  BY AskedAssumption
<1>2. \A given, raw, parts, lines, reference : Input(a, given, raw, parts, lines, reference).lines = lines
  BY DEF Input
<1>3. ApiInput(a).lines = a.lines
  BY <1>2 DEF ApiInput
<1> DEFINE kept == [i \in 1 .. Len(a.lines) |-> [a.lines[i] EXCEPT !.code = 0, !.sub = 0, !.granel = FALSE]]
<1>4. kept \in Seq(Line)
  <2>1. Len(a.lines) \in Nat /\ \A i \in 1 .. Len(a.lines) : a.lines[i] \in Line
    BY <1>1
  <2>2. ASSUME NEW l \in Line
        PROVE  [l EXCEPT !.code = 0, !.sub = 0, !.granel = FALSE] \in Line
    <3> DEFINE c == [l EXCEPT !.code = 0]
               s == [c EXCEPT !.sub = 0]
    <3>1. c \in Line
      BY DEF Line
    <3>2. s \in Line
      <4> HIDE DEF c
      <4> QED BY <3>1 DEF Line
    <3>3. [s EXCEPT !.granel = FALSE] \in Line
      <4> HIDE DEF s
      <4> QED BY <3>2 DEF Line
    <3> QED BY <3>3
  <2>3. \A i \in 1 .. Len(a.lines) : kept[i] \in Line
    BY <2>1, <2>2
  <2>4. kept \in [1 .. Len(a.lines) -> Line]
    BY <2>3
  <2> HIDE DEF kept
  <2> QED BY <2>1, <2>4, SeqDef
<1>5. MapRow(a).lines = kept
  <2> HIDE DEF kept
  <2> QED BY DEF MapRow, Input, kept
<1>6. \A given, parts, reference : Input(a, given, {}, parts, a.lines, reference).lines = a.lines
  BY DEF Input
<1> HIDE DEF kept
<1> QED BY <1>1, <1>3, <1>4, <1>5, <1>6

\* The types of a header and its amounts, as Build puts them in the document.
LEMMA BuiltTotales ==
  ASSUME NEW r
  PROVE  Build(r).totales =
           Totales(r.type, Totals(r.lines, Incluido(r)), Codes(r.lines) # {}, Fields(r, "Totales"), r.raw)
BY Zenon DEF Build

\* What is asked is created as it was built, or not at all.
LEMMA CreateBuilds ==
  ASSUME NEW r, r.lines \in Seq(Line), CreateDocument(r) \/ RefuseDocument(r)
  PROVE  QueuedIsBuilt'
<1>1. CASE CreateDocument(r)
  <2>1. request' = r /\ document' = Build(r) /\ lineItbis' = Sum(r.lines, StoredItbis) /\ Accepts(r)
    BY <1>1 DEF CreateDocument
  <2> QED BY <2>1 DEF QueuedIsBuilt
<1>2. CASE RefuseDocument(r)
  BY <1>2 DEF RefuseDocument, QueuedIsBuilt
<1> QED BY <1>1, <1>2

LEMMA QueuedStep == QueuedIsBuilt /\ [RequestsNext]_requestVars => QueuedIsBuilt'
<1> SUFFICES ASSUME QueuedIsBuilt, [RequestsNext]_requestVars PROVE QueuedIsBuilt'
  OBVIOUS
<1>1. CASE PostInvoice
  <2>1. PICK batch \in Asked : \E a \in batch :
          \/ CreateDocument(ApiInput(a)) \/ RefuseDocument(ApiInput(a))
          \/ Refuse
    BY <1>1 DEF PostInvoice
  <2>2. PICK a \in batch : \/ CreateDocument(ApiInput(a)) \/ RefuseDocument(ApiInput(a))
                           \/ Refuse
    BY <2>1
  <2>3. ApiInput(a).lines \in Seq(Line)
    BY LinesAsked
  <2>4. CASE Refuse
    BY <2>4 DEF Refuse, QueuedIsBuilt
  <2> QED BY <2>2, <2>3, <2>4, CreateBuilds
<1>2. CASE ImportRow
  <2>1. PICK batch \in Asked : \E a \in batch : CreateDocument(MapRow(a)) \/ RefuseDocument(MapRow(a))
    BY <1>2 DEF ImportRow
  <2>2. PICK a \in batch : CreateDocument(MapRow(a)) \/ RefuseDocument(MapRow(a))
    BY <2>1
  <2>3. MapRow(a).lines \in Seq(Line)
    BY LinesAsked
  <2> QED BY <2>2, <2>3, CreateBuilds
<1>3. CASE CallBuilder
  <2>1. PICK batch \in Asked : \E a \in batch :
          LET input == Input(a, a.fields, {}, a.parts \cup {"TipoPago"}, a.lines, a.reference)
          IN CreateDocument(input) \/ RefuseDocument(input)
    BY <1>3 DEF CallBuilder
  <2>2. PICK a \in batch :
          LET input == Input(a, a.fields, {}, a.parts \cup {"TipoPago"}, a.lines, a.reference)
          IN CreateDocument(input) \/ RefuseDocument(input)
    BY <2>1
  <2> DEFINE input == Input(a, a.fields, {}, a.parts \cup {"TipoPago"}, a.lines, a.reference)
  <2>3. input.lines \in Seq(Line)
    <3>1. input.lines = a.lines /\ a.lines \in Seq(Line)
      BY LinesAsked
    <3> QED BY <3>1
  <2>4. CreateDocument(input) \/ RefuseDocument(input)
    BY <2>2
  <2> HIDE DEF input
  <2> QED BY <2>3, <2>4, CreateBuilds
<1>4. CASE SignDocument
  BY <1>4 DEF SignDocument, QueuedIsBuilt
<1>5. CASE ValidateDocument
  <2>1. stage' \in {"sent unchecked", "ERROR", "sent"}
    BY <1>5 DEF ValidateDocument
  <2> QED BY <2>1 DEF QueuedIsBuilt
<1>6. CASE UNCHANGED requestVars
  BY <1>6 DEF requestVars, documentVars, QueuedIsBuilt
<1> QED BY <1>1, <1>2, <1>3, <1>4, <1>5, <1>6 DEF RequestsNext

LEMMA QueuedInvariant == RequestsSpec => []QueuedIsBuilt
<1>1. RequestsInit => QueuedIsBuilt
  BY DEF RequestsInit, DocumentInit, QueuedIsBuilt
<1> QED BY <1>1, QueuedStep, PTL DEF RequestsSpec

\* What the header of the queued document declares.
LEMMA QueuedDeclares ==
  ASSUME QueuedIsBuilt, stage = "queued", request.type \in FullHeader, request.raw = {}
  PROVE  DeclaresTotals(document.totales, Totals(request.lines, Incluido(request)), lineItbis)
<1>1. PICK t, lines, raw, g, taxed, incluido :
        /\ t = request.type /\ lines = request.lines /\ raw = request.raw
        /\ g = Fields(request, "Totales") /\ taxed = (Codes(request.lines) # {})
        /\ incluido = Incluido(request)
  OBVIOUS
<1>2. PICK totals, header : totals = Totals(lines, incluido) /\ header = Totales(t, totals, taxed, g, raw)
  OBVIOUS
<1>3. document.totales = header
  BY <1>1, <1>2, BuiltTotales DEF QueuedIsBuilt
<1>4. t \in FullHeader /\ raw = {} /\ lines \in Seq(Line)
  BY <1>1 DEF QueuedIsBuilt
<1>5. \A i \in DOMAIN lines : lines[i].discount <= lines[i].qty * lines[i].price
  <2>1. DOMAIN lines = 1 .. Len(lines)
    BY <1>4
  <2> QED BY <1>1, <2>1 DEF QueuedIsBuilt, Accepts
<1>6. DeclaresTotals(header, totals, SumFunction(OfStored(lines)))
  <2>1. /\ t \in FullHeader /\ raw = {} /\ lines \in Seq(Line)
        /\ \A i \in DOMAIN lines : lines[i].discount <= lines[i].qty * lines[i].price
        /\ totals = Totals(lines, incluido) /\ header = Totales(t, totals, taxed, g, raw)
    BY <1>2, <1>4, <1>5
  <2> QED BY <2>1, HeaderDeclares, Zenon
<1>7. lineItbis = SumFunction(OfStored(lines))
  <2>1. lineItbis = Sum(request.lines, StoredItbis)
    BY DEF QueuedIsBuilt
  <2>2. Sum(request.lines, StoredItbis) = SumFunction(OfStored(request.lines))
    BY DEF Sum, OfStored
  <2> QED BY <1>1, <2>1, <2>2
<1>8. Totals(request.lines, Incluido(request)) = totals
  BY <1>1, <1>2
<1> QED BY <1>3, <1>6, <1>7, <1>8

-----------------------------------------------------------------------------
(* The theorems *)

\* The header adds up, for any lines that are accepted: MontoTotal is the sum of what it
\* declares taxed, exempt, of ITBIS, of additional taxes and not billed.
THEOREM HeaderAddsUp == IssuedSpec => []HeaderBalances
<1>1. QueuedIsBuilt => HeaderBalances
  <2> SUFFICES ASSUME QueuedIsBuilt, stage = "queued", request.type \in FullHeader, DeclaresTaxes(request)
               PROVE  Declared("MontoTotal") =
                        Declared("MontoGravadoTotal") + Declared("MontoExento") + Declared("TotalITBIS")
                        + Declared("MontoImpuestoAdicional") + Declared("MontoNoFacturable")
    BY DEF HeaderBalances
  <2>1. PICK totals : totals = Totals(request.lines, Incluido(request))
    OBVIOUS
  <2>2. request.raw = {} /\ totals.adicional >= 0
    BY <2>1 DEF DeclaresTaxes
  <2>3. /\ Declared("MontoTotal") = totals.total
        /\ Declared("MontoGravadoTotal") = totals.g18 + totals.g16 + totals.g0
        /\ Declared("MontoExento") = totals.exempt
        /\ Declared("TotalITBIS") = totals.i18 + totals.i16
        /\ Declared("MontoImpuestoAdicional") = totals.adicional
        /\ Declared("MontoNoFacturable") = totals.noFacturable
        /\ totals.total = totals.g18 + totals.g16 + totals.g0 + totals.exempt + totals.noFacturable
                           + totals.i18 + totals.i16 + totals.adicional
        /\ {totals.g18, totals.g16, totals.g0, totals.exempt, totals.i18, totals.i16,
            totals.noFacturable, totals.adicional} \subseteq Int
    <3>1. DeclaresTotals(document.totales, totals, lineItbis)
      BY <2>1, <2>2, QueuedDeclares
    <3>2. \A e : Declared(e) = DeclaredIn(document.totales, e)
      BY DEF Declared, DeclaredIn
    <3> QED BY <2>2, <3>1, <3>2 DEF DeclaresTotals
  <2> QED BY <2>3
<1> QED BY <1>1, QueuedInvariant, IssuedRequests, PTL

\* The total and the ITBIS that are printed, and the ITBIS of the stored lines, are those
\* that the header declares, for any lines that are accepted.
THEOREM PrintedAmounts == IssuedSpec => []PrintedIsDeclared
<1>1. QueuedIsBuilt => PrintedIsDeclared
  <2> SUFFICES ASSUME QueuedIsBuilt, stage = "queued", request.type \in FullHeader, request.raw = {}
               PROVE  /\ lineItbis = Declared("TotalITBIS")
                      /\ Row(request).totalItbis = Declared("TotalITBIS")
                      /\ Row(request).totalAmount = Declared("MontoTotal")
    BY DEF PrintedIsDeclared
  <2>1. PICK totals : totals = Totals(request.lines, Incluido(request))
    OBVIOUS
  <2>2. /\ Declared("MontoTotal") = totals.total
        /\ Declared("TotalITBIS") = totals.i18 + totals.i16
        /\ lineItbis = totals.i18 + totals.i16
    <3>1. DeclaresTotals(document.totales, totals, lineItbis)
      BY <2>1, QueuedDeclares
    <3>2. \A e : Declared(e) = DeclaredIn(document.totales, e)
      BY DEF Declared, DeclaredIn
    <3> QED BY <3>1, <3>2 DEF DeclaresTotals
  <2>3. Row(request).totalItbis = totals.i18 + totals.i16 /\ Row(request).totalAmount = totals.total
    BY <2>1 DEF Row
  <2> QED BY <2>2, <2>3
<1> QED BY <1>1, QueuedInvariant, IssuedRequests, PTL
-----------------------------------------------------------------------------
(* The answers of DGII *)

\* A behaviour of the issuer is one of the answers.
LEMMA IssuedAnswers == IssuedSpec => AnswersSpec
<1>1. IssuedInit => AnswersInit
  BY DEF IssuedInit
<1>2. [IssuedNext]_issuedVars => [AnswerArrives]_answerVars
  BY DEF IssuedNext, issuedVars
<1> QED BY <1>1, <1>2, PTL DEF IssuedSpec, AnswersSpec

\* What an answer says when it says the one verdict v, wherever it says it.
LEMMA OneVerdict ==
  ASSUME NEW b \in Bodies, NEW v \in AcceptedCode .. ConditionalCode, Says(b) \subseteq {v}
  PROVE  /\ b.codigo \in {v, NoCode} /\ b.estado \in {v, NoCode}
         /\ TextVerdict(b.word) \in {v, NotFound}
<1>1. /\ b.codigo \in VerdictCodes /\ b.estado \in VerdictCodes
      /\ TextVerdict(b.word) \in NotFound .. ConditionalCode
  <2>1. b.codigo \in VerdictCodes /\ b.estado \in VerdictCodes
    BY DEF Bodies
  <2>2. TextVerdict(b.word) \in {NotFound, AcceptedCode, RejectedCode, InProcessCode, ConditionalCode}
    BY DEF TextVerdict
  <2> QED
    BY <2>1, <2>2 DEF NotFound, AcceptedCode, RejectedCode, InProcessCode, ConditionalCode
<1>2. ({b.codigo, b.estado, TextVerdict(b.word)} \ {NoCode, NotFound}) \subseteq {v}
  BY DEF Says
<1> QED BY <1>1, <1>2 DEF VerdictCodes, NotFound, AcceptedCode, RejectedCode, InProcessCode, ConditionalCode, NoCode

\* The readers of a status read that verdict or none.
LEMMA CodeKeepsVerdict ==
  ASSUME NEW b \in Bodies, NEW v \in AcceptedCode .. ConditionalCode, Says(b) \subseteq {v},
         PlainAnswer(b)
  PROVE  /\ ReadStatus(b) \in {v, NotFound, NotANumber}
         /\ ReadCode(b) \in {v, NotFound, NotANumber}
<1>1. /\ b.codigo \in {v, NoCode} /\ b.estado \in {v, NoCode}
      /\ TextVerdict(b.word) \in {v, NotFound}
  BY OneVerdict
<1>2. b.inner = NoCode \/ b.codigo # NoCode
  BY DEF PlainAnswer
<1>3. XmlVerdict(b) \in {v, NotFound}
  BY <1>1, <1>2 DEF XmlVerdict, Or
<1>4. /\ JsonEstado(b, NotFound) \in {v, NotFound, NotANumber}
      /\ JsonEstado(b, Or(b.codigo, NotFound)) \in {v, NotFound, NotANumber}
  BY <1>1 DEF JsonEstado, Or
<1> QED BY <1>3, <1>4 DEF ReadStatus, ReadCode

\* The reader of a summary's answer, that looks for the words in the text.
LEMMA SummaryKeepsVerdict ==
  ASSUME NEW b \in Bodies, NEW v \in AcceptedCode .. ConditionalCode, Says(b) \subseteq {v},
         PlainAnswer(b)
  PROVE  ReadRfce(b) \in {v, NotFound, NotANumber}
<1>1. b.codigo \in {v, NoCode} /\ TextVerdict(b.word) \in {v, NotFound}
  BY OneVerdict
<1>2. ReadCode(b) \in {v, NotFound, NotANumber}
  BY CodeKeepsVerdict
<1>3. CASE b.form = "json"
  BY <1>1, <1>2, <1>3 DEF ReadRfce, Or
<1>4. CASE b.form # "json"
  <2>1. \A w \in Words : Has(b, {w}) /\ w # "none" => b.word = w
    BY DEF Has, PlainAnswer
  <2>2. CASE Has(b, {"aceptado condicional"})
    BY <1>1, <1>4, <2>1, <2>2
       DEF ReadRfce, Words, TextVerdict, NotFound, AcceptedCode, RejectedCode, InProcessCode, ConditionalCode
  <2>3. CASE ~Has(b, {"aceptado condicional"}) /\ Has(b, {"aceptado"})
    BY <1>1, <1>4, <2>1, <2>3
       DEF ReadRfce, Words, TextVerdict, NotFound, AcceptedCode, RejectedCode, InProcessCode, ConditionalCode
  <2>4. CASE ~Has(b, {"aceptado condicional"}) /\ ~Has(b, {"aceptado"}) /\ Has(b, {"rechazado"})
    BY <1>1, <1>4, <2>1, <2>4
       DEF ReadRfce, Words, TextVerdict, NotFound, AcceptedCode, RejectedCode, InProcessCode, ConditionalCode
  <2>5. CASE ~Has(b, {"aceptado condicional"}) /\ ~Has(b, {"aceptado"}) /\ ~Has(b, {"rechazado"})
    BY <1>2, <1>4, <2>5 DEF ReadRfce
  <2> QED BY <2>2, <2>3, <2>4, <2>5
<1> QED BY <1>3, <1>4

LEMMA RejectionIsNoAcceptance == RejectedCode # AcceptedCode
BY DEF RejectedCode, AcceptedCode

\* The reader of an annulment's answer finds an acceptance only where there is one.
LEMMA AnnulmentNeedsAcceptance ==
  ASSUME NEW b \in Bodies, PlainAnswer(b), ReadAnecf(b) = AcceptedCode
  PROVE  Says(b) \cap {AcceptedCode, ConditionalCode} # {}
<1>1. b.codigo = AcceptedCode \/ b.word \in {"aceptado", "aceptado condicional"}
  <2> SUFFICES ASSUME b.codigo # AcceptedCode, b.word \notin {"aceptado", "aceptado condicional"}
               PROVE  FALSE
    OBVIOUS
  <2>1. ~Has(b, {"aceptado", "aceptado condicional"})
    BY DEF Has, PlainAnswer
  <2>2. Or(b.codigo, RejectedCode) # AcceptedCode
    BY RejectionIsNoAcceptance DEF Or
  <2> QED BY <2>1, <2>2, RejectionIsNoAcceptance DEF ReadAnecf
<1>2. b.codigo = AcceptedCode \/ TextVerdict(b.word) \in {AcceptedCode, ConditionalCode}
  BY <1>1 DEF TextVerdict
<1> QED BY <1>2 DEF Says, NotFound, AcceptedCode, ConditionalCode, NoCode

\* The page of a server says nothing to the reader of a summary.
LEMMA PageSaysNothing ==
  ASSUME NEW b \in Bodies, b.form = "text", b.word = "none", b.mention = "none"
  PROVE  ReadRfce(b) = NotFound
BY DEF ReadRfce, Has, ReadCode

\* An answer that says one verdict is never read as another, in any form, by any call.
THEOREM VerdictsKept == IssuedSpec => []VerdictKept
<1>1. AnswersInit => VerdictKept
  BY DEF AnswersInit, NoReply, VerdictKept
<1>2. VerdictKept /\ [AnswerArrives]_answerVars => VerdictKept'
  <2>1. ASSUME AnswerArrives PROVE VerdictKept'
    <3>1. PICK call \in Calls, ok \in BOOLEAN, b \in Bodies :
            /\ ~ok => b.form = "text" /\ b.word = "none" /\ b.mention = "none"
            /\ reply' = [call |-> call, ok |-> ok, body |-> b, read |-> ReadAnswer(call, ok, b),
                         status |-> MapDgiiStatus(ReadAnswer(call, ok, b))]
      BY <2>1 DEF AnswerArrives
    <3>2. /\ reply'.call = call /\ reply'.ok = ok /\ reply'.body = b
          /\ reply'.read = ReadAnswer(call, ok, b)
      BY <3>1
    <3> SUFFICES ASSUME PlainAnswer(b)
                 PROVE  /\ ReadAnswer(call, ok, b) \in {AcceptedCode, ConditionalCode} => ok
                        /\ call \in Queries \cup {"summary"} =>
                             \A v \in AcceptedCode .. ConditionalCode :
                               Says(b) \subseteq {v} => ReadAnswer(call, ok, b) \in {v, NotFound, NotANumber}
                        /\ (call = "void" /\ ReadAnswer(call, ok, b) = AcceptedCode) =>
                             Says(b) \cap {AcceptedCode, ConditionalCode} # {}
                        /\ call = "ecf" => ReadAnswer(call, ok, b) \notin {AcceptedCode, ConditionalCode}
      BY <3>2 DEF VerdictKept
    <3>7. DOMAIN Submissions = {"ecf", "approval"}
      BY DEF Submissions
    <3>3. CASE call = "summary"
      <4>1. ReadAnswer(call, ok, b) = ReadRfce(b)
        BY <3>3, <3>7 DEF ReadAnswer, Queries
      <4>2. ~ok => ReadRfce(b) = NotFound
        BY <3>1, PageSaysNothing
      <4> QED BY <3>3, <4>1, <4>2, SummaryKeepsVerdict DEF NotFound, AcceptedCode, ConditionalCode
    <3>4. CASE call \in Queries
      <4>1. call \notin {"summary", "void", "ecf", "approval"}
        BY <3>4 DEF Queries
      <4>2. ReadAnswer(call, ok, b) = IF ok THEN ReadQuery(call, b) ELSE NotFound
        <5>1. CASE ok
          BY <3>4, <3>7, <4>1, <5>1 DEF ReadAnswer
        <5>2. CASE ~ok
          BY <3>4, <3>7, <4>1, <5>2 DEF ReadAnswer
        <5> QED BY <5>1, <5>2
      <4>3. ReadQuery(call, b) = ReadStatus(b) \/ ReadQuery(call, b) = ReadCode(b)
        BY DEF ReadQuery
      <4> QED BY <4>1, <4>2, <4>3, CodeKeepsVerdict DEF NotFound, AcceptedCode, ConditionalCode
    <3>5. CASE call = "void"
      <4>1. call \notin Queries \cup {"summary"} /\ call # "ecf"
        BY <3>5 DEF Queries
      <4>2. ReadAnswer(call, ok, b) = IF ok THEN ReadAnecf(b) ELSE RejectedCode
        BY <3>5, <3>7, <4>1 DEF ReadAnswer
      <4> QED BY <4>1, <4>2, AnnulmentNeedsAcceptance DEF AcceptedCode, ConditionalCode, RejectedCode
    <3>6. CASE call \in {"ecf", "approval"}
      <4>1. call \notin Queries \cup {"summary"} /\ call # "void"
        BY <3>6 DEF Queries
      <4>2. /\ "ecf" \in DOMAIN Submissions /\ "approval" \in DOMAIN Submissions
            /\ Submissions["ecf"] = InProcessCode
        BY DEF Submissions
      <4>3. ~ok => ReadAnswer(call, ok, b) = RejectedCode
        BY <4>1 DEF ReadAnswer
      <4>4. call = "ecf" /\ ok => ReadAnswer(call, ok, b) = InProcessCode
        BY <3>6, <4>1, <4>2 DEF ReadAnswer
      <4> QED BY <4>1, <4>3, <4>4, <3>6 DEF AcceptedCode, RejectedCode, InProcessCode, ConditionalCode
    <3> QED BY <3>3, <3>4, <3>5, <3>6, <3>7 DEF Calls
  <2>2. ASSUME VerdictKept, UNCHANGED answerVars PROVE VerdictKept'
    BY <2>2 DEF VerdictKept, answerVars
  <2> QED BY <2>1, <2>2
<1> QED BY <1>1, <1>2, IssuedAnswers, PTL DEF AnswersSpec
=============================================================================
