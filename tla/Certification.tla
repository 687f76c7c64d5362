------------------------------ MODULE Certification ------------------------------
(***************************************************************************)
(* The company's certification with DGII: the Excel of step 2, whose rows  *)
(* become invoices through InvoicesService.create, and the ACECFs of step  *)
(* 3, uploaded, built, signed and sent one after the other.                *)
(***************************************************************************)
EXTENDS CompanyCertificates

CONSTANTS
  Numbers,    \* e-NCFs of the rows of the Excel files
  Companies,  \* companies of one tenant that are certified with the same set
  Workers     \* concurrent calls of processAll

VARIABLES
  acecf,     \* each row of step3_acecf_documents: status, version of its content, id
  worker,    \* each processAll: step, documents left, the one it processes, content read
  stranded,  \* a processAll died in the middle of a document
  sent,      \* documents whose present content DGII accepted
  invoiceOf, \* the tenant's invoice with the idempotency key of each number: its company
  excel,     \* the step-2 upload: step, company, rows left, current
  item       \* the items of that upload, per number: none, error, or the invoice's company

certificationVars == <<acecf, worker, stranded, sent, invoiceOf, excel, item>>
step3Vars == <<acecf, worker, stranded, sent>>
step2Vars == <<invoiceOf, excel, item>>

Nobody == "none"
NoAcecf == [status |-> "none", version |-> 0, id |-> 0]
NoWorker == [step |-> "idle", left |-> {}, at |-> Nobody, version |-> 0, id |-> 0]
NoExcel == [step |-> "idle", company |-> Nobody, left |-> {}, at |-> Nobody]

CertificationInit ==
  /\ acecf = [n \in Numbers |-> NoAcecf]
  /\ worker = [w \in Workers |-> NoWorker]
  /\ stranded = FALSE
  /\ sent = [n \in Numbers |-> {}]
  /\ invoiceOf = [n \in Numbers |-> Nobody]
  /\ excel = NoExcel
  /\ item = [n \in Numbers |-> Nobody]

-----------------------------------------------------------------------------
(* Step 3 *)

MaxVersion == 2

\* upsert: every row goes to PENDING with the content of the new file.
UploadAcecfs(ns) ==
  /\ \A n \in ns : acecf[n].version < MaxVersion
  /\ acecf' = [n \in Numbers |->
       IF n \notin ns THEN acecf[n]
       ELSE [status |-> "PENDING", version |-> acecf[n].version + 1,
             id |-> IF acecf[n].status = "none" THEN acecf[n].id + 1 ELSE acecf[n].id]]
  /\ UNCHANGED <<worker, stranded, sent, step2Vars, certVars>>

\* resetDocuments deletes the rows.
ResetDocuments ==
  /\ \E n \in Numbers : acecf[n].status # "none"
  /\ acecf' = [n \in Numbers |-> [acecf[n] EXCEPT !.status = "none"]]
  /\ UNCHANGED <<worker, stranded, sent, step2Vars, certVars>>

Processable(n) == acecf[n].status \in {"PENDING", "ERROR"}

\* processAll: findMany.
ProcessAll(w) ==
  /\ worker[w].step = "idle"
  /\ \E n \in Numbers : Processable(n)
  /\ worker' = [worker EXCEPT ![w].step = "next", ![w].left = {n \in Numbers : Processable(n)}]
  /\ UNCHANGED <<acecf, stranded, sent, step2Vars, certVars>>

WStep(w, from, to) ==
  /\ worker[w].step = from
  /\ worker' = [worker EXCEPT ![w].step = to]

Exists(w) ==
  acecf[worker[w].at].status # "none" /\ acecf[worker[w].at].id = worker[w].id

\* update by id; of a row that was deleted it throws, into the catch of
\* processDocument, whose own failure is ignored.
WriteStep(w, from, to, status) ==
  /\ WStep(w, from, IF Exists(w) THEN to ELSE IF from = "error" THEN "next" ELSE "error")
  /\ acecf' = IF Exists(w) THEN [acecf EXCEPT ![worker[w].at].status = status] ELSE acecf
  /\ UNCHANGED <<stranded, sent, step2Vars, certVars>>

\* processDocument reads the row again, if it is still there, and writes BUILDING.
Build(w) ==
  /\ worker[w].step = "next"
  /\ \E n \in worker[w].left :
       IF acecf[n].status = "none"
         THEN worker' = [worker EXCEPT ![w].left = @ \ {n}] /\ UNCHANGED acecf
         ELSE /\ worker' = [worker EXCEPT ![w] = [step |-> "signing", left |-> @.left \ {n}, at |-> n,
                                                  version |-> acecf[n].version, id |-> acecf[n].id]]
              /\ acecf' = [acecf EXCEPT ![n].status = "BUILDING"]
  /\ UNCHANGED <<stranded, sent, step2Vars, certVars>>

Sign(w) == WriteStep(w, "signing", "certificate", "SIGNING")

OnError_Skip == "next"
\* The catch, or the refusal of DGII, writes ERROR.
OnError == "error"

Submit(w) ==
  \/ CanSign /\ WriteStep(w, "certificate", "send", "SUBMITTING")
  \/ MayNotSign /\ WStep(w, "certificate", OnError)
                /\ UNCHANGED <<acecf, stranded, sent, step2Vars, certVars>>

\* DGII takes it and answers, takes it and the answer is lost, or refuses it.
Send(w) ==
  /\ \/ /\ WStep(w, "send", "sent") \/ WStep(w, "send", OnError)
        /\ sent' = [sent EXCEPT ![worker[w].at] = @ \cup {worker[w].version}]
     \/ WStep(w, "send", OnError) /\ UNCHANGED sent
  /\ UNCHANGED <<acecf, stranded, step2Vars, certVars>>

SentWrite(w) == WriteStep(w, "sent", "next", "SENT")
ErrorWrite(w) == WriteStep(w, "error", "next", "ERROR")

ProcessEnd(w) ==
  /\ worker[w].step = "next" /\ worker[w].left = {}
  /\ worker' = [worker EXCEPT ![w] = NoWorker]
  /\ UNCHANGED <<acecf, stranded, sent, step2Vars, certVars>>

ProcessDies(w) ==
  /\ worker[w].step # "idle"
  /\ worker' = [worker EXCEPT ![w] = NoWorker]
  /\ stranded' = TRUE
  /\ UNCHANGED <<acecf, sent, step2Vars, certVars>>

-----------------------------------------------------------------------------
(* Step 2 *)

UploadExcel(c) ==
  /\ excel.step = "idle"
  /\ \E rows \in SUBSET Numbers \ {{}} :
       excel' = [step |-> "row", company |-> c, left |-> rows, at |-> Nobody]
  /\ item' = [n \in Numbers |-> Nobody]
  /\ UNCHANGED <<invoiceOf, step3Vars, certVars>>

\* create with the key cert-<encf>: an invoice of the tenant with that key is
\* returned as it is.
Row(n) ==
  /\ excel.step = "row" /\ n \in excel.left
  /\ \/ /\ excel' = [excel EXCEPT !.step = "item", !.left = @ \ {n}, !.at = n]
        /\ invoiceOf' = [invoiceOf EXCEPT ![n] = IF @ = Nobody THEN excel.company ELSE @]
     \/ /\ excel' = [excel EXCEPT !.step = "failed", !.left = @ \ {n}, !.at = n]
        /\ UNCHANGED invoiceOf
  /\ UNCHANGED <<item, step3Vars, certVars>>

\* The row's item, or that of its failure; the insert of an item may fail too, and
\* is then recorded as a failed row.
Item ==
  /\ excel.step = "item"
  /\ \/ /\ excel' = [excel EXCEPT !.step = "row", !.at = Nobody]
        /\ item' = [item EXCEPT ![excel.at] = invoiceOf[excel.at]]
     \/ /\ excel' = [excel EXCEPT !.step = "failed"]
        /\ UNCHANGED item
  /\ UNCHANGED <<invoiceOf, step3Vars, certVars>>

FailedRow ==
  /\ excel.step = "failed"
  /\ excel' = [excel EXCEPT !.step = "row", !.at = Nobody]
  /\ item' = [item EXCEPT ![excel.at] = "error"]
  /\ UNCHANGED <<invoiceOf, step3Vars, certVars>>

\* The upload is done, or the process dies.
ExcelEnd ==
  /\ excel.step # "idle"
  /\ excel' = NoExcel
  /\ UNCHANGED <<invoiceOf, item, step3Vars, certVars>>

Step3Next ==
  \/ \E ns \in SUBSET Numbers \ {{}} : UploadAcecfs(ns)
  \/ ResetDocuments
  \/ \E w \in Workers : ProcessAll(w) \/ Build(w) \/ Sign(w) \/ Submit(w) \/ Send(w)
                          \/ SentWrite(w) \/ ErrorWrite(w) \/ ProcessEnd(w) \/ ProcessDies(w)

Step2Next ==
  \/ \E c \in Companies : UploadExcel(c)
  \/ \E n \in Numbers : Row(n)
  \/ Item \/ FailedRow \/ ExcelEnd

-----------------------------------------------------------------------------
(* Properties *)

\* With no processAll under way, a document waits for the next one or is SENT with
\* an ACECF that DGII accepted: no failure of a certificate, of DGII or of another
\* processAll leaves it between two statuses, where nothing would pick it up.
\* (A processAll that dies does.)
AcecfSettled ==
  (~stranded /\ \A w \in Workers : worker[w].step = "idle") =>
    \A n \in Numbers :
      /\ acecf[n].status \in {"none", "PENDING", "ERROR", "SENT"}
      /\ acecf[n].status = "SENT" => sent[n] # {}

\* The ACECF of the file uploaded last is the one sent: refuted, an upload during
\* processAll is overwritten with SENT.
SentIsLatest == \A n \in Numbers : acecf[n].status = "SENT" => acecf[n].version \in sent[n]

\* An item of a company's upload is an invoice of that company: refuted, the key
\* cert-<encf> is the tenant's.
ItemOfCompany ==
  \A n \in Numbers : excel.step # "idle" /\ item[n] \in Companies => item[n] = excel.company
=============================================================================
