-------------------------------- MODULE Reception --------------------------------
(***************************************************************************)
(* The e-CFs that other taxpayers send to the company: FeReceptorController*)
(* and ReceptionService.storeReceived with the ARECF it sends back, and    *)
(* the commercial approvals (ACECF).  One e-NCF: several emitters may use  *)
(* the same number, and the row is the company's only one for it.          *)
(***************************************************************************)
EXTENDS CompanyCertificates

CONSTANTS
  Emitters,    \* taxpayers that send an e-CF with this e-NCF
  Receipts,    \* concurrent calls of receiveEcf
  Approvals    \* concurrent calls of processApproval

VARIABLES
  doc,        \* the row of received_documents: status, emitter
  receipt,    \* each receipt: step, emitter
  approval,   \* each approval: step, the status it asks for
  thanked,    \* emitters answered with an ARECF of Estado 0
  delivered,  \* the ARECF of sendArecf reached the emitter
  acecfs      \* verdicts of the ACECFs that DGII accepted

receptionVars == <<doc, receipt, approval, thanked, delivered, acecfs>>

NoDoc == "none"
Verdicts == {"APPROVED", "REJECTED"}
NoReceipt == [step |-> "idle", from |-> NoDoc]
NoApproval == [step |-> "idle", verdict |-> NoDoc]

ReceptionInit ==
  /\ doc = [status |-> NoDoc, from |-> NoDoc]
  /\ receipt = [r \in Receipts |-> NoReceipt]
  /\ approval = [a \in Approvals |-> NoApproval]
  /\ thanked = {} /\ delivered = FALSE /\ acecfs = {}

RStep(r, from, to) ==
  /\ receipt[r].step = from
  /\ receipt' = [receipt EXCEPT ![r] = IF to = "idle" THEN NoReceipt ELSE [@ EXCEPT !.step = to]]
AStep(a, from, to) ==
  /\ approval[a].step = from
  /\ approval' = [approval EXCEPT ![a] = IF to = "idle" THEN NoApproval ELSE [@ EXCEPT !.step = to]]

-----------------------------------------------------------------------------
(* receiveEcf.  A bad signature, missing fields, a type without ACECF or an  *)
(* unknown receiver are answered with an ARECF of Estado 1 and change        *)
(* nothing: such calls are left out.                                         *)

Receive(r, e) ==
  /\ receipt[r].step = "idle"
  /\ receipt' = [receipt EXCEPT ![r] = [step |-> "find", from |-> e]]
  /\ UNCHANGED <<doc, approval, thanked, delivered, acecfs, certVars>>

\* findUnique by company and e-NCF: a row of any emitter is "ya fue recibido",
\* which receiveEcf takes for success.
Find(r) ==
  /\ RStep(r, "find", IF doc.status = NoDoc THEN "create" ELSE "answer")
  /\ UNCHANGED <<doc, approval, thanked, delivered, acecfs, certVars>>

Create(r) ==
  /\ doc.status = NoDoc
  /\ RStep(r, "create", "arecf")
  /\ doc' = [status |-> "RECEIVED", from |-> receipt[r].from]
  /\ UNCHANGED <<approval, thanked, delivered, acecfs, certVars>>

\* The unique index refuses a second row with an error of its own, and the database
\* may fail: any error but "ya fue recibido" is thrown again, and the call ends.
CreateFails(r) ==
  /\ RStep(r, "create", "idle")
  /\ UNCHANGED <<doc, approval, thanked, delivered, acecfs, certVars>>

\* sendArecf signs and sends; its errors are caught.
ArecfSign(r) ==
  /\ \/ CanSign /\ RStep(r, "arecf", "send")
     \/ MayNotSign /\ RStep(r, "arecf", "answer")
  /\ UNCHANGED <<doc, approval, thanked, delivered, acecfs, certVars>>

\* Delivered, not delivered, or an exception on the way to DGII.
ArecfSend(r) ==
  /\ \/ RStep(r, "send", "acknowledge") /\ delivered' = TRUE
     \/ RStep(r, "send", "note") /\ UNCHANGED delivered
     \/ RStep(r, "send", "answer") /\ UNCHANGED delivered
  /\ UNCHANGED <<doc, approval, thanked, acecfs, certVars>>

Acknowledges_Always(r) == TRUE
Acknowledges(r) == receipt[r].step = "acknowledge"

\* update by id: ACKNOWLEDGED, or only the error in the metadata.
ArecfWrite(r) ==
  /\ RStep(r, "acknowledge", "answer") \/ RStep(r, "note", "answer")
  /\ doc' = IF Acknowledges(r) THEN [doc EXCEPT !.status = "ACKNOWLEDGED"] ELSE doc
  /\ UNCHANGED <<approval, thanked, delivered, acecfs, certVars>>

\* The webhook is queued, and the emitter gets the ARECF.
Thank(r) ==
  /\ RStep(r, "answer", "idle")
  /\ thanked' = thanked \cup {receipt[r].from}
  /\ UNCHANGED <<doc, approval, delivered, acecfs, certVars>>

ReceiptDies(r) ==
  /\ receipt[r].step # "idle"
  /\ receipt' = [receipt EXCEPT ![r] = NoReceipt]
  /\ UNCHANGED <<doc, approval, thanked, delivered, acecfs, certVars>>

-----------------------------------------------------------------------------
(* processApproval *)

Decided == doc.status \in Verdicts

Approve(a, v) ==
  /\ approval[a].step = "idle"
  /\ doc.status # NoDoc /\ ~Decided
  /\ approval' = [approval EXCEPT ![a] = [step |-> "sign", verdict |-> v]]
  /\ UNCHANGED <<doc, receipt, thanked, delivered, acecfs, certVars>>

ApprovalSign(a) ==
  /\ \/ CanSign /\ AStep(a, "sign", "send")
     \/ MayNotSign /\ AStep(a, "sign", "idle")
  /\ UNCHANGED <<doc, receipt, thanked, delivered, acecfs, certVars>>

\* DGII takes the ACECF, and its answer may be lost.
ApprovalSend(a) ==
  /\ AStep(a, "send", "write") \/ AStep(a, "send", "idle")
  /\ acecfs' = acecfs \cup {approval[a].verdict}
  /\ UNCHANGED <<doc, receipt, thanked, delivered, certVars>>

\* DGII did not take it, or was not reached: the attempt is stored beside the status.
ApprovalFails(a) ==
  /\ AStep(a, "send", "idle")
  /\ UNCHANGED <<doc, receipt, thanked, delivered, acecfs, certVars>>

ApprovalWrite(a) ==
  /\ AStep(a, "write", "idle")
  /\ doc' = [doc EXCEPT !.status = approval[a].verdict]
  /\ UNCHANGED <<receipt, thanked, delivered, acecfs, certVars>>

ApprovalDies(a) ==
  /\ approval[a].step # "idle"
  /\ approval' = [approval EXCEPT ![a] = NoApproval]
  /\ UNCHANGED <<doc, receipt, thanked, delivered, acecfs, certVars>>

ReceptionNext ==
  \/ \E r \in Receipts, e \in Emitters : Receive(r, e)
  \/ \E r \in Receipts : Find(r) \/ Create(r) \/ CreateFails(r) \/ ArecfSign(r) \/ ArecfSend(r)
                           \/ ArecfWrite(r) \/ Thank(r) \/ ReceiptDies(r)
  \/ \E a \in Approvals, v \in Verdicts : Approve(a, v)
  \/ \E a \in Approvals : ApprovalSign(a) \/ ApprovalSend(a) \/ ApprovalFails(a) \/ ApprovalWrite(a)
                          \/ ApprovalDies(a)

-----------------------------------------------------------------------------
(* Properties *)

\* "only mark ACKNOWLEDGED when the ARECF was actually delivered", "only mark
\* APPROVED/REJECTED when DGII actually accepted the ACECF": what the row says
\* happened, and an emitter that was thanked has a row, whoever died meanwhile.
StatusBacked ==
  /\ doc.status = "ACKNOWLEDGED" => delivered
  /\ doc.status \in Verdicts => doc.status \in acecfs
  /\ thanked # {} => doc.status # NoDoc

\* "Documento ya fue aprobado": a commercial verdict is final.  Refuted: an approval that
\* began before it, or an ARECF on its way to be recorded, writes over it.
VerdictFinal == [][doc.status \in Verdicts => doc'.status = doc.status]_receptionVars

\* "Receives an e-CF from another emitter and returns a signed ARECF": the document
\* that is acknowledged is the one that is stored.
ThankedIsStored == thanked \subseteq {doc.from}
=============================================================================
