------------------------------ MODULE DgiiAnswers ------------------------------
(***************************************************************************)
(* How DgiiService reads what DGII answers.  DGII answers JSON or XML, now *)
(* and then a page of text, and says its verdict as a code, as a word, or  *)
(* as both; its messages have codes and words of their own.  Each call     *)
(* reads a verdict in its own way, and its caller stores a status.         *)
(***************************************************************************)
EXTENDS Integers

\* DGII_STATUS, and what is not one of its numbers: a word where a number is expected.
NotFound == 0
AcceptedCode == 1
RejectedCode == 2
InProcessCode == 3
ConditionalCode == 4
NotANumber == 5

NoCode == 9
VerdictCodes == {AcceptedCode, RejectedCode, InProcessCode, ConditionalCode, NoCode}
Words == {"none", "aceptado", "aceptado condicional", "rechazado", "en proceso"}

\* An answer: the code and the state that it gives, the state as a number or as a word,
\* and the first code and the words of its messages.
Bodies ==
  [form : {"json", "xml", "text"}, codigo : VerdictCodes, estado : VerdictCodes, word : Words,
   inner : VerdictCodes, mention : Words]

VARIABLES reply  \* the last answer, the call that read it, and what it read

answerVars == <<reply>>

NoBody == [form |-> "text", codigo |-> NoCode, estado |-> NoCode, word |-> "none",
           inner |-> NoCode, mention |-> "none"]
NoReply == [call |-> "none", ok |-> TRUE, body |-> NoBody, read |-> NotFound, status |-> "QUEUED"]

-----------------------------------------------------------------------------
(* The readers *)

\* The words in an order in which one hides another.
TextVerdict_Hidden(word) ==
  CASE word \in {"aceptado", "aceptado condicional"} -> AcceptedCode
    [] word = "rechazado" -> RejectedCode
    [] word = "en proceso" -> InProcessCode
    [] OTHER -> NotFound

\* The text of <Estado>: "aceptado condicional" is looked for before "aceptado".
TextVerdict(word) ==
  CASE word = "aceptado condicional" -> ConditionalCode
    [] word = "aceptado" -> AcceptedCode
    [] word = "rechazado" -> RejectedCode
    [] word = "en proceso" -> InProcessCode
    [] OTHER -> NotFound

Or(code, otherwise) == IF code # NoCode THEN code ELSE otherwise

\* The first <Codigo> of the XML, be it the verdict or one of a message; then <Estado>.
XmlVerdict(b) ==
  Or(b.codigo, Or(b.inner,
     IF TextVerdict(b.word) # NotFound THEN TextVerdict(b.word) ELSE Or(b.estado, NotFound)))

\* json.estado as it comes.
JsonEstado(b, otherwise) == IF b.word # "none" THEN NotANumber ELSE Or(b.estado, otherwise)

\* parseStatusResponse: the codigo of a JSON answer is not asked.
ReadStatus(b) ==
  CASE b.form = "json" -> JsonEstado(b, NotFound)
    [] b.form = "xml" -> XmlVerdict(b)
    [] OTHER -> NotFound

\* extractStatusCode.
ReadCode(b) ==
  CASE b.form = "json" -> JsonEstado(b, Or(b.codigo, NotFound))
    [] b.form = "xml" -> XmlVerdict(b)
    [] OTHER -> NotFound

Has(b, words) == b.word \in words \/ b.mention \in words

\* parseRfceResponse: the code of a JSON answer, or any word in the text.
ReadRfce(b) ==
  IF b.form = "json" THEN Or(b.codigo, ReadCode(b))
  ELSE IF Has(b, {"aceptado condicional"}) THEN ConditionalCode
  ELSE IF Has(b, {"aceptado"}) THEN AcceptedCode
  ELSE IF Has(b, {"rechazado"}) THEN RejectedCode
  ELSE ReadCode(b)

\* parseAnecfResponse: what is not understood is a rejection.
ReadAnecf(b) ==
  LET accepted == {"aceptado", "aceptado condicional"}
  IN IF b.form = "json"
     THEN IF b.codigo = AcceptedCode \/ b.word \in accepted THEN AcceptedCode
          ELSE IF b.codigo = RejectedCode \/ b.word = "rechazado" THEN RejectedCode
          ELSE Or(b.codigo, RejectedCode)
     ELSE IF Has(b, accepted) THEN AcceptedCode ELSE RejectedCode

\* The calls whose body is not read for a verdict: submitEcf only takes a track from it, and
\* sendCommercialApproval nothing.
Submissions == [ecf |-> InProcessCode, approval |-> AcceptedCode]
Queries == {"status", "state", "rfce query"}
Calls == Queries \cup DOMAIN Submissions \cup {"summary", "void"}

ReadQuery(call, b) == IF call = "status" THEN ReadStatus(b) ELSE ReadCode(b)

\* An HTTP error is not found for a query, and a rejection for a submission; the answer to
\* a summary is read all the same.
ReadAnswer(call, ok, b) ==
  CASE call = "summary" -> ReadRfce(b)
    [] call \in Queries -> IF ok THEN ReadQuery(call, b) ELSE NotFound
    [] call \notin Queries \cup {"summary"} /\ ~ok -> RejectedCode
    [] call = "void" /\ ok -> ReadAnecf(b)
    [] call \in DOMAIN Submissions /\ ok -> Submissions[call]

\* mapDgiiStatus of the jobs and of pollStatus; the annulment only asks whether it was accepted.
MapDgiiStatus(code) ==
  CASE code = AcceptedCode -> "ACCEPTED"
    [] code = RejectedCode -> "REJECTED"
    [] code = InProcessCode -> "PROCESSING"
    [] code = ConditionalCode -> "CONDITIONAL"
    [] OTHER -> "SENT"

-----------------------------------------------------------------------------
AnswersInit == reply = NoReply

\* An answer arrives: an HTTP error has the page of a server, not an answer of DGII.
AnswerArrives ==
  /\ reply.call = "none"
  /\ \E call \in Calls, ok \in BOOLEAN, b \in Bodies :
       /\ b.form = "json" => b.inner = NoCode
       /\ b.form = "text" => b.codigo = NoCode /\ b.estado = NoCode /\ b.inner = NoCode
       /\ b.estado = NoCode \/ b.word = "none"
       /\ ~ok => b.form = "text" /\ b.word = "none" /\ b.mention = "none"
       /\ reply' = [call |-> call, ok |-> ok, body |-> b, read |-> ReadAnswer(call, ok, b),
                    status |-> MapDgiiStatus(ReadAnswer(call, ok, b))]

AnswersSpec == AnswersInit /\ [][AnswerArrives]_answerVars

-----------------------------------------------------------------------------
(* Properties *)

\* The verdicts that an answer says, as a code, a number or a word.
Says(b) == ({b.codigo, b.estado, TextVerdict(b.word)} \ {NoCode, NotFound})

\* The words of a message are not its verdict's, and no message has a code without it.
PlainAnswer(b) == b.mention = "none" /\ (b.inner = NoCode \/ b.codigo # NoCode)

\* An answer that says one verdict is never read as another: a query or a summary is read
\* as that verdict or as none, and an annulment as accepted only when it was, whatever the
\* form of the answer; a document that was only taken has no verdict yet; and an HTTP error
\* is never an acceptance.
VerdictKept ==
  (reply.call # "none" /\ PlainAnswer(reply.body)) =>
    /\ reply.read \in {AcceptedCode, ConditionalCode} => reply.ok
    /\ reply.call \in Queries \cup {"summary"} =>
         \A v \in AcceptedCode .. ConditionalCode :
           Says(reply.body) \subseteq {v} => reply.read \in {v, NotFound, NotANumber}
    /\ (reply.call = "void" /\ reply.read = AcceptedCode) =>
         Says(reply.body) \cap {AcceptedCode, ConditionalCode} # {}
    /\ reply.call = "ecf" => reply.read \notin {AcceptedCode, ConditionalCode}

-----------------------------------------------------------------------------
(* What the comments promise and the code does not give *)

\* "Conservative by design: an ambiguous body is treated as REJECTED": an annulment with any
\* rejection in it is not read as accepted.
AmbiguousIsRejected ==
  (reply.call = "void" /\ RejectedCode \in Says(reply.body)) => reply.read # AcceptedCode

\* "only mark APPROVED/REJECTED when DGII actually accepted the ACECF": an approval that DGII
\* refuses in its answer is not taken for an accepted one.
ApprovalSaysSo ==
  (reply.call = "approval" /\ RejectedCode \in Says(reply.body)) => reply.read # AcceptedCode

\* "status-poll: ACCEPTED": a plain acceptance is read as one, in every form.
AcceptanceRead ==
  (reply.call = "status" /\ reply.ok /\ PlainAnswer(reply.body) /\ Says(reply.body) = {AcceptedCode}) =>
    reply.status = "ACCEPTED"
=============================================================================
