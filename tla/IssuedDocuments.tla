---------------------------- MODULE IssuedDocuments ----------------------------
(***************************************************************************)
(* The documents of an issuer: the e-CF that a request becomes and its     *)
(* printed representations, the copies of one e-CF while it is signed and  *)
(* sent again, what DGII answers, the other messages, and the spreadsheet  *)
(* of the certification.  They share no variable: a behaviour is about one *)
(* of them.                                                                *)
(***************************************************************************)
EXTENDS InvoicePrintout, SignedCopies, DgiiAnswers, DgiiMessages, CertificationSheet

VARIABLES part  \* what the behaviour is about

issuedVars == <<part, requestVars, copyVars, answerVars, messageVars, sheetVars>>

IssuedInit ==
  /\ RequestsInit /\ CopiesInit /\ AnswersInit /\ MessagesInit /\ SheetInit
  /\ part \in {"requests", "copies", "answers", "messages", "sheet"}
  /\ isRfce => part = "copies"

IssuedNext ==
  \/ part = "requests" /\ RequestsNext /\ UNCHANGED <<copyVars, answerVars, messageVars, sheetVars, part>>
  \/ part = "copies" /\ CopiesNext /\ UNCHANGED <<requestVars, answerVars, messageVars, sheetVars, part>>
  \/ part = "answers" /\ AnswerArrives /\ UNCHANGED <<requestVars, copyVars, messageVars, sheetVars, part>>
  \/ part = "messages" /\ MessagesNext /\ UNCHANGED <<requestVars, copyVars, answerVars, sheetVars, part>>
  \/ part = "sheet" /\ SheetNext /\ UNCHANGED <<requestVars, copyVars, answerVars, messageVars, part>>

IssuedSpec == IssuedInit /\ [][IssuedNext]_issuedVars
=============================================================================
