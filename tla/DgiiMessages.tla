------------------------------ MODULE DgiiMessages ------------------------------
(***************************************************************************)
(* The documents that are sent besides the e-CFs: the ANECF of an          *)
(* annulment, the ARECF that answers a received e-CF, and the ACECF of a   *)
(* commercial approval, made from a received document or from a row of the *)
(* Excel of step 3; with what each caller refuses before it builds one.    *)
(* Their official schemas are src/xsd/ANECF.xsd, ARECF.xsd and ACECF.xsd.  *)
(***************************************************************************)
EXTENDS EcfSchema

CONSTANT
  AnnulNumbers,  \* the numbers of the ranges that are asked to be annulled
  AnnulTypes,    \* their types
  MaxRanges      \* bound on the ranges of one call

ASSUME MessagesAssumption ==
  /\ AnnulNumbers \subseteq Nat /\ AnnulTypes \subseteq EcfTypes
  /\ MaxRanges \in Nat

\* The last message: what it was made from, and it.
VARIABLES message

messageVars == <<message>>

NoMessage == [kind |-> "none"]

MessageSchema ==
  [ANECF |-> <<"NoLinea", "TipoeCF", "TablaRangoSecuenciasAnuladaseNCF", "CantidadeNCFAnulados">>,
   ARECF |-> <<"Version", "RNCEmisor", "RNCComprador", "eNCF", "Estado", "CodigoMotivoNoRecibido",
               "FechaHoraAcuseRecibo">>,
   ACECF |-> <<"Version", "RNCEmisor", "eNCF", "FechaEmision", "MontoTotal", "RNCComprador", "Estado",
               "DetalleMotivoRechazo", "FechaHoraAprobacionComercial">>]
MayLack == [ANECF |-> {}, ARECF |-> {"CodigoMotivoNoRecibido"}, ACECF |-> {"DetalleMotivoRechazo"}]

InSchema(kind, elements) ==
  LET order == MessageSchema[kind]
  IN /\ elements = SelectSeq(order, LAMBDA e : e \in ToSet(elements))
     /\ ToSet(order) \ MayLack[kind] \subseteq ToSet(elements)

\* DGII only has commercial approvals of the other types.
AcecfExcluded == {32, 41, 43, 46, 47}

-----------------------------------------------------------------------------
(* ANECF *)

Ranges == {r \in [type : AnnulTypes, from : AnnulNumbers, to : AnnulNumbers] : r.from <= r.to}
Count(ranges) == MapThenFoldSet(+, 0, LAMBDA i : ranges[i].to - ranges[i].from + 1,
                                LAMBDA S : CHOOSE i \in S : TRUE, DOMAIN ranges)

\* A line for each range, as before the types were grouped.
Anulaciones_PerRange(ranges) ==
  [i \in 1 .. Len(ranges) |->
     [elements |-> MessageSchema["ANECF"], noLinea |-> i, type |-> ranges[i].type,
      table |-> <<ranges[i]>>, count |-> Count(<<ranges[i]>>)]]

\* buildAnecfXml: one line for each type, in the order of the types, with its ranges.
Anulaciones(ranges) ==
  LET types == SetToSortSeq({ranges[i].type : i \in DOMAIN ranges}, <)
  IN [i \in 1 .. Len(types) |->
        LET table == SelectSeq(ranges, LAMBDA r : r.type = types[i])
        IN [elements |-> <<"NoLinea", "TipoeCF", "TablaRangoSecuenciasAnuladaseNCF",
                           "CantidadeNCFAnulados">>,
            noLinea |-> i, type |-> types[i], table |-> table, count |-> Count(table)]]

Annul ==
  \E n \in 1 .. MaxRanges : \E ranges \in [1 .. n -> Ranges] :
    message' = [kind |-> "ANECF", ranges |-> ranges, lines |-> Anulaciones(ranges),
                total |-> Count(ranges)]

-----------------------------------------------------------------------------
(* ARECF *)

\* An e-CF that arrives: its signature, its fields, its receiver and what becomes of it.
Arrivals ==
  [signature : BOOLEAN, emisor : BOOLEAN, encf : {"none", "malformed", "valid"}, type : EcfTypes,
   comprador : {"none", "unknown", "company"}, certificate : BOOLEAN,
   store : {"created", "already", "fails"}]

HasApprovals(a) == a.type \notin AcecfExcluded

\* What receiveEcf needs of a signed e-CF to take it as one.
Readable(a) == a.emisor /\ a.encf = "valid" /\ HasApprovals(a)

\* receiveEcf: the signature, then the fields, the type and the receiver.
Motive(a) ==
  CASE ~a.signature -> 2
    [] a.signature /\ ~Readable(a) -> 1
    [] a.signature /\ Readable(a) /\ a.comprador # "company" -> 4
    [] OTHER -> 0

\* The receiver is a company whose certificate was found.
SigningMaterial(a) == a.comprador = "company" /\ a.certificate

Arecf(a) ==
  [kind |-> "ARECF", arrival |-> a, estado |-> IF Motive(a) = 0 THEN 0 ELSE 1, motive |-> Motive(a),
   signed |-> SigningMaterial(a),
   elements |-> <<"Version", "RNCEmisor", "RNCComprador", "eNCF", "Estado">>
                \o (IF Motive(a) = 0 THEN <<>> ELSE <<"CodigoMotivoNoRecibido">>)
                \o <<"FechaHoraAcuseRecibo">>,
   empty |-> (IF a.emisor THEN {} ELSE {"RNCEmisor"}) \cup (IF a.encf = "none" THEN {"eNCF"} ELSE {})
             \cup (IF a.comprador = "none" THEN {"RNCComprador"} ELSE {})]

\* Only a store that fails for another reason than a duplicate is an HTTP error.
Acknowledge ==
  \E a \in Arrivals :
    message' = IF Motive(a) = 0 /\ a.store = "fails" THEN [kind |-> "HTTP error", arrival |-> a]
               ELSE Arecf(a)

-----------------------------------------------------------------------------
(* ACECF *)

\* What an approval is made from: a row of the Excel, or a received document and a request.
ApprovalInputs ==
  [from : {"row", "request"}, type : EcfTypes, rncs : BOOLEAN, total : {"amount", "negative"},
   date : {"dd-MM-yyyy", "other"}, estado : {1, 2}, reason : {"none", "given", "over 250"},
   time : {"dd-MM-yyyy HH:mm:ss", "more blanks", "out of range", "other"}]

\* AcecfExcelParser.parse, which refuses the sheet for one bad row; uploadExcel leaves out the types without approvals.
RowTaken(i) ==
  /\ i.rncs /\ i.total # "negative" /\ i.date = "dd-MM-yyyy"
  /\ i.estado = 2 => i.reason # "none"
  /\ i.time # "other" /\ i.type \notin AcecfExcluded

\* ApproveReceptionDto and processApproval; the document was read from a signed e-CF, and
\* the time of the approval is made by the program.
RequestTaken(i) ==
  /\ i.rncs /\ i.total # "negative" /\ i.date = "dd-MM-yyyy" /\ i.time = "dd-MM-yyyy HH:mm:ss"
  /\ i.reason # "over 250" /\ (i.estado = 2 => i.reason # "none")
  /\ i.type \notin AcecfExcluded

\* The reason is there for a rejection only.
ReasonShown(i) == i.estado = 2

Acecf(i) ==
  [kind |-> "ACECF", input |-> i, estado |-> i.estado,
   elements |-> <<"Version", "RNCEmisor", "eNCF", "FechaEmision", "MontoTotal", "RNCComprador", "Estado">>
                \o (IF ReasonShown(i) THEN <<"DetalleMotivoRechazo">> ELSE <<>>)
                \o <<"FechaHoraAprobacionComercial">>]

Approve ==
  \E i \in ApprovalInputs :
    /\ IF i.from = "row" THEN RowTaken(i) ELSE RequestTaken(i)
    /\ message' = Acecf(i)

-----------------------------------------------------------------------------
MessagesInit == message = NoMessage

MessagesNext == message = NoMessage /\ (Annul \/ Acknowledge \/ Approve)

MessagesSpec == MessagesInit /\ [][MessagesNext]_messageVars

-----------------------------------------------------------------------------
(* Properties *)

Apart(r, q) == r.type # q.type \/ r.to < q.from \/ q.to < r.from
AllApart(ranges) == \A i, j \in DOMAIN ranges : i # j => Apart(ranges[i], ranges[j])
EncfsOf(ranges) ==
  UNION {{<<ranges[i].type, n>> : n \in ranges[i].from .. ranges[i].to} : i \in DOMAIN ranges}

\* "total de NCF, no de rangos", "una <Anulacion> por TIPO": as many lines as types, in
\* order; every e-NCF of the call in the line of its type and in no other; and the counts
\* are those of the e-NCFs, if no two ranges share one.
AnecfSays(m) ==
  /\ \A i \in DOMAIN m.lines :
       /\ InSchema("ANECF", m.lines[i].elements) /\ m.lines[i].noLinea = i
       /\ \A j \in DOMAIN m.lines : i < j => m.lines[i].type < m.lines[j].type
       /\ \A k \in DOMAIN m.lines[i].table : m.lines[i].table[k].type = m.lines[i].type
  /\ UNION {EncfsOf(m.lines[i].table) : i \in DOMAIN m.lines} = EncfsOf(m.ranges)
  /\ AllApart(m.ranges) =>
       /\ m.total = Cardinality(EncfsOf(m.ranges))
       /\ \A i \in DOMAIN m.lines : m.lines[i].count = Cardinality(EncfsOf(m.lines[i].table))

\* Estado 0 only for a signed e-CF of a type with approvals that names its emitter and the
\* company and has a row; with a motive otherwise, and only then; unsigned when the receiver
\* is not a company of ours or has no certificate.
ArecfSays(m) ==
  /\ InSchema("ARECF", m.elements)
  /\ m.estado = 0 <=> "CodigoMotivoNoRecibido" \notin ToSet(m.elements)
  /\ m.estado = 0 =>
       /\ m.arrival.signature /\ m.arrival.type \notin AcecfExcluded /\ m.empty = {}
       /\ m.arrival.comprador = "company" /\ m.arrival.store # "fails"
  /\ m.signed <=> (m.arrival.comprador = "company" /\ m.arrival.certificate)

\* "DetalleMotivoRechazo (solo cuando Estado=2)": a rejection says why, an approval does not;
\* and a request never brings a value that the schema refuses.
AcecfSays(m) ==
  /\ InSchema("ACECF", m.elements) /\ m.input.type \notin AcecfExcluded
  /\ m.estado = 2 <=> "DetalleMotivoRechazo" \in ToSet(m.elements)
  /\ m.estado = 2 => m.input.reason # "none"

\* What is sent besides the e-CFs is in the order of its schema, with what it requires, and
\* says what the call asked for, no more and no less.
MessagesSay ==
  CASE message.kind = "ANECF" -> AnecfSays(message)
    [] message.kind = "ARECF" -> ArecfSays(message)
    [] message.kind = "ACECF" -> AcecfSays(message)
    [] OTHER -> TRUE

-----------------------------------------------------------------------------
(* What the comments promise and the code does not give *)

\* "CantidadeNCFAnulados (total de NCF, no de rangos)", also when two ranges overlap.
AnnulledOnce == message.kind = "ANECF" => message.total = Cardinality(EncfsOf(message.ranges))

\* "validation errors should return a proper ARECF": one without empty fields.
ProperArecf == message.kind = "ARECF" => message.empty = {}

\* "Per DGII protocol, ALL ARECFs should be digitally signed."
ArecfSigned == message.kind = "ARECF" => message.signed

\* "FechaHoraAprobacionComercial (dd-MM-yyyy HH:mm:ss)": an ACECF of step 3 has no value that
\* the schema refuses.
RowAcecfFits ==
  message.kind = "ACECF" =>
    message.input.reason # "over 250" /\ message.input.time = "dd-MM-yyyy HH:mm:ss"
=============================================================================
