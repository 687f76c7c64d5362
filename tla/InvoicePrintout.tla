---------------------------- MODULE InvoicePrintout ----------------------------
(***************************************************************************)
(* The two printed representations of an invoice: the page that PdfService *)
(* renders (HTML, or the same through Chromium) and the PDF that           *)
(* PdfBuilder draws.  Both print the columns that InvoicesService.create   *)
(* stored, and only the PDF also reads the signed document.  A printed     *)
(* field has the name of the element of the document that it stands for.   *)
(***************************************************************************)
EXTENDS EcfRequests

\* FC_FULL_SUBMISSION_THRESHOLD, in cents.
CONSTANT FullThreshold

ASSUME PrintoutAssumption == FullThreshold \in Nat

-----------------------------------------------------------------------------
(* The columns of the row *)

IscTaxes(lines) == Sum(lines, LAMBDA l : Especifico(l) + AdvaloremTax(l))

\* The transport and the export data have a column of their own for exports only, and the
\* seller, who is the buyer of the request, for purchases.
Columned(r, section, t) == IF r.type = t THEN Fields(r, section) ELSE {}

Row(r) ==
  LET totals == Totals(r.lines, Incluido(r))
  IN [subtotal |-> totals.subtotal, totalDiscount |-> Sum(r.lines, LAMBDA l : l.discount),
      totalItbis |-> totals.i18 + totals.i16, totalIsc |-> IscTaxes(r.lines),
      totalAmount |-> totals.total,
      isRfce |-> r.type = 32 /\ totals.total < FullThreshold,
      buyerEmail |-> "CorreoComprador" \in Fields(r, "Comprador"),
      transportInfo |-> Columned(r, "Transporte", 46) \cap TransportInput,
      exportInfo |-> Columned(r, "InformacionesAdicionales", 46)]

-----------------------------------------------------------------------------
(* The page *)

\* buildBuyerSection and, for a purchase, buildVendorSection.
BuyerSection(r) ==
  {"RazonSocialComprador"} \cup (IF r.rnc THEN {"RNCComprador"} ELSE {})
  \cup (IF r.type # 41 /\ Row(r).buyerEmail THEN {"CorreoComprador"} ELSE {})

\* buildRefInfo.
RefInfo(r) ==
  IF r.type \in RequiresReference /\ r.reference
  THEN {"NCFModificado", "FechaNCFModificado", "CodigoModificacion"} ELSE {}

\* The page shows the export data of every type.
ExportSections_Always(r) == Row(r).transportInfo \cup Fields(r, "InformacionesAdicionales")

\* buildExportSections: ten fields of the export and eleven of the transport.
PrintedTransport == ExportTransport
PrintedExport == {"PesoBruto", "PesoNeto", "VolumenBulto", "NumeroReferencia"} \cup (Exports \ {"OtrosGastos"})

ExportSections(r) ==
  IF r.type # 46 THEN {}
  ELSE (Row(r).transportInfo \cap PrintedTransport) \cup (Row(r).exportInfo \cap PrintedExport)

\* generateHtml; the expiry of the sequence is looked for where create does not put it.
Html(r) ==
  {"TipoeCF", "eNCF", "RNCEmisor", "RazonSocialEmisor", "DireccionEmisor", "FechaEmision", "TipoPago",
   "FechaHoraFirma"}
  \cup (IF r.currency THEN {"TipoMoneda", "TipoCambio"} ELSE {})
  \cup BuyerSection(r) \cup RefInfo(r) \cup ExportSections(r)

\* The subtotal, less the discount, plus the taxes: the column that ends in the total.
HtmlColumn(r) ==
  LET row == Row(r) IN row.subtotal - row.totalDiscount + row.totalItbis + row.totalIsc

-----------------------------------------------------------------------------
(* The PDF *)

TypesWithoutExpiration == {32, 34}

\* drawHeader.
Header(r) ==
  {"TipoeCF", "eNCF", "RNCEmisor", "RazonSocialEmisor", "DireccionEmisor", "FechaEmision"}
  \cup (IF r.type \in TypesWithoutExpiration THEN {} ELSE {"FechaVencimientoSecuencia"})
  \cup (RefInfo(r) \ {"FechaNCFModificado"})

\* drawClient: none for a consumer invoice that goes as a summary.
Client(r) ==
  IF Row(r).isRfce THEN {}
  ELSE {"RazonSocialComprador"} \cup (IF r.rnc THEN {"RNCComprador"} ELSE {})

Pdf(r) == Header(r) \cup Client(r) \cup {"FechaHoraFirma"}

\* lineDescription: the mark of an exempt line, from the rate and the ITBIS stored.
MarkedExempt(l) == EffectiveRate(l) = 0 /\ StoredItbis(l) = 0

-----------------------------------------------------------------------------
(* Properties *)

SignedElements == UNION {UNION {ToSet(e) : e \in document.sections[s]} : s \in Sections}

\* What a page shows though the document has no place for it: the buyer of a minor expense,
\* the RNC of a foreign beneficiary and, of one without, the name; the mail of a buyer
\* without RNC; the form of payment of a type that only has it when it is given.
Unsigned(r) ==
  CASE r.type = 43 -> {"RazonSocialComprador", "RNCComprador", "CorreoComprador", "TipoPago"}
    [] r.type = 47 -> {"RazonSocialComprador", "RNCComprador", "CorreoComprador", "TipoPago"}
    [] r.type = 32 /\ ~r.rnc -> {"CorreoComprador"}
    [] OTHER -> {}

\* The printed representations show what was signed: every field of the page and of the PDF
\* is an element of the signed document, whatever was asked, but for those of Unsigned; and
\* the expiry that the PDF shows is there to be read.
PrintedIsSigned ==
  stage = "signed" => (Html(request) \cup Pdf(request)) \ SignedElements \subseteq Unsigned(request)

\* The total and the ITBIS that both show, and the ITBIS of the stored lines, which the 606
\* and 607 reports add up, are those declared to DGII, unless the request brings totals of
\* its own or its header has no place for them.
PrintedIsDeclared ==
  (stage = "queued" /\ request.type \in FullHeader /\ request.raw = {}) =>
    /\ lineItbis = Declared("TotalITBIS")
    /\ Row(request).totalItbis = Declared("TotalITBIS")
    /\ Row(request).totalAmount = Declared("MontoTotal")

-----------------------------------------------------------------------------
(* What the comments promise and the code does not give *)

\* "Subtotal", "Descuento", "ITBIS", "ISC", "TOTAL": the column adds up.
ColumnAddsUp == stage = "queued" => HtmlColumn(request) = Row(request).totalAmount

\* The lines marked "(E)" are the exempt ones.
MarksExempt ==
  stage = "queued" => \A i \in 1 .. Len(request.lines) :
    MarkedExempt(request.lines[i]) => Indicador(request.lines[i]) = 4

\* "Subtotal Gravado": what is taxed.
SubtotalIsTaxed ==
  (stage = "queued" /\ request.raw = {} /\ request.type \in FullHeader) =>
    Row(request).subtotal = Declared("MontoGravadoTotal")
=============================================================================
