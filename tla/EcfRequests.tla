------------------------------ MODULE EcfRequests ------------------------------
(***************************************************************************)
(* Who asks for a document, and what is left of the request when the       *)
(* builder gets it.  The API passes a CreateInvoiceDto through the         *)
(* ValidationPipe, which refuses every field that the DTO does not have.   *)
(* The certification reads a row of DGII's spreadsheet, whose columns are  *)
(* named like the elements of the document, and maps it with the mapper of *)
(* its type.  The program's own callers build an InvoiceInput.             *)
(*                                                                         *)
(* A field of a DTO or of an InvoiceInput has the name of its element.     *)
(***************************************************************************)
EXTENDS EcfDocument

\* What may be asked, in batches: from ("api", "row" or "code"), type, section, the fields given for
\* it, the other parts, the lines, rnc, reference, currency, values, and prod for the API.
CONSTANT Asked

ASSUME AskedAssumption ==
  \A batch \in Asked : \A a \in batch :
    /\ a.from \in {"api", "row", "code"} /\ a.type \in EcfTypes /\ a.section \in Sections
    /\ a.values \in Values
    /\ a.lines \in Seq(Line) /\ {a.rnc, a.reference, a.currency, a.prod} \subseteq BOOLEAN

VARIABLE asked  \* what was asked, whatever came of it

requestVars == <<documentVars, asked>>

NothingAsked == [from |-> "code", type |-> 0, section |-> "ECF", fields |-> {}, parts |-> {},
                 lines |-> << >>, rnc |-> FALSE, reference |-> FALSE, currency |-> FALSE, prod |-> FALSE,
                 values |-> NoValues]

-----------------------------------------------------------------------------
(* What an InvoiceInput has a field for *)

BuyerDto == {"ContactoComprador", "CorreoComprador", "DireccionComprador", "MunicipioComprador",
             "ProvinciaComprador", "FechaEntrega", "ContactoEntrega", "DireccionEntrega",
             "TelefonoAdicional", "FechaOrdenCompra", "NumeroOrdenCompra", "CodigoInternoComprador",
             "ResponsablePago", "InformacionAdicionalComprador"}
BuyerInput == BuyerDto \cup {"IdentificadorExtranjero", "PaisComprador"}

\* FechaLimitePago stands for a payment on credit.
PaymentDto == {"TipoPago", "FechaLimitePago", "TerminoPago", "TipoCuentaPago", "NumeroCuentaPago",
               "BancoPago"}
PaymentInput == PaymentDto \cup {"IndicadorEnvioDiferido", "IndicadorMontoGravado", "TipoIngresos"}

InvoiceItemDto == {"TablaCodigosItem", "UnidadMedida", "FechaElaboracion"}
IscReferences == {"CantidadReferencia", "TablaSubcantidad", "GradosAlcohol", "PrecioUnitarioReferencia"}
InvoiceItemInput ==
  InvoiceItemDto \cup IscReferences \cup {"DescripcionItem", "FechaVencimientoItem", "TablaSubDescuento",
                                         "TablaSubRecargo"}
ItemRetention == {"IndicadorAgenteRetencionoPercepcion", "MontoITBISRetenido", "MontoISRRetenido"}

ReferenceDto == {"RazonModificacion"}
ReferenceInput == ReferenceDto \cup {"RNCOtroContribuyente"}

ExportTransport == {"ViaTransporte", "PaisOrigen", "DireccionDestino", "PaisDestino",
                    "RNCIdentificacionCompaniaTransportista", "NombreCompaniaTransportista",
                    "NumeroViaje"}
CommonTransport == {"Conductor", "DocumentoTransporte", "Ficha", "Placa", "RutaTransporte",
                    "ZonaTransporte", "NumeroAlbaran"}
TransportInfoDto == ExportTransport
TransportInput == ExportTransport \cup CommonTransport

Weights == {"PesoBruto", "PesoNeto", "UnidadPesoBruto", "UnidadPesoNeto", "CantidadBulto",
            "UnidadBulto", "VolumenBulto", "UnidadVolumen"}
Shipment == {"FechaEmbarque", "NumeroEmbarque", "NumeroContenedor", "NumeroReferencia"}
Exports == {"CondicionesEntrega", "RegimenAduanero", "NombrePuertoEmbarque", "NombrePuertoSalida",
            "NombrePuertoDesembarque", "TotalFob", "Seguro", "Flete", "OtrosGastos", "TotalCif"}
ExportInfoDto == (Exports \ {"OtrosGastos"}) \cup Weights \cup {"NumeroReferencia"}
ExportAdditionalInfoInput == Exports \cup Weights \cup Shipment

EmitterOverrideDto ==
  {"NombreComercial", "Sucursal", "Municipio", "Provincia", "TablaTelefonoEmisor", "CorreoEmisor",
   "WebSite", "ActividadEconomica", "CodigoVendedor", "NumeroFacturaInterna", "NumeroPedidoInterno",
   "ZonaVenta", "RutaVenta", "InformacionAdicionalEmisor"}

RetentionInput == {"TotalITBISRetenido", "TotalISRRetencion", "TotalITBISPercepcion", "TotalISRPercepcion"}
Payable == {"MontoPeriodo", "ValorPagar"}
TotalsRawText ==
  {"MontoGravadoTotal", "MontoGravadoI1", "MontoGravadoI2", "MontoGravadoI3", "MontoExento",
   "ITBIS1", "ITBIS2", "ITBIS3", "TotalITBIS", "TotalITBIS1", "TotalITBIS2", "TotalITBIS3",
   "MontoImpuestoAdicional", "MontoTotal", "MontoNoFacturable"} \cup RetentionInput

SubtotalInformativoInput ==
  {"SubTotalMontoGravadoI1", "SubTotalMontoGravadoI2", "SubTotalMontoGravadoI3", "SubTotaITBIS",
   "SubTotaITBIS1", "SubTotaITBIS2", "SubTotaITBIS3", "SubTotalImpuestoAdicional", "SubTotalExento"}
PaginacionInput ==
  {"SubtotalMontoGravadoPagina", "SubtotalMontoGravado1Pagina", "SubtotalMontoGravado2Pagina",
   "SubtotalMontoGravado3Pagina", "SubtotalExentoPagina", "SubtotalItbisPagina",
   "SubtotalItbis1Pagina", "SubtotalItbis2Pagina", "SubtotalItbis3Pagina",
   "SubtotalImpuestoAdicionalPagina", "SubtotalImpuestoAdicional", "SubtotalMontoNoFacturablePagina"}
DiscountSurchargeInput ==
  {"IndicadorNorma1007", "TipoValor", "ValorDescuentooRecargo", "MontoDescuentooRecargoOtraMoneda",
   "IndicadorFacturacionDescuentooRecargo"}

\* The fields of a section, and the optional parts, of a CreateInvoiceDto.
CreateInvoiceDto(section) ==
  CASE section = "Emisor" -> EmitterOverrideDto
    [] section = "Comprador" -> BuyerDto
    [] section = "IdDoc" -> PaymentDto
    [] section = "InformacionesAdicionales" -> ExportInfoDto
    [] section = "Transporte" -> TransportInfoDto
    [] section = "Item" -> InvoiceItemDto
    [] section = "InformacionReferencia" -> ReferenceDto
    [] OTHER -> {}

DtoParts == {"InformacionesAdicionales", "Transporte", "ForeignBeneficiary"}

\* The same of an InvoiceInput.
InvoiceInput(section) ==
  CASE section = "Emisor" -> EmitterOverrideDto
    [] section = "Comprador" -> BuyerInput
    [] section = "IdDoc" -> PaymentInput
    [] section = "InformacionesAdicionales" -> ExportAdditionalInfoInput
    [] section = "Transporte" -> TransportInput
    [] section = "Totales" -> RetentionInput \cup Payable
    [] section = "Item" -> InvoiceItemInput
    [] section = "Retencion" -> ItemRetention
    [] section = "InformacionReferencia" -> ReferenceInput
    [] section = "Subtotal" -> SubtotalInformativoInput
    [] section = "DescuentoORecargo" -> DiscountSurchargeInput
    [] section = "Pagina" -> PaginacionInput
    [] OTHER -> {}

InputParts == DtoParts \cup {"Subtotales", "DescuentosORecargos", "Paginacion"}

-----------------------------------------------------------------------------
(* The API *)

\* The decorators of the DTO, and what forbidNonWhitelisted refuses.
PipeAccepts(a) ==
  /\ a.section \notin {"Subtotal", "DescuentoORecargo", "Pagina"}
  /\ a.fields \subseteq CreateInvoiceDto(a.section) /\ a.parts \subseteq DtoParts
  /\ a.type = 46 => {"InformacionesAdicionales", "Transporte"} \subseteq a.parts \cup {a.section}
  /\ a.type = 47 => "ForeignBeneficiary" \in a.parts
  /\ a.values.tipoPago \in 1 .. 3 /\ (a.reference => SoundReference(a.values))
  /\ \A i \in 1 .. Len(a.lines) :
       LET l == a.lines[i]
       IN l.price > 0 /\ l.tasa <= 100 /\ l.ref + l.sub + l.grados + l.pvp = 0 /\ ~l.granel

\* An override of the emitter is only for test environments.
EnvAccepts(a) == ~(a.prod /\ a.section = "Emisor" /\ a.fields # {})

\* The request without an optional object that it does not bring.
Input(a, given, raw, parts, lines, reference) ==
  [type |-> a.type, focus |-> a.section, given |-> given, parts |-> parts, raw |-> raw,
   lines |-> lines, rnc |-> a.rnc, reference |-> reference, currency |-> a.currency,
   values |-> a.values]

ApiInput(a) == Input(a, a.fields, {}, a.parts \cup {"TipoPago"}, a.lines, a.reference)

-----------------------------------------------------------------------------
(* The certification: the parser and the mappers *)

\* What mapBuyer, mapPayment and mapItem read; the country of the buyer is read from a
\* column of another name.
MapBuyer == BuyerInput \ {"PaisComprador"}
MapPayment == PaymentInput
MapItem == {"UnidadMedida", "FechaElaboracion", "FechaVencimientoItem", "DescripcionItem",
            "TablaSubDescuento", "TablaSubRecargo"}

\* The section of mapE31 before it was merged with that of mapBase.
MapAdditionalInfo_Override(t) ==
  CASE t = 31 -> {"PesoBruto", "PesoNeto"} \cup Shipment
    [] t = 46 -> Exports \cup Shipment
    [] OTHER -> Weights

\* mapAdditionalInfo, with what mapE31 adds to it and mapE46 puts in its place.
MapAdditionalInfo(t) ==
  CASE t = 31 -> Weights \cup Shipment
    [] t = 46 -> Exports \cup Shipment
    [] OTHER -> Weights

MapTransport(t) == IF t = 31 THEN CommonTransport ELSE IF t = 46 THEN TransportInput ELSE {}
MapReference(t) == IF t \in {33, 34} THEN ReferenceInput ELSE {}
MapEmitter == EmitterOverrideDto

\* The columns that the mapper of type t reads for a section.
Mapped(t, section) ==
  CASE section = "Emisor" -> MapEmitter
    [] section = "Comprador" -> MapBuyer
    [] section = "IdDoc" -> MapPayment
    [] section = "InformacionesAdicionales" -> MapAdditionalInfo(t)
    [] section = "Transporte" -> MapTransport(t)
    [] section = "Totales" -> Payable
    [] section = "Item" -> MapItem
    [] section = "Retencion" -> ItemRetention
    [] section = "InformacionReferencia" -> MapReference(t)
    [] OTHER -> {}

\* mapE46 sends its transport even when it is empty, the others no empty object.
HasSection(a, given) ==
  CASE a.section = "Transporte" -> given # {} \/ a.type = 46
    [] a.section = "InformacionReferencia" -> a.type \in {33, 34}
    [] OTHER -> TRUE

\* The mapper of the type of the row: no line has a tax code, and totals are copied.
MapRow(a) ==
  LET given == a.fields \cap Mapped(a.type, a.section)
      raw == IF a.section = "Totales" THEN a.fields \cap TotalsRawText ELSE {}
      parts == (IF a.type = 46 THEN {"Transporte"} ELSE {})
               \cup (IF a.section = "IdDoc" THEN {} ELSE {"TipoPago"})
      lines == [i \in 1 .. Len(a.lines) |->
                  [a.lines[i] EXCEPT !.code = 0, !.sub = 0, !.granel = FALSE]]
      input == Input(a, given, raw, parts, lines, a.reference /\ a.type \in {33, 34})
  IN IF HasSection(a, given) THEN input ELSE [input EXCEPT !.focus = "Encabezado", !.given = {}]

-----------------------------------------------------------------------------
(* What happens to what is asked *)

RequestsInit == DocumentInit /\ asked = NothingAsked

\* The pipe or the service answers 400 or 403 before anything is stored.
Refuse ==
  stage' = "refused" /\ UNCHANGED <<request, document, lineItbis>>

\* POST /invoices.
PostInvoice ==
  /\ stage = "none"
  /\ \E batch \in Asked : \E a \in batch :
       /\ a.from = "api" /\ asked' = a
       /\ \/ PipeAccepts(a) /\ EnvAccepts(a) /\ CreateDocument(ApiInput(a))
          \/ PipeAccepts(a) /\ EnvAccepts(a) /\ RefuseDocument(ApiInput(a))
          \/ ~(PipeAccepts(a) /\ EnvAccepts(a)) /\ Refuse

\* A row of uploadAndProcess: the mapped object goes to the service, past the pipe.
ImportRow ==
  /\ stage = "none"
  /\ \E batch \in Asked : \E a \in batch :
       a.from = "row" /\ asked' = a /\ (CreateDocument(MapRow(a)) \/ RefuseDocument(MapRow(a)))

\* A caller of the builder inside the program.
CallBuilder ==
  /\ stage = "none"
  /\ \E batch \in Asked : \E a \in batch :
       LET input == Input(a, a.fields, {}, a.parts \cup {"TipoPago"}, a.lines, a.reference)
       IN /\ a.from = "code" /\ a.fields \subseteq InvoiceInput(a.section) /\ a.parts \subseteq InputParts
          /\ asked' = a /\ (CreateDocument(input) \/ RefuseDocument(input))

RequestsNext ==
  \/ PostInvoice
  \/ ImportRow
  \/ CallBuilder
  \/ SignDocument /\ UNCHANGED asked
  \/ ValidateDocument /\ UNCHANGED asked

RequestsSpec == RequestsInit /\ [][RequestsNext]_requestVars

-----------------------------------------------------------------------------
(* Properties *)

\* The sections that nothing between the caller and the document keeps within the schema of
\* these types.  An export with common and export transport is out of order, even as a row.
Unguarded(from, section) ==
  IF from = "row" THEN IF section = "Transporte" THEN {46} ELSE {}
  ELSE CASE section = "Encabezado" -> {41, 43, 47}
       [] section = "ECF" -> {43, 47}
       [] section = "Emisor" -> {41, 43, 47}
       [] section \in {"InformacionesAdicionales", "Transporte"} -> {41, 43, 46, 47}
       [] section = "OtraMoneda" -> {41, 43, 44, 46}
       [] section = "ImpuestoAdicional" -> {44}
       [] section = "Item" -> {43, 47}
       [] section \in {"Subtotal", "Pagina", "DescuentoORecargo"} -> {41, 43, 44, 46, 47}
       [] OTHER -> {}

\* "Builds DGII-compliant XML": whatever is asked, every section of the signed document is
\* in the order of its schema, has no element that the schema of the type lacks and all
\* that it requires, but for the sections of Unguarded.
SchemaKept ==
  stage = "signed" =>
    \A s \in Sections : \A e \in document.sections[s] :
      Fits(s, request.type, e) \/ request.type \in Unguarded(asked.from, s)

\* The fields that the schema of the type has a place for: a foreign identifier for a buyer
\* without RNC, amounts of a retention with its indicator, references of a tax with its code.
Wanted(a) ==
  LET parent == IF a.section = "Retencion" THEN "Item" ELSE "Encabezado"
      Unless(condition, elements) == IF condition THEN {} ELSE elements
  IN IF a.section \in ForType(SectionSchema[parent].lacks, a.type) THEN {}
     ELSE a.fields
          \ (ForType(SectionSchema[a.section].lacks, a.type)
             \cup Unless(~a.rnc, {"IdentificadorExtranjero"})
             \cup Unless("IndicadorAgenteRetencionoPercepcion" \in a.fields, ItemRetention)
             \cup Unless(\E i \in 1 .. Len(a.lines) : a.lines[i].code # 0, IscReferences))

\* What does not get there: the buyer of a consumer invoice without RNC but for its name, that
\* of a foreign payment, and the columns that the mapper of the type of a row does not read.
Lost(a) ==
  CASE a.section = "Comprador" /\ ~a.rnc /\ a.type = 32 -> BuyerDto
    [] a.section = "Comprador" /\ ~a.rnc /\ a.type = 47 -> {"IdentificadorExtranjero"}
    [] a.section = "Comprador" /\ (a.rnc \/ a.type \notin {32, 47}) /\ a.from = "row" -> {"PaisComprador"}
    [] a.section = "InformacionesAdicionales" /\ a.from = "row" ->
         IF a.type = 31 THEN {} ELSE IF a.type = 46 THEN Weights ELSE Shipment
    [] a.section = "Transporte" /\ a.from = "row" /\ a.type \notin {31, 46} ->
         CommonTransport \cup {"PaisDestino"}
    [] a.section = "Item" /\ a.from = "row" -> IscReferences \cup {"TablaCodigosItem"}
    [] a.section = "InformacionReferencia" /\ a.from = "row" /\ a.type \notin RequiresReference ->
         ReferenceInput
    [] OTHER -> {}

\* Whatever the caller gives and the schema has a place for is in the document: no step
\* between them drops it, but for what Lost names.
NothingLost ==
  stage = "signed" =>
    LET found == UNION {ToSet(e) : e \in document.sections[asked.section]}
    IN Wanted(asked) \ found \subseteq Lost(asked)

-----------------------------------------------------------------------------
(* What the comments promise and the code does not give *)

\* "Código impuesto adicional (001-039 ISC/otros)": an API request with a tax code of
\* alcohol or cigarettes is accepted.
TaxCodesAccepted ==
  (stage = "refused" /\ asked.from = "api") =>
    \A i \in 1 .. Len(asked.lines) : asked.lines[i].code \in {0} \cup Otros

\* A row within the schema of its type is imported.
RowsAccepted == asked.from = "row" => stage # "refused"

\* "to satisfy the e-CF-46.xsd element order": the document of an export is valid.
ExportsFit == (stage = "signed" /\ request.type = 46 /\ asked.from = "row") => Valid(46, document)
=============================================================================
