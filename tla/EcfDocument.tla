------------------------------ MODULE EcfDocument ------------------------------
(***************************************************************************)
(* The document of an invoice: XmlBuilderService builds it in the          *)
(* transaction that stores the invoice and its lines, SigningService       *)
(* completes it, and XsdValidationService decides whether it may be sent.  *)
(*                                                                         *)
(* A request names a type, a section whose optional fields it gives, the   *)
(* other optional parts it has, and its lines; a field has the name of the *)
(* element it becomes.  A section of the document is the sequence of its   *)
(* elements, the totals also with their amounts.  Amounts are cents and    *)
(* tax rates hundredths; the floats of the code are rounded to cents where *)
(* the code rounds them.                                                   *)
(***************************************************************************)
EXTENDS EcfSchema

NotGiven == 5

\* An item, already past the DTO; ref, sub, grados and pvp are 0 when not given.
Line == [qty : Nat \ {0}, price : Nat, discount : Nat, surcharge : Nat,
         fact : 0 .. NotGiven, rate : {18, 16, 0}, code : 0 .. 39, tasa : Nat,
         ref : Nat, sub : Nat, grados : Nat, pvp : Nat, granel : BOOLEAN]

\* The values that the builder checks: TipoPago, the series of the NCF that is modified,
\* CodigoModificacion, and whether the places are in the catalogue of DGII.
Values == [tipoPago : 0 .. 4, ncf : {"E", "B", "A", "P", "other"}, modificacion : 0 .. 6,
           place : {"listed", "unlisted"}]
NoValues == [tipoPago |-> 1, ncf |-> "E", modificacion |-> 1, place |-> "listed"]

VARIABLES
  request,   \* the InvoiceInput
  document,  \* the sections of its XML
  lineItbis, \* the ITBIS of the stored InvoiceLines, added up
  stage      \* what became of it

documentVars == <<request, document, lineItbis, stage>>

NoRequest == [type |-> 0, focus |-> "ECF", given |-> {}, parts |-> {}, raw |-> {},
              lines |-> << >>, rnc |-> FALSE, reference |-> FALSE, currency |-> FALSE,
              values |-> NoValues]
NoDocument == [sections |-> [s \in Sections |-> {}], totales |-> << >>]

-----------------------------------------------------------------------------
(* Amounts *)

\* round2: to the nearest cent, halves up.
Rounded(n, d) == (2 * n + d) \div (2 * d)

Sum(lines, Amount(_)) == SumFunction([i \in DOMAIN lines |-> Amount(lines[i])])

Subtotal(l) == l.qty * l.price - l.discount + l.surcharge

\* resolveIndicadorFacturacion: 0 no facturable, 1 at 18%, 2 at 16%, 3 at 0%, 4 exempt.
Indicador(l) ==
  IF l.fact # NotGiven THEN l.fact
  ELSE IF l.rate = 16 THEN 2 ELSE IF l.rate = 0 THEN 3 ELSE 1

EffectiveRate(l) == IF Indicador(l) = 1 THEN 18 ELSE IF Indicador(l) = 2 THEN 16 ELSE 0

LineItbis(l) == Rounded(Subtotal(l) * EffectiveRate(l), 100)

\* What the DB kept before the ITBIS of a line had one definition.
LineItbis_ByRate(l) == Rounded(Subtotal(l) * l.rate, 100)

StoredItbis(l) == LineItbis(l)

OrOne(n) == IF n = 0 THEN 1 ELSE n

Otros == 1 .. 5
EspecificoAlcohol == 6 .. 18
EspecificoCigarrillo == 19 .. 22
AdvaloremAlcohol == 23 .. 35
AdvaloremCigarrillo == 36 .. 39

IscEspecificoAlcohol(l) == Rounded(l.tasa * l.grados * OrOne(l.ref) * OrOne(l.sub) * l.qty, 100)

PrecioSinItbis(l) == Rounded(l.pvp * 100, 100 + l.rate)
Advalorem(l, base) ==
  Rounded(Rounded(base * 100, 100 + l.tasa) * l.tasa, 100) * OrOne(l.ref) * l.qty

IscAdvalorem(l) ==
  IF l.code \in AdvaloremCigarrillo THEN Advalorem(l, PrecioSinItbis(l) - l.tasa)
  ELSE IF l.granel THEN Rounded(l.price * 130 * l.tasa * l.qty, 10000)
  ELSE Advalorem(l, PrecioSinItbis(l) - Rounded(IscEspecificoAlcohol(l), OrOne(l.ref) * l.qty))

Especifico(l) ==
  IF l.code \in EspecificoAlcohol THEN IscEspecificoAlcohol(l)
  ELSE IF l.code \in EspecificoCigarrillo THEN l.qty * OrOne(l.ref) * l.tasa ELSE 0

AdvaloremTax(l) == IF l.code \in AdvaloremAlcohol \cup AdvaloremCigarrillo THEN IscAdvalorem(l) ELSE 0

OtrosImpuestos(l, incluido) ==
  IF l.code \notin Otros THEN 0
  ELSE IF incluido THEN Rounded(Subtotal(l) * l.tasa, 100 + l.rate)
  ELSE Rounded(Subtotal(l) * l.tasa, 100)

\* The groups of lines that MontoTotal adds up: the lines that are not billed, too.
InTotal_Billed == 1 .. 4
InTotal == 0 .. 4

\* calculateTotals.
Totals(lines, incluido) ==
  LET Of(i) == Sum(lines, LAMBDA l : IF Indicador(l) = i THEN Subtotal(l) ELSE 0)
      all == Sum(lines, LAMBDA l : IF Indicador(l) \in InTotal THEN Subtotal(l) ELSE 0)
      Itbis(i) == Sum(lines, LAMBDA l : IF Indicador(l) = i THEN LineItbis(l) ELSE 0)
      adicional == Sum(lines, LAMBDA l : Especifico(l) + AdvaloremTax(l) + OtrosImpuestos(l, incluido))
  IN [g18 |-> Of(1), g16 |-> Of(2), g0 |-> Of(3), exempt |-> Of(4), noFacturable |-> Of(0),
      i18 |-> Itbis(1), i16 |-> Itbis(2), adicional |-> adicional,
      subtotal |-> Of(1) + Of(2) + Of(3) + Of(4),
      total |-> all + Itbis(1) + Itbis(2) + adicional]

-----------------------------------------------------------------------------
(* The sections of the document *)

If(condition, elements) == IF condition THEN elements ELSE << >>

\* The optional fields that are given, in the order in which the builder asks for them.
Given(g, elements) == SelectSeq(elements, LAMBDA e : e \in g)

\* The elements, of pairs of element and amount, whose amount is positive.
Positive(pairs) == SelectSeq(pairs, LAMBDA p : p[2] > 0)

\* The forms of payment, at least one of them, and the account.
Pago(t, g) ==
  If(t \notin {34, 43},
     <<"TablaFormasPago">> \o Given(g, <<"TipoCuentaPago", "NumeroCuentaPago", "BancoPago">>))

IdDoc(t, g) ==
  <<"TipoeCF", "eNCF">>
  \o If(t \notin {32, 34}, <<"FechaVencimientoSecuencia">>)
  \o If(t = 34, <<"IndicadorNotaCredito">>)
  \o If(t \notin {41, 43, 47}, Given(g, <<"IndicadorEnvioDiferido">>))
  \o If(t \notin {43, 44, 46, 47}, Given(g, <<"IndicadorMontoGravado">>))
  \o If(t \notin {41, 43, 47} /\ ("TipoIngresos" \in g \/ t \notin {33, 34}), <<"TipoIngresos">>)
  \o If(t \notin {43, 47} \/ "TipoPago" \in g, <<"TipoPago">>)
  \o If(t # 43, Given(g, <<"FechaLimitePago">>))
  \o If(t \notin {34, 43}, Given(g, <<"TerminoPago">>))
  \o Pago(t, g)

Emisor(g) ==
  <<"RNCEmisor", "RazonSocialEmisor">>
  \o Given(g, <<"NombreComercial", "Sucursal">>)
  \o <<"DireccionEmisor">>
  \o Given(g, <<"Municipio", "Provincia", "TablaTelefonoEmisor", "CorreoEmisor", "WebSite",
                "ActividadEconomica", "CodigoVendedor", "NumeroFacturaInterna",
                "NumeroPedidoInterno", "ZonaVenta", "RutaVenta", "InformacionAdicionalEmisor">>)
  \o <<"FechaEmision">>

RequiresBuyerRnc == {31, 41, 45}

\* The section is left out for type 43, and for type 47 when no RNC is given.
HasComprador(t, rnc) == t # 43 /\ (t # 47 \/ rnc)

Comprador(t, rnc, g) ==
  IF ~rnc /\ t = 32
  THEN Given(g, <<"IdentificadorExtranjero">>) \o <<"RazonSocialComprador">>
  ELSE IF t = 47 THEN <<"IdentificadorExtranjero", "RazonSocialComprador">>
  ELSE If(rnc, <<"RNCComprador">>)
       \o If(~rnc, Given(g, <<"IdentificadorExtranjero">>))
       \o <<"RazonSocialComprador">>
       \o Given(g, <<"ContactoComprador", "CorreoComprador", "DireccionComprador",
                     "MunicipioComprador", "ProvinciaComprador">>)
       \o If(t = 46, Given(g, <<"PaisComprador">>))
       \o If(t # 41, Given(g, <<"FechaEntrega", "ContactoEntrega", "DireccionEntrega",
                                "TelefonoAdicional", "FechaOrdenCompra", "NumeroOrdenCompra">>))
       \o Given(g, <<"CodigoInternoComprador", "ResponsablePago", "InformacionAdicionalComprador">>)

\* What remains to be paid is emitted for whoever gives it; retentions only for the types
\* that have them, or copied.
PayableAndRetained(t, g, raw) ==
  LET retains == t \in {31, 33, 34, 41}
      Payable(e) == If(e \in g, <<<<e, 0>>>>)
      Retained(e, has) == If(e \in raw \/ (has /\ e \in g), <<<<e, 0>>>>)
  IN Payable("MontoPeriodo") \o Payable("ValorPagar")
     \o Retained("TotalITBISRetenido", retains) \o Retained("TotalISRRetencion", retains \/ t = 47)
     \o Retained("TotalITBISPercepcion", retains) \o Retained("TotalISRPercepcion", retains)

\* buildTotales: elements with their amounts; those of raw are copied from the request.
Totales(t, totals, taxed, g, raw) ==
  LET gravado == totals.g18 + totals.g16 + totals.g0
      itbis == totals.i18 + totals.i16
      byRate == t \notin {43, 44, 46, 47}
      adds == t \notin {41, 43, 46, 47}
      Copied(e) == If(e \in raw, <<<<e, 0>>>>)
      Total(e, has, amount) ==
        IF e \in raw THEN Copied(e) ELSE If(has /\ amount > 0, <<<<e, amount>>>>)
  IN Total("MontoGravadoTotal", t \notin {43, 44, 47}, gravado)
     \o Total("MontoGravadoI1", byRate, totals.g18) \o Total("MontoGravadoI2", byRate, totals.g16)
     \o Total("MontoGravadoI3", byRate, totals.g0)
     \o Total("MontoExento", t # 46, totals.exempt)
     \o Total("ITBIS1", byRate, totals.i18) \o Total("ITBIS2", byRate, totals.i16) \o Copied("ITBIS3")
     \o Total("TotalITBIS", t \notin {43, 44, 47}, itbis)
     \o Total("TotalITBIS1", byRate, totals.i18) \o Total("TotalITBIS2", byRate, totals.i16)
     \o Copied("TotalITBIS3")
     \o Total("MontoImpuestoAdicional", adds, totals.adicional)
     \o If(adds /\ taxed, <<<<"ImpuestosAdicionales", 0>>>>)
     \o (IF "MontoTotal" \in raw THEN Copied("MontoTotal") ELSE <<<<"MontoTotal", totals.total>>>>)
     \o Total("MontoNoFacturable", t \notin {41, 43, 47}, totals.noFacturable)
     \o PayableAndRetained(t, g, raw)

Elements(pairs) == [i \in 1 .. Len(pairs) |-> pairs[i][1]]

\* One entry of ImpuestosAdicionales for each tax code of the lines.
Codes(lines) == {lines[i].code : i \in 1 .. Len(lines)} \ {0}

ImpuestoAdicional(t, lines, c, incluido) ==
  LET OfCode(Amount(_)) == Sum(lines, LAMBDA l : IF l.code = c THEN Amount(l) ELSE 0)
  IN <<"TipoImpuesto", "TasaImpuestoAdicional">>
     \o If(t # 44, Elements(Positive(
            <<<<"MontoImpuestoSelectivoConsumoEspecifico", OfCode(Especifico)>>,
              <<"MontoImpuestoSelectivoConsumoAdvalorem", OfCode(AdvaloremTax)>>>>)))
     \o Elements(Positive(<<<<"OtrosImpuestosAdicionales",
                              OfCode(LAMBDA l : OtrosImpuestos(l, incluido))>>>>))

\* buildOtraMoneda: only type 47 has elements of its own.
OtraMoneda(t, totals, taxed) ==
  LET gravado == totals.g18 + totals.g16 + totals.g0
      itbis == totals.i18 + totals.i16
      exempt == Elements(Positive(<<<<"MontoExentoOtraMoneda", totals.exempt>>>>))
  IN <<"TipoMoneda", "TipoCambio">>
     \o IF t = 47 THEN exempt \o <<"MontoTotalOtraMoneda">>
        ELSE <<"MontoGravadoTotalOtraMoneda">>
             \o Elements(Positive(<<<<"MontoGravado1OtraMoneda", totals.g18>>,
                  <<"MontoGravado2OtraMoneda", totals.g16>>, <<"MontoGravado3OtraMoneda", totals.g0>>>>))
             \o exempt
             \o Elements(Positive(<<<<"TotalITBISOtraMoneda", itbis>>,
                  <<"TotalITBIS1OtraMoneda", totals.i18>>, <<"TotalITBIS2OtraMoneda", totals.i16>>,
                  <<"MontoImpuestoAdicionalOtraMoneda", totals.adicional>>>>))
             \o If(taxed, <<"ImpuestosAdicionalesOtraMoneda">>)
             \o <<"MontoTotalOtraMoneda">>

InformacionesAdicionales(t, g) ==
  Given(g, <<"FechaEmbarque", "NumeroEmbarque", "NumeroContenedor", "NumeroReferencia", "PesoBruto",
            "PesoNeto", "UnidadPesoBruto", "UnidadPesoNeto", "CantidadBulto", "UnidadBulto",
            "VolumenBulto", "UnidadVolumen">>)
  \o If(t = 46, Given(g, <<"NombrePuertoEmbarque", "CondicionesEntrega", "TotalFob", "Seguro", "Flete",
            "OtrosGastos", "TotalCif", "RegimenAduanero", "NombrePuertoSalida",
            "NombrePuertoDesembarque">>))

Transporte(t, g) ==
  IF t = 47 THEN Given(g, <<"PaisDestino">>)
  ELSE Given(g, <<"Conductor", "DocumentoTransporte", "Ficha", "Placa", "RutaTransporte",
                 "ZonaTransporte", "NumeroAlbaran">>)
       \o If(t = 46, Given(g, <<"ViaTransporte", "PaisOrigen", "DireccionDestino", "PaisDestino",
                 "RNCIdentificacionCompaniaTransportista", "NombreCompaniaTransportista",
                 "NumeroViaje">>))

\* An item has the retention that its request gives, whatever the type.
Retains_Given(t, g) == t \in {41, 47} \/ "IndicadorAgenteRetencionoPercepcion" \in g

\* The types whose items may carry retentions, and those that must.
Retains(t, g) ==
  t \in {41, 47} \/ (t \in {31, 33, 34} /\ "IndicadorAgenteRetencionoPercepcion" \in g)

Retencion(t, g) ==
  <<"IndicadorAgenteRetencionoPercepcion">>
  \o If(t # 47, Given(g, <<"MontoITBISRetenido">>))
  \o If(t = 47 \/ "MontoISRRetenido" \in g, <<"MontoISRRetenido">>)

\* The end of an item: its surcharges, its tax codes, its prices in the other currency.
Charged(t, l, currency, g) ==
  If(t # 47, If(l.surcharge > 0, <<"RecargoMonto">>) \o Given(g, <<"TablaSubRecargo">>))
  \o If(t \in {31, 32, 33, 34, 44, 45} /\ l.code # 0, <<"TablaImpuestoAdicional">>)
  \o If(currency, <<"OtraMonedaDetalle">>)
  \o <<"MontoItem">>

\* The prices of the item in the other currency, each only if it has one in pesos.
OtraMonedaDetalle(l) ==
  <<"PrecioOtraMoneda">> \o If(l.discount > 0, <<"DescuentoOtraMoneda">>)
  \o If(l.surcharge > 0, <<"RecargoOtraMoneda">>) \o <<"MontoItemOtraMoneda">>

Item(t, l, currency, g) ==
  <<"NumeroLinea">> \o Given(g, <<"TablaCodigosItem">>) \o <<"IndicadorFacturacion">>
  \o If(Retains(t, g), <<"Retencion">>)
  \o <<"NombreItem", "IndicadorBienoServicio">> \o Given(g, <<"DescripcionItem">>)
  \o <<"CantidadItem">> \o Given(g, <<"UnidadMedida">>)
  \o If(t \in {31, 32, 33, 34, 45} /\ l.code # 0,
        Given(g, <<"CantidadReferencia", "TablaSubcantidad", "GradosAlcohol", "PrecioUnitarioReferencia">>))
  \o Given(g, <<"FechaElaboracion", "FechaVencimientoItem">>)
  \o <<"PrecioUnitarioItem">>
  \o If(t # 47, If(l.discount > 0, <<"DescuentoMonto">>) \o Given(g, <<"TablaSubDescuento">>))
  \o Charged(t, l, currency, g)

DescuentoORecargo(g) ==
  <<"NumeroLinea", "TipoAjuste">> \o Given(g, <<"IndicadorNorma1007">>)
  \o <<"DescripcionDescuentooRecargo">> \o Given(g, <<"TipoValor", "ValorDescuentooRecargo">>)
  \o <<"MontoDescuentooRecargo">>
  \o Given(g, <<"MontoDescuentooRecargoOtraMoneda", "IndicadorFacturacionDescuentooRecargo">>)

SubtotalInformativo(g) ==
  <<"NumeroSubTotal", "DescripcionSubtotal">>
  \o If(g \cap {"SubTotalMontoGravadoI1", "SubTotalMontoGravadoI2", "SubTotalMontoGravadoI3"} # {},
        <<"SubTotalMontoGravadoTotal">>)
  \o Given(g, <<"SubTotalMontoGravadoI1", "SubTotalMontoGravadoI2", "SubTotalMontoGravadoI3",
                "SubTotaITBIS", "SubTotaITBIS1", "SubTotaITBIS2", "SubTotaITBIS3",
                "SubTotalImpuestoAdicional", "SubTotalExento">>)
  \o <<"MontoSubTotal">>

Pagina(g) ==
  <<"PaginaNo", "NoLineaDesde", "NoLineaHasta">>
  \o Given(g, <<"SubtotalMontoGravadoPagina", "SubtotalMontoGravado1Pagina",
                "SubtotalMontoGravado2Pagina", "SubtotalMontoGravado3Pagina", "SubtotalExentoPagina",
                "SubtotalItbisPagina", "SubtotalItbis1Pagina", "SubtotalItbis2Pagina",
                "SubtotalItbis3Pagina", "SubtotalImpuestoAdicionalPagina",
                "SubtotalImpuestoAdicional">>)
  \o <<"MontoSubtotalPagina">> \o Given(g, <<"SubtotalMontoNoFacturablePagina">>)

RequiresReference == {33, 34}

InformacionReferencia(t, g) ==
  <<"NCFModificado">> \o Given(g, <<"RNCOtroContribuyente">>)
  \o <<"FechaNCFModificado", "CodigoModificacion">>
  \o If(t \in RequiresReference, Given(g, <<"RazonModificacion">>))

-----------------------------------------------------------------------------
(* The document *)

\* What the request gives for a section, and whether it asks for an optional part.
Fields(r, section) == IF r.focus = section THEN r.given ELSE {}
Asks(r, part, section) == r.focus = section \/ part \in r.parts
Incluido(r) == "IndicadorMontoGravado" \in Fields(r, "IdDoc")

Encabezado(r) ==
  LET informacion == InformacionesAdicionales(r.type, Fields(r, "InformacionesAdicionales"))
      transporte == Transporte(r.type, Fields(r, "Transporte"))
  IN <<"Version", "IdDoc", "Emisor">>
     \o If(HasComprador(r.type, r.rnc), <<"Comprador">>)
     \o If(IF r.focus = "InformacionesAdicionales" THEN informacion # << >>
           ELSE "InformacionesAdicionales" \in r.parts, <<"InformacionesAdicionales">>)
     \o If(IF r.focus = "Transporte" THEN r.type # 47 \/ transporte # << >>
           ELSE "Transporte" \in r.parts, <<"Transporte">>)
     \o <<"Totales">> \o If(r.currency, <<"OtraMoneda">>)

ECF(r) ==
  <<"Encabezado", "DetallesItems">>
  \o If(Asks(r, "Subtotales", "Subtotal"), <<"Subtotales">>)
  \o If(Asks(r, "DescuentosORecargos", "DescuentoORecargo"), <<"DescuentosORecargos">>)
  \o If(Asks(r, "Paginacion", "Pagina"), <<"Paginacion">>)
  \o If(r.reference, <<"InformacionReferencia">>)

\* buildEcfXml: every section with its occurrences, and the amounts of Totales.
Build(r) ==
  LET t == r.type
      totals == Totals(r.lines, Incluido(r))
      codes == Codes(r.lines)
      totales == Totales(t, totals, codes # {}, Fields(r, "Totales"), r.raw)
      If2(condition, set) == IF condition THEN set ELSE {}
  IN [totales |-> totales,
      sections |->
       [Encabezado |-> {Encabezado(r)}, ECF |-> {ECF(r)},
        IdDoc |-> {IdDoc(t, Fields(r, "IdDoc") \cup (r.parts \cap {"TipoPago"}))}, Emisor |-> {Emisor(Fields(r, "Emisor"))},
        Comprador |-> If2(HasComprador(t, r.rnc), {Comprador(t, r.rnc, Fields(r, "Comprador"))}),
        InformacionesAdicionales |->
          If2(r.focus = "InformacionesAdicionales",
              {InformacionesAdicionales(t, Fields(r, "InformacionesAdicionales"))}),
        Transporte |-> If2(r.focus = "Transporte", {Transporte(t, Fields(r, "Transporte"))}),
        Totales |-> {Elements(totales)},
        ImpuestoAdicional |->
          If2(t \notin {41, 43, 46, 47}, {ImpuestoAdicional(t, r.lines, c, Incluido(r)) : c \in codes}),
        OtraMoneda |-> If2(r.currency, {OtraMoneda(t, totals, codes # {})}),
        Item |-> {Item(t, r.lines[i], r.currency, Fields(r, "Item") \cup Fields(r, "Retencion")) :
                    i \in 1 .. Len(r.lines)},
        OtraMonedaDetalle |->
          If2(r.currency, {OtraMonedaDetalle(r.lines[i]) : i \in 1 .. Len(r.lines)}),
        Retencion |-> If2(Retains(t, Fields(r, "Retencion")), {Retencion(t, Fields(r, "Retencion"))}),
        Subtotal |-> If2(r.focus = "Subtotal", {SubtotalInformativo(Fields(r, "Subtotal"))}),
        DescuentoORecargo |->
          If2(r.focus = "DescuentoORecargo", {DescuentoORecargo(Fields(r, "DescuentoORecargo"))}),
        Pagina |-> If2(r.focus = "Pagina", {Pagina(Fields(r, "Pagina"))}),
        InformacionReferencia |->
          If2(r.reference, {InformacionReferencia(t, Fields(r, "InformacionReferencia"))})]]

\* The elements that signing adds.
Signed(doc) == [doc EXCEPT !.sections.ECF = {e \o <<"FechaHoraFirma", "Signature">> : e \in @}]

Valid(t, doc) == \A s \in Sections : \A e \in doc.sections[s] : Fits(s, t, e)

-----------------------------------------------------------------------------
(* What happens to a request *)

\* validateIscFields.
HasIscFields(l) ==
  /\ l.code \in EspecificoAlcohol => l.grados > 0 /\ l.ref > 0 /\ l.sub > 0
  /\ l.code \in AdvaloremAlcohol \cup AdvaloremCigarrillo => l.pvp > 0
  /\ l.code \in EspecificoCigarrillo => l.ref > 0

\* validateCuadratura: the lines against the header, a peso of tolerance per line.
Squares(r) ==
  Sum(r.lines, Subtotal) - Totals(r.lines, Incluido(r)).subtotal <= 100 * Len(r.lines)

\* validatePayment: in cash, on credit or for free.
SoundPayment(v) == v.tipoPago \in 1 .. 3

\* isValidNcfModificado: the series whose numbers a document may modify.
NcfModificado == {"E", "B", "A", "P"}

\* validateReference: the content of a reference, whatever the type.
SoundReference(v) == v.ncf \in NcfModificado /\ v.modificacion \in 1 .. 5

\* The places that the document names, which must be in DGII's catalogue.
Places(r) ==
  LET g == r.given \cap {"Municipio", "Provincia", "MunicipioComprador", "ProvinciaComprador"}
      written == UNION {ToSet(e) : e \in Build(r).sections.Emisor \cup Build(r).sections.Comprador}
  IN g \cap written

\* The refusals of InvoicesService.create, validateInvoiceInput and the builder.
Accepts(r) ==
  /\ r.type \in RequiresBuyerRnc => r.rnc
  /\ SoundPayment(r.values)
  /\ r.type \in RequiresReference => r.reference
  /\ r.reference => SoundReference(r.values)
  /\ r.values.place = "unlisted" => Places(r) = {}
  /\ "FechaLimitePago" \in r.given => "TerminoPago" \in r.given
  /\ \A i \in 1 .. Len(r.lines) :
       r.lines[i].discount <= r.lines[i].qty * r.lines[i].price /\ HasIscFields(r.lines[i])
  /\ Squares(r)

DocumentInit ==
  request = NoRequest /\ document = NoDocument /\ lineItbis = 0 /\ stage = "none"

\* InvoicesService.create: the invoice, its XML and its lines in one transaction.
CreateDocument(r) ==
  /\ stage = "none" /\ Accepts(r)
  /\ request' = r /\ document' = Build(r)
  /\ lineItbis' = Sum(r.lines, StoredItbis)
  /\ stage' = "queued"

RefuseDocument(r) ==
  /\ stage = "none" /\ ~Accepts(r)
  /\ request' = r /\ stage' = "refused" /\ UNCHANGED <<document, lineItbis>>

SignDocument ==
  /\ stage = "queued"
  /\ document' = Signed(document) /\ stage' = "signed" /\ UNCHANGED <<request, lineItbis>>

\* onModuleInit: what it finds installed, xmllint and the schemas.
Installation == [xmllint : BOOLEAN, schemas : {{}, EcfTypes} \cup {EcfTypes \ {t} : t \in EcfTypes}]
IsAvailable(i) == i.xmllint /\ i.schemas # {}

\* validateXml; xmllint may also fail or exceed its ten seconds.
XsdVerdicts(i, t, doc) ==
  IF ~i.xmllint THEN {FALSE}
  ELSE IF t \notin i.schemas THEN {TRUE}
  ELSE {FALSE, Valid(t, doc)}

\* The processor does not ask when nothing is installed.
ValidateDocument ==
  /\ stage = "signed"
  /\ \E i \in Installation :
       stage' \in IF ~IsAvailable(i) THEN {"sent unchecked"}
                 ELSE {IF ~valid THEN "ERROR"
                       ELSE IF request.type \in i.schemas THEN "sent" ELSE "sent unchecked" :
                         valid \in XsdVerdicts(i, request.type, document)}
  /\ UNCHANGED <<request, document, lineItbis>>

-----------------------------------------------------------------------------
(* Properties *)

\* The amounts that pairs of element and amount say of one, and what the header says.
Amounts(pairs, element) == {p[2] : p \in {q \in ToSet(pairs) : q[1] = element}}

Declared(element) ==
  LET amounts == Amounts(document.totales, element)
  IN IF amounts = {} THEN 0 ELSE CHOOSE a \in amounts : TRUE

\* The types whose header has a place for every amount that a line may have.
FullHeader == {31, 32, 33, 34, 45}

\* The header has a place for what the additional taxes add up to, but not for less than
\* nothing: an ad valorem tax is negative when the specific one exceeds the price of the
\* public.
DeclaresTaxes(r) == r.raw = {} /\ Totals(r.lines, Incluido(r)).adicional >= 0

\* MontoTotal is the sum of the amounts that the header declares, unless the request
\* brings totals of its own.
HeaderBalances ==
  (stage = "queued" /\ request.type \in FullHeader /\ DeclaresTaxes(request)) =>
    Declared("MontoTotal") =
      Declared("MontoGravadoTotal") + Declared("MontoExento") + Declared("TotalITBIS")
      + Declared("MontoImpuestoAdicional") + Declared("MontoNoFacturable")

-----------------------------------------------------------------------------
(* What the comments promise and the code does not give *)

\* "do NOT silently pass when validation tool is unavailable".
NeverSentUnchecked == stage # "sent unchecked"

\* For every type, "the ITBIS stored in the DB can NEVER diverge from the
\* ITBIS declared to DGII in the e-CF".
StoredItbisNeverDiverges == (stage = "queued" /\ request.raw = {}) => lineItbis = Declared("TotalITBIS")

\* "Builds DGII-compliant XML for all 10 types of e-CF": every type.
AlwaysCompliant == stage = "signed" => Valid(request.type, document)

\* A buyer that is only known by a foreign identifier is in the document.
ForeignBuyerKept ==
  (stage = "queued" /\ request.focus = "Comprador" /\ "IdentificadorExtranjero" \in request.given) =>
    (request.rnc \/ request.type = 43
     \/ \E e \in document.sections.Comprador : "IdentificadorExtranjero" \in ToSet(e))

\* The header squares with the lines of every request that is otherwise well formed.
BillsNoFacturable == stage = "refused" => Squares(request)
=============================================================================
