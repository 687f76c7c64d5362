------------------------------- MODULE EcfSchema -------------------------------
(***************************************************************************)
(* The official schemas of the ten types of e-CF (src/xsd/e-CF-31.xsd to   *)
(* e-CF-47.xsd), one table per sequence of elements: the order, which the  *)
(* ten schemas share, the elements that the schemas of some types do not   *)
(* have, and those that the schemas of some types require.  An element is  *)
(* its name; what it may contain is abstracted.                            *)
(***************************************************************************)
EXTENDS Integers, Sequences, SequencesExt, FiniteSetsExt

EcfTypes == {31, 32, 33, 34, 41, 43, 44, 45, 46, 47}

EncabezadoSchema ==
  [order |-> <<"Version", "IdDoc", "Emisor", "Comprador", "InformacionesAdicionales",
               "Transporte", "Totales", "OtraMoneda">>,
   lacks |-> {<<{43}, {"Comprador"}>>,
             <<{41, 43, 47}, {"InformacionesAdicionales"}>>,
             <<{41, 43}, {"Transporte"}>>},
   needs |-> {<<EcfTypes, {"Version", "IdDoc", "Emisor", "Totales"}>>,
             <<{31, 32, 41, 44, 45, 46}, {"Comprador"}>>}]

ECFSchema ==
  [order |-> <<"Encabezado", "DetallesItems", "Subtotales", "DescuentosORecargos", "Paginacion",
               "InformacionReferencia", "FechaHoraFirma", "Signature">>,
   lacks |-> {<<{43, 47}, {"DescuentosORecargos"}>>},
   needs |-> {<<EcfTypes, {"Encabezado", "DetallesItems", "FechaHoraFirma", "Signature"}>>,
             <<{33, 34}, {"InformacionReferencia"}>>}]

IdDocSchema ==
  [order |-> <<"TipoeCF", "eNCF", "IndicadorNotaCredito", "FechaVencimientoSecuencia",
               "IndicadorEnvioDiferido", "IndicadorMontoGravado", "IndicadorServicioTodoIncluido",
               "TipoIngresos", "TipoPago", "FechaLimitePago", "TerminoPago", "TablaFormasPago",
               "TipoCuentaPago", "NumeroCuentaPago", "BancoPago", "FechaDesde", "FechaHasta",
               "TotalPaginas">>,
   lacks |-> {<<{31, 32, 33, 41, 43, 44, 45, 46, 47}, {"IndicadorNotaCredito"}>>,
             <<{32, 34}, {"FechaVencimientoSecuencia"}>>,
             <<{41, 43, 47}, {"IndicadorEnvioDiferido", "TipoIngresos"}>>,
             <<{43, 44, 46, 47}, {"IndicadorMontoGravado"}>>,
             <<{41, 43, 46, 47}, {"IndicadorServicioTodoIncluido"}>>,
             <<{43}, {"FechaLimitePago"}>>,
             <<{34, 43}, {"TerminoPago", "TablaFormasPago", "TipoCuentaPago", "NumeroCuentaPago",
                "BancoPago"}>>,
             <<{41, 43}, {"FechaDesde", "FechaHasta"}>>},
   needs |-> {<<EcfTypes, {"TipoeCF", "eNCF"}>>,
             <<{34}, {"IndicadorNotaCredito"}>>,
             <<{31, 33, 41, 43, 44, 45, 46, 47}, {"FechaVencimientoSecuencia"}>>,
             <<{31, 32, 44, 45, 46}, {"TipoIngresos"}>>,
             <<{31, 32, 33, 34, 44, 45, 46}, {"TipoPago"}>>}]

EmisorSchema ==
  [order |-> <<"RNCEmisor", "RazonSocialEmisor", "NombreComercial", "Sucursal", "DireccionEmisor",
               "Municipio", "Provincia", "TablaTelefonoEmisor", "CorreoEmisor", "WebSite",
               "ActividadEconomica", "CodigoVendedor", "NumeroFacturaInterna",
               "NumeroPedidoInterno", "ZonaVenta", "RutaVenta", "InformacionAdicionalEmisor",
               "FechaEmision">>,
   lacks |-> {<<{41, 43, 47}, {"CodigoVendedor", "ZonaVenta", "RutaVenta"}>>},
   needs |-> {<<EcfTypes, {"RNCEmisor", "RazonSocialEmisor", "DireccionEmisor",
                "FechaEmision"}>>}]

CompradorSchema ==
  [order |-> <<"RNCComprador", "IdentificadorExtranjero", "RazonSocialComprador",
               "ContactoComprador", "CorreoComprador", "DireccionComprador", "MunicipioComprador",
               "ProvinciaComprador", "PaisComprador", "FechaEntrega", "ContactoEntrega",
               "DireccionEntrega", "TelefonoAdicional", "FechaOrdenCompra", "NumeroOrdenCompra",
               "CodigoInternoComprador", "ResponsablePago", "InformacionAdicionalComprador">>,
   lacks |-> {<<{47}, {"RNCComprador", "ContactoComprador", "CorreoComprador",
                "DireccionComprador", "MunicipioComprador", "ProvinciaComprador",
                "CodigoInternoComprador", "ResponsablePago", "InformacionAdicionalComprador"}>>,
             <<{31, 41, 45}, {"IdentificadorExtranjero"}>>,
             <<{31, 32, 33, 34, 41, 44, 45, 47}, {"PaisComprador"}>>,
             <<{41, 47}, {"FechaEntrega", "ContactoEntrega", "DireccionEntrega",
                "TelefonoAdicional", "FechaOrdenCompra", "NumeroOrdenCompra"}>>},
   needs |-> {<<{31, 41, 45}, {"RNCComprador"}>>,
             <<{31, 41, 44, 45, 46}, {"RazonSocialComprador"}>>}]

InformacionesAdicionalesSchema ==
  [order |-> <<"FechaEmbarque", "NumeroEmbarque", "NumeroContenedor", "NumeroReferencia",
               "NombrePuertoEmbarque", "CondicionesEntrega", "TotalFob", "Seguro", "Flete",
               "OtrosGastos", "TotalCif", "RegimenAduanero", "NombrePuertoSalida",
               "NombrePuertoDesembarque", "PesoBruto", "PesoNeto", "UnidadPesoBruto",
               "UnidadPesoNeto", "CantidadBulto", "UnidadBulto", "VolumenBulto",
               "UnidadVolumen">>,
   lacks |-> {<<{31, 32, 33, 34, 44, 45}, {"NombrePuertoEmbarque", "CondicionesEntrega",
                "TotalFob", "Seguro", "Flete", "OtrosGastos", "TotalCif", "RegimenAduanero",
                "NombrePuertoSalida", "NombrePuertoDesembarque"}>>},
   needs |-> {}]

TransporteSchema ==
  [order |-> <<"ViaTransporte", "PaisOrigen", "DireccionDestino", "PaisDestino",
               "RNCIdentificacionCompaniaTransportista", "NombreCompaniaTransportista",
               "NumeroViaje", "Conductor", "DocumentoTransporte", "Ficha", "Placa",
               "RutaTransporte", "ZonaTransporte", "NumeroAlbaran">>,
   lacks |-> {<<{31, 32, 33, 34, 44, 45, 47}, {"ViaTransporte", "PaisOrigen", "DireccionDestino",
                "RNCIdentificacionCompaniaTransportista", "NombreCompaniaTransportista",
                "NumeroViaje"}>>,
             <<{31, 32, 33, 34, 44, 45}, {"PaisDestino"}>>,
             <<{47}, {"Conductor", "DocumentoTransporte", "Ficha", "Placa", "RutaTransporte",
                "ZonaTransporte", "NumeroAlbaran"}>>},
   needs |-> {}]

TotalesSchema ==
  [order |-> <<"MontoGravadoTotal", "MontoGravadoI1", "MontoGravadoI2", "MontoGravadoI3",
               "MontoExento", "ITBIS1", "ITBIS2", "ITBIS3", "TotalITBIS", "TotalITBIS1",
               "TotalITBIS2", "TotalITBIS3", "MontoImpuestoAdicional", "ImpuestosAdicionales",
               "MontoTotal", "MontoNoFacturable", "MontoPeriodo", "SaldoAnterior",
               "MontoAvancePago", "ValorPagar", "TotalITBISRetenido", "TotalISRRetencion",
               "TotalITBISPercepcion", "TotalISRPercepcion">>,
   lacks |-> {<<{43, 44, 47}, {"MontoGravadoTotal", "MontoGravadoI3", "ITBIS3", "TotalITBIS",
                "TotalITBIS3"}>>,
             <<{43, 44, 46, 47}, {"MontoGravadoI1", "MontoGravadoI2", "ITBIS1", "ITBIS2",
                "TotalITBIS1", "TotalITBIS2"}>>,
             <<{46}, {"MontoExento"}>>,
             <<{41, 43, 46, 47}, {"MontoImpuestoAdicional", "ImpuestosAdicionales"}>>,
             <<{41, 43, 47}, {"MontoNoFacturable"}>>,
             <<{32, 43, 44, 45, 46, 47}, {"TotalITBISRetenido", "TotalITBISPercepcion",
                "TotalISRPercepcion"}>>,
             <<{32, 43, 44, 45, 46}, {"TotalISRRetencion"}>>},
   needs |-> {<<EcfTypes, {"MontoTotal"}>>}]

ImpuestoAdicionalSchema ==
  [order |-> <<"TipoImpuesto", "TasaImpuestoAdicional", "MontoImpuestoSelectivoConsumoEspecifico",
               "MontoImpuestoSelectivoConsumoAdvalorem", "OtrosImpuestosAdicionales">>,
   lacks |-> {<<{44}, {"MontoImpuestoSelectivoConsumoEspecifico",
                "MontoImpuestoSelectivoConsumoAdvalorem"}>>},
   needs |-> {<<{31, 32, 33, 44, 45}, {"TipoImpuesto", "TasaImpuestoAdicional"}>>,
             <<{44}, {"OtrosImpuestosAdicionales"}>>}]

OtraMonedaSchema ==
  [order |-> <<"TipoMoneda", "TipoCambio", "MontoGravadoTotalOtraMoneda",
               "MontoGravado1OtraMoneda", "MontoGravado2OtraMoneda", "MontoGravado3OtraMoneda",
               "MontoExentoOtraMoneda", "TotalITBISOtraMoneda", "TotalITBIS1OtraMoneda",
               "TotalITBIS2OtraMoneda", "TotalITBIS3OtraMoneda",
               "MontoImpuestoAdicionalOtraMoneda", "ImpuestosAdicionalesOtraMoneda",
               "MontoTotalOtraMoneda">>,
   lacks |-> {<<{43, 44, 47}, {"MontoGravadoTotalOtraMoneda", "MontoGravado3OtraMoneda",
                "TotalITBISOtraMoneda", "TotalITBIS3OtraMoneda"}>>,
             <<{43, 44, 46, 47}, {"MontoGravado1OtraMoneda", "MontoGravado2OtraMoneda",
                "TotalITBIS1OtraMoneda", "TotalITBIS2OtraMoneda"}>>,
             <<{46}, {"MontoExentoOtraMoneda"}>>,
             <<{41, 43, 46, 47}, {"MontoImpuestoAdicionalOtraMoneda",
                "ImpuestosAdicionalesOtraMoneda"}>>},
   needs |-> {}]

ItemSchema ==
  [order |-> <<"NumeroLinea", "TablaCodigosItem", "IndicadorFacturacion", "Retencion",
               "NombreItem", "IndicadorBienoServicio", "DescripcionItem", "CantidadItem",
               "UnidadMedida", "CantidadReferencia", "UnidadReferencia", "TablaSubcantidad",
               "GradosAlcohol", "PrecioUnitarioReferencia", "FechaElaboracion",
               "FechaVencimientoItem", "Mineria", "PrecioUnitarioItem", "DescuentoMonto",
               "TablaSubDescuento", "RecargoMonto", "TablaSubRecargo", "TablaImpuestoAdicional",
               "OtraMonedaDetalle", "MontoItem">>,
   lacks |-> {<<{32, 43, 44, 45, 46}, {"Retencion"}>>,
             <<{41, 43, 44, 46, 47}, {"CantidadReferencia", "UnidadReferencia",
                "TablaSubcantidad", "GradosAlcohol", "PrecioUnitarioReferencia"}>>,
             <<{43, 47}, {"FechaElaboracion", "FechaVencimientoItem", "DescuentoMonto",
                "TablaSubDescuento", "RecargoMonto", "TablaSubRecargo"}>>,
             <<{31, 41, 43, 44, 45, 47}, {"Mineria"}>>,
             <<{41, 43, 46, 47}, {"TablaImpuestoAdicional"}>>},
   needs |-> {<<EcfTypes, {"NumeroLinea", "IndicadorFacturacion", "NombreItem",
                "IndicadorBienoServicio", "CantidadItem", "PrecioUnitarioItem", "MontoItem"}>>,
             <<{41, 47}, {"Retencion"}>>}]

OtraMonedaDetalleSchema ==
  [order |-> <<"PrecioOtraMoneda", "DescuentoOtraMoneda", "RecargoOtraMoneda", "MontoItemOtraMoneda">>,
   lacks |-> {}, needs |-> {}]

RetencionSchema ==
  [order |-> <<"IndicadorAgenteRetencionoPercepcion", "MontoITBISRetenido", "MontoISRRetenido">>,
   lacks |-> {<<{47}, {"MontoITBISRetenido"}>>},
   needs |-> {<<{41, 47}, {"IndicadorAgenteRetencionoPercepcion"}>>,
             <<{47}, {"MontoISRRetenido"}>>}]

SubtotalSchema ==
  [order |-> <<"NumeroSubTotal", "DescripcionSubtotal", "Orden", "SubTotalMontoGravadoTotal",
               "SubTotalMontoGravadoI1", "SubTotalMontoGravadoI2", "SubTotalMontoGravadoI3",
               "SubTotaITBIS", "SubTotaITBIS1", "SubTotaITBIS2", "SubTotaITBIS3",
               "SubTotalImpuestoAdicional", "SubTotalExento", "MontoSubTotal", "Lineas">>,
   lacks |-> {<<{43, 44, 47}, {"SubTotalMontoGravadoTotal", "SubTotalMontoGravadoI3",
                "SubTotaITBIS", "SubTotaITBIS3"}>>,
             <<{43, 44, 46, 47}, {"SubTotalMontoGravadoI1", "SubTotalMontoGravadoI2",
                "SubTotaITBIS1", "SubTotaITBIS2"}>>,
             <<{43, 46, 47}, {"SubTotalImpuestoAdicional"}>>,
             <<{46}, {"SubTotalExento"}>>},
   needs |-> {}]

DescuentoORecargoSchema ==
  [order |-> <<"NumeroLinea", "TipoAjuste", "IndicadorNorma1007", "DescripcionDescuentooRecargo",
               "TipoValor", "ValorDescuentooRecargo", "MontoDescuentooRecargo",
               "MontoDescuentooRecargoOtraMoneda", "IndicadorFacturacionDescuentooRecargo">>,
   lacks |-> {<<{41, 44, 46}, {"IndicadorNorma1007"}>>},
   needs |-> {<<{31, 32, 33, 34, 41, 44, 45, 46}, {"NumeroLinea", "TipoAjuste"}>>}]

PaginaSchema ==
  [order |-> <<"PaginaNo", "NoLineaDesde", "NoLineaHasta", "SubtotalMontoGravadoPagina",
               "SubtotalMontoGravado1Pagina", "SubtotalMontoGravado2Pagina",
               "SubtotalMontoGravado3Pagina", "SubtotalExentoPagina", "SubtotalItbisPagina",
               "SubtotalItbis1Pagina", "SubtotalItbis2Pagina", "SubtotalItbis3Pagina",
               "SubtotalImpuestoAdicionalPagina", "SubtotalImpuestoAdicional",
               "MontoSubtotalPagina", "SubtotalMontoNoFacturablePagina">>,
   lacks |-> {<<{43, 44, 47}, {"SubtotalMontoGravadoPagina", "SubtotalMontoGravado3Pagina",
                "SubtotalItbisPagina", "SubtotalItbis3Pagina"}>>,
             <<{43, 44, 46, 47}, {"SubtotalMontoGravado1Pagina", "SubtotalMontoGravado2Pagina",
                "SubtotalItbis1Pagina", "SubtotalItbis2Pagina"}>>,
             <<{46}, {"SubtotalExentoPagina"}>>,
             <<{41, 43, 46, 47}, {"SubtotalImpuestoAdicionalPagina",
                "SubtotalImpuestoAdicional"}>>,
             <<{41, 43, 47}, {"SubtotalMontoNoFacturablePagina"}>>},
   needs |-> {}]

InformacionReferenciaSchema ==
  [order |-> <<"NCFModificado", "RNCOtroContribuyente", "FechaNCFModificado",
               "CodigoModificacion", "RazonModificacion">>,
   lacks |-> {<<{31, 32, 41, 43, 44, 45, 46, 47}, {"RazonModificacion"}>>},
   needs |-> {<<{33, 34}, {"NCFModificado", "FechaNCFModificado", "CodigoModificacion"}>>}]

-----------------------------------------------------------------------------

SectionSchema ==
  [Encabezado |-> EncabezadoSchema, ECF |-> ECFSchema, IdDoc |-> IdDocSchema,
   Emisor |-> EmisorSchema, Comprador |-> CompradorSchema,
   InformacionesAdicionales |-> InformacionesAdicionalesSchema,
   Transporte |-> TransporteSchema, Totales |-> TotalesSchema,
   ImpuestoAdicional |-> ImpuestoAdicionalSchema, OtraMoneda |-> OtraMonedaSchema,
   Item |-> ItemSchema, OtraMonedaDetalle |-> OtraMonedaDetalleSchema,
   Retencion |-> RetencionSchema, Subtotal |-> SubtotalSchema,
   DescuentoORecargo |-> DescuentoORecargoSchema, Pagina |-> PaginaSchema,
   InformacionReferencia |-> InformacionReferenciaSchema]

Sections == DOMAIN SectionSchema

ForType(table, t) == UNION {g[2] : g \in {h \in table : t \in h[1]}}

\* The elements of one section of a document of type t are in the order of the
\* schema, each of them has its place there, and none it requires is missing.
Fits(section, t, elements) ==
  LET schema == SectionSchema[section]
      allowed == ToSet(schema.order) \ ForType(schema.lacks, t)
  IN /\ elements = SelectSeq(schema.order, LAMBDA e : e \in ToSet(elements))
     /\ ToSet(elements) \subseteq allowed
     /\ ForType(schema.needs, t) \subseteq ToSet(elements)
=============================================================================
