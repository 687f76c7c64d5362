-------------------------- MODULE MCIssuedDocuments --------------------------
(* Finite instances of IssuedDocuments for TLC. *)
EXTENDS IssuedDocuments

FourNumbers == 1 .. 4
TwoTypes == {31, 34}
TwoIndexes == {1, 2}
ThreeRows == 1 .. 3

Plain == [qty |-> 1, price |-> 10003, discount |-> 0, surcharge |-> 0, fact |-> NotGiven, rate |-> 18,
          code |-> 0, tasa |-> 0, ref |-> 0, sub |-> 0, grados |-> 0, pvp |-> 0, granel |-> FALSE]

\* Lines of every ITBIS class, with additional taxes of every kind, one of them negative, and
\* ones that are refused.
Lines ==
  {Plain, [Plain EXCEPT !.rate = 16, !.price = 33], [Plain EXCEPT !.rate = 0],
   [Plain EXCEPT !.fact = 4], [Plain EXCEPT !.fact = 0, !.price = 90],
   [Plain EXCEPT !.fact = 0, !.price = 5000],
   [Plain EXCEPT !.fact = 1, !.rate = 0, !.discount = 103, !.surcharge = 7],
   [Plain EXCEPT !.discount = 20000],
   [Plain EXCEPT !.code = 1, !.tasa = 10], [Plain EXCEPT !.code = 2, !.tasa = 2],
   [Plain EXCEPT !.code = 6, !.tasa = 63272, !.ref = 1, !.sub = 1, !.grados = 40],
   [Plain EXCEPT !.price = 30000000], [Plain EXCEPT !.code = 6], [Plain EXCEPT !.code = 20, !.tasa = 5351, !.ref = 2],
   [Plain EXCEPT !.code = 23, !.tasa = 10, !.pvp = 40000, !.ref = 2],
   [Plain EXCEPT !.code = 24, !.tasa = 10, !.pvp = 40000, !.granel = TRUE],
   [Plain EXCEPT !.code = 36, !.tasa = 20, !.pvp = 40000],
   [Plain EXCEPT !.code = 36, !.tasa = 20, !.pvp = 10]}

Burdened == [Plain EXCEPT !.code = 1, !.tasa = 10, !.discount = 3, !.surcharge = 1]

\* No field, one, all but one, or all.
FewOrMost(S) == {{}, S} \cup {{e} : e \in S} \cup {S \ {e} : e \in S}

Ask(from, t, section, fields, parts, lines, rnc, currency, prod) ==
  [from |-> from, type |-> t, section |-> section, fields |-> fields, parts |-> parts,
   lines |-> lines, rnc |-> rnc, currency |-> currency, prod |-> prod, values |-> NoValues,
   reference |-> t \in RequiresReference \/ section = "InformacionReferencia"]

Parts(t) == (IF t = 46 THEN {"InformacionesAdicionales", "Transporte"} ELSE {})
            \cup (IF t = 47 THEN {"ForeignBeneficiary"} ELSE {})

ItemLine(section) == IF section = "Item" THEN {Plain, Burdened} ELSE {Plain}

\* The API is sent every field that some caller may give, with the parts that its type needs.
ApiAsked ==
  {{Ask("api", t, s, f, Parts(t) \cup p, <<l>>, rnc, FALSE, prod) :
            f \in FewOrMost(CreateInvoiceDto(s)) \cup {{e} : e \in InvoiceInput(s)},
            p \in {{}} \cup (IF s = "Encabezado" THEN {{q} : q \in InputParts} ELSE {}),
            l \in ItemLine(s), rnc \in {TRUE, s # "Comprador"}, prod \in {FALSE, s = "Emisor"}} :
         t \in EcfTypes, s \in Sections}

\* A row has columns that the schema of its type has a place for, in the sections of an import.
Imported == {"IdDoc", "Emisor", "Comprador", "InformacionesAdicionales", "Transporte", "Totales",
             "Item", "Retencion", "InformacionReferencia"}
Columns(t, s) ==
  IF s \in ForType(EncabezadoSchema.lacks \cup ItemSchema.lacks, t) THEN {}
  ELSE (ToSet(SectionSchema[s].order) \ ForType(SectionSchema[s].lacks, t))
         \cap (InvoiceInput(s) \cup IF s = "Totales" THEN TotalsRawText ELSE {})
RowAsked ==
  {{Ask("row", t, s, f, {}, <<l>>, rnc, FALSE, FALSE) :
            f \in FewOrMost(Columns(t, s)), l \in IF t = 43 THEN {Plain} ELSE ItemLine(s),
            rnc \in {TRUE, s # "Comprador"}} :
         t \in EcfTypes, s \in Imported}

CodeAsked ==
  {{Ask("code", t, s, f, p, <<l>>, rnc, FALSE, FALSE) :
            f \in FewOrMost(InvoiceInput(s)),
            p \in {{}} \cup (IF s \in {"Encabezado", "ECF"} THEN {{q} : q \in InputParts} \cup {InputParts} ELSE {}),
            l \in ItemLine(s), rnc \in {TRUE, s # "Comprador"}} :
         t \in EcfTypes, s \in Sections}

AmountsAsked ==
  {{Ask(from, t, "Totales", {}, IF from = "api" THEN Parts(t) ELSE {}, lines, TRUE, currency, FALSE) :
      lines \in {<<l>> : l \in Lines} \cup Lines \X Lines, currency \in BOOLEAN} :
     from \in {"api", "code"}, t \in EcfTypes}

\* Values that the builder or the DTO refuses, and a reference to a paper NCF.
OddValues ==
  {[NoValues EXCEPT !.tipoPago = 0], [NoValues EXCEPT !.tipoPago = 4], [NoValues EXCEPT !.ncf = "other"],
   [NoValues EXCEPT !.modificacion = 0], [NoValues EXCEPT !.modificacion = 6],
   [NoValues EXCEPT !.ncf = "B", !.modificacion = 4], [NoValues EXCEPT !.place = "unlisted"]}
ValuesAsked ==
  {{[Ask(from, t, s, Columns(t, s), Parts(t), <<Plain>>, rnc, FALSE, FALSE) EXCEPT !.values = v] :
     from \in {"api", "row", "code"}, t \in {31, 32, 34}, rnc \in BOOLEAN,
     s \in {"Emisor", "Comprador", "InformacionReferencia"}, v \in OddValues}}

AllAsked == ApiAsked \cup RowAsked \cup CodeAsked \cup AmountsAsked \cup ValuesAsked
=============================================================================
