--------------------------- MODULE CertificationSheet ---------------------------
(***************************************************************************)
(* The spreadsheet of the certification: the parser takes its rows and     *)
(* groups their cells by the indexes in the headers, and the mappers make  *)
(* of the groups the forms of payment and the items of a request.  A cell  *)
(* that says "#e", or nothing, is not there, so every group has holes.     *)
(*                                                                         *)
(* What is read from a cell is known by the index that it came from.  The  *)
(* fields without an index are modelled in EcfRequests.                    *)
(***************************************************************************)
EXTENDS Integers, Sequences, SequencesExt, FiniteSets

CONSTANTS
  SheetIndexes,  \* the indexes of lines, of forms of payment and of entries of a table
  SheetRows      \* the rows under the headers

ASSUME SheetAssumption == SheetIndexes \subseteq Nat \ {0} /\ SheetRows \subseteq Nat \ {0}

VARIABLES sheet  \* what was uploaded and what was read of it

sheetVars == <<sheet>>

NothingRead == [kind |-> "none", cells |-> <<>>, skip |-> {}, method |-> 0, read |-> <<>>]

Sorted(S) == SetToSortSeq(S, <)

-----------------------------------------------------------------------------
(* Rows *)

\* parseBuffer: a row of empty cells is skipped, one that only has "#e" is not.
ParsedRows(rows) == {i \in DOMAIN rows : rows[i] # "empty"}

\* uploadAndProcess: without the rows that skipEncfs names, numbered from 2.
Uploaded(rows, skip) ==
  LET kept == Sorted(ParsedRows(rows) \ skip)
  IN [k \in DOMAIN kept |-> [row |-> kept[k], number |-> k + 1]]

UploadRows ==
  \E rows \in [SheetRows -> {"data", "excluded", "empty"}] :
    \E skip \in SUBSET {i \in SheetRows : rows[i] = "data"} :
      sheet' = [NothingRead EXCEPT !.kind = "rows", !.cells = rows, !.skip = skip,
                                   !.read = Uploaded(rows, skip)]

-----------------------------------------------------------------------------
(* Cells *)

\* A header: field, field[line] or field[line][sub].
SheetHeader(field, line, sub) == [field |-> field, line |-> line, sub |-> sub]

PaymentHeaders == {SheetHeader(f, n, 0) : f \in {"FormaPago", "MontoPago"}, n \in SheetIndexes}
ItemHeaders ==
  {SheetHeader("TipoIngresos", 0, 0)}
  \cup {SheetHeader(f, n, 0) : f \in {"NombreItem", "TipoIngresos"}, n \in SheetIndexes}
  \cup {SheetHeader(f, n, m) : f \in {"TipoSubDescuento", "MontoSubDescuento"},
                          n \in SheetIndexes, m \in SheetIndexes}

\* "#e", or empty, or missing.
HasCell(cells, h) == cells[h] # "#e"
\* What n() or int() makes a number of.
Numeric(cells, h) == cells[h] = "number"

NonItemIndexed == {"FormaPago", "MontoPago", "TelefonoEmisor"}

\* The entries of row._items: a line is there if any cell has its number.
ItemLines(cells) ==
  {h.line : h \in {g \in DOMAIN cells : HasCell(cells, g) /\ g.line # 0 /\ g.field \notin NonItemIndexed}}

-----------------------------------------------------------------------------
(* The mappers *)

\* The arrays without their holes, side by side.
PaymentForms_Zipped(cells) ==
  LET methods == Sorted({n \in SheetIndexes : Numeric(cells, SheetHeader("FormaPago", n, 0))})
      amounts == Sorted({n \in SheetIndexes : Numeric(cells, SheetHeader("MontoPago", n, 0))})
  IN [k \in DOMAIN methods \cap DOMAIN amounts |-> [method |-> methods[k], amount |-> amounts[k]]]

\* mapPayment: a form for every slot that has a method and an amount.
PaymentForms(cells) ==
  LET slots == Sorted({n \in SheetIndexes : /\ Numeric(cells, SheetHeader("FormaPago", n, 0))
                                            /\ Numeric(cells, SheetHeader("MontoPago", n, 0))})
  IN [k \in DOMAIN slots |-> [method |-> slots[k], amount |-> slots[k]]]

\* The method of the first form, or else of the first slot; 0 is none.
FirstMethod(cells, forms) ==
  CASE forms # <<>> -> forms[1].method
    [] forms = <<>> /\ Numeric(cells, SheetHeader("FormaPago", 1, 0)) -> 1
    [] OTHER -> 0

\* mapSubArray: an entry for every type, with its amount or without (0).
SubTable(cells, n) ==
  LET entries == Sorted({m \in SheetIndexes : HasCell(cells, SheetHeader("TipoSubDescuento", n, m))})
  IN [k \in DOMAIN entries |->
        [tipo |-> entries[k],
         monto |-> IF Numeric(cells, SheetHeader("MontoSubDescuento", n, entries[k])) THEN entries[k] ELSE 0]]

\* mapItem and mapItems: in the order of their numbers; the first one that has no type of
\* income of its own takes that of the row.
MapItems(cells) ==
  LET lines == Sorted(ItemLines(cells))
      Own(k) == Numeric(cells, SheetHeader("TipoIngresos", lines[k], 0))
      Lifted(k) == k = 1 /\ Numeric(cells, SheetHeader("TipoIngresos", 0, 0))
  IN [k \in DOMAIN lines |->
        [line |-> lines[k], subs |-> SubTable(cells, lines[k]),
         income |-> IF Own(k) THEN "own" ELSE IF Lifted(k) THEN "row" ELSE "none"]]

ReadPayment ==
  \E cells \in [PaymentHeaders -> {"#e", "text", "number"}] :
    sheet' = [NothingRead EXCEPT !.kind = "payment", !.cells = cells, !.read = PaymentForms(cells),
                                 !.method = FirstMethod(cells, PaymentForms(cells))]

ReadItems ==
  \E cells \in [ItemHeaders -> {"#e", "number"}] :
    sheet' = [NothingRead EXCEPT !.kind = "items", !.cells = cells, !.read = MapItems(cells)]

SheetInit == sheet = NothingRead

SheetNext == sheet = NothingRead /\ (UploadRows \/ ReadPayment \/ ReadItems)

SheetSpec == SheetInit /\ [][SheetNext]_sheetVars

-----------------------------------------------------------------------------
(* Properties *)

\* The values of a field in a sequence of records only grow: the order of the sheet.
InOrder(seq, Of(_)) == \A j, k \in DOMAIN seq : j < k => Of(seq[j]) < Of(seq[k])

\* Every amount is paid by the method of its own index, and every pair is a form.
PaymentKept(s) ==
  LET Both(n) == Numeric(s.cells, SheetHeader("FormaPago", n, 0)) /\ Numeric(s.cells, SheetHeader("MontoPago", n, 0))
  IN /\ InOrder(s.read, LAMBDA f : f.amount)
     /\ \A k \in DOMAIN s.read : s.read[k].method = s.read[k].amount
     /\ \A n \in SheetIndexes : Both(n) <=> \E k \in DOMAIN s.read : s.read[k].amount = n
     /\ s.read # <<>> => s.method = s.read[1].method

\* No item changes place with another, no amount goes to the entry or the item of another,
\* and the income of the row goes to the first item only.
ItemsKept(s) ==
  /\ InOrder(s.read, LAMBDA i : i.line)
  /\ \A h \in DOMAIN s.cells :
       (h.line # 0 /\ HasCell(s.cells, h)) => \E k \in DOMAIN s.read : s.read[k].line = h.line
  /\ \A k \in DOMAIN s.read :
       LET item == s.read[k]
       IN /\ InOrder(item.subs, LAMBDA e : e.tipo)
          /\ \A j \in DOMAIN item.subs :
               item.subs[j].monto =
                 IF HasCell(s.cells, SheetHeader("MontoSubDescuento", item.line, item.subs[j].tipo))
                 THEN item.subs[j].tipo ELSE 0
          /\ item.income = "row" => k = 1

\* What is read of a sheet with holes keeps the pairs and the order of the sheet: the rows
\* that are taken, the forms of payment, and the items with their tables.
SheetKept ==
  CASE sheet.kind = "payment" -> PaymentKept(sheet)
    [] sheet.kind = "items" -> ItemsKept(sheet)
    [] sheet.kind = "rows" ->
         InOrder(sheet.read, LAMBDA r : r.row) /\ \A k \in DOMAIN sheet.read : sheet.read[k].row \notin sheet.skip
    [] OTHER -> TRUE

-----------------------------------------------------------------------------
(* What the comments promise and the code does not give *)

\* "row 1 is headers": the number of a row in the answer is its number in the file.
RowNumbersMatch ==
  sheet.kind = "rows" => \A k \in DOMAIN sheet.read : sheet.read[k].number = sheet.read[k].row + 1

\* "The builder uses these directly": every amount of the row is paid.
AmountsPaid ==
  sheet.kind = "payment" =>
    \A n \in SheetIndexes :
      Numeric(sheet.cells, SheetHeader("MontoPago", n, 0)) => \E k \in DOMAIN sheet.read : sheet.read[k].amount = n
=============================================================================
