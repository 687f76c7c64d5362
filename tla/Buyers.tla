--------------------------------- MODULE Buyers ---------------------------------
(***************************************************************************)
(* The buyers that a tenant registers.  A registration gives an RNC; the   *)
(* rest of the row, and the type of e-CF that the buyer gets, come from    *)
(* DGII's registry of taxpayers, which answers seconds later or not at     *)
(* all.  A refresh asks it again.  Nothing is a transaction, and no index  *)
(* refuses a second row for an RNC.                                        *)
(*                                                                         *)
(* One RNC stands for all: buyers with different ones do not meet.  Check  *)
(* digits are left out, since a wrong one only logs a warning.             *)
(***************************************************************************)
EXTENDS Naturals, FiniteSets

CONSTANTS
  BuyerCalls,    \* registrations, updates and refreshes of a buyer
  Names,         \* what the names in the registry look like: "", "gobierno", "other"
  Categories,    \* the categories in the registry: "special", "other"
  RegistryStates \* the states of a taxpayer

VARIABLES
  buyerRnc,  \* the RNC that the calls are about, or NoRnc
  buyer,     \* the row that each registration created, or NoBuyer
  answers,   \* what the registry has answered of this RNC
  buyerOp    \* of each call: its step, the row it is about and the answer it got

buyerVars == <<buyerRnc, buyer, answers, buyerOp>>

Rnc == [digits : 9 .. 11, four : BOOLEAN]
NoRnc == [digits |-> 0, four |-> FALSE]

\* DgiiTaxpayerInfo.
Taxpayers == [name : Names, category : Categories, status : RegistryStates]
NoTaxpayer == [name |-> "", category |-> "", status |-> ""]

NoBuyer == [name |-> "", status |-> "", buyerType |-> "", ecfType |-> ""]
NoCall == [step |-> "idle", of |-> "none", name |-> "", info |-> NoTaxpayer]

BuyerInit ==
  /\ buyerRnc = NoRnc /\ answers = {}
  /\ buyer = [c \in BuyerCalls |-> NoBuyer]
  /\ buyerOp = [c \in BuyerCalls |-> NoCall]

BuyerDoing(c, step) == buyerOp[c].step = step
BuyerBecomes(c, step) == buyerOp' = [buyerOp EXCEPT ![c].step = step]

Stored == {c \in BuyerCalls : buyer[c] # NoBuyer}

-----------------------------------------------------------------------------
(* The e-CF type of a buyer: the first rule that matches. *)

GovernmentByRnc(r) == r.digits = 9 /\ r.four
GovernmentByName(info) == info.name = "gobierno"
SpecialRegime(info) == info.category = "special"

ResolveEcfType(r, info) ==
  IF GovernmentByRnc(r) \/ GovernmentByName(info)
  THEN [buyerType |-> "GOBIERNO", ecfType |-> "E45"]
  ELSE IF SpecialRegime(info)
  THEN [buyerType |-> "REGIMEN_ESPECIAL", ecfType |-> "E44"]
  ELSE [buyerType |-> "CONTRIBUYENTE", ecfType |-> "E31"]

-----------------------------------------------------------------------------

\* An RNC of nine digits or a cedula of eleven.
ValidRnc(r) == r.digits \in {9, 11}

\* The registry does not have the RNC, or its service fails or takes five seconds.
LookupDgii == Taxpayers \cup {NoTaxpayer}

\* A registration without an RNC, or with one that is registered, is refused.
BuyerCheck(c, r) ==
  /\ BuyerDoing(c, "idle") /\ buyerRnc \in {NoRnc, r}
  /\ buyerRnc' = r
  /\ BuyerBecomes(c, IF ValidRnc(r) /\ Stored = {} THEN "register" ELSE "refused")
  /\ UNCHANGED <<buyer, answers>>

Found(info) == info # NoTaxpayer

\* The lookup of a registration or of a refresh is answered: a taxpayer in any state is
\* taken, the call without one is refused.
BuyerLookup(c) ==
  /\ buyerOp[c].step \in {"register", "refresh"}
  /\ \E info \in LookupDgii :
       /\ answers' = answers \cup ({info} \ {NoTaxpayer})
       /\ buyerOp' = [buyerOp EXCEPT ![c] =
            [@ EXCEPT !.info = info,
                      !.step = IF ~Found(info) THEN "refused"
                               ELSE IF BuyerDoing(c, "register") THEN "insert" ELSE "write"]]
  /\ UNCHANGED <<buyerRnc, buyer>>

\* The row of the registration, with the type that the answer gives.
BuyerInsert(c) ==
  /\ BuyerDoing(c, "insert")
  /\ LET info == buyerOp[c].info
         resolution == ResolveEcfType(buyerRnc, info)
     IN buyer' = [buyer EXCEPT ![c] =
                    [name |-> info.name, status |-> info.status,
                     buyerType |-> resolution.buyerType, ecfType |-> resolution.ecfType]]
  /\ BuyerBecomes(c, "ok")
  /\ UNCHANGED <<buyerRnc, answers>>

\* UpdateBuyerDto: a name of two characters or more; the type is not in it.
BuyerUpdate(c) ==
  /\ BuyerDoing(c, "idle")
  /\ \E b \in Stored : buyer' = [buyer EXCEPT ![b].name = "edited"]
  /\ BuyerBecomes(c, "ok")
  /\ UNCHANGED <<buyerRnc, answers>>

RefreshRead(c) ==
  /\ BuyerDoing(c, "idle")
  /\ \E b \in Stored :
       buyerOp' = [buyerOp EXCEPT ![c] =
                     [@ EXCEPT !.step = "refresh", !.of = b, !.name = buyer[b].name]]
  /\ UNCHANGED <<buyerRnc, buyer, answers>>

\* The name of the answer, or else the one that was read before the lookup; the type stays.
RefreshWrite(c) ==
  /\ BuyerDoing(c, "write")
  /\ LET info == buyerOp[c].info
     IN buyer' = [buyer EXCEPT ![buyerOp[c].of] =
                    [@ EXCEPT !.name = IF info.name = "" THEN buyerOp[c].name ELSE info.name,
                              !.status = info.status]]
  /\ BuyerBecomes(c, "ok")
  /\ UNCHANGED <<buyerRnc, answers>>

BuyerNext ==
  \E c \in BuyerCalls :
    \/ \E r \in Rnc : BuyerCheck(c, r)
    \/ BuyerLookup(c) \/ BuyerInsert(c) \/ BuyerUpdate(c) \/ RefreshRead(c) \/ RefreshWrite(c)

-----------------------------------------------------------------------------
(* Properties *)

\* A registered buyer was found in the registry: its type is the one of an answer that was
\* given, and so are its state and, unless somebody edited it, its name.
BuyersVerified ==
  \A b \in Stored :
    /\ \E info \in answers :
         ResolveEcfType(buyerRnc, info) =
           [buyerType |-> buyer[b].buyerType, ecfType |-> buyer[b].ecfType]
    /\ \E info \in answers : info.status = buyer[b].status
    /\ buyer[b].name = "edited" \/ \E info \in answers : info.name = buyer[b].name

-----------------------------------------------------------------------------
(* What the comments promise and the code does not give *)

\* "Check duplicates": one row for an RNC.
OneBuyerPerRnc == Cardinality(Stored) <= 1

\* "solo RNC -> consulta DGII -> auto-llena todo -> siempre E31".
AlwaysE31 == \A b \in Stored : buyer[b].ecfType = "E31"

\* "Contribuyente activo -> E31".
ActiveOnly == \A b \in Stored : buyer[b].status = "ACTIVO"

\* After a refresh the type is the one of the data that the row holds.
TypeIsCurrent ==
  \A b \in Stored : GovernmentByName(buyer[b]) => buyer[b].ecfType = "E45"
=============================================================================
