----------------------------- MODULE EncfSequences -----------------------------
(***************************************************************************)
(* The eNCF sequences (authorised ranges of secuenciales) of one company   *)
(* and one e-CF type: registration of a range, consumption of the next     *)
(* number by an emission, and annulment of numbers before DGII (ANECF).    *)
(* Every query of the service filters on (company, type), so the types of  *)
(* a company do not interact; one of them is modelled.                     *)
(*                                                                         *)
(* Each HTTP call is a process.  A call is one action per awaited step:    *)
(* what it read before an await may be stale after it.  A database         *)
(* transaction is READ COMMITTED: its writes appear at its commit, and the *)
(* row it took with SELECT ... FOR UPDATE is locked until then.            *)
(***************************************************************************)
EXTENDS Integers, Sequences

CONSTANTS
  Requests,        \* emission calls (POST /invoices); each inserts at most one invoice
  Registrations,   \* calls that register a range; each inserts at most one row
  Annulments,      \* ANECF calls
  MaxNumber,       \* bound on the secuenciales of a range
  RegisterRanges,  \* the <<first, last>> a registration may ask for
  AnnulLists,      \* the lists of <<encfFrom, encfTo>> an ANECF call may ask for
  KeyOf,           \* the idempotency key of each emission call
  NoKey,           \* the value of KeyOf for a call without one
  NoSeq,           \* the row of a call that has none yet
  Overrides        \* the encfOverride numbers a call may carry ({} in PROD)

Number == 1 .. MaxNumber

ASSUME SequencesAssumption ==
  /\ MaxNumber \in Nat \ {0}
  /\ RegisterRanges \subseteq Number \X Number
  /\ AnnulLists \subseteq Seq(Number \X Number)
  /\ Overrides \subseteq Number
  /\ NoSeq \notin Registrations

VARIABLES
  \* table sequences: one row per registration that inserted it
  registered, startNumber, endNumber, currentNumber, isActive, expired,
  registration,  \* where each registration call is
  \* emission calls and the invoice each one inserted
  request,       \* where each call is, or the answer it got
  reqSeq,        \* the row it locked
  reqNumber,     \* the number it was given
  reqCurrent,    \* the current_number it writes when it commits
  reqOverride,   \* its encfOverride, 0 if it has none
  status,        \* the status of its invoice
  \* annulment calls and the sequence_annulments rows each one wrote
  annulment,     \* where each call is, or the status of its rows
  annRanges,     \* the ranges it asks for
  annNext,       \* the range it validates next
  simSeq, simEnd, simCurrent, simActive  \* SimState: its plan for the row

seqVars == <<registered, startNumber, endNumber, currentNumber, isActive, expired>>
reqVars == <<request, reqSeq, reqNumber, reqCurrent, reqOverride, status>>
simVars == <<simSeq, simEnd, simCurrent, simActive>>
annVars == <<annulment, annRanges, annNext, simVars>>
vars == <<seqVars, registration, reqVars, annVars>>

Larger(m, n)  == IF m > n THEN m ELSE n
Smaller(m, n) == IF m < n THEN m ELSE n

Active == {s \in registered : isActive[s]}

Locked_Never(s) == FALSE
Locked_Leaked(s) == \E r \in Requests : request[r] \in {"insert", "EXHAUSTED", "ABORTED"} /\ reqSeq[r] = s
\* A row is locked from the SELECT ... FOR UPDATE of an emission to its end.
Locked(s) == \E r \in Requests : request[r] = "insert" /\ reqSeq[r] = s

Created == {r \in Requests : request[r] = "CREATED"}

\* ANNULLABLE_INVOICE_STATES
Annullable == {"REJECTED", "ERROR"}

-----------------------------------------------------------------------------
(* Registration of a range: SequencesService.create *)

\* A stored range that meets [lo .. hi], active or not.
Overlapping(lo, hi) ==
  {s \in registered : \/ startNumber[s] <= lo /\ endNumber[s] >= lo
                      \/ startNumber[s] <= hi /\ endNumber[s] >= hi
                      \/ startNumber[s] >= lo /\ endNumber[s] <= hi}

\* The overlap query; a call with an invalid or overlapping range is refused.
CreateCheckOverlap(c, lo, hi) ==
  /\ registration[c] = "idle"
  /\ 1 <= lo /\ lo < hi
  /\ registration' = [registration EXCEPT ![c] =
                        IF Overlapping(lo, hi) = {} THEN "overlapChecked" ELSE "refused"]
  /\ startNumber' = [startNumber EXCEPT ![c] = lo]
  /\ endNumber' = [endNumber EXCEPT ![c] = hi]
  /\ UNCHANGED <<registered, currentNumber, isActive, expired, reqVars, annVars>>

\* The query for an active row of the same type.
CreateCheckActive(c) ==
  /\ registration[c] = "overlapChecked"
  /\ registration' = [registration EXCEPT ![c] =
                        IF Active = {} THEN "activeChecked" ELSE "refused"]
  /\ UNCHANGED <<seqVars, reqVars, annVars>>

\* The partial unique index on the active rows of (company, type).
ActiveIndexRefuses == Active # {}

\* The insert, unless another registration made its row active meanwhile.
CreateInsert(c) ==
  /\ registration[c] = "activeChecked"
  /\ IF ~ActiveIndexRefuses
       THEN /\ registration' = [registration EXCEPT ![c] = "inserted"]
            /\ registered' = registered \cup {c}
            /\ currentNumber' = [currentNumber EXCEPT ![c] = startNumber[c] - 1]
            /\ isActive' = [isActive EXCEPT ![c] = TRUE]
       ELSE /\ registration' = [registration EXCEPT ![c] = "refused"]
            /\ UNCHANGED <<registered, currentNumber, isActive>>
  /\ UNCHANGED <<startNumber, endNumber, expired, reqVars, annVars>>

\* expiresAt passes.
Expire(s) ==
  /\ s \in registered /\ ~expired[s]
  /\ expired' = [expired EXCEPT ![s] = TRUE]
  /\ UNCHANGED <<registered, startNumber, endNumber, currentNumber, isActive,
                 registration, reqVars, annVars>>

-----------------------------------------------------------------------------
(* Emission: InvoicesService.create and assignNextEncf *)

\* An invoice with the idempotency key of r is committed.
KeyTaken(r) == KeyOf[r] # NoKey /\ \E q \in Created : KeyOf[q] = KeyOf[r]

\* An invoice with eNCF n is committed.
NumberTaken(n) == \E q \in Created : reqNumber[q] = n

IndexRefuses_KeyOnly(r) == KeyTaken(r)
IndexRefuses_NumberOnly(r) == NumberTaken(reqNumber[r])
\* The unique indexes of invoices: (company, type, encf) and (tenant, key).
IndexRefuses(r) == NumberTaken(reqNumber[r]) \/ KeyTaken(r)

Answer(r, a) ==
  /\ request' = [request EXCEPT ![r] = a]
  /\ UNCHANGED <<reqSeq, reqNumber, reqCurrent, status>>

\* The idempotency lookup before the transaction.
Receive(r, override) ==
  /\ request[r] = "idle"
  /\ Answer(r, IF KeyTaken(r) THEN "REPLAYED" ELSE "received")
  /\ reqOverride' = [reqOverride EXCEPT ![r] = override]
  /\ UNCHANGED <<seqVars, registration, annVars>>

\* The transaction opens: the idempotency re-check, which takes no lock.
Recheck(r) ==
  /\ request[r] = "received"
  /\ Answer(r, IF KeyTaken(r) THEN "REPLAYED" ELSE "assign")
  /\ UNCHANGED <<seqVars, registration, reqOverride, annVars>>

\* The SELECT finds no active row.
AssignNoSequence(r) ==
  /\ request[r] = "assign" /\ Active = {}
  /\ Answer(r, "NO_SEQUENCE")
  /\ UNCHANGED <<seqVars, registration, reqOverride, annVars>>

Refusal(r, s) ==
  CASE expired[s] -> "EXPIRED"
    [] ~expired[s] /\ reqOverride[r] # 0 /\ reqOverride[r] \notin startNumber[s] .. endNumber[s]
       -> "OUT_OF_RANGE"
    [] ~expired[s] /\ reqOverride[r] = 0 /\ currentNumber[s] + 1 > endNumber[s] -> "EXHAUSTED"
    [] OTHER -> "none"

\* The row cannot give a number.  For an expired or exhausted row the code
\* also writes isActive = false, in the transaction that its throw rolls back:
\* nothing remains of it.
AssignRefuse(r, s) ==
  /\ request[r] = "assign" /\ s \in Active /\ ~Locked(s)
  /\ Refusal(r, s) # "none"
  /\ request' = [request EXCEPT ![r] = Refusal(r, s)]
  /\ reqSeq' = [reqSeq EXCEPT ![r] = s]
  /\ UNCHANGED <<seqVars, registration, reqNumber, reqCurrent, reqOverride, status, annVars>>

CounterAfter_Override(s, number) == number
CounterAfter(s, number) == Larger(currentNumber[s], number)

\* The row is locked and gives its next number, or the override.
Assign(r, s) ==
  LET number == IF reqOverride[r] # 0 THEN reqOverride[r] ELSE currentNumber[s] + 1
  IN /\ request[r] = "assign" /\ s \in Active /\ ~Locked(s)
     /\ Refusal(r, s) = "none"
     /\ request' = [request EXCEPT ![r] = "insert"]
     /\ reqSeq' = [reqSeq EXCEPT ![r] = s]
     /\ reqNumber' = [reqNumber EXCEPT ![r] = number]
     /\ reqCurrent' = [reqCurrent EXCEPT ![r] = CounterAfter(s, number)]
     /\ UNCHANGED <<seqVars, registration, reqOverride, status, annVars>>

\* The invoice is inserted and the transaction commits: the counter and the
\* invoice appear together.
Commit(r) ==
  /\ request[r] = "insert" /\ ~IndexRefuses(r)
  /\ request' = [request EXCEPT ![r] = "CREATED"]
  /\ status' = [status EXCEPT ![r] = "PENDING"]
  /\ currentNumber' = [currentNumber EXCEPT ![reqSeq[r]] = reqCurrent[r]]
  /\ UNCHANGED <<registered, startNumber, endNumber, isActive, expired, registration,
                 reqSeq, reqNumber, reqCurrent, reqOverride, annVars>>

\* A unique index refuses the insert and the transaction rolls back.
InsertConflict(r) ==
  /\ request[r] = "insert" /\ IndexRefuses(r)
  /\ \/ NumberTaken(reqNumber[r]) /\ Answer(r, "DUPLICATE_ENCF")
     \/ KeyTaken(r) /\ Answer(r, "DUPLICATE_KEY")
  /\ UNCHANGED <<seqVars, registration, reqOverride, annVars>>

\* The counter committed on its own, before the invoice (AUDITORIA-2026-07, C1).
Rollback_KeepsCounter(r) ==
  /\ request[r] = "insert"
  /\ Answer(r, "ABORTED")
  /\ currentNumber' = [currentNumber EXCEPT ![reqSeq[r]] = reqCurrent[r]]
  /\ UNCHANGED <<registered, startNumber, endNumber, isActive, expired, registration,
                 reqOverride, annVars>>

\* Any other failure inside the transaction (quota exhausted, XML build, lost
\* connection, process crash): everything rolls back.
Rollback(r) ==
  /\ request[r] \in {"received", "assign", "insert"}
  /\ Answer(r, "ABORTED")
  /\ UNCHANGED <<seqVars, registration, reqOverride, annVars>>

\* The pipeline decides an invoice, and a retry puts an ERROR one back in it.
Progress(r, st) ==
  /\ r \in Created
  /\ \/ status[r] = "PENDING" /\ st \in {"ACCEPTED", "REJECTED", "ERROR"}
     \/ status[r] = "ERROR" /\ st = "PENDING"
  /\ status' = [status EXCEPT ![r] = st]
  /\ UNCHANGED <<seqVars, registration, request, reqSeq, reqNumber, reqCurrent, reqOverride, annVars>>

-----------------------------------------------------------------------------
(* Annulment: SequencesService.annulSequences *)

Goto(a, step) == annulment' = [annulment EXCEPT ![a] = step]

\* The first range makes the call read the active row into its SimState.
AnnulSnapshot(a, ranges) ==
  /\ annulment[a] = "idle"
  /\ annRanges' = [annRanges EXCEPT ![a] = ranges]
  /\ IF Active = {} \/ ranges = <<>>
       THEN Goto(a, "INVALID") /\ UNCHANGED simVars
       ELSE \E s \in Active :
              /\ Goto(a, "validate")
              /\ simSeq' = [simSeq EXCEPT ![a] = s]
              /\ simEnd' = [simEnd EXCEPT ![a] = endNumber[s]]
              /\ simCurrent' = [simCurrent EXCEPT ![a] = currentNumber[s]]
              /\ simActive' = [simActive EXCEPT ![a] = TRUE]
  /\ UNCHANGED <<seqVars, registration, reqVars, annNext>>

\* An invoice the range meets below the counter cannot be annulled.
Blocking(a, from, to) ==
  \E r \in Created : /\ reqNumber[r] \in from .. Smaller(to, simCurrent[a])
                     /\ status[r] \notin Annullable

Middle_Accepted(a, from, to) == FALSE
\* The part of the range above the counter is a hole in the middle of it.
Middle(a, from, to) ==
  LET aboveFrom == Larger(from, simCurrent[a] + 1)
  IN aboveFrom <= to /\ to # simEnd[a] /\ aboveFrom # simCurrent[a] + 1

ValidRange(a, from, to) ==
  /\ from <= to
  /\ simActive[a]
  /\ startNumber[simSeq[a]] <= from /\ to <= simEnd[a]
  /\ ~Blocking(a, from, to)
  /\ ~Middle(a, from, to)

\* One turn of the loop: the range is refused, or the plan takes it in.
AnnulValidate(a) ==
  LET from == annRanges[a][annNext[a]][1]
      to   == annRanges[a][annNext[a]][2]
      aboveFrom == Larger(from, simCurrent[a] + 1)
      atNext == aboveFrom = simCurrent[a] + 1
      atEnd  == to = simEnd[a]
  IN /\ annulment[a] = "validate" /\ annNext[a] <= Len(annRanges[a])
     /\ \/ /\ ~ValidRange(a, from, to)
           /\ Goto(a, "INVALID")
           /\ UNCHANGED <<annNext, simVars>>
        \/ /\ ValidRange(a, from, to)
           /\ annNext' = [annNext EXCEPT ![a] = @ + 1]
           /\ simActive' = [simActive EXCEPT ![a] = ~(aboveFrom <= to /\ atNext /\ atEnd)]
           /\ simEnd' = [simEnd EXCEPT ![a] =
                           IF aboveFrom <= to /\ atEnd /\ ~atNext THEN aboveFrom - 1 ELSE @]
           /\ simCurrent' = [simCurrent EXCEPT ![a] =
                               IF aboveFrom <= to /\ atNext /\ ~atEnd THEN to ELSE @]
           /\ UNCHANGED <<annulment, simSeq>>
     /\ UNCHANGED <<seqVars, registration, reqVars, annRanges>>

\* The rows are written PENDING and the signed ANECF goes to DGII.
AnnulPersist(a) ==
  /\ annulment[a] = "validate" /\ annNext[a] > Len(annRanges[a])
  /\ Goto(a, "submitted")
  /\ UNCHANGED <<seqVars, registration, reqVars, annRanges, annNext, simVars>>

\* DGII accepts the ANECF, rejects it, or the call fails on the network and
\* the rows stay PENDING; a process crash leaves them PENDING too.
AnnulAnswer(a, outcome) ==
  /\ \/ annulment[a] = "submitted" /\ outcome \in {"accepted", "REJECTED", "PENDING"}
     \/ annulment[a] = "accepted" /\ outcome = "PENDING"
  /\ Goto(a, outcome)
  /\ UNCHANGED <<seqVars, registration, reqVars, annRanges, annNext, simVars>>

AppliedCurrent_Stale(a, s) == simCurrent[a]
AppliedCurrent(a, s) == Larger(currentNumber[s], simCurrent[a])

\* The accepting transaction: the rows become ACCEPTED and the plan is
\* written to the locked row; only its live counter is read again.
AnnulApply(a) ==
  LET s == simSeq[a]
  IN /\ annulment[a] = "accepted" /\ ~Locked(s)
     /\ Goto(a, "ACCEPTED")
     /\ IF simActive[a]
          THEN /\ endNumber' = [endNumber EXCEPT ![s] = simEnd[a]]
               /\ currentNumber' = [currentNumber EXCEPT ![s] = AppliedCurrent(a, s)]
               /\ UNCHANGED isActive
          ELSE /\ isActive' = [isActive EXCEPT ![s] = FALSE]
               /\ UNCHANGED <<endNumber, currentNumber>>
     /\ UNCHANGED <<registered, startNumber, expired, registration, reqVars,
                    annRanges, annNext, simVars>>

-----------------------------------------------------------------------------
(* The list of annullable eNCFs: SequencesService.getAnnulableEncfs *)

FailedNumbers_Any == {reqNumber[r] : r \in Created}
\* The numbers of failed invoices, whatever row they came from.
FailedNumbers == {reqNumber[r] : r \in {q \in Created : status[q] \in Annullable}}

\* The consumed numbers of a row that no invoice has.
Gaps(s) == {n \in startNumber[s] .. currentNumber[s] : ~NumberTaken(n)}

\* What the list offers for an active row.
Offered(s) == FailedNumbers \cup Gaps(s)

-----------------------------------------------------------------------------
Init ==
  /\ registered = {}
  /\ startNumber = [s \in Registrations |-> 1]
  /\ endNumber = [s \in Registrations |-> 1]
  /\ currentNumber = [s \in Registrations |-> 0]
  /\ isActive = [s \in Registrations |-> FALSE]
  /\ expired = [s \in Registrations |-> FALSE]
  /\ registration = [c \in Registrations |-> "idle"]
  /\ request = [r \in Requests |-> "idle"]
  /\ reqSeq = [r \in Requests |-> NoSeq]
  /\ reqNumber = [r \in Requests |-> 0]
  /\ reqCurrent = [r \in Requests |-> 0]
  /\ reqOverride = [r \in Requests |-> 0]
  /\ status = [r \in Requests |-> "PENDING"]
  /\ annulment = [a \in Annulments |-> "idle"]
  /\ annRanges = [a \in Annulments |-> <<>>]
  /\ annNext = [a \in Annulments |-> 1]
  /\ simSeq = [a \in Annulments |-> NoSeq]
  /\ simEnd = [a \in Annulments |-> 0]
  /\ simCurrent = [a \in Annulments |-> 0]
  /\ simActive = [a \in Annulments |-> TRUE]

RegistrationStep(c) ==
  \/ \E range \in RegisterRanges : CreateCheckOverlap(c, range[1], range[2])
  \/ CreateCheckActive(c)
  \/ CreateInsert(c)

EmissionStep(r) ==
  \/ Recheck(r)
  \/ AssignNoSequence(r)
  \/ \E s \in Registrations : AssignRefuse(r, s) \/ Assign(r, s)
  \/ Commit(r)
  \/ InsertConflict(r)

AnnulmentStep(a) ==
  \/ AnnulValidate(a)
  \/ AnnulPersist(a)
  \/ \E outcome \in {"accepted", "REJECTED", "PENDING"} : AnnulAnswer(a, outcome)
  \/ AnnulApply(a)

Next ==
  \/ \E c \in Registrations : RegistrationStep(c)
  \/ \E s \in Registrations : Expire(s)
  \/ \E r \in Requests : \E override \in Overrides \cup {0} : Receive(r, override)
  \/ \E r \in Requests : EmissionStep(r)
  \/ \E r \in Requests : Rollback(r)
  \/ \E r \in Requests, st \in {"PENDING", "ACCEPTED", "REJECTED", "ERROR"} : Progress(r, st)
  \/ \E a \in Annulments, ranges \in AnnulLists : AnnulSnapshot(a, ranges)
  \/ \E a \in Annulments : AnnulmentStep(a)

Spec == Init /\ [][Next]_vars

\* A call that was received runs to its answer: the event loop schedules every
\* continuation, and an interactive transaction ends or times out.
FairSpec ==
  /\ Spec
  /\ \A r \in Requests : WF_vars(EmissionStep(r))
  /\ \A a \in Annulments : WF_vars(AnnulmentStep(a))

-----------------------------------------------------------------------------
(* Properties *)

RequestStates ==
  {"idle", "received", "assign", "insert", "CREATED", "REPLAYED", "NO_SEQUENCE", "EXPIRED",
   "OUT_OF_RANGE", "EXHAUSTED", "DUPLICATE_ENCF", "DUPLICATE_KEY", "ABORTED"}

AnnulmentStates ==
  {"idle", "validate", "submitted", "accepted", "ACCEPTED", "REJECTED", "PENDING", "INVALID"}

\* Type invariant: every column and every call's state has its type.
TypeOK ==
  /\ registered \subseteq Registrations
  /\ startNumber \in [Registrations -> Number]
  /\ endNumber \in [Registrations -> 0 .. MaxNumber]
  /\ currentNumber \in [Registrations -> 0 .. MaxNumber]
  /\ isActive \in [Registrations -> BOOLEAN]
  /\ expired \in [Registrations -> BOOLEAN]
  /\ registration \in [Registrations ->
        {"idle", "overlapChecked", "activeChecked", "inserted", "refused"}]
  /\ request \in [Requests -> RequestStates]
  /\ reqSeq \in [Requests -> Registrations \cup {NoSeq}]
  /\ reqNumber \in [Requests -> 0 .. MaxNumber]
  /\ reqCurrent \in [Requests -> 0 .. MaxNumber]
  /\ reqOverride \in [Requests -> Overrides \cup {0}]
  /\ status \in [Requests -> {"PENDING", "ACCEPTED", "REJECTED", "ERROR"}]
  /\ annulment \in [Annulments -> AnnulmentStates]
  /\ annRanges \in [Annulments -> AnnulLists \cup {<<>>}]
  /\ annNext \in [Annulments -> Nat \ {0}]
  /\ simSeq \in [Annulments -> Registrations \cup {NoSeq}]
  /\ simEnd \in [Annulments -> 0 .. MaxNumber]
  /\ simCurrent \in [Annulments -> 0 .. MaxNumber]
  /\ simActive \in [Annulments -> BOOLEAN]

\* Number n lies in a range that annulment a asks for.
Covers(a, n) ==
  \E i \in DOMAIN annRanges[a] : n \in annRanges[a][i][1] .. annRanges[a][i][2]

\* Number n is annulled in the local tables.
Annulled(n) == \E a \in Annulments : annulment[a] = "ACCEPTED" /\ Covers(a, n)

\* C1: every number at or below the counter of a row belongs to an invoice, is
\* annulled, or was skipped by a larger encfOverride.  No failure, rollback or
\* annulment leaves a consumed number with neither invoice nor annulment.
NoOrphanSecuencial ==
  \A s \in registered : \A n \in startNumber[s] .. currentNumber[s] :
    \/ \E r \in Created : reqSeq[r] = s /\ reqNumber[r] = n
    \/ Annulled(n)
    \/ \E r \in Created : reqSeq[r] = s /\ reqOverride[r] # 0 /\ n < reqNumber[r]

\* The number of an invoice is within the part of its row the counter passed,
\* so the row never gives that number again.
CounterCoversInvoices ==
  \A r \in Created : reqNumber[r] \in startNumber[reqSeq[r]] .. currentNumber[reqSeq[r]]

\* A number taken from the counter never meets the unique index on eNCF: only
\* an override can be refused as a duplicate.
CounterNeverCollides ==
  \A r \in Requests : request[r] = "DUPLICATE_ENCF" => reqOverride[r] # 0

\* No eNCF is issued twice, even when registrations that raced past the overlap
\* query leave two rows over the same numbers.
EncfIssuedOnce ==
  \A q, r \in Created : reqNumber[q] = reqNumber[r] => q = r

\* At most one row is active: the SELECT ... LIMIT 1 FOR UPDATE of an emission
\* has no choice, and two emissions always meet on the same lock.
OneActiveSequence == \A s, t \in Active : s = t

\* "Todos son anulables": a first range made of numbers that the list offers of the row,
\* which has not changed since the call read it, is not refused.  The list reads invoices
\* and counter, the refusal looks at the plan, and both must agree on every number.  They
\* disagree on a failed invoice of an earlier, overlapping row whose number the counter of
\* this row has not reached: the range must hold no such invoice.
OfferedIsNotRefused ==
  [][\A a \in Annulments :
       LET s    == simSeq[a]
           from == annRanges[a][1][1]
           to   == annRanges[a][1][2]
       IN /\ annulment[a] = "validate" /\ annulment'[a] = "INVALID" /\ annNext[a] = 1
          /\ isActive[s] /\ simEnd[a] = endNumber[s] /\ simCurrent[a] = currentNumber[s]
          /\ startNumber[s] <= from /\ from <= to /\ to <= simEnd[a]
          /\ \A q \in Created : reqNumber[q] \in from .. to => reqNumber[q] <= currentNumber[s]
          => ~(from .. to \subseteq Offered(s))]_vars

\* An idempotency key gets at most one invoice, however its calls interleave.
OneInvoicePerKey ==
  \A q, r \in Created : KeyOf[q] = KeyOf[r] /\ KeyOf[q] # NoKey => q = r

\* current_number never goes back: neither a late commit nor the stale plan of
\* an annulment gives numbers out again.
CounterNeverGoesBack ==
  [][\A s \in registered : currentNumber'[s] >= currentNumber[s]]_vars

\* The numbers an active row can still give are not annulled.
FreeNumbersNotAnnulled ==
  \A s \in Active : \A n \in currentNumber[s] + 1 .. endNumber[s] : ~Annulled(n)

\* Every emission call that was received gets an answer, and the row it locked
\* is released.
EveryEmissionAnswered ==
  \A r \in Requests : request[r] = "received" ~> request[r] \notin {"received", "assign", "insert"}

-----------------------------------------------------------------------------
(* The promise of the numbering *)

AnswerOf(r) ==
  CASE request[r] = "CREATED" -> "created"
    [] request[r] = "REPLAYED" -> "replayed"
    [] request[r] \in {"idle", "received", "assign", "insert"} -> "pending"
    [] OTHER -> "refused"

Registry == INSTANCE EncfRegistry WITH
  Calls    <- Requests,
  Numbers  <- Number,
  answer   <- [r \in Requests |-> AnswerOf(r)],
  number   <- [r \in Requests |-> IF request[r] = "CREATED" THEN reqNumber[r] ELSE 0],
  annulled <- {n \in Number : Annulled(n)}

\* The re-checks, the row lock, the two indexes and the rollbacks make of each emission
\* call one step: its invoice has a number and a key that no other has, a replay has an
\* invoice to replay, a call that failed half way left none, and no answer, number or
\* annulment changes afterwards.
ImplementsRegistry == Registry!RegistrySpec

-----------------------------------------------------------------------------
(* What the comments of the code promise and its transactions do not give *)

\* "exhausting a 2nd NCF range (which sets is_active=false)": a caller told
\* that the row is exhausted finds it inactive, so that a new range can be
\* registered.
ExhaustedIsDeactivated ==
  \A r \in Requests : request[r] = "EXHAUSTED" => ~isActive[reqSeq[r]]
=============================================================================
