------------------------- MODULE EncfSequencesProofs -------------------------
(* Proofs about EncfSequences, for every value of its constants. *)
EXTENDS EncfSequences, TLAPS

\* The state of the emission and of the registration of one call never leaves
\* its type: each action keeps every column within its bounds.
LEMMA TypeStep == TypeOK /\ [Next]_vars => TypeOK'
<1> SUFFICES ASSUME TypeOK, [Next]_vars PROVE TypeOK'
  OBVIOUS
<1> USE SequencesAssumption DEF Number
<1>1. ASSUME NEW c \in Registrations, RegistrationStep(c) PROVE TypeOK'
  <2>1. ASSUME NEW range \in RegisterRanges, CreateCheckOverlap(c, range[1], range[2])
        PROVE TypeOK'
    BY <2>1 DEF CreateCheckOverlap, TypeOK, reqVars, annVars, simVars
  <2>2. ASSUME CreateCheckActive(c) PROVE TypeOK'
    BY <2>2 DEF CreateCheckActive, TypeOK, seqVars, reqVars, annVars, simVars
  <2>3. ASSUME CreateInsert(c) PROVE TypeOK'
    <3>1. startNumber[c] - 1 \in 0 .. MaxNumber
      BY DEF TypeOK
    <3>2. CASE Active = {}
      <4>1. /\ registration' = [registration EXCEPT ![c] = "inserted"]
            /\ registered' = registered \cup {c}
            /\ currentNumber' = [currentNumber EXCEPT ![c] = startNumber[c] - 1]
            /\ isActive' = [isActive EXCEPT ![c] = TRUE]
            /\ UNCHANGED <<startNumber, endNumber, expired, reqVars, annVars>>
        BY <2>3, <3>2 DEF CreateInsert, ActiveIndexRefuses
      <4>2. currentNumber' \in [Registrations -> 0 .. MaxNumber]
        BY <4>1, <3>1 DEF TypeOK
      <4>3. isActive' \in [Registrations -> BOOLEAN]
        BY <4>1 DEF TypeOK
      <4> QED BY <4>1, <4>2, <4>3 DEF TypeOK, reqVars, annVars, simVars
    <3>3. CASE Active # {}
      BY <2>3, <3>3 DEF CreateInsert, ActiveIndexRefuses, TypeOK, reqVars, annVars, simVars
    <3> QED BY <3>2, <3>3
  <2> QED BY <1>1, <2>1, <2>2, <2>3 DEF RegistrationStep
<1>2. ASSUME NEW s \in Registrations, Expire(s) PROVE TypeOK'
  BY <1>2 DEF Expire, TypeOK, reqVars, annVars, simVars
<1>3. ASSUME NEW r \in Requests, NEW override \in Overrides \cup {0}, Receive(r, override)
      PROVE TypeOK'
  BY <1>3 DEF Receive, Answer, TypeOK, RequestStates, seqVars, annVars, simVars
<1>4. ASSUME NEW r \in Requests, EmissionStep(r) PROVE TypeOK'
  <2>1. ASSUME Recheck(r) PROVE TypeOK'
    BY <2>1 DEF Recheck, Answer, TypeOK, RequestStates, seqVars, annVars, simVars
  <2>2. ASSUME AssignNoSequence(r) PROVE TypeOK'
    BY <2>2 DEF AssignNoSequence, Answer, TypeOK, RequestStates, seqVars, annVars, simVars
  <2>3. ASSUME NEW s \in Registrations, AssignRefuse(r, s) PROVE TypeOK'
    <3>1. Refusal(r, s) \in RequestStates
      BY <2>3 DEF AssignRefuse, Refusal, RequestStates
    <3> QED BY <2>3, <3>1 DEF AssignRefuse, TypeOK, seqVars, annVars, simVars
  <2>4. ASSUME NEW s \in Registrations, Assign(r, s) PROVE TypeOK'
    <3> DEFINE number == IF reqOverride[r] # 0 THEN reqOverride[r] ELSE currentNumber[s] + 1
    <3>1. number \in 0 .. MaxNumber
      BY <2>4 DEF Assign, Refusal, TypeOK
    <3>2. CounterAfter(s, number) \in 0 .. MaxNumber
      BY <3>1 DEF CounterAfter, Larger, TypeOK
    <3> QED BY <2>4, <3>1, <3>2 DEF Assign, TypeOK, RequestStates, seqVars, annVars, simVars
  <2>5. ASSUME Commit(r) PROVE TypeOK'
    BY <2>5 DEF Commit, TypeOK, RequestStates, annVars, simVars
  <2>6. ASSUME InsertConflict(r) PROVE TypeOK'
    BY <2>6 DEF InsertConflict, Answer, TypeOK, RequestStates, seqVars, annVars, simVars
  <2> QED BY <1>4, <2>1, <2>2, <2>3, <2>4, <2>5, <2>6 DEF EmissionStep
<1>5. ASSUME NEW r \in Requests, Rollback(r) PROVE TypeOK'
  BY <1>5 DEF Rollback, Answer, TypeOK, RequestStates, seqVars, annVars, simVars
<1>6. ASSUME NEW r \in Requests, NEW st \in {"PENDING", "ACCEPTED", "REJECTED", "ERROR"},
             Progress(r, st)
      PROVE TypeOK'
  BY <1>6 DEF Progress, TypeOK, seqVars, annVars, simVars
<1>7. ASSUME NEW a \in Annulments, NEW ranges \in AnnulLists, AnnulSnapshot(a, ranges)
      PROVE TypeOK'
  <2>1. CASE Active = {} \/ ranges = <<>>
    BY <1>7, <2>1 DEF AnnulSnapshot, Goto, TypeOK, AnnulmentStates, seqVars, reqVars, simVars
  <2>2. CASE ~(Active = {} \/ ranges = <<>>)
    <3>1. PICK s \in Active : /\ Goto(a, "validate")
                              /\ simSeq' = [simSeq EXCEPT ![a] = s]
                              /\ simEnd' = [simEnd EXCEPT ![a] = endNumber[s]]
                              /\ simCurrent' = [simCurrent EXCEPT ![a] = currentNumber[s]]
                              /\ simActive' = [simActive EXCEPT ![a] = TRUE]
      BY <1>7, <2>2 DEF AnnulSnapshot
    <3>2. s \in Registrations
      BY DEF Active, TypeOK
    <3> QED BY <1>7, <3>1, <3>2
            DEF AnnulSnapshot, Goto, TypeOK, AnnulmentStates, seqVars, reqVars
  <2> QED BY <2>1, <2>2
<1>8. ASSUME NEW a \in Annulments, AnnulmentStep(a) PROVE TypeOK'
  <2>1. ASSUME AnnulValidate(a) PROVE TypeOK'
    <3> DEFINE from == annRanges[a][annNext[a]][1]
               to   == annRanges[a][annNext[a]][2]
               aboveFrom == Larger(from, simCurrent[a] + 1)
    <3>1. from \in Number /\ to \in Number
      BY <2>1 DEF AnnulValidate, TypeOK
    <3>2. aboveFrom \in Nat \ {0} /\ (aboveFrom <= to => aboveFrom - 1 \in 0 .. MaxNumber)
      BY <3>1 DEF Larger, TypeOK
    <3> HIDE DEF from, to, aboveFrom
    <3>3. CASE ~ValidRange(a, from, to)
      BY <2>1, <3>3 DEF AnnulValidate, Goto, TypeOK, AnnulmentStates, seqVars, reqVars, simVars,
                        from, to
    <3>4. CASE ValidRange(a, from, to)
      <4>1. /\ annNext' = [annNext EXCEPT ![a] = @ + 1]
            /\ simActive' = [simActive EXCEPT ![a] =
                 ~(aboveFrom <= to /\ aboveFrom = simCurrent[a] + 1 /\ to = simEnd[a])]
            /\ simEnd' = [simEnd EXCEPT ![a] =
                 IF aboveFrom <= to /\ to = simEnd[a] /\ ~(aboveFrom = simCurrent[a] + 1)
                 THEN aboveFrom - 1 ELSE @]
            /\ simCurrent' = [simCurrent EXCEPT ![a] =
                 IF aboveFrom <= to /\ aboveFrom = simCurrent[a] + 1 /\ ~(to = simEnd[a])
                 THEN to ELSE @]
            /\ UNCHANGED <<annulment, simSeq, seqVars, registration, reqVars, annRanges>>
        BY <2>1, <3>4 DEF AnnulValidate, from, to, aboveFrom
      <4>2. annNext' \in [Annulments -> Nat \ {0}]
        BY <4>1 DEF TypeOK
      <4>3. simActive' \in [Annulments -> BOOLEAN]
        BY <4>1 DEF TypeOK
      <4>4. simEnd' \in [Annulments -> 0 .. MaxNumber]
        BY <4>1, <3>2 DEF TypeOK
      <4>5. simCurrent' \in [Annulments -> 0 .. MaxNumber]
        BY <4>1, <3>1 DEF TypeOK
      <4> QED BY <4>1, <4>2, <4>3, <4>4, <4>5 DEF TypeOK, seqVars, reqVars
    <3> QED BY <3>3, <3>4
  <2>2. ASSUME AnnulPersist(a) PROVE TypeOK'
    BY <2>2 DEF AnnulPersist, Goto, TypeOK, AnnulmentStates, seqVars, reqVars, simVars
  <2>3. ASSUME NEW outcome \in {"accepted", "REJECTED", "PENDING"}, AnnulAnswer(a, outcome)
        PROVE TypeOK'
    BY <2>3 DEF AnnulAnswer, Goto, TypeOK, AnnulmentStates, seqVars, reqVars, simVars
  <2>4. ASSUME AnnulApply(a) PROVE TypeOK'
    <3>1. \A s \in Registrations : AppliedCurrent(a, s) \in 0 .. MaxNumber
      BY DEF AppliedCurrent, Larger, TypeOK
    <3>2. /\ annulment' = [annulment EXCEPT ![a] = "ACCEPTED"]
          /\ UNCHANGED <<registered, startNumber, expired, registration, reqVars,
                         annRanges, annNext, simVars>>
      BY <2>4 DEF AnnulApply, Goto
    <3>3. CASE simActive[a]
      <4>1. /\ endNumber' = [endNumber EXCEPT ![simSeq[a]] = simEnd[a]]
            /\ currentNumber' = [currentNumber EXCEPT ![simSeq[a]] = AppliedCurrent(a, simSeq[a])]
            /\ UNCHANGED isActive
        BY <2>4, <3>3 DEF AnnulApply
      <4> QED BY <3>1, <3>2, <4>1 DEF TypeOK, AnnulmentStates, reqVars, simVars
    <3>4. CASE ~simActive[a]
      <4>1. /\ isActive' = [isActive EXCEPT ![simSeq[a]] = FALSE]
            /\ UNCHANGED <<endNumber, currentNumber>>
        BY <2>4, <3>4 DEF AnnulApply
      <4> QED BY <3>2, <4>1 DEF TypeOK, AnnulmentStates, reqVars, simVars
    <3> QED BY <3>3, <3>4
  <2> QED BY <1>8, <2>1, <2>2, <2>3, <2>4 DEF AnnulmentStep
<1>9. CASE UNCHANGED vars
  BY <1>9 DEF vars, TypeOK, seqVars, reqVars, annVars, simVars
<1> QED
  BY <1>1, <1>2, <1>3, <1>4, <1>5, <1>6, <1>7, <1>8, <1>9 DEF Next

\* Every column and every call's state has its type in every reachable state.
THEOREM TypeCorrect == Spec => []TypeOK
<1>1. Init => TypeOK
  BY SequencesAssumption DEF Init, TypeOK, Number, RequestStates, AnnulmentStates
<1> QED BY <1>1, TypeStep, PTL DEF Spec

-----------------------------------------------------------------------------
(* The accounting of the numbers (C1).  NoOrphanSecuencial is not inductive: *)
(* a commit and an accepted annulment move the counter by values computed    *)
(* earlier, so the invariant says what those values still mean when they are *)
(* written: the row lock keeps the number of an emission next in line, and   *)
(* the numbers an annulment skips are numbers it annuls.                     *)

\* A row exists exactly from the insert of its registration.
RowOfRegistration ==
  \A c \in Registrations : c \in registered <=> registration[c] = "inserted"

\* The counter of a row starts one below its first number.
Floor == \A s \in registered : startNumber[s] - 1 <= currentNumber[s]

\* The emission that holds a row, or inserted an invoice, has a stored row.
RowOfRequest ==
  \A r \in Requests : request[r] \in {"insert", "CREATED"} => reqSeq[r] \in registered

\* One emission at a time holds a row.
OneHolder ==
  \A q, r \in Requests :
    request[q] = "insert" /\ request[r] = "insert" /\ reqSeq[q] = reqSeq[r] => q = r

\* While an emission holds the row its number is still the next one.
NextInLine ==
  \A r \in Requests : request[r] = "insert" =>
    /\ startNumber[reqSeq[r]] <= reqNumber[r]
    /\ reqCurrent[r] = Larger(currentNumber[reqSeq[r]], reqNumber[r])
    /\ reqOverride[r] = 0 => reqNumber[r] = currentNumber[reqSeq[r]] + 1

Planning(a) == annulment[a] \in {"validate", "submitted", "accepted"}

\* The numbers above the live counter that a plan skips are in its ranges.
PlanIsCovered ==
  \A a \in Annulments : Planning(a) =>
    /\ simSeq[a] \in registered
    /\ \A n \in Number : currentNumber[simSeq[a]] < n /\ n <= simCurrent[a] => Covers(a, n)

Accounting ==
  /\ RowOfRegistration /\ Floor /\ RowOfRequest /\ OneHolder /\ NextInLine
  /\ PlanIsCovered /\ CounterCoversInvoices /\ NoOrphanSecuencial

AccountingVars ==
  <<registered, startNumber, currentNumber, registration, request, reqSeq, reqNumber, reqCurrent,
    reqOverride, annulment, annRanges, simSeq, simCurrent>>

\* An action that leaves the accounting variables alone keeps the invariant.
LEMMA AccountingFrame == Accounting /\ UNCHANGED AccountingVars => Accounting'
BY DEF Accounting, AccountingVars, RowOfRegistration, Floor, RowOfRequest, OneHolder, NextInLine,
       PlanIsCovered, Planning, Covers, CounterCoversInvoices, NoOrphanSecuencial, Created, Annulled

\* A registration adds a row that gave no number yet.
LEMMA AccountingRegistration ==
  ASSUME TypeOK, Accounting, NEW c \in Registrations, RegistrationStep(c)
  PROVE  Accounting'
<1> USE DEF Number
<1>1. c \in registered <=> registration[c] = "inserted"
  BY DEF Accounting, RowOfRegistration
<1>2. UNCHANGED <<request, reqSeq, reqNumber, reqCurrent, reqOverride, annulment, annRanges, simSeq,
                  simCurrent>>
  BY DEF RegistrationStep, CreateCheckOverlap, CreateCheckActive, CreateInsert, reqVars, annVars,
         simVars
<1> DEFINE Adds ==
      /\ c \notin registered
      /\ registered' \in {registered, registered \cup {c}}
      /\ c \in registered' <=> registration'[c] = "inserted"
      /\ c \in registered' => currentNumber'[c] = startNumber'[c] - 1
      /\ \A d \in Registrations \ {c} : /\ registration'[d] = registration[d]
                                        /\ startNumber'[d] = startNumber[d]
                                        /\ currentNumber'[d] = currentNumber[d]
<1>3. Adds
  <2>1. ASSUME NEW range \in RegisterRanges, CreateCheckOverlap(c, range[1], range[2])
        PROVE Adds
    BY <1>1, <2>1 DEF CreateCheckOverlap, TypeOK
  <2>2. ASSUME CreateCheckActive(c) PROVE Adds
    BY <1>1, <2>2 DEF CreateCheckActive, TypeOK, seqVars
  <2>3. ASSUME CreateInsert(c) PROVE Adds
    <3>1. CASE Active = {}
      BY <1>1, <2>3, <3>1 DEF CreateInsert, ActiveIndexRefuses, TypeOK
    <3>2. CASE Active # {}
      BY <1>1, <2>3, <3>2 DEF CreateInsert, ActiveIndexRefuses, TypeOK
    <3> QED BY <3>1, <3>2
  <2> QED BY <2>1, <2>2, <2>3 DEF RegistrationStep
<1>13. TypeOK'
  BY TypeStep DEF Next
<1>4. \A s \in registered : /\ s \in registered' /\ s # c /\ s \in Registrations
                            /\ startNumber'[s] = startNumber[s]
                            /\ currentNumber'[s] = currentNumber[s]
  BY <1>3 DEF TypeOK
<1>5. \A s \in registered' : s \in registered \/ s = c
  BY <1>3
<1>6. RowOfRegistration'
  BY <1>3 DEF Accounting, RowOfRegistration
<1>7. Floor'
  BY <1>3, <1>4, <1>5, <1>13 DEF Accounting, Floor, TypeOK
<1>8. RowOfRequest' /\ OneHolder'
  BY <1>2, <1>4 DEF Accounting, RowOfRequest, OneHolder
<1>9. NextInLine'
  BY <1>2, <1>4 DEF Accounting, NextInLine, RowOfRequest
<1>10. PlanIsCovered'
  BY <1>2, <1>4 DEF Accounting, PlanIsCovered, Planning, Covers
<1>11. CounterCoversInvoices'
  BY <1>2, <1>4 DEF Accounting, CounterCoversInvoices, RowOfRequest, Created
<1>12. NoOrphanSecuencial'
  <2> SUFFICES ASSUME NEW s \in registered', NEW n \in (startNumber[s] .. currentNumber[s])'
               PROVE (\/ \E r \in Created : reqSeq[r] = s /\ reqNumber[r] = n
                      \/ Annulled(n)
                      \/ \E r \in Created : reqSeq[r] = s /\ reqOverride[r] # 0 /\ n < reqNumber[r])'
    BY DEF NoOrphanSecuencial
  <2>1. s # c
    BY <1>3, <1>13 DEF TypeOK
  <2> QED BY <1>2, <1>4, <1>5, <2>1 DEF Accounting, NoOrphanSecuencial, Created, Annulled, Covers
<1> QED BY <1>6, <1>7, <1>8, <1>9, <1>10, <1>11, <1>12 DEF Accounting

\* A call that gets an answer without an invoice, or has no row yet, changes
\* nothing the accounting relates.
LEMMA AccountingAnswer ==
  ASSUME TypeOK, Accounting, NEW r \in Requests,
         request[r] # "CREATED", request'[r] \notin {"insert", "CREATED"},
         \A q \in Requests \ {r} : /\ request'[q] = request[q]
                                   /\ reqSeq'[q] = reqSeq[q]
                                   /\ reqOverride'[q] = reqOverride[q],
         UNCHANGED <<seqVars, registration, reqNumber, reqCurrent, annVars>>
  PROVE  Accounting'
<1>1. /\ UNCHANGED <<registered, startNumber, currentNumber, registration, reqNumber, reqCurrent,
                     annulment, annRanges, simSeq, simCurrent>>
      /\ Created' = Created
      /\ r \notin Created
      /\ \A q \in Requests : request'[q] \in {"insert", "CREATED"} =>
           q # r /\ request[q] = request'[q] /\ reqSeq'[q] = reqSeq[q]
                 /\ reqOverride'[q] = reqOverride[q]
      /\ \A q \in Created : reqSeq'[q] = reqSeq[q] /\ reqOverride'[q] = reqOverride[q]
  BY DEF Created, seqVars, annVars, simVars
<1>2. (RowOfRegistration /\ Floor /\ PlanIsCovered)'
  BY <1>1 DEF Accounting, RowOfRegistration, Floor, PlanIsCovered, Planning, Covers
<1>3. (RowOfRequest /\ OneHolder /\ NextInLine)'
  BY <1>1 DEF Accounting, RowOfRequest, OneHolder, NextInLine
<1>4. CounterCoversInvoices'
  BY <1>1 DEF Accounting, CounterCoversInvoices
<1>5. NoOrphanSecuencial'
  BY <1>1 DEF Accounting, NoOrphanSecuencial, Annulled, Covers
<1> QED BY <1>2, <1>3, <1>4, <1>5 DEF Accounting

\* An emission that takes the lock is given the next number of its row.
LEMMA AccountingAssign ==
  ASSUME TypeOK, Accounting, NEW r \in Requests, NEW s \in Registrations, Assign(r, s)
  PROVE  Accounting'
<1> DEFINE number == IF reqOverride[r] # 0 THEN reqOverride[r] ELSE currentNumber[s] + 1
<1>1. /\ UNCHANGED <<registered, startNumber, currentNumber, registration, reqOverride,
                     annulment, annRanges, simSeq, simCurrent>>
      /\ s \in registered
      /\ request[r] = "assign" /\ ~Locked(s)
      /\ request' = [request EXCEPT ![r] = "insert"]
      /\ reqSeq' = [reqSeq EXCEPT ![r] = s]
      /\ reqNumber' = [reqNumber EXCEPT ![r] = number]
      /\ reqCurrent' = [reqCurrent EXCEPT ![r] = CounterAfter(s, number)]
      /\ Refusal(r, s) = "none"
  BY DEF Assign, Active, seqVars, annVars, simVars
<1>2. startNumber[s] <= number
  <2>1. CASE reqOverride[r] # 0
    BY <1>1, <2>1 DEF Refusal, TypeOK, Number
  <2>2. CASE reqOverride[r] = 0
    BY <1>1, <2>2 DEF Accounting, Floor, TypeOK, Number
  <2> QED BY <2>1, <2>2
<1>3. /\ Created' = Created
      /\ r \notin Created
      /\ \A q \in Requests \ {r} : /\ request'[q] = request[q] /\ reqSeq'[q] = reqSeq[q]
                                   /\ reqNumber'[q] = reqNumber[q]
                                   /\ reqCurrent'[q] = reqCurrent[q]
      /\ request'[r] = "insert" /\ reqSeq'[r] = s /\ reqNumber'[r] = number
      /\ reqCurrent'[r] = Larger(currentNumber[s], number)
  BY <1>1 DEF Created, TypeOK, CounterAfter
<1> HIDE DEF number
<1>4. (RowOfRegistration /\ Floor /\ PlanIsCovered)'
  BY <1>1 DEF Accounting, RowOfRegistration, Floor, PlanIsCovered, Planning, Covers
<1>5. (RowOfRequest /\ OneHolder)'
  BY <1>1, <1>3 DEF Accounting, RowOfRequest, OneHolder, Locked
<1>6. NextInLine'
  <2>1. reqOverride[r] = 0 => number = currentNumber[s] + 1
    BY DEF number
  <2> QED BY <1>1, <1>2, <1>3, <2>1 DEF Accounting, NextInLine
<1>7. CounterCoversInvoices'
  BY <1>1, <1>3 DEF Accounting, CounterCoversInvoices, Created
<1>8. NoOrphanSecuencial'
  <2>1. \A q \in Created : q \in Requests \ {r}
    BY <1>3 DEF Created
  <2> QED BY <1>1, <1>3, <2>1 DEF Accounting, NoOrphanSecuencial, Annulled, Covers
<1> QED BY <1>4, <1>5, <1>6, <1>7, <1>8 DEF Accounting

\* A commit moves the counter over its own number, and over nothing else
\* unless the number is an override.
LEMMA AccountingCommit ==
  ASSUME TypeOK, Accounting, NEW r \in Requests, Commit(r)
  PROVE  Accounting'
<1> DEFINE s == reqSeq[r]
<1>1. /\ UNCHANGED <<registered, startNumber, registration, reqSeq, reqNumber, reqCurrent,
                     reqOverride, annulment, annRanges, simSeq, simCurrent>>
      /\ request[r] = "insert"
      /\ request' = [request EXCEPT ![r] = "CREATED"]
      /\ currentNumber' = [currentNumber EXCEPT ![s] = reqCurrent[r]]
  BY DEF Commit, annVars, simVars
<1>2. /\ s \in registered /\ s \in Registrations
      /\ startNumber[s] <= reqNumber[r]
      /\ reqCurrent[r] = Larger(currentNumber[s], reqNumber[r])
      /\ reqOverride[r] = 0 => reqNumber[r] = currentNumber[s] + 1
  BY <1>1 DEF Accounting, RowOfRequest, NextInLine, TypeOK
<1> HIDE DEF s
<1>3. /\ currentNumber'[s] = Larger(currentNumber[s], reqNumber[r])
      /\ \A t \in registered \ {s} : currentNumber'[t] = currentNumber[t]
      /\ \A t \in registered : currentNumber[t] <= currentNumber'[t]
      /\ \A t \in registered : /\ currentNumber[t] \in Int /\ startNumber[t] \in Int
                               /\ currentNumber'[t] \in Int
      /\ \A q \in Requests : reqNumber[q] \in Int
  BY <1>1, <1>2 DEF TypeOK, Larger, Number
<1>4. Created' = Created \cup {r} /\ r \notin Created
  BY <1>1 DEF Created, TypeOK
<1>5. \A q \in Requests : request'[q] = "insert" => q # r /\ request[q] = "insert" /\ reqSeq[q] # s
  BY <1>1 DEF Accounting, OneHolder, TypeOK, s
<1>6. RowOfRegistration' /\ Floor'
  BY <1>1, <1>3 DEF Accounting, RowOfRegistration, Floor
<1>7. RowOfRequest'
  BY <1>1, <1>2 DEF Accounting, RowOfRequest, TypeOK, s
<1>8. OneHolder'
  BY <1>1, <1>5 DEF Accounting, OneHolder
<1>9. NextInLine'
  <2>1. \A q \in Requests : request'[q] = "insert" => reqSeq[q] \in registered \ {s}
    BY <1>5 DEF Accounting, RowOfRequest
  <2> QED BY <1>1, <1>3, <1>5, <2>1 DEF Accounting, NextInLine
<1>10. PlanIsCovered'
  <2> SUFFICES ASSUME NEW a \in Annulments, Planning(a)
               PROVE  /\ simSeq[a] \in registered
                      /\ \A n \in Number : currentNumber'[simSeq[a]] < n /\ n <= simCurrent[a]
                                             => Covers(a, n)
    BY <1>1 DEF PlanIsCovered, Planning, Covers
  <2> QED BY <1>3 DEF Accounting, PlanIsCovered, Number
<1>11. CounterCoversInvoices'
  <2> SUFFICES ASSUME NEW q \in Created'
               PROVE  reqNumber[q] \in startNumber[reqSeq[q]] .. currentNumber'[reqSeq[q]]
    BY <1>1 DEF CounterCoversInvoices
  <2>1. CASE q = r
    BY <1>1, <1>2, <1>3, <2>1 DEF Larger, s
  <2>2. CASE q \in Created
    <3>1. reqSeq[q] \in registered
      BY <2>2 DEF Accounting, RowOfRequest, Created
    <3> QED BY <1>3, <2>2, <3>1 DEF Accounting, CounterCoversInvoices, Created
  <2> QED BY <1>4, <2>1, <2>2
<1>12. NoOrphanSecuencial'
  <2> SUFFICES ASSUME NEW t \in registered, NEW n \in startNumber[t] .. currentNumber'[t]
               PROVE  \/ \E q \in Created' : reqSeq[q] = t /\ reqNumber[q] = n
                      \/ Annulled(n)
                      \/ \E q \in Created' : reqSeq[q] = t /\ reqOverride[q] # 0 /\ n < reqNumber[q]
    BY <1>1 DEF NoOrphanSecuencial, Annulled, Covers
  <2>1. CASE n <= currentNumber[t]
    <3>1. n \in startNumber[t] .. currentNumber[t]
      BY <1>3, <2>1
    <3> QED BY <1>4, <3>1 DEF Accounting, NoOrphanSecuencial
  <2>2. CASE ~(n <= currentNumber[t])
    <3>1. t = s /\ currentNumber[s] < n /\ n <= reqNumber[r]
      BY <1>3, <2>2 DEF Larger
    <3>2. CASE n = reqNumber[r]
      BY <1>4, <3>1, <3>2 DEF s
    <3>3. CASE n < reqNumber[r]
      <4>1. reqOverride[r] # 0
        BY <1>2, <1>3, <3>1, <3>3
      <4> QED BY <1>4, <3>1, <3>3, <4>1 DEF s
    <3> QED BY <1>3, <3>1, <3>2, <3>3
  <2> QED BY <2>1, <2>2
<1> QED BY <1>6, <1>7, <1>8, <1>9, <1>10, <1>11, <1>12 DEF Accounting

\* An annulment that has not been applied touches only its own plan, and its
\* plan skips no number outside its ranges.
LEMMA AccountingPlan ==
  ASSUME TypeOK, Accounting, NEW a \in Annulments,
         annulment[a] # "ACCEPTED", annulment'[a] # "ACCEPTED",
         \A b \in Annulments \ {a} : /\ annulment'[b] = annulment[b]
                                     /\ annRanges'[b] = annRanges[b]
                                     /\ simSeq'[b] = simSeq[b]
                                     /\ simCurrent'[b] = simCurrent[b],
         Planning(a)' => /\ simSeq'[a] \in registered
                         /\ \A n \in Number : currentNumber[simSeq'[a]] < n /\ n <= simCurrent'[a]
                                                => Covers(a, n)',
         UNCHANGED <<seqVars, registration, reqVars>>
  PROVE  Accounting'
<1>1. UNCHANGED <<registered, startNumber, currentNumber, registration, request, reqSeq, reqNumber,
                  reqCurrent, reqOverride, Created>>
  BY DEF seqVars, reqVars, Created
<1>2. (RowOfRegistration /\ Floor /\ RowOfRequest /\ OneHolder /\ NextInLine)'
  BY <1>1 DEF Accounting, RowOfRegistration, Floor, RowOfRequest, OneHolder, NextInLine
<1>3. CounterCoversInvoices'
  BY <1>1 DEF Accounting, CounterCoversInvoices
<1>4. PlanIsCovered'
  BY <1>1 DEF Accounting, PlanIsCovered, Planning, Covers
<1>5. \A n : Annulled(n)' <=> Annulled(n)
  BY DEF Annulled, Covers
<1>6. NoOrphanSecuencial'
  BY <1>1, <1>5 DEF Accounting, NoOrphanSecuencial
<1> QED BY <1>2, <1>3, <1>4, <1>6 DEF Accounting

\* The snapshot plans from the live counter: it skips nothing yet.
LEMMA AccountingSnapshot ==
  ASSUME TypeOK, Accounting, NEW a \in Annulments, NEW ranges \in AnnulLists,
         AnnulSnapshot(a, ranges)
  PROVE  Accounting'
<1>1. /\ annulment[a] = "idle"
      /\ annRanges' = [annRanges EXCEPT ![a] = ranges]
      /\ UNCHANGED <<seqVars, registration, reqVars, annNext>>
  BY DEF AnnulSnapshot
<1>2. CASE Active = {} \/ ranges = <<>>
  <2>1. /\ annulment' = [annulment EXCEPT ![a] = "INVALID"]
        /\ UNCHANGED simVars
    BY <1>2 DEF AnnulSnapshot, Goto
  <2> QED BY <1>1, <2>1, AccountingPlan DEF Planning, TypeOK, simVars
<1>3. CASE ~(Active = {} \/ ranges = <<>>)
  <2>1. PICK s \in Active : /\ annulment' = [annulment EXCEPT ![a] = "validate"]
                            /\ simSeq' = [simSeq EXCEPT ![a] = s]
                            /\ simCurrent' = [simCurrent EXCEPT ![a] = currentNumber[s]]
    BY <1>3 DEF AnnulSnapshot, Goto
  <2>2. /\ s \in registered /\ currentNumber[s] \in Int
        /\ simSeq'[a] = s /\ simCurrent'[a] = currentNumber[s] /\ annulment'[a] = "validate"
    BY <2>1 DEF Active, TypeOK
  <2>3. \A n \in Number : ~(currentNumber[s] < n /\ n <= currentNumber[s])
    BY <2>2 DEF Number
  <2> QED BY <1>1, <2>1, <2>2, <2>3, AccountingPlan DEF TypeOK
<1> QED BY <1>2, <1>3

\* A range that advances the planned counter starts at or below the number
\* after it, so it covers every number it skips.
LEMMA AccountingValidate ==
  ASSUME TypeOK, Accounting, NEW a \in Annulments, AnnulValidate(a)
  PROVE  Accounting'
<1> DEFINE from == annRanges[a][annNext[a]][1]
           to   == annRanges[a][annNext[a]][2]
           aboveFrom == Larger(from, simCurrent[a] + 1)
<1>1. /\ annulment[a] = "validate"
      /\ annNext[a] <= Len(annRanges[a])
      /\ UNCHANGED <<seqVars, registration, reqVars, annRanges>>
  BY DEF AnnulValidate
<1>2. /\ annNext[a] \in DOMAIN annRanges[a]
      /\ from \in Number /\ to \in Number /\ simCurrent[a] \in Int
      /\ \A n \in from .. to : Covers(a, n)
  BY <1>1, SequencesAssumption DEF TypeOK, Covers, Number
<1>3. CASE ~ValidRange(a, from, to)
  <2>1. annulment' = [annulment EXCEPT ![a] = "INVALID"] /\ UNCHANGED simVars
    BY <1>3 DEF AnnulValidate, Goto
  <2> QED BY <1>1, <2>1, AccountingPlan DEF Planning, TypeOK, simVars
<1>4. CASE ValidRange(a, from, to)
  <2>1. /\ UNCHANGED <<annulment, simSeq>>
        /\ simCurrent' = [simCurrent EXCEPT ![a] =
             IF aboveFrom <= to /\ aboveFrom = simCurrent[a] + 1 /\ ~(to = simEnd[a])
             THEN to ELSE @]
    BY <1>4 DEF AnnulValidate
  <2>2. \A n \in Number : n <= simCurrent'[a] => n <= simCurrent[a] \/ n \in from .. to
    BY <1>2, <2>1 DEF Larger, TypeOK, Number
  <2>3. /\ simSeq[a] \in registered
        /\ \A n \in Number : currentNumber[simSeq[a]] < n /\ n <= simCurrent'[a] => Covers(a, n)
    BY <1>1, <1>2, <2>2 DEF Accounting, PlanIsCovered, Planning
  <2>4. \A n : Covers(a, n)' <=> Covers(a, n)
    BY <1>1 DEF Covers
  <2>5. \A b \in Annulments \ {a} : simCurrent'[b] = simCurrent[b]
    BY <2>1 DEF TypeOK
  <2> HIDE DEF from, to, aboveFrom
  <2>6. annulment'[a] # "ACCEPTED" /\ annulment[a] # "ACCEPTED"
    BY <1>1, <2>1
  <2>7. /\ \A b \in Annulments \ {a} : /\ annulment'[b] = annulment[b]
                                      /\ annRanges'[b] = annRanges[b]
                                      /\ simSeq'[b] = simSeq[b]
                                      /\ simCurrent'[b] = simCurrent[b]
        /\ simSeq'[a] \in registered
        /\ \A n \in Number : currentNumber[simSeq'[a]] < n /\ n <= simCurrent'[a] => Covers(a, n)'
    BY <1>1, <2>1, <2>3, <2>4, <2>5
  <2> QED BY <1>1, <2>6, <2>7, AccountingPlan
<1> QED BY <1>3, <1>4

\* Sending the ANECF, and an answer that is not the applied acceptance.
LEMMA AccountingAnswered ==
  ASSUME TypeOK, Accounting, NEW a \in Annulments,
         AnnulPersist(a) \/ \E outcome \in {"accepted", "REJECTED", "PENDING"} : AnnulAnswer(a, outcome)
  PROVE  Accounting'
<1>1. /\ Planning(a) /\ annulment'[a] \in {"submitted", "accepted", "REJECTED", "PENDING"}
      /\ \A b \in Annulments \ {a} : annulment'[b] = annulment[b]
      /\ UNCHANGED <<seqVars, registration, reqVars, annRanges, simSeq, simCurrent>>
  BY DEF AnnulPersist, AnnulAnswer, Goto, Planning, TypeOK, simVars
<1>2. /\ simSeq[a] \in registered
      /\ \A n \in Number : currentNumber[simSeq[a]] < n /\ n <= simCurrent[a] => Covers(a, n)
  BY <1>1 DEF Accounting, PlanIsCovered
<1>3. \A n : Covers(a, n)' <=> Covers(a, n)
  BY <1>1 DEF Covers
<1>4. annulment[a] # "ACCEPTED" /\ annulment'[a] # "ACCEPTED"
  BY <1>1 DEF Planning
<1> QED BY <1>1, <1>2, <1>3, <1>4, AccountingPlan

\* The accepted plan moves the counter only over numbers that become annulled
\* in the same transaction.
LEMMA AccountingApply ==
  ASSUME TypeOK, Accounting, NEW a \in Annulments, AnnulApply(a)
  PROVE  Accounting'
<1> DEFINE s == simSeq[a]
<1>1. /\ annulment[a] = "accepted" /\ ~Locked(s)
      /\ annulment' = [annulment EXCEPT ![a] = "ACCEPTED"]
      /\ UNCHANGED <<registered, startNumber, registration, reqVars, annRanges, simSeq, simCurrent>>
  BY DEF AnnulApply, Goto, simVars
<1>2. /\ s \in registered /\ s \in Registrations
      /\ \A n \in Number : currentNumber[s] < n /\ n <= simCurrent[a] => Covers(a, n)
  BY <1>1 DEF Accounting, PlanIsCovered, Planning, TypeOK
<1>3. /\ \A t \in Registrations \ {s} : currentNumber'[t] = currentNumber[t]
      /\ currentNumber'[s] \in {currentNumber[s], Larger(currentNumber[s], simCurrent[a])}
      /\ currentNumber' \in [Registrations -> 0 .. MaxNumber]
  <2>1. CASE simActive[a]
    <3>1. currentNumber' = [currentNumber EXCEPT ![s] = Larger(currentNumber[s], simCurrent[a])]
      BY <2>1 DEF AnnulApply, AppliedCurrent
    <3>2. Larger(currentNumber[s], simCurrent[a]) \in 0 .. MaxNumber
      BY <1>2 DEF Larger, TypeOK
    <3> QED BY <1>2, <3>1, <3>2 DEF TypeOK
  <2>2. CASE ~simActive[a]
    BY <2>2 DEF AnnulApply, TypeOK
  <2> QED BY <2>1, <2>2
<1> HIDE DEF s
<1>4. /\ \A t \in registered : /\ currentNumber[t] <= currentNumber'[t]
                               /\ currentNumber[t] \in Int /\ currentNumber'[t] \in Int
                               /\ startNumber[t] \in Number
      /\ \A q \in Requests : reqNumber[q] \in Int
  <2>1. \A q \in Requests : reqNumber[q] \in Int
    BY DEF TypeOK
  <2> SUFFICES ASSUME NEW t \in registered
               PROVE  /\ currentNumber[t] <= currentNumber'[t]
                      /\ currentNumber[t] \in Int /\ currentNumber'[t] \in Int
                      /\ startNumber[t] \in Number
    BY <2>1
  <2>2. t \in Registrations
    BY DEF TypeOK
  <2>3. /\ currentNumber[t] \in Int /\ currentNumber'[t] \in Int
        /\ startNumber[t] \in Number /\ simCurrent[a] \in Int
    BY <1>3, <2>2, SequencesAssumption DEF TypeOK
  <2>4. currentNumber'[t] \in {currentNumber[t], Larger(currentNumber[t], simCurrent[a])}
    BY <1>3, <2>2
  <2> QED BY <2>3, <2>4 DEF Larger
<1>5. /\ UNCHANGED <<request, reqSeq, reqNumber, reqCurrent, reqOverride, Created>>
      /\ \A r \in Requests : request[r] = "insert" => /\ reqSeq[r] # s
                                                      /\ reqSeq[r] \in registered
                                                      /\ reqSeq[r] \in Registrations
  BY <1>1 DEF reqVars, Created, Locked, Accounting, RowOfRequest, TypeOK
<1>6. (RowOfRegistration /\ Floor /\ RowOfRequest /\ OneHolder)'
  BY <1>1, <1>4, <1>5 DEF Accounting, RowOfRegistration, Floor, RowOfRequest, OneHolder, Number
<1>7. NextInLine'
  BY <1>1, <1>3, <1>5 DEF Accounting, NextInLine
<1>8. PlanIsCovered'
  <2> SUFFICES ASSUME NEW b \in Annulments, Planning(b)
               PROVE  /\ simSeq[b] \in registered
                      /\ \A n \in Number : currentNumber'[simSeq[b]] < n /\ n <= simCurrent[b]
                                             => Covers(b, n)
    BY <1>1 DEF PlanIsCovered, Planning, Covers, TypeOK
  <2> QED BY <1>4 DEF Accounting, PlanIsCovered, Number
<1>9. CounterCoversInvoices'
  <2> SUFFICES ASSUME NEW q \in Created
               PROVE  reqNumber[q] \in startNumber[reqSeq[q]] .. currentNumber'[reqSeq[q]]
    BY <1>1, <1>5 DEF CounterCoversInvoices
  <2>1. q \in Requests /\ reqSeq[q] \in registered
    BY DEF Accounting, RowOfRequest, Created
  <2> QED BY <1>4, <2>1 DEF Accounting, CounterCoversInvoices, Number
<1>10. NoOrphanSecuencial'
  <2>1. \A n : Annulled(n) => Annulled(n)'
    BY <1>1 DEF Annulled, Covers, TypeOK
  <2>2. \A n : Covers(a, n) => Annulled(n)'
    BY <1>1 DEF Annulled, Covers, TypeOK
  <2> SUFFICES ASSUME NEW t \in registered, NEW n \in startNumber[t] .. currentNumber'[t]
               PROVE  \/ \E q \in Created : reqSeq[q] = t /\ reqNumber[q] = n
                      \/ Annulled(n)'
                      \/ \E q \in Created : reqSeq[q] = t /\ reqOverride[q] # 0 /\ n < reqNumber[q]
    BY <1>1, <1>5 DEF NoOrphanSecuencial
  <2>3. CASE n <= currentNumber[t]
    <3>1. n \in startNumber[t] .. currentNumber[t]
      BY <1>4, <2>3 DEF Number
    <3> QED BY <2>1, <3>1 DEF Accounting, NoOrphanSecuencial
  <2>4. CASE ~(n <= currentNumber[t])
    <3>1. t = s
      BY <1>3, <1>4, <2>4 DEF TypeOK, Number
    <3>2. n \in Number
      <4>1. currentNumber'[t] \in 0 .. MaxNumber /\ startNumber[t] \in 1 .. MaxNumber
        BY <1>2, <1>3, <1>4, <3>1 DEF Number
      <4> QED BY <4>1, SequencesAssumption DEF Number
    <3>3. currentNumber[s] < n /\ n <= simCurrent[a]
      BY <1>3, <1>4, <2>4, <3>1, <3>2 DEF Larger, Number, TypeOK
    <3> QED BY <1>2, <2>2, <3>2, <3>3
  <2> QED BY <2>3, <2>4
<1> QED BY <1>6, <1>7, <1>8, <1>9, <1>10 DEF Accounting

\* Before the first call there is nothing to account for.
LEMMA AccountingInit == Init => Accounting
BY DEF Init, Accounting, RowOfRegistration, Floor, RowOfRequest, OneHolder, NextInLine,
       PlanIsCovered, Planning, CounterCoversInvoices, NoOrphanSecuencial, Created

\* No action of any call disturbs the accounting.
LEMMA AccountingStep == TypeOK /\ Accounting /\ [Next]_vars => Accounting'
<1> SUFFICES ASSUME TypeOK, Accounting, [Next]_vars PROVE Accounting'
  OBVIOUS
<1>1. ASSUME NEW c \in Registrations, RegistrationStep(c) PROVE Accounting'
  BY <1>1, AccountingRegistration
<1>2. ASSUME NEW s \in Registrations, Expire(s) PROVE Accounting'
  BY <1>2, AccountingFrame DEF Expire, AccountingVars, reqVars, annVars, simVars
<1>3. ASSUME NEW r \in Requests, NEW override \in Overrides \cup {0}, Receive(r, override)
      PROVE Accounting'
  <2>1. request[r] = "idle" /\ request'[r] \in {"REPLAYED", "received"}
    BY <1>3 DEF Receive, Answer, TypeOK
  <2> QED BY <1>3, <2>1, AccountingAnswer DEF Receive, Answer, TypeOK
<1>4. ASSUME NEW r \in Requests, EmissionStep(r) PROVE Accounting'
  <2>1. ASSUME Recheck(r) PROVE Accounting'
    <3>1. request[r] = "received" /\ request'[r] \in {"REPLAYED", "assign"}
      BY <2>1 DEF Recheck, Answer, TypeOK
    <3> QED BY <2>1, <3>1, AccountingAnswer DEF Recheck, Answer, TypeOK
  <2>2. ASSUME AssignNoSequence(r) PROVE Accounting'
    BY <2>2, AccountingAnswer DEF AssignNoSequence, Answer, TypeOK
  <2>3. ASSUME NEW s \in Registrations, AssignRefuse(r, s) PROVE Accounting'
    <3>1. request[r] = "assign" /\ request'[r] \in {"EXPIRED", "OUT_OF_RANGE", "EXHAUSTED"}
      BY <2>3 DEF AssignRefuse, Refusal, TypeOK
    <3> QED BY <2>3, <3>1, AccountingAnswer DEF AssignRefuse, TypeOK
  <2>4. ASSUME NEW s \in Registrations, Assign(r, s) PROVE Accounting'
    BY <2>4, AccountingAssign
  <2>5. ASSUME Commit(r) PROVE Accounting'
    BY <2>5, AccountingCommit
  <2>6. ASSUME InsertConflict(r) PROVE Accounting'
    <3>1. request[r] = "insert" /\ request'[r] \in {"DUPLICATE_ENCF", "DUPLICATE_KEY"}
      BY <2>6 DEF InsertConflict, Answer, TypeOK
    <3>2. \A q \in Requests \ {r} : request'[q] = request[q]
      BY <2>6 DEF InsertConflict, Answer, TypeOK
    <3>3. UNCHANGED <<reqSeq, reqOverride, reqNumber, reqCurrent, seqVars, registration, annVars>>
      BY <2>6 DEF InsertConflict, Answer
    <3> QED BY <3>1, <3>2, <3>3, AccountingAnswer
  <2> QED BY <1>4, <2>1, <2>2, <2>3, <2>4, <2>5, <2>6 DEF EmissionStep
<1>5. ASSUME NEW r \in Requests, Rollback(r) PROVE Accounting'
  BY <1>5, AccountingAnswer DEF Rollback, Answer, TypeOK
<1>6. ASSUME NEW r \in Requests, NEW st \in {"PENDING", "ACCEPTED", "REJECTED", "ERROR"},
             Progress(r, st)
      PROVE Accounting'
  BY <1>6, AccountingFrame DEF Progress, AccountingVars, seqVars, annVars, simVars
<1>7. ASSUME NEW a \in Annulments, NEW ranges \in AnnulLists, AnnulSnapshot(a, ranges)
      PROVE Accounting'
  BY <1>7, AccountingSnapshot
<1>8. ASSUME NEW a \in Annulments, AnnulmentStep(a) PROVE Accounting'
  BY <1>8, AccountingValidate, AccountingAnswered, AccountingApply DEF AnnulmentStep
<1>9. CASE UNCHANGED vars
  BY <1>9, AccountingFrame DEF AccountingVars, vars, seqVars, reqVars, annVars, simVars
<1> QED
  BY <1>1, <1>2, <1>3, <1>4, <1>5, <1>6, <1>7, <1>8, <1>9 DEF Next

\* The accounting holds in every reachable state: the strengthening of C1.
LEMMA AccountingInvariant == Spec => [](TypeOK /\ Accounting)
<1>1. Init => TypeOK /\ Accounting
  BY AccountingInit, SequencesAssumption
     DEF Init, TypeOK, Number, RequestStates, AnnulmentStates
<1>2. TypeOK /\ Accounting /\ [Next]_vars => (TypeOK /\ Accounting)'
  BY TypeStep, AccountingStep
<1> QED BY <1>1, <1>2, PTL DEF Spec

\* C1, for every number of concurrent emissions, registrations and annulments:
\* a number the counter passed has an invoice, is annulled, or was skipped by
\* a larger encfOverride.
THEOREM NoOrphan == Spec => []NoOrphanSecuencial
<1>1. Accounting => NoOrphanSecuencial
  BY DEF Accounting
<1> QED BY <1>1, AccountingInvariant, PTL

\* The counter of a row is at or above the number of each of its invoices, so
\* the row never gives the number of an invoice again.
THEOREM CounterCovers == Spec => []CounterCoversInvoices
<1>1. Accounting => CounterCoversInvoices
  BY DEF Accounting
<1> QED BY <1>1, AccountingInvariant, PTL

\* No commit, however late, and no annulment plan, however stale, moves the
\* counter of a stored row back.
THEOREM CounterMonotone == Spec => CounterNeverGoesBack
<1>1. TypeOK /\ Accounting /\ [Next]_vars
        => [\A s \in registered : currentNumber'[s] >= currentNumber[s]]_vars
  <2> SUFFICES ASSUME TypeOK, Accounting, Next, NEW s \in registered
               PROVE  currentNumber'[s] >= currentNumber[s]
    OBVIOUS
  <2>1. s \in Registrations /\ currentNumber[s] \in Int
    BY DEF TypeOK
  <2>2. CASE UNCHANGED currentNumber
    BY <2>1, <2>2
  <2>3. ASSUME NEW c \in Registrations, CreateInsert(c) PROVE currentNumber'[s] >= currentNumber[s]
    <3>1. s # c
      BY <2>3 DEF CreateInsert, Accounting, RowOfRegistration
    <3>2. CASE Active = {}
      BY <2>1, <2>3, <3>1, <3>2 DEF CreateInsert, ActiveIndexRefuses, TypeOK
    <3>3. CASE Active # {}
      BY <2>1, <2>3, <3>3 DEF CreateInsert, ActiveIndexRefuses, TypeOK
    <3> QED BY <3>2, <3>3
  <2>4. ASSUME NEW r \in Requests, Commit(r) PROVE currentNumber'[s] >= currentNumber[s]
    <3>1. /\ reqCurrent[r] = Larger(currentNumber[reqSeq[r]], reqNumber[r])
          /\ reqNumber[r] \in Int
          /\ currentNumber' = [currentNumber EXCEPT ![reqSeq[r]] = reqCurrent[r]]
      BY <2>4 DEF Commit, Accounting, NextInLine, TypeOK
    <3> QED BY <2>1, <3>1 DEF Larger, TypeOK
  <2>5. ASSUME NEW a \in Annulments, AnnulApply(a) PROVE currentNumber'[s] >= currentNumber[s]
    <3>1. simCurrent[a] \in Int
      BY DEF TypeOK
    <3>2. CASE simActive[a]
      <4>1. currentNumber' = [currentNumber EXCEPT ![simSeq[a]] = AppliedCurrent(a, simSeq[a])]
        BY <2>5, <3>2 DEF AnnulApply
      <4> QED BY <2>1, <3>1, <4>1 DEF AppliedCurrent, Larger, TypeOK
    <3>3. CASE ~simActive[a]
      BY <2>1, <2>5, <3>3 DEF AnnulApply
    <3> QED BY <3>2, <3>3
  <2>6. \/ UNCHANGED currentNumber
        \/ \E c \in Registrations : CreateInsert(c)
        \/ \E r \in Requests : Commit(r)
        \/ \E a \in Annulments : AnnulApply(a)
    BY DEF Next, RegistrationStep, EmissionStep, AnnulmentStep, CreateCheckOverlap,
           CreateCheckActive, Expire, Receive, Recheck, AssignNoSequence, AssignRefuse, Assign,
           InsertConflict, Rollback, Progress, AnnulSnapshot, AnnulValidate, AnnulPersist,
           AnnulAnswer, seqVars
  <2> QED BY <2>2, <2>3, <2>4, <2>5, <2>6
<1> QED BY <1>1, AccountingInvariant, PTL DEF Spec, CounterNeverGoesBack

-----------------------------------------------------------------------------
(* What the unique indexes give, for every number of calls. *)

Indexed == EncfIssuedOnce /\ OneInvoicePerKey /\ OneActiveSequence

\* Only a commit adds an invoice, and it keeps both indexes of invoices.
LEMMA InvoiceIndexes ==
  ASSUME TypeOK, EncfIssuedOnce, OneInvoicePerKey, [Next]_vars
  PROVE  (EncfIssuedOnce /\ OneInvoicePerKey)'
<1>1. ASSUME NEW r \in Requests, Commit(r) PROVE (EncfIssuedOnce /\ OneInvoicePerKey)'
  <2>1. Created' = Created \cup {r} /\ reqNumber' = reqNumber
    BY <1>1 DEF Commit, Created, TypeOK
  <2>2. /\ \A q \in Created : reqNumber[q] # reqNumber[r]
        /\ \A q \in Created : KeyOf[q] = KeyOf[r] => KeyOf[r] = NoKey
    BY <1>1 DEF Commit, IndexRefuses, NumberTaken, KeyTaken
  <2> QED BY <2>1, <2>2 DEF EncfIssuedOnce, OneInvoicePerKey
<1>2. CASE ~ \E r \in Requests : Commit(r)
  <2>1. Created' = Created /\ \A q \in Created : reqNumber'[q] = reqNumber[q]
    <3>1. CASE UNCHANGED <<request, reqNumber>>
      BY <3>1 DEF Created
    <3>2. ASSUME NEW r \in Requests, r \notin Created, request'[r] # "CREATED",
                 \A q \in Requests \ {r} : request'[q] = request[q] /\ reqNumber'[q] = reqNumber[q]
          PROVE  Created' = Created /\ \A q \in Created : reqNumber'[q] = reqNumber[q]
      BY <3>2 DEF Created
    <3>3. ASSUME NEW r \in Requests, NEW override \in Overrides \cup {0}, Receive(r, override)
          PROVE  Created' = Created /\ \A q \in Created : reqNumber'[q] = reqNumber[q]
      BY <3>2, <3>3 DEF Receive, Answer, Created, TypeOK
    <3>4. ASSUME NEW r \in Requests, EmissionStep(r)
          PROVE  Created' = Created /\ \A q \in Created : reqNumber'[q] = reqNumber[q]
      <4>1. CASE Recheck(r)
        BY <3>2, <4>1 DEF Recheck, Answer, Created, TypeOK
      <4>2. CASE AssignNoSequence(r)
        BY <3>2, <4>2 DEF AssignNoSequence, Answer, Created, TypeOK
      <4>3. ASSUME NEW s \in Registrations, AssignRefuse(r, s)
            PROVE  Created' = Created /\ \A q \in Created : reqNumber'[q] = reqNumber[q]
        BY <3>2, <4>3 DEF AssignRefuse, Refusal, Created, TypeOK
      <4>4. ASSUME NEW s \in Registrations, Assign(r, s)
            PROVE  Created' = Created /\ \A q \in Created : reqNumber'[q] = reqNumber[q]
        <5>1. /\ request[r] = "assign" /\ request'[r] = "insert"
              /\ \A q \in Requests \ {r} : request'[q] = request[q] /\ reqNumber'[q] = reqNumber[q]
          BY <4>4 DEF Assign, TypeOK
        <5> QED BY <3>2, <5>1 DEF Created
      <4>5. CASE InsertConflict(r)
        BY <3>2, <4>5 DEF InsertConflict, Answer, Created, TypeOK
      <4> QED BY <1>2, <3>4, <4>1, <4>2, <4>3, <4>4, <4>5 DEF EmissionStep
    <3>5. ASSUME NEW r \in Requests, Rollback(r)
          PROVE  Created' = Created /\ \A q \in Created : reqNumber'[q] = reqNumber[q]
      BY <3>2, <3>5 DEF Rollback, Answer, Created, TypeOK
    <3>6. \/ UNCHANGED <<request, reqNumber>>
          \/ \E r \in Requests, override \in Overrides \cup {0} : Receive(r, override)
          \/ \E r \in Requests : EmissionStep(r) \/ Rollback(r)
      BY DEF Next, RegistrationStep, AnnulmentStep, CreateCheckOverlap, CreateCheckActive,
             CreateInsert, Expire, Progress, AnnulSnapshot, AnnulValidate, AnnulPersist,
             AnnulAnswer, AnnulApply, reqVars, vars
    <3> QED BY <3>1, <3>3, <3>4, <3>5, <3>6
  <2> QED BY <2>1 DEF EncfIssuedOnce, OneInvoicePerKey
<1> QED BY <1>1, <1>2

\* Only the insert of a registration adds an active row, and the partial index
\* lets it in when there is none.
LEMMA SequenceIndex ==
  ASSUME TypeOK, OneActiveSequence, [Next]_vars
  PROVE  OneActiveSequence'
<1>1. ASSUME NEW c \in Registrations, CreateInsert(c) PROVE OneActiveSequence'
  <2>1. CASE Active = {}
    <3>1. /\ registered' = registered \cup {c}
          /\ isActive' = [isActive EXCEPT ![c] = TRUE]
      BY <1>1, <2>1 DEF CreateInsert, ActiveIndexRefuses
    <3>2. \A s \in Registrations \ {c} : s \notin Active'
      BY <2>1, <3>1 DEF Active, TypeOK
    <3>3. Active' \subseteq {c}
      BY <3>1, <3>2 DEF Active, TypeOK
    <3> QED BY <3>3 DEF OneActiveSequence
  <2>2. CASE Active # {}
    BY <1>1, <2>2 DEF CreateInsert, ActiveIndexRefuses, OneActiveSequence, Active
  <2> QED BY <2>1, <2>2
<1>2. ASSUME Active' \subseteq Active PROVE OneActiveSequence'
  BY <1>2 DEF OneActiveSequence
<1>3. ASSUME NEW a \in Annulments, AnnulApply(a) PROVE OneActiveSequence'
  <2>1. CASE simActive[a]
    BY <1>2, <1>3, <2>1 DEF AnnulApply, Active
  <2>2. CASE ~simActive[a]
    <3>1. isActive' = [isActive EXCEPT ![simSeq[a]] = FALSE] /\ registered' = registered
      BY <1>3, <2>2 DEF AnnulApply
    <3> QED BY <1>2, <3>1 DEF Active, TypeOK
  <2> QED BY <2>1, <2>2
<1>4. \/ UNCHANGED <<registered, isActive>>
      \/ \E c \in Registrations : CreateInsert(c)
      \/ \E a \in Annulments : AnnulApply(a)
  BY DEF Next, RegistrationStep, EmissionStep, AnnulmentStep, CreateCheckOverlap,
         CreateCheckActive, Expire, Receive, Recheck, AssignNoSequence, AssignRefuse, Assign,
         Commit, InsertConflict, Rollback, Progress, AnnulSnapshot, AnnulValidate, AnnulPersist,
         AnnulAnswer, seqVars, vars
<1>5. CASE UNCHANGED <<registered, isActive>>
  BY <1>2, <1>5 DEF Active
<1> QED BY <1>1, <1>3, <1>4, <1>5

\* The three uniqueness rules hold in every reachable state.
LEMMA IndexedInvariant == Spec => []Indexed
<1>1. Init => Indexed
  BY DEF Init, Indexed, EncfIssuedOnce, OneInvoicePerKey, OneActiveSequence, Created, Active
<1>2. TypeOK /\ Indexed /\ [Next]_vars => Indexed'
  BY InvoiceIndexes, SequenceIndex DEF Indexed
<1> QED BY <1>1, <1>2, TypeCorrect, PTL DEF Spec

\* No eNCF is issued twice, however registrations, annulments and emissions race.
THEOREM IssuedOnce == Spec => []EncfIssuedOnce
<1>1. Indexed => EncfIssuedOnce
  BY DEF Indexed
<1> QED BY <1>1, IndexedInvariant, PTL

\* An idempotency key gets at most one invoice, for any number of calls with it.
THEOREM OnePerKey == Spec => []OneInvoicePerKey
<1>1. Indexed => OneInvoicePerKey
  BY DEF Indexed
<1> QED BY <1>1, IndexedInvariant, PTL

\* At most one row of a (company, type) is active, for any number of registrations.
THEOREM OneActive == Spec => []OneActiveSequence
<1>1. Indexed => OneActiveSequence
  BY DEF Indexed
<1> QED BY <1>1, IndexedInvariant, PTL

-----------------------------------------------------------------------------
(* The promise of the numbering: EncfRegistry.                              *)

Pending == {"idle", "received", "assign", "insert"}

\* What the callers see does not change while rows, registrations and plans do.
LEMMA RegistryStutters ==
  ASSUME UNCHANGED <<request, reqNumber, annulment, annRanges>>
  PROVE  UNCHANGED Registry!registryVars
BY DEF Registry!registryVars, AnswerOf, Annulled, Covers

\* An invoice has a number, so the registry sees it as issued.
LEMMA IssuedIsCreated ==
  ASSUME TypeOK, Accounting
  PROVE  \A r \in Created : reqNumber[r] \in Number
<1> SUFFICES ASSUME NEW r \in Created PROVE reqNumber[r] \in Number
  OBVIOUS
<1>1. r \in Requests /\ request[r] = "CREATED"
  BY DEF Created
<1>2. reqSeq[r] \in Registrations
  BY <1>1 DEF Accounting, RowOfRequest, TypeOK
<1>3. startNumber[reqSeq[r]] \in Number /\ reqNumber[r] \in 0 .. MaxNumber
  BY <1>1, <1>2 DEF TypeOK
<1>4. reqNumber[r] >= startNumber[reqSeq[r]]
  BY <1>2, <1>3, SequencesAssumption DEF Accounting, CounterCoversInvoices, Number, TypeOK
<1> QED BY <1>3, <1>4, SequencesAssumption DEF Number

\* A call that gets an answer other than an invoice is refused, waits on, or is
\* answered with the invoice of its key.
LEMMA RegistryAnswers ==
  ASSUME TypeOK, Accounting, NEW r \in Requests, NEW a,
         request[r] \in Pending, request' = [request EXCEPT ![r] = a], a # "CREATED",
         a = "REPLAYED" => KeyTaken(r),
         \A q \in Requests \ {r} : reqNumber'[q] = reqNumber[q],
         UNCHANGED <<annulment, annRanges>>
  PROVE  [Registry!RegistryNext]_(Registry!registryVars)
<1> DEFINE answers == [q \in Requests |-> AnswerOf(q)]
           numbers == [q \in Requests |-> IF request[q] = "CREATED" THEN reqNumber[q] ELSE 0]
           gone    == {n \in Number : Annulled(n)}
<1>1. gone' = gone
  BY DEF Annulled, Covers
<1>2. request'[r] = a /\ \A q \in Requests \ {r} : request'[q] = request[q]
  BY DEF TypeOK
<1>3. numbers' = numbers
  BY <1>2 DEF Pending
<1>4. answers[r] = "pending" /\ answers' = [answers EXCEPT ![r] = AnswerOf(r)']
  BY <1>2 DEF Pending, AnswerOf
<1>5. CASE a \in Pending
  <2>1. answers' = answers
    BY <1>2, <1>4, <1>5 DEF Pending, AnswerOf
  <2> QED BY <1>1, <1>3, <2>1 DEF Registry!registryVars
<1>6. CASE a = "REPLAYED"
  <2>1. AnswerOf(r)' = "replayed"
    BY <1>2, <1>6 DEF AnswerOf
  <2>2. PICK q \in Created : KeyOf[q] = KeyOf[r]
    BY <1>6 DEF KeyTaken
  <2>3. numbers[q] # 0
    BY <2>2, IssuedIsCreated, SequencesAssumption DEF Created, Number
  <2>4. Registry!Repeated(r)
    BY <1>6, <2>2, <2>3 DEF Registry!Repeated, Registry!Issued, KeyTaken, Created
  <2>5. Registry!Replay(r)
    BY <1>1, <1>3, <1>4, <2>1, <2>4 DEF Registry!Replay, Registry!Answer
  <2> QED BY <2>5 DEF Registry!RegistryNext
<1>7. CASE a \notin Pending \cup {"REPLAYED"}
  <2>1. AnswerOf(r)' = "refused"
    BY <1>2, <1>7 DEF AnswerOf, Pending
  <2>2. Registry!Refuse(r)
    BY <1>1, <1>3, <1>4, <2>1 DEF Registry!Refuse, Registry!Answer
  <2> QED BY <2>2 DEF Registry!RegistryNext
<1> QED BY <1>5, <1>6, <1>7

\* The commit of an emission issues a number: the two indexes let it in when its
\* key and its number have no invoice.
LEMMA RegistryIssues ==
  ASSUME TypeOK, Accounting, NEW r \in Requests, Commit(r)
  PROVE  Registry!RegistryNext
<1> DEFINE answers == [q \in Requests |-> AnswerOf(q)]
           numbers == [q \in Requests |-> IF request[q] = "CREATED" THEN reqNumber[q] ELSE 0]
           gone    == {n \in Number : Annulled(n)}
<1>1. /\ request[r] = "insert" /\ ~NumberTaken(reqNumber[r]) /\ ~KeyTaken(r)
      /\ request' = [request EXCEPT ![r] = "CREATED"]
      /\ UNCHANGED <<reqNumber, annulment, annRanges>>
  BY DEF Commit, IndexRefuses, annVars
<1>2. gone' = gone
  BY <1>1 DEF Annulled, Covers
<1>3. answers[r] = "pending" /\ answers' = [answers EXCEPT ![r] = "created"]
  BY <1>1 DEF AnswerOf, TypeOK
<1>4. reqNumber[r] \in Number
  <2>1. reqSeq[r] \in Registrations
    BY <1>1 DEF Accounting, RowOfRequest, TypeOK
  <2>2. startNumber[reqSeq[r]] \in Number /\ reqNumber[r] \in 0 .. MaxNumber
    BY <2>1 DEF TypeOK
  <2> QED BY <1>1, <2>2, SequencesAssumption DEF Accounting, NextInLine, Number
<1>5. numbers' = [numbers EXCEPT ![r] = reqNumber[r]]
  BY <1>1 DEF TypeOK
<1>6. \A q \in Registry!Issued : q \in Created /\ numbers[q] = reqNumber[q]
  BY DEF Registry!Issued, Created
<1>7. \A q \in Registry!Issued : numbers[q] # reqNumber[r]
  BY <1>1, <1>6 DEF NumberTaken
<1>8. ~Registry!Repeated(r)
  BY <1>1, <1>6 DEF Registry!Repeated, KeyTaken
<1>9. Registry!Issue(r)
  BY <1>2, <1>3, <1>4, <1>5, <1>7, <1>8 DEF Registry!Issue, Registry!Answer
<1> QED BY <1>9 DEF Registry!RegistryNext

\* An annulment step only adds to the annulled numbers.
LEMMA RegistryAnnuls ==
  ASSUME TypeOK, UNCHANGED <<request, reqNumber>>,
         \A b \in Annulments : annulment[b] = "ACCEPTED" =>
           annulment'[b] = "ACCEPTED" /\ annRanges'[b] = annRanges[b]
  PROVE  Registry!RegistryNext
<1> DEFINE gone == {n \in Number : Annulled(n)}
<1>1. gone \subseteq gone'
  BY DEF Annulled, Covers
<1>2. gone' = gone \cup gone' /\ gone' \in SUBSET Number
  BY <1>1
<1>3. Registry!Annul
  BY <1>2 DEF Registry!Annul, AnswerOf
<1> QED BY <1>3 DEF Registry!RegistryNext

\* Every step of the numbering is a step of the registry, or shows nothing to
\* its callers.
LEMMA RegistryStep ==
  ASSUME TypeOK, Accounting, [Next]_vars
  PROVE  [Registry!RegistryNext]_(Registry!registryVars)
<1>1. ASSUME NEW c \in Registrations, RegistrationStep(c)
      PROVE  UNCHANGED Registry!registryVars
  BY <1>1, RegistryStutters
     DEF RegistrationStep, CreateCheckOverlap, CreateCheckActive, CreateInsert, reqVars, annVars
<1>2. ASSUME NEW s \in Registrations, Expire(s) PROVE UNCHANGED Registry!registryVars
  BY <1>2, RegistryStutters DEF Expire, reqVars, annVars
<1>3. ASSUME NEW r \in Requests, NEW override \in Overrides \cup {0}, Receive(r, override)
      PROVE  [Registry!RegistryNext]_(Registry!registryVars)
  <2> DEFINE a == IF KeyTaken(r) THEN "REPLAYED" ELSE "received"
  <2>1. /\ request[r] \in Pending /\ request' = [request EXCEPT ![r] = a]
        /\ UNCHANGED <<reqNumber, annulment, annRanges>>
    BY <1>3 DEF Receive, Answer, Pending, annVars
  <2>2. a # "CREATED" /\ (a = "REPLAYED" => KeyTaken(r))
    OBVIOUS
  <2> HIDE DEF a
  <2> QED BY <2>1, <2>2, RegistryAnswers
<1>4. ASSUME NEW r \in Requests, EmissionStep(r)
      PROVE  [Registry!RegistryNext]_(Registry!registryVars)
  <2>1. CASE Recheck(r)
    <3> DEFINE a == IF KeyTaken(r) THEN "REPLAYED" ELSE "assign"
    <3>1. /\ request[r] \in Pending /\ request' = [request EXCEPT ![r] = a]
          /\ UNCHANGED <<reqNumber, annulment, annRanges>>
      BY <2>1 DEF Recheck, Answer, Pending, annVars
    <3>2. a # "CREATED" /\ (a = "REPLAYED" => KeyTaken(r))
      OBVIOUS
    <3> HIDE DEF a
    <3> QED BY <3>1, <3>2, RegistryAnswers
  <2>2. CASE AssignNoSequence(r)
    <3>1. /\ request[r] \in Pending /\ request' = [request EXCEPT ![r] = "NO_SEQUENCE"]
          /\ UNCHANGED <<reqNumber, annulment, annRanges>>
      BY <2>2 DEF AssignNoSequence, Answer, Pending, annVars
    <3> QED BY <3>1, RegistryAnswers
  <2>3. ASSUME NEW s \in Registrations, AssignRefuse(r, s)
        PROVE  [Registry!RegistryNext]_(Registry!registryVars)
    <3>1. Refusal(r, s) \notin {"CREATED", "REPLAYED"}
      BY DEF Refusal
    <3>2. /\ request[r] \in Pending /\ request' = [request EXCEPT ![r] = Refusal(r, s)]
          /\ UNCHANGED <<reqNumber, annulment, annRanges>>
      BY <2>3 DEF AssignRefuse, Pending, annVars
    <3> QED BY <3>1, <3>2, RegistryAnswers
  <2>4. ASSUME NEW s \in Registrations, Assign(r, s)
        PROVE  [Registry!RegistryNext]_(Registry!registryVars)
    <3>1. /\ request[r] = "assign" /\ request' = [request EXCEPT ![r] = "insert"]
          /\ \A q \in Requests \ {r} : reqNumber'[q] = reqNumber[q]
          /\ UNCHANGED <<annulment, annRanges>>
      BY <2>4 DEF Assign, TypeOK, annVars
    <3> QED BY <3>1, RegistryAnswers DEF Pending
  <2>5. CASE Commit(r)
    BY <2>5, RegistryIssues
  <2>6. CASE InsertConflict(r)
    BY <2>6, RegistryAnswers DEF InsertConflict, Answer, Pending, annVars
  <2> QED BY <1>4, <2>1, <2>2, <2>3, <2>4, <2>5, <2>6 DEF EmissionStep
<1>5. ASSUME NEW r \in Requests, Rollback(r)
      PROVE  [Registry!RegistryNext]_(Registry!registryVars)
  <2>1. /\ request[r] \in Pending /\ request' = [request EXCEPT ![r] = "ABORTED"]
        /\ UNCHANGED <<reqNumber, annulment, annRanges>>
    BY <1>5 DEF Rollback, Answer, Pending, annVars
  <2> QED BY <2>1, RegistryAnswers
<1>6. ASSUME NEW r \in Requests, NEW st \in {"PENDING", "ACCEPTED", "REJECTED", "ERROR"},
             Progress(r, st)
      PROVE  UNCHANGED Registry!registryVars
  BY <1>6, RegistryStutters DEF Progress, annVars
<1>7. ASSUME NEW a \in Annulments, NEW ranges \in AnnulLists, AnnulSnapshot(a, ranges)
      PROVE  Registry!RegistryNext
  <2>1. /\ annulment[a] = "idle"
        /\ annRanges' = [annRanges EXCEPT ![a] = ranges]
        /\ annulment' = [annulment EXCEPT ![a] = "INVALID"]
           \/ annulment' = [annulment EXCEPT ![a] = "validate"]
        /\ UNCHANGED <<request, reqNumber>>
    BY <1>7 DEF AnnulSnapshot, Goto, reqVars
  <2> QED BY <2>1, RegistryAnnuls DEF TypeOK
<1>8. ASSUME NEW a \in Annulments, AnnulmentStep(a) PROVE Registry!RegistryNext
  <2>1. annulment[a] # "ACCEPTED" /\ UNCHANGED <<request, reqNumber, annRanges>>
    BY <1>8 DEF AnnulmentStep, AnnulValidate, AnnulPersist, AnnulAnswer, AnnulApply, reqVars
  <2>2. \A b \in Annulments \ {a} : annulment'[b] = annulment[b]
    BY <1>8 DEF AnnulmentStep, AnnulValidate, AnnulPersist, AnnulAnswer, AnnulApply, Goto, TypeOK
  <2> QED BY <2>1, <2>2, RegistryAnnuls
<1>9. CASE UNCHANGED vars
  BY <1>9, RegistryStutters DEF vars, reqVars, annVars
<1> QED
  BY <1>1, <1>2, <1>3, <1>4, <1>5, <1>6, <1>7, <1>8, <1>9 DEF Next

\* For any number of emissions, registrations and annulments, each emission call is one
\* step for its caller: an invoice with a number and a key of its own, the invoice that
\* its key has already, or nothing; and no answer, number or annulment is taken back.
THEOREM ImplementsTheRegistry == Spec => ImplementsRegistry
<1>1. Init => Registry!RegistryInit
  BY DEF Init, Registry!RegistryInit, AnswerOf, Annulled
<1>2. TypeOK /\ Accounting /\ [Next]_vars => [Registry!RegistryNext]_(Registry!registryVars)
  BY RegistryStep
<1> QED
  BY <1>1, <1>2, AccountingInvariant, PTL DEF Spec, ImplementsRegistry, Registry!RegistrySpec

-----------------------------------------------------------------------------
(* The list of annullable numbers and the refusals of an annulment.          *)

\* A plan that took in no range yet still has its row active.
FreshPlan == \A a \in Annulments : annNext[a] = 1 => simActive[a]

\* A plan gives its row up only when it takes in a range, and never forgets one.
LEMMA FreshPlanStep ==
  ASSUME TypeOK, FreshPlan, [Next]_vars
  PROVE  FreshPlan'
<1>1. ASSUME NEW a \in Annulments, NEW ranges \in AnnulLists, AnnulSnapshot(a, ranges)
      PROVE  FreshPlan'
  <2>1. annNext' = annNext /\ \A b \in Annulments : simActive[b] => simActive'[b]
    BY <1>1 DEF AnnulSnapshot, TypeOK, simVars
  <2> QED BY <2>1 DEF FreshPlan
<1>2. ASSUME NEW a \in Annulments, AnnulValidate(a) PROVE FreshPlan'
  <2>1. CASE UNCHANGED <<annNext, simActive>>
    BY <2>1 DEF FreshPlan
  <2>2. CASE annNext' = [annNext EXCEPT ![a] = @ + 1]
    <3>1. \A b \in Annulments \ {a} : annNext'[b] = annNext[b] /\ simActive'[b] = simActive[b]
      BY <1>2, <2>2 DEF AnnulValidate, TypeOK, simVars
    <3>2. annNext'[a] # 1
      BY <2>2 DEF TypeOK
    <3> QED BY <3>1, <3>2 DEF FreshPlan
  <2> QED BY <1>2, <2>1, <2>2 DEF AnnulValidate, simVars
<1>3. \/ UNCHANGED <<annNext, simActive>>
      \/ \E a \in Annulments, ranges \in AnnulLists : AnnulSnapshot(a, ranges)
      \/ \E a \in Annulments : AnnulValidate(a)
  BY DEF Next, RegistrationStep, EmissionStep, AnnulmentStep, CreateCheckOverlap,
         CreateCheckActive, CreateInsert, Expire, Receive, Recheck, AssignNoSequence,
         AssignRefuse, Assign, Commit, InsertConflict, Rollback, Progress, AnnulPersist,
         AnnulAnswer, AnnulApply, annVars, simVars, vars
<1> QED BY <1>1, <1>2, <1>3 DEF FreshPlan

\* What the list offers of a row no unfailed invoice has: a gap has no invoice, and the
\* invoice of a failed number is the only one with it.
LEMMA OfferedIsFree ==
  ASSUME TypeOK, EncfIssuedOnce, NEW s \in Registrations, NEW n \in Offered(s)
  PROVE  \A r \in Created : reqNumber[r] = n => status[r] \in Annullable
<1> SUFFICES ASSUME NEW r \in Created, reqNumber[r] = n PROVE status[r] \in Annullable
  OBVIOUS
<1>1. CASE n \in FailedNumbers
  BY <1>1 DEF FailedNumbers, EncfIssuedOnce
<1>2. CASE n \in Gaps(s)
  BY <1>2 DEF Gaps, NumberTaken
<1> QED BY <1>1, <1>2 DEF Offered

\* "Todos son anulables", of the numbers the counter reached: whatever registrations,
\* emissions, retries and other annulments did before, the first range of a call is refused
\* only when the list of the row does not offer all of it.
THEOREM OfferedNotRefused == Spec => OfferedIsNotRefused
<1>1. Init => FreshPlan
  BY DEF Init, FreshPlan
<1>2. TypeOK /\ FreshPlan /\ [Next]_vars => FreshPlan'
  BY FreshPlanStep
<1> DEFINE Kept ==
      \A a \in Annulments :
       LET s    == simSeq[a]
           from == annRanges[a][1][1]
           to   == annRanges[a][1][2]
       IN /\ annulment[a] = "validate" /\ annulment'[a] = "INVALID" /\ annNext[a] = 1
          /\ isActive[s] /\ simEnd[a] = endNumber[s] /\ simCurrent[a] = currentNumber[s]
          /\ startNumber[s] <= from /\ from <= to /\ to <= simEnd[a]
          /\ \A q \in Created : reqNumber[q] \in from .. to => reqNumber[q] <= currentNumber[s]
          => ~(from .. to \subseteq Offered(s))
<1>3. TypeOK /\ Accounting /\ EncfIssuedOnce /\ FreshPlan /\ [Next]_vars => Kept
  <2> SUFFICES ASSUME TypeOK, Accounting, EncfIssuedOnce, FreshPlan, [Next]_vars,
                      NEW a \in Annulments,
                      annulment[a] = "validate", annulment'[a] = "INVALID", annNext[a] = 1,
                      simCurrent[a] = currentNumber[simSeq[a]],
                      startNumber[simSeq[a]] <= annRanges[a][1][1],
                      annRanges[a][1][1] <= annRanges[a][1][2],
                      annRanges[a][1][2] <= simEnd[a],
                      \A q \in Created :
                        reqNumber[q] \in annRanges[a][1][1] .. annRanges[a][1][2]
                          => reqNumber[q] <= currentNumber[simSeq[a]],
                      annRanges[a][1][1] .. annRanges[a][1][2] \subseteq Offered(simSeq[a])
               PROVE  FALSE
    OBVIOUS
  <2> DEFINE s    == simSeq[a]
             from == annRanges[a][1][1]
             to   == annRanges[a][1][2]
  <2>1. AnnulValidate(a)
    <3>1. ASSUME NEW b \in Annulments, NEW ranges \in AnnulLists, AnnulSnapshot(b, ranges)
          PROVE  FALSE
      BY <3>1 DEF AnnulSnapshot, Goto, TypeOK
    <3>2. ASSUME NEW b \in Annulments, AnnulmentStep(b) PROVE AnnulValidate(a)
      <4>1. a = b
        BY <3>2 DEF AnnulmentStep, AnnulValidate, AnnulPersist, AnnulAnswer, AnnulApply, Goto,
                    TypeOK
      <4> QED BY <3>2, <4>1 DEF AnnulmentStep, AnnulPersist, AnnulAnswer, AnnulApply, Goto, TypeOK
    <3>3. annulment' # annulment
      OBVIOUS
    <3> QED BY <3>1, <3>2, <3>3
            DEF Next, RegistrationStep, EmissionStep, CreateCheckOverlap, CreateCheckActive,
                CreateInsert, Expire, Receive, Recheck, AssignNoSequence, AssignRefuse, Assign,
                Commit, InsertConflict, Rollback, Progress, annVars, vars
  <2>2. ~ValidRange(a, from, to)
    BY <2>1 DEF AnnulValidate
  <2>3. s \in Registrations
    BY DEF Accounting, PlanIsCovered, Planning, TypeOK
  <2>4. from \in Number /\ to \in Number /\ simCurrent[a] \in 0 .. MaxNumber
    BY <2>1, SequencesAssumption DEF AnnulValidate, TypeOK
  <2>5. simActive[a]
    BY DEF FreshPlan
  <2>6. \A r \in Created : reqNumber[r] \in 0 .. MaxNumber
    BY DEF TypeOK, Created
  <2> HIDE DEF s, from, to
  <2>7. ~Blocking(a, from, to)
    <3> SUFFICES ASSUME NEW r \in Created,
                        reqNumber[r] \in from .. Smaller(to, simCurrent[a]),
                        status[r] \notin Annullable
                 PROVE  FALSE
      BY DEF Blocking
    <3>1. reqNumber[r] \in from .. to
      BY <2>4, <2>6, SequencesAssumption DEF Smaller, Number
    <3>2. reqNumber[r] \in Offered(s)
      BY <3>1 DEF s, from, to
    <3> QED BY <2>3, <3>2, OfferedIsFree
  <2>8. to \in Offered(s) /\ to \in from .. to
    BY <2>4 DEF s, from, to, Number
  <2>9. to <= currentNumber[s]
    <3>1. CASE to \in Gaps(s)
      BY <3>1 DEF Gaps
    <3>2. CASE to \in FailedNumbers
      <4>1. PICK r \in Created : to = reqNumber[r]
        BY <3>2 DEF FailedNumbers
      <4> QED BY <2>8, <4>1 DEF s, from, to
    <3> QED BY <2>8, <3>1, <3>2 DEF Offered
  <2>10. ~Middle(a, from, to)
    BY <2>4, <2>9, SequencesAssumption DEF Middle, Larger, Number, s
  <2> QED BY <2>2, <2>5, <2>7, <2>10 DEF ValidRange, s, from, to
<1>4. Indexed => EncfIssuedOnce
  BY DEF Indexed
<1> HIDE DEF Kept
<1>6. Spec => [][Kept]_vars
  BY <1>1, <1>2, <1>3, <1>4, AccountingInvariant, IndexedInvariant, PTL DEF Spec
<1> QED BY <1>6 DEF OfferedIsNotRefused, Kept

-----------------------------------------------------------------------------
(* Collisions with the unique index on the eNCF.  Two rows may share numbers *)
(* when their registrations raced past the overlap query; one row never      *)
(* meets its own numbers.                                                    *)

\* A number from the counter that the index refused is of an invoice of another row.
CollidesWithAnotherRow ==
  \A r \in Requests : request[r] = "DUPLICATE_ENCF" /\ reqOverride[r] = 0 =>
    /\ reqSeq[r] \in Registrations
    /\ \E q \in Created : reqSeq[q] # reqSeq[r] /\ reqNumber[q] = reqNumber[r]

\* An answered call keeps its row and its number, so what was said of it stays true.
LEMMA CollisionFrame ==
  ASSUME CollidesWithAnotherRow,
         \A r \in Requests : request'[r] = "DUPLICATE_ENCF" =>
           request[r] = "DUPLICATE_ENCF" /\ reqOverride'[r] = reqOverride[r]
             /\ reqSeq'[r] = reqSeq[r] /\ reqNumber'[r] = reqNumber[r],
         \A q \in Created : /\ request'[q] = "CREATED"
                            /\ reqSeq'[q] = reqSeq[q] /\ reqNumber'[q] = reqNumber[q]
  PROVE  CollidesWithAnotherRow'
<1> SUFFICES ASSUME NEW r \in Requests, request'[r] = "DUPLICATE_ENCF", reqOverride'[r] = 0
             PROVE  /\ reqSeq'[r] \in Registrations
                    /\ \E q \in Created' : reqSeq'[q] # reqSeq'[r] /\ reqNumber'[q] = reqNumber'[r]
  BY DEF CollidesWithAnotherRow
<1>1. PICK q \in Created : reqSeq[q] # reqSeq[r] /\ reqNumber[q] = reqNumber[r]
  BY DEF CollidesWithAnotherRow
<1>2. q \in Created'
  BY DEF Created
<1> QED BY <1>1, <1>2 DEF CollidesWithAnotherRow

\* The row lock keeps the number of an emission next in line in its row, and the invoices
\* of that row are behind its counter.
LEMMA CollisionStep ==
  ASSUME TypeOK, Accounting, CollidesWithAnotherRow, [Next]_vars
  PROVE  CollidesWithAnotherRow'
<1>1. ASSUME NEW r \in Requests, InsertConflict(r) PROVE CollidesWithAnotherRow'
  <2>1. /\ request[r] = "insert"
        /\ \A q \in Requests \ {r} : request'[q] = request[q]
        /\ UNCHANGED <<reqSeq, reqNumber, reqOverride>>
        /\ Created \subseteq Created'
    BY <1>1 DEF InsertConflict, Answer, Created, TypeOK
  <2> SUFFICES ASSUME NEW p \in Requests, request'[p] = "DUPLICATE_ENCF", reqOverride[p] = 0
               PROVE  /\ reqSeq[p] \in Registrations
                      /\ \E q \in Created : reqSeq[q] # reqSeq[p] /\ reqNumber[q] = reqNumber[p]
    BY <2>1 DEF CollidesWithAnotherRow
  <2>2. CASE p # r
    BY <2>1, <2>2 DEF CollidesWithAnotherRow
  <2>3. CASE p = r
    <3>1. NumberTaken(reqNumber[r])
      BY <1>1, <2>3 DEF InsertConflict, Answer, TypeOK
    <3>2. PICK q \in Created : reqNumber[q] = reqNumber[r]
      BY <3>1 DEF NumberTaken
    <3>3. reqSeq[r] \in Registrations /\ reqNumber[r] = currentNumber[reqSeq[r]] + 1
      BY <2>1, <2>3 DEF Accounting, NextInLine, RowOfRequest, TypeOK
    <3>4. reqNumber[q] \in startNumber[reqSeq[q]] .. currentNumber[reqSeq[q]]
      BY DEF Accounting, CounterCoversInvoices
    <3>5. reqSeq[q] # reqSeq[r]
      BY <3>2, <3>3, <3>4 DEF TypeOK
    <3> QED BY <2>3, <3>2, <3>3, <3>5
  <2> QED BY <2>2, <2>3
<1>2. ASSUME NEW r \in Requests, NEW a, request[r] \in Pending,
             a # "DUPLICATE_ENCF", request' = [request EXCEPT ![r] = a],
             \A q \in Requests \ {r} : /\ reqSeq'[q] = reqSeq[q] /\ reqNumber'[q] = reqNumber[q]
                                       /\ reqOverride'[q] = reqOverride[q]
      PROVE  CollidesWithAnotherRow'
  BY <1>2, CollisionFrame DEF Pending, Created, TypeOK
<1>3. ASSUME NEW r \in Requests, NEW override \in Overrides \cup {0}, Receive(r, override)
      PROVE  CollidesWithAnotherRow'
  <2> DEFINE a == IF KeyTaken(r) THEN "REPLAYED" ELSE "received"
  <2>1. /\ request[r] \in Pending /\ request' = [request EXCEPT ![r] = a]
        /\ UNCHANGED <<reqSeq, reqNumber>>
        /\ \A q \in Requests \ {r} : reqOverride'[q] = reqOverride[q]
    BY <1>3 DEF Receive, Answer, Pending, TypeOK
  <2>2. a # "DUPLICATE_ENCF"
    OBVIOUS
  <2> HIDE DEF a
  <2> QED BY <1>2, <2>1, <2>2
<1>4. ASSUME NEW r \in Requests, EmissionStep(r), ~InsertConflict(r)
      PROVE  CollidesWithAnotherRow'
  <2>1. CASE Recheck(r)
    <3> DEFINE a == IF KeyTaken(r) THEN "REPLAYED" ELSE "assign"
    <3>1. /\ request[r] \in Pending /\ request' = [request EXCEPT ![r] = a]
          /\ UNCHANGED <<reqSeq, reqNumber, reqOverride>>
      BY <2>1 DEF Recheck, Answer, Pending
    <3>2. a # "DUPLICATE_ENCF"
      OBVIOUS
    <3> HIDE DEF a
    <3> QED BY <1>2, <3>1, <3>2
  <2>2. CASE AssignNoSequence(r)
    <3>1. /\ request[r] \in Pending /\ request' = [request EXCEPT ![r] = "NO_SEQUENCE"]
          /\ UNCHANGED <<reqSeq, reqNumber, reqOverride>>
      BY <2>2 DEF AssignNoSequence, Answer, Pending
    <3> QED BY <1>2, <3>1
  <2>3. ASSUME NEW s \in Registrations, AssignRefuse(r, s) PROVE CollidesWithAnotherRow'
    <3>1. Refusal(r, s) # "DUPLICATE_ENCF"
      BY DEF Refusal
    <3>2. /\ request[r] \in Pending /\ request' = [request EXCEPT ![r] = Refusal(r, s)]
          /\ \A q \in Requests \ {r} : reqSeq'[q] = reqSeq[q]
          /\ UNCHANGED <<reqNumber, reqOverride>>
      BY <2>3 DEF AssignRefuse, Pending, TypeOK
    <3> QED BY <1>2, <3>1, <3>2
  <2>4. ASSUME NEW s \in Registrations, Assign(r, s) PROVE CollidesWithAnotherRow'
    <3>1. /\ request[r] \in Pending /\ request' = [request EXCEPT ![r] = "insert"]
          /\ \A q \in Requests \ {r} : reqSeq'[q] = reqSeq[q] /\ reqNumber'[q] = reqNumber[q]
          /\ UNCHANGED reqOverride
      BY <2>4 DEF Assign, Pending, TypeOK
    <3> QED BY <1>2, <3>1
  <2>5. CASE Commit(r)
    <3>1. /\ request[r] \in Pending /\ request' = [request EXCEPT ![r] = "CREATED"]
          /\ UNCHANGED <<reqSeq, reqNumber, reqOverride>>
      BY <2>5 DEF Commit, Pending
    <3> QED BY <1>2, <3>1
  <2> QED BY <1>4, <2>1, <2>2, <2>3, <2>4, <2>5 DEF EmissionStep
<1>5. ASSUME NEW r \in Requests, Rollback(r) PROVE CollidesWithAnotherRow'
  <2>1. /\ request[r] \in Pending /\ request' = [request EXCEPT ![r] = "ABORTED"]
        /\ UNCHANGED <<reqSeq, reqNumber, reqOverride>>
    BY <1>5 DEF Rollback, Answer, Pending
  <2> QED BY <1>2, <2>1
<1>6. CASE UNCHANGED <<request, reqSeq, reqNumber, reqOverride>>
  BY <1>6, CollisionFrame DEF Created
<1>7. \/ UNCHANGED <<request, reqSeq, reqNumber, reqOverride>>
      \/ \E r \in Requests, override \in Overrides \cup {0} : Receive(r, override)
      \/ \E r \in Requests : EmissionStep(r)
      \/ \E r \in Requests : Rollback(r)
  BY DEF Next, RegistrationStep, AnnulmentStep, CreateCheckOverlap, CreateCheckActive,
         CreateInsert, Expire, Progress, AnnulSnapshot, AnnulValidate, AnnulPersist,
         AnnulAnswer, AnnulApply, reqVars, vars
<1> QED BY <1>1, <1>3, <1>4, <1>5, <1>6, <1>7

\* For any number of emissions and registrations: a number taken from a counter that the
\* unique index refuses was issued from another, overlapping row.
THEOREM CollisionsCrossRows == Spec => []CollidesWithAnotherRow
<1>1. Init => CollidesWithAnotherRow
  BY DEF Init, CollidesWithAnotherRow
<1>2. TypeOK /\ Accounting /\ CollidesWithAnotherRow /\ [Next]_vars => CollidesWithAnotherRow'
  BY CollisionStep
<1> QED BY <1>1, <1>2, AccountingInvariant, PTL DEF Spec

\* The company registered one range of the type.
SingleRegistration == \A c, d \in Registrations : c = d

\* With one range registered, a number from the counter never meets the unique index.
THEOREM OneRangeNeverCollides ==
  ASSUME SingleRegistration
  PROVE  Spec => []CounterNeverCollides
<1>1. TypeOK /\ Accounting /\ CollidesWithAnotherRow => CounterNeverCollides
  <2> SUFFICES ASSUME TypeOK, Accounting, CollidesWithAnotherRow,
                      NEW r \in Requests, request[r] = "DUPLICATE_ENCF", reqOverride[r] = 0
               PROVE  FALSE
    BY DEF CounterNeverCollides
  <2>1. PICK q \in Created : reqSeq[q] # reqSeq[r]
    BY DEF CollidesWithAnotherRow
  <2>2. reqSeq[r] \in Registrations
    BY DEF CollidesWithAnotherRow
  <2>3. reqSeq[q] \in Registrations
    BY DEF Accounting, RowOfRequest, Created, TypeOK
  <2> QED BY <2>1, <2>2, <2>3 DEF SingleRegistration
<1> QED BY <1>1, CollisionsCrossRows, AccountingInvariant, PTL

-----------------------------------------------------------------------------
(* What an annulment leaves to be given out.  Its plan is made of the row as *)
(* the call read it, range after range; it is written later, to the row as   *)
(* it is then.                                                               *)

\* The plan of annulment a does not let the row give number n any more.
Shut(a, n) == ~simActive[a] \/ n <= simCurrent[a] \/ n > simEnd[a]

\* The plan shuts every number of the ranges it took in, and a call that sent its ANECF
\* took in all of them.
PlanShuts ==
  \A a \in Annulments :
    /\ annulment[a] = "idle" => annNext[a] = 1
    /\ annulment[a] \in {"submitted", "accepted"} => annNext[a] > Len(annRanges[a])
    /\ \A i \in DOMAIN annRanges[a] :
         i < annNext[a] => \A n \in annRanges[a][i][1] .. annRanges[a][i][2] : Shut(a, n)

\* A step that leaves an annulment's ranges and plan alone keeps what is said of it.
LEMMA PlanShutsFrame ==
  ASSUME PlanShuts, NEW a \in Annulments,
         \A b \in Annulments \ {a} :
           /\ annulment'[b] = annulment[b] /\ annRanges'[b] = annRanges[b]
           /\ annNext'[b] = annNext[b] /\ simActive'[b] = simActive[b]
           /\ simCurrent'[b] = simCurrent[b] /\ simEnd'[b] = simEnd[b],
         /\ annulment'[a] = "idle" => annNext'[a] = 1
         /\ annulment'[a] \in {"submitted", "accepted"} => annNext'[a] > Len(annRanges'[a])
         /\ \A i \in DOMAIN annRanges'[a] :
              i < annNext'[a] => \A n \in annRanges'[a][i][1] .. annRanges'[a][i][2] : Shut(a, n)'
  PROVE  PlanShuts'
<1>1. \A b \in Annulments \ {a} : \A n : Shut(b, n)' <=> Shut(b, n)
  BY DEF Shut
<1> QED BY <1>1 DEF PlanShuts

\* Each range goes below the planned counter, above the planned end, or takes the whole
\* row: a hole in the middle is refused.
LEMMA PlanShutsValidate ==
  ASSUME TypeOK, PlanShuts, NEW a \in Annulments, AnnulValidate(a)
  PROVE  PlanShuts'
<1> DEFINE from == annRanges[a][annNext[a]][1]
           to   == annRanges[a][annNext[a]][2]
           aboveFrom == Larger(from, simCurrent[a] + 1)
<1>1. /\ annulment[a] = "validate" /\ annRanges' = annRanges
      /\ annNext[a] \in Nat \ {0} /\ annNext[a] <= Len(annRanges[a])
      /\ annRanges[a] \in Seq(Number \X Number)
  BY SequencesAssumption DEF AnnulValidate, TypeOK
<1>2. /\ from \in Nat /\ to \in Nat
      /\ simCurrent[a] \in Nat /\ simEnd[a] \in Nat /\ simActive[a] \in BOOLEAN
  <2>1. from \in Number /\ to \in Number
    BY <1>1
  <2>2. simActive[a] \in BOOLEAN
    BY Zenon DEF TypeOK
  <2> QED BY <2>1, <2>2, SequencesAssumption DEF TypeOK, Number
<1>3. \A b \in Annulments \ {a} :
        /\ annulment'[b] = annulment[b] /\ annRanges'[b] = annRanges[b]
        /\ annNext'[b] = annNext[b] /\ simActive'[b] = simActive[b]
        /\ simCurrent'[b] = simCurrent[b] /\ simEnd'[b] = simEnd[b]
  BY DEF AnnulValidate, Goto, TypeOK, simVars
<1>4. CASE ~ValidRange(a, from, to)
  <2>1. annulment'[a] = "INVALID" /\ UNCHANGED <<annNext, simActive, simCurrent, simEnd>>
    BY <1>4 DEF AnnulValidate, Goto, TypeOK, simVars
  <2>2. \A i \in DOMAIN annRanges[a] :
          i < annNext[a] => \A n \in annRanges[a][i][1] .. annRanges[a][i][2] : Shut(a, n)'
    BY <2>1 DEF PlanShuts, Shut
  <2> QED BY <1>1, <1>3, <2>1, <2>2, PlanShutsFrame
<1>5. CASE ValidRange(a, from, to)
  <2>1. /\ annulment' = annulment
        /\ annNext'[a] = annNext[a] + 1
        /\ simActive'[a] = ~(aboveFrom <= to /\ aboveFrom = simCurrent[a] + 1 /\ to = simEnd[a])
        /\ simEnd'[a] = IF aboveFrom <= to /\ to = simEnd[a] /\ ~(aboveFrom = simCurrent[a] + 1)
                        THEN aboveFrom - 1 ELSE simEnd[a]
        /\ simCurrent'[a] = IF aboveFrom <= to /\ aboveFrom = simCurrent[a] + 1 /\ ~(to = simEnd[a])
                            THEN to ELSE simCurrent[a]
    BY <1>5 DEF AnnulValidate, TypeOK
  <2>2. simActive[a] /\ from <= to /\ ~Middle(a, from, to)
    BY <1>5 DEF ValidRange
  <2> HIDE DEF from, to
  <2>3. ASSUME NEW n \in Nat, Shut(a, n) PROVE Shut(a, n)'
    BY <1>2, <2>1, <2>2, <2>3 DEF Shut, Larger
  <2>4. ASSUME NEW n \in from .. to PROVE Shut(a, n)'
    <3>1. n \in Int /\ from <= n /\ n <= to /\ aboveFrom \in Int
      BY <1>2, <2>4 DEF Larger
    <3>2. CASE ~(aboveFrom <= to)
      <4>1. simCurrent'[a] = simCurrent[a]
        BY <2>1, <3>2
      <4>2. n <= simCurrent[a]
        BY <1>2, <3>1, <3>2 DEF Larger
      <4> QED BY <4>1, <4>2 DEF Shut
    <3>3. CASE aboveFrom <= to /\ to # simEnd[a]
      <4>1. aboveFrom = simCurrent[a] + 1
        BY <2>2, <3>3 DEF Middle
      <4>2. simCurrent'[a] = to
        BY <2>1, <3>3, <4>1
      <4> QED BY <3>1, <4>2 DEF Shut
    <3>4. CASE aboveFrom <= to /\ to = simEnd[a] /\ aboveFrom = simCurrent[a] + 1
      BY <2>1, <3>4 DEF Shut
    <3>5. CASE aboveFrom <= to /\ to = simEnd[a] /\ aboveFrom # simCurrent[a] + 1
      <4>1. simEnd'[a] = aboveFrom - 1 /\ simCurrent'[a] = simCurrent[a]
        BY <2>1, <3>5
      <4>2. aboveFrom = from
        BY <3>5 DEF Larger
      <4>3. n > aboveFrom - 1
        BY <1>2, <3>1, <4>2
      <4> QED BY <4>1, <4>3 DEF Shut
    <3> QED BY <3>2, <3>3, <3>4, <3>5
  <2>5. ASSUME NEW i \in DOMAIN annRanges[a], i < annNext[a] + 1,
               NEW n \in annRanges[a][i][1] .. annRanges[a][i][2]
        PROVE  Shut(a, n)'
    <3>1. CASE i = annNext[a]
      BY <2>4, <2>5, <3>1 DEF from, to
    <3>2. CASE i # annNext[a]
      <4>1. i < annNext[a]
        BY <1>1, <2>5, <3>2
      <4>2. annRanges[a][i][1] \in Number
        BY <1>1, <2>5
      <4>3. n \in Nat
        BY <4>2, <2>5, SequencesAssumption DEF Number
      <4> QED BY <2>3, <2>5, <4>1, <4>3 DEF PlanShuts
    <3> QED BY <3>1, <3>2
  <2>6. annulment'[a] = "validate"
    BY <1>1, <2>1
  <2> QED BY <1>1, <1>3, <2>1, <2>5, <2>6, PlanShutsFrame
<1> QED BY <1>4, <1>5

\* Only the steps of an annulment touch its plan.
LEMMA PlanShutsStep ==
  ASSUME TypeOK, PlanShuts, [Next]_vars
  PROVE  PlanShuts'
<1>1. ASSUME NEW a \in Annulments, NEW ranges \in AnnulLists, AnnulSnapshot(a, ranges)
      PROVE  PlanShuts'
  <2>1. /\ \A b \in Annulments \ {a} :
             /\ annulment'[b] = annulment[b] /\ annRanges'[b] = annRanges[b]
             /\ simActive'[b] = simActive[b]
             /\ simCurrent'[b] = simCurrent[b] /\ simEnd'[b] = simEnd[b]
        /\ annulment[a] = "idle" /\ annNext' = annNext
        /\ annulment'[a] \in {"INVALID", "validate"} /\ annRanges'[a] = ranges
    BY <1>1 DEF AnnulSnapshot, Goto, TypeOK, simVars
  <2>2. annNext[a] = 1 /\ \A i \in DOMAIN ranges : ~(i < 1)
    BY <2>1, SequencesAssumption DEF PlanShuts
  <2> QED BY <2>1, <2>2, PlanShutsFrame
<1>2. ASSUME NEW a \in Annulments, AnnulmentStep(a), ~AnnulValidate(a) PROVE PlanShuts'
  <2>1. /\ \A b \in Annulments \ {a} : annulment'[b] = annulment[b]
        /\ UNCHANGED <<annRanges, annNext, simActive, simCurrent, simEnd>>
        /\ annulment'[a] # "idle"
    BY <1>2 DEF AnnulmentStep, AnnulPersist, AnnulAnswer, AnnulApply, Goto, TypeOK, simVars
  <2>2. annulment'[a] \in {"submitted", "accepted"} => annNext[a] > Len(annRanges[a])
    BY <1>2 DEF AnnulmentStep, AnnulPersist, AnnulAnswer, AnnulApply, Goto, TypeOK, PlanShuts
  <2>3. \A i \in DOMAIN annRanges[a] :
          i < annNext[a] => \A n \in annRanges[a][i][1] .. annRanges[a][i][2] : Shut(a, n)'
    BY <2>1 DEF PlanShuts, Shut
  <2> QED BY <2>1, <2>2, <2>3, PlanShutsFrame
<1>3. CASE UNCHANGED <<annulment, annRanges, annNext, simActive, simCurrent, simEnd>>
  BY <1>3 DEF PlanShuts, Shut
<1>4. \/ UNCHANGED <<annulment, annRanges, annNext, simActive, simCurrent, simEnd>>
      \/ \E a \in Annulments, ranges \in AnnulLists : AnnulSnapshot(a, ranges)
      \/ \E a \in Annulments : AnnulmentStep(a)
  BY DEF Next, RegistrationStep, EmissionStep, CreateCheckOverlap, CreateCheckActive,
         CreateInsert, Expire, Receive, Recheck, AssignNoSequence, AssignRefuse, Assign, Commit,
         InsertConflict, Rollback, Progress, annVars, simVars, vars
<1> QED BY <1>1, <1>2, <1>3, <1>4, PlanShutsValidate

\* The plans are right in every reachable state.
LEMMA PlanShutsInvariant == Spec => []PlanShuts
<1>1. Init => PlanShuts
  BY DEF Init, PlanShuts
<1>2. TypeOK /\ PlanShuts /\ [Next]_vars => PlanShuts'
  BY PlanShutsStep
<1> QED BY <1>1, <1>2, TypeCorrect, PTL DEF Spec

\* An accepted annulment leaves none of its numbers to be given out by its row, whatever
\* was emitted, registered or annulled since it read the row.
AppliedIsShut ==
  [][\A a \in Annulments : AnnulApply(a) =>
       \A n \in Number :
         Covers(a, n) /\ isActive'[simSeq[a]]
           => n \notin currentNumber'[simSeq[a]] + 1 .. endNumber'[simSeq[a]]]_vars

\* The write of a plan shuts the numbers that the plan shuts: the counter it writes is the
\* larger of the two.
LEMMA ApplyShuts ==
  ASSUME TypeOK, Accounting, PlanShuts, NEW a \in Annulments, AnnulApply(a),
         NEW n \in Number, Covers(a, n), isActive'[simSeq[a]]
  PROVE  n \notin currentNumber'[simSeq[a]] + 1 .. endNumber'[simSeq[a]]
<1>1. simSeq[a] \in Registrations /\ annulment[a] = "accepted"
  BY DEF AnnulApply, Accounting, PlanIsCovered, Planning, TypeOK
<1>2. simActive[a]
  BY <1>1 DEF AnnulApply, TypeOK
<1>3. /\ endNumber'[simSeq[a]] = simEnd[a]
      /\ currentNumber'[simSeq[a]] = Larger(currentNumber[simSeq[a]], simCurrent[a])
  BY <1>1, <1>2 DEF AnnulApply, AppliedCurrent, TypeOK
<1>4. annRanges[a] \in Seq(Number \X Number) /\ annNext[a] \in Nat /\ annNext[a] > Len(annRanges[a])
  <2>1. annRanges[a] \in Seq(Number \X Number)
    <3>1. annRanges[a] \in AnnulLists \cup {<<>>}
      BY DEF TypeOK
    <3>2. <<>> \in Seq(Number \X Number)
      OBVIOUS
    <3> QED BY <3>1, <3>2, SequencesAssumption
  <2>2. annNext[a] \in Nat
    BY DEF TypeOK
  <2>3. annNext[a] > Len(annRanges[a])
    BY <1>1 DEF PlanShuts
  <2> QED BY <2>1, <2>2, <2>3
<1>5. PICK i \in DOMAIN annRanges[a] : n \in annRanges[a][i][1] .. annRanges[a][i][2]
  BY DEF Covers
<1>6. i < annNext[a]
  BY <1>4
<1>7. Shut(a, n)
  BY <1>5, <1>6 DEF PlanShuts
<1>8. /\ currentNumber[simSeq[a]] \in 0 .. MaxNumber
      /\ simCurrent[a] \in 0 .. MaxNumber /\ simEnd[a] \in 0 .. MaxNumber
  BY <1>1 DEF TypeOK
<1> QED BY <1>2, <1>3, <1>7, <1>8, SequencesAssumption DEF Shut, Larger, Number

\* For any number of annulments of any lists of ranges: the write of an accepted one
\* leaves none of its numbers to be given out.
THEOREM AppliedShuts == Spec => AppliedIsShut
<1> DEFINE Kept ==
      \A a \in Annulments : AnnulApply(a) =>
        \A n \in Number :
          Covers(a, n) /\ isActive'[simSeq[a]]
            => n \notin currentNumber'[simSeq[a]] + 1 .. endNumber'[simSeq[a]]
<1>1. TypeOK /\ Accounting /\ PlanShuts => Kept
  BY ApplyShuts
<1> HIDE DEF Kept
<1>2. Spec => [][Kept]_vars
  BY <1>1, AccountingInvariant, PlanShutsInvariant, PTL
<1> QED BY <1>2 DEF AppliedIsShut, Kept

\* The company sent one annulment for the type.
SingleAnnulment == \A a, b \in Annulments : a = b

\* An annulment that was applied had a row to apply to.
AppliedToARow == \A a \in Annulments : annulment[a] = "ACCEPTED" => simSeq[a] \in registered

FreeInv == FreeNumbersNotAnnulled /\ AppliedToARow

\* Nothing new is annulled, nothing new can be given out.
LEMMA FreeFrame ==
  ASSUME FreeInv, registered \subseteq registered',
         \A a \in Annulments : annulment'[a] = "ACCEPTED" =>
           annulment[a] = "ACCEPTED" /\ annRanges'[a] = annRanges[a] /\ simSeq'[a] = simSeq[a],
         \A s \in Active' : /\ s \in Active
                            /\ currentNumber[s] \in Int /\ currentNumber'[s] \in Int
                            /\ endNumber[s] \in Int
                            /\ currentNumber[s] <= currentNumber'[s]
                            /\ endNumber'[s] = endNumber[s]
  PROVE  FreeInv'
<1>1. \A n : Annulled(n)' => Annulled(n)
  BY DEF Annulled, Covers
<1>2. FreeNumbersNotAnnulled'
  <2> SUFFICES ASSUME NEW s \in Active', NEW n \in currentNumber'[s] + 1 .. endNumber'[s]
               PROVE  ~Annulled(n)'
    BY DEF FreeNumbersNotAnnulled
  <2>1. n \in currentNumber[s] + 1 .. endNumber[s]
    OBVIOUS
  <2> QED BY <1>1, <2>1 DEF FreeInv, FreeNumbersNotAnnulled
<1>3. AppliedToARow'
  BY DEF FreeInv, AppliedToARow
<1> QED BY <1>2, <1>3 DEF FreeInv

\* Before any annulment was applied nothing is annulled.
LEMMA FreeBefore ==
  ASSUME \A a \in Annulments : annulment'[a] # "ACCEPTED"
  PROVE  FreeInv'
BY DEF FreeInv, FreeNumbersNotAnnulled, AppliedToARow, Annulled

\* One registration and one annulment: no other row and no other plan writes over what
\* the annulment shut.
LEMMA FreeStep ==
  ASSUME SingleRegistration, SingleAnnulment, TypeOK, TypeOK', Accounting, PlanShuts, FreeInv,
         [Next]_vars
  PROVE  FreeInv'
<1>1. ASSUME NEW c \in Registrations, RegistrationStep(c) PROVE FreeInv'
  <2>1. annulment' = annulment /\ annRanges' = annRanges /\ simSeq' = simSeq
    BY <1>1 DEF RegistrationStep, CreateCheckOverlap, CreateCheckActive, CreateInsert, annVars,
                simVars
  <2>2. c \notin registered
    BY <1>1 DEF RegistrationStep, CreateCheckOverlap, CreateCheckActive, CreateInsert,
                Accounting, RowOfRegistration
  <2>3. registered = {}
    BY <2>2 DEF SingleRegistration, TypeOK
  <2> QED BY <2>1, <2>3, FreeBefore DEF FreeInv, AppliedToARow
<1>2. ASSUME NEW r \in Requests, Commit(r) PROVE FreeInv'
  <2>1. /\ UNCHANGED <<registered, isActive, endNumber, annulment, annRanges, simSeq>>
        /\ currentNumber' = [currentNumber EXCEPT ![reqSeq[r]] = reqCurrent[r]]
    BY <1>2 DEF Commit, annVars, simVars
  <2>2. reqCurrent[r] = Larger(currentNumber[reqSeq[r]], reqNumber[r])
    BY <1>2 DEF Commit, Accounting, NextInLine
  <2>3. reqSeq[r] \in Registrations /\ reqNumber[r] \in Int
    BY <1>2 DEF Commit, Accounting, RowOfRequest, TypeOK
  <2>4. \A s \in Registrations : /\ currentNumber[s] \in Int /\ endNumber[s] \in Int
                                 /\ currentNumber'[s] \in Int
    BY DEF TypeOK
  <2>5. \A s \in Registrations : currentNumber[s] <= currentNumber'[s]
    BY <2>1, <2>2, <2>3, <2>4 DEF Larger, TypeOK
  <2>6. Active' = Active /\ Active \subseteq Registrations
    BY <2>1 DEF Active, TypeOK
  <2> QED BY <2>1, <2>4, <2>5, <2>6, FreeFrame
<1>3. ASSUME NEW a \in Annulments, NEW ranges \in AnnulLists, AnnulSnapshot(a, ranges)
      PROVE  FreeInv'
  <2>1. annulment'[a] # "ACCEPTED"
    BY <1>3 DEF AnnulSnapshot, Goto, TypeOK
  <2> QED BY <2>1, FreeBefore DEF SingleAnnulment
<1>4. ASSUME NEW a \in Annulments, AnnulmentStep(a), ~AnnulApply(a) PROVE FreeInv'
  <2>1. annulment'[a] # "ACCEPTED"
    BY <1>4 DEF AnnulmentStep, AnnulValidate, AnnulPersist, AnnulAnswer, Goto, TypeOK
  <2> QED BY <2>1, FreeBefore DEF SingleAnnulment
<1>5. ASSUME NEW a \in Annulments, AnnulApply(a) PROVE FreeInv'
  <2>1. /\ annRanges' = annRanges /\ simSeq' = simSeq /\ registered' = registered
        /\ annulment[a] = "accepted"
    BY <1>5 DEF AnnulApply, simVars
  <2>2. simSeq[a] \in registered
    BY <2>1 DEF Accounting, PlanIsCovered, Planning
  <2>3. AppliedToARow'
    BY <2>1, <2>2 DEF AppliedToARow, SingleAnnulment
  <2>4. FreeNumbersNotAnnulled'
    <3> SUFFICES ASSUME NEW s \in Active', NEW n \in currentNumber'[s] + 1 .. endNumber'[s],
                        Annulled(n)'
                 PROVE  FALSE
      BY DEF FreeNumbersNotAnnulled
    <3>1. Covers(a, n)
      BY <2>1 DEF Annulled, Covers, SingleAnnulment
    <3>2. s = simSeq[a] /\ isActive'[s]
      BY <2>1, <2>2 DEF Active, SingleRegistration, TypeOK
    <3>3. currentNumber'[s] \in 0 .. MaxNumber /\ endNumber'[s] \in 0 .. MaxNumber
      BY <3>2, <2>2 DEF TypeOK
    <3>4. n \in Number
      BY <3>3, SequencesAssumption DEF Number
    <3> QED BY <1>5, <3>1, <3>2, <3>4, ApplyShuts
  <2> QED BY <2>3, <2>4 DEF FreeInv
<1>6. CASE UNCHANGED <<registered, isActive, currentNumber, endNumber, annulment, annRanges, simSeq>>
  BY <1>6 DEF FreeInv, FreeNumbersNotAnnulled, AppliedToARow, Active, Annulled, Covers
<1>7. \/ UNCHANGED <<registered, isActive, currentNumber, endNumber, annulment, annRanges, simSeq>>
      \/ \E c \in Registrations : RegistrationStep(c)
      \/ \E r \in Requests : Commit(r)
      \/ \E a \in Annulments, ranges \in AnnulLists : AnnulSnapshot(a, ranges)
      \/ \E a \in Annulments : AnnulmentStep(a)
  BY DEF Next, EmissionStep, Expire, Receive, Recheck, AssignNoSequence, AssignRefuse, Assign,
         InsertConflict, Rollback, Progress, seqVars, annVars, simVars, vars
<1> QED BY <1>1, <1>2, <1>3, <1>4, <1>5, <1>6, <1>7

\* With one range registered and one annulment, of any list of ranges and racing any number
\* of emissions, what the active row can still give is not annulled.
THEOREM FreeNotAnnulled ==
  ASSUME SingleRegistration, SingleAnnulment
  PROVE  Spec => []FreeNumbersNotAnnulled
<1>1. Init => FreeInv
  BY DEF Init, FreeInv, FreeNumbersNotAnnulled, AppliedToARow, Active
<1>2. TypeOK /\ TypeOK' /\ Accounting /\ PlanShuts /\ FreeInv /\ [Next]_vars => FreeInv'
  BY FreeStep
<1>3. FreeInv => FreeNumbersNotAnnulled
  BY DEF FreeInv
<1> QED BY <1>1, <1>2, <1>3, AccountingInvariant, PlanShutsInvariant, PTL DEF Spec
=============================================================================
