------------------------------ MODULE WebhookProofs -----------------------------
(***************************************************************************)
(* What the delivery of webhooks promises, for every number of             *)
(* subscriptions, jobs, attempts, changes from outside and every           *)
(* threshold: no failure is swallowed, and who keeps failing is turned off.*)
(* Both halves of the background work keep what they promise side by side. *)
(***************************************************************************)
EXTENDS BackgroundWork, SchedulerProofs

States == {"absent", "waiting", "active", "completed", "failed"}
Steps == {"none", "post", "recordOk", "recordOdd", "recordError", "count", "deactivate",
          "ok", "failed"}

JobRecord == [state : States, attempts : Nat, listed : SUBSET Subs]
FailureRecord == [error : Nat, odd : Nat]

\* Type invariant of the delivery.
WebhookTypeOK ==
  /\ sub \in [Subs -> {"active", "inactive", "deleted"}]
  /\ failures \in [Subs -> FailureRecord]
  /\ job \in [Jobs -> JobRecord]
  /\ delivery \in [Jobs -> [Subs -> Steps]]
  /\ delivered \in [Jobs -> SUBSET Subs]
  /\ reenabled \subseteq Subs
  /\ crashes \in Nat /\ edits \in Nat

\* Only the subscriptions of a running attempt have a delivery.
DeliveriesListed ==
  \A j \in Jobs, s \in Subs :
    delivery[j][s] # "none" => job[j].state = "active" /\ s \in job[j].listed

\* A delivery that records a 2xx, or ended well, was answered with one.
AnsweredIsDelivered ==
  \A j \in Jobs, s \in Subs :
    delivery[j][s] \in {"recordOk", "recordOdd", "ok"} => s \in delivered[j]

\* A subscription that is on with too many errors has a delivery that has recorded
\* one of them and will count them, or has counted them already.
FailingIsCounted ==
  \A s \in Subs :
    (failures[s].error >= Threshold /\ s \notin reenabled /\ crashes = 0 /\ sub[s] = "active") =>
      \E j \in Jobs : delivery[j][s] \in {"count", "deactivate"}

WebhookInv ==
  WebhookTypeOK /\ DeliveriesListed /\ AnsweredIsDelivered /\ NoSilentLoss /\ FailingIsCounted

LEMMA WebhookInitInv == WebhookInit => WebhookInv
BY WebhookAssumption
   DEF WebhookInit, WebhookInv, WebhookTypeOK, DeliveriesListed, AnsweredIsDelivered, NoSilentLoss,
       FailingIsCounted, Absent, None, NoFailures, JobRecord, FailureRecord, States, Steps

\* What a step of one delivery does to the table of the deliveries.
LEMMA OneDelivery ==
  ASSUME WebhookTypeOK, NEW j \in Jobs, NEW s \in Subs, NEW step \in Steps, DeliveryTo(j, s, step)
  PROVE  /\ delivery' \in [Jobs -> [Subs -> Steps]]
         /\ \A i \in Jobs, t \in Subs :
              delivery'[i][t] = IF i = j /\ t = s THEN step ELSE delivery[i][t]
BY DEF DeliveryTo, WebhookTypeOK

\* What the end of an attempt, or the death of its worker, does to it.
LEMMA NoDelivery ==
  ASSUME WebhookTypeOK, NEW j \in Jobs, delivery' = [delivery EXCEPT ![j] = None]
  PROVE  /\ delivery' \in [Jobs -> [Subs -> Steps]]
         /\ \A i \in Jobs, t \in Subs :
              delivery'[i][t] = IF i = j THEN "none" ELSE delivery[i][t]
BY DEF WebhookTypeOK, None, Steps

LEMMA EmitInv ==
  ASSUME WebhookInv, NEW j \in Jobs, Emit(j)
  PROVE  WebhookInv'
<1> USE DEF WebhookInv, Emit
<1>1. job' \in [Jobs -> JobRecord] /\ \A i \in Jobs :
        job'[i] = IF i = j THEN [job[j] EXCEPT !.state = "waiting"] ELSE job[i]
  BY DEF WebhookTypeOK, JobRecord, States
<1>2. \A i \in Jobs : /\ job'[i].listed = job[i].listed
                      /\ job'[i].state = IF i = j THEN "waiting" ELSE job[i].state
  BY <1>1 DEF WebhookTypeOK, JobRecord
<1>3. WebhookTypeOK'
  BY <1>1 DEF WebhookTypeOK
<1>4. DeliveriesListed' /\ AnsweredIsDelivered' /\ NoSilentLoss'
  BY <1>2 DEF DeliveriesListed, AnsweredIsDelivered, NoSilentLoss
<1>5. FailingIsCounted'
  BY DEF FailingIsCounted
<1>6. QED
  BY <1>3, <1>4, <1>5

LEMMA StartInv ==
  ASSUME WebhookInv, NEW j \in Jobs, Start(j)
  PROVE  WebhookInv'
<1> DEFINE listed == {s \in Subs : sub[s] = "active"}
           state == IF listed = {} THEN "completed" ELSE "active"
<1> USE DEF WebhookInv
<1>1. job' = [job EXCEPT ![j].state = state, ![j].listed = listed]
  BY DEF Start
<1>2. delivery' = [delivery EXCEPT ![j] = [s \in Subs |-> IF s \in listed THEN "post" ELSE "none"]]
  BY DEF Start
<1>3. job[j].state = "waiting" /\ UNCHANGED <<sub, failures, delivered, reenabled, crashes, edits>>
  BY DEF Start
<1>4. listed \subseteq Subs /\ state \in States /\ (state = "active" \/ (listed = {} /\ state = "completed"))
  BY DEF States
<1> HIDE DEF listed, state
<1>5. /\ job' \in [Jobs -> JobRecord]
      /\ job'[j].state = state /\ job'[j].listed = listed
      /\ \A i \in Jobs \ {j} : job'[i] = job[i]
  BY <1>1, <1>4 DEF WebhookTypeOK, JobRecord
<1>6. /\ delivery' \in [Jobs -> [Subs -> Steps]]
      /\ \A t \in Subs : delivery'[j][t] = IF t \in listed THEN "post" ELSE "none"
      /\ \A i \in Jobs \ {j} : delivery'[i] = delivery[i]
  BY <1>2 DEF WebhookTypeOK, Steps
<1>7. \A t \in Subs : delivery[j][t] = "none"
  BY <1>3 DEF DeliveriesListed
<1>8. WebhookTypeOK'
  BY <1>3, <1>5, <1>6 DEF WebhookTypeOK
<1>9. DeliveriesListed'
  BY <1>4, <1>5, <1>6 DEF DeliveriesListed
<1>10. AnsweredIsDelivered'
  BY <1>3, <1>6 DEF AnsweredIsDelivered
<1>11. NoSilentLoss'
  BY <1>3, <1>4, <1>5 DEF NoSilentLoss
<1>12. FailingIsCounted'
  BY <1>3, <1>6, <1>7 DEF FailingIsCounted
<1>13. QED
  BY <1>8, <1>9, <1>10, <1>11, <1>12

LEMMA PostInv ==
  ASSUME WebhookInv, NEW j \in Jobs, NEW s \in Subs, Post(j, s)
  PROVE  WebhookInv'
<1> USE DEF WebhookInv
<1>1. PICK step \in {"recordOk", "recordOdd", "recordError"} :
        /\ DeliveryTo(j, s, step)
        /\ delivered' = IF step = "recordError" THEN delivered
                                                 ELSE [delivered EXCEPT ![j] = @ \cup {s}]
  BY DEF Post
<1>2. delivery[j][s] = "post" /\ UNCHANGED <<sub, failures, job, reenabled, crashes, edits>>
  BY DEF Post, DeliveryAt
<1>3. /\ delivery' \in [Jobs -> [Subs -> Steps]]
      /\ \A i \in Jobs, t \in Subs :
           delivery'[i][t] = IF i = j /\ t = s THEN step ELSE delivery[i][t]
  BY <1>1, OneDelivery DEF Steps
<1>4. /\ delivered' \in [Jobs -> SUBSET Subs]
      /\ \A i \in Jobs : delivered[i] \subseteq delivered'[i]
      /\ step # "recordError" => s \in delivered'[j]
  BY <1>1 DEF WebhookTypeOK
<1>5. WebhookTypeOK'
  BY <1>2, <1>3, <1>4 DEF WebhookTypeOK
<1>6. DeliveriesListed'
  BY <1>2, <1>3 DEF DeliveriesListed
<1>7. AnsweredIsDelivered'
  BY <1>3, <1>4 DEF AnsweredIsDelivered
<1>8. NoSilentLoss'
  BY <1>2, <1>4 DEF NoSilentLoss
<1>9. FailingIsCounted'
  BY <1>2, <1>3 DEF FailingIsCounted
<1>10. QED
  BY <1>5, <1>6, <1>7, <1>8, <1>9

\* A row that counts as an error leaves its delivery about to count.
LEMMA RecordInv ==
  ASSUME WebhookInv, NEW j \in Jobs, NEW s \in Subs, Record(j, s)
  PROVE  WebhookInv'
<1> DEFINE next == IF sub[s] = "deleted" \/ DeliveryAt(j, s, "recordError") THEN "count" ELSE "ok"
<1> USE DEF WebhookInv
<1>1. /\ delivery[j][s] \in {"recordOk", "recordOdd", "recordError"}
      /\ UNCHANGED <<sub, job, delivered, reenabled, crashes, edits>>
  BY DEF Record
<1>2. DeliveryTo(j, s, next) /\ next \in Steps
  BY DEF Record, Steps
<1>3. /\ delivery' \in [Jobs -> [Subs -> Steps]]
      /\ \A i \in Jobs, t \in Subs :
           delivery'[i][t] = IF i = j /\ t = s THEN next ELSE delivery[i][t]
  BY <1>2, OneDelivery
<1>4. next \in {"count", "ok"} /\ (next = "ok" => delivery[j][s] \in {"recordOk", "recordOdd"})
  BY <1>1 DEF DeliveryAt
<1>5. /\ failures' \in [Subs -> FailureRecord]
      /\ \A t \in Subs : failures'[t].error = failures[t].error \/ (t = s /\ next = "count")
  <2>1. CASE failures' = failures
    BY <2>1 DEF WebhookTypeOK
  <2>2. CASE failures' = [failures EXCEPT ![s].odd = @ + 1]
    BY <2>2 DEF WebhookTypeOK, FailureRecord
  <2>3. CASE failures' = [failures EXCEPT ![s].error = @ + 1] /\ DeliveryAt(j, s, "recordError")
    BY <2>3 DEF WebhookTypeOK, FailureRecord
  <2>4. QED
    BY <1>1, <2>1, <2>2, <2>3 DEF Record, DeliveryAt
<1> HIDE DEF next
<1>6. WebhookTypeOK'
  BY <1>1, <1>3, <1>5 DEF WebhookTypeOK
<1>7. DeliveriesListed'
  BY <1>1, <1>3 DEF DeliveriesListed
<1>8. AnsweredIsDelivered'
  BY <1>1, <1>3, <1>4 DEF AnsweredIsDelivered
<1>9. NoSilentLoss'
  BY <1>1 DEF NoSilentLoss
<1>10. FailingIsCounted'
  <2> SUFFICES ASSUME NEW t \in Subs, failures'[t].error >= Threshold, t \notin reenabled',
                      crashes' = 0, sub'[t] = "active"
               PROVE  \E i \in Jobs : delivery'[i][t] \in {"count", "deactivate"}
    BY DEF FailingIsCounted
  <2>1. CASE t = s /\ next = "count"
    BY <2>1, <1>3
  <2>2. CASE failures'[t].error = failures[t].error
    <3>1. PICK i \in Jobs : delivery[i][t] \in {"count", "deactivate"}
      BY <2>2, <1>1 DEF FailingIsCounted
    <3>2. delivery'[i][t] = delivery[i][t]
      BY <3>1, <1>1, <1>3
    <3>3. QED
      BY <3>1, <3>2
  <2>3. QED
    BY <2>1, <2>2, <1>5
<1>11. QED
  BY <1>6, <1>7, <1>8, <1>9, <1>10

\* Whoever counts too many goes on to turn its subscription off.
LEMMA CountInv ==
  ASSUME WebhookInv, NEW j \in Jobs, NEW s \in Subs, Count(j, s)
  PROVE  WebhookInv'
<1> DEFINE next == IF TooMany(s) THEN "deactivate" ELSE "failed"
<1> USE DEF WebhookInv
<1>1. /\ delivery[j][s] = "count"
      /\ UNCHANGED <<sub, failures, job, delivered, reenabled, crashes, edits>>
  BY DEF Count, DeliveryAt
<1>2. DeliveryTo(j, s, next) /\ next \in Steps
  BY DEF Count, Steps
<1>3. /\ delivery' \in [Jobs -> [Subs -> Steps]]
      /\ \A i \in Jobs, t \in Subs :
           delivery'[i][t] = IF i = j /\ t = s THEN next ELSE delivery[i][t]
  BY <1>2, OneDelivery
<1>4. failures[s].error >= Threshold => next = "deactivate"
  BY WebhookAssumption DEF TooMany, WebhookTypeOK, FailureRecord
<1>5. next \in {"deactivate", "failed"}
  OBVIOUS
<1> HIDE DEF next
<1>6. WebhookTypeOK'
  BY <1>1, <1>3 DEF WebhookTypeOK
<1>7. DeliveriesListed'
  BY <1>1, <1>3 DEF DeliveriesListed
<1>8. AnsweredIsDelivered' /\ NoSilentLoss'
  BY <1>1, <1>3, <1>5 DEF AnsweredIsDelivered, NoSilentLoss
<1>9. FailingIsCounted'
  <2> SUFFICES ASSUME NEW t \in Subs, failures[t].error >= Threshold, t \notin reenabled,
                      crashes = 0, sub[t] = "active"
               PROVE  \E i \in Jobs : delivery'[i][t] \in {"count", "deactivate"}
    BY <1>1 DEF FailingIsCounted
  <2>1. PICK i \in Jobs : delivery[i][t] \in {"count", "deactivate"}
    BY DEF FailingIsCounted
  <2>2. delivery'[i][t] \in {"count", "deactivate"}
    BY <2>1, <1>3, <1>4
  <2>3. QED
    BY <2>2
<1>10. QED
  BY <1>6, <1>7, <1>8, <1>9

LEMMA DeactivateInv ==
  ASSUME WebhookInv, NEW j \in Jobs, NEW s \in Subs, Deactivate(j, s)
  PROVE  WebhookInv'
<1> USE DEF WebhookInv
<1>1. /\ delivery[j][s] = "deactivate" /\ reenabled' = reenabled \ {s}
      /\ UNCHANGED <<failures, job, delivered, crashes, edits>>
  BY DEF Deactivate, DeliveryAt
<1>2. /\ delivery' \in [Jobs -> [Subs -> Steps]]
      /\ \A i \in Jobs, t \in Subs :
           delivery'[i][t] = IF i = j /\ t = s THEN "failed" ELSE delivery[i][t]
  BY OneDelivery DEF Deactivate, Steps
<1>3. /\ sub' \in [Subs -> {"active", "inactive", "deleted"}]
      /\ sub'[s] # "active" /\ \A t \in Subs \ {s} : sub'[t] = sub[t]
  BY DEF Deactivate, WebhookTypeOK
<1>4. WebhookTypeOK'
  BY <1>1, <1>2, <1>3 DEF WebhookTypeOK
<1>5. DeliveriesListed'
  BY <1>1, <1>2 DEF DeliveriesListed
<1>6. AnsweredIsDelivered' /\ NoSilentLoss'
  BY <1>1, <1>2 DEF AnsweredIsDelivered, NoSilentLoss
<1>7. FailingIsCounted'
  BY <1>1, <1>2, <1>3 DEF FailingIsCounted
<1>8. QED
  BY <1>4, <1>5, <1>6, <1>7

\* A job is completed only when every delivery of its list was answered with 2xx.
LEMMA FinishInv ==
  ASSUME WebhookInv, NEW j \in Jobs, Finish(j)
  PROVE  WebhookInv'
<1> USE DEF WebhookInv
<1>1. /\ job[j].state = "active" /\ Settled(j)
      /\ UNCHANGED <<sub, failures, delivered, reenabled, crashes, edits>>
  BY DEF Finish
<1>2. /\ delivery' \in [Jobs -> [Subs -> Steps]]
      /\ \A i \in Jobs, t \in Subs : delivery'[i][t] = IF i = j THEN "none" ELSE delivery[i][t]
  BY NoDelivery DEF Finish
<1>3. /\ job' \in [Jobs -> JobRecord]
      /\ \A i \in Jobs : job'[i].listed = job[i].listed /\ (i # j => job'[i] = job[i])
      /\ job'[j].state = "completed" => ~AttemptFails(j)
  <2>1. CASE AttemptFails(j)
    <3>1. job' = [job EXCEPT ![j] = [job[j] EXCEPT !.state = AfterFailure(job[j].attempts + 1),
                                                   !.attempts = job[j].attempts + 1]]
      BY <2>1 DEF Finish
    <3>2. /\ AfterFailure(job[j].attempts + 1) \in {"failed", "waiting"}
          /\ job[j] \in JobRecord /\ job[j].attempts + 1 \in Nat
      BY DEF AfterFailure, WebhookTypeOK, JobRecord
    <3>3. QED
      BY <3>1, <3>2 DEF WebhookTypeOK, JobRecord, States
  <2>2. CASE ~AttemptFails(j)
    <3>1. job' = [job EXCEPT ![j] = [job[j] EXCEPT !.state = "completed"]]
      BY <2>2 DEF Finish
    <3>2. QED
      BY <2>2, <3>1 DEF WebhookTypeOK, JobRecord, States
  <2>3. QED
    BY <2>1, <2>2
<1>4. WebhookTypeOK'
  BY <1>1, <1>2, <1>3 DEF WebhookTypeOK
<1>5. DeliveriesListed' /\ AnsweredIsDelivered'
  BY <1>1, <1>2, <1>3 DEF DeliveriesListed, AnsweredIsDelivered
<1>6. ~AttemptFails(j) => job[j].listed \subseteq delivered[j]
  BY <1>1 DEF Settled, AttemptFails, DeliveryAt, AnsweredIsDelivered, WebhookTypeOK, JobRecord
<1>7. NoSilentLoss'
  BY <1>1, <1>3, <1>6 DEF NoSilentLoss
<1>8. FailingIsCounted'
  <2> SUFFICES ASSUME NEW t \in Subs, failures[t].error >= Threshold, t \notin reenabled,
                      crashes = 0, sub[t] = "active"
               PROVE  \E i \in Jobs : delivery'[i][t] \in {"count", "deactivate"}
    BY <1>1 DEF FailingIsCounted
  <2>1. PICK i \in Jobs : delivery[i][t] \in {"count", "deactivate"}
    BY DEF FailingIsCounted
  <2>2. i # j
    BY <2>1, <1>1 DEF Settled, DeliveriesListed
  <2>3. QED
    BY <2>1, <2>2, <1>2
<1>9. QED
  BY <1>4, <1>5, <1>7, <1>8

LEMMA CrashInv ==
  ASSUME WebhookInv, NEW j \in Jobs, Crash(j)
  PROVE  WebhookInv'
<1> USE DEF WebhookInv
<1>1. crashes' = crashes + 1 /\ UNCHANGED <<sub, failures, delivered, reenabled, edits>>
  BY DEF Crash
<1>2. /\ delivery' \in [Jobs -> [Subs -> Steps]]
      /\ \A i \in Jobs, t \in Subs : delivery'[i][t] = IF i = j THEN "none" ELSE delivery[i][t]
  BY NoDelivery DEF Crash
<1>3. /\ job' \in [Jobs -> JobRecord]
      /\ \A i \in Jobs : job'[i].listed = job[i].listed /\ (i # j => job'[i] = job[i])
      /\ job'[j].state = "waiting"
  BY DEF Crash, WebhookTypeOK, JobRecord, States
<1>4. WebhookTypeOK'
  BY <1>1, <1>2, <1>3 DEF WebhookTypeOK
<1>5. DeliveriesListed' /\ AnsweredIsDelivered' /\ NoSilentLoss'
  BY <1>1, <1>2, <1>3 DEF DeliveriesListed, AnsweredIsDelivered, NoSilentLoss
<1>6. crashes' # 0
  BY <1>1 DEF WebhookTypeOK
<1>7. FailingIsCounted'
  BY <1>6 DEF FailingIsCounted
<1>8. QED
  BY <1>4, <1>5, <1>7

\* The tenant and the clock: they turn off, delete, forget, or turn on again.
LEMMA OutsideInv ==
  ASSUME WebhookInv, NEW s \in Subs,
         Update(s, TRUE) \/ Update(s, FALSE) \/ Delete(s) \/ WindowPasses(s)
  PROVE  WebhookInv'
<1> USE DEF WebhookInv
<1>1. UNCHANGED <<job, delivery, delivered, crashes>> /\ edits' = edits + 1
  BY DEF Update, Delete, WindowPasses
<1>2. DeliveriesListed' /\ AnsweredIsDelivered' /\ NoSilentLoss'
  BY <1>1 DEF DeliveriesListed, AnsweredIsDelivered, NoSilentLoss
<1>3. /\ sub' \in [Subs -> {"active", "inactive", "deleted"}]
      /\ failures' \in [Subs -> FailureRecord] /\ reenabled' \subseteq Subs
      /\ \A t \in Subs :
           (t \notin reenabled' /\ sub'[t] = "active") =>
             /\ t \notin reenabled /\ sub[t] = "active"
             /\ failures'[t].error <= failures[t].error
  <2>1. CASE Update(s, TRUE)
    BY <2>1 DEF Update, WebhookTypeOK, FailureRecord
  <2>2. CASE Update(s, FALSE)
    BY <2>2 DEF Update, WebhookTypeOK, FailureRecord
  <2>3. CASE Delete(s)
    BY <2>3 DEF Delete, WebhookTypeOK, FailureRecord, NoFailures
  <2>4. CASE WindowPasses(s)
    <3>1. PICK e \in 0 .. failures[s].error, o \in 0 .. failures[s].odd :
            failures' = [failures EXCEPT ![s] = [error |-> e, odd |-> o]]
      BY <2>4 DEF WindowPasses
    <3>2. e \in Nat /\ o \in Nat /\ e <= failures[s].error
      BY DEF WebhookTypeOK, FailureRecord
    <3>3. QED
      BY <2>4, <3>1, <3>2 DEF WindowPasses, WebhookTypeOK, FailureRecord
  <2>5. QED
    BY <2>1, <2>2, <2>3, <2>4
<1>4. WebhookTypeOK'
  BY <1>1, <1>3 DEF WebhookTypeOK
<1>5. FailingIsCounted'
  <2> SUFFICES ASSUME NEW t \in Subs, failures'[t].error >= Threshold, t \notin reenabled',
                      crashes = 0, sub'[t] = "active"
               PROVE  \E i \in Jobs : delivery[i][t] \in {"count", "deactivate"}
    BY <1>1 DEF FailingIsCounted
  <2>1. failures[t].error >= Threshold
    BY <1>3, <1>4, WebhookAssumption DEF WebhookTypeOK, FailureRecord
  <2>2. QED
    BY <2>1, <1>3 DEF FailingIsCounted
<1>6. QED
  BY <1>2, <1>4, <1>5

LEMMA WebhookNextInv == WebhookInv /\ [WebhookNext]_webhookVars => WebhookInv'
<1> SUFFICES ASSUME WebhookInv, [WebhookNext]_webhookVars PROVE WebhookInv'
  OBVIOUS
<1>1. CASE \E j \in Jobs : Emit(j) \/ JobStep(j) \/ Crash(j)
  BY <1>1, EmitInv, StartInv, FinishInv, PostInv, RecordInv, CountInv, DeactivateInv, CrashInv
     DEF JobStep
<1>2. CASE \E s \in Subs : Update(s, TRUE) \/ Update(s, FALSE) \/ Delete(s) \/ WindowPasses(s)
  BY <1>2, OutsideInv
<1>3. CASE UNCHANGED webhookVars
  BY <1>3 DEF webhookVars, WebhookInv, WebhookTypeOK, DeliveriesListed, AnsweredIsDelivered,
              NoSilentLoss, FailingIsCounted
<1>4. QED
  BY <1>1, <1>2, <1>3 DEF WebhookNext

LEMMA FailingIsCountedIsOff == FailingIsCounted => FailingIsOff
BY DEF FailingIsCounted, FailingIsOff, InFlight

-----------------------------------------------------------------------------

\* The invariant of the delivery, in every behaviour of the webhooks.
THEOREM WebhookInvariant == WebhookSpec => []WebhookInv
<1>1. QED
  BY WebhookInitInv, WebhookNextInv, PTL DEF WebhookSpec

\* A job of webhooks ends well only when every endpoint of its list answered.
THEOREM WebhooksLoseNothing == WebhookSpec => []NoSilentLoss
<1>1. WebhookInv => NoSilentLoss
  BY DEF WebhookInv
<1>2. QED
  BY <1>1, WebhookInvariant, PTL

\* With nothing in flight to it, a subscription with too many errors is off.
THEOREM FailingSubscriptionsAreOff == WebhookSpec => []FailingIsOff
<1>1. WebhookInv => FailingIsOff
  BY FailingIsCountedIsOff DEF WebhookInv
<1>2. QED
  BY <1>1, WebhookInvariant, PTL

\* Cron jobs and webhooks side by side: each half of the background work is a
\* behaviour of its own specification and keeps its properties.
THEOREM BackgroundKeeps ==
  BackgroundSpec => /\ [](Exclusive /\ NeverServeUnusable /\ NoSilentLoss /\ FailingIsOff)
                    /\ NeverEvicted
<1>1. BackgroundInit => Init /\ WebhookInit
  BY DEF BackgroundInit
<1>2. [BackgroundNext]_backgroundVars => [Next]_vars /\ [WebhookNext]_webhookVars
  BY DEF BackgroundNext, backgroundVars, vars, webhookVars
<1>3. BackgroundSpec => Spec /\ WebhookSpec
  BY <1>1, <1>2, PTL DEF BackgroundSpec, Spec, WebhookSpec
<1>4. QED
  BY <1>3, WorkersExclusive, TokensServedAreUsable, WebhooksLoseNothing, FailingSubscriptionsAreOff,
     LockNeverEvicted, PTL
=============================================================================
