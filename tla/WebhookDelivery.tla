---------------------------- MODULE WebhookDelivery ----------------------------
(***************************************************************************)
(* The delivery of webhook events: emit() adds a job per event, and each   *)
(* attempt of the job posts the event to every subscription that is active *)
(* when the attempt starts, all at once.  A delivery records a row,        *)
(* and if it failed counts the failed rows of its subscription and may     *)
(* turn the subscription off.  One failed delivery fails the attempt, so   *)
(* that BullMQ repeats all of them.                                        *)
(*                                                                         *)
(* Meanwhile the tenant may change or delete subscriptions, rows leave the *)
(* 24-hour window and the worker may die.  All events are of a kind every  *)
(* subscription wants; subscriptions have their secret.                    *)
(***************************************************************************)
EXTENDS Integers, FiniteSets

CONSTANTS
  Subs, Jobs,    \* the subscriptions of a tenant, the jobs of its events
  Flaky,         \* the subscriptions whose endpoint does not always answer 200
  MaxAttempts,   \* WEBHOOK_MAX_ATTEMPTS
  Threshold,     \* WEBHOOK_AUTO_DEACTIVATE_THRESHOLD
  MaxUpsets      \* bound on the deaths of the worker and the changes from outside:
                 \* PATCH, DELETE, the clock

ASSUME WebhookAssumption ==
  /\ Flaky \subseteq Subs /\ MaxAttempts \in Nat \ {0} /\ Threshold \in Nat \ {0}
  /\ MaxUpsets \in Nat

VARIABLES
  sub,        \* each subscription: active, inactive or deleted
  failures,   \* its rows of the last 24 hours that count as failures: errors, unlisted 2xx
  job,        \* each job: state, failed attempts, subscriptions of the attempt
  delivery,   \* the step of each delivery of the attempt
  delivered,  \* the subscriptions whose endpoint answered a job with 2xx
  reenabled,  \* subscriptions turned on again by the tenant
  crashes, edits

webhookVars == <<sub, failures, job, delivery, delivered, reenabled, crashes, edits>>

Absent == [state |-> "absent", attempts |-> 0, listed |-> {}]
None == [s \in Subs |-> "none"]
NoFailures == [error |-> 0, odd |-> 0]

WebhookInit ==
  /\ sub = [s \in Subs |-> "active"]
  /\ failures = [s \in Subs |-> NoFailures]
  /\ job = [j \in Jobs |-> Absent]
  /\ delivery = [j \in Jobs |-> None]
  /\ delivered = [j \in Jobs |-> {}]
  /\ reenabled = {} /\ crashes = 0 /\ edits = 0

DeliveryAt(j, s, step) == delivery[j][s] = step
DeliveryTo(j, s, step) == delivery' = [delivery EXCEPT ![j][s] = step]
InFlight(s) ==
  \E j \in Jobs : delivery[j][s] \in {"post", "recordOk", "recordOdd", "recordError", "count", "deactivate"}

-----------------------------------------------------------------------------
(* The job *)

Emit(j) ==
  /\ job[j].state = "absent"
  /\ job' = [job EXCEPT ![j].state = "waiting"]
  /\ UNCHANGED <<sub, failures, delivery, delivered, reenabled, crashes, edits>>

\* process: the list of the attempt; without subscriptions the job is done.
Start(j) ==
  LET listed == {s \in Subs : sub[s] = "active"} IN
  /\ job[j].state = "waiting"
  /\ job' = [job EXCEPT ![j].state = IF listed = {} THEN "completed" ELSE "active",
                        ![j].listed = listed]
  /\ delivery' = [delivery EXCEPT ![j] = [s \in Subs |-> IF s \in listed THEN "post" ELSE "none"]]
  /\ UNCHANGED <<sub, failures, delivered, reenabled, crashes, edits>>

\* fetch: 200 to 204, another 2xx, an HTTP error, or no answer in ten seconds
\* (the endpoint may have processed the request in every case).
Post(j, s) ==
  /\ DeliveryAt(j, s, "post")
  /\ \/ /\ DeliveryTo(j, s, "recordOk") \/ (s \in Flaky /\ DeliveryTo(j, s, "recordOdd"))
        /\ delivered' = [delivered EXCEPT ![j] = @ \cup {s}]
     \/ s \in Flaky /\ DeliveryTo(j, s, "recordError") /\ UNCHANGED delivered
  /\ UNCHANGED <<sub, failures, job, reenabled, crashes, edits>>

\* The row of the delivery.  A subscription deleted meanwhile makes the insert
\* fail, and then the delivery, although its endpoint answered.
Record(j, s) ==
  /\ delivery[j][s] \in {"recordOk", "recordOdd", "recordError"}
  /\ failures' =
       CASE sub[s] = "deleted" \/ DeliveryAt(j, s, "recordOk") -> failures
         [] sub[s] # "deleted" /\ DeliveryAt(j, s, "recordOdd") -> [failures EXCEPT ![s].odd = @ + 1]
         [] OTHER -> [failures EXCEPT ![s].error = @ + 1]
  /\ DeliveryTo(j, s, IF sub[s] = "deleted" \/ DeliveryAt(j, s, "recordError") THEN "count" ELSE "ok")
  /\ UNCHANGED <<sub, job, delivered, reenabled, crashes, edits>>

TooMany_Exceeds(s) == failures[s].error + failures[s].odd > Threshold
\* statusCode notIn [200, 201, 202, 204]: a 206, say, is delivered and counts here.
TooMany(s) == failures[s].error + failures[s].odd >= Threshold

Count(j, s) ==
  /\ DeliveryAt(j, s, "count")
  /\ DeliveryTo(j, s, IF TooMany(s) THEN "deactivate" ELSE "failed")
  /\ UNCHANGED <<sub, failures, job, delivered, reenabled, crashes, edits>>

\* The update by id throws when the subscription is gone: the delivery fails anyway.
Deactivate(j, s) ==
  /\ DeliveryAt(j, s, "deactivate")
  /\ sub' = IF sub[s] = "deleted" THEN sub ELSE [sub EXCEPT ![s] = "inactive"]
  /\ reenabled' = reenabled \ {s}
  /\ DeliveryTo(j, s, "failed")
  /\ UNCHANGED <<failures, job, delivered, crashes, edits>>

Settled_Succeeded(j) == \A s \in job[j].listed : DeliveryAt(j, s, "ok")
\* Promise.allSettled
Settled(j) == \A s \in job[j].listed : delivery[j][s] \in {"ok", "failed"}

AttemptFails_All(j) == \A s \in job[j].listed : DeliveryAt(j, s, "failed")
\* "Any rejected delivery rethrows so BullMQ schedules another attempt."
AttemptFails(j) == \E s \in job[j].listed : DeliveryAt(j, s, "failed")

\* BullMQ: attempts, custom backoff.
AfterFailure(n) == IF n >= MaxAttempts THEN "failed" ELSE "waiting"

Finish(j) ==
  LET n == job[j].attempts + 1 IN
  /\ job[j].state = "active" /\ Settled(j)
  /\ job' = [job EXCEPT ![j] =
       IF AttemptFails(j) THEN [@ EXCEPT !.state = AfterFailure(n), !.attempts = n]
                          ELSE [@ EXCEPT !.state = "completed"]]
  /\ delivery' = [delivery EXCEPT ![j] = None]
  /\ UNCHANGED <<sub, failures, delivered, reenabled, crashes, edits>>

\* The worker dies; BullMQ finds the job stalled and runs it again.
Crash(j) ==
  /\ job[j].state = "active" /\ crashes + edits < MaxUpsets
  /\ job' = [job EXCEPT ![j].state = "waiting"]
  /\ delivery' = [delivery EXCEPT ![j] = None]
  /\ crashes' = crashes + 1
  /\ UNCHANGED <<sub, failures, delivered, reenabled, edits>>

-----------------------------------------------------------------------------
(* The tenant and the clock *)

\* PATCH /webhooks/:id with isActive.
Update(s, active) ==
  /\ crashes + edits < MaxUpsets /\ sub[s] # "deleted"
  /\ sub' = [sub EXCEPT ![s] = IF active THEN "active" ELSE "inactive"]
  /\ reenabled' = IF active THEN reenabled \cup {s} ELSE reenabled \ {s}
  /\ edits' = edits + 1
  /\ UNCHANGED <<failures, job, delivery, delivered, crashes>>

\* DELETE /webhooks/:id: its deliveries go with it.
Delete(s) ==
  /\ crashes + edits < MaxUpsets /\ sub[s] # "deleted"
  /\ sub' = [sub EXCEPT ![s] = "deleted"]
  /\ failures' = [failures EXCEPT ![s] = NoFailures]
  /\ edits' = edits + 1
  /\ UNCHANGED <<job, delivery, delivered, reenabled, crashes>>

\* The rows of a subscription leave the window of 24 hours.
WindowPasses(s) ==
  /\ crashes + edits < MaxUpsets /\ failures[s] # NoFailures
  /\ \E e \in 0 .. failures[s].error, o \in 0 .. failures[s].odd :
       failures' = [failures EXCEPT ![s] = [error |-> e, odd |-> o]]
  /\ failures' # failures
  /\ edits' = edits + 1
  /\ UNCHANGED <<sub, job, delivery, delivered, reenabled, crashes>>

-----------------------------------------------------------------------------

JobStep(j) ==
  \/ Start(j) \/ Finish(j)
  \/ \E s \in Subs : Post(j, s) \/ Record(j, s) \/ Count(j, s) \/ Deactivate(j, s)

WebhookNext ==
  \/ \E j \in Jobs : Emit(j) \/ JobStep(j) \/ Crash(j)
  \/ \E s \in Subs : Update(s, TRUE) \/ Update(s, FALSE) \/ Delete(s) \/ WindowPasses(s)

\* BullMQ runs the jobs it holds, and every step ends (fetch after ten seconds).
WebhookFairness == \A j \in Jobs : WF_webhookVars(JobStep(j))

WebhookSpec == WebhookInit /\ [][WebhookNext]_webhookVars /\ WebhookFairness

-----------------------------------------------------------------------------
(* Properties *)

\* A job ends well only when every endpoint of its last list has answered it with
\* 2xx: no failure is swallowed because the others succeeded.
NoSilentLoss ==
  \A j \in Jobs : job[j].state = "completed" => job[j].listed \subseteq delivered[j]

\* "if a webhook has 10 or more failed deliveries in the last 24h, isActive is
\* flipped to false": with no delivery under way a subscription with that many
\* errors is off, however jobs overlap and stale counts meet edits, unless the
\* tenant turned it on again or a worker died before it counted.
FailingIsOff ==
  \A s \in Subs :
    (failures[s].error >= Threshold /\ ~InFlight(s) /\ s \notin reenabled /\ crashes = 0) =>
      sub[s] # "active"

\* Every job comes to an end.
JobsSettle ==
  \A j \in Jobs : job[j].state = "waiting" ~> job[j].state \in {"completed", "failed"}
=============================================================================
