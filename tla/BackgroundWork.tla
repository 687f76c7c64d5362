---------------------------- MODULE BackgroundWork ----------------------------
(***************************************************************************)
(* What the API does beside its requests: the cron jobs under their lock,  *)
(* with the token cache they clean, and the delivery of webhooks.  The two *)
(* share no variable: a behaviour is about one of them.                    *)
(***************************************************************************)
EXTENDS Scheduler, WebhookDelivery

VARIABLES work  \* what the behaviour is about

backgroundVars == <<work, vars, webhookVars>>

BackgroundInit == Init /\ WebhookInit /\ work \in {"cron", "webhooks"}

BackgroundNext ==
  \/ work = "cron" /\ Next /\ UNCHANGED <<webhookVars, work>>
  \/ work = "webhooks" /\ WebhookNext /\ UNCHANGED <<vars, work>>

BackgroundSpec == BackgroundInit /\ [][BackgroundNext]_backgroundVars /\ WebhookFairness
=============================================================================
