---------------------------- MODULE InvoiceLifecycle ----------------------------
(***************************************************************************)
(* What a client of the API may rely on of the status, the quota and the   *)
(* webhooks of one invoice, without jobs, queues, polls or answers: the    *)
(* diagram of states of the integration guide, as far as the code keeps    *)
(* to it when everything that writes the invoice meets and fails.  A       *)
(* client may not rely on more: ACCEPTED and VOIDED are not final.         *)
(***************************************************************************)
EXTENDS Naturals

CONSTANT Writers  \* whoever writes the invoice

VARIABLES
  status,
  said,     \* the verdicts that DGII has given on it
  todo,     \* what each writer has still to do about it
  claimed,  \* somebody has taken on to give its quota back
  refunds,  \* how often the quota was given back
  told      \* the events that the webhooks were told of

lifecycleVars == <<status, said, todo, claimed, refunds, told>>

LifecycleInit ==
  /\ status = "QUEUED" /\ said = {}
  /\ todo = [w \in Writers |-> "nothing"]
  /\ claimed = FALSE /\ refunds = 0 /\ told = {}

Becomes(w, what) == todo' = [todo EXCEPT ![w] = what]

\* DGII gives a verdict, and takes none back.
Say ==
  /\ \E verdict \in {"ACCEPTED", "REJECTED", "CONDITIONAL"} : said' = said \cup {verdict}
  /\ UNCHANGED <<status, todo, claimed, refunds, told>>

\* The invoice is signed, or cannot be; nothing else happens to it while it is queued,
\* and it is not queued again.
Begin ==
  /\ status = "QUEUED" /\ status' \in {"PROCESSING", "ERROR"}
  /\ UNCHANGED <<said, todo, claimed, refunds, told>>

\* On its way to a verdict, or stuck; whatever it was before.
Move ==
  /\ status # "QUEUED" /\ status' \in {"PROCESSING", "SENT", "CONTINGENCY", "ERROR"}
  /\ UNCHANGED <<said, todo, claimed, refunds, told>>

\* Accepted, with or without remarks: DGII has said so.  Some writers announce it.
Accept(w) ==
  /\ status # "QUEUED" /\ todo[w] = "nothing"
  /\ status' \in said \cap {"ACCEPTED", "CONDITIONAL"}
  /\ \/ Becomes(w, "nothing")
     \/ status' = "ACCEPTED" /\ Becomes(w, "announce")
  /\ UNCHANGED <<said, claimed, refunds, told>>

\* Rejected, by DGII or because it answered with an error: who says so gives the quota back.
Reject(w) ==
  /\ status # "QUEUED" /\ todo[w] = "nothing"
  /\ status' = "REJECTED" /\ Becomes(w, "refund")
  /\ UNCHANGED <<said, claimed, refunds, told>>

\* Only the first to claim the refund makes it.
Claim(w) ==
  /\ todo[w] = "refund"
  /\ claimed' = TRUE /\ Becomes(w, IF claimed THEN "nothing" ELSE "decrement")
  /\ UNCHANGED <<status, said, refunds, told>>

GiveBack(w) ==
  /\ todo[w] = "decrement"
  /\ refunds' = refunds + 1 /\ Becomes(w, "nothing")
  /\ UNCHANGED <<status, said, claimed, told>>

\* To void is granted to an invoice that is stuck or rejected...
GrantVoid(w) ==
  /\ status \in {"ERROR", "CONTINGENCY", "REJECTED"}
  /\ todo[w] = "nothing" /\ Becomes(w, "void")
  /\ UNCHANGED <<status, said, claimed, refunds, told>>

\* ...and happens later, whatever it is then, with the refund if nobody has claimed it.
Void(w) ==
  /\ todo[w] = "void" /\ status # "QUEUED"
  /\ status' = "VOIDED" /\ claimed' = TRUE
  /\ refunds' = IF claimed THEN refunds ELSE refunds + 1
  /\ Becomes(w, "nothing")
  /\ UNCHANGED <<said, told>>

\* An acceptance is announced only by who wrote it.
Announce(w) ==
  /\ todo[w] = "announce"
  /\ told' = told \cup {"accepted"} /\ Becomes(w, "nothing")
  /\ UNCHANGED <<status, said, claimed, refunds>>

\* A contingency is announced while it lasts.
Warn ==
  /\ status = "CONTINGENCY" /\ told' = told \cup {"contingency"}
  /\ UNCHANGED <<status, said, todo, claimed, refunds>>

\* A writer fails or dies: a refund or an announcement may never come.
Forget(w) ==
  /\ todo[w] # "nothing" /\ Becomes(w, "nothing")
  /\ UNCHANGED <<status, said, claimed, refunds, told>>

LifecycleNext ==
  \/ Say \/ Begin \/ Move \/ Warn
  \/ \E w \in Writers : \/ Accept(w) \/ Reject(w) \/ Claim(w) \/ GiveBack(w)
                        \/ GrantVoid(w) \/ Void(w) \/ Announce(w) \/ Forget(w)

LifecycleSpec == LifecycleInit /\ [][LifecycleNext]_lifecycleVars
=============================================================================
