------------------------------ MODULE EncfRegistry ------------------------------
(***************************************************************************)
(* What the numbering of a company promises its callers, without ranges,   *)
(* counters, locks or transactions: each call gets one answer, at once,    *)
(* and an invoice with a number of its own, or none.                       *)
(***************************************************************************)
EXTENDS Naturals

CONSTANTS
  Calls,        \* the emission calls
  Numbers,      \* the numbers of their e-NCFs
  KeyOf, NoKey  \* the idempotency key of each call

VARIABLES
  answer,   \* the answer that each call got, or that it waits for one
  number,   \* the number of the invoice that each call created, or 0
  annulled  \* the numbers that were annulled

registryVars == <<answer, number, annulled>>

RegistryInit ==
  /\ answer = [r \in Calls |-> "pending"]
  /\ number = [r \in Calls |-> 0]
  /\ annulled = {}

Issued == {r \in Calls : number[r] # 0}
Repeated(r) == KeyOf[r] # NoKey /\ \E q \in Issued : KeyOf[q] = KeyOf[r]

Answer(r, a) == answer[r] = "pending" /\ answer' = [answer EXCEPT ![r] = a]

\* A call creates an invoice: its key and its number have none yet.
Issue(r) ==
  /\ Answer(r, "created") /\ ~Repeated(r)
  /\ \E n \in Numbers : /\ \A q \in Issued : number[q] # n
                        /\ number' = [number EXCEPT ![r] = n]
  /\ UNCHANGED annulled

\* A call whose key has an invoice is answered with it.
Replay(r) == Answer(r, "replayed") /\ Repeated(r) /\ UNCHANGED <<number, annulled>>

\* A call that is refused, or fails, created nothing.
Refuse(r) == Answer(r, "refused") /\ UNCHANGED <<number, annulled>>

\* An annulment is never taken back.
Annul == (\E S \in SUBSET Numbers : annulled' = annulled \cup S) /\ UNCHANGED <<answer, number>>

RegistryNext == (\E r \in Calls : Issue(r) \/ Replay(r) \/ Refuse(r)) \/ Annul

RegistrySpec == RegistryInit /\ [][RegistryNext]_registryVars
=============================================================================
