---------------------------- MODULE MCEcfPipeline ----------------------------
(* Finite instances of EcfPipeline for TLC. *)
EXTENDS EcfPipeline, FiniteSets

CONSTANTS e, p, c1, q, v, m

None == {}
OneRun == {c1}
OneQuery == {q}
OneVoid == {v}
OneMark == {m}

NoFaults == {}
CrashOnly == {"crash"}
LostOnly == {"lost"}
EmitOnly == {"emit"}
LostAnswerOrJob == {"lost", "lostJob"}
AllFaults == FaultKinds
NoLostJob == FaultKinds \ {"lostJob"}
RefundCompletes == {"lost", "noTrack", "emit"}

\* One process at a time: no step of another between the first and the last of
\* a handler.
OneHandler == Cardinality({a \in Actors : proc'[a].step # "idle"}) <= 1
=============================================================================
