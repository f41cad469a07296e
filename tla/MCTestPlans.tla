---------------------------- MODULE MCTestPlans -----------------------------
(* One request at a time, about one run and about two plans.               *)
EXTENDS MCTestDirector

AllRequests == SerialRequests \cup PlanRequests

NextRequests == {handler'[h].req : h \in {g \in Handlers : At(g, "idle") /\ handler'[g].pc # "idle"}}
DefaultOnly ==
    \A k \in PlanKeys :
        \/ plans[k] = NoPlan
        \/ k = DefaultPlan /\ plans[k].active /\ plans[k].status \in {"NOT_STARTED", "RUNNING"}
OnlyStarted ==
    /\ events = {}
    /\ \A r \in RunIds : runs[r] = NoRun \/ runs[r].status \in {"TODO", "EXECUTING"}
    /\ \A x \in Execs : xray[x].comment = {} /\ xray[x].status \in {"NOT_CREATED", "TODO", "EXECUTING"}

\* What is asked next: anything about the run while there is no plan but the
\* default one, as the start of a run leaves it, anything about the plans while the run has at most started.
AboutRunOrPlans ==
    \A req \in NextRequests :
        \/ req \in RunStartRequests
        \/ req \in SerialRequests /\ DefaultOnly
        \/ req \in PlanRequests /\ OnlyStarted
=============================================================================
