------------------------ MODULE MCInferenceService ------------------------
(* Small instances of two parts that meet in the host only: the inference   *)
(* service with one job, a chat and one cancelling thread                   *)
(* (InferenceService), and the admission queue with room for fewer jobs     *)
(* than there are ids (SchedulerFairness).  A behaviour is one of part's.   *)
EXTENDS InferenceService, SchedulerFairness

VARIABLE part   \* "service" or "queue"

MCInit == Init /\ QueueInit /\ part \in {"service", "queue"}

MCNext ==
    /\ UNCHANGED part
    /\ \/ part = "service" /\ Next /\ UNCHANGED queueVars
       \/ part = "queue" /\ QueueNext /\ UNCHANGED vars

\* The fairness of Spec and of QueueSpec.  In its initial state, where the
\* other part rests, neither has a fair step to take.
MCSpec == MCInit /\ [][MCNext]_<<part, vars, queueVars>> /\ Fairness /\ WF_queueVars(Pop)
===========================================================================
