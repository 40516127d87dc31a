-------------------------- MODULE InvocationContract --------------------------
(***************************************************************************)
(* What the model host promises to the observer of an invocation it has    *)
(* admitted, without its threads, queues and locks: Started comes first,   *)
(* then deltas with rising numbers, then exactly one Finished, and its     *)
(* reason is the strongest reason for which the invocation was told to     *)
(* stop.  ModelHost is shown to implement it.                              *)
(***************************************************************************)
EXTENDS Integers

CONSTANTS
    InvocationId,
    StopPriority(_),   \* the rank of a stop reason
    MapStopReason(_)   \* the finish reason it maps to

VARIABLES
    phase,    \* "unborn", "admitted", "started" or "finished"
    told,     \* the last sequence number delivered
    asked,    \* the strongest stop reason requested
    outcome   \* the finish reason delivered

vars == <<phase, told, asked, outcome>>

Init ==
    /\ phase = [i \in InvocationId |-> "unborn"]
    /\ told = [i \in InvocationId |-> 0]
    /\ asked = [i \in InvocationId |-> "None"]
    /\ outcome = [i \in InvocationId |-> "Pending"]

Admit(i) ==
    /\ phase[i] = "unborn"
    /\ phase' = [phase EXCEPT ![i] = "admitted"]
    /\ UNCHANGED <<told, outcome>>

Start(i) ==
    /\ phase[i] = "admitted"
    /\ phase' = [phase EXCEPT ![i] = "started"]
    /\ told' = [told EXCEPT ![i] = 1]
    /\ UNCHANGED outcome

\* Numbers rise; an empty piece of output may leave a gap.
Advance(i) == told'[i] > told[i] /\ told' = [told EXCEPT ![i] = told'[i]]

Delta(i) ==
    /\ phase[i] = "started"
    /\ Advance(i)
    /\ UNCHANGED <<phase, outcome>>

Finish(i) ==
    /\ phase[i] = "started"
    /\ Advance(i)
    /\ phase' = [phase EXCEPT ![i] = "finished"]
    /\ \E r \in {"Completed", "Length", "Failed", "Cancelled", "Deadline", "Preempted"} :
          /\ IF asked[i] = "None" THEN r \in {"Completed", "Length", "Failed"}
                                  ELSE r = MapStopReason(asked[i])
          /\ outcome' = [outcome EXCEPT ![i] = r]

\* Stop reasons rise, and never for an invocation that is not in progress.
Ask ==
    /\ \A i \in InvocationId :
          asked'[i] # asked[i] => /\ phase[i] \in {"admitted", "started"}
                                  /\ StopPriority(asked'[i]) > StopPriority(asked[i])
    /\ DOMAIN asked' = InvocationId

Deliver(i) == (Start(i) \/ Delta(i) \/ Finish(i)) /\ UNCHANGED asked

\* An arrival may preempt other invocations in the same step.
Next ==
    \/ Ask /\ UNCHANGED <<phase, told, outcome>>
    \/ \E i \in InvocationId : (Admit(i) /\ Ask) \/ Deliver(i)

Spec == Init /\ [][Next]_vars

(* Every admitted invocation finishes. *)
EveryInvocationFinishes ==
    \A i \in InvocationId : (phase[i] = "admitted") ~> (phase[i] = "finished")
=============================================================================
