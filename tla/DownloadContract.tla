------------------------- MODULE DownloadContract -------------------------
(***************************************************************************)
(* What DownloadService promises to whoever listens to its signals, as the *)
(* class comment states it: every reserved id is answered at most once, a  *)
(* download that never started can only be answered Failed, and at most    *)
(* one download runs at a time.  A shutdown silences what was running.     *)
(***************************************************************************)
EXTENDS Naturals

CONSTANT Download      \* the ids of downloads

VARIABLES phase,       \* how far the listener has heard of each id
          outcome      \* the state its downloadFinished carried

contractVars == <<phase, outcome>>

Outcome == {"Completed", "Cancelled", "Failed"}

Running == {i \in Download : phase[i] = "started"}

Init ==
    /\ phase = [i \in Download |-> "unknown"]
    /\ outcome = [i \in Download |-> "none"]

Reserve(i) ==
    /\ phase[i] = "unknown"
    /\ phase' = [phase EXCEPT ![i] = "reserved"]
    /\ UNCHANGED outcome

\* downloadStarted
Start(i) ==
    /\ phase[i] = "reserved" /\ Running = {}
    /\ phase' = [phase EXCEPT ![i] = "started"]
    /\ UNCHANGED outcome

\* downloadFinished
Finish(i, r) ==
    /\ \/ phase[i] = "started"
       \/ phase[i] = "reserved" /\ r = "Failed"
    /\ phase' = [phase EXCEPT ![i] = "finished"]
    /\ outcome' = [outcome EXCEPT ![i] = r]

\* shutdown(): the download that runs will not be answered.
Silence ==
    /\ Running # {}
    /\ phase' = [i \in Download |-> IF i \in Running THEN "silenced" ELSE phase[i]]
    /\ UNCHANGED outcome

Next ==
    \/ \E i \in Download : Reserve(i) \/ Start(i) \/ \E r \in Outcome : Finish(i, r)
    \/ Silence

Spec == Init /\ [][Next]_contractVars
===========================================================================
