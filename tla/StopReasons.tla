---------------------------- MODULE StopReasons ----------------------------
(***************************************************************************)
(* Invocations: their ids, why one is told to stop, how reasons outrank    *)
(* each other, and what it finishes as.  Shared by the model host, its     *)
(* queue and the services above it.                                        *)
(***************************************************************************)
EXTENDS Integers

CONSTANT InvocationId   \* bound: the ids the host gives out

StopReason == {"None", "Preempted", "Deadline", "UserCancel", "Shutdown"}

FinishReason == {"Completed", "Length", "Cancelled", "Deadline", "Preempted", "Failed"}

StopPriority(r) == CASE r = "Shutdown"   -> 4
                     [] r = "UserCancel" -> 3
                     [] r = "Deadline"   -> 2
                     [] r = "Preempted"  -> 1
                     [] OTHER            -> 0

\* map_stop_reason(): what a stopped invocation finishes as.
MapStopReason(r) == CASE r \in {"Shutdown", "UserCancel"} -> "Cancelled"
                      [] OTHER -> r

\* request_stop(): the compare-and-swap loop raises the reason, never lowers it.
\* Mistake: a plain store, the last writer wins.
Mut_Raise(old, r) == r

Raise(old, r) == IF StopPriority(r) > StopPriority(old) THEN r ELSE old
============================================================================
