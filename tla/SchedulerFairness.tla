-------------------------- MODULE SchedulerFairness --------------------------
(***************************************************************************)
(* The admission queue on its own, driven by any sequence of pushes and    *)
(* pops.  waited[c] is a history variable: the pops that served another    *)
(* class since class c last was served or became non-empty.  It is the     *)
(* measure of unfairness the constants of pop() are there to bound.        *)
(***************************************************************************)
EXTENDS InvocationScheduler

VARIABLE waited   \* per class, see above

queueVars == <<sch, waited>>

\* Bound: the history counts no further, well past what any property allows.
WaitedLimit == 5

QueueTypeOK ==
    /\ sch \in Scheduler
    /\ waited \in [WorkClass -> 0..WaitedLimit]

QueueInit ==
    /\ sch = EmptyScheduler
    /\ waited = [c \in WorkClass |-> 0]

\* An id is never queued twice: the host draws it from a counter.
Push(c, j) ==
    /\ j \notin QueuedJobs(sch)
    /\ HasRoom(sch)
    /\ sch' = Pushed(sch, c, j)
    /\ UNCHANGED waited

Counted ==
    [c \in WorkClass |->
        IF c = PopClass(sch) \/ ~Waiting(sch, c) THEN 0
        ELSE IF waited[c] < WaitedLimit THEN waited[c] + 1 ELSE WaitedLimit]

Pop ==
    /\ sch.size # 0
    /\ sch' = Popped(sch)
    /\ waited' = Counted

QueueNext == Pop \/ \E c \in WorkClass, j \in InvocationId : Push(c, j)

QueueSpec == QueueInit /\ [][QueueNext]_queueVars /\ WF_queueVars(Pop)

-----------------------------------------------------------------------------
(* The counter that guards push() and pop() is the number of queued jobs.  *)
(* If it drifted, pop() would report an empty queue to a host that still   *)
(* owes an invocation its run, or dereference an empty deque.              *)
SizeIsTotal == sch.size = TotalLength(sch)

(* A waiting batch job is passed over by at most three pops, whatever the  *)
(* interactive classes submit in the meantime.                             *)
BatchBypassBounded == waited[Batch] <= MaxBypass

(* No interactive class is passed over by more than the other two classes  *)
(* once each and one batch job: the round-robin cursor must move past the  *)
(* class it served, and a batch pop must not move it.                      *)
InteractiveBypassBounded ==
    \A c \in WorkClass \ {Batch} : waited[c] <= 3

(* Nobody starves: the two bounds together, whoever keeps the host busy.   *)
BypassBounded == BatchBypassBounded /\ InteractiveBypassBounded

(* Every queued job is eventually handed to the runtime, under any         *)
(* arrivals, as long as the runtime keeps popping.                         *)
EveryJobServed ==
    \A j \in InvocationId : (j \in QueuedJobs(sch)) ~> (j \notin QueuedJobs(sch))
=============================================================================
