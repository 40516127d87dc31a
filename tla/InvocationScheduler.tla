------------------------- MODULE InvocationScheduler -------------------------
(***************************************************************************)
(* The admission queue of the model host: four FIFO queues, one per work   *)
(* class, behind one shared capacity.  Pop serves the three interactive    *)
(* classes round-robin, and lets a waiting batch job through after         *)
(* MaxBypass interactive ones.                                             *)
(*                                                                         *)
(* The queue is a value, and push and pop are operators on it, so that the *)
(* host (ModelHost) and the stand-alone specification of the queue         *)
(* (SchedulerFairness) share one definition, and one variable that holds   *)
(* the queue.                                                              *)
(***************************************************************************)
EXTENDS StopReasons, Sequences

CONSTANT Capacity   \* kCapacity, 64 in the code

ASSUME CapacityAssumption == Capacity \in Nat \ {0}

VARIABLE sch   \* the InvocationScheduler of the host

\* The enumerators of WorkClass, in the order of their indices.
NativeInteractive == "NativeInteractive"
ApiInteractive    == "ApiInteractive"
NativeNormal      == "NativeNormal"
Batch             == "Batch"

WorkClass == {NativeInteractive, ApiInteractive, NativeNormal, Batch}

Interactive(k) == CASE k = 0 -> NativeInteractive
                    [] k = 1 -> ApiInteractive
                    [] OTHER -> NativeNormal

\* The literal 3 of pop(): interactive jobs served before a waiting batch job.
MaxBypass == 3

\* The counter of interactive pops is a size_t that is only compared with
\* MaxBypass, so it is kept up to MaxBypass and no further.
Scheduler == [queues : [WorkClass -> Seq(InvocationId)],
              size   : Nat,
              next   : 0..2,
              since  : 0..MaxBypass]

EmptyScheduler == [queues |-> [c \in WorkClass |-> <<>>],
                   size   |-> 0,
                   next   |-> 0,
                   since  |-> 0]

Waiting(s, c) == s.queues[c] # <<>>

-----------------------------------------------------------------------------
(* push *)

HasRoom(s) == s.size < Capacity

Pushed(s, c, j) ==
    [queues |-> [s.queues EXCEPT ![c] = Append(@, j)],
     size   |-> s.size + 1,
     next   |-> s.next,
     since  |-> s.since]

-----------------------------------------------------------------------------
(* pop *)

\* Mistake: the bypass limit is off by one.
Mut_BatchDue(s) == Waiting(s, Batch) /\ s.since > MaxBypass

BatchDue(s) == Waiting(s, Batch) /\ s.since >= MaxBypass

\* How far past next_interactive_ each waiting interactive class lies.
WaitingOffsets(s) == {o \in 0..2 : Waiting(s, Interactive((s.next + o) % 3))}

\* The index of the interactive class the round-robin serves.
Candidate(s) == (s.next + (CHOOSE o \in WaitingOffsets(s) :
                               \A p \in WaitingOffsets(s) : o <= p)) % 3

ServesBatch(s) == BatchDue(s) \/ WaitingOffsets(s) = {}

PopClass(s) == IF ServesBatch(s) THEN Batch ELSE Interactive(Candidate(s))

PopJob(s) == Head(s.queues[PopClass(s)])

\* Mistake: the batch branch forgets --size_.
Mut_PoppedSize(s) ==
    [queues |-> [s.queues EXCEPT ![PopClass(s)] = Tail(@)],
     size   |-> IF ServesBatch(s) THEN s.size ELSE s.size - 1,
     next   |-> IF ServesBatch(s) THEN s.next ELSE (Candidate(s) + 1) % 3,
     since  |-> IF ServesBatch(s) THEN 0
                ELSE IF s.since < MaxBypass THEN s.since + 1 ELSE MaxBypass]

\* Mistake: the cursor stays on the class it served.
Mut_PoppedCursor(s) ==
    [queues |-> [s.queues EXCEPT ![PopClass(s)] = Tail(@)],
     size   |-> s.size - 1,
     next   |-> IF ServesBatch(s) THEN s.next ELSE Candidate(s),
     since  |-> IF ServesBatch(s) THEN 0
                ELSE IF s.since < MaxBypass THEN s.since + 1 ELSE MaxBypass]

Popped(s) ==
    [queues |-> [s.queues EXCEPT ![PopClass(s)] = Tail(@)],
     size   |-> s.size - 1,
     next   |-> IF ServesBatch(s) THEN s.next ELSE (Candidate(s) + 1) % 3,
     since  |-> IF ServesBatch(s) THEN 0
                ELSE IF s.since < MaxBypass THEN s.since + 1 ELSE MaxBypass]

-----------------------------------------------------------------------------
(* Derived notions the properties use. *)

Queued(s, c) == {s.queues[c][i] : i \in 1..Len(s.queues[c])}

QueuedJobs(s) == UNION {Queued(s, c) : c \in WorkClass}

Length(s, c) == Len(s.queues[c])

TotalLength(s) == Length(s, NativeInteractive) + Length(s, ApiInteractive)
                  + Length(s, NativeNormal) + Length(s, Batch)
=============================================================================
