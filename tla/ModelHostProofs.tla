--------------------------- MODULE ModelHostProofs ---------------------------
(***************************************************************************)
(* The model host for any set of ids, callers and models and any capacity. *)
(* In order: the operators of the admission queue; types; the count of run *)
(* commands; the safety of its lifecycle (the invariants need each other:  *)
(* the reset of the lifecycle keeps the counter right because nothing is   *)
(* active during a transition, and nothing is active during a transition   *)
(* because the counter is right); the stream of events between runtime     *)
(* thread and observers; on top of both, the refinement of                 *)
(* InvocationContract; what Ready means when one thread loads and unloads; *)
(* and the fairness of the admission queue (SchedulerFairness).            *)
(***************************************************************************)
EXTENDS ModelHost, SchedulerFairness, FiniteSetTheorems, TLAPS

-----------------------------------------------------------------------------
(* What push and pop do to a scheduler.                                    *)

(* The round-robin search finds the nearest waiting class, so the class it *)
(* names is in range and its queue can be popped.                          *)
LEMMA CandidateWaits ==
    ASSUME NEW s \in Scheduler, WaitingOffsets(s) # {}
    PROVE  /\ Candidate(s) \in 0..2
           /\ Waiting(s, Interactive(Candidate(s)))
<1> DEFINE W == WaitingOffsets(s)
           o == CHOOSE x \in W : \A p \in W : x <= p
<1>1. W \subseteq 0..2
  BY DEF WaitingOffsets
<1>2. \E x \in W : \A p \in W : x <= p
  <2>1. CASE 0 \in W
    BY <1>1, <2>1
  <2>2. CASE 0 \notin W /\ 1 \in W
    BY <1>1, <2>2
  <2>3. CASE 0 \notin W /\ 1 \notin W
    <3>1. 2 \in W
      BY <1>1, <2>3
    <3> QED
      BY <1>1, <2>3, <3>1
  <2> QED
    BY <2>1, <2>2, <2>3
<1>3. o \in W
  BY <1>2
<1>4. s.next \in 0..2
  BY DEF Scheduler
<1>5. Candidate(s) = (s.next + o) % 3
  BY DEF Candidate
<1>6. Waiting(s, Interactive((s.next + o) % 3))
  BY <1>3 DEF WaitingOffsets
<1>7. (s.next + o) % 3 \in 0..2
  BY <1>1, <1>3, <1>4
<1> QED
  BY <1>5, <1>6, <1>7

(* An interactive index names a work class other than Batch.               *)
LEMMA InteractiveIsClass ==
    ASSUME NEW k \in 0..2
    PROVE  Interactive(k) \in WorkClass \ {Batch}
BY DEF Interactive, WorkClass, NativeInteractive, ApiInteractive, NativeNormal, Batch

(* If no interactive class waits, the three interactive queues are empty.  *)
LEMMA NoOffsetsNoInteractive ==
    ASSUME NEW s \in Scheduler, WaitingOffsets(s) = {}
    PROVE  \A c \in WorkClass \ {Batch} : s.queues[c] = <<>>
<1>1. \A o \in 0..2 : s.queues[Interactive((s.next + o) % 3)] = <<>>
  BY DEF WaitingOffsets, Waiting
<1>2. CASE s.next = 0
  <2>1. (0 + 0) % 3 = 0 /\ (0 + 1) % 3 = 1 /\ (0 + 2) % 3 = 2
    OBVIOUS
  <2> QED
    BY <1>1, <1>2, <2>1 DEF Interactive, WorkClass
<1>3. CASE s.next = 1
  <2>1. (1 + 0) % 3 = 1 /\ (1 + 1) % 3 = 2 /\ (1 + 2) % 3 = 0
    OBVIOUS
  <2> QED
    BY <1>1, <1>3, <2>1 DEF Interactive, WorkClass
<1>4. CASE s.next = 2
  <2>1. (2 + 0) % 3 = 2 /\ (2 + 1) % 3 = 0 /\ (2 + 2) % 3 = 1
    OBVIOUS
  <2> QED
    BY <1>1, <1>4, <2>1 DEF Interactive, WorkClass
<1> QED
  BY <1>2, <1>3, <1>4 DEF Scheduler

(* The length of the four queues together is a number, zero only when each *)
(* of them is empty.                                                       *)
LEMMA TotalLengthNat ==
    ASSUME NEW s \in Scheduler
    PROVE  /\ TotalLength(s) \in Nat
           /\ \A c \in WorkClass : Length(s, c) \in Nat /\ (Length(s, c) = 0 <=> s.queues[c] = <<>>)
           /\ TotalLength(s) = 0 => \A c \in WorkClass : s.queues[c] = <<>>
<1>1. \A c \in WorkClass : s.queues[c] \in Seq(InvocationId)
  BY DEF Scheduler
<1>2. \A c \in WorkClass : Length(s, c) \in Nat /\ (Length(s, c) = 0 <=> s.queues[c] = <<>>)
  BY <1>1 DEF Length
<1>3. WorkClass = {NativeInteractive, ApiInteractive, NativeNormal, Batch}
  BY DEF WorkClass
<1>4. TotalLength(s) \in Nat
  BY <1>2, <1>3 DEF TotalLength
<1>5. ASSUME TotalLength(s) = 0 PROVE \A c \in WorkClass : Length(s, c) = 0
  BY <1>2, <1>3, <1>5 DEF TotalLength
<1> QED
  BY <1>2, <1>4, <1>5

(* A pop of a scheduler that holds something serves a class that waits.    *)
LEMMA PopClassWaits ==
    ASSUME NEW s \in Scheduler, TotalLength(s) # 0
    PROVE  /\ PopClass(s) \in WorkClass
           /\ Waiting(s, PopClass(s))
<1>1. CASE BatchDue(s)
  BY <1>1 DEF BatchDue, ServesBatch, PopClass, WorkClass
<1>2. CASE ~BatchDue(s) /\ WaitingOffsets(s) = {}
  <2>1. \A c \in WorkClass \ {Batch} : s.queues[c] = <<>>
    BY <1>2, NoOffsetsNoInteractive
  <2>2. Length(s, NativeInteractive) = 0 /\ Length(s, ApiInteractive) = 0
        /\ Length(s, NativeNormal) = 0
    BY <2>1, TotalLengthNat DEF WorkClass, NativeInteractive, ApiInteractive, NativeNormal, Batch
  <2>3. Length(s, Batch) \in Nat /\ Length(s, Batch) # 0
    BY <2>2, TotalLengthNat DEF TotalLength, WorkClass
  <2>4. s.queues[Batch] # <<>>
    BY <2>3, TotalLengthNat DEF WorkClass
  <2> QED
    BY <1>2, <2>4 DEF ServesBatch, PopClass, WorkClass, Waiting
<1>3. CASE ~BatchDue(s) /\ WaitingOffsets(s) # {}
  BY <1>3, CandidateWaits, InteractiveIsClass DEF ServesBatch, PopClass
<1> QED
  BY <1>1, <1>2, <1>3

(* push keeps the shape of the scheduler and adds one to both counts.      *)
LEMMA PushedScheduler ==
    ASSUME NEW s \in Scheduler, NEW c \in WorkClass, NEW j \in InvocationId
    PROVE  /\ Pushed(s, c, j) \in Scheduler
           /\ Pushed(s, c, j).size = s.size + 1
           /\ TotalLength(Pushed(s, c, j)) = TotalLength(s) + 1
<1> DEFINE t == Pushed(s, c, j)
<1>1. /\ t.queues = [s.queues EXCEPT ![c] = Append(@, j)]
      /\ t.size = s.size + 1
  BY DEF Pushed
<1>2. t.queues \in [WorkClass -> Seq(InvocationId)]
  BY <1>1 DEF Scheduler
<1>3. t \in Scheduler
  BY <1>1, <1>2 DEF Scheduler, Pushed
<1>4. \A d \in WorkClass : Length(t, d) = Length(s, d) + (IF d = c THEN 1 ELSE 0)
  <2> SUFFICES ASSUME NEW d \in WorkClass
               PROVE  Length(t, d) = Length(s, d) + (IF d = c THEN 1 ELSE 0)
    OBVIOUS
  <2>1. s.queues \in [WorkClass -> Seq(InvocationId)]
    BY DEF Scheduler
  <2>2. s.queues[d] \in Seq(InvocationId) /\ t.queues[d] = IF d = c THEN Append(s.queues[d], j) ELSE s.queues[d]
    BY <1>1, <2>1
  <2>3. Length(s, d) \in Nat
    BY TotalLengthNat
  <2>4. CASE d = c
    <3>1. Len(Append(s.queues[d], j)) = Len(s.queues[d]) + 1
      BY <2>2
    <3> QED
      BY <2>2, <2>4, <3>1 DEF Length
  <2>5. CASE d # c
    BY <2>2, <2>3, <2>5 DEF Length
  <2> QED
    BY <2>4, <2>5
<1>5. TotalLength(t) = TotalLength(s) + 1
  <2>1. \A d \in WorkClass : Length(s, d) \in Nat
    BY TotalLengthNat
  <2> QED
    BY <1>4, <2>1 DEF TotalLength, WorkClass, NativeInteractive, ApiInteractive, NativeNormal, Batch
<1> QED
  BY <1>1, <1>3, <1>5

(* pop keeps the shape of the scheduler and takes one from both counts.    *)
LEMMA PoppedScheduler ==
    ASSUME NEW s \in Scheduler, TotalLength(s) # 0, s.size = TotalLength(s)
    PROVE  /\ Popped(s) \in Scheduler
           /\ Popped(s).size = s.size - 1
           /\ TotalLength(Popped(s)) = TotalLength(s) - 1
           /\ PopJob(s) \in InvocationId
<1> DEFINE t == Popped(s)
           c == PopClass(s)
<1>1. c \in WorkClass /\ s.queues[c] # <<>>
  BY PopClassWaits DEF Waiting
<1>2. \A d \in WorkClass : s.queues[d] \in Seq(InvocationId) /\ Len(s.queues[d]) \in Nat
  BY DEF Scheduler
<1>3. /\ Tail(s.queues[c]) \in Seq(InvocationId)
      /\ Len(Tail(s.queues[c])) = Len(s.queues[c]) - 1
      /\ Head(s.queues[c]) \in InvocationId
  BY <1>1, <1>2
<1>4. t.queues = [s.queues EXCEPT ![c] = Tail(@)] /\ t.size = s.size - 1
  BY DEF Popped
<1>5. t.queues \in [WorkClass -> Seq(InvocationId)]
  BY <1>1, <1>3, <1>4 DEF Scheduler
<1>6. t.size \in Nat
  BY <1>4, TotalLengthNat
<1>7. t.next \in 0..2
  <2>1. s.next \in 0..2
    BY DEF Scheduler
  <2>2. ~ServesBatch(s) => Candidate(s) \in 0..2
    BY CandidateWaits DEF ServesBatch
  <2> QED
    BY <2>1, <2>2 DEF Popped
<1>8. t.since \in 0..MaxBypass
  BY DEF Popped, Scheduler, MaxBypass
<1>9. t \in Scheduler
  BY <1>5, <1>6, <1>7, <1>8 DEF Scheduler, Popped
<1>10. \A d \in WorkClass : Length(t, d) = Length(s, d) - (IF d = c THEN 1 ELSE 0)
  <2> SUFFICES ASSUME NEW d \in WorkClass
               PROVE  Length(t, d) = Length(s, d) - (IF d = c THEN 1 ELSE 0)
    OBVIOUS
  <2>1. s.queues \in [WorkClass -> Seq(InvocationId)]
    BY DEF Scheduler
  <2>2. t.queues[d] = IF d = c THEN Tail(s.queues[d]) ELSE s.queues[d]
    BY <1>4, <2>1
  <2>3. Length(s, d) \in Nat
    BY TotalLengthNat
  <2>4. CASE d = c
    BY <1>3, <2>2, <2>4 DEF Length
  <2>5. CASE d # c
    BY <2>2, <2>3, <2>5 DEF Length
  <2> QED
    BY <2>4, <2>5
<1>11. TotalLength(t) = TotalLength(s) - 1
  <2>1. \A d \in WorkClass : Length(s, d) \in Nat
    BY TotalLengthNat
  <2> QED
    BY <1>1, <1>10, <2>1 DEF TotalLength, WorkClass, NativeInteractive, ApiInteractive, NativeNormal, Batch
<1>12. PopJob(s) \in InvocationId
  BY <1>3 DEF PopJob
<1> QED
  BY <1>4, <1>9, <1>11, <1>12

(* Nothing is queued in a scheduler of total length zero.                  *)
LEMMA EmptyQueuesNothing ==
    ASSUME NEW s \in Scheduler, TotalLength(s) = 0
    PROVE  QueuedJobs(s) = {}
<1>1. \A c \in WorkClass : s.queues[c] = <<>>
  BY TotalLengthNat
<1>2. \A c \in WorkClass : Queued(s, c) = {}
  BY <1>1 DEF Queued
<1> QED
  BY <1>2 DEF QueuedJobs

(* push queues its id and loses none.                                      *)
LEMMA PushedQueues ==
    ASSUME NEW s \in Scheduler, NEW c \in WorkClass, NEW j \in InvocationId
    PROVE  \A x : x \in QueuedJobs(s) \/ x = j => x \in QueuedJobs(Pushed(s, c, j))
<1> DEFINE t == Pushed(s, c, j)
<1>1. s.queues \in [WorkClass -> Seq(InvocationId)]
  BY DEF Scheduler
<1>2. t.queues = [s.queues EXCEPT ![c] = Append(@, j)]
  BY DEF Pushed
<1>3. \A d \in WorkClass : \A k \in 1..Len(s.queues[d]) :
         k \in 1..Len(t.queues[d]) /\ t.queues[d][k] = s.queues[d][k]
  <2> SUFFICES ASSUME NEW d \in WorkClass, NEW k \in Int, k \in 1..Len(s.queues[d])
               PROVE  k \in 1..Len(t.queues[d]) /\ t.queues[d][k] = s.queues[d][k]
    OBVIOUS
  <2>1. s.queues[d] \in Seq(InvocationId)
    BY <1>1
  <2>2. CASE d = c
    <3>1. t.queues[d] = Append(s.queues[d], j)
      BY <1>1, <1>2, <2>2
    <3> QED
      BY <2>1, <3>1
  <2>3. CASE d # c
    <3>1. t.queues[d] = s.queues[d]
      BY <1>1, <1>2, <2>3
    <3> QED
      BY <3>1
  <2> QED
    BY <2>2, <2>3
<1>4. \A d \in WorkClass : Queued(s, d) \subseteq Queued(t, d)
  BY <1>3 DEF Queued
<1>5. j \in Queued(t, c)
  <2>1. s.queues[c] \in Seq(InvocationId) /\ t.queues[c] = Append(s.queues[c], j)
    BY <1>1, <1>2
  <2>2. Len(t.queues[c]) = Len(s.queues[c]) + 1 /\ Len(s.queues[c]) \in Nat
    BY <2>1
  <2>3. Len(t.queues[c]) \in 1..Len(t.queues[c]) /\ t.queues[c][Len(t.queues[c])] = j
    BY <2>1, <2>2
  <2> QED
    BY <2>3 DEF Queued
<1> QED
  BY <1>4, <1>5 DEF QueuedJobs

(* pop unqueues at most the id it returns.                                 *)
LEMMA PoppedQueues ==
    ASSUME NEW s \in Scheduler, TotalLength(s) # 0
    PROVE  \A x \in QueuedJobs(s) : x \in QueuedJobs(Popped(s)) \/ x = PopJob(s)
<1> DEFINE t == Popped(s)
           c == PopClass(s)
<1>1. c \in WorkClass /\ s.queues[c] # <<>>
  BY PopClassWaits DEF Waiting
<1>2. s.queues \in [WorkClass -> Seq(InvocationId)]
  BY DEF Scheduler
<1>3. t.queues = [s.queues EXCEPT ![c] = Tail(@)]
  BY DEF Popped
<1> HIDE DEF t, c
<1>4. ASSUME NEW x \in QueuedJobs(s), x # PopJob(s) PROVE x \in QueuedJobs(t)
  <2>1. PICK d \in WorkClass : x \in Queued(s, d)
    BY DEF QueuedJobs
  <2>2. PICK k \in 1..Len(s.queues[d]) : x = s.queues[d][k]
    BY <2>1 DEF Queued
  <2>3. CASE d # c
    <3>1. t.queues[d] = s.queues[d]
      BY <1>2, <1>3, <2>3
    <3>2. x \in Queued(t, d)
      BY <2>1, <3>1 DEF Queued
    <3> QED
      BY <3>2 DEF QueuedJobs
  <2>4. CASE d = c
    <3>1. s.queues[d] \in Seq(InvocationId) /\ s.queues[d] # <<>>
      BY <1>1, <1>2, <2>4
    <3>2. t.queues[d] = Tail(s.queues[d])
      BY <1>1, <1>2, <1>3, <2>4
    <3>3. PopJob(s) = s.queues[d][1]
      BY <2>4, <3>1 DEF PopJob, c
    <3>4. k - 1 \in 1..Len(t.queues[d]) /\ t.queues[d][k - 1] = x
      BY <1>4, <2>2, <3>1, <3>2, <3>3
    <3>5. x \in Queued(t, d)
      BY <3>4 DEF Queued
    <3> QED
      BY <3>5 DEF QueuedJobs
  <2> QED
    BY <2>3, <2>4
<1> QED
  BY <1>4 DEF t

-----------------------------------------------------------------------------
(* Small facts about the data.                                             *)

(* Every command constructor builds a command.                             *)
LEMMA CommandTypes ==
    /\ NoCommand \in Command /\ RunScheduledCmd \in Command /\ FinalUnloadCmd \in Command
    /\ \A c \in Caller : UnloadCmd(c) \in Command
    /\ \A c \in Caller, m \in Model : LoadCmd(c, m) \in Command
BY DEF Command, NoCommand, RunScheduledCmd, FinalUnloadCmd, UnloadCmd, LoadCmd

(* Every event constructor builds an event.                                *)
LEMMA EventTypes ==
    ASSUME seq \in [InvocationId -> Nat]
    PROVE  /\ NoEvent \in Event
           /\ \A i \in InvocationId : Started(i) \in Event /\ Delta(i) \in Event
           /\ \A i \in InvocationId, r \in FinishReason : Finished(i, r) \in Event
<1>1. \A i \in InvocationId : seq[i] \in Nat
  OBVIOUS
<1> QED
  BY <1>1 DEF Event, NoEvent, Started, Delta, Finished

(* Appending to the event queue keeps its type.                            *)
LEMMA AppendEvent ==
    ASSUME NEW q \in Seq(Event), NEW e \in Event
    PROVE  Append(q, e) \in Seq(Event)
OBVIOUS

(* Pushing a real command keeps a queue of real commands.                  *)
LEMMA AppendCommand ==
    ASSUME NEW q \in Seq(Command), \A k \in 1..Len(q) : q[k].kind # "none",
           NEW e \in Command, e.kind # "none"
    PROVE  /\ Append(q, e) \in Seq(Command)
           /\ \A k \in 1..Len(Append(q, e)) : Append(q, e)[k].kind # "none"
OBVIOUS

(* Taking the first of a queue of real commands yields a real command.     *)
LEMMA TakeFirst ==
    ASSUME NEW q \in Seq(Command), q # <<>>, \A k \in 1..Len(q) : q[k].kind # "none"
    PROVE  /\ Head(q) \in Command /\ Head(q).kind # "none"
           /\ Tail(q) \in Seq(Command)
           /\ \A k \in 1..Len(Tail(q)) : Tail(q)[k].kind # "none"
<1>1. Head(q) = q[1] /\ Len(q) \in Nat /\ Len(q) # 0
  OBVIOUS
<1>2. \A k \in 1..Len(Tail(q)) : Tail(q)[k] = q[k + 1] /\ k + 1 \in 1..Len(q)
  OBVIOUS
<1> QED
  BY <1>1, <1>2

(* request_stop() yields a stop reason, never a weaker one.                *)
LEMMA RaiseType ==
    ASSUME NEW old \in StopReason, NEW r \in StopReason
    PROVE  /\ Raise(old, r) \in StopReason
           /\ Raise(old, r) # old => StopPriority(Raise(old, r)) > StopPriority(old)
           /\ Raise(old, "Shutdown") = "Shutdown"
           /\ Raise("Shutdown", r) = "Shutdown"
BY DEF Raise, StopPriority, StopReason

(* Raising the reason of one invocation keeps the table of reasons typed.  *)
LEMMA RaisedStopsType ==
    ASSUME NEW f \in [InvocationId -> StopReason], NEW r \in StopReason, NEW i
    PROVE  [f EXCEPT ![i] = Raise(@, r)] \in [InvocationId -> StopReason]
<1>1. \A k \in InvocationId : Raise(f[k], r) \in StopReason
  <2>1. \A k \in InvocationId : f[k] \in StopReason
    OBVIOUS
  <2> QED
    BY <2>1, RaiseType
<1> QED
  BY <1>1

(* The reasons the host itself raises.                                     *)
LEMMA HostReasons == {"Deadline", "Shutdown"} \subseteq StopReason
BY DEF StopReason

-----------------------------------------------------------------------------
(* Types.  What the runtime thread holds is part of the induction: stop is *)
(* read at cur, and the outcome of a generation becomes part of an event.  *)

TypeInv == TypeOK /\ ControlInv /\ sch.size = TotalLength(sch)

LEMMA TypeInvInit == Init => TypeInv
<1> SUFFICES ASSUME Init PROVE TypeInv
  OBVIOUS
<1> USE IdAssumption, NoInvocationAssumption DEF Init
<1>1. EmptyScheduler \in Scheduler /\ EmptyScheduler.size = TotalLength(EmptyScheduler)
  <2>1. \A c \in WorkClass : EmptyScheduler.queues[c] = <<>>
    BY DEF EmptyScheduler
  <2>2. \A c \in WorkClass : Length(EmptyScheduler, c) = 0
    BY <2>1 DEF Length
  <2>3. TotalLength(EmptyScheduler) = 0
    BY <2>2 DEF TotalLength, WorkClass
  <2> QED
    BY <2>3 DEF EmptyScheduler, Scheduler, MaxBypass
<1>2. NoCommand \in Command /\ NoEvent \in Event
  BY CommandTypes, EventTypes
<1>3. LifecycleType /\ TableType
  BY <1>1 DEF LifecycleType, LifecycleState, TableType, WorkClass, StopReason
<1>4. RuntimeType
  <2>1. <<>> \in Seq(Command)
    OBVIOUS
  <2> QED
    BY <1>2, <2>1 DEF RuntimeType, RuntimeStep, Reply
<1>5. DispatchType
  <2>1. <<>> \in Seq(Event)
    OBVIOUS
  <2>2. [phase |-> "nothing", seq |-> 0, outcome |-> "Pending"] \in Seen
    BY DEF Seen
  <2> QED
    BY <1>2, <2>1, <2>2 DEF DispatchType
<1>6. CallerType
  BY <1>2 DEF CallerType, Reply
<1>7. ControlInv
  BY DEF ControlInv, Executing
<1> QED
  BY <1>1, <1>3, <1>4, <1>5, <1>6, <1>7 DEF TypeInv, TypeOK

(* begin_shutdown() keeps the types of what it writes.                     *)
LEMMA BeginShutdownType ==
    ASSUME state \in LifecycleState, stop \in [InvocationId -> StopReason], BeginShutdown
    PROVE  state' \in LifecycleState /\ stop' \in [InvocationId -> StopReason]
<1>1. CASE state \in {"Stopped", "Draining"}
  BY <1>1 DEF BeginShutdown
<1>2. CASE state \notin {"Stopped", "Draining"}
  <2>1. "Shutdown" \in StopReason /\ \A i \in InvocationId : stop[i] \in StopReason
    BY DEF StopReason
  <2>2. \A i \in InvocationId : Raise(stop[i], "Shutdown") \in StopReason
    BY <2>1, RaiseType
  <2> QED
    BY <1>2, <2>1, <2>2 DEF BeginShutdown, LifecycleState
<1> QED
  BY <1>1, <1>2

LEMMA TypeInvNext == TypeInv /\ [Next]_vars => TypeInv'
<1> SUFFICES ASSUME TypeInv, [Next]_vars PROVE TypeInv'
  OBVIOUS
<1> USE IdAssumption, NoInvocationAssumption, RequestClassAssumption, RequestDeadlineAssumption
<1> USE DEF TypeInv, TypeOK, LifecycleType, TableType, RuntimeType, DispatchType, CallerType,
            ControlInv, RuntimeStep, Executing,
            vars, lifecycle, table, requests, runtimeQ, runtime, dispatchQ, dispatch, callers, finalizer
<1>1. ASSUME NEW m \in Model, NEW c \in RequestClass, NEW d \in RequestDeadline, Submit(m, c, d)
      PROVE  TypeInv'
  <2>1. c \in WorkClass /\ nextId \in InvocationId
    BY <1>1 DEF Submit
  <2>2. sch' \in Scheduler /\ sch'.size = TotalLength(sch')
    <3>1. sch' = Pushed(sch, c, nextId)
      BY <1>1 DEF Submit
    <3> QED
      BY <2>1, <3>1, PushedScheduler
  <2>3. cls' \in [InvocationId -> WorkClass] /\ deadline' \in [InvocationId -> BOOLEAN]
    BY <1>1, <2>1 DEF Submit
  <2>4. stop' \in [InvocationId -> StopReason]
    <3>1. \A i \in InvocationId : Raise(stop[i], "Preempted") \in StopReason
      <4>1. "Preempted" \in StopReason /\ \A i \in InvocationId : stop[i] \in StopReason
        BY DEF StopReason
      <4> QED
        BY <4>1, RaiseType
    <3> QED
      BY <1>1, <3>1 DEF Submit
  <2>5. TableType'
    BY <1>1, <2>1, <2>2, <2>3, <2>4 DEF Submit
  <2>6. cmds' \in Seq(Command) /\ \A k \in 1..Len(cmds') : cmds'[k].kind # "none"
    BY <1>1, AppendCommand, CommandTypes DEF Submit, RunScheduledCmd
  <2>7. LifecycleType' /\ RuntimeType' /\ DispatchType' /\ CallerType'
    BY <1>1, <2>6 DEF Submit
  <2>8. ControlInv'
    BY <1>1, <2>6 DEF Submit
  <2> QED
    BY <2>2, <2>5, <2>7, <2>8
<1>2. ASSUME NEW m \in Model, SubmitRefused(m) PROVE TypeInv'
  BY <1>2 DEF SubmitRefused
<1>3. ASSUME NEW i \in InvocationId, Cancel(i) PROVE TypeInv'
  BY <1>3, RaiseType DEF Cancel, CancelId, StopReason
<1>4. ASSUME NEW i \in InvocationId, Preempt(i) PROVE TypeInv'
  BY <1>4, RaiseType DEF Preempt, CancelId, StopReason
<1>5. CASE ShutdownReentrant
  <2>1. stop' \in [InvocationId -> StopReason] /\ state' \in LifecycleState
    BY <1>5, BeginShutdownType DEF ShutdownReentrant
  <2>2. CallerType'
    BY <1>5 DEF ShutdownReentrant, EnsureFinalizer
  <2>3. LifecycleType' /\ TableType' /\ RuntimeType' /\ DispatchType' /\ ControlInv' /\ UNCHANGED sch
    BY <1>5, <2>1 DEF ShutdownReentrant
  <2> QED
    BY <2>1, <2>2, <2>3
<1>6. ASSUME NEW c \in Caller, ShutdownCall(c) PROVE TypeInv'
  <2>1. stop' \in [InvocationId -> StopReason] /\ state' \in LifecycleState
    BY <1>6, BeginShutdownType DEF ShutdownCall
  <2>2. CallerType'
    BY <1>6 DEF ShutdownCall, EnsureFinalizer
  <2>3. LifecycleType' /\ TableType' /\ RuntimeType' /\ DispatchType' /\ ControlInv' /\ UNCHANGED sch
    BY <1>6, <2>1 DEF ShutdownCall
  <2> QED
    BY <2>1, <2>2, <2>3
<1>7. ASSUME NEW c \in Caller, UnloadCall(c) PROVE TypeInv'
  BY <1>7, CommandTypes DEF UnloadCall, LifecycleState, UnloadCmd
<1>8. ASSUME NEW c \in Caller, NEW m \in Model, LoadCall(c, m) PROVE TypeInv'
  BY <1>8, CommandTypes DEF LoadCall, LifecycleState, LoadCmd
<1>9. ASSUME NEW c \in Caller, PushCommand(c) PROVE TypeInv'
  <2>1. cmds' \in Seq(Command) /\ \A k \in 1..Len(cmds') : cmds'[k].kind # "none"
    <3>1. call[c] \in Command /\ call[c].kind # "none"
      BY <1>9 DEF PushCommand
    <3>2. cmds' = cmds \/ cmds' = Append(cmds, call[c])
      BY <1>9 DEF PushCommand
    <3> QED
      <4>1. Append(cmds, call[c]) \in Seq(Command)
            /\ \A k \in 1..Len(Append(cmds, call[c])) : Append(cmds, call[c])[k].kind # "none"
        BY <3>1, AppendCommand
      <4> QED
        BY <3>2, <4>1
  <2>2. TypeOK'
    <3>1. CallerType'
      BY <1>9 DEF PushCommand, Reply
    <3> QED
      BY <1>9, <2>1, <3>1 DEF PushCommand
  <2>3. ControlInv'
    BY <1>9, <2>1 DEF PushCommand
  <2>4. UNCHANGED sch
    BY <1>9 DEF PushCommand
  <2> QED
    BY <2>2, <2>3, <2>4
<1>10. ASSUME NEW c \in Caller, LoadReturn(c) PROVE TypeInv'
  <2>1. LifecycleType'
    BY <1>10 DEF LoadReturn, ResetLifecycle, LifecycleState
  <2>2. CallerType'
    BY <1>10, CommandTypes DEF LoadReturn, CallReturns, Reply
  <2>3. ControlInv'
    BY <1>10 DEF LoadReturn, CallReturns, NoCommand
  <2>4. TableType' /\ RuntimeType' /\ DispatchType' /\ UNCHANGED sch
    BY <1>10 DEF LoadReturn, CallReturns
  <2> QED
    BY <2>1, <2>2, <2>3, <2>4
<1>11. ASSUME NEW c \in Caller, UnloadReturn(c) PROVE TypeInv'
  BY <1>11, CommandTypes DEF UnloadReturn, CallReturns, Reply, LifecycleState
<1>12. ASSUME NEW c \in Caller, ShutdownReturn(c) PROVE TypeInv'
  BY <1>12 DEF ShutdownReturn
<1>13. CASE TakeCommand
  <2>1. /\ cmd' \in Command /\ cmd'.kind # "none"
        /\ cmds' \in Seq(Command) /\ \A k \in 1..Len(cmds') : cmds'[k].kind # "none"
    BY <1>13, TakeFirst DEF TakeCommand
  <2>2. rpc' \in {"run", "load", "unload", "final"}
    BY <1>13, <2>1 DEF TakeCommand, Command
  <2>3. TypeOK'
    BY <1>13, <2>1, <2>2 DEF TakeCommand
  <2>4. cur = NoInvocation
    BY <1>13 DEF TakeCommand
  <2>5. ControlInv'
    BY <1>13, <2>1, <2>2, <2>4 DEF TakeCommand
  <2>6. UNCHANGED sch
    BY <1>13 DEF TakeCommand
  <2> QED
    BY <2>3, <2>5, <2>6
<1>14. CASE RuntimeExit
  BY <1>14 DEF RuntimeExit
<1>15. CASE RunScheduled
  <2>1. sch' \in Scheduler /\ sch'.size = TotalLength(sch')
    BY <1>15, PoppedScheduler DEF RunScheduled
  <2>2. \/ cur' = NoInvocation /\ rpc' = "idle" /\ cmd' = NoCommand /\ result' = "ok"
        \/ cur' \in invs /\ rpc' = "begin" /\ UNCHANGED <<cmd, result>>
    BY <1>15 DEF RunScheduled, RuntimeIdle
  <2>3. cmd' \in Command /\ result' \in FinishReason \cup Reply
    BY <2>2, CommandTypes DEF Reply
  <2>4. TypeOK'
    <3>1. RuntimeType'
      BY <1>15, <2>2, <2>3 DEF RunScheduled
    <3>2. LifecycleType' /\ TableType' /\ DispatchType' /\ CallerType'
      BY <1>15, <2>1 DEF RunScheduled
    <3> QED
      BY <3>1, <3>2
  <2>5. ControlInv'
    BY <1>15, <2>2 DEF RunScheduled
  <2> QED
    BY <2>1, <2>4, <2>5
<1>16. CASE BeginExecute
  <2>1. cur \in InvocationId
    BY <1>16 DEF BeginExecute
  <2>2. stop' \in [InvocationId -> StopReason]
    BY <1>16, RaisedStopsType, HostReasons DEF BeginExecute
  <2>3. TypeInv'
    BY <1>16, <2>2 DEF BeginExecute, RuntimeGoto
  <2> QED
    BY <2>1, <2>2, <2>3
<1>17. CASE PublishStarted
  <2>1. cur \in InvocationId
    BY <1>17 DEF PublishStarted
  <2>2. events' \in Seq(Event)
    BY <1>17, <2>1, AppendEvent, EventTypes DEF PublishStarted, Publish
  <2>3. seq' \in [InvocationId -> Nat]
    BY <1>17, <2>1 DEF PublishStarted
  <2> QED
    BY <1>17, <2>2, <2>3 DEF PublishStarted, Publish, RuntimeGoto
<1>18. CASE CheckStop
  BY <1>18 DEF CheckStop, RuntimeGoto, SettleWith, FinishReason
<1>19. CASE CheckDeadline
  <2>1. stop' \in [InvocationId -> StopReason]
    <3>1. "Deadline" \in StopReason /\ stop \in [InvocationId -> StopReason]
      BY HostReasons
    <3>2. [stop EXCEPT ![cur] = Raise(@, "Deadline")] \in [InvocationId -> StopReason]
      BY <3>1, RaisedStopsType
    <3> QED
      BY <1>19, <3>1, <3>2 DEF CheckDeadline
  <2> QED
    BY <1>19, <2>1 DEF CheckDeadline, RuntimeGoto
<1>20. CASE AdmitToModel
  <2>1. cur \in InvocationId
    BY <1>20 DEF AdmitToModel
  <2>2. stop' \in [InvocationId -> StopReason]
    BY <1>20, RaisedStopsType, HostReasons DEF AdmitToModel
  <2>3. \/ rpc' = "settle" /\ result' = "Completed" /\ UNCHANGED <<cmd, cur, loaded>>
        \/ rpc' = "generate" /\ UNCHANGED <<cmd, cur, result, loaded>>
    BY <1>20 DEF AdmitToModel, RuntimeGoto, SettleWith
  <2>4. RuntimeType' /\ ControlInv'
    BY <1>20, <2>3 DEF AdmitToModel, FinishReason
  <2>5. LifecycleType' /\ TableType' /\ DispatchType' /\ CallerType' /\ UNCHANGED sch
    BY <1>20, <2>2 DEF AdmitToModel
  <2> QED
    BY <2>4, <2>5
<1>21. CASE GenerateDelta
  <2>1. cur \in InvocationId
    BY <1>21 DEF GenerateDelta
  <2>2. events' \in Seq(Event)
    <3>1. Append(events, Delta(cur)) \in Seq(Event)
      BY <2>1, AppendEvent, EventTypes
    <3>2. events' = events \/ events' = Append(events, Delta(cur))
      BY <1>21 DEF GenerateDelta, Publish
    <3> QED
      BY <3>1, <3>2
  <2>3. seq' \in [InvocationId -> Nat]
    BY <1>21, <2>1 DEF GenerateDelta
  <2> QED
    BY <1>21, <2>2, <2>3 DEF GenerateDelta, Publish, RuntimeGoto
<1>22. CASE GenerateStopped
  <2>1. stop' \in [InvocationId -> StopReason]
    <3>1. "Deadline" \in StopReason /\ stop \in [InvocationId -> StopReason]
      BY HostReasons
    <3>2. [stop EXCEPT ![cur] = Raise(@, "Deadline")] \in [InvocationId -> StopReason]
      BY <3>1, RaisedStopsType
    <3> QED
      BY <1>22, <3>1, <3>2 DEF GenerateStopped
  <2> QED
    BY <1>22, <2>1 DEF GenerateStopped, SettleWith, FinishReason
<1>23. CASE GenerateReturns
  BY <1>23 DEF GenerateReturns, SettleWith, FinishReason
<1>24. CASE Settle
  <2>1. stop[cur] \in StopReason /\ result \in FinishReason
    BY <1>24 DEF Settle
  <2>2. result' \in FinishReason
    BY <1>24, <2>1 DEF Settle, MapStopReason, StopReason, FinishReason
  <2> QED
    BY <1>24, <2>2 DEF Settle
<1>25. CASE PublishFinished
  <2>1. cur \in InvocationId /\ result \in FinishReason
    BY <1>25 DEF PublishFinished
  <2>2. events' \in Seq(Event)
    BY <1>25, <2>1, AppendEvent, EventTypes DEF PublishFinished, Publish
  <2>3. seq' \in [InvocationId -> Nat]
    BY <1>25, <2>1 DEF PublishFinished
  <2> QED
    BY <1>25, <2>2, <2>3, CommandTypes DEF PublishFinished, Publish, RuntimeIdle, Reply
<1>26. CASE LoadModel
  <2>1. cmd.model \in Model \cup {NoModel}
    BY DEF Command
  <2> QED
    BY <1>26, <2>1 DEF LoadModel, Reply
<1>27. CASE LoadCheck
  BY <1>27 DEF LoadCheck, Reply
<1>28. CASE LoadAbort
  <2>1. LifecycleType'
    BY <1>28 DEF LoadAbort, ResetLifecycle, LifecycleState
  <2>2. CallerType'
    BY <1>28 DEF LoadAbort, Complete, Reply
  <2>3. RuntimeType'
    BY <1>28, CommandTypes DEF LoadAbort, RuntimeIdle, Reply
  <2>4. ControlInv'
    BY <1>28 DEF LoadAbort, Complete, RuntimeIdle
  <2>5. TableType' /\ DispatchType' /\ UNCHANGED sch
    BY <1>28 DEF LoadAbort
  <2> QED
    BY <2>1, <2>2, <2>3, <2>4, <2>5
<1>29. CASE LoadCommit
  <2>1. cmd.model \in Model \cup {NoModel}
    BY DEF Command
  <2>2. LifecycleType'
    BY <1>29, <2>1 DEF LoadCommit, LifecycleState
  <2>3. CallerType'
    BY <1>29 DEF LoadCommit, Complete, Reply
  <2>4. RuntimeType'
    BY <1>29, CommandTypes DEF LoadCommit, RuntimeIdle, Reply
  <2>5. ControlInv'
    BY <1>29 DEF LoadCommit, Complete, RuntimeIdle
  <2>6. TableType' /\ DispatchType' /\ UNCHANGED sch
    BY <1>29 DEF LoadCommit
  <2> QED
    BY <2>2, <2>3, <2>4, <2>5, <2>6
<1>30. CASE UnloadModel
  BY <1>30 DEF UnloadModel
<1>31. CASE UnloadFails
  <2>1. LifecycleType'
    BY <1>31 DEF UnloadFails, LifecycleState
  <2>2. CallerType'
    BY <1>31 DEF UnloadFails, Complete, Reply
  <2>3. RuntimeType'
    BY <1>31, CommandTypes DEF UnloadFails, RuntimeIdle, Reply
  <2>4. ControlInv'
    BY <1>31 DEF UnloadFails, Complete, RuntimeIdle
  <2>5. TableType' /\ DispatchType' /\ UNCHANGED sch
    BY <1>31 DEF UnloadFails
  <2> QED
    BY <2>1, <2>2, <2>3, <2>4, <2>5
<1>32. CASE UnloadCommit
  <2>1. LifecycleType'
    BY <1>32 DEF UnloadCommit, ResetLifecycle, LifecycleState
  <2>2. CallerType'
    BY <1>32 DEF UnloadCommit, Complete, Reply
  <2>3. RuntimeType'
    BY <1>32, CommandTypes DEF UnloadCommit, RuntimeIdle, Reply
  <2>4. ControlInv'
    BY <1>32 DEF UnloadCommit, Complete, RuntimeIdle
  <2>5. TableType' /\ DispatchType' /\ UNCHANGED sch
    BY <1>32 DEF UnloadCommit
  <2> QED
    BY <2>1, <2>2, <2>3, <2>4, <2>5
<1>33. CASE FinalUnload
  BY <1>33, CommandTypes DEF FinalUnload, RuntimeIdle, Reply
<1>34. CASE DispatchTake
  <2>1. item' \in Event /\ events' \in Seq(Event)
    BY <1>34 DEF DispatchTake
  <2> QED
    BY <1>34, <2>1 DEF DispatchTake
<1>35. CASE DispatchDeliver
  <2>1. item.seq \in Nat /\ item.outcome \in FinishReason \cup {"Pending"}
    BY DEF Event
  <2>2. seen' \in [InvocationId -> Seen]
    BY <1>35, <2>1 DEF DispatchDeliver, Seen
  <2>3. item' \in Event
    BY <1>35, EventTypes DEF DispatchDeliver
  <2> QED
    BY <1>35, <2>2, <2>3 DEF DispatchDeliver
<1>36. CASE DispatchExit
  BY <1>36 DEF DispatchExit
<1>37. CASE FinalizerReadsModel
  BY <1>37 DEF FinalizerReadsModel
<1>38. CASE FinalizerClosesRuntime
  <2>1. cmds' \in Seq(Command) /\ \A k \in 1..Len(cmds') : cmds'[k].kind # "none"
    <3>1. cmds' = cmds \/ cmds' = Append(cmds, FinalUnloadCmd)
      BY <1>38 DEF FinalizerClosesRuntime
    <3>2. FinalUnloadCmd \in Command /\ FinalUnloadCmd.kind # "none"
      BY CommandTypes DEF FinalUnloadCmd
    <3>3. Append(cmds, FinalUnloadCmd) \in Seq(Command)
          /\ \A k \in 1..Len(Append(cmds, FinalUnloadCmd)) : Append(cmds, FinalUnloadCmd)[k].kind # "none"
      BY <3>2, AppendCommand
    <3> QED
      BY <3>1, <3>3
  <2> QED
    <3>1. closed' = TRUE /\ fpc' = "joinRuntime"
      BY <1>38 DEF FinalizerClosesRuntime
    <3>2. UNCHANGED <<lifecycle, table, requests, stop, seq, runtime, dispatchQ, dispatch,
                      callers, unloadNeeded>>
      BY <1>38 DEF FinalizerClosesRuntime
    <3> QED
      BY <2>1, <3>1, <3>2
<1>39. CASE FinalizerJoinsRuntime
  BY <1>39 DEF FinalizerJoinsRuntime
<1>40. CASE FinalizerStops
  BY <1>40 DEF FinalizerStops, LifecycleState
<1>41. CASE UNCHANGED vars
  BY <1>41
<1> QED
  BY <1>1, <1>2, <1>3, <1>4, <1>5, <1>6, <1>7, <1>8, <1>9, <1>10, <1>11, <1>12, <1>13,
     <1>14, <1>15, <1>16, <1>17, <1>18, <1>19, <1>20, <1>21, <1>22, <1>23, <1>24, <1>25,
     <1>26, <1>27, <1>28, <1>29, <1>30, <1>31, <1>32, <1>33, <1>34, <1>35, <1>36, <1>37,
     <1>38, <1>39, <1>40, <1>41
     DEF Next, Request, CallerStep, RuntimeThread, DispatchThread, Finalizer, Terminated

(* Every variable keeps its type, whatever the threads do.                 *)
THEOREM HostTypeOK == Spec => []TypeOK
<1>1. TypeInv => TypeOK
  BY DEF TypeInv
<1> QED
  BY TypeInvInit, TypeInvNext, <1>1, PTL DEF Spec
-----------------------------------------------------------------------------
(* How many run commands a queue holds.                                    *)

LEMMA RunsFinite ==
    ASSUME NEW q \in Seq(Command)
    PROVE  /\ IsFiniteSet({k \in 1..Len(q) : q[k].kind = "run"})
           /\ Runs(q) \in Nat
<1>1. IsFiniteSet(1..Len(q))
  BY FS_Interval
<1>2. IsFiniteSet({k \in 1..Len(q) : q[k].kind = "run"})
  BY <1>1, FS_Subset
<1> QED
  BY <1>2, FS_CardinalityType DEF Runs

LEMMA RunsEmpty == Runs(<<>>) = 0
<1>1. {k \in 1..Len(<<>>) : <<>>[k].kind = "run"} = {}
  OBVIOUS
<1> QED
  BY <1>1, FS_EmptySet DEF Runs

(* Pushing a command adds one to the count exactly when it is a run.       *)
LEMMA RunsAppend ==
    ASSUME NEW q \in Seq(Command), NEW e \in Command
    PROVE  Runs(Append(q, e)) = Runs(q) + (IF e.kind = "run" THEN 1 ELSE 0)
<1> DEFINE S == {k \in 1..Len(q) : q[k].kind = "run"}
           T == {k \in 1..Len(Append(q, e)) : Append(q, e)[k].kind = "run"}
           n == Len(q) + 1
<1>0. Runs(q) = Cardinality(S) /\ Runs(Append(q, e)) = Cardinality(T)
  BY DEF Runs
<1>1. /\ Len(q) \in Nat /\ Len(Append(q, e)) = n
      /\ Append(q, e)[n] = e
      /\ \A k \in 1..Len(q) : Append(q, e)[k] = q[k]
  OBVIOUS
<1>2. IsFiniteSet(S) /\ Cardinality(S) \in Nat
  BY RunsFinite DEF Runs
<1>3. 1..n = (1..Len(q)) \cup {n} /\ n \notin 1..Len(q)
  BY <1>1
<1>4. CASE e.kind = "run"
  <2>1. T = S \cup {n} /\ n \notin S
    BY <1>1, <1>3, <1>4
  <2>2. Cardinality(S \cup {n}) = Cardinality(S) + 1
    BY <1>2, <2>1, FS_AddElement
  <2> HIDE DEF S
  <2> QED
    BY <1>0, <1>4, <2>1, <2>2
<1>5. CASE e.kind # "run"
  <2>1. T = S
    BY <1>1, <1>3, <1>5
  <2>2. Cardinality(T) = Cardinality(S)
    BY <2>1
  <2> HIDE DEF S, T
  <2> QED
    BY <1>0, <1>2, <1>5, <2>2
<1> QED
  BY <1>4, <1>5

(* Taking a command takes one from the count exactly when it is a run.     *)
LEMMA RunsTail ==
    ASSUME NEW q \in Seq(Command), q # <<>>
    PROVE  Runs(q) = Runs(Tail(q)) + (IF Head(q).kind = "run" THEN 1 ELSE 0)
<1> DEFINE S == {k \in 1..Len(q) : q[k].kind = "run"}
           T == {k \in 1..Len(Tail(q)) : Tail(q)[k].kind = "run"}
           f == [k \in T |-> k + 1]
<1>0. Runs(q) = Cardinality(S) /\ Runs(Tail(q)) = Cardinality(T)
  BY DEF Runs
<1>1. /\ Len(q) \in Nat /\ Len(q) # 0 /\ Len(Tail(q)) = Len(q) - 1
      /\ Head(q) = q[1] /\ Tail(q) \in Seq(Command)
      /\ \A k \in 1..Len(Tail(q)) : Tail(q)[k] = q[k + 1]
  OBVIOUS
<1>2. IsFiniteSet(T) /\ Cardinality(T) \in Nat /\ IsFiniteSet(S) /\ Cardinality(S) \in Nat
  BY <1>1, RunsFinite DEF Runs
<1>3. \A k \in 1..Len(q) : k # 1 => k - 1 \in 1..Len(Tail(q)) /\ Tail(q)[k - 1] = q[k]
  BY <1>1
<1>4. \A k \in 1..Len(Tail(q)) : k + 1 \in 1..Len(q) /\ k + 1 # 1
  BY <1>1
<1>5. f \in Bijection(T, S \ {1})
  <2>1. f \in [T -> S \ {1}]
    BY <1>1, <1>4
  <2>2. \A a, b \in T : f[a] = f[b] => a = b
    OBVIOUS
  <2>3. \A y \in S \ {1} : \E a \in T : f[a] = y
    <3> SUFFICES ASSUME NEW y \in S \ {1} PROVE y - 1 \in T /\ f[y - 1] = y
      OBVIOUS
    <3> QED
      BY <1>3
  <2>4. f \in Injection(T, S \ {1})
    BY <2>1, <2>2 DEF Injection, IsInjective
  <2>5. f \in Surjection(T, S \ {1})
    BY <2>1, <2>3 DEF Surjection
  <2> QED
    BY <2>4, <2>5 DEF Bijection
<1>6. Cardinality(T) = Cardinality(S \ {1})
  <2> HIDE DEF S, T, f
  <2>1. ExistsBijection(T, S \ {1})
    BY <1>5 DEF ExistsBijection
  <2> QED
    BY <1>2, <2>1, FS_Bijection
<1>7. CASE Head(q).kind = "run"
  <2>1. 1 \in S
    BY <1>1, <1>7
  <2>2. Cardinality(S \ {1}) = Cardinality(S) - 1
    BY <1>2, <2>1, FS_RemoveElement
  <2> HIDE DEF S, T
  <2> QED
    BY <1>0, <1>2, <1>6, <1>7, <2>2
<1>8. CASE Head(q).kind # "run"
  <2>1. S \ {1} = S
    BY <1>1, <1>8
  <2>2. Cardinality(T) = Cardinality(S)
    BY <1>6, <2>1
  <2> HIDE DEF S, T
  <2> QED
    BY <1>0, <1>2, <1>8, <2>2
<1> QED
  BY <1>7, <1>8

-----------------------------------------------------------------------------
(* Safety.  The inductive invariant and what each action does to its parts. *)

IInv == TypeInv /\ FinalizerInv /\ FreshInv /\ CountInv /\ TransitionInv

\* What most proofs need of a state in which IInv holds.
LEMMA HostFacts ==
    ASSUME IInv
    PROVE  /\ TypeOK /\ nextId \in Nat /\ invs \subseteq InvocationId
           /\ NoInvocation \notin InvocationId /\ \A i \in InvocationId : i \in Nat
           /\ cur \in InvocationId \cup {NoInvocation}
           /\ rpc \in Executing => cur \in invs
           /\ rpc = "finish" => cur \in InvocationId /\ cur \notin invs
           /\ rpc \notin Executing \cup {"finish"} => cur = NoInvocation
           /\ \A i \in invs \cup {cur} : i < nextId
<1>1. NoInvocation \notin InvocationId /\ \A i \in InvocationId \cup {NoInvocation} : i \in Nat
  BY IdAssumption, NoInvocationAssumption
<1>2. TypeOK /\ ControlInv /\ FreshInv
  BY DEF IInv, TypeInv
<1>3. /\ nextId \in Nat /\ invs \subseteq InvocationId
      /\ cur \in InvocationId \cup {NoInvocation}
  BY <1>2 DEF TypeOK, TableType, RuntimeType
<1>4. /\ rpc \in Executing => cur \in invs
      /\ rpc = "finish" => cur \in InvocationId /\ cur \notin invs
      /\ rpc \notin Executing \cup {"finish"} => cur = NoInvocation
      /\ \A i \in invs \cup {cur} : i < nextId
  BY <1>2 DEF ControlInv, FreshInv
<1> QED
  BY <1>1, <1>2, <1>3, <1>4

LEMMA IInvInit == Init => IInv
<1> SUFFICES ASSUME Init PROVE IInv
  OBVIOUS
<1> USE NoInvocationAssumption DEF Init
<1>1. TypeInv
  BY TypeInvInit
<1>2. FinalizerInv
  BY DEF FinalizerInv
<1>3. FreshInv
  BY DEF FreshInv
<1>4. CountInv
  <2>1. IsFiniteSet(invs) /\ Cardinality(invs) = 0
    BY FS_EmptySet
  <2>2. TotalLength(sch) = 0
    BY <1>1 DEF TypeInv, EmptyScheduler
  <2>3. Runs(cmds) = 0
    BY RunsEmpty
  <2> QED
    BY <2>1, <2>2, <2>3 DEF CountInv, ActiveMatches, OneRunPerInvocation, NothingForgotten
<1>5. TransitionInv
  BY DEF TransitionInv, NoWorkDuringTransition, DrainingStopsAll
<1> QED
  BY <1>1, <1>2, <1>3, <1>4, <1>5 DEF IInv

-----------------------------------------------------------------------------
(* The finalizer's order: close, join the runtime thread, join dispatch.   *)

LEMMA FinalizerInvNext == IInv /\ [Next]_vars => FinalizerInv'
<1> SUFFICES ASSUME IInv, [Next]_vars PROVE FinalizerInv'
  OBVIOUS
<1> USE DEF IInv, FinalizerInv, vars, lifecycle, table, requests, runtimeQ, runtime,
       dispatchQ, dispatch, callers, finalizer
<1>1. ASSUME NEW m \in Model, NEW c \in RequestClass, NEW d \in RequestDeadline, Submit(m, c, d) PROVE FinalizerInv'
  BY <1>1 DEF Submit
<1>2. ASSUME NEW m \in Model, SubmitRefused(m) PROVE FinalizerInv'
  BY <1>2 DEF SubmitRefused
<1>3. ASSUME NEW i \in InvocationId, Cancel(i) PROVE FinalizerInv'
  BY <1>3 DEF Cancel, CancelId
<1>4. ASSUME NEW i \in InvocationId, Preempt(i) PROVE FinalizerInv'
  BY <1>4 DEF Preempt, CancelId
<1>5. CASE ShutdownReentrant
  BY <1>5 DEF ShutdownReentrant, BeginShutdown, EnsureFinalizer
<1>6. ASSUME NEW c \in Caller, ShutdownCall(c) PROVE FinalizerInv'
  BY <1>6 DEF ShutdownCall, BeginShutdown, EnsureFinalizer
<1>7. ASSUME NEW c \in Caller, UnloadCall(c) PROVE FinalizerInv'
  BY <1>7 DEF UnloadCall
<1>8. ASSUME NEW c \in Caller, NEW m \in Model, LoadCall(c, m) PROVE FinalizerInv'
  BY <1>8 DEF LoadCall
<1>9. ASSUME NEW c \in Caller, PushCommand(c) PROVE FinalizerInv'
  BY <1>9 DEF PushCommand
<1>10. ASSUME NEW c \in Caller, LoadReturn(c) PROVE FinalizerInv'
  BY <1>10 DEF LoadReturn, CallReturns, ResetLifecycle
<1>11. ASSUME NEW c \in Caller, UnloadReturn(c) PROVE FinalizerInv'
  BY <1>11 DEF UnloadReturn, CallReturns
<1>12. ASSUME NEW c \in Caller, ShutdownReturn(c) PROVE FinalizerInv'
  BY <1>12 DEF ShutdownReturn
<1>13. CASE TakeCommand
  <2>1. Head(cmds) \in Command
    BY <1>13, TakeFirst DEF TakeCommand, TypeInv, TypeOK, RuntimeType, ControlInv
  <2>2. rpc' # "exit"
    BY <1>13, <2>1 DEF TakeCommand, Command
  <2> QED
    BY <1>13, <2>2 DEF TakeCommand
<1>14. CASE RuntimeExit
  BY <1>14 DEF RuntimeExit
<1>15. CASE RunScheduled
  BY <1>15 DEF RunScheduled, RuntimeIdle
<1>16. CASE BeginExecute
  BY <1>16 DEF BeginExecute, RuntimeGoto
<1>17. CASE PublishStarted
  BY <1>17 DEF PublishStarted, RuntimeGoto, Publish
<1>18. CASE CheckStop
  BY <1>18 DEF CheckStop, RuntimeGoto, SettleWith
<1>19. CASE CheckDeadline
  BY <1>19 DEF CheckDeadline, RuntimeGoto
<1>20. CASE AdmitToModel
  BY <1>20 DEF AdmitToModel, RuntimeGoto, SettleWith
<1>21. CASE GenerateDelta
  BY <1>21 DEF GenerateDelta, RuntimeGoto, Publish
<1>22. CASE GenerateStopped
  BY <1>22 DEF GenerateStopped, SettleWith
<1>23. CASE GenerateReturns
  BY <1>23 DEF GenerateReturns, SettleWith
<1>24. CASE Settle
  BY <1>24 DEF Settle
<1>25. CASE PublishFinished
  BY <1>25 DEF PublishFinished, Publish, RuntimeIdle
<1>26. CASE LoadModel
  BY <1>26 DEF LoadModel
<1>27. CASE LoadCheck
  BY <1>27 DEF LoadCheck
<1>28. CASE LoadAbort
  BY <1>28 DEF LoadAbort, ResetLifecycle, Complete, RuntimeIdle
<1>29. CASE LoadCommit
  BY <1>29 DEF LoadCommit, Complete, RuntimeIdle
<1>30. CASE UnloadModel
  BY <1>30 DEF UnloadModel
<1>31. CASE UnloadFails
  BY <1>31 DEF UnloadFails, Complete, RuntimeIdle
<1>32. CASE UnloadCommit
  BY <1>32 DEF UnloadCommit, ResetLifecycle, Complete, RuntimeIdle
<1>33. CASE FinalUnload
  BY <1>33 DEF FinalUnload, RuntimeIdle
<1>34. CASE DispatchTake
  BY <1>34 DEF DispatchTake
<1>35. CASE DispatchDeliver
  BY <1>35 DEF DispatchDeliver
<1>36. CASE DispatchExit
  BY <1>36 DEF DispatchExit
<1>37. CASE FinalizerReadsModel
  BY <1>37 DEF FinalizerReadsModel
<1>38. CASE FinalizerClosesRuntime
  BY <1>38 DEF FinalizerClosesRuntime
<1>39. CASE FinalizerJoinsRuntime
  BY <1>39 DEF FinalizerJoinsRuntime
<1>40. CASE FinalizerStops
  BY <1>40 DEF FinalizerStops
<1>41. CASE UNCHANGED vars
  BY <1>41
<1> QED
  BY <1>1, <1>2, <1>3, <1>4, <1>5, <1>6, <1>7, <1>8, <1>9, <1>10, <1>11, <1>12, <1>13,
     <1>14, <1>15, <1>16, <1>17, <1>18, <1>19, <1>20, <1>21, <1>22, <1>23, <1>24, <1>25,
     <1>26, <1>27, <1>28, <1>29, <1>30, <1>31, <1>32, <1>33, <1>34, <1>35, <1>36, <1>37,
     <1>38, <1>39, <1>40, <1>41
     DEF Next, Request, CallerStep, RuntimeThread, DispatchThread, Finalizer, Terminated

-----------------------------------------------------------------------------
(* Ids are fresh, and an invocation that was settled is out of the map.    *)

LEMMA FreshInvNext == IInv /\ [Next]_vars => FreshInv'
<1> SUFFICES ASSUME IInv, [Next]_vars PROVE FreshInv'
  OBVIOUS
<1>0. /\ invs \subseteq InvocationId /\ cur \in InvocationId \cup {NoInvocation}
      /\ nextId \in Nat /\ \A i \in InvocationId \cup {NoInvocation} : i \in Nat
      /\ rpc \in Executing => cur \in invs
      /\ rpc \notin Executing \cup {"finish"} => cur = NoInvocation
  BY HostFacts, NoInvocationAssumption
<1> USE DEF IInv, FreshInv, Executing, vars, lifecycle, table, requests, runtimeQ, runtime,
       dispatchQ, dispatch, callers, finalizer
<1>1. ASSUME NEW m \in Model, NEW c \in RequestClass, NEW d \in RequestDeadline, Submit(m, c, d) PROVE FreshInv'
  BY <1>1, <1>0 DEF Submit
<1>2. ASSUME NEW m \in Model, SubmitRefused(m) PROVE FreshInv'
  BY <1>2, <1>0 DEF SubmitRefused
<1>3. ASSUME NEW i \in InvocationId, Cancel(i) PROVE FreshInv'
  BY <1>3, <1>0 DEF Cancel, CancelId
<1>4. ASSUME NEW i \in InvocationId, Preempt(i) PROVE FreshInv'
  BY <1>4, <1>0 DEF Preempt, CancelId
<1>5. CASE ShutdownReentrant
  BY <1>5, <1>0 DEF ShutdownReentrant, BeginShutdown, EnsureFinalizer
<1>6. ASSUME NEW c \in Caller, ShutdownCall(c) PROVE FreshInv'
  BY <1>6, <1>0 DEF ShutdownCall, BeginShutdown, EnsureFinalizer
<1>7. ASSUME NEW c \in Caller, UnloadCall(c) PROVE FreshInv'
  BY <1>7, <1>0 DEF UnloadCall
<1>8. ASSUME NEW c \in Caller, NEW m \in Model, LoadCall(c, m) PROVE FreshInv'
  BY <1>8, <1>0 DEF LoadCall
<1>9. ASSUME NEW c \in Caller, PushCommand(c) PROVE FreshInv'
  BY <1>9, <1>0 DEF PushCommand
<1>10. ASSUME NEW c \in Caller, LoadReturn(c) PROVE FreshInv'
  BY <1>10, <1>0 DEF LoadReturn, CallReturns, ResetLifecycle
<1>11. ASSUME NEW c \in Caller, UnloadReturn(c) PROVE FreshInv'
  BY <1>11, <1>0 DEF UnloadReturn, CallReturns
<1>12. ASSUME NEW c \in Caller, ShutdownReturn(c) PROVE FreshInv'
  BY <1>12, <1>0 DEF ShutdownReturn
<1>13. CASE TakeCommand
  <2>1. Head(cmds) \in Command
    BY <1>13, TakeFirst DEF TakeCommand, TypeInv, TypeOK, RuntimeType, ControlInv
  <2>2. rpc' # "finish"
    BY <1>13, <2>1 DEF TakeCommand, Command
  <2> QED
    BY <1>13, <2>2 DEF TakeCommand
<1>14. CASE RuntimeExit
  BY <1>14, <1>0 DEF RuntimeExit
<1>15. CASE RunScheduled
  BY <1>15, <1>0 DEF RunScheduled, RuntimeIdle
<1>16. CASE BeginExecute
  BY <1>16, <1>0 DEF BeginExecute, RuntimeGoto
<1>17. CASE PublishStarted
  BY <1>17, <1>0 DEF PublishStarted, RuntimeGoto, Publish
<1>18. CASE CheckStop
  BY <1>18, <1>0 DEF CheckStop, RuntimeGoto, SettleWith
<1>19. CASE CheckDeadline
  BY <1>19, <1>0 DEF CheckDeadline, RuntimeGoto
<1>20. CASE AdmitToModel
  BY <1>20, <1>0 DEF AdmitToModel, RuntimeGoto, SettleWith
<1>21. CASE GenerateDelta
  BY <1>21, <1>0 DEF GenerateDelta, RuntimeGoto, Publish
<1>22. CASE GenerateStopped
  BY <1>22, <1>0 DEF GenerateStopped, SettleWith
<1>23. CASE GenerateReturns
  BY <1>23, <1>0 DEF GenerateReturns, SettleWith
<1>24. CASE Settle
  BY <1>24, <1>0 DEF Settle
<1>25. CASE PublishFinished
  BY <1>25, <1>0, NoInvocationAssumption DEF PublishFinished, Publish, RuntimeIdle
<1>26. CASE LoadModel
  BY <1>26, <1>0 DEF LoadModel
<1>27. CASE LoadCheck
  BY <1>27, <1>0 DEF LoadCheck
<1>28. CASE LoadAbort
  BY <1>28, <1>0 DEF LoadAbort, ResetLifecycle, Complete, RuntimeIdle
<1>29. CASE LoadCommit
  BY <1>29, <1>0 DEF LoadCommit, Complete, RuntimeIdle
<1>30. CASE UnloadModel
  BY <1>30, <1>0 DEF UnloadModel
<1>31. CASE UnloadFails
  BY <1>31, <1>0 DEF UnloadFails, Complete, RuntimeIdle
<1>32. CASE UnloadCommit
  BY <1>32, <1>0 DEF UnloadCommit, ResetLifecycle, Complete, RuntimeIdle
<1>33. CASE FinalUnload
  BY <1>33, <1>0 DEF FinalUnload, RuntimeIdle
<1>34. CASE DispatchTake
  BY <1>34, <1>0 DEF DispatchTake
<1>35. CASE DispatchDeliver
  BY <1>35, <1>0 DEF DispatchDeliver
<1>36. CASE DispatchExit
  BY <1>36, <1>0 DEF DispatchExit
<1>37. CASE FinalizerReadsModel
  BY <1>37, <1>0 DEF FinalizerReadsModel
<1>38. CASE FinalizerClosesRuntime
  BY <1>38, <1>0 DEF FinalizerClosesRuntime
<1>39. CASE FinalizerJoinsRuntime
  BY <1>39, <1>0 DEF FinalizerJoinsRuntime
<1>40. CASE FinalizerStops
  BY <1>40, <1>0 DEF FinalizerStops
<1>41. CASE UNCHANGED vars
  BY <1>41, <1>0
<1> QED
  BY <1>1, <1>2, <1>3, <1>4, <1>5, <1>6, <1>7, <1>8, <1>9, <1>10, <1>11, <1>12, <1>13,
     <1>14, <1>15, <1>16, <1>17, <1>18, <1>19, <1>20, <1>21, <1>22, <1>23, <1>24, <1>25,
     <1>26, <1>27, <1>28, <1>29, <1>30, <1>31, <1>32, <1>33, <1>34, <1>35, <1>36, <1>37,
     <1>38, <1>39, <1>40, <1>41
     DEF Next, Request, CallerStep, RuntimeThread, DispatchThread, Finalizer, Terminated

-----------------------------------------------------------------------------
(* The counter, the two queues and the map.                                *)

(* A step that leaves the map, the counter and both queues alone, and      *)
(* neither takes nor completes a run command, keeps the correspondence.    *)
LEMMA CountFrame ==
    ASSUME CountInv, UNCHANGED <<active, invs, sch, cmds, cur>>, rpc # "run", rpc' # "run"
    PROVE  CountInv'
BY DEF CountInv, ActiveMatches, OneRunPerInvocation, NothingForgotten

LEMMA CountInvNext == IInv /\ [Next]_vars => CountInv'
<1> SUFFICES ASSUME IInv, [Next]_vars PROVE CountInv'
  OBVIOUS
<1>0. /\ invs \subseteq InvocationId /\ cur \in InvocationId \cup {NoInvocation}
      /\ NoInvocation \notin InvocationId
      /\ cmds \in Seq(Command) /\ sch \in Scheduler /\ active \in Nat
      /\ rpc \in Executing => cur \in invs
      /\ rpc \notin Executing \cup {"finish"} => cur = NoInvocation
      /\ rpc = "finish" => cur \notin invs
      /\ IsFiniteSet(invs) /\ active = Cardinality(invs)
      /\ sch.size = TotalLength(sch)
      /\ Runs(cmds) + (IF rpc = "run" THEN 1 ELSE 0) = TotalLength(sch)
      /\ \A i \in invs : i \in QueuedJobs(sch) \/ i = cur
      /\ state \in {"Loading", "Unloading"} => invs = {}
  BY IdAssumption, NoInvocationAssumption
     DEF IInv, TypeInv, TypeOK, LifecycleType, TableType, RuntimeType, ControlInv, FreshInv,
         CountInv, ActiveMatches, OneRunPerInvocation, NothingForgotten, TransitionInv, NoWorkDuringTransition
<1>00. Runs(cmds) \in Nat /\ TotalLength(sch) \in Nat /\ CountInv
  BY <1>0, RunsFinite, TotalLengthNat DEF IInv
<1> USE DEF vars, lifecycle, table, requests, runtimeQ, runtime, dispatchQ, dispatch, callers, finalizer
<1>1. ASSUME NEW m \in Model, NEW c \in RequestClass, NEW d \in RequestDeadline, Submit(m, c, d) PROVE CountInv'
  <2>1. c \in WorkClass /\ nextId \in InvocationId /\ nextId \notin invs
    <3>1. nextId \in InvocationId /\ nextId \in Nat
      BY <1>1, IdAssumption DEF Submit
    <3>2. \A i \in invs : i < nextId
      BY DEF IInv, FreshInv
    <3> QED
      BY <3>1, <3>2, RequestClassAssumption
  <2>2. IsFiniteSet(invs') /\ active' = Cardinality(invs')
    BY <1>1, <1>0, <2>1, FS_AddElement DEF Submit
  <2>3. TotalLength(sch') = TotalLength(sch) + 1 /\ sch'.size = sch.size + 1
    BY <1>1, <1>0, <2>1, PushedScheduler DEF Submit
  <2>4. Runs(cmds') = Runs(cmds) + 1 /\ UNCHANGED rpc
    BY <1>1, <1>0, RunsAppend, CommandTypes DEF Submit, RunScheduledCmd
  <2>5. \A i \in invs' : i \in QueuedJobs(sch') \/ i = cur'
    <3>1. \A i : i \in QueuedJobs(sch) \/ i = nextId => i \in QueuedJobs(sch')
      BY <1>1, <1>0, <2>1, PushedQueues DEF Submit
    <3> QED
      BY <1>1, <1>0, <3>1 DEF Submit
  <2>6. OneRunPerInvocation'
    BY <1>0, <1>00, <2>3, <2>4 DEF OneRunPerInvocation
  <2> QED
    BY <1>0, <1>00, <2>2, <2>3, <2>5, <2>6 DEF CountInv, ActiveMatches, NothingForgotten
<1>2. ASSUME NEW m \in Model, SubmitRefused(m) PROVE CountInv'
  <2>1. UNCHANGED <<active, invs, sch, cmds, cur, rpc>>
    BY <1>2 DEF SubmitRefused
  <2> QED
    BY <1>00, <2>1 DEF CountInv, ActiveMatches, OneRunPerInvocation, NothingForgotten
<1>3. ASSUME NEW i \in InvocationId, Cancel(i) PROVE CountInv'
  <2>1. UNCHANGED <<active, invs, sch, cmds, cur, rpc>>
    BY <1>3 DEF Cancel, CancelId
  <2> QED
    BY <1>00, <2>1 DEF CountInv, ActiveMatches, OneRunPerInvocation, NothingForgotten
<1>4. ASSUME NEW i \in InvocationId, Preempt(i) PROVE CountInv'
  <2>1. UNCHANGED <<active, invs, sch, cmds, cur, rpc>>
    BY <1>4 DEF Preempt, CancelId
  <2> QED
    BY <1>00, <2>1 DEF CountInv, ActiveMatches, OneRunPerInvocation, NothingForgotten
<1>5. CASE ShutdownReentrant
  <2>1. UNCHANGED <<active, invs, sch, cmds, cur, rpc>>
    BY <1>5 DEF ShutdownReentrant
  <2> QED
    BY <1>00, <2>1 DEF CountInv, ActiveMatches, OneRunPerInvocation, NothingForgotten
<1>6. ASSUME NEW c \in Caller, ShutdownCall(c) PROVE CountInv'
  <2>1. UNCHANGED <<active, invs, sch, cmds, cur, rpc>>
    BY <1>6 DEF ShutdownCall
  <2> QED
    BY <1>00, <2>1 DEF CountInv, ActiveMatches, OneRunPerInvocation, NothingForgotten
<1>7. ASSUME NEW c \in Caller, UnloadCall(c) PROVE CountInv'
  <2>1. UNCHANGED <<active, invs, sch, cmds, cur, rpc>>
    BY <1>7 DEF UnloadCall
  <2> QED
    BY <1>00, <2>1 DEF CountInv, ActiveMatches, OneRunPerInvocation, NothingForgotten
<1>8. ASSUME NEW c \in Caller, NEW m \in Model, LoadCall(c, m) PROVE CountInv'
  <2>1. UNCHANGED <<active, invs, sch, cmds, cur, rpc>>
    BY <1>8 DEF LoadCall
  <2> QED
    BY <1>00, <2>1 DEF CountInv, ActiveMatches, OneRunPerInvocation, NothingForgotten
<1>9. ASSUME NEW c \in Caller, PushCommand(c) PROVE CountInv'
  <2>1. UNCHANGED <<active, invs, sch, cur, rpc>>
    BY <1>9 DEF PushCommand
  <2>2. call[c] \in Command /\ call[c].kind # "run"
    BY <1>9 DEF PushCommand, IInv, TypeInv, TypeOK, CallerType, ControlInv
  <2>3. Runs(cmds') = Runs(cmds)
    <3>1. Runs(Append(cmds, call[c])) = Runs(cmds)
      BY <1>0, <1>00, <2>2, RunsAppend
    <3> QED
      BY <1>9, <3>1 DEF PushCommand
  <2> QED
    BY <1>00, <2>1, <2>3 DEF CountInv, ActiveMatches, OneRunPerInvocation, NothingForgotten
<1>10. ASSUME NEW c \in Caller, LoadReturn(c) PROVE CountInv'
  <2>1. UNCHANGED <<invs, sch, cmds, cur, rpc>>
    BY <1>10 DEF LoadReturn, CallReturns
  <2>2. active' = active
    <3>1. CASE UNCHANGED lifecycle
      BY <3>1
    <3>2. CASE ~UNCHANGED lifecycle
      <4>1. invs = {} /\ active' = 0
        BY <1>10, <1>0, <3>2 DEF LoadReturn, ResetLifecycle
      <4> QED
        BY <1>0, <4>1, FS_EmptySet
    <3> QED
      BY <3>1, <3>2
  <2> QED
    BY <1>00, <2>1, <2>2 DEF CountInv, ActiveMatches, OneRunPerInvocation, NothingForgotten
<1>11. ASSUME NEW c \in Caller, UnloadReturn(c) PROVE CountInv'
  <2>1. UNCHANGED <<active, invs, sch, cmds, cur, rpc>>
    BY <1>11 DEF UnloadReturn, CallReturns
  <2> QED
    BY <1>00, <2>1 DEF CountInv, ActiveMatches, OneRunPerInvocation, NothingForgotten
<1>12. ASSUME NEW c \in Caller, ShutdownReturn(c) PROVE CountInv'
  <2>1. UNCHANGED <<active, invs, sch, cmds, cur, rpc>>
    BY <1>12 DEF ShutdownReturn
  <2> QED
    BY <1>00, <2>1 DEF CountInv, ActiveMatches, OneRunPerInvocation, NothingForgotten
<1>13. CASE TakeCommand
  <2>1. UNCHANGED <<active, invs, sch, cur>> /\ rpc # "run"
    BY <1>13 DEF TakeCommand
  <2>2. Tail(cmds) \in Seq(Command) /\ Runs(Tail(cmds)) \in Nat
    <3>1. Tail(cmds) \in Seq(Command)
      BY <1>13, <1>0 DEF TakeCommand
    <3> QED
      BY <3>1, RunsFinite
  <2>3. Runs(cmds') + (IF rpc' = "run" THEN 1 ELSE 0) = Runs(cmds)
    BY <1>13, <1>0, <2>2, RunsTail DEF TakeCommand
  <2>4. OneRunPerInvocation'
    BY <1>0, <1>00, <2>1, <2>3 DEF OneRunPerInvocation
  <2> QED
    BY <1>00, <2>1, <2>4 DEF CountInv, ActiveMatches, NothingForgotten
<1>14. CASE RuntimeExit
  <2>1. UNCHANGED <<active, invs, sch, cmds, cur>> /\ rpc # "run" /\ rpc' # "run"
    BY <1>14, <1>0 DEF RuntimeExit, Executing
  <2> QED
    BY <1>00, <2>1, CountFrame
<1>15. CASE RunScheduled
  <2>1. rpc = "run" /\ TotalLength(sch) # 0 /\ sch.size # 0
    BY <1>15, <1>0, <1>00 DEF RunScheduled
  <2>2. /\ sch' = Popped(sch)
        /\ UNCHANGED <<active, invs, cmds>> /\ rpc' # "run"
        /\ PopJob(sch) \in invs => cur' = PopJob(sch)
    BY <1>15, <2>1 DEF RunScheduled, RuntimeIdle
  <2>3. TotalLength(sch') = TotalLength(sch) - 1 /\ sch'.size = sch.size - 1
    BY <1>0, <2>1, <2>2, PoppedScheduler
  <2>4. OneRunPerInvocation'
    BY <1>0, <1>00, <2>1, <2>2, <2>3 DEF OneRunPerInvocation
  <2>5. NothingForgotten'
    <3>1. \A i \in invs : i \in QueuedJobs(sch)
      BY <1>0, <2>1 DEF Executing
    <3>2. \A i \in invs : i \in QueuedJobs(sch') \/ i = PopJob(sch)
      BY <1>0, <2>1, <2>2, <3>1, PoppedQueues
    <3> QED
      BY <2>2, <3>2 DEF NothingForgotten
  <2> QED
    BY <1>0, <1>00, <2>2, <2>3, <2>4, <2>5 DEF CountInv, ActiveMatches
<1>16. CASE BeginExecute
  <2>1. UNCHANGED <<active, invs, sch, cmds, cur>> /\ rpc # "run" /\ rpc' # "run"
    BY <1>16, <1>0 DEF BeginExecute, RuntimeGoto, Executing
  <2> QED
    BY <1>00, <2>1, CountFrame
<1>17. CASE PublishStarted
  <2>1. UNCHANGED <<active, invs, sch, cmds, cur>> /\ rpc # "run" /\ rpc' # "run"
    BY <1>17, <1>0 DEF PublishStarted, RuntimeGoto, Publish, Executing
  <2> QED
    BY <1>00, <2>1, CountFrame
<1>18. CASE CheckStop
  <2>1. UNCHANGED <<active, invs, sch, cmds, cur>> /\ rpc # "run" /\ rpc' # "run"
    BY <1>18, <1>0 DEF CheckStop, RuntimeGoto, SettleWith, Executing
  <2> QED
    BY <1>00, <2>1, CountFrame
<1>19. CASE CheckDeadline
  <2>1. UNCHANGED <<active, invs, sch, cmds, cur>> /\ rpc # "run" /\ rpc' # "run"
    BY <1>19, <1>0 DEF CheckDeadline, RuntimeGoto, Executing
  <2> QED
    BY <1>00, <2>1, CountFrame
<1>20. CASE AdmitToModel
  <2>1. UNCHANGED <<active, invs, sch, cmds, cur>> /\ rpc # "run" /\ rpc' # "run"
    BY <1>20, <1>0 DEF AdmitToModel, RuntimeGoto, SettleWith, Executing
  <2> QED
    BY <1>00, <2>1, CountFrame
<1>21. CASE GenerateDelta
  <2>1. UNCHANGED <<active, invs, sch, cmds, cur>> /\ rpc # "run" /\ rpc' # "run"
    BY <1>21, <1>0 DEF GenerateDelta, RuntimeGoto, Publish, Executing
  <2> QED
    BY <1>00, <2>1, CountFrame
<1>22. CASE GenerateStopped
  <2>1. UNCHANGED <<active, invs, sch, cmds, cur>> /\ rpc # "run" /\ rpc' # "run"
    BY <1>22, <1>0 DEF GenerateStopped, SettleWith, Executing
  <2> QED
    BY <1>00, <2>1, CountFrame
<1>23. CASE GenerateReturns
  <2>1. UNCHANGED <<active, invs, sch, cmds, cur>> /\ rpc # "run" /\ rpc' # "run"
    BY <1>23, <1>0 DEF GenerateReturns, SettleWith, Executing
  <2> QED
    BY <1>00, <2>1, CountFrame
<1>24. CASE Settle
  <2>1. cur \in invs /\ UNCHANGED <<sch, cmds, cur>> /\ rpc # "run" /\ rpc' # "run" /\ invs' = invs \ {cur}
    BY <1>24, <1>0 DEF Settle, Executing
  <2>2. IsFiniteSet(invs') /\ Cardinality(invs') = Cardinality(invs) - 1
    BY <1>0, <2>1, FS_RemoveElement
  <2>3. active > 0
    BY <1>0, <2>1, FS_EmptySet
  <2>4. active' = Cardinality(invs')
    BY <1>24, <1>0, <2>2, <2>3 DEF Settle
  <2> QED
    BY <1>00, <2>1, <2>2, <2>4 DEF CountInv, ActiveMatches, OneRunPerInvocation, NothingForgotten
<1>25. CASE PublishFinished
  <2>1. UNCHANGED <<active, invs, sch, cmds>> /\ rpc # "run" /\ rpc' # "run" /\ cur \notin invs
    BY <1>25, <1>0 DEF PublishFinished, RuntimeIdle
  <2>2. NothingForgotten'
    BY <1>0, <2>1 DEF NothingForgotten
  <2> QED
    BY <1>00, <2>1, <2>2 DEF CountInv, ActiveMatches, OneRunPerInvocation
<1>26. CASE LoadModel
  <2>1. UNCHANGED <<active, invs, sch, cmds, cur>> /\ rpc # "run" /\ rpc' # "run"
    BY <1>26, <1>0 DEF LoadModel, Executing
  <2> QED
    BY <1>00, <2>1, CountFrame
<1>27. CASE LoadCheck
  <2>1. UNCHANGED <<active, invs, sch, cmds, cur>> /\ rpc # "run" /\ rpc' # "run"
    BY <1>27, <1>0 DEF LoadCheck, Executing
  <2> QED
    BY <1>00, <2>1, CountFrame
<1>28. CASE LoadAbort
  <2>1. UNCHANGED <<invs, sch, cmds, cur>> /\ rpc # "run" /\ rpc' # "run"
    BY <1>28, <1>0 DEF LoadAbort, RuntimeIdle, Executing
  <2>2. active' = active
    <3>1. CASE UNCHANGED lifecycle
      BY <3>1
    <3>2. CASE ~UNCHANGED lifecycle
      <4>1. invs = {} /\ active' = 0
        BY <1>28, <1>0, <3>2 DEF LoadAbort, ResetLifecycle
      <4> QED
        BY <1>0, <4>1, FS_EmptySet
    <3> QED
      BY <3>1, <3>2
  <2> QED
    BY <1>00, <2>1, <2>2, CountFrame
<1>29. CASE LoadCommit
  <2>1. UNCHANGED <<active, invs, sch, cmds, cur>> /\ rpc # "run" /\ rpc' # "run"
    BY <1>29, <1>0 DEF LoadCommit, Complete, RuntimeIdle, Executing
  <2> QED
    BY <1>00, <2>1, CountFrame
<1>30. CASE UnloadModel
  <2>1. UNCHANGED <<active, invs, sch, cmds, cur>> /\ rpc # "run" /\ rpc' # "run"
    BY <1>30, <1>0 DEF UnloadModel, Executing
  <2> QED
    BY <1>00, <2>1, CountFrame
<1>31. CASE UnloadFails
  <2>1. UNCHANGED <<active, invs, sch, cmds, cur>> /\ rpc # "run" /\ rpc' # "run"
    BY <1>31, <1>0 DEF UnloadFails, Complete, RuntimeIdle, Executing
  <2> QED
    BY <1>00, <2>1, CountFrame
<1>32. CASE UnloadCommit
  <2>1. UNCHANGED <<invs, sch, cmds, cur>> /\ rpc # "run" /\ rpc' # "run"
    BY <1>32, <1>0 DEF UnloadCommit, RuntimeIdle, Executing
  <2>2. active' = active
    <3>1. CASE UNCHANGED lifecycle
      BY <3>1
    <3>2. CASE ~UNCHANGED lifecycle
      <4>1. invs = {} /\ active' = 0
        BY <1>32, <1>0, <3>2 DEF UnloadCommit, ResetLifecycle
      <4> QED
        BY <1>0, <4>1, FS_EmptySet
    <3> QED
      BY <3>1, <3>2
  <2> QED
    BY <1>00, <2>1, <2>2, CountFrame
<1>33. CASE FinalUnload
  <2>1. UNCHANGED <<active, invs, sch, cmds, cur>> /\ rpc # "run" /\ rpc' # "run"
    BY <1>33, <1>0 DEF FinalUnload, RuntimeIdle, Executing
  <2> QED
    BY <1>00, <2>1, CountFrame
<1>34. CASE DispatchTake
  <2>1. UNCHANGED <<active, invs, sch, cmds, cur, rpc>>
    BY <1>34 DEF DispatchTake
  <2> QED
    BY <1>00, <2>1 DEF CountInv, ActiveMatches, OneRunPerInvocation, NothingForgotten
<1>35. CASE DispatchDeliver
  <2>1. UNCHANGED <<active, invs, sch, cmds, cur, rpc>>
    BY <1>35 DEF DispatchDeliver
  <2> QED
    BY <1>00, <2>1 DEF CountInv, ActiveMatches, OneRunPerInvocation, NothingForgotten
<1>36. CASE DispatchExit
  <2>1. UNCHANGED <<active, invs, sch, cmds, cur, rpc>>
    BY <1>36 DEF DispatchExit
  <2> QED
    BY <1>00, <2>1 DEF CountInv, ActiveMatches, OneRunPerInvocation, NothingForgotten
<1>37. CASE FinalizerReadsModel
  <2>1. UNCHANGED <<active, invs, sch, cmds, cur, rpc>>
    BY <1>37 DEF FinalizerReadsModel
  <2> QED
    BY <1>00, <2>1 DEF CountInv, ActiveMatches, OneRunPerInvocation, NothingForgotten
<1>38. CASE FinalizerClosesRuntime
  <2>1. UNCHANGED <<active, invs, sch, cur, rpc>>
    BY <1>38 DEF FinalizerClosesRuntime
  <2>2. Runs(cmds') = Runs(cmds)
    <3>1. Runs(Append(cmds, FinalUnloadCmd)) = Runs(cmds)
      BY <1>0, <1>00, CommandTypes, RunsAppend DEF FinalUnloadCmd
    <3> QED
      BY <1>38, <3>1 DEF FinalizerClosesRuntime
  <2> QED
    BY <1>00, <2>1, <2>2 DEF CountInv, ActiveMatches, OneRunPerInvocation, NothingForgotten
<1>39. CASE FinalizerJoinsRuntime
  <2>1. UNCHANGED <<active, invs, sch, cmds, cur, rpc>>
    BY <1>39 DEF FinalizerJoinsRuntime
  <2> QED
    BY <1>00, <2>1 DEF CountInv, ActiveMatches, OneRunPerInvocation, NothingForgotten
<1>40. CASE FinalizerStops
  <2>1. UNCHANGED <<active, invs, sch, cmds, cur, rpc>>
    BY <1>40 DEF FinalizerStops
  <2> QED
    BY <1>00, <2>1 DEF CountInv, ActiveMatches, OneRunPerInvocation, NothingForgotten
<1>41. CASE UNCHANGED vars
  <2>1. UNCHANGED <<active, invs, sch, cmds, cur, rpc>>
    BY <1>41
  <2> QED
    BY <1>00, <2>1 DEF CountInv, ActiveMatches, OneRunPerInvocation, NothingForgotten
<1> QED
  BY <1>1, <1>2, <1>3, <1>4, <1>5, <1>6, <1>7, <1>8, <1>9, <1>10, <1>11, <1>12, <1>13,
     <1>14, <1>15, <1>16, <1>17, <1>18, <1>19, <1>20, <1>21, <1>22, <1>23, <1>24, <1>25,
     <1>26, <1>27, <1>28, <1>29, <1>30, <1>31, <1>32, <1>33, <1>34, <1>35, <1>36, <1>37,
     <1>38, <1>39, <1>40, <1>41
     DEF Next, Request, CallerStep, RuntimeThread, DispatchThread, Finalizer, Terminated

-----------------------------------------------------------------------------
(* The lifecycle.                                                          *)

LEMMA TransitionInvNext == IInv /\ [Next]_vars => TransitionInv'
<1> SUFFICES ASSUME IInv, [Next]_vars PROVE TransitionInv'
  OBVIOUS
<1>0. /\ invs \subseteq InvocationId
      /\ stop \in [InvocationId -> StopReason]
      /\ rpc \in Executing => cur \in invs
      /\ active = 0 => invs = {}
  <2>1. active = 0 => invs = {}
    BY FS_EmptySet DEF IInv, CountInv, ActiveMatches
  <2> QED
    BY <2>1 DEF IInv, TypeInv, TypeOK, TableType, ControlInv
<1>00. \A i \in InvocationId, r \in StopReason :
          /\ Raise(stop[i], "Shutdown") = "Shutdown"
          /\ stop[i] = "Shutdown" => Raise(stop[i], r) = "Shutdown"
  BY <1>0, RaiseType DEF StopReason
<1>000. {"Preempted", "Deadline", "UserCancel", "Shutdown"} \subseteq StopReason
  BY DEF StopReason
<1> USE DEF IInv, TransitionInv, NoWorkDuringTransition, DrainingStopsAll, vars, lifecycle,
       table, requests, runtimeQ, runtime, dispatchQ, dispatch, callers, finalizer
<1>1. ASSUME NEW m \in Model, NEW c \in RequestClass, NEW d \in RequestDeadline, Submit(m, c, d) PROVE TransitionInv'
  BY <1>1, <1>0 DEF Submit, Accepts
<1>2. ASSUME NEW m \in Model, SubmitRefused(m) PROVE TransitionInv'
  BY <1>2, <1>0 DEF SubmitRefused
<1>3. ASSUME NEW i \in InvocationId, Cancel(i) PROVE TransitionInv'
  BY <1>3, <1>0, <1>00, <1>000 DEF Cancel, CancelId, Executing
<1>4. ASSUME NEW i \in InvocationId, Preempt(i) PROVE TransitionInv'
  BY <1>4, <1>0, <1>00, <1>000 DEF Preempt, CancelId, Executing
<1>5. CASE ShutdownReentrant
  BY <1>5, <1>0, <1>00 DEF ShutdownReentrant, BeginShutdown
<1>6. ASSUME NEW c \in Caller, ShutdownCall(c) PROVE TransitionInv'
  BY <1>6, <1>0, <1>00 DEF ShutdownCall, BeginShutdown
<1>7. ASSUME NEW c \in Caller, UnloadCall(c) PROVE TransitionInv'
  BY <1>7, <1>0 DEF UnloadCall
<1>8. ASSUME NEW c \in Caller, NEW m \in Model, LoadCall(c, m) PROVE TransitionInv'
  BY <1>8, <1>0 DEF LoadCall
<1>9. ASSUME NEW c \in Caller, PushCommand(c) PROVE TransitionInv'
  BY <1>9, <1>0 DEF PushCommand
<1>10. ASSUME NEW c \in Caller, LoadReturn(c) PROVE TransitionInv'
  BY <1>10, <1>0 DEF LoadReturn, CallReturns, ResetLifecycle
<1>11. ASSUME NEW c \in Caller, UnloadReturn(c) PROVE TransitionInv'
  BY <1>11, <1>0 DEF UnloadReturn, CallReturns
<1>12. ASSUME NEW c \in Caller, ShutdownReturn(c) PROVE TransitionInv'
  BY <1>12, <1>0 DEF ShutdownReturn
<1>13. CASE TakeCommand
  BY <1>13, <1>0 DEF TakeCommand
<1>14. CASE RuntimeExit
  BY <1>14, <1>0 DEF RuntimeExit
<1>15. CASE RunScheduled
  BY <1>15, <1>0 DEF RunScheduled, RuntimeIdle
<1>16. CASE BeginExecute
  BY <1>16, <1>0, <1>00, <1>000 DEF BeginExecute, RuntimeGoto, Executing
<1>17. CASE PublishStarted
  BY <1>17, <1>0 DEF PublishStarted, RuntimeGoto, Publish
<1>18. CASE CheckStop
  BY <1>18, <1>0 DEF CheckStop, RuntimeGoto, SettleWith
<1>19. CASE CheckDeadline
  BY <1>19, <1>0, <1>00, <1>000 DEF CheckDeadline, RuntimeGoto, Executing
<1>20. CASE AdmitToModel
  BY <1>20, <1>0, <1>00, <1>000 DEF AdmitToModel, RuntimeGoto, SettleWith, Executing
<1>21. CASE GenerateDelta
  BY <1>21, <1>0 DEF GenerateDelta, RuntimeGoto, Publish
<1>22. CASE GenerateStopped
  BY <1>22, <1>0, <1>00, <1>000 DEF GenerateStopped, SettleWith, Executing
<1>23. CASE GenerateReturns
  BY <1>23, <1>0 DEF GenerateReturns, SettleWith
<1>24. CASE Settle
  BY <1>24, <1>0 DEF Settle
<1>25. CASE PublishFinished
  BY <1>25, <1>0 DEF PublishFinished, Publish, RuntimeIdle
<1>26. CASE LoadModel
  BY <1>26, <1>0 DEF LoadModel
<1>27. CASE LoadCheck
  BY <1>27, <1>0 DEF LoadCheck
<1>28. CASE LoadAbort
  BY <1>28, <1>0 DEF LoadAbort, ResetLifecycle, Complete, RuntimeIdle
<1>29. CASE LoadCommit
  BY <1>29, <1>0 DEF LoadCommit, Complete, RuntimeIdle
<1>30. CASE UnloadModel
  BY <1>30, <1>0 DEF UnloadModel
<1>31. CASE UnloadFails
  BY <1>31, <1>0 DEF UnloadFails, Complete, RuntimeIdle
<1>32. CASE UnloadCommit
  BY <1>32, <1>0 DEF UnloadCommit, ResetLifecycle, Complete, RuntimeIdle
<1>33. CASE FinalUnload
  BY <1>33, <1>0 DEF FinalUnload, RuntimeIdle
<1>34. CASE DispatchTake
  BY <1>34, <1>0 DEF DispatchTake
<1>35. CASE DispatchDeliver
  BY <1>35, <1>0 DEF DispatchDeliver
<1>36. CASE DispatchExit
  BY <1>36, <1>0 DEF DispatchExit
<1>37. CASE FinalizerReadsModel
  BY <1>37, <1>0 DEF FinalizerReadsModel
<1>38. CASE FinalizerClosesRuntime
  BY <1>38, <1>0 DEF FinalizerClosesRuntime
<1>39. CASE FinalizerJoinsRuntime
  BY <1>39, <1>0 DEF FinalizerJoinsRuntime
<1>40. CASE FinalizerStops
  BY <1>40, <1>0 DEF FinalizerStops
<1>41. CASE UNCHANGED vars
  BY <1>41, <1>0
<1> QED
  BY <1>1, <1>2, <1>3, <1>4, <1>5, <1>6, <1>7, <1>8, <1>9, <1>10, <1>11, <1>12, <1>13,
     <1>14, <1>15, <1>16, <1>17, <1>18, <1>19, <1>20, <1>21, <1>22, <1>23, <1>24, <1>25,
     <1>26, <1>27, <1>28, <1>29, <1>30, <1>31, <1>32, <1>33, <1>34, <1>35, <1>36, <1>37,
     <1>38, <1>39, <1>40, <1>41
     DEF Next, Request, CallerStep, RuntimeThread, DispatchThread, Finalizer, Terminated

-----------------------------------------------------------------------------
LEMMA IInvNext == IInv /\ [Next]_vars => IInv'
BY TypeInvNext, FinalizerInvNext, FreshInvNext, CountInvNext, TransitionInvNext DEF IInv

LEMMA IInvAlways == Spec => []IInv
BY IInvInit, IInvNext, PTL DEF Spec

(* The counter, the scheduler, the run commands and the invocation map     *)
(* agree about the admitted work.                                          *)
THEOREM HostCounts == Spec => []CountInv
<1>1. IInv => CountInv
  BY DEF IInv
<1> QED
  BY <1>1, IInvAlways, PTL

(* A stopped host has run every command, settled every invocation and      *)
(* delivered every event.                                                  *)
THEOREM HostStoppedIsQuiet == Spec => []StoppedIsQuiet
<1>1. IInv => StoppedIsQuiet
  <2> SUFFICES ASSUME IInv, state = "Stopped"
               PROVE  invs = {} /\ cmds = <<>> /\ events = <<>> /\ rpc = "exit" /\ dpc = "exit"
    BY DEF StoppedIsQuiet
  <2>1. cmds = <<>> /\ events = <<>> /\ rpc = "exit" /\ dpc = "exit"
    BY DEF IInv, FinalizerInv
  <2>2. TotalLength(sch) = 0
    BY <2>1, RunsEmpty DEF IInv, CountInv, OneRunPerInvocation
  <2>3. QueuedJobs(sch) = {}
    BY <2>2, EmptyQueuesNothing DEF IInv, TypeInv, TypeOK, TableType
  <2>4. cur = NoInvocation /\ cur \notin invs
    BY <2>1, IdAssumption, NoInvocationAssumption DEF IInv, TypeInv, TypeOK, TableType,
       ControlInv, Executing
  <2> QED
    BY <2>1, <2>3, <2>4 DEF IInv, CountInv, NothingForgotten
<1> QED
  BY <1>1, IInvAlways, PTL

(* No invocation is active while the model comes or goes, every one a      *)
(* draining host holds has been told to stop, and a stopped host is quiet. *)
THEOREM HostLifecycle == Spec => []LifecycleInv
<1>1. IInv => TransitionInv
  BY DEF IInv
<1> QED
  BY <1>1, IInvAlways, HostStoppedIsQuiet, PTL DEF LifecycleInv

-----------------------------------------------------------------------------
\* Stop reasons only rise, and only while the invocation is in the map.
LEMMA StopRises ==
  IInv /\ [Next]_vars =>
    \A i \in InvocationId :
       stop'[i] # stop[i] => /\ StopPriority(stop'[i]) > StopPriority(stop[i])
                             /\ i \in invs
<1> SUFFICES ASSUME IInv, [Next]_vars, NEW j \in InvocationId, stop'[j] # stop[j]
             PROVE  StopPriority(stop'[j]) > StopPriority(stop[j]) /\ j \in invs
  OBVIOUS
<1> DEFINE Rises == StopPriority(stop'[j]) > StopPriority(stop[j]) /\ j \in invs
<1>1. /\ stop \in [InvocationId -> StopReason]
      /\ rpc \in Executing => cur \in invs
      /\ cur \in invs => cur \in InvocationId
  BY DEF IInv, TypeInv, TypeOK, TableType, ControlInv
<1>2. \A r \in StopReason :
         Raise(stop[j], r) # stop[j] => StopPriority(Raise(stop[j], r)) > StopPriority(stop[j])
  BY <1>1, RaiseType
<1>3. {"Preempted", "Deadline", "UserCancel", "Shutdown"} \subseteq StopReason
  BY DEF StopReason
<1>4. ASSUME NEW m \in Model, NEW c \in RequestClass, NEW d \in RequestDeadline, Submit(m, c, d) PROVE Rises
  BY <1>1, <1>2, <1>3, <1>4 DEF Submit, Running, PreemptedBy
<1>5. ASSUME NEW i \in InvocationId, Cancel(i) PROVE Rises
  BY <1>1, <1>2, <1>3, <1>5 DEF Cancel, CancelId, Raise
<1>6. ASSUME NEW i \in InvocationId, Preempt(i) PROVE Rises
  BY <1>1, <1>2, <1>3, <1>6 DEF Preempt, CancelId, Raise
<1>7. CASE ShutdownReentrant
  BY <1>1, <1>2, <1>3, <1>7 DEF ShutdownReentrant, BeginShutdown
<1>8. ASSUME NEW c \in Caller, ShutdownCall(c) PROVE Rises
  BY <1>1, <1>2, <1>3, <1>8 DEF ShutdownCall, BeginShutdown
<1>9. CASE BeginExecute
  BY <1>1, <1>2, <1>3, <1>9 DEF BeginExecute, Executing
<1>10. CASE CheckDeadline
  BY <1>1, <1>2, <1>3, <1>10 DEF CheckDeadline, Executing
<1>11. CASE AdmitToModel
  BY <1>1, <1>2, <1>3, <1>11 DEF AdmitToModel, Executing
<1>12. CASE GenerateStopped
  BY <1>1, <1>2, <1>3, <1>12 DEF GenerateStopped, Executing
<1>13. CASE UNCHANGED stop
  BY <1>13
<1> QED
  BY <1>4, <1>5, <1>6, <1>7, <1>8, <1>9, <1>10, <1>11, <1>12, <1>13
     DEF Next, Request, CallerStep, RuntimeThread, DispatchThread, Finalizer, Terminated,
         SubmitRefused, UnloadCall, LoadCall, PushCommand, LoadReturn, UnloadReturn, ShutdownReturn,
         TakeCommand, RuntimeExit, RunScheduled, PublishStarted, CheckStop, GenerateDelta, GenerateReturns,
         Settle, PublishFinished, LoadModel, LoadCheck, LoadAbort, LoadCommit, UnloadModel,
         UnloadFails, UnloadCommit, FinalUnload, DispatchTake, DispatchDeliver, DispatchExit, FinalizerReadsModel,
         FinalizerClosesRuntime, FinalizerJoinsRuntime, FinalizerStops,
         CallReturns, vars

\* Stopped is final: nothing a late caller or thread does leaves it.
LEMMA StoppedStays == IInv /\ [Next]_vars => (state = "Stopped" => state' = "Stopped")
<1> SUFFICES ASSUME IInv, [Next]_vars, state = "Stopped" PROVE state' = "Stopped"
  OBVIOUS
<1>1. rpc = "exit"
  BY DEF IInv, FinalizerInv
<1> QED
  BY <1>1 DEF Next, Request, CallerStep, RuntimeThread, DispatchThread, Finalizer, Terminated,
         Submit, SubmitRefused, Cancel, Preempt, ShutdownReentrant, ShutdownCall, UnloadCall,
         LoadCall, PushCommand, LoadReturn, UnloadReturn, ShutdownReturn, TakeCommand, RuntimeExit,
         RunScheduled, BeginExecute, PublishStarted, CheckStop, CheckDeadline, AdmitToModel, GenerateDelta,
         GenerateStopped, GenerateReturns, Settle, PublishFinished, LoadModel, LoadCheck, LoadAbort,
         LoadCommit, UnloadModel, UnloadFails, UnloadCommit, FinalUnload, DispatchTake, DispatchDeliver,
         DispatchExit, FinalizerReadsModel, FinalizerClosesRuntime, FinalizerJoinsRuntime, FinalizerStops,
         CancelId, CallReturns, BeginShutdown, ResetLifecycle, vars, lifecycle

(* No step of any thread takes back a stop reason, or Stopped.             *)
THEOREM HostNeverBack == Spec => NeverBack
<1>1. IInv /\ [Next]_vars =>
        [/\ \A i \in InvocationId :
               stop'[i] # stop[i] => /\ StopPriority(stop'[i]) > StopPriority(stop[i])
                                     /\ i \in invs
         /\ state = "Stopped" => state' = "Stopped"]_vars
  BY StopRises, StoppedStays
<1> QED
  BY <1>1, IInvAlways, PTL DEF Spec, NeverBack

-----------------------------------------------------------------------------
(* The stream of events between the runtime thread and the observers.      *)

\* What the slots hold, whichever of them exist.
LEMMA SlotFacts ==
    ASSUME TypeOK
    PROVE  /\ Len(events) \in Nat
           /\ \A k \in 1..Len(events) : events[k] \in Event
           /\ \A k \in Slots : k \in Nat /\ Slot(k) \in Event
           /\ \A k \in Slots : k = 0 => dpc = "deliver"
           /\ \A k \in Slots : k # 0 => k \in 1..Len(events)
           /\ \A k \in 1..Len(events) : k \in Slots /\ Slot(k) = events[k]
           /\ \A k \in Slots : /\ Slot(k).seq \in Nat
                               /\ Slot(k).id \in InvocationId \cup {NoInvocation}
           /\ \A i \in InvocationId : /\ i \in Nat /\ seq[i] \in Nat
                                      /\ seen[i].seq \in Nat
                                      /\ seen[i].phase \in {"nothing", "started", "finished"}
<1>1. Len(events) \in Nat /\ \A k \in 1..Len(events) : events[k] \in Event
  BY DEF TypeOK, DispatchType
<1>2. \A k \in Slots : /\ k \in Nat
                       /\ k = 0 => dpc = "deliver"
                       /\ k # 0 => k \in 1..Len(events)
  BY <1>1 DEF Slots
<1>3. \A k \in 1..Len(events) : k \in Slots /\ Slot(k) = events[k]
  BY <1>1 DEF Slots, Slot
<1>4. \A k \in Slots : Slot(k) \in Event
  BY <1>1, <1>2 DEF Slot, TypeOK, DispatchType
<1>5. \A e \in Event : e.seq \in Nat /\ e.id \in InvocationId \cup {NoInvocation}
  BY DEF Event
<1>6. \A i \in InvocationId : i \in Nat /\ seq[i] \in Nat /\ seen[i] \in Seen
  BY IdAssumption DEF TypeOK, TableType, DispatchType
<1>7. \A s \in Seen : s.seq \in Nat /\ s.phase \in {"nothing", "started", "finished"}
  BY DEF Seen
<1> QED
  BY <1>1, <1>2, <1>3, <1>4, <1>5, <1>6, <1>7

\* A step that neither publishes nor delivers keeps the stream, when the
\* invocations whose Finished is under way are left alone.
LEMMA StreamFrame ==
    ASSUME TypeOK, StreamInv, UNCHANGED <<events, dpc, item, seen>>,
           nextId \in Nat, nextId' \in Nat, nextId <= nextId',
           \A i \in InvocationId :
              seq'[i] \in Nat /\ seq[i] <= seq'[i] /\ (seq'[i] > 1 => seq[i] > 1),
           \A i \in InvocationId :
              (i < nextId /\ i \notin invs \cup {cur}) => (i \notin invs' \cup {cur'} /\ stop'[i] = stop[i])
    PROVE  StreamInv'
<1>1. Slots' = Slots /\ \A k : Slot(k)' = Slot(k)
  BY DEF Slots, Slot
<1>2. \A k \in Slots : SlotOK(Slot(k))'
  <2> SUFFICES ASSUME NEW k \in Slots PROVE SlotOK(Slot(k))'
    OBVIOUS
  <2>1. PICK e \in Event : e = Slot(k) /\ e = Slot(k)'
    BY <1>1, SlotFacts
  <2>2. SlotOK(e) /\ e.seq \in Nat
    BY <2>1, SlotFacts DEF StreamInv
  <2>3. e.id \in InvocationId /\ e.id \in Nat /\ seq[e.id] \in Nat
    BY <2>2, SlotFacts DEF SlotOK
  <2>4. e.id < nextId' /\ e.seq < seq'[e.id]
    BY <2>2, <2>3 DEF SlotOK
  <2>5. e.kind = "finished" => e.id \notin invs' \cup {cur'} /\ stop'[e.id] = stop[e.id]
    BY <2>2, <2>3 DEF SlotOK
  <2>6. SlotOK(e)'
    BY <2>2, <2>3, <2>4, <2>5 DEF SlotOK, Outcomes
  <2> QED
    BY <2>1, <2>6 DEF SlotOK
<1>3. OrderOK'
  BY <1>1 DEF StreamInv, OrderOK
<1>4. StartedOK'
  BY <1>1 DEF StreamInv, StartedOK
<1> QED
  BY <1>1, <1>2, <1>3, <1>4 DEF StreamInv

\* Publishing the next event of the invocation in hand keeps the stream.
LEMMA StreamAppend ==
    ASSUME TypeOK, StreamInv, SeenOK, NEW e \in Event,
           events' = Append(events, e), seq' = [seq EXCEPT ![cur] = @ + 1],
           UNCHANGED <<dpc, item, seen, stop, nextId, invs>>,
           cur \in InvocationId, cur < nextId, e.id = cur, e.seq = seq[cur],
           e.kind = "started" => seq[cur] = 1,
           e.kind \in {"delta", "finished"} => seq[cur] > 1,
           e.kind \in {"started", "delta", "finished"},
           seen[cur].phase # "finished",
           IF e.kind = "finished"
              THEN cur' = NoInvocation /\ cur \notin invs /\ e.outcome \in Outcomes(cur)
              ELSE cur' = cur /\ e.outcome = "Pending"
    PROVE  StreamInv'
<1> USE IdAssumption, NoInvocationAssumption
<1>0. PICK n \in Nat : n = Len(events) + 1
  BY DEF TypeOK, DispatchType
<1>1. /\ n # 0 /\ Slots' = Slots \cup {n} /\ n \notin Slots
      /\ \A k \in Slots : Slot(k)' = Slot(k) /\ k < n /\ k \in Nat
      /\ Slot(n)' = e
  <2>1. Len(events) \in Nat /\ events \in Seq(Event) /\ n # 0
    BY <1>0 DEF TypeOK, DispatchType
  <2>2. /\ Len(events') = n /\ events'[n] = e
        /\ \A k \in 1..Len(events) : events'[k] = events[k]
    BY <1>0, <2>1
  <2>3. Slots' = Slots \cup {n} /\ n \notin Slots /\ \A k \in Slots : k < n /\ k \in Nat
    BY <1>0, <2>1, <2>2 DEF Slots
  <2>4. \A k \in Slots : Slot(k)' = Slot(k)
    BY <2>2, SlotFacts DEF Slot
  <2>5. Slot(n)' = e
    BY <2>1, <2>2 DEF Slot
  <2> QED
    BY <2>1, <2>3, <2>4, <2>5
<1>2. /\ \A i \in InvocationId : seq[i] \in Nat /\ seq'[i] \in Nat
      /\ \A i \in InvocationId : seq'[i] = IF i = cur THEN seq[i] + 1 ELSE seq[i]
      /\ seen[cur].seq \in Nat
  BY SlotFacts DEF TypeOK, TableType
<1>3. \A k \in Slots : /\ SlotOK(Slot(k)) /\ Slot(k).seq \in Nat
                       /\ Slot(k).id = cur => Slot(k).seq < e.seq /\ Slot(k).kind # "finished"
  BY SlotFacts DEF StreamInv, SlotOK
<1>4. \A k \in Slots' : SlotOK(Slot(k))'
  <2>1. ASSUME NEW k \in Slots PROVE SlotOK(Slot(k))'
    <3>1. PICK f \in Event : f = Slot(k) /\ f = Slot(k)'
      BY <1>1, SlotFacts
    <3>2. SlotOK(f) /\ f.seq \in Nat
      BY <1>3, <3>1
    <3>3. SlotOK(f)'
      BY <1>2, <3>2 DEF SlotOK, Outcomes
    <3> QED
      BY <3>1, <3>3 DEF SlotOK
  <2>2. SlotOK(e)'
    <3>1. e.id \in InvocationId /\ e.id < nextId' /\ e.seq < seq'[e.id] /\ seen'[e.id].seq < e.seq
      BY <1>2 DEF SeenOK
    <3> QED
      BY <3>1 DEF SlotOK, Outcomes
  <2>3. SlotOK(Slot(n))'
    BY <1>1, <2>2 DEF SlotOK
  <2> QED
    BY <1>1, <2>1, <2>3
<1>5. OrderOK'
  <2> SUFFICES ASSUME NEW j \in Slots', NEW k \in Slots', j < k, Slot(j)'.id = Slot(k)'.id
               PROVE  Slot(j)'.seq < Slot(k)'.seq /\ Slot(j)'.kind # "finished"
    BY DEF OrderOK
  <2>1. CASE k \in Slots
    <3>1. j \in Slots
      BY <1>1, <2>1
    <3> QED
      BY <1>1, <2>1, <3>1 DEF StreamInv, OrderOK
  <2>2. CASE k = n
    <3>1. j \in Slots
      BY <1>1, <2>2
    <3> QED
      BY <1>1, <1>3, <2>2, <3>1
  <2> QED
    BY <1>1, <2>1, <2>2
<1>6. StartedOK'
  <2> SUFFICES ASSUME NEW i \in InvocationId, seq'[i] > 1, seen[i].phase = "nothing"
               PROVE  \E k \in Slots' : Slot(k)'.id = i /\ Slot(k)'.kind = "started"
    BY DEF StartedOK
  <2>1. CASE seq[i] > 1
    BY <1>1, <2>1 DEF StreamInv, StartedOK
  <2>2. CASE ~(seq[i] > 1)
    <3>1. i = cur /\ e.kind = "started"
      BY <1>2, <2>2
    <3> QED
      BY <1>1, <3>1
  <2> QED
    BY <2>1, <2>2
<1>7. (dpc # "deliver" => item.id = NoInvocation)'
  BY DEF StreamInv
<1> QED
  BY <1>4, <1>5, <1>6, <1>7 DEF StreamInv

\* The dispatch thread takes the first event of the queue.
LEMMA StreamTake ==
    ASSUME TypeOK, StreamInv, DispatchTake
    PROVE  StreamInv'
<1>1. /\ Slots' \subseteq Nat /\ \A k \in Nat : k \in Slots' <=> k + 1 \in Slots
      /\ \A k \in Slots' : Slot(k)' = Slot(k + 1)
      /\ \A k \in Slots : k # 0
  <2>1. /\ events \in Seq(Event) /\ Len(events) \in Nat /\ Len(events) # 0
        /\ Len(events') = Len(events) - 1
        /\ \A k \in 1..Len(events') : events'[k] = events[k + 1]
        /\ item' = events[1] /\ dpc = "wait" /\ dpc' = "deliver"
    BY DEF TypeOK, DispatchType, DispatchTake
  <2>2. Slots = 1..Len(events) /\ Slots' = 0..(Len(events) - 1)
    BY <2>1 DEF Slots
  <2> QED
    BY <2>1, <2>2 DEF Slot
<1>2. UNCHANGED <<seq, seen, stop, nextId, invs, cur>>
  BY DEF DispatchTake, table, runtime
<1>3. \A k \in Slots' : SlotOK(Slot(k))'
  <2> SUFFICES ASSUME NEW k \in Slots' PROVE SlotOK(Slot(k))'
    OBVIOUS
  <2>1. PICK f \in Event : f = Slot(k + 1) /\ f = Slot(k)'
    BY <1>1, SlotFacts
  <2>2. SlotOK(f)
    BY <1>1, <2>1 DEF StreamInv
  <2> QED
    BY <1>2, <2>1, <2>2 DEF SlotOK, Outcomes
<1>4. OrderOK'
  <2> SUFFICES ASSUME NEW j \in Slots', NEW k \in Slots', j < k, Slot(j)'.id = Slot(k)'.id
               PROVE  Slot(j)'.seq < Slot(k)'.seq /\ Slot(j)'.kind # "finished"
    BY DEF OrderOK
  <2>1. j + 1 \in Slots /\ k + 1 \in Slots /\ j + 1 < k + 1
    BY <1>1
  <2> QED
    BY <1>1, <2>1 DEF StreamInv, OrderOK
<1>5. StartedOK'
  <2> SUFFICES ASSUME NEW i \in InvocationId, seq[i] > 1, seen[i].phase = "nothing"
               PROVE  \E k \in Slots' : Slot(k)'.id = i /\ Slot(k)'.kind = "started"
    BY <1>2 DEF StartedOK
  <2>1. PICK k \in Slots : Slot(k).id = i /\ Slot(k).kind = "started"
    BY DEF StreamInv, StartedOK
  <2>2. k \in Nat /\ k # 0
    BY <1>1, SlotFacts
  <2>3. PICK m \in Nat : m + 1 = k
    <3>1. k - 1 \in Nat /\ (k - 1) + 1 = k
      BY <2>2
    <3> QED
      BY <3>1
  <2>4. m \in Slots' /\ Slot(m)' = Slot(k)
    BY <1>1, <2>3
  <2> QED
    BY <2>1, <2>4
<1>6. dpc' = "deliver"
  BY DEF DispatchTake
<1> QED
  BY <1>3, <1>4, <1>5, <1>6 DEF StreamInv

\* The observer has been told the event in hand.
LEMMA StreamDeliver ==
    ASSUME TypeOK, StreamInv, DispatchDeliver
    PROVE  StreamInv'
<1>1. /\ 0 \in Slots /\ Slot(0) = item
      /\ \A k : k \in Slots' <=> k \in Slots /\ k # 0
      /\ \A k \in Slots' : Slot(k)' = Slot(k) /\ k \in Nat /\ 0 < k
  <2>1. Len(events) \in Nat /\ dpc = "deliver" /\ dpc' = "wait" /\ events' = events
    BY DEF TypeOK, DispatchType, DispatchDeliver, dispatchQ
  <2>2. Slots = 0..Len(events) /\ Slots' = 1..Len(events)
    BY <2>1 DEF Slots
  <2> QED
    BY <2>1, <2>2 DEF Slot
<1>2. UNCHANGED <<seq, stop, nextId, invs, cur>>
  BY DEF DispatchDeliver, table, runtime
<1>3. SlotOK(item) /\ item.id \in InvocationId
  BY <1>1 DEF StreamInv, SlotOK
<1>4. /\ \A i \in InvocationId : i # item.id => seen'[i] = seen[i]
      /\ seen'[item.id].seq = item.seq
      /\ seen'[item.id].phase = IF item.kind = "finished" THEN "finished" ELSE "started"
  BY <1>3 DEF DispatchDeliver, TypeOK, DispatchType
<1>5. \A k \in Slots' : SlotOK(Slot(k))'
  <2> SUFFICES ASSUME NEW k \in Slots' PROVE SlotOK(Slot(k))'
    OBVIOUS
  <2>1. PICK f \in Event : f = Slot(k) /\ f = Slot(k)'
    BY <1>1, SlotFacts
  <2>2. SlotOK(f) /\ f.id \in InvocationId
    BY <1>1, <2>1 DEF StreamInv, SlotOK
  <2>3. f.id = item.id => item.seq < f.seq /\ item.kind # "finished"
    BY <1>1, <2>1 DEF StreamInv, OrderOK
  <2>4. SlotOK(f)'
    BY <1>2, <1>4, <2>2, <2>3 DEF SlotOK, Outcomes
  <2> QED
    BY <2>1, <2>4 DEF SlotOK
<1>6. OrderOK'
  BY <1>1 DEF StreamInv, OrderOK
<1>7. StartedOK'
  <2> SUFFICES ASSUME NEW i \in InvocationId, seq[i] > 1, seen'[i].phase = "nothing"
               PROVE  \E k \in Slots' : Slot(k)'.id = i /\ Slot(k)'.kind = "started"
    BY <1>2 DEF StartedOK
  <2>1. i # item.id /\ seen[i].phase = "nothing"
    BY <1>4
  <2>2. PICK k \in Slots : Slot(k).id = i /\ Slot(k).kind = "started"
    BY <2>1 DEF StreamInv, StartedOK
  <2> QED
    BY <1>1, <2>1, <2>2
<1>8. item'.id = NoInvocation
  BY DEF DispatchDeliver, NoEvent
<1> QED
  BY <1>5, <1>6, <1>7, <1>8 DEF StreamInv

-----------------------------------------------------------------------------
(* How far the runtime thread is with the invocation in hand.              *)

\* A step that neither publishes, delivers nor moves the runtime thread keeps
\* the invariant: a stop reason is not raised once Settle has read it.
LEMMA PublisherFrame ==
    ASSUME IInv, PublisherInv, UNCHANGED <<seq, seen, rpc, cur, result>>,
           \A i \in InvocationId : stop'[i] # stop[i] => i \in invs,
           \/ UNCHANGED <<invs, nextId>>
           \/ nextId' = nextId + 1 /\ (invs' = invs \/ invs' = invs \cup {nextId})
    PROVE  PublisherInv'
<1>1. nextId \in InvocationId => seen[nextId].phase = "nothing"
  <2> SUFFICES ASSUME nextId \in InvocationId PROVE seen[nextId].phase = "nothing"
    OBVIOUS
  <2>1. seq[nextId] = 1 /\ seen[nextId].seq \in Nat /\ seen[nextId].seq < seq[nextId]
    BY HostFacts, SlotFacts DEF PublisherInv, SeenOK
  <2> QED
    BY <2>1 DEF PublisherInv, SeenOK
<1>2. SeenOK'
  <2> SUFFICES ASSUME NEW i \in InvocationId, seen[i].phase = "finished" PROVE i \notin invs' \cup {cur}
    BY DEF PublisherInv, SeenOK
  <2>1. i \notin invs \cup {cur}
    BY DEF PublisherInv, SeenOK
  <2>2. i # nextId
    BY <1>1
  <2> QED
    BY <2>1, <2>2
<1>3. \A i \in InvocationId : i >= nextId' \/ (i \in invs' /\ i # cur) => seq[i] = 1
  <2> SUFFICES ASSUME NEW i \in InvocationId, i >= nextId' \/ (i \in invs' /\ i # cur) PROVE seq[i] = 1
    OBVIOUS
  <2>1. i >= nextId \/ (i \in invs /\ i # cur)
    BY HostFacts
  <2> QED
    BY <2>1 DEF PublisherInv
<1>4. rpc = "finish" => result \in Outcomes(cur)'
  <2> SUFFICES ASSUME rpc = "finish" PROVE result \in Outcomes(cur)'
    OBVIOUS
  <2>1. stop'[cur] = stop[cur]
    BY HostFacts
  <2> QED
    BY <2>1 DEF PublisherInv, Outcomes
<1> QED
  BY <1>2, <1>3, <1>4 DEF PublisherInv

\* The runtime thread moves on with the invocation in hand.
LEMMA PublisherMoves ==
    ASSUME IInv, PublisherInv, UNCHANGED <<seq, seen, cur, invs, nextId>>,
           rpc \in {"begin", "start"} <=> rpc' \in {"begin", "start"},
           rpc' \in {"check", "deadline", "admit", "generate", "settle"}
              => rpc \in {"check", "deadline", "admit", "generate"},
           rpc' = "settle" => result' \in {"Completed", "Length", "Failed"},
           rpc' # "finish"
    PROVE  PublisherInv'
BY DEF PublisherInv, SeenOK

\* The runtime thread has nothing, or takes an invocation not yet begun.
LEMMA PublisherTakes ==
    ASSUME IInv, PublisherInv, UNCHANGED <<seq, seen, invs, nextId>>, rpc \notin Executing \cup {"finish"},
           \/ cur' = NoInvocation /\ rpc' \notin Executing \cup {"finish"}
           \/ cur' \in invs /\ rpc' = "begin"
    PROVE  PublisherInv'
<1>1. cur = NoInvocation /\ NoInvocation \notin InvocationId /\ invs \subseteq InvocationId
  BY HostFacts
<1>2. \A i \in invs : seq[i] = 1
  BY <1>1 DEF PublisherInv
<1>3. SeenOK'
  BY <1>1 DEF PublisherInv, SeenOK
<1> QED
  BY <1>1, <1>2, <1>3 DEF PublisherInv, Executing

\* The number of the invocation in hand goes up.
LEMMA PublisherCounts ==
    ASSUME IInv, PublisherInv, cur \in InvocationId, seq' = [seq EXCEPT ![cur] = @ + 1],
           UNCHANGED <<seen, invs, nextId>>,
           \/ UNCHANGED cur /\ rpc' \in {"check", "generate"}
           \/ cur' = NoInvocation /\ rpc' \notin Executing \cup {"finish"} /\ cur \notin invs
    PROVE  PublisherInv'
<1>1. /\ NoInvocation \notin InvocationId /\ cur < nextId /\ cur \in Nat /\ nextId \in Nat
      /\ \A i \in InvocationId : i # cur => seq'[i] = seq[i]
      /\ seq[cur] \in Nat /\ seq'[cur] = seq[cur] + 1 /\ seen[cur].seq \in Nat
      /\ seen[cur].seq < seq[cur]
  BY HostFacts, SlotFacts DEF TypeOK, TableType, PublisherInv, SeenOK
<1>2. SeenOK'
  BY <1>1 DEF PublisherInv, SeenOK
<1>3. \A i \in InvocationId : i >= nextId \/ (i \in invs /\ i # cur') => seq'[i] = 1
  BY <1>1 DEF PublisherInv
<1>4. seq'[cur] > 1
  BY <1>1
<1> QED
  BY <1>2, <1>3, <1>4 DEF PublisherInv, Executing

\* What is delivered lies between the last one told and the next one published.
LEMMA PublisherDelivers ==
    ASSUME IInv, PublisherInv, StreamInv, DispatchDeliver
    PROVE  PublisherInv'
<1>1. SlotOK(item) /\ item.id \in InvocationId
  BY HostFacts, SlotFacts DEF StreamInv, SlotOK, DispatchDeliver, Slots, Slot
<1>2. /\ \A i \in InvocationId : i # item.id => seen'[i] = seen[i]
      /\ seen'[item.id].seq = item.seq /\ seen'[item.id].outcome = item.outcome
      /\ seen'[item.id].phase = IF item.kind = "finished" THEN "finished" ELSE "started"
  BY <1>1, HostFacts DEF DispatchDeliver, TypeOK, DispatchType
<1>3. item.seq \in Nat /\ seen[item.id].seq \in Nat
  BY <1>1, HostFacts, SlotFacts DEF TypeOK, DispatchType, Event
<1>4. UNCHANGED <<seq, stop, invs, nextId, rpc, cur, result>>
  BY DEF DispatchDeliver, table, runtime
<1>5. SeenOK'
  <2> SUFFICES ASSUME NEW i \in InvocationId
               PROVE  /\ seen'[i].seq < seq[i]
                      /\ seen'[i].phase = "nothing" <=> seen'[i].seq = 0
                      /\ IF seen'[i].phase = "finished" THEN i \notin invs \cup {cur}
                                                        ELSE seen'[i].outcome = "Pending"
    BY <1>4 DEF SeenOK
  <2>1. CASE i = item.id
    BY <1>1, <1>2, <1>3, <2>1 DEF SlotOK
  <2>2. CASE i # item.id
    BY <1>2, <2>2 DEF PublisherInv, SeenOK
  <2> QED
    BY <2>1, <2>2
<1> QED
  BY <1>4, <1>5 DEF PublisherInv, Outcomes

-----------------------------------------------------------------------------
\* The invariant the refinement needs.
DeliveryInv == StreamInv /\ PublisherInv

LEMMA DeliveryInvInit == Init => DeliveryInv
<1> SUFFICES ASSUME Init PROVE DeliveryInv
  OBVIOUS
<1> USE IdAssumption DEF Init
<1>1. Slots = {}
  BY DEF Slots
<1>2. StreamInv
  BY <1>1 DEF StreamInv, OrderOK, StartedOK, NoEvent
<1>3. PublisherInv
  BY DEF PublisherInv, SeenOK
<1> QED
  BY <1>2, <1>3 DEF DeliveryInv

\* A step of any thread but the dispatch thread and the publishing steps.
LEMMA DeliveryFrame ==
    ASSUME IInv, IInv', DeliveryInv, [Next]_vars, PublisherInv',
           UNCHANGED <<events, dpc, item, seen>>,
           seq' = seq \/ (cur \in InvocationId /\ seq' = [seq EXCEPT ![cur] = @ + 1] /\ seq[cur] > 1),
           \/ UNCHANGED <<invs, nextId>>
           \/ nextId' = nextId + 1 /\ (invs' = invs \/ invs' = invs \cup {nextId})
           \/ nextId' = nextId /\ invs' \subseteq invs,
           cur' \in invs \cup {cur, NoInvocation}
    PROVE  StreamInv'
<1>1. \A i \in InvocationId : seq'[i] \in Nat /\ seq[i] <= seq'[i] /\ (seq'[i] > 1 => seq[i] > 1)
  BY HostFacts DEF TypeOK, TableType
<1>2. \A i \in InvocationId : stop'[i] # stop[i] => i \in invs
  BY StopRises
<1>3. \A i \in InvocationId :
         (i < nextId /\ i \notin invs \cup {cur}) => (i \notin invs' \cup {cur'} /\ stop'[i] = stop[i])
  BY <1>2, HostFacts
<1>4. nextId \in Nat /\ nextId' \in Nat /\ nextId <= nextId' /\ TypeOK
  BY HostFacts
<1> QED
  BY <1>1, <1>3, <1>4, StreamFrame DEF DeliveryInv

LEMMA DeliveryInvNext == IInv /\ DeliveryInv /\ [Next]_vars => DeliveryInv'
<1> SUFFICES ASSUME IInv, DeliveryInv, [Next]_vars PROVE DeliveryInv'
  OBVIOUS
<1> USE DEF vars, lifecycle, table, requests, runtimeQ, runtime, dispatchQ, dispatch, callers, finalizer
<1>a. IInv' /\ StreamInv /\ PublisherInv
  BY IInvNext DEF DeliveryInv
<1>b. \A i \in InvocationId : stop'[i] # stop[i] => i \in invs
  BY StopRises
<1>c. /\ TypeOK /\ SeenOK /\ NoInvocation \notin InvocationId /\ cmds \in Seq(Command)
      /\ rpc \in Executing => cur \in invs /\ cur \in InvocationId /\ cur < nextId
      /\ rpc = "finish" => cur \in InvocationId /\ cur < nextId /\ cur \notin invs /\ result \in FinishReason
  BY <1>a, HostFacts DEF PublisherInv, IInv, TypeInv, TypeOK, RuntimeType, ControlInv
\* Steps of the callers: the runtime thread stays where it is.
<1>1. ASSUME UNCHANGED <<events, dpc, item, seen, seq, rpc, cur, result>>,
             \/ UNCHANGED <<invs, nextId>>
             \/ nextId' = nextId + 1 /\ (invs' = invs \/ invs' = invs \cup {nextId})
      PROVE  DeliveryInv'
  <2>1. PublisherInv'
    BY <1>1, <1>a, <1>b, PublisherFrame
  <2>2. StreamInv'
    BY <1>1, <1>a, <2>1, DeliveryFrame
  <2> QED
    BY <2>1, <2>2 DEF DeliveryInv
<1>2. CASE Request
  BY <1>1, <1>2 DEF Request, Submit, SubmitRefused, Cancel, Preempt, CancelId, ShutdownReentrant,
                    ShutdownCall, UnloadCall, LoadCall
<1>3. ASSUME NEW c \in Caller, CallerStep(c) PROVE DeliveryInv'
  BY <1>1, <1>3 DEF CallerStep, PushCommand, LoadReturn, UnloadReturn, ShutdownReturn, CallReturns
<1>4. CASE Finalizer
  BY <1>1, <1>4 DEF Finalizer, FinalizerReadsModel, FinalizerClosesRuntime,
     FinalizerJoinsRuntime, FinalizerStops
<1>5. CASE UNCHANGED vars
  BY <1>1, <1>5
\* Steps of the runtime thread without an invocation in hand.
<1>6. ASSUME UNCHANGED <<events, dpc, item, seen, seq, invs, nextId>>, rpc \notin Executing \cup {"finish"},
             \/ cur' = NoInvocation /\ rpc' \notin Executing \cup {"finish"}
             \/ cur' \in invs /\ rpc' = "begin"
      PROVE  DeliveryInv'
  <2>1. PublisherInv'
    BY <1>6, <1>a, PublisherTakes
  <2>2. StreamInv'
    BY <1>6, <1>a, <2>1, DeliveryFrame
  <2> QED
    BY <2>1, <2>2 DEF DeliveryInv
<1>7. CASE TakeCommand
  <2>1. Head(cmds) \in Command
    BY <1>7, TakeFirst DEF TakeCommand, IInv, TypeInv, TypeOK, RuntimeType, ControlInv
  <2>2. rpc' \notin Executing \cup {"finish"}
    BY <1>7, <2>1 DEF TakeCommand, Command, Executing
  <2>3. cur = NoInvocation
    BY <1>7, HostFacts DEF TakeCommand, Executing
  <2> QED
    BY <1>6, <1>7, <2>2, <2>3 DEF TakeCommand, Executing
<1>8. CASE RunScheduled
  BY <1>6, <1>8, HostFacts DEF RunScheduled, RuntimeIdle, Executing
<1>9. CASE RuntimeExit \/ LoadModel \/ LoadCheck \/ LoadAbort \/ LoadCommit
             \/ UnloadModel \/ UnloadFails \/ UnloadCommit \/ FinalUnload
  BY <1>6, <1>9, HostFacts
     DEF RuntimeExit, LoadModel, LoadCheck, LoadAbort, LoadCommit, UnloadModel, UnloadFails,
         UnloadCommit, FinalUnload, RuntimeIdle, Executing
\* Steps of the runtime thread that move on with the invocation in hand.
<1>10. ASSUME UNCHANGED <<events, dpc, item, seen, seq, invs, nextId, cur>>,
              rpc \in {"begin", "start"} <=> rpc' \in {"begin", "start"},
              rpc' \in {"check", "deadline", "admit", "generate", "settle"}
                 => rpc \in {"check", "deadline", "admit", "generate"},
              rpc' = "settle" => result' \in {"Completed", "Length", "Failed"},
              rpc' # "finish"
       PROVE  DeliveryInv'
  <2>1. PublisherInv'
    BY <1>10, <1>a, PublisherMoves
  <2>2. StreamInv'
    BY <1>10, <1>a, <2>1, DeliveryFrame
  <2> QED
    BY <2>1, <2>2 DEF DeliveryInv
<1>11. CASE BeginExecute \/ CheckStop \/ CheckDeadline \/ AdmitToModel \/ GenerateStopped \/ GenerateReturns
  BY <1>10, <1>11 DEF BeginExecute, CheckStop, CheckDeadline, AdmitToModel, GenerateStopped,
                      GenerateReturns, RuntimeGoto, SettleWith
<1>12. CASE Settle
  <2>1. UNCHANGED <<seq, seen, cur, nextId, stop, events, dpc, item>> /\ invs' = invs \ {cur}
        /\ rpc = "settle" /\ rpc' = "finish"
        /\ result' = IF stop[cur] # "None" THEN MapStopReason(stop[cur]) ELSE result
    BY <1>12 DEF Settle
  <2>2. result' \in Outcomes(cur)'
    BY <1>a, <2>1 DEF PublisherInv, Outcomes
  <2>3. PublisherInv'
    BY <1>a, <2>1, <2>2 DEF PublisherInv, SeenOK
  <2>4. StreamInv'
    BY <1>a, <2>1, <2>3, DeliveryFrame
  <2> QED
    BY <2>3, <2>4 DEF DeliveryInv
\* Steps of the runtime thread that publish.
<1>13. CASE PublishStarted
  <2>1. /\ rpc = "start" /\ rpc' = "check" /\ cur' = cur /\ UNCHANGED <<dpc, item, seen, stop, nextId, invs>>
        /\ events' = Append(events, Started(cur)) /\ seq' = [seq EXCEPT ![cur] = @ + 1]
    BY <1>13 DEF PublishStarted, Publish, RuntimeGoto
  <2>2. cur \in invs /\ cur \in InvocationId /\ cur < nextId /\ seq[cur] = 1 /\ seen[cur].phase # "finished"
    BY <1>a, <1>c, <2>1 DEF Executing, PublisherInv, SeenOK
  <2>3. Started(cur) \in Event
    BY <1>c, <2>2, EventTypes DEF TypeOK, TableType
  <2>4. StreamInv'
    BY <1>a, <1>c, <2>1, <2>2, <2>3, StreamAppend DEF Started
  <2>5. PublisherInv'
    BY <1>a, <2>1, <2>2, PublisherCounts
  <2> QED
    BY <2>4, <2>5 DEF DeliveryInv
<1>14. CASE GenerateDelta
  <2>1. /\ rpc = "generate" /\ rpc' = "generate" /\ cur' = cur /\ UNCHANGED <<dpc, item, seen, stop, nextId, invs>>
        /\ events' = Append(events, Delta(cur)) \/ events' = events
        /\ seq' = [seq EXCEPT ![cur] = @ + 1]
    BY <1>14 DEF GenerateDelta, Publish, RuntimeGoto
  <2>2. cur \in invs /\ cur \in InvocationId /\ cur < nextId /\ seq[cur] > 1 /\ seen[cur].phase # "finished"
    BY <1>a, <1>c, <2>1 DEF Executing, PublisherInv, SeenOK
  <2>3. Delta(cur) \in Event
    BY <1>c, <2>2, EventTypes DEF TypeOK, TableType
  <2>4. PublisherInv'
    BY <1>a, <2>1, <2>2, PublisherCounts
  <2>5. CASE events' = events
    <3>1. StreamInv'
      BY <1>a, <2>1, <2>2, <2>4, <2>5, DeliveryFrame
    <3> QED
      BY <2>4, <3>1 DEF DeliveryInv
  <2>6. CASE events' = Append(events, Delta(cur))
    <3>1. StreamInv'
      BY <1>a, <1>c, <2>1, <2>2, <2>3, <2>6, StreamAppend DEF Delta
    <3> QED
      BY <2>4, <3>1 DEF DeliveryInv
  <2> QED
    BY <2>1, <2>5, <2>6
<1>15. CASE PublishFinished
  <2>1. /\ rpc = "finish" /\ rpc' = "idle" /\ cur' = NoInvocation /\ UNCHANGED <<dpc, item, seen, stop, nextId, invs>>
        /\ events' = Append(events, Finished(cur, result)) /\ seq' = [seq EXCEPT ![cur] = @ + 1]
    BY <1>15 DEF PublishFinished, Publish, RuntimeIdle
  <2>2. /\ cur \notin invs /\ cur \in InvocationId /\ cur < nextId /\ seq[cur] > 1 /\ seen[cur].phase # "finished"
        /\ result \in FinishReason /\ result \in Outcomes(cur)
    BY <1>a, <1>c, <2>1 DEF PublisherInv, SeenOK
  <2>3. Finished(cur, result) \in Event
    BY <1>c, <2>2, EventTypes DEF TypeOK, TableType
  <2>4. StreamInv'
    BY <1>a, <1>c, <2>1, <2>2, <2>3, StreamAppend DEF Finished
  <2>5. PublisherInv'
    BY <1>a, <2>1, <2>2, PublisherCounts DEF Executing
  <2> QED
    BY <2>4, <2>5 DEF DeliveryInv
\* The dispatch thread.
<1>16. CASE DispatchTake
  <2>1. StreamInv'
    BY <1>16, <1>a, <1>c, StreamTake
  <2>2. PublisherInv'
    BY <1>16, <1>a, <1>b, PublisherFrame DEF DispatchTake
  <2> QED
    BY <2>1, <2>2 DEF DeliveryInv
<1>17. CASE DispatchDeliver
  <2>1. StreamInv'
    BY <1>17, <1>a, <1>c, StreamDeliver
  <2>2. PublisherInv'
    BY <1>17, <1>a, PublisherDelivers
  <2> QED
    BY <2>1, <2>2 DEF DeliveryInv
<1>18. CASE DispatchExit
  <2>1. PublisherInv'
    BY <1>18, <1>a, <1>b, PublisherFrame DEF DispatchExit
  <2>2. Slots' = Slots /\ \A k : Slot(k)' = Slot(k)
    BY <1>18 DEF DispatchExit, Slots, Slot
  <2>3. StreamInv'
    BY <1>18, <1>a, <2>2 DEF DispatchExit, StreamInv, OrderOK, StartedOK, SlotOK, Outcomes
  <2> QED
    BY <2>1, <2>3 DEF DeliveryInv
<1> QED
  BY <1>2, <1>3, <1>4, <1>5, <1>7, <1>8, <1>9, <1>11, <1>12, <1>13, <1>14, <1>15, <1>16, <1>17, <1>18
     DEF Next, RuntimeThread, DispatchThread, Terminated

LEMMA DeliveryAlways == Spec => []DeliveryInv
BY DeliveryInvInit, DeliveryInvNext, IInvAlways, PTL DEF Spec

-----------------------------------------------------------------------------
(* The refinement.                                                         *)

\* Which invocations the host still holds a trace of, by the slots.
LEMMA TracesAre ==
    ASSUME TypeOK, StreamInv
    PROVE  \A i \in InvocationId :
              i \in Traces <=> i \in invs \/ i = cur \/ \E k \in Slots : Slot(k).id = i
<1> SUFFICES ASSUME NEW i \in InvocationId
             PROVE  i \in Traces <=> i \in invs \/ i = cur \/ \E k \in Slots : Slot(k).id = i
  OBVIOUS
<1>1. i \in Traces <=> i \in invs \/ i = cur \/ i = item.id \/ \E k \in 1..Len(events) : events[k].id = i
  BY DEF Traces
<1>2. i = item.id => dpc = "deliver"
  BY IdAssumption, NoInvocationAssumption DEF StreamInv
<1>3. dpc = "deliver" => 0 \in Slots /\ Slot(0) = item
  BY SlotFacts DEF Slots, Slot
<1>4. \A k \in Slots : Slot(k) = item \/ (k \in 1..Len(events) /\ Slot(k) = events[k])
  BY SlotFacts DEF Slot
<1>5. \A k \in 1..Len(events) : k \in Slots /\ Slot(k) = events[k]
  BY SlotFacts
<1> QED
  BY <1>1, <1>2, <1>3, <1>4, <1>5

LEMMA ContractInit == Init => Contract!Init
<1> SUFFICES ASSUME Init PROVE Contract!Init
  OBVIOUS
<1>1. \A i \in InvocationId : PhaseOf(i) = "unborn"
  <2> SUFFICES ASSUME NEW i \in InvocationId PROVE PhaseOf(i) = "unborn"
    OBVIOUS
  <2>1. {events[k].id : k \in 1..Len(events)} = {}
    BY DEF Init
  <2>2. i # NoInvocation /\ item.id = NoInvocation /\ cur = NoInvocation /\ invs = {}
    BY IdAssumption, NoInvocationAssumption DEF Init, NoEvent
  <2>3. i \notin Traces /\ seen[i].phase = "nothing"
    BY <2>1, <2>2 DEF Traces, Init
  <2> QED
    BY <2>3 DEF PhaseOf
<1>2. \A i \in InvocationId : seen[i].seq = 0 /\ seen[i].outcome = "Pending"
  BY DEF Init
<1> QED
  BY <1>1, <1>2 DEF Init, Contract!Init

\* Whatever a step does to the stop reasons is a request the contract allows.
LEMMA AskAllowed ==
    ASSUME IInv, IInv', DeliveryInv, [Next]_vars
    PROVE  Contract!Ask
<1>1. ASSUME NEW i \in InvocationId, stop'[i] # stop[i]
      PROVE  PhaseOf(i) \in {"admitted", "started"} /\ StopPriority(stop'[i]) > StopPriority(stop[i])
  <2>1. i \in invs /\ StopPriority(stop'[i]) > StopPriority(stop[i])
    BY <1>1, StopRises
  <2>2. seen[i].phase \in {"nothing", "started"}
    BY <2>1, HostFacts, SlotFacts DEF DeliveryInv, PublisherInv, SeenOK
  <2>3. i \in Traces
    BY <2>1 DEF Traces
  <2> QED
    BY <2>1, <2>2, <2>3 DEF PhaseOf
<1>2. DOMAIN stop' = InvocationId
  BY DEF IInv, TypeInv, TypeOK, TableType
<1> QED
  BY <1>1, <1>2 DEF Contract!Ask

\* A step that tells no observer anything, and neither admits an invocation nor
\* loses the trace of one, is a request to stop or a stutter.
LEMMA SilentStep ==
    ASSUME IInv, IInv', DeliveryInv, [Next]_vars, UNCHANGED seen,
           \A i \in InvocationId : i \in Traces' <=> i \in Traces
    PROVE  Contract!Next
<1>1. \A i \in InvocationId : PhaseOf(i)' = PhaseOf(i)
  BY DEF PhaseOf
<1> QED
  BY <1>1, AskAllowed DEF Contract!Next

LEMMA AdmitStep ==
    ASSUME IInv, IInv', DeliveryInv, NEW m \in Model, NEW c \in RequestClass, NEW d \in RequestDeadline,
           Submit(m, c, d)
    PROVE  Contract!Next
<1>1. nextId \in InvocationId /\ UNCHANGED <<seen, cur, item, events>> /\ invs' = invs \cup {nextId}
  BY DEF Submit, runtime, dispatch, dispatchQ
<1>2. Traces' = Traces \cup {nextId}
  BY <1>1 DEF Traces
<1>3. seen[nextId].phase = "nothing"
  <2>1. seen[nextId].seq < 1 /\ seen[nextId].seq \in Nat
    BY <1>1, HostFacts, SlotFacts DEF DeliveryInv, PublisherInv, SeenOK
  <2> QED
    BY <1>1, <2>1 DEF DeliveryInv, PublisherInv, SeenOK
<1>4. nextId \notin Traces
  <2>1. \A k \in Slots : Slot(k).id # nextId
    BY HostFacts, SlotFacts DEF DeliveryInv, StreamInv, SlotOK
  <2> QED
    BY <1>1, <2>1, TracesAre, HostFacts DEF DeliveryInv
<1>5. \A i \in InvocationId : PhaseOf(i)' = IF i = nextId THEN "admitted" ELSE PhaseOf(i)
  BY <1>1, <1>2, <1>3 DEF PhaseOf
<1>6. PhaseOf(nextId) = "unborn"
  BY <1>3, <1>4 DEF PhaseOf
<1>7. Contract!Admit(nextId)
  BY <1>1, <1>5, <1>6 DEF Contract!Admit
<1>8. Contract!Ask
  <2>1. [Next]_vars
    BY DEF Next, Request
  <2> QED
    BY <2>1, AskAllowed
<1> QED
  BY <1>1, <1>7, <1>8 DEF Contract!Next

\* What the dispatch thread delivers next is what the contract expects next.
LEMMA DeliverStep ==
    ASSUME IInv, DeliveryInv, DispatchDeliver
    PROVE  Contract!Next
<1>0. SlotOK(item) /\ item.id \in InvocationId
  <2>1. 0 \in Slots /\ Slot(0) = item
    BY HostFacts, SlotFacts DEF DispatchDeliver, Slots, Slot
  <2> QED
    BY <2>1 DEF DeliveryInv, StreamInv, SlotOK
<1> PICK i \in InvocationId : i = item.id
  BY <1>0
<1>1. /\ SlotOK(item) /\ i \in InvocationId /\ i = item.id
      /\ item.seq \in Nat /\ seen[i].seq \in Nat /\ seq[i] \in Nat /\ stop[i] \in StopReason
  <2>1. 0 \in Slots /\ Slot(0) = item
    BY HostFacts, SlotFacts DEF DispatchDeliver, Slots, Slot
  <2> QED
    BY <1>0, <2>1, HostFacts, SlotFacts DEF TypeOK, TableType
<1>2. /\ \A j \in InvocationId : j # i => seen'[j] = seen[j]
      /\ seen'[i].seq = item.seq /\ seen'[i].outcome = item.outcome
      /\ seen'[i].phase = IF item.kind = "finished" THEN "finished" ELSE "started"
  BY <1>1, HostFacts DEF DispatchDeliver, TypeOK, DispatchType
<1>3. PhaseOf(i) = IF item.kind = "started" THEN "admitted" ELSE "started"
  <2>1. i \in Traces
    BY DEF Traces
  <2>2. CASE item.kind = "started"
    <3>1. seen[i].phase = "nothing"
      BY <1>1, <2>2 DEF SlotOK, DeliveryInv, PublisherInv, SeenOK
    <3> QED
      BY <2>1, <2>2, <3>1 DEF PhaseOf
  <2>3. CASE item.kind # "started"
    <3>1. seq[i] > 1
      BY <1>1 DEF SlotOK
    <3>2. \A k \in Slots : ~(Slot(k).id = i /\ Slot(k).kind = "started")
      <4> SUFFICES ASSUME NEW k \in Slots, Slot(k).id = i, Slot(k).kind = "started" PROVE FALSE
        OBVIOUS
      <4>1. k # 0 /\ 0 < k /\ 0 \in Slots /\ Slot(0) = item
        BY <2>3, HostFacts, SlotFacts DEF DispatchDeliver, Slots, Slot
      <4>2. item.seq < 1
        BY <4>1 DEF DeliveryInv, StreamInv, OrderOK, SlotOK
      <4> QED
        BY <1>1, <4>2 DEF SlotOK
    <3>3. seen[i].phase \notin {"nothing", "finished"}
      BY <1>1, <3>1, <3>2 DEF SlotOK, DeliveryInv, StreamInv, StartedOK
    <3>4. seen[i].phase = "started"
      BY <1>1, <3>3, HostFacts, SlotFacts
    <3> QED
      BY <2>3, <3>4 DEF PhaseOf
  <2> QED
    BY <2>2, <2>3
<1>4. \A j \in InvocationId :
         PhaseOf(j)' = IF j = i THEN IF item.kind = "finished" THEN "finished" ELSE "started"
                                ELSE PhaseOf(j)
  <2>1. UNCHANGED <<events, invs, cur>> /\ item'.id = NoInvocation
    BY DEF DispatchDeliver, NoEvent, dispatchQ, table, runtime
  <2>2. \A j \in InvocationId : j # i => (j \in Traces' <=> j \in Traces)
    BY <2>1, HostFacts DEF Traces
  <2> QED
    BY <1>2, <2>2 DEF PhaseOf
<1>5. stop' = stop /\ seen[i].seq < item.seq
  BY <1>1 DEF DispatchDeliver, SlotOK
<1>6. \A j \in InvocationId : seen'[j].seq = IF j = i THEN item.seq ELSE seen[j].seq
  BY <1>2
<1>7. CASE item.kind = "finished"
  <2>1. item.outcome \in Outcomes(i)
    BY <1>1, <1>7 DEF SlotOK
  <2>2. /\ item.outcome \in {"Completed", "Length", "Failed", "Cancelled", "Deadline", "Preempted"}
        /\ IF stop[i] = "None" THEN item.outcome \in {"Completed", "Length", "Failed"}
                               ELSE item.outcome = MapStopReason(stop[i])
    BY <1>1, <2>1 DEF Outcomes, MapStopReason, StopReason
  <2>3. \A j \in InvocationId : seen'[j].outcome = IF j = i THEN item.outcome ELSE seen[j].outcome
    BY <1>2
  <2>4. Contract!Finish(i)
    BY <1>1, <1>3, <1>4, <1>5, <1>6, <1>7, <2>2, <2>3 DEF Contract!Finish, Contract!Advance
  <2> QED
    BY <1>1, <1>5, <2>4 DEF Contract!Next, Contract!Deliver
<1>8. CASE item.kind # "finished"
  <2>1. \A j \in InvocationId : seen'[j].outcome = seen[j].outcome
    BY <1>1, <1>2, <1>8 DEF SlotOK, DeliveryInv, PublisherInv, SeenOK
  <2>2. CASE item.kind = "started"
    <3>1. item.seq = 1
      BY <1>1, <2>2 DEF SlotOK
    <3>2. Contract!Start(i)
      BY <1>1, <1>3, <1>4, <1>6, <2>1, <2>2, <3>1 DEF Contract!Start
    <3> QED
      BY <1>1, <1>5, <3>2 DEF Contract!Next, Contract!Deliver
  <2>3. CASE item.kind # "started"
    <3>1. \A j \in InvocationId : PhaseOf(j)' = PhaseOf(j)
      BY <1>3, <1>4, <1>8, <2>3
    <3>2. Contract!Delta(i)
      BY <1>1, <1>3, <1>5, <1>6, <2>1, <2>3, <3>1 DEF Contract!Delta, Contract!Advance
    <3> QED
      BY <1>1, <1>5, <3>2 DEF Contract!Next, Contract!Deliver
  <2> QED
    BY <2>2, <2>3
<1> QED
  BY <1>7, <1>8

\* The ids of the events of a queue, as it grows and as its head is taken.
LEMMA AppendIds ==
    ASSUME NEW q \in Seq(Event), NEW e \in Event
    PROVE  {Append(q, e)[k].id : k \in 1..Len(Append(q, e))} = {q[k].id : k \in 1..Len(q)} \cup {e.id}
<1>1. Len(q) \in Nat /\ Len(Append(q, e)) = Len(q) + 1
      /\ \A k \in 1..(Len(q) + 1) : Append(q, e)[k] = IF k \in 1..Len(q) THEN q[k] ELSE e
  OBVIOUS
<1>2. 1..(Len(q) + 1) = 1..Len(q) \cup {Len(q) + 1} /\ Len(q) + 1 \notin 1..Len(q)
  BY <1>1
<1> QED
  BY <1>1, <1>2

LEMMA TailIds ==
    ASSUME NEW q \in Seq(Event), q # <<>>
    PROVE  {q[k].id : k \in 1..Len(q)} = {Tail(q)[k].id : k \in 1..Len(Tail(q))} \cup {Head(q).id}
<1>1. Len(q) \in Nat /\ Len(q) # 0 /\ Len(Tail(q)) = Len(q) - 1 /\ Head(q) = q[1]
      /\ \A k \in 1..Len(Tail(q)) : Tail(q)[k] = q[k + 1]
  OBVIOUS
<1>2. ASSUME NEW k \in 1..Len(q), k # 1 PROVE q[k].id \in {Tail(q)[j].id : j \in 1..Len(Tail(q))}
  <2>1. k - 1 \in 1..Len(Tail(q)) /\ (k - 1) + 1 = k
    BY <1>1, <1>2
  <2>2. Tail(q)[k - 1] = q[k]
    BY <1>1, <2>1
  <2> QED
    BY <2>1, <2>2
<1>3. \A k \in 1..Len(Tail(q)) : k + 1 \in 1..Len(q) /\ Tail(q)[k].id = q[k + 1].id
  BY <1>1
<1>4. 1 \in 1..Len(q) /\ Head(q).id = q[1].id
  BY <1>1
<1>5. {q[k].id : k \in 1..Len(q)} \subseteq {Tail(q)[k].id : k \in 1..Len(Tail(q))} \cup {Head(q).id}
  BY <1>2, <1>4
<1>6. {Tail(q)[k].id : k \in 1..Len(Tail(q))} \subseteq {q[k].id : k \in 1..Len(q)}
  <2> SUFFICES ASSUME NEW k \in 1..Len(Tail(q)) PROVE Tail(q)[k].id \in {q[j].id : j \in 1..Len(q)}
    OBVIOUS
  <2>1. k + 1 \in 1..Len(q) /\ Tail(q)[k].id = q[k + 1].id
    BY <1>3
  <2> QED
    BY <2>1
<1> QED
  BY <1>4, <1>5, <1>6

LEMMA ContractNext ==
    IInv /\ DeliveryInv /\ [Next]_vars => [Contract!Next]_(Contract!vars)
<1> SUFFICES ASSUME IInv, DeliveryInv, [Next]_vars PROVE Contract!Next
  OBVIOUS
<1> USE DEF vars, lifecycle, table, requests, runtimeQ, runtime, dispatchQ, dispatch, callers, finalizer
<1>a. IInv' /\ events \in Seq(Event)
  BY IInvNext, HostFacts DEF TypeOK, DispatchType
<1>b. /\ NoInvocation \notin InvocationId
      /\ rpc \notin Executing \cup {"finish"} => cur = NoInvocation
  BY HostFacts
<1>1. ASSUME UNCHANGED <<seen, invs, cur, item, events>> PROVE Contract!Next
  <2>1. Traces' = Traces
    BY <1>1 DEF Traces
  <2> QED
    BY <1>1, <1>a, <2>1, SilentStep
<1>2. ASSUME NEW m \in Model, NEW c \in RequestClass, NEW d \in RequestDeadline, Submit(m, c, d)
      PROVE  Contract!Next
  BY <1>2, <1>a, AdmitStep
<1>3. CASE /\ Request
           /\ ~ \E m \in Model, c \in RequestClass, d \in RequestDeadline : Submit(m, c, d)
  BY <1>1, <1>3 DEF Request, SubmitRefused, Cancel, Preempt, CancelId, ShutdownReentrant,
                    ShutdownCall, UnloadCall, LoadCall
<1>4. ASSUME NEW c \in Caller, CallerStep(c) PROVE Contract!Next
  BY <1>1, <1>4 DEF CallerStep, PushCommand, LoadReturn, UnloadReturn, ShutdownReturn, CallReturns
<1>5. CASE Finalizer \/ DispatchExit \/ UNCHANGED vars
  BY <1>1, <1>5 DEF Finalizer, FinalizerReadsModel, FinalizerClosesRuntime, FinalizerJoinsRuntime,
                    FinalizerStops, DispatchExit
<1>6. CASE TakeCommand \/ RuntimeExit \/ BeginExecute \/ CheckStop \/ CheckDeadline \/ AdmitToModel
             \/ GenerateStopped \/ GenerateReturns \/ LoadModel \/ LoadCheck \/ UnloadModel
  BY <1>1, <1>6 DEF TakeCommand, RuntimeExit, BeginExecute, CheckStop, CheckDeadline, AdmitToModel,
                    GenerateStopped, GenerateReturns, LoadModel, LoadCheck, UnloadModel,
                    RuntimeGoto, SettleWith
<1>7. CASE LoadAbort \/ LoadCommit \/ UnloadFails \/ UnloadCommit \/ FinalUnload
  <2>1. cur' = cur
    BY <1>7, <1>b DEF LoadAbort, LoadCommit, UnloadFails, UnloadCommit, FinalUnload,
       RuntimeIdle, Executing
  <2> QED
    BY <1>1, <1>7, <2>1 DEF LoadAbort, LoadCommit, UnloadFails, UnloadCommit, FinalUnload
<1>8. CASE RunScheduled
  <2>1. UNCHANGED <<seen, invs, item, events>> /\ cur = NoInvocation /\ cur' \in invs \cup {NoInvocation}
    BY <1>8, <1>b DEF RunScheduled, RuntimeIdle, Executing
  <2>2. \A i \in InvocationId : i \in Traces' <=> i \in Traces
    BY <1>b, <2>1 DEF Traces
  <2> QED
    BY <1>a, <2>1, <2>2, SilentStep
<1>9. CASE Settle
  <2>1. UNCHANGED <<seen, cur, item, events>> /\ invs' = invs \ {cur}
    BY <1>9 DEF Settle
  <2>2. Traces' = Traces
    BY <2>1 DEF Traces
  <2> QED
    BY <1>a, <2>1, <2>2, SilentStep
<1>10. ASSUME NEW e \in Event, e.id = cur, events' = Append(events, e),
              UNCHANGED <<seen, invs, item>>, cur' \in {cur, NoInvocation}
       PROVE  Contract!Next
  <2>1. {events'[k].id : k \in 1..Len(events')} = {events[k].id : k \in 1..Len(events)} \cup {cur}
    BY <1>10, <1>a, AppendIds
  <2>2. \A i \in InvocationId : i \in Traces' <=> i \in Traces
    BY <1>10, <1>b, <2>1 DEF Traces
  <2> QED
    BY <1>10, <1>a, <2>2, SilentStep
<1>11. CASE PublishStarted \/ GenerateDelta \/ PublishFinished
  <2>1. cur \in InvocationId /\ seq \in [InvocationId -> Nat] /\ (rpc = "finish" => result \in FinishReason)
    BY <1>11, HostFacts
       DEF PublishStarted, GenerateDelta, PublishFinished, Executing, IInv, TypeInv, TypeOK,
          TableType, ControlInv
  <2>2. CASE PublishStarted
    BY <1>10, <2>1, <2>2, EventTypes DEF PublishStarted, Publish, RuntimeGoto, Started
  <2>3. CASE GenerateDelta
    BY <1>1, <1>10, <2>1, <2>3, EventTypes DEF GenerateDelta, Publish, RuntimeGoto, Delta
  <2>4. CASE PublishFinished
    BY <1>10, <2>1, <2>4, EventTypes DEF PublishFinished, Publish, RuntimeIdle, Finished
  <2> QED
    BY <1>11, <2>2, <2>3, <2>4
<1>12. CASE DispatchTake
  <2>1. item.id = NoInvocation /\ UNCHANGED <<seen, invs, cur>> /\ item' = Head(events)
        /\ events' = Tail(events) /\ events # <<>>
    BY <1>12 DEF DispatchTake, DeliveryInv, StreamInv
  <2>2. {events[k].id : k \in 1..Len(events)} = {events'[k].id : k \in 1..Len(events')} \cup {item'.id}
    BY <1>a, <2>1, TailIds
  <2>3. \A i \in InvocationId : i \in Traces' <=> i \in Traces
    BY <1>b, <2>1, <2>2 DEF Traces
  <2> QED
    BY <1>a, <2>1, <2>3, SilentStep
<1>13. CASE DispatchDeliver
  BY <1>13, DeliverStep
<1> QED
  BY <1>2, <1>3, <1>4, <1>5, <1>6, <1>7, <1>8, <1>9, <1>11, <1>12, <1>13
     DEF Next, RuntimeThread, DispatchThread, Terminated

(* The host implements its contract with the observers: whatever its       *)
(* threads do, each step of theirs is one the contract allows.             *)
THEOREM HostImplementsContract == Spec => HostKeepsContract
<1>1. Spec => [](IInv /\ DeliveryInv)
  BY IInvAlways, DeliveryAlways, PTL
<1> QED
  BY ContractInit, ContractNext, <1>1, PTL DEF Spec, HostKeepsContract, Contract!Spec

-----------------------------------------------------------------------------
(* Ready means loaded.  The service that owns the host calls load() and    *)
(* unload() from its one worker thread, so at most one command changes the *)
(* model at a time: it is being pushed, waits in the queue, or is in the   *)
(* runtime thread's hand, and the lifecycle says which of the two it is.   *)
(* With two callers the theorem is false: two loads may be queued, because *)
(* a load that has failed takes a later load's Loading back.               *)

\* The steps of a load and of an unload that the runtime thread has taken.
LoadStep   == {"load", "loadCheck", "loadAbort", "loadCommit"}
UnloadStep == {"unload", "unloadCommit"}
Changing   == LoadStep \cup UnloadStep

\* A call in progress shows in the lifecycle; without one the lifecycle rests.
CallInv(c) ==
    /\ cpc[c] # "stopping"
    /\ IF cpc[c] \in {"push", "wait"}
          THEN /\ call[c].by = c
               /\ \/ call[c].kind = "load" /\ state = "Loading"
                  \/ call[c].kind = "unload" /\ state = "Unloading"
          ELSE state \in {"Ready", "Unloaded"}

\* The command of the call is in one place.
CommandInv(c) ==
    /\ \A k \in 1..Len(cmds) :
          cmds[k].kind # "run" => cpc[c] = "wait" /\ cmds[k] = call[c] /\ rpc \notin Changing
    /\ \A j, k \in 1..Len(cmds) : cmds[j].kind # "run" /\ cmds[k].kind # "run" => j = k
    /\ rpc \in Changing => cpc[c] = "wait" /\ cmd = call[c]
    /\ rpc \in LoadStep => cmd.kind = "load"
    /\ rpc \in UnloadStep => cmd.kind = "unload"
    /\ rpc # "final"

\* What the runtime holds, until the unload that takes it away.
HeldInv ==
    /\ state = "Ready" => loaded = model
    /\ state = "Unloading" /\ rpc # "unloadCommit" => loaded = model
    /\ rpc \in {"loadCheck", "loadCommit"} => loaded = cmd.model

OneCall(c) == fpc = "none" => CallInv(c) /\ CommandInv(c) /\ HeldInv

(* Nothing is called and nothing is queued at the start.                   *)
LEMMA OneCallInit ==
    ASSUME NEW c \in Caller, Init
    PROVE  OneCall(c)
BY DEF Init, OneCall, CallInv, CommandInv, HeldInv, LoadStep, UnloadStep, Changing

(* The finalizer, once started, is never gone.                             *)
LEMMA FinalizerStarts == ASSUME [Next]_vars PROVE fpc' = "none" => fpc = "none"
<1> USE DEF vars, finalizer
<1>1. CASE Request
  BY <1>1 DEF Request, Submit, SubmitRefused, Cancel, Preempt, CancelId, ShutdownReentrant,
              ShutdownCall, UnloadCall, LoadCall, EnsureFinalizer
<1>2. ASSUME NEW c \in Caller, CallerStep(c) PROVE fpc' = "none" => fpc = "none"
  BY <1>2 DEF CallerStep, PushCommand, LoadReturn, UnloadReturn, ShutdownReturn, CallReturns
<1>3. CASE Finalizer
  BY <1>3 DEF Finalizer, FinalizerReadsModel, FinalizerClosesRuntime, FinalizerJoinsRuntime,
              FinalizerStops
<1>4. CASE DispatchThread
  BY <1>4 DEF DispatchThread, DispatchTake, DispatchDeliver, DispatchExit
<1>5. CASE RuntimeThread
  BY <1>5 DEF RuntimeThread, TakeCommand, RuntimeExit, RunScheduled, BeginExecute, PublishStarted,
              CheckStop, CheckDeadline, AdmitToModel, GenerateDelta, GenerateStopped,
              GenerateReturns, Settle, PublishFinished, LoadModel, LoadCheck, LoadAbort,
              LoadCommit, UnloadModel, UnloadFails, UnloadCommit, FinalUnload
<1> QED
  BY <1>1, <1>2, <1>3, <1>4, <1>5 DEF Next, Terminated

(* A step that touches neither the lifecycle, nor a call, nor the queue of *)
(* commands, and moves the runtime thread only outside a load or unload.   *)
LEMMA OneCallFrame ==
    ASSUME NEW c \in Caller, OneCall(c), fpc = "none",
           UNCHANGED <<state, model, cpc, call, loaded, cmds>>,
           \/ UNCHANGED <<rpc, cmd>>
           \/ rpc \notin Changing /\ rpc' \notin Changing \cup {"final"}
    PROVE  OneCall(c)'
BY DEF OneCall, CallInv, CommandInv, HeldInv, LoadStep, UnloadStep, Changing

(* A run command is pushed: it is nobody's call.                           *)
LEMMA OneCallRun ==
    ASSUME NEW c \in Caller, OneCall(c), fpc = "none", cmds \in Seq(Command),
           cmds' = Append(cmds, RunScheduledCmd),
           UNCHANGED <<state, model, cpc, call, loaded, rpc, cmd>>
    PROVE  OneCall(c)'
<1>1. \A k \in 1..Len(cmds') : cmds'[k].kind # "run" => k \in 1..Len(cmds) /\ cmds'[k] = cmds[k]
  BY DEF RunScheduledCmd
<1> QED
  BY <1>1 DEF OneCall, CallInv, CommandInv, HeldInv

(* The runtime thread answers the one caller: the call is over, whatever   *)
(* the lifecycle has come to rest in.                                      *)
LEMMA OneCallAnswered ==
    ASSUME NEW c \in Caller, OneCall(c), fpc = "none", CallerType, rpc \in Changing,
           NEW r, Complete(r), RuntimeIdle, UNCHANGED <<cmds, loaded>>,
           state' \in {"Ready", "Unloaded"}, state' = "Ready" => loaded = model'
    PROVE  OneCall(c)'
<1>1. cpc[c] = "wait" /\ cmd.by = c
  BY DEF OneCall, CallInv, CommandInv
<1>2. cpc'[c] = "post"
  BY <1>1 DEF Complete, CallerType
<1>3. \A k \in 1..Len(cmds') : cmds'[k].kind = "run"
  BY DEF OneCall, CommandInv
<1> QED
  BY <1>2, <1>3 DEF OneCall, CallInv, CommandInv, HeldInv, RuntimeIdle, LoadStep, UnloadStep, Changing

(* Every step of a host with one caller keeps the call in one place.       *)
LEMMA OneCallNext ==
    ASSUME NEW c, Caller = {c}, IInv, OneCall(c), [Next]_vars
    PROVE  OneCall(c)'
<1> SUFFICES ASSUME fpc' = "none" PROVE OneCall(c)'
  BY DEF OneCall
<1>0. /\ fpc = "none" /\ c \in Caller /\ \A d \in Caller : d = c
      /\ ~closed /\ cmds \in Seq(Command) /\ CallerType
      /\ \A k \in 1..Len(cmds) : cmds[k].kind # "none"
      /\ CallInv(c) /\ CommandInv(c) /\ HeldInv
  <2>1. fpc = "none"
    BY FinalizerStarts
  <2> QED
    BY <2>1 DEF IInv, FinalizerInv, TypeInv, TypeOK, RuntimeType, ControlInv, OneCall
<1> USE DEF vars, lifecycle, table, requests, runtimeQ, runtime, dispatchQ, dispatch, callers, finalizer
<1>1. ASSUME UNCHANGED <<state, model, cpc, call, loaded, cmds>>,
             \/ UNCHANGED <<rpc, cmd>>
             \/ rpc \notin Changing /\ rpc' \notin Changing \cup {"final"}
      PROVE  OneCall(c)'
  BY <1>0, <1>1, OneCallFrame
<1>2. CASE Request
  <2>1. ASSUME NEW m \in Model, NEW w \in RequestClass, NEW d \in RequestDeadline, Submit(m, w, d)
        PROVE  OneCall(c)'
    BY <1>0, <2>1, OneCallRun DEF Submit
  <2>2. ASSUME NEW m \in Model, SubmitRefused(m) PROVE OneCall(c)'
    BY <1>1, <2>2 DEF SubmitRefused
  <2>3. ASSUME NEW i \in InvocationId, Cancel(i) \/ Preempt(i) PROVE OneCall(c)'
    BY <1>1, <2>3 DEF Cancel, Preempt, CancelId
  <2>4. ~ShutdownReentrant /\ \A d \in Caller : ~ShutdownCall(d)
    BY DEF ShutdownReentrant, ShutdownCall, EnsureFinalizer
  <2>5. CASE UnloadCall(c)
    <3>1. /\ cpc'[c] = "push" /\ call'[c] = UnloadCmd(c) /\ state = "Ready" /\ state' = "Unloading"
          /\ cpc[c] = "idle" /\ UNCHANGED <<model, loaded, cmds, rpc, cmd>>
      BY <1>0, <2>5 DEF UnloadCall, CallerType
    <3> QED
      BY <1>0, <3>1 DEF OneCall, CallInv, CommandInv, HeldInv, UnloadCmd
  <2>6. ASSUME NEW m \in Model, LoadCall(c, m) PROVE OneCall(c)'
    <3>1. /\ cpc'[c] = "push" /\ call'[c] = LoadCmd(c, m) /\ state = "Unloaded" /\ state' = "Loading"
          /\ cpc[c] = "idle" /\ UNCHANGED <<model, loaded, cmds, rpc, cmd>>
      BY <1>0, <2>6 DEF LoadCall, CallerType
    <3> QED
      BY <1>0, <3>1 DEF OneCall, CallInv, CommandInv, HeldInv, LoadCmd
  <2> QED
    BY <1>0, <1>2, <2>1, <2>2, <2>3, <2>4, <2>5, <2>6 DEF Request
<1>3. CASE PushCommand(c)
  <2>1. /\ cmds' = Append(cmds, call[c]) /\ cpc'[c] = "wait" /\ cpc[c] = "push"
        /\ UNCHANGED <<call, state, model, loaded, rpc, cmd>>
    BY <1>0, <1>3 DEF PushCommand, CallerType
  <2>2. call[c] \in Command
    BY <1>0 DEF CallerType
  <2>3. \A k \in 1..Len(cmds) : cmds[k].kind = "run"
    BY <1>0, <2>1 DEF CommandInv
  <2>4. \A k \in 1..Len(cmds') :
           cmds'[k].kind # "run" => k = Len(cmds) + 1 /\ cmds'[k] = call[c]
    BY <1>0, <2>1, <2>2, <2>3
  <2>5. rpc \notin Changing
    BY <1>0, <2>1 DEF CommandInv
  <2> QED
    BY <1>0, <2>1, <2>4, <2>5 DEF OneCall, CallInv, CommandInv, HeldInv, Changing
<1>4. CASE LoadReturn(c) \/ UnloadReturn(c)
  <2>1. /\ cpc[c] = "post" /\ cpc'[c] = "idle" /\ state \in {"Ready", "Unloaded"}
        /\ UNCHANGED <<model, loaded, cmds, rpc, cmd>>
        /\ state' = state
    BY <1>0, <1>4 DEF LoadReturn, UnloadReturn, CallReturns, CallerType, CallInv
  <2> QED
    BY <1>0, <2>1 DEF OneCall, CallInv, CommandInv, HeldInv
<1>5. CASE ShutdownReturn(c)
  BY <1>0, <1>5 DEF ShutdownReturn
<1>6. CASE DispatchThread
  BY <1>1, <1>6 DEF DispatchThread, DispatchTake, DispatchDeliver, DispatchExit
<1>7. CASE Finalizer
  BY <1>0, <1>7 DEF Finalizer, FinalizerReadsModel, FinalizerClosesRuntime, FinalizerJoinsRuntime,
                    FinalizerStops
<1>8. CASE TakeCommand
  <2>1. /\ rpc = "idle" /\ cmds # <<>> /\ cmd' = Head(cmds) /\ cmds' = Tail(cmds)
        /\ rpc' = Head(cmds).kind /\ UNCHANGED <<state, model, loaded, cpc, call>>
    BY <1>8 DEF TakeCommand
  <2>2. /\ Len(cmds) \in Nat /\ 1 \in 1..Len(cmds) /\ Head(cmds) = cmds[1]
        /\ \A k \in 1..Len(cmds') : k + 1 \in 1..Len(cmds) /\ cmds'[k] = cmds[k + 1] /\ k + 1 # 1
    BY <1>0, <2>1
  <2>3. CASE cmds[1].kind = "run"
    <3>1. rpc' = "run"
      BY <2>1, <2>2, <2>3
    <3>2. \A k \in 1..Len(cmds') :
             cmds'[k].kind # "run" => cpc[c] = "wait" /\ cmds'[k] = call[c]
      BY <1>0, <2>2 DEF CommandInv
    <3>3. \A j, k \in 1..Len(cmds') : cmds'[j].kind # "run" /\ cmds'[k].kind # "run" => j = k
      <4> SUFFICES ASSUME NEW j \in 1..Len(cmds'), NEW k \in 1..Len(cmds'),
                          cmds'[j].kind # "run", cmds'[k].kind # "run"
                   PROVE  j = k
        OBVIOUS
      <4>1. j + 1 = k + 1
        BY <1>0, <2>2 DEF CommandInv
      <4> QED
        BY <2>1, <4>1
    <3> QED
      BY <1>0, <2>1, <3>1, <3>2, <3>3
         DEF OneCall, CallInv, CommandInv, HeldInv, LoadStep, UnloadStep, Changing
  <2>4. CASE cmds[1].kind # "run"
    <3>1. cpc[c] = "wait" /\ cmds[1] = call[c] /\ cmd' = call[c]
      BY <1>0, <2>1, <2>2, <2>4 DEF CommandInv
    <3>2. rpc' = call[c].kind /\ rpc' \in {"load", "unload"}
      BY <1>0, <2>1, <2>2, <3>1 DEF CallInv
    <3>3. \A k \in 1..Len(cmds') : cmds'[k].kind = "run"
      BY <1>0, <2>2, <2>4 DEF CommandInv
    <3> QED
      BY <1>0, <2>1, <3>1, <3>2, <3>3
         DEF OneCall, CallInv, CommandInv, HeldInv, LoadStep, UnloadStep, Changing
  <2> QED
    BY <2>3, <2>4
<1>9. CASE RuntimeExit \/ FinalUnload
  BY <1>0, <1>9 DEF RuntimeExit, FinalUnload, CommandInv
<1>10. CASE \/ RunScheduled \/ BeginExecute \/ PublishStarted \/ CheckStop \/ CheckDeadline
            \/ AdmitToModel \/ GenerateDelta \/ GenerateStopped \/ GenerateReturns \/ Settle
            \/ PublishFinished
  <2>1. rpc \notin Changing /\ rpc' \notin Changing \cup {"final"}
    BY <1>10 DEF RunScheduled, BeginExecute, PublishStarted, CheckStop, CheckDeadline,
       AdmitToModel, GenerateDelta, GenerateStopped, GenerateReturns, Settle, PublishFinished,
       RuntimeGoto, RuntimeIdle, SettleWith, LoadStep, UnloadStep, Changing
  <2>2. UNCHANGED <<state, model, cpc, call, loaded, cmds>>
    BY <1>10 DEF RunScheduled, BeginExecute, PublishStarted, CheckStop, CheckDeadline,
       AdmitToModel, GenerateDelta, GenerateStopped, GenerateReturns, Settle, PublishFinished,
       RuntimeGoto, RuntimeIdle, SettleWith, Publish
  <2> QED
    BY <1>1, <2>1, <2>2
<1>11. CASE LoadModel
  <2>1. /\ rpc = "load" /\ UNCHANGED <<state, model, cpc, call, cmds, cmd>>
        /\ \/ rpc' = "loadCheck" /\ loaded' = cmd.model
           \/ rpc' = "loadAbort" /\ loaded' = loaded
    BY <1>11 DEF LoadModel
  <2>2. state = "Loading"
    BY <1>0, <2>1 DEF CallInv, CommandInv, LoadStep, Changing
  <2> QED
    BY <1>0, <2>1, <2>2 DEF OneCall, CallInv, CommandInv, HeldInv, LoadStep, UnloadStep, Changing
<1>12. CASE LoadCheck
  <2>1. /\ rpc = "loadCheck" /\ UNCHANGED <<state, model, cpc, call, cmds, cmd, loaded>>
        /\ rpc' \in {"loadAbort", "loadCommit"}
    BY <1>12 DEF LoadCheck
  <2>2. state = "Loading"
    BY <1>0, <2>1 DEF CallInv, CommandInv, LoadStep, Changing
  <2> QED
    BY <1>0, <2>1, <2>2 DEF OneCall, CallInv, CommandInv, HeldInv, LoadStep, UnloadStep, Changing
<1>13. CASE LoadAbort
  <2>1. rpc = "loadAbort" /\ state = "Loading"
    BY <1>0, <1>13 DEF LoadAbort, CallInv, CommandInv, LoadStep, Changing
  <2>2. rpc \in Changing /\ state' = "Unloaded"
    BY <1>13, <2>1 DEF LoadAbort, ResetLifecycle, LoadStep, Changing
  <2> QED
    BY <1>0, <1>13, <2>2, OneCallAnswered DEF LoadAbort
<1>14. CASE LoadCommit
  <2>1. rpc \in Changing /\ state' = "Ready" /\ model' = cmd.model /\ loaded = cmd.model
    BY <1>0, <1>14 DEF LoadCommit, HeldInv, LoadStep, Changing
  <2> QED
    BY <1>0, <1>14, <2>1, OneCallAnswered DEF LoadCommit
<1>15. CASE UnloadModel
  <2>1. /\ rpc = "unload" /\ rpc' = "unloadCommit"
        /\ UNCHANGED <<state, model, cpc, call, cmds, cmd>>
    BY <1>15 DEF UnloadModel
  <2>2. state = "Unloading"
    BY <1>0, <2>1 DEF CallInv, CommandInv, UnloadStep, Changing
  <2> QED
    BY <1>0, <2>1, <2>2 DEF OneCall, CallInv, CommandInv, HeldInv, LoadStep, UnloadStep, Changing
<1>16. CASE UnloadFails
  <2>1. rpc = "unload" /\ state = "Unloading"
    BY <1>0, <1>16 DEF UnloadFails, CallInv, CommandInv, UnloadStep, Changing
  <2>2. rpc \in Changing /\ state' = "Ready" /\ loaded = model /\ UNCHANGED <<model, loaded, cmds>>
    BY <1>0, <1>16, <2>1 DEF UnloadFails, HeldInv, UnloadStep, Changing
  <2> QED
    BY <1>0, <1>16, <2>2, OneCallAnswered DEF UnloadFails
<1>17. CASE UnloadCommit
  <2>1. rpc = "unloadCommit" /\ state = "Unloading"
    BY <1>0, <1>17 DEF UnloadCommit, CallInv, CommandInv, UnloadStep, Changing
  <2>2. rpc \in Changing /\ state' = "Unloaded" /\ Complete("ok") /\ RuntimeIdle /\ UNCHANGED <<cmds, loaded>>
    BY <1>17, <2>1 DEF UnloadCommit, ResetLifecycle, UnloadStep, Changing
  <2> QED
    BY <1>0, <2>2, OneCallAnswered
<1>18. CASE UNCHANGED vars
  BY <1>1, <1>18
<1> QED
  BY <1>0, <1>2, <1>3, <1>4, <1>5, <1>6, <1>7, <1>8, <1>9, <1>10, <1>11, <1>12, <1>13, <1>14,
     <1>15, <1>16, <1>17, <1>18 DEF Next, CallerStep, RuntimeThread, Terminated

(* A host that one thread loads and unloads says Ready only of a model it  *)
(* holds, for any number of models, invocations and cancelling threads.    *)
THEOREM HostReadyIsLoaded ==
    ASSUME NEW c, Caller = {c}
    PROVE  Spec => []ReadyModelIsLoaded
<1>1. Init => OneCall(c)
  BY OneCallInit
<1>2. IInv /\ OneCall(c) /\ [Next]_vars => OneCall(c)'
  BY OneCallNext
<1>3. OneCall(c) => ReadyModelIsLoaded
  BY DEF OneCall, HeldInv, ReadyModelIsLoaded
<1> QED
  BY IInvAlways, <1>1, <1>2, <1>3, PTL DEF Spec

-----------------------------------------------------------------------------
(* The admission queue on its own: the specification SchedulerFairness, of *)
(* the queue of the host and its history variable.                         *)

(* The queue changes by a push, by a pop, or not at all.                   *)
LEMMA QueueSteps ==
    /\ QueueInit => sch = EmptyScheduler /\ waited = [c \in WorkClass |-> 0]
    /\ \A c, j : Push(c, j) => sch' = Pushed(sch, c, j) /\ waited' = waited
    /\ Pop => sch.size # 0 /\ sch' = Popped(sch) /\ waited' = Counted
    /\ [QueueNext]_queueVars =>
          \/ \E c \in WorkClass, j \in InvocationId : Push(c, j)
          \/ Pop
          \/ sch' = sch /\ waited' = waited
BY DEF QueueInit, Push, Pop, QueueNext, queueVars

(* Types of the queue and its history, and the counter.                    *)
QueueInv ==
    /\ sch \in Scheduler
    /\ waited \in [WorkClass -> 0..WaitedLimit]
    /\ sch.size = TotalLength(sch)

(* Each pop that passes over a waiting batch job also advances the counter *)
(* pop() consults.                                                         *)
PassedOver == waited[Batch] <= sch.since

(* The cursor comes closer with every interactive pop that passes class k  *)
(* over, so the pops still to come and those counted stay below three plus *)
(* one batch pop; and once that batch pop is counted, too few interactive  *)
(* pops are left before class k for a second batch job to fall due.        *)
Distance(k) == (k - sch.next + 3) % 3

RoundTrip == \A k \in 0..2 :
    /\ waited[Interactive(k)] + Distance(k) <= 3
    /\ waited[Interactive(k)] + Distance(k) = 3 => sch.since + Distance(k) <= 2

(* It holds of the empty queue.                                            *)
LEMMA QueueInvInit == QueueInit => QueueInv
<1> SUFFICES ASSUME QueueInit PROVE QueueInv
  OBVIOUS
<1>1. \A c \in WorkClass : EmptyScheduler.queues[c] = <<>>
  BY DEF EmptyScheduler
<1>2. EmptyScheduler \in Scheduler
  BY DEF EmptyScheduler, Scheduler, MaxBypass
<1>3. TotalLength(EmptyScheduler) = 0
  <2>1. \A c \in WorkClass : Length(EmptyScheduler, c) = 0
    BY <1>1 DEF Length
  <2> QED
    BY <2>1 DEF TotalLength, WorkClass
<1> QED
  BY <1>2, <1>3, QueueSteps DEF QueueInv, EmptyScheduler, WaitedLimit

(* It survives every push and every pop.                                   *)
LEMMA QueueInvNext == QueueInv /\ [QueueNext]_queueVars => QueueInv'
<1> SUFFICES ASSUME QueueInv, [QueueNext]_queueVars PROVE QueueInv'
  OBVIOUS
<1> USE DEF QueueInv
<1>1. ASSUME NEW c \in WorkClass, NEW j \in InvocationId, Push(c, j) PROVE QueueInv'
  BY <1>1, QueueSteps, PushedScheduler
<1>2. CASE Pop
  <2>1. sch' \in Scheduler /\ sch'.size = TotalLength(sch')
    BY <1>2, QueueSteps, PoppedScheduler
  <2>2. waited' \in [WorkClass -> 0..WaitedLimit]
    BY <1>2, QueueSteps DEF Counted, WaitedLimit
  <2> QED
    BY <2>1, <2>2
<1>3. CASE sch' = sch /\ waited' = waited
  BY <1>3
<1> QED
  BY <1>1, <1>2, <1>3, QueueSteps

(* The counter that guards push() and pop() is the number of queued jobs   *)
(* (SizeIsTotal), for any capacity and any sequence of arrivals.           *)
THEOREM SchedulerTypeAndSize == QueueSpec => [](QueueTypeOK /\ SizeIsTotal)
<1>1. QueueInv => QueueTypeOK /\ SizeIsTotal
  BY DEF QueueInv, QueueTypeOK, SizeIsTotal
<1> QED
  BY QueueInvInit, QueueInvNext, <1>1, PTL DEF QueueSpec

(* A pop that passes a waiting batch job over advances both counters.      *)
LEMMA PassedOverNext == QueueInv /\ PassedOver /\ [QueueNext]_queueVars => PassedOver'
<1> SUFFICES ASSUME QueueInv, PassedOver, [QueueNext]_queueVars PROVE PassedOver'
  OBVIOUS
<1>1. QueueInv'
  BY QueueInvNext
<1>2. Batch \in WorkClass /\ sch \in Scheduler /\ waited \in [WorkClass -> 0..WaitedLimit]
  BY DEF QueueInv, WorkClass
<1>3. sch.since \in 0..MaxBypass
  BY <1>2 DEF Scheduler
<1>4. ASSUME NEW c \in WorkClass, NEW j \in InvocationId, Push(c, j)
      PROVE waited'[Batch] <= sch'.since
  BY <1>4, QueueSteps DEF Pushed, PassedOver
<1>5. ASSUME Pop PROVE waited'[Batch] <= sch'.since
  <2>1. CASE ServesBatch(sch)
    <3>1. waited'[Batch] = 0 /\ sch'.since = 0
      BY <1>2, <1>5, <2>1, QueueSteps DEF Counted, Popped, PopClass
    <3> QED
      BY <3>1
  <2>2. CASE ~ServesBatch(sch)
    <3>1. ~Waiting(sch, Batch) \/ ~(sch.since >= MaxBypass)
      BY <2>2 DEF ServesBatch, BatchDue
    <3>2. sch'.since = IF sch.since < MaxBypass THEN sch.since + 1 ELSE MaxBypass
      BY <1>5, <2>2, QueueSteps DEF Counted, Popped
    <3>3. \/ waited'[Batch] = 0
          \/ /\ Waiting(sch, Batch)
             /\ waited'[Batch] = IF waited[Batch] < WaitedLimit THEN waited[Batch] + 1 ELSE WaitedLimit
      BY <1>2, <1>5, QueueSteps DEF Counted
    <3>4. waited[Batch] \in Nat /\ waited[Batch] <= sch.since
      BY <1>2 DEF PassedOver, WaitedLimit
    <3> QED
      BY <1>3, <3>1, <3>2, <3>3, <3>4 DEF MaxBypass, WaitedLimit
  <2> QED
    BY <2>1, <2>2
<1>6. ASSUME sch' = sch /\ waited' = waited PROVE waited'[Batch] <= sch'.since
  BY <1>6 DEF PassedOver
<1>7. waited'[Batch] <= sch'.since
  BY <1>4, <1>5, <1>6, QueueSteps DEF PassedOver
<1> QED
  BY <1>1, <1>7 DEF PassedOver, QueueInv

(* A waiting batch job is passed over by at most three pops, whatever the  *)
(* interactive classes submit in the meantime.                             *)
THEOREM BatchNeverStarved == QueueSpec => []BatchBypassBounded
<1>1. QueueInit => QueueInv /\ PassedOver
  <2>1. QueueInit => waited[Batch] = 0 /\ sch.since = 0
    BY QueueSteps DEF EmptyScheduler, WorkClass
  <2> QED
    BY <2>1, QueueInvInit DEF PassedOver, QueueInv
<1>2. QueueInv /\ PassedOver /\ [QueueNext]_queueVars => (QueueInv /\ PassedOver)'
  BY QueueInvNext, PassedOverNext
<1>3. QueueInv /\ PassedOver => BatchBypassBounded
  <2> SUFFICES ASSUME QueueInv /\ PassedOver PROVE BatchBypassBounded
    OBVIOUS
  <2>1. waited[Batch] \in Nat /\ sch.since \in 0..MaxBypass /\ waited[Batch] <= sch.since
    BY DEF PassedOver, QueueInv, Scheduler, WorkClass, WaitedLimit
  <2> QED
    BY <2>1 DEF BatchBypassBounded, MaxBypass
<1> QED
  BY <1>1, <1>2, <1>3, PTL DEF QueueSpec

(* An interactive pop that passes a waiting class over moves the cursor    *)
(* towards it.                                                             *)
LEMMA CursorComesCloser ==
    ASSUME NEW s \in Scheduler, NEW k \in 0..2, Waiting(s, Interactive(k)),
           WaitingOffsets(s) # {}, Candidate(s) # k
    PROVE  (k - ((Candidate(s) + 1) % 3) + 3) % 3 < (k - s.next + 3) % 3
<1> DEFINE W == WaitingOffsets(s)
           o == CHOOSE x \in W : \A p \in W : x <= p
           d == (k - s.next + 3) % 3
<1>1. s.next \in 0..2 /\ W \subseteq 0..2
  BY DEF Scheduler, WaitingOffsets
<1>2. d \in 0..2 /\ (s.next + d) % 3 = k
  BY <1>1
<1>3. d \in W
  BY <1>2 DEF WaitingOffsets
<1>4. \E x \in W : \A p \in W : x <= p
  <2> HIDE DEF W
  <2>1. CASE 0 \in W
    BY <1>1, <2>1
  <2>2. CASE 0 \notin W /\ 1 \in W
    BY <1>1, <2>2
  <2>3. CASE W = {2}
    BY <2>3
  <2> QED
    BY <1>1, <1>3, <2>1, <2>2, <2>3
<1>5. o \in W /\ \A p \in W : o <= p
  BY <1>4
<1>6. o \in 0..2 /\ o <= d
  BY <1>1, <1>3, <1>5
<1>7. Candidate(s) = (s.next + o) % 3
  BY DEF Candidate
<1>8. o # d
  BY <1>2, <1>7
<1> HIDE DEF o
<1> QED
  BY <1>1, <1>6, <1>7, <1>8

(* Each step takes class k closer to its turn, or counts against it a turn *)
(* that was still to come.                                                 *)
LEMMA RoundTripNext == QueueInv /\ RoundTrip /\ [QueueNext]_queueVars => RoundTrip'
<1> SUFFICES ASSUME QueueInv, RoundTrip, [QueueNext]_queueVars, NEW k \in 0..2
             PROVE  /\ waited'[Interactive(k)] + Distance(k)' <= 3
                    /\ waited'[Interactive(k)] + Distance(k)' = 3 => sch'.since + Distance(k)' <= 2
  BY DEF RoundTrip
<1> DEFINE c == Interactive(k)
           w == waited[c]
<1>1. /\ sch \in Scheduler /\ sch.next \in 0..2 /\ sch.since \in 0..MaxBypass
      /\ waited \in [WorkClass -> 0..WaitedLimit] /\ c \in WorkClass /\ c # Batch
  BY InteractiveIsClass DEF QueueInv, Scheduler
<1>2. /\ w \in 0..WaitedLimit /\ Distance(k) \in 0..2
      /\ w + Distance(k) <= 3
      /\ w + Distance(k) = 3 => sch.since + Distance(k) <= 2
  <2>1. w \in 0..WaitedLimit /\ Distance(k) \in 0..2
    BY <1>1 DEF Distance
  <2> QED
    BY <2>1 DEF RoundTrip
<1>3. sch' \in Scheduler /\ sch'.next \in 0..2 /\ sch'.since \in 0..MaxBypass /\ Distance(k)' \in 0..2
  BY QueueInvNext DEF QueueInv, Scheduler, Distance
<1>4. ASSUME NEW b \in WorkClass, NEW j \in InvocationId, Push(b, j)
      PROVE  waited'[c] = w /\ Distance(k)' = Distance(k) /\ sch'.since = sch.since
  BY <1>4, QueueSteps DEF Pushed, Distance
<1>5. CASE Pop
  <2>1. waited'[c] = IF c = PopClass(sch) \/ ~Waiting(sch, c) THEN 0
                     ELSE IF w < WaitedLimit THEN w + 1 ELSE WaitedLimit
    BY <1>1, <1>5, QueueSteps DEF Counted
  <2>2. CASE c = PopClass(sch) \/ ~Waiting(sch, c)
    BY <1>3, <2>1, <2>2
  <2>3. CASE c # PopClass(sch) /\ Waiting(sch, c) /\ ServesBatch(sch)
    <3>1. WaitingOffsets(sch) # {}
      BY <1>1, <2>3, NoOffsetsNoInteractive DEF Waiting
    <3>2. sch.since >= MaxBypass
      BY <2>3, <3>1 DEF ServesBatch, BatchDue
    <3>3. sch'.since = 0 /\ Distance(k)' = Distance(k)
      BY <1>5, <2>3, QueueSteps DEF Counted, Popped, Distance
    <3> QED
      BY <1>1, <1>2, <2>1, <2>3, <3>2, <3>3 DEF MaxBypass, WaitedLimit
  <2>4. CASE c # PopClass(sch) /\ Waiting(sch, c) /\ ~ServesBatch(sch)
    <3>1. WaitingOffsets(sch) # {} /\ Candidate(sch) # k
      BY <2>4 DEF ServesBatch, PopClass
    <3>2. sch'.next = (Candidate(sch) + 1) % 3
      BY <1>5, <2>4, QueueSteps DEF Counted, Popped
    <3>3. sch'.since = IF sch.since < MaxBypass THEN sch.since + 1 ELSE MaxBypass
      BY <1>5, <2>4, QueueSteps DEF Counted, Popped
    <3>4. Distance(k)' < Distance(k)
      BY <1>1, <2>4, <3>1, <3>2, CursorComesCloser DEF Distance
    <3>5. waited'[c] = w + 1
      BY <1>2, <2>1, <2>4 DEF WaitedLimit
    <3>6. sch'.since <= sch.since + 1 /\ sch'.since \in Nat /\ sch.since \in Nat
      BY <1>1, <3>3 DEF MaxBypass
    <3>7. waited'[c] + Distance(k)' <= 3
      <4> HIDE DEF c
      <4> QED
        BY <1>2, <1>3, <3>4, <3>5 DEF WaitedLimit
    <3>8. waited'[c] + Distance(k)' = 3 => sch'.since + Distance(k)' <= 2
      <4> HIDE DEF c
      <4> QED
        BY <1>2, <1>3, <3>4, <3>5, <3>6 DEF WaitedLimit
    <3> QED
      BY <3>7, <3>8
  <2> QED
    BY <2>2, <2>3, <2>4
<1>6. CASE sch' = sch /\ waited' = waited
  BY <1>2, <1>6 DEF Distance
<1> QED
  BY <1>2, <1>4, <1>5, <1>6, QueueSteps

(* No waiting job starves: batch work waits for at most three interactive  *)
(* pops, and an interactive class for at most one turn of each other class *)
(* and one batch job, whatever is submitted in the meantime.               *)
THEOREM NobodyStarves == QueueSpec => []BypassBounded
<1>1. QueueInit => QueueInv /\ RoundTrip
  <2>1. QueueInit => waited = [c \in WorkClass |-> 0] /\ sch.next = 0
    BY QueueSteps DEF EmptyScheduler
  <2>2. \A k \in 0..2 : Interactive(k) \in WorkClass
    BY InteractiveIsClass
  <2> QED
    BY <2>1, <2>2, QueueInvInit DEF RoundTrip, Distance
<1>2. QueueInv /\ RoundTrip /\ [QueueNext]_queueVars => (QueueInv /\ RoundTrip)'
  BY QueueInvNext, RoundTripNext
<1>3. QueueInv /\ RoundTrip => InteractiveBypassBounded
  <2> SUFFICES ASSUME QueueInv /\ RoundTrip, NEW c \in WorkClass \ {Batch} PROVE waited[c] <= 3
    BY DEF InteractiveBypassBounded
  <2>1. PICK k \in 0..2 : c = Interactive(k)
    BY DEF WorkClass, Interactive
  <2>2. sch.next \in 0..2 /\ waited[c] \in Nat
    <3>1. sch.next \in 0..2
      BY DEF QueueInv, Scheduler
    <3>2. waited[c] \in 0..WaitedLimit
      BY DEF QueueInv
    <3> QED
      BY <3>1, <3>2 DEF WaitedLimit
  <2>3. waited[c] + Distance(k) <= 3 /\ Distance(k) \in 0..2
    BY <2>1, <2>2 DEF RoundTrip, Distance
  <2> QED
    BY <2>2, <2>3
<1> QED
  BY <1>1, <1>2, <1>3, BatchNeverStarved, PTL DEF QueueSpec, BypassBounded
=============================================================================
