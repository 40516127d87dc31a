------------------------------ MODULE ModelHost ------------------------------
(***************************************************************************)
(* qtrans::core::ModelHost: the thread-safe owner of one local model.      *)
(*                                                                         *)
(* Five kinds of thread meet here.  Callers call load, unload, submit,     *)
(* cancel, preempt and shutdown.  The runtime thread drains a queue of     *)
(* commands and is the only one that touches the model.  The dispatch      *)
(* thread delivers events to observers.  A finalizer thread, started by    *)
(* the first shutdown, drains and joins the other two.                     *)
(*                                                                         *)
(* One action is one critical section (state_mutex, runtime_mutex,         *)
(* dispatch_mutex) or one access to the atomic stop reason of an           *)
(* invocation.  What a thread does between two of them is private to it.   *)
(***************************************************************************)
EXTENDS InvocationScheduler, StopReasons, FiniteSets

CONSTANTS
    Caller,        \* threads that call load, unload and shutdown
    Model,         \* model ids
    NoModel,       \* the empty std::optional<ModelId>
    NoCaller,      \* the command was not pushed by a blocking caller
    RequestClass,  \* the work classes that are submitted
    RequestDeadline, \* whether requests have a deadline
    MaxDeltas,     \* bound: sequence numbers one generation may consume
    UnloadMayFail, \* whether the unload of the runtime may report a failure
    NoInvocation   \* no invocation is executing

ASSUME IdAssumption == InvocationId \subseteq Nat \ {0}
ASSUME NoModelAssumption == NoModel \notin Model
ASSUME NoInvocationAssumption == NoInvocation = 0
ASSUME RequestClassAssumption == RequestClass \subseteq WorkClass
ASSUME RequestDeadlineAssumption == RequestDeadline \subseteq BOOLEAN
ASSUME MaxDeltasAssumption == MaxDeltas \in Nat
ASSUME UnloadMayFailAssumption == UnloadMayFail \in BOOLEAN

VARIABLES
    \* state_mutex, which also guards sch of InvocationScheduler
    state,      \* LifecycleSnapshot::state
    model,      \* LifecycleSnapshot::model
    active,     \* LifecycleSnapshot::active_invocations
    invs,       \* the ids in the invocations map
    nextId,     \* next_id
    \* per invocation
    cls,        \* request.work_class
    deadline,   \* whether the request has a deadline
    stop,       \* the atomic stop reason
    seq,        \* next_sequence
    \* runtime_mutex
    cmds,       \* runtime_commands
    closed,     \* runtime_closed
    \* the runtime thread
    rpc,        \* what it does next
    cmd,        \* the command it has taken
    cur,        \* the invocation it executes
    result,     \* the outcome of the step in hand: of a generation, of a load
    loaded,     \* the model the runtime holds
    \* dispatch_mutex and the dispatch thread
    events,     \* the queue of events
    dclosed,    \* dispatch_closed
    dpc,        \* what it does next
    item,       \* the event it delivers
    seen,       \* history: what the observer of each invocation has been told
    \* callers
    cpc,        \* where each caller is
    call,       \* the command it is pushing
    reply,      \* what its promise was completed with
    \* the finalizer thread
    fpc,        \* what it does next
    unloadNeeded

lifecycle == <<state, model, active>>
table     == <<invs, sch, nextId>>
requests  == <<cls, deadline>>
runtimeQ  == <<cmds, closed>>
runtime   == <<rpc, cmd, cur, result, loaded>>
dispatch  == <<dpc, item, seen>>
dispatchQ == <<events, dclosed>>
callers   == <<cpc, call, reply>>
finalizer == <<fpc, unloadNeeded>>

vars == <<lifecycle, table, requests, stop, seq, runtimeQ, runtime,
          dispatchQ, dispatch, callers, finalizer>>

-----------------------------------------------------------------------------
LifecycleState == {"Unloaded", "Loading", "Ready", "Unloading", "Draining", "Stopped"}

\* A command of the runtime queue: the closure submit(), load(), unload() or the
\* finalizer pushes, and the caller whose promise it completes.
Command == [kind  : {"none", "run", "load", "unload", "final"},
            by    : Caller \cup {NoCaller},
            model : Model \cup {NoModel}]

NoCommand         == [kind |-> "none",   by |-> NoCaller, model |-> NoModel]
RunScheduledCmd   == [kind |-> "run",    by |-> NoCaller, model |-> NoModel]
FinalUnloadCmd    == [kind |-> "final",  by |-> NoCaller, model |-> NoModel]
LoadCmd(c, m)     == [kind |-> "load",   by |-> c, model |-> m]
UnloadCmd(c)      == [kind |-> "unload", by |-> c, model |-> NoModel]

\* An event: InvocationStarted, InvocationDelta or InvocationFinished.
Event == [kind    : {"none", "started", "delta", "finished"},
          id      : InvocationId \cup {NoInvocation},
          seq     : Nat,
          outcome : FinishReason \cup {"Pending"}]

NoEvent        == [kind |-> "none", id |-> NoInvocation, seq |-> 0, outcome |-> "Pending"]
Started(i)     == [kind |-> "started", id |-> i, seq |-> seq[i], outcome |-> "Pending"]
Delta(i)       == [kind |-> "delta", id |-> i, seq |-> seq[i], outcome |-> "Pending"]
Finished(i, r) == [kind |-> "finished", id |-> i, seq |-> seq[i], outcome |-> r]

RuntimeStep == {"idle", "run", "begin", "start", "check", "deadline", "admit", "generate",
                "settle", "finish", "load", "loadCheck", "loadAbort", "loadCommit",
                "unload", "unloadCommit", "final", "exit"}

Reply == {"ok", "failed", "shutdown"}

\* What an observer has been told of an invocation: how far it is, the last
\* sequence number, and the finish reason.
Seen == [phase   : {"nothing", "started", "finished"},
         seq     : Nat,
         outcome : FinishReason \cup {"Pending"}]

LifecycleType ==
    /\ state \in LifecycleState
    /\ model \in Model \cup {NoModel}
    /\ active \in Nat

TableType ==
    /\ invs \subseteq InvocationId
    /\ sch \in Scheduler
    /\ nextId \in Nat
    /\ cls \in [InvocationId -> WorkClass]
    /\ deadline \in [InvocationId -> BOOLEAN]
    /\ stop \in [InvocationId -> StopReason]
    /\ seq \in [InvocationId -> Nat]

RuntimeType ==
    /\ cmds \in Seq(Command)
    /\ closed \in BOOLEAN
    /\ rpc \in RuntimeStep
    /\ cmd \in Command
    /\ cur \in InvocationId \cup {NoInvocation}
    /\ result \in FinishReason \cup Reply
    /\ loaded \in Model \cup {NoModel}

DispatchType ==
    /\ events \in Seq(Event)
    /\ dclosed \in BOOLEAN
    /\ dpc \in {"wait", "deliver", "exit"}
    /\ item \in Event
    /\ seen \in [InvocationId -> Seen]

CallerType ==
    /\ cpc \in [Caller -> {"idle", "push", "wait", "post", "stopping"}]
    /\ call \in [Caller -> Command]
    /\ reply \in [Caller -> Reply]
    /\ fpc \in {"none", "read", "close", "joinRuntime", "joinDispatch", "done"}
    /\ unloadNeeded \in BOOLEAN

TypeOK == LifecycleType /\ TableType /\ RuntimeType /\ DispatchType /\ CallerType

Init ==
    /\ state = "Unloaded" /\ model = NoModel /\ active = 0
    /\ invs = {} /\ sch = EmptyScheduler /\ nextId = 1
    /\ cls = [i \in InvocationId |-> Batch]
    /\ deadline = [i \in InvocationId |-> FALSE]
    /\ stop = [i \in InvocationId |-> "None"]
    /\ seq = [i \in InvocationId |-> 1]
    /\ cmds = <<>> /\ closed = FALSE
    /\ rpc = "idle" /\ cmd = NoCommand /\ cur = NoInvocation
    /\ result = "ok" /\ loaded = NoModel
    /\ events = <<>> /\ dclosed = FALSE
    /\ dpc = "wait" /\ item = NoEvent
    /\ seen = [i \in InvocationId |-> [phase |-> "nothing", seq |-> 0, outcome |-> "Pending"]]
    /\ cpc = [c \in Caller |-> "idle"]
    /\ call = [c \in Caller |-> NoCommand]
    /\ reply = [c \in Caller |-> "ok"]
    /\ fpc = "none" /\ unloadNeeded = FALSE

-----------------------------------------------------------------------------
(* Helpers of the critical sections.                                       *)

\* state = {}: an empty LifecycleSnapshot.
ResetLifecycle == state' = "Unloaded" /\ model' = NoModel /\ active' = 0

\* The promise of the caller that pushed the command in hand.
Complete(r) ==
    /\ reply' = [reply EXCEPT ![cmd.by] = r]
    /\ cpc' = [cpc EXCEPT ![cmd.by] = "post"]
    /\ UNCHANGED call

\* The runtime thread goes back to its wait.
RuntimeIdle ==
    /\ rpc' = "idle" /\ cmd' = NoCommand /\ cur' = NoInvocation /\ result' = "ok"

RuntimeGoto(step) == rpc' = step /\ UNCHANGED <<cmd, cur, result, loaded>>

Publish(e) == events' = Append(events, e) /\ UNCHANGED dclosed

\* An invocation is running from run_scheduled() to settle().
Running(i) == i \in invs /\ i = cur

-----------------------------------------------------------------------------
(* Callers: load() and unload().                                           *)

LoadCall(c, m) ==
    /\ cpc[c] = "idle"
    /\ state = "Unloaded"
    /\ state' = "Loading"
    /\ cpc' = [cpc EXCEPT ![c] = "push"]
    /\ call' = [call EXCEPT ![c] = LoadCmd(c, m)]
    /\ UNCHANGED <<model, active, table, requests, stop, seq, runtimeQ, runtime,
                   dispatchQ, dispatch, reply, finalizer>>

\* Mistake: the active invocations are not looked at.
Mut_UnloadCall(c) ==
    /\ cpc[c] = "idle"
    /\ state = "Ready"
    /\ state' = "Unloading"
    /\ cpc' = [cpc EXCEPT ![c] = "push"]
    /\ call' = [call EXCEPT ![c] = UnloadCmd(c)]
    /\ UNCHANGED <<model, active, table, requests, stop, seq, runtimeQ, runtime,
                   dispatchQ, dispatch, reply, finalizer>>

UnloadCall(c) ==
    /\ cpc[c] = "idle"
    /\ state = "Ready" /\ active = 0
    /\ state' = "Unloading"
    /\ cpc' = [cpc EXCEPT ![c] = "push"]
    /\ call' = [call EXCEPT ![c] = UnloadCmd(c)]
    /\ UNCHANGED <<model, active, table, requests, stop, seq, runtimeQ, runtime,
                   dispatchQ, dispatch, reply, finalizer>>

\* command(), its critical section.
PushCommand(c) ==
    /\ cpc[c] = "push"
    /\ \/ /\ closed
          /\ cpc' = [cpc EXCEPT ![c] = "post"]
          /\ reply' = [reply EXCEPT ![c] = "shutdown"]
          /\ UNCHANGED <<cmds, call>>
       \/ /\ ~closed
          /\ cmds' = Append(cmds, call[c])
          /\ cpc' = [cpc EXCEPT ![c] = "wait"]
          /\ UNCHANGED <<call, reply>>
    /\ UNCHANGED <<lifecycle, table, requests, stop, seq, closed, runtime,
                   dispatchQ, dispatch, finalizer>>

\* What load() and unload() do after the future is ready.
CallReturns(c) ==
    /\ cpc' = [cpc EXCEPT ![c] = "idle"]
    /\ call' = [call EXCEPT ![c] = NoCommand]
    /\ reply' = [reply EXCEPT ![c] = "ok"]
    /\ UNCHANGED <<table, requests, stop, seq, runtimeQ, runtime, dispatchQ, dispatch, finalizer>>

LoadReturn(c) ==
    /\ cpc[c] = "post" /\ call[c].kind = "load"
    /\ IF reply[c] # "ok" /\ state = "Loading"
          THEN ResetLifecycle
          ELSE UNCHANGED lifecycle
    /\ CallReturns(c)

UnloadReturn(c) ==
    /\ cpc[c] = "post" /\ call[c].kind = "unload"
    /\ state' = IF reply[c] # "ok" /\ state = "Unloading" THEN "Ready" ELSE state
    /\ UNCHANGED <<model, active>>
    /\ CallReturns(c)

-----------------------------------------------------------------------------
(* Callers: submit(), cancel(), preempt().  Any thread, observers included. *)

Accepts(m) == state = "Ready" /\ model = m

\* The batch invocations an interactive arrival preempts.
PreemptedBy(c) ==
    IF c \in {NativeInteractive, ApiInteractive}
      THEN {i \in InvocationId : Running(i) /\ cls[i] = Batch}
      ELSE {}

Submit(m, c, d) ==
    /\ Accepts(m) /\ ~closed
    /\ HasRoom(sch)
    /\ nextId \in InvocationId
    /\ nextId' = nextId + 1
    /\ invs' = invs \cup {nextId}
    /\ active' = active + 1
    /\ sch' = Pushed(sch, c, nextId)
    /\ cls' = [cls EXCEPT ![nextId] = c]
    /\ deadline' = [deadline EXCEPT ![nextId] = d]
    /\ stop' = [i \in InvocationId |->
                  IF i \in PreemptedBy(c) THEN Raise(stop[i], "Preempted") ELSE stop[i]]
    /\ cmds' = Append(cmds, RunScheduledCmd)
    /\ UNCHANGED <<state, model, seq, closed, runtime, dispatchQ, dispatch, callers, finalizer>>

\* Mistake: the run command is pushed before the queue has accepted the id.
Mut_SubmitRefusedCommand(m) ==
    /\ Accepts(m) /\ ~closed
    /\ ~HasRoom(sch)
    /\ nextId \in InvocationId
    /\ nextId' = nextId + 1
    /\ cmds' = Append(cmds, RunScheduledCmd)
    /\ UNCHANGED <<lifecycle, invs, sch, requests, stop, seq, closed, runtime,
                   dispatchQ, dispatch, callers, finalizer>>

\* Backpressure: the id is spent, the rest is rolled back.
SubmitRefused(m) ==
    /\ Accepts(m) /\ ~closed
    /\ ~HasRoom(sch)
    /\ nextId \in InvocationId
    /\ nextId' = nextId + 1
    /\ UNCHANGED <<lifecycle, invs, sch, requests, stop, seq, runtimeQ, runtime,
                   dispatchQ, dispatch, callers, finalizer>>

\* cancel_id(): cancel() and the handle raise UserCancel, preempt() Preempted.
CancelId(i, r) ==
    /\ i \in invs
    /\ Raise(stop[i], r) # stop[i]
    /\ stop' = [stop EXCEPT ![i] = r]
    /\ UNCHANGED <<lifecycle, table, requests, seq, runtimeQ, runtime,
                   dispatchQ, dispatch, callers, finalizer>>

Cancel(i)  == CancelId(i, "UserCancel")
Preempt(i) == CancelId(i, "Preempted")

-----------------------------------------------------------------------------
(* The runtime thread: run_runtime().                                      *)

TakeCommand ==
    /\ rpc = "idle" /\ cmds # <<>>
    /\ cmd' = Head(cmds)
    /\ cmds' = Tail(cmds)
    /\ rpc' = Head(cmds).kind
    /\ UNCHANGED <<lifecycle, table, requests, stop, seq, closed, cur, result, loaded,
                   dispatchQ, dispatch, callers, finalizer>>

\* Mistake: the loop ends as soon as the queue is closed.
Mut_RuntimeExit ==
    /\ rpc = "idle" /\ closed
    /\ rpc' = "exit" /\ loaded' = NoModel
    /\ UNCHANGED <<lifecycle, table, requests, stop, seq, runtimeQ, cmd, cur, result,
                   dispatchQ, dispatch, callers, finalizer>>

\* The loop ends only on an empty queue; runtime.reset() frees the model.
RuntimeExit ==
    /\ rpc = "idle" /\ cmds = <<>> /\ closed
    /\ rpc' = "exit" /\ loaded' = NoModel
    /\ UNCHANGED <<lifecycle, table, requests, stop, seq, runtimeQ, cmd, cur, result,
                   dispatchQ, dispatch, callers, finalizer>>

RunScheduled ==
    /\ rpc = "run"
    /\ IF sch.size = 0
         THEN RuntimeIdle /\ UNCHANGED sch
         ELSE /\ sch' = Popped(sch)
              /\ IF PopJob(sch) \in invs
                   THEN cur' = PopJob(sch) /\ rpc' = "begin" /\ UNCHANGED <<cmd, result>>
                   ELSE RuntimeIdle
    /\ UNCHANGED <<lifecycle, invs, nextId, requests, stop, seq, runtimeQ, loaded,
                   dispatchQ, dispatch, callers, finalizer>>

\* execute(): the first look at the lifecycle, before Started is published.
BeginExecute ==
    /\ rpc = "begin"
    /\ stop' = IF state = "Draining" THEN [stop EXCEPT ![cur] = Raise(@, "Shutdown")] ELSE stop
    /\ RuntimeGoto("start")
    /\ UNCHANGED <<lifecycle, table, requests, seq, runtimeQ, dispatchQ, dispatch, callers, finalizer>>

PublishStarted ==
    /\ rpc = "start"
    /\ Publish(Started(cur))
    /\ seq' = [seq EXCEPT ![cur] = @ + 1]
    /\ RuntimeGoto("check")
    /\ UNCHANGED <<lifecycle, table, requests, stop, runtimeQ, dispatch, callers, finalizer>>

SettleWith(r) == rpc' = "settle" /\ result' = r /\ UNCHANGED <<cmd, cur, loaded>>

CheckStop ==
    /\ rpc = "check"
    /\ IF stop[cur] # "None" THEN SettleWith("Completed") ELSE RuntimeGoto("deadline")
    /\ UNCHANGED <<lifecycle, table, requests, stop, seq, runtimeQ,
                   dispatchQ, dispatch, callers, finalizer>>

\* The clock has or has not passed the deadline of the request.
CheckDeadline ==
    /\ rpc = "deadline"
    /\ \/ stop' = stop
       \/ deadline[cur] /\ stop' = [stop EXCEPT ![cur] = Raise(@, "Deadline")]
    /\ RuntimeGoto("admit")
    /\ UNCHANGED <<lifecycle, table, requests, seq, runtimeQ, dispatchQ, dispatch, callers, finalizer>>

\* execute(): the second look at the lifecycle, then at the stop reason.
AdmitToModel ==
    /\ rpc = "admit"
    /\ stop' = IF state = "Draining" THEN [stop EXCEPT ![cur] = Raise(@, "Shutdown")] ELSE stop
    /\ IF stop'[cur] # "None" THEN SettleWith("Completed") ELSE RuntimeGoto("generate")
    /\ UNCHANGED <<lifecycle, table, requests, seq, runtimeQ, dispatchQ, dispatch, callers, finalizer>>

\* One piece of output.  Its number is taken before publish() looks at the
\* text: a piece that sanitizes to nothing leaves a gap.
GenerateDelta ==
    /\ rpc = "generate" /\ loaded # NoModel
    /\ seq[cur] <= MaxDeltas + 1
    /\ \/ Publish(Delta(cur))
       \/ UNCHANGED dispatchQ
    /\ seq' = [seq EXCEPT ![cur] = @ + 1]
    /\ RuntimeGoto("generate")
    /\ UNCHANGED <<lifecycle, table, requests, stop, runtimeQ, dispatch, callers, finalizer>>

\* should_stop(), polled between tokens, ends the generation.  Another thread
\* may raise the reason between its first load and its compare-and-swap.
GenerateStopped ==
    /\ rpc = "generate" /\ loaded # NoModel
    /\ \/ stop[cur] # "None" /\ stop' = stop
       \/ deadline[cur] /\ stop' = [stop EXCEPT ![cur] = Raise(@, "Deadline")]
    /\ SettleWith("Failed")
    /\ UNCHANGED <<lifecycle, table, requests, seq, runtimeQ, dispatchQ, dispatch, callers, finalizer>>

\* The generation returns by itself: an end of text, its output budget, an error.
GenerateReturns ==
    /\ rpc = "generate"
    /\ \E r \in {"Completed", "Length", "Failed"} :
          /\ loaded = NoModel => r = "Failed"
          /\ SettleWith(r)
    /\ UNCHANGED <<lifecycle, table, requests, stop, seq, runtimeQ,
                   dispatchQ, dispatch, callers, finalizer>>

\* Mistake: a failure of the generation is reported before a stop request.
Mut_Settle ==
    /\ rpc = "settle"
    /\ result' = IF stop[cur] # "None" /\ result # "Failed" THEN MapStopReason(stop[cur]) ELSE result
    /\ invs' = invs \ {cur}
    /\ active' = IF active > 0 THEN active - 1 ELSE 0
    /\ rpc' = "finish"
    /\ UNCHANGED <<state, model, sch, nextId, requests, stop, seq, runtimeQ, cmd, cur, loaded,
                   dispatchQ, dispatch, callers, finalizer>>

\* settle(), its critical section: the one point where an outcome is decided.
Settle ==
    /\ rpc = "settle"
    /\ result' = IF stop[cur] # "None" THEN MapStopReason(stop[cur]) ELSE result
    /\ invs' = invs \ {cur}
    /\ active' = IF active > 0 THEN active - 1 ELSE 0
    /\ rpc' = "finish"
    /\ UNCHANGED <<state, model, sch, nextId, requests, stop, seq, runtimeQ, cmd, cur, loaded,
                   dispatchQ, dispatch, callers, finalizer>>

\* settle(), after the lock is released.
PublishFinished ==
    /\ rpc = "finish"
    /\ Publish(Finished(cur, result))
    /\ seq' = [seq EXCEPT ![cur] = @ + 1]
    /\ RuntimeIdle
    /\ UNCHANGED <<lifecycle, table, requests, stop, runtimeQ, loaded, dispatch, callers, finalizer>>

-----------------------------------------------------------------------------
(* The runtime thread: the closures of load() and unload().                *)

\* Mistake: the result of the load is not looked at.
Mut_LoadModel ==
    /\ rpc = "load"
    /\ loaded' \in {cmd.model, NoModel}
    /\ rpc' = "loadCheck"
    /\ UNCHANGED <<lifecycle, table, requests, stop, seq, runtimeQ, cmd, cur, result,
                   dispatchQ, dispatch, callers, finalizer>>

LoadModel ==
    /\ rpc = "load"
    /\ \/ /\ loaded' = cmd.model /\ rpc' = "loadCheck"
          /\ UNCHANGED result
       \/ /\ rpc' = "loadAbort" /\ result' = "failed"
          /\ UNCHANGED loaded
    /\ UNCHANGED <<lifecycle, table, requests, stop, seq, runtimeQ, cmd, cur,
                   dispatchQ, dispatch, callers, finalizer>>

\* shutdown_won is read under the lock and used after it is released.
LoadCheck ==
    /\ rpc = "loadCheck"
    /\ IF state # "Loading"
         THEN rpc' = "loadAbort" /\ result' = "shutdown"
         ELSE rpc' = "loadCommit" /\ UNCHANGED result
    /\ UNCHANGED <<lifecycle, table, requests, stop, seq, runtimeQ, cmd, cur, loaded,
                   dispatchQ, dispatch, callers, finalizer>>

LoadAbort ==
    /\ rpc = "loadAbort"
    /\ IF state = "Loading" THEN ResetLifecycle ELSE UNCHANGED lifecycle
    /\ Complete(result) /\ RuntimeIdle
    /\ UNCHANGED <<table, requests, stop, seq, runtimeQ, loaded, dispatchQ, dispatch, finalizer>>

LoadCommit ==
    /\ rpc = "loadCommit"
    /\ state' = "Ready" /\ model' = cmd.model
    /\ Complete("ok") /\ RuntimeIdle
    /\ UNCHANGED <<active, table, requests, stop, seq, runtimeQ, loaded, dispatchQ, dispatch, finalizer>>

UnloadModel ==
    /\ rpc = "unload"
    /\ loaded' = NoModel
    /\ rpc' = "unloadCommit"
    /\ UNCHANGED <<lifecycle, table, requests, stop, seq, runtimeQ, cmd, cur, result,
                   dispatchQ, dispatch, callers, finalizer>>

UnloadFails ==
    /\ rpc = "unload" /\ UnloadMayFail
    /\ state' = IF state = "Unloading" THEN "Ready" ELSE state
    /\ Complete("failed") /\ RuntimeIdle
    /\ UNCHANGED <<model, active, table, requests, stop, seq, runtimeQ, loaded,
                   dispatchQ, dispatch, finalizer>>

\* Mistake: a superseded unload does not answer its caller.
Mut_UnloadCommit ==
    /\ rpc = "unloadCommit"
    /\ IF state # "Unloading"
         THEN UNCHANGED <<lifecycle, callers>>
         ELSE ResetLifecycle /\ Complete("ok")
    /\ RuntimeIdle
    /\ UNCHANGED <<table, requests, stop, seq, runtimeQ, loaded, dispatchQ, dispatch, finalizer>>

UnloadCommit ==
    /\ rpc = "unloadCommit"
    /\ IF state # "Unloading"
         THEN UNCHANGED lifecycle /\ Complete("shutdown")
         ELSE ResetLifecycle /\ Complete("ok")
    /\ RuntimeIdle
    /\ UNCHANGED <<table, requests, stop, seq, runtimeQ, loaded, dispatchQ, dispatch, finalizer>>

FinalUnload ==
    /\ rpc = "final"
    /\ loaded' = NoModel
    /\ RuntimeIdle
    /\ UNCHANGED <<lifecycle, table, requests, stop, seq, runtimeQ,
                   dispatchQ, dispatch, callers, finalizer>>

-----------------------------------------------------------------------------
(* The dispatch thread: run_dispatch().                                    *)

DispatchTake ==
    /\ dpc = "wait" /\ events # <<>>
    /\ item' = Head(events)
    /\ events' = Tail(events)
    /\ dpc' = "deliver"
    /\ UNCHANGED <<lifecycle, table, requests, stop, seq, runtimeQ, runtime, dclosed, seen,
                   callers, finalizer>>

\* The observer returns; what it called meanwhile are actions of its own.
DispatchDeliver ==
    /\ dpc = "deliver"
    /\ seen' = [seen EXCEPT ![item.id] =
                  [phase |-> IF item.kind = "finished" THEN "finished" ELSE "started",
                   seq |-> item.seq, outcome |-> item.outcome]]
    /\ dpc' = "wait" /\ item' = NoEvent
    /\ UNCHANGED <<lifecycle, table, requests, stop, seq, runtimeQ, runtime, dispatchQ,
                   callers, finalizer>>

DispatchExit ==
    /\ dpc = "wait" /\ events = <<>> /\ dclosed
    /\ dpc' = "exit"
    /\ UNCHANGED <<lifecycle, table, requests, stop, seq, runtimeQ, runtime, dispatchQ,
                   item, seen, callers, finalizer>>

-----------------------------------------------------------------------------
(* shutdown() and the finalizer thread.                                    *)

BeginShutdown ==
    IF state \in {"Stopped", "Draining"}
      THEN UNCHANGED <<state, stop>>
      ELSE /\ state' = "Draining"
           /\ stop' = [i \in InvocationId |->
                         IF i \in invs THEN Raise(stop[i], "Shutdown") ELSE stop[i]]

EnsureFinalizer == fpc' = IF fpc = "none" THEN "read" ELSE fpc

\* One external caller at a time: the others wait on shutdown_mutex.
ShutdownCall(c) ==
    /\ cpc[c] = "idle" /\ fpc # "done"
    /\ \A d \in Caller : cpc[d] # "stopping"
    /\ BeginShutdown /\ EnsureFinalizer
    /\ cpc' = [cpc EXCEPT ![c] = "stopping"]
    /\ UNCHANGED <<model, active, table, requests, seq, runtimeQ, runtime, dispatchQ, dispatch,
                   call, reply, unloadNeeded>>

ShutdownReturn(c) ==
    /\ cpc[c] = "stopping" /\ fpc = "done"
    /\ cpc' = [cpc EXCEPT ![c] = "idle"]
    /\ UNCHANGED <<lifecycle, table, requests, stop, seq, runtimeQ, runtime, dispatchQ, dispatch,
                   call, reply, finalizer>>

\* From an observer: the shutdown is deferred, the dispatch thread does not wait.
ShutdownReentrant ==
    /\ dpc = "deliver"
    /\ BeginShutdown /\ EnsureFinalizer
    /\ UNCHANGED <<model, active, table, requests, seq, runtimeQ, runtime, dispatchQ, dispatch,
                   callers, unloadNeeded>>

FinalizerReadsModel ==
    /\ fpc = "read"
    /\ unloadNeeded' = (model # NoModel)
    /\ fpc' = "close"
    /\ UNCHANGED <<lifecycle, table, requests, stop, seq, runtimeQ, runtime, dispatchQ, dispatch,
                   callers>>

FinalizerClosesRuntime ==
    /\ fpc = "close"
    /\ cmds' = IF unloadNeeded THEN Append(cmds, FinalUnloadCmd) ELSE cmds
    /\ closed' = TRUE
    /\ fpc' = "joinRuntime"
    /\ UNCHANGED <<lifecycle, table, requests, stop, seq, runtime, dispatchQ, dispatch,
                   callers, unloadNeeded>>

\* Mistake: the dispatch queue is not closed.
Mut_FinalizerLeavesDispatch ==
    /\ fpc = "joinRuntime" /\ rpc = "exit"
    /\ UNCHANGED dclosed
    /\ fpc' = "joinDispatch"
    /\ UNCHANGED <<lifecycle, table, requests, stop, seq, runtimeQ, runtime, events, dispatch,
                   callers, unloadNeeded>>

FinalizerJoinsRuntime ==
    /\ fpc = "joinRuntime" /\ rpc = "exit"
    /\ dclosed' = TRUE
    /\ fpc' = "joinDispatch"
    /\ UNCHANGED <<lifecycle, table, requests, stop, seq, runtimeQ, runtime, events, dispatch,
                   callers, unloadNeeded>>

FinalizerStops ==
    /\ fpc = "joinDispatch" /\ dpc = "exit"
    /\ state' = "Stopped" /\ model' = NoModel
    /\ fpc' = "done"
    /\ UNCHANGED <<active, table, requests, stop, seq, runtimeQ, runtime, dispatchQ, dispatch,
                   callers, unloadNeeded>>

-----------------------------------------------------------------------------
CallerStep(c) == PushCommand(c) \/ LoadReturn(c) \/ UnloadReturn(c) \/ ShutdownReturn(c)

RuntimeThread ==
    \/ TakeCommand \/ RuntimeExit
    \/ RunScheduled \/ BeginExecute \/ PublishStarted \/ CheckStop \/ CheckDeadline \/ AdmitToModel
    \/ GenerateDelta \/ GenerateStopped \/ GenerateReturns \/ Settle \/ PublishFinished
    \/ LoadModel \/ LoadCheck \/ LoadAbort \/ LoadCommit
    \/ UnloadModel \/ UnloadFails \/ UnloadCommit \/ FinalUnload

DispatchThread == DispatchTake \/ DispatchDeliver \/ DispatchExit

Finalizer == FinalizerReadsModel \/ FinalizerClosesRuntime \/ FinalizerJoinsRuntime \/ FinalizerStops

Request ==
    \/ \E m \in Model, c \in RequestClass, d \in RequestDeadline : Submit(m, c, d)
    \/ \E m \in Model : SubmitRefused(m)
    \/ \E i \in InvocationId : Cancel(i) \/ Preempt(i)
    \/ ShutdownReentrant
    \/ \E c \in Caller : ShutdownCall(c) \/ UnloadCall(c) \/ \E m \in Model : LoadCall(c, m)

\* The host has stopped and every call has returned.
Terminated ==
    /\ fpc = "done" /\ \A c \in Caller : cpc[c] = "idle"
    /\ UNCHANGED vars

Next ==
    \/ Request
    \/ \E c \in Caller : CallerStep(c)
    \/ RuntimeThread \/ DispatchThread \/ Finalizer
    \/ Terminated

\* Threads that have a step to take take it; callers need not call anything.
Fairness ==
    /\ \A c \in Caller : WF_vars(CallerStep(c))
    /\ WF_vars(RuntimeThread)
    /\ WF_vars(DispatchThread)
    /\ WF_vars(Finalizer)

Spec == Init /\ [][Next]_vars /\ Fairness

-----------------------------------------------------------------------------
(* Safety.                                                                 *)

Runs(q) == Cardinality({k \in 1..Len(q) : q[k].kind = "run"})

\* active_invocations, which unload() trusts, is the size of the map.
ActiveMatches == active = Cardinality(invs)

\* Each run command still to be executed has one scheduled invocation.
OneRunPerInvocation ==
    Runs(cmds) + (IF rpc = "run" THEN 1 ELSE 0) = TotalLength(sch)

\* An invocation waits in the scheduler or is the one that executes.
NothingForgotten == \A i \in invs : i \in QueuedJobs(sch) \/ i = cur

(* Four places describe the admitted work, and submit(), its rollback,     *)
(* run_scheduled() and settle() keep them in step: the invocation map, the *)
(* counter unload() trusts, the scheduler's queues and the run commands of *)
(* the runtime thread.  So no pop comes back empty-handed, no scheduled    *)
(* invocation is left without a command, and nothing admitted is forgotten.*)
CountInv ==
    /\ IsFiniteSet(invs) /\ ActiveMatches
    /\ OneRunPerInvocation
    /\ NothingForgotten

(* Once the host has stopped, both queues are empty, no invocation is      *)
(* active and every event has been delivered: shutdown drains, it does not *)
(* drop.                                                                   *)
StoppedIsQuiet ==
    state = "Stopped" => /\ invs = {} /\ cmds = <<>> /\ events = <<>>
                         /\ rpc = "exit" /\ dpc = "exit"

\* The model is being loaded, unloaded or absent only while no invocation is active.
NoWorkDuringTransition ==
    state \in {"Unloaded", "Loading", "Unloading"} => invs = {}

\* Every invocation a draining host still holds has been told to stop.
DrainingStopsAll ==
    state = "Draining" => \A i \in invs : stop[i] = "Shutdown"

TransitionInv ==
    /\ NoWorkDuringTransition
    /\ DrainingStopsAll

(* What the lifecycle promises about the invocations.  submit() and        *)
(* unload() decide on state and counter under one lock, and a failed or    *)
(* superseded load or unload never reopens the window; a shutdown reaches  *)
(* also the invocations admitted just before it and not yet begun, and     *)
(* stops only when nothing is left to run or to deliver.                   *)
LifecycleInv == TransitionInv /\ StoppedIsQuiet

(* A stop reason only ever rises (shutdown over user over deadline over    *)
(* preemption), whichever threads race to set it, and is frozen once       *)
(* settle() has read it: a cancel that was accepted is never overtaken.    *)
(* Nor does a late load, unload or settlement take Stopped back.           *)
NeverBack ==
    [][/\ \A i \in InvocationId :
             stop'[i] # stop[i] => /\ StopPriority(stop'[i]) > StopPriority(stop[i])
                                   /\ i \in invs
       /\ state = "Stopped" => state' = "Stopped"]_vars

(* A shutdown that has begun wins over a load in flight: the host leaves   *)
(* Draining only to be Stopped.  load() does not guarantee it, because it  *)
(* releases the lock between reading shutdown_won and publishing Ready.    *)
ShutdownWinsLoad ==
    [][state = "Draining" => state' \in {"Draining", "Stopped"}]_vars

(* While no shutdown has begun, a host that says Ready holds the model it  *)
(* names: unload() takes the model away before it takes back Ready.        *)
ReadyModelIsLoaded ==
    state = "Ready" /\ fpc = "none" => loaded = model

-----------------------------------------------------------------------------
(* Where the runtime thread is determines what it holds.  The inductive    *)
(* invariants build on it.                                                 *)

Executing == {"begin", "start", "check", "deadline", "admit", "generate", "settle"}

ControlInv ==
    /\ rpc \in Executing => cur \in invs
    /\ rpc = "finish" => cur \in InvocationId
    /\ rpc \notin Executing \cup {"finish"} => cur = NoInvocation
    /\ rpc \in {"settle", "finish"} => result \in FinishReason
    /\ rpc = "loadAbort" => result \in Reply
    /\ \A k \in 1..Len(cmds) : cmds[k].kind # "none"
    /\ \A c \in Caller : cpc[c] = "push" => call[c].kind \in {"load", "unload"}

\* The finalizer closes and joins in order; nothing runs past its join.
FinalizerInv ==
    /\ closed <=> fpc \in {"joinRuntime", "joinDispatch", "done"}
    /\ rpc = "exit" => closed /\ cmds = <<>>
    /\ dclosed <=> fpc \in {"joinDispatch", "done"}
    /\ dclosed => rpc = "exit"
    /\ dpc = "exit" => dclosed /\ events = <<>>
    /\ fpc = "done" => dpc = "exit"
    /\ state = "Stopped" => fpc = "done"

\* Ids are drawn from a counter and never reused; a settled one is gone.
FreshInv ==
    /\ \A i \in invs \cup {cur} : i < nextId
    /\ rpc = "finish" => cur \notin invs

-----------------------------------------------------------------------------
(* What has been published and not yet delivered: the event the dispatch   *)
(* thread delivers, in slot 0, then the queue.  The invariants below order *)
(* it, per invocation, between what the observer has been told (seen) and  *)
(* what the runtime thread will publish next (seq).                        *)

Slots   == (IF dpc = "deliver" THEN 0 ELSE 1)..Len(events)
Slot(k) == IF k = 0 THEN item ELSE events[k]

\* How an invocation may finish, given the stop reason it has accepted.
Outcomes(i) == IF stop[i] = "None" THEN {"Completed", "Length", "Failed"}
                                   ELSE {MapStopReason(stop[i])}

\* An event lies between what was told before it and what comes after it; the
\* last one of an invocation is published when its stop reason is frozen.
SlotOK(e) ==
    /\ e.id \in InvocationId /\ e.id < nextId
    /\ seen[e.id].seq < e.seq /\ e.seq < seq[e.id]
    /\ seen[e.id].phase # "finished"
    /\ e.kind \in {"started", "delta", "finished"}
    /\ e.kind = "started" => e.seq = 1
    /\ IF e.kind = "finished"
          THEN e.id \notin invs \cup {cur} /\ e.outcome \in Outcomes(e.id)
          ELSE e.outcome = "Pending"

\* Per invocation the numbers rise along the queue and nothing follows Finished.
OrderOK ==
    \A j, k \in Slots :
        j < k /\ Slot(j).id = Slot(k).id
            => Slot(j).seq < Slot(k).seq /\ Slot(j).kind # "finished"

\* Once something is published, Started is under way or has been delivered.
StartedOK ==
    \A i \in InvocationId :
        seq[i] > 1 => \/ seen[i].phase # "nothing"
                      \/ \E k \in Slots : Slot(k).id = i /\ Slot(k).kind = "started"

StreamInv ==
    /\ \A k \in Slots : SlotOK(Slot(k))
    /\ OrderOK
    /\ StartedOK
    /\ dpc # "deliver" => item.id = NoInvocation

\* What the observer has been told, and how far the runtime thread is.
SeenOK ==
    \A i \in InvocationId :
        /\ seen[i].seq < seq[i]
        /\ seen[i].phase = "nothing" <=> seen[i].seq = 0
        /\ IF seen[i].phase = "finished" THEN i \notin invs \cup {cur}
                                         ELSE seen[i].outcome = "Pending"

PublisherInv ==
    /\ SeenOK
    /\ \A i \in InvocationId : i >= nextId \/ (i \in invs /\ i # cur) => seq[i] = 1
    /\ rpc \in {"begin", "start"} => seq[cur] = 1
    /\ rpc \in {"check", "deadline", "admit", "generate", "settle", "finish"} => seq[cur] > 1
    /\ rpc = "settle" => result \in {"Completed", "Length", "Failed"}
    /\ rpc = "finish" => result \in Outcomes(cur)

-----------------------------------------------------------------------------
(* Liveness.                                                               *)

(* A shutdown that has begun reaches Stopped, whatever is being loaded,    *)
(* generated or delivered at the time.                                     *)
ShutdownCompletes == (fpc = "read") ~> (state = "Stopped")

(* Every load(), unload() or shutdown() returns: its promise is completed  *)
(* even when the runtime queue closes around it.                           *)
CallsReturn == \A c \in Caller : (cpc[c] # "idle") ~> (cpc[c] = "idle")

-----------------------------------------------------------------------------
(* The abstract view of an invocation: an invocation whose observer has    *)
(* heard nothing is admitted while the host still holds a trace of it.     *)

Traces == invs \cup {cur} \cup {item.id} \cup {events[k].id : k \in 1..Len(events)}

PhaseOf(i) == IF seen[i].phase # "nothing" THEN seen[i].phase
              ELSE IF i \in Traces THEN "admitted" ELSE "unborn"

Contract == INSTANCE InvocationContract WITH
              phase   <- [i \in InvocationId |-> PhaseOf(i)],
              told    <- [i \in InvocationId |-> seen[i].seq],
              asked   <- stop,
              outcome <- [i \in InvocationId |-> seen[i].outcome]

(* The host keeps the contract with the observer of every invocation: each *)
(* one that is admitted is started, told its deltas in order, and finished *)
(* exactly once, with the reason of the strongest stop request it had      *)
(* accepted, whatever else is cancelled, unloaded or shut down meanwhile.  *)
HostKeepsContract == Contract!Spec

(* No admitted invocation waits for ever: cancelled, preempted, overtaken  *)
(* in the queue or caught by a shutdown, its observer hears Finished.      *)
EveryInvocationFinishes == Contract!EveryInvocationFinishes
=============================================================================
