------------------------- MODULE InferenceService -------------------------
(***************************************************************************)
(* InferenceService and its ApiChatBridge: the tables of translation jobs  *)
(* and of API chats, the tickets that cancel jobs, and the adaptation of   *)
(* the host's observer events to handlers of the service thread.           *)
(*                                                                         *)
(* Other threads submit and cancel.  The service thread runs its posted    *)
(* handlers in order; a handler is split at every critical section of      *)
(* mutex_ or of a ticket and at every call of the host.  The host is any   *)
(* one that keeps InvocationContract; its dispatch thread posts events.    *)
(***************************************************************************)
EXTENDS StopReasons, Integers, Sequences, FiniteSets

CONSTANTS
    Job,           \* bound: the ids of translation jobs
    Chat,          \* bound: the ids of API chats
    Canceller,     \* threads that call cancel()
    None           \* no job, no chat, no invocation

ASSUME JobAssumption == Job \cap Chat = {} /\ None \notin Job \cup Chat \cup InvocationId
ASSUME InvocationAssumption == InvocationId \subseteq Nat

VARIABLES
    \* mutex_
    jobs,     \* jobs_: the jobs with a record
    job,      \* the record of each job
    chats,    \* api_chats_: the chats with a record
    chat,     \* the record of each chat
    \* the mutex of each ticket
    ticket,   \* the TranslationCancellation of each job
    \* g_api_trace_guard
    guard,
    \* the service thread
    posted,   \* its queue of handlers
    spc,      \* the step the handler in hand has come to
    hand,     \* whom it is about, the invocation and the state it carries
    \* threads inside cancel()
    cpc, ctarget,
    \* the host
    phase, told, asked, outcome,
    owner,    \* the job or chat each invocation was submitted for
    open,     \* the host has not been shut down
    \* history
    batch,    \* the jobs submitted as batch work
    answered, \* what each job or chat was answered with
    accepted  \* the jobs and chats a cancel() has returned true for

table   == <<jobs, job, chats, chat, ticket>>
control == <<posted, spc, hand>>
core    == <<phase, told, asked, outcome, owner, open>>
calls   == <<cpc, ctarget>>
history == <<batch, answered, accepted>>

vars == <<table, guard, control, calls, core, history>>

Host == INSTANCE InvocationContract

-----------------------------------------------------------------------------
Client == Job \cup Chat

TranslationState == {"Completed", "Cancelled", "Preempted", "Failed"}

\* mapFinishState()
MapFinishState(r) == CASE r \in {"Completed", "Length"}   -> "Completed"
                       [] r = "Preempted"                 -> "Preempted"
                       [] r \in {"Cancelled", "Deadline"} -> "Cancelled"
                       [] OTHER                           -> "Failed"

\* JobRecord, ApiChatRecord and TranslationCancellation.
JobRecord == [back : BOOLEAN, backStarted : BOOLEAN, running : BOOLEAN,
              handle : InvocationId \cup {None}]

ChatRecord == [running : BOOLEAN, cancelRequested : BOOLEAN,
               handle : InvocationId \cup {None}]

Ticket == [requested : BOOLEAN, completed : BOOLEAN, callback : InvocationId \cup {None}]

NewJob(back) == [back |-> back, backStarted |-> FALSE, running |-> FALSE, handle |-> None]
NewChat      == [running |-> FALSE, cancelRequested |-> FALSE, handle |-> None]
NewTicket    == [requested |-> FALSE, completed |-> FALSE, callback |-> None]

\* A handler of the service thread: submitJob(), doSubmitApiChat(), or the
\* delivery of a Finished event.  Started and Delta events are only re-emitted.
Handler == [kind : {"none", "submit", "finished", "chatSubmit", "chatFinished"},
            who : Client \cup {None}, inv : InvocationId \cup {None},
            state : TranslationState]

NoHandler     == [kind |-> "none", who |-> None, inv |-> None, state |-> "Failed"]
Submission(w) == [kind |-> IF w \in Job THEN "submit" ELSE "chatSubmit",
                  who |-> w, inv |-> None, state |-> "Failed"]
Finished(v, r) == [kind |-> IF owner[v] \in Job THEN "finished" ELSE "chatFinished",
                   who |-> owner[v], inv |-> v, state |-> MapFinishState(r)]

ServiceStep == {"idle", "submit", "core", "record", "install", "finished", "check", "finish",
                "chatSubmit", "chatCancelled", "chatCore", "chatInstall", "chatCancel",
                "chatFinished", "stopping"}

TypeOK ==
    /\ jobs \subseteq Job /\ job \in [Job -> JobRecord]
    /\ chats \subseteq Chat /\ chat \in [Chat -> ChatRecord]
    /\ ticket \in [Job -> Ticket]
    /\ guard \in Nat
    /\ posted \in Seq(Handler) /\ spc \in ServiceStep /\ hand \in Handler
    /\ cpc \in [Canceller -> {"idle", "request", "call"}]
    /\ ctarget \in [Canceller -> Client \cup InvocationId \cup {None}]
    /\ phase \in [InvocationId -> {"unborn", "admitted", "started", "finished"}]
    /\ told \in [InvocationId -> Nat]
    /\ asked \in [InvocationId -> StopReason]
    /\ owner \in [InvocationId -> Client \cup {None}]
    /\ open \in BOOLEAN
    /\ batch \subseteq Job /\ accepted \subseteq Client
    /\ answered \in [Client -> TranslationState \cup {"nothing"}]

Init ==
    /\ jobs = {} /\ job = [j \in Job |-> NewJob(FALSE)]
    /\ chats = {} /\ chat = [c \in Chat |-> NewChat]
    /\ ticket = [j \in Job |-> NewTicket]
    /\ guard = 0
    /\ posted = <<>> /\ spc = "idle" /\ hand = NoHandler
    /\ cpc = [t \in Canceller |-> "idle"] /\ ctarget = [t \in Canceller |-> None]
    /\ Host!Init
    /\ owner = [v \in InvocationId |-> None] /\ open = TRUE
    /\ batch = {} /\ accepted = {}
    /\ answered = [w \in Client |-> "nothing"]

-----------------------------------------------------------------------------
(* Submission, from any thread.                                            *)

Fresh(w, ids) == \A u \in ids : u < w => answered[u] # "nothing" \/ u \in jobs \cup chats

\* submitNative() and submitBatch(), their critical section.
Insert(j, back, isBatch) ==
    /\ j \notin jobs /\ answered[j] = "nothing"
    /\ Fresh(j, Job)
    /\ jobs' = jobs \cup {j}
    /\ job' = [job EXCEPT ![j] = NewJob(back)]
    /\ batch' = IF isBatch THEN batch \cup {j} ELSE batch
    /\ UNCHANGED <<chats, chat, ticket, guard, calls, core, answered, accepted>>

SubmitNative(j, back) ==
    /\ Insert(j, back, FALSE)
    /\ posted' = Append(posted, Submission(j))
    /\ UNCHANGED <<spc, hand>>

\* The batch controller lives on the service thread: the rest follows at once.
SubmitBatch(j) ==
    /\ spc = "idle"
    /\ Insert(j, FALSE, TRUE)
    /\ spc' = "submit" /\ hand' = Submission(j)
    /\ UNCHANGED posted

\* ApiChatBridge::submit()
SubmitChat(c) ==
    /\ c \notin chats /\ answered[c] = "nothing"
    /\ Fresh(c, Chat)
    /\ chats' = chats \cup {c}
    /\ chat' = [chat EXCEPT ![c] = NewChat]
    /\ posted' = Append(posted, Submission(c))
    /\ UNCHANGED <<jobs, job, ticket, guard, spc, hand, calls, core, history>>

-----------------------------------------------------------------------------
(* Cancellation, from any thread.                                          *)

\* cancel(j): the record is looked up, its ticket kept.
CancelFinds(t, j) ==
    /\ cpc[t] = "idle"
    /\ j \in jobs
    /\ cpc' = [cpc EXCEPT ![t] = "request"]
    /\ ctarget' = [ctarget EXCEPT ![t] = j]
    /\ UNCHANGED <<table, guard, control, core, history>>

CancelReturns(t) ==
    /\ cpc' = [cpc EXCEPT ![t] = "idle"]
    /\ ctarget' = [ctarget EXCEPT ![t] = None]

\* TranslationCancellation::request(), its critical section.
CancelRequests(t) ==
    /\ cpc[t] = "request"
    /\ LET j == ctarget[t]
       IN  IF ticket[j].completed
             THEN /\ CancelReturns(t)
                  /\ UNCHANGED <<ticket, accepted>>
             ELSE /\ ticket' = [ticket EXCEPT ![j].requested = TRUE]
                  /\ accepted' = accepted \cup {j}
                  /\ IF ticket[j].callback = None
                       THEN CancelReturns(t)
                       ELSE /\ cpc' = [cpc EXCEPT ![t] = "call"]
                            /\ ctarget' = [ctarget EXCEPT ![t] = ticket[j].callback]
    /\ UNCHANGED <<jobs, job, chats, chat, guard, control, core, batch, answered>>

\* InvocationHandle::cancel(): raises the stop reason of an unfinished invocation.
Stopped(v, r) == IF phase[v] \in {"admitted", "started"}
                   THEN [asked EXCEPT ![v] = Raise(@, r)]
                   ELSE asked

CancelCalls(t) ==
    /\ cpc[t] = "call"
    /\ asked' = Stopped(ctarget[t], "UserCancel")
    /\ CancelReturns(t)
    /\ UNCHANGED <<table, guard, control, phase, told, outcome, owner, open, history>>

\* ApiChatBridge::cancel()
CancelChat(t, c) ==
    /\ cpc[t] = "idle"
    /\ c \in chats
    /\ chat' = [chat EXCEPT ![c].cancelRequested = TRUE]
    /\ accepted' = accepted \cup {c}
    /\ IF chat[c].running /\ chat[c].handle # None
         THEN /\ cpc' = [cpc EXCEPT ![t] = "call"]
              /\ ctarget' = [ctarget EXCEPT ![t] = chat[c].handle]
         ELSE UNCHANGED calls
    /\ UNCHANGED <<jobs, job, chats, ticket, guard, control, core, batch, answered>>

\* preemptBatch(): the handle of some running batch job.
PreemptBatch(j) ==
    /\ j \in jobs \cap batch
    /\ job[j].running /\ job[j].handle # None
    /\ asked' = Stopped(job[j].handle, "Preempted")
    /\ UNCHANGED <<table, guard, control, calls, phase, told, outcome, owner, open, history>>

-----------------------------------------------------------------------------
(* The service thread: submitJob().                                        *)

Goto(step) == spc' = step /\ UNCHANGED <<posted, hand>>

Idle == spc' = "idle" /\ hand' = NoHandler /\ UNCHANGED posted

TakeHandler ==
    /\ spc = "idle" /\ posted # <<>>
    /\ hand' = Head(posted) /\ posted' = Tail(posted)
    /\ spc' = Head(posted).kind
    /\ UNCHANGED <<table, guard, calls, core, history>>

FinishWith(s) == spc' = "finish" /\ hand' = [hand EXCEPT !.state = s] /\ UNCHANGED posted

SubmitChecks ==
    /\ spc = "submit"
    /\ IF ticket[hand.who].requested
         THEN /\ FinishWith("Cancelled")
              /\ UNCHANGED job
         ELSE /\ job' = [job EXCEPT ![hand.who].running = TRUE]
              /\ Goto("core")
    /\ UNCHANGED <<jobs, chats, chat, ticket, guard, calls, core, history>>

\* host_.submit() accepts: an interactive arrival may preempt batch work.
HostAdmits(v) ==
    /\ open
    /\ \A u \in InvocationId : u < v => phase[u] # "unborn"
    /\ Host!Admit(v)
    /\ owner' = [owner EXCEPT ![v] = hand.who]
    /\ \E P \in SUBSET {u \in InvocationId : /\ phase[u] \in {"admitted", "started"}
                                              /\ owner[u] \in batch} :
          /\ hand.who \in batch => P = {}
          /\ asked' = [u \in InvocationId |-> IF u \in P THEN Raise(asked[u], "Preempted")
                                                         ELSE asked[u]]
    /\ UNCHANGED open

SubmitAccepted(v) ==
    /\ spc = "core"
    /\ HostAdmits(v)
    /\ spc' = "record" /\ hand' = [hand EXCEPT !.inv = v]
    /\ UNCHANGED <<table, guard, posted, calls, history>>

\* Mistake: the job that was refused is forgotten.
Mut_SubmitRefused ==
    /\ spc = "core"
    /\ Idle
    /\ UNCHANGED <<table, guard, calls, core, history>>

SubmitRefused ==
    /\ spc = "core"
    /\ FinishWith("Failed")
    /\ UNCHANGED <<table, guard, calls, core, history>>

SubmitRecords ==
    /\ spc = "record"
    /\ IF hand.who \in jobs
         THEN /\ job' = [job EXCEPT ![hand.who].handle = hand.inv]
              /\ Goto("install")
         ELSE Idle /\ UNCHANGED job
    /\ UNCHANGED <<jobs, chats, chat, ticket, guard, calls, core, history>>

\* Mistake: a cancellation that came before is not replayed.
Mut_SubmitInstalls ==
    /\ spc = "install"
    /\ ticket' = IF ticket[hand.who].completed THEN ticket
                 ELSE [ticket EXCEPT ![hand.who].callback = hand.inv]
    /\ Idle
    /\ UNCHANGED <<jobs, job, chats, chat, guard, calls, core, history>>

\* TranslationCancellation::install() and the replay.
SubmitInstalls ==
    /\ spc = "install"
    /\ ticket' = IF ticket[hand.who].completed THEN ticket
                 ELSE [ticket EXCEPT ![hand.who].callback = hand.inv]
    /\ asked' = IF ticket[hand.who].requested /\ ~ticket[hand.who].completed
                  THEN Stopped(hand.inv, "UserCancel")
                  ELSE asked
    /\ Idle
    /\ UNCHANGED <<jobs, job, chats, chat, guard, calls, phase, told, outcome, owner, open, history>>

-----------------------------------------------------------------------------
(* The service thread: handleCoreEvent() and finishJob().                  *)

\* The first critical section: a completed job may go on with its translation
\* back, through submitJob() again.
JobFinished ==
    /\ spc = "finished"
    /\ IF hand.who \notin jobs
         THEN Idle /\ UNCHANGED job
         ELSE LET j    == hand.who
                  back == /\ ~ticket[j].requested
                          /\ job[j].back /\ ~job[j].backStarted
                          /\ hand.state = "Completed"
              IN  /\ job' = [job EXCEPT ![j].running = FALSE,
                                        ![j].backStarted = @ \/ back]
                  /\ Goto(IF back THEN "submit"
                          ELSE IF hand.state = "Completed" THEN "check" ELSE "finish")
    /\ UNCHANGED <<jobs, chats, chat, ticket, guard, calls, core, history>>

\* The cancellation is looked at once more before the job is called completed.
JobChecked ==
    /\ spc = "check"
    /\ IF hand.who \in jobs /\ ticket[hand.who].requested
         THEN FinishWith("Cancelled")
         ELSE Goto("finish")
    /\ UNCHANGED <<table, guard, calls, core, history>>

\* finishJob(): the record goes, the ticket is completed, the job is answered.
FinishJob ==
    /\ spc = "finish"
    /\ IF hand.who \in jobs
         THEN /\ jobs' = jobs \ {hand.who}
              /\ job' = [job EXCEPT ![hand.who] = NewJob(FALSE)]
              /\ ticket' = [ticket EXCEPT ![hand.who].completed = TRUE,
                                          ![hand.who].callback = None]
              /\ answered' = [answered EXCEPT ![hand.who] = hand.state]
         ELSE UNCHANGED <<jobs, job, ticket, answered>>
    /\ Idle
    /\ UNCHANGED <<chats, chat, guard, calls, core, batch, accepted>>

-----------------------------------------------------------------------------
(* The service thread: doSubmitApiChat() and finishApiChat().              *)

ChatChecks ==
    /\ spc = "chatSubmit"
    /\ IF hand.who \notin chats
         THEN Idle /\ UNCHANGED <<chat, guard>>
         ELSE IF chat[hand.who].cancelRequested
           THEN Goto("chatCancelled") /\ UNCHANGED <<chat, guard>>
           ELSE /\ chat' = [chat EXCEPT ![hand.who].running = TRUE]
                /\ guard' = guard + 1
                /\ Goto("chatCore")
    /\ UNCHANGED <<jobs, job, chats, ticket, calls, core, history>>

\* The record goes and the callback is called.
AnswerChat(s) ==
    /\ IF hand.who \in chats
         THEN /\ chats' = chats \ {hand.who}
              /\ chat' = [chat EXCEPT ![hand.who] = NewChat]
              /\ answered' = [answered EXCEPT ![hand.who] = s]
         ELSE UNCHANGED <<chats, chat, answered>>
    /\ Idle
    /\ UNCHANGED <<jobs, job, ticket, calls, core, batch, accepted>>

ChatCancelled ==
    /\ spc = "chatCancelled"
    /\ AnswerChat("Cancelled")
    /\ UNCHANGED guard

ChatAccepted(v) ==
    /\ spc = "chatCore"
    /\ HostAdmits(v)
    /\ spc' = "chatInstall" /\ hand' = [hand EXCEPT !.inv = v]
    /\ UNCHANGED <<table, guard, posted, calls, history>>

\* Mistake: the trace guard is not released.
Mut_ChatRefused ==
    /\ spc = "chatCore"
    /\ AnswerChat("Failed")
    /\ UNCHANGED guard

ChatRefused ==
    /\ spc = "chatCore"
    /\ guard' = guard - 1
    /\ AnswerChat("Failed")

ChatInstalls ==
    /\ spc = "chatInstall"
    /\ IF hand.who \in chats
         THEN /\ chat' = [chat EXCEPT ![hand.who].handle = hand.inv]
              /\ IF chat[hand.who].cancelRequested THEN Goto("chatCancel") ELSE Idle
         ELSE Idle /\ UNCHANGED chat
    /\ UNCHANGED <<jobs, job, chats, ticket, guard, calls, core, history>>

ChatReplaysCancel ==
    /\ spc = "chatCancel"
    /\ asked' = Stopped(hand.inv, "UserCancel")
    /\ Idle
    /\ UNCHANGED <<table, guard, calls, phase, told, outcome, owner, open, history>>

ChatFinished ==
    /\ spc = "chatFinished"
    /\ guard' = guard - 1
    /\ AnswerChat(hand.state)

-----------------------------------------------------------------------------
(* shutdown(): the service thread waits until the host has delivered all.  *)

Shutdown ==
    /\ spc = "idle" /\ open
    /\ open' = FALSE
    /\ asked' = [v \in InvocationId |->
                   IF phase[v] \in {"admitted", "started"} THEN Raise(asked[v], "Shutdown")
                                                           ELSE asked[v]]
    /\ Goto("stopping")
    /\ UNCHANGED <<table, guard, calls, phase, told, outcome, owner, history>>

ShutdownReturns ==
    /\ spc = "stopping"
    /\ \A v \in InvocationId : phase[v] \notin {"admitted", "started"}
    /\ Idle
    /\ UNCHANGED <<table, guard, calls, core, history>>

-----------------------------------------------------------------------------
(* The host.                                                               *)

\* Deltas, which the service only re-emits, are left out.
HostStarts(v) ==
    /\ Host!Start(v)
    /\ UNCHANGED <<asked, table, guard, control, calls, owner, open, history>>

\* Its dispatch thread calls the observer, which posts the event.
HostFinishes(v) ==
    /\ told' = [told EXCEPT ![v] = @ + 1]
    /\ Host!Finish(v)
    /\ posted' = Append(posted, Finished(v, outcome'[v]))
    /\ UNCHANGED <<asked, table, guard, spc, hand, calls, owner, open, history>>

\* Only API chats have a deadline.
HostDeadline(v) ==
    /\ phase[v] \in {"admitted", "started"} /\ owner[v] \in Chat
    /\ Raise(asked[v], "Deadline") # asked[v]
    /\ asked' = Stopped(v, "Deadline")
    /\ UNCHANGED <<table, guard, control, calls, phase, told, outcome, owner, open, history>>

-----------------------------------------------------------------------------
Submitting == \/ \E j \in Job : SubmitBatch(j) \/ \E b \in BOOLEAN : SubmitNative(j, b)
              \/ \E c \in Chat : SubmitChat(c)

Cancelling(t) == CancelRequests(t) \/ CancelCalls(t)

ServiceThread ==
    \/ TakeHandler \/ SubmitChecks \/ SubmitRefused \/ SubmitRecords \/ SubmitInstalls
    \/ JobFinished \/ JobChecked \/ FinishJob
    \/ ChatChecks \/ ChatCancelled \/ ChatRefused \/ ChatInstalls \/ ChatReplaysCancel
    \/ ChatFinished \/ ShutdownReturns
    \/ \E v \in InvocationId : SubmitAccepted(v) \/ ChatAccepted(v)

HostDelivers(v) == HostStarts(v) \/ HostFinishes(v)

Next ==
    \/ Submitting
    \/ \E t \in Canceller : \/ Cancelling(t)
                            \/ \E j \in Job : CancelFinds(t, j)
                            \/ \E c \in Chat : CancelChat(t, c)
    \/ \E j \in Job : PreemptBatch(j)
    \/ ServiceThread \/ Shutdown
    \/ \E v \in InvocationId : HostDelivers(v) \/ HostDeadline(v)

\* Threads inside a call run on, and the host delivers what it has admitted
\* (EveryInvocationFinishes of the host); nobody has to submit or cancel.
Fairness == /\ WF_vars(ServiceThread)
            /\ \A t \in Canceller : WF_vars(Cancelling(t))
            /\ \A v \in InvocationId : WF_vars(HostDelivers(v))

Spec == Init /\ [][Next]_vars /\ Fairness

-----------------------------------------------------------------------------
Live(v) == phase[v] \in {"admitted", "started"}

\* Whoever asked for v to be cancelled has been told yes.
CancelWanted(w) == IF w \in Job THEN ticket[w].requested ELSE chat[w].cancelRequested

\* A call that will still carry the cancellation to v: the service thread before
\* it has installed the handle, or a cancel() that has yet to call it.
CancelUnderway(v) ==
    \/ hand.inv = v /\ spc \in {"record", "install", "chatInstall", "chatCancel"}
    \/ \E t \in Canceller : cpc[t] = "call" /\ ctarget[t] = v

\* A cancellation that was accepted reaches the invocation the job or chat runs
\* on, whichever came first, the cancel() or the handle, and across the hand-over
\* to the translation back (TranslationJobTicket: "cancellation is sticky").
CancelReachesCore ==
    \A v \in InvocationId :
        Live(v) /\ CancelWanted(owner[v]) /\ ~CancelUnderway(v)
          => StopPriority(asked[v]) >= StopPriority("UserCancel")

\* Each invocation the host still has belongs to a record, at most one per
\* record, and the record is not answered before it ends (finishJob() erases).
LiveWorkIsOwned ==
    \A v \in InvocationId : Live(v) =>
        /\ owner[v] \in jobs \cup chats
        /\ answered[owner[v]] = "nothing"
        /\ \A u \in InvocationId : Live(u) /\ owner[u] = owner[v] => u = v

\* The trace guard counts the chats the host may be working for.
GuardCountsChats ==
    guard = Cardinality({v \in InvocationId : Live(v) /\ owner[v] \in Chat})
            + Cardinality({k \in 1 .. Len(posted) : posted[k].kind = "chatFinished"})
            + (IF spc \in {"chatCore", "chatFinished"} THEN 1 ELSE 0)

\* The service's tables agree with the work of the host across refusals, late
\* events and cancellations.  The trace guard is never released under a running
\* chat, and never stays up and silences the traces of native work for good.
TablesMatchWork == TypeOK /\ LiveWorkIsOwned /\ GuardCountsChats

\* Every job and every chat is answered, whatever is cancelled, preempted,
\* refused or shut down.
EveryClientAnswered == \A w \in Client : (w \in jobs \cup chats) ~> (answered[w] # "nothing")
===========================================================================
