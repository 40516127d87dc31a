------------------------ MODULE InferenceServiceProofs ------------------------
(***************************************************************************)
(* InferenceService keeps TablesMatchWork and CancelReachesCore, for any   *)
(* jobs, chats, invocations and cancelling threads.                        *)
(***************************************************************************)
EXTENDS InferenceService, SequenceTheorems, FiniteSetTheorems, FunctionTheorems, TLAPS

JobStep  == {"submit", "core", "record", "install", "finished", "check", "finish"}
ChatStep == {"chatSubmit", "chatCancelled", "chatCore", "chatInstall", "chatCancel",
             "chatFinished"}

\* The steps at which an invocation has been accepted and its handle is not yet
\* where a cancel() would find it, or the replay of a cancel() is still to come.
Installing == {"record", "install", "chatInstall", "chatCancel"}

\* Where the work of a job or chat may be: in the queue of handlers, in the hand
\* of the service thread, with the host.
Queued  == {posted[k].who : k \in DOMAIN posted}
Held    == IF spc \in (JobStep \cup ChatStep) \ Installing THEN {hand.who} ELSE {}
Running == {owner[v] : v \in {u \in InvocationId : Live(u)}}

\* Handlers are about jobs or about chats, as their steps are; the invocation
\* being installed is of the job or chat in hand, or its completion is queued.
HandInv ==
    /\ \A k \in DOMAIN posted : \/ posted[k].kind \in {"submit", "finished"} /\ posted[k].who \in Job
                                \/ posted[k].kind \in {"chatSubmit", "chatFinished"} /\ posted[k].who \in Chat
    /\ spc \in JobStep => hand.who \in Job
    /\ spc \in ChatStep => hand.who \in Chat
    /\ spc \in Installing => /\ hand.inv \in InvocationId /\ owner[hand.inv] = hand.who
                             /\ Live(hand.inv) \/ hand.who \in Queued

CallInv ==
    \A t \in Canceller : /\ cpc[t] = "request" => ctarget[t] \in Job
                         /\ cpc[t] = "call" => ctarget[t] \in InvocationId

\* The work of each job and chat with a record is in one place, once, and no
\* other work is anywhere.
PlaceInv ==
    /\ jobs \cup chats = Queued \cup Held \cup Running
    /\ Queued \cap Held = {} /\ Queued \cap Running = {} /\ Held \cap Running = {}
    /\ \A i, k \in DOMAIN posted : posted[i].who = posted[k].who => i = k
    /\ \A u, v \in InvocationId : Live(u) /\ Live(v) /\ owner[u] = owner[v] => u = v

\* A record is there until its job or chat is answered, and the ticket is open.
RecordInv ==
    /\ \A w \in jobs \cup chats : answered[w] = "nothing"
    /\ \A j \in Job : answered[j] = "nothing" => ~ticket[j].completed

\* A cancel() finds the invocation a job or chat runs on, or its installation is
\* still to come.
HandleInv ==
    /\ \A v \in InvocationId : Live(v) =>
          /\ owner[v] \in Job => \/ ticket[owner[v]].callback = v
                                 \/ hand.inv = v /\ spc \in {"record", "install"}
          /\ owner[v] \in Chat => /\ chat[owner[v]].running
                                  /\ \/ chat[owner[v]].handle = v
                                     \/ hand.inv = v /\ spc = "chatInstall"
    /\ spc = "chatCore" => chat[hand.who].running

\* The chats the host works for.
LiveChats == {v \in InvocationId : Live(v) /\ owner[v] \in Chat}

IInv == /\ TypeOK /\ HandInv /\ CallInv /\ PlaceInv /\ RecordInv /\ HandleInv /\ CancelReachesCore
        /\ IsFiniteSet(LiveChats) /\ GuardCountsChats

-----------------------------------------------------------------------------
(* The constants and the records.                                          *)

LEMMA NoneFacts == None \notin Job /\ None \notin Chat /\ None \notin InvocationId /\ Job \cap Chat = {}
BY JobAssumption

LEMMA NewRecords ==
    /\ \A b \in BOOLEAN : NewJob(b) \in JobRecord
    /\ NewChat \in ChatRecord /\ NewTicket \in Ticket
BY DEF NewJob, NewChat, NewTicket, JobRecord, ChatRecord, Ticket

LEMMA HandlerTypes ==
    /\ NoHandler \in Handler /\ NoHandler.who = None
    /\ \A w \in Client : /\ Submission(w) \in Handler /\ Submission(w).who = w
                         /\ w \in Job => Submission(w).kind = "submit"
                         /\ w \in Chat => Submission(w).kind = "chatSubmit"
BY NoneFacts DEF NoHandler, Submission, Handler, TranslationState, Client

\* A Finished event of an invocation with an owner.
LEMMA FinishedType ==
    ASSUME NEW v \in InvocationId, NEW r, owner[v] \in Client
    PROVE  /\ Finished(v, r) \in Handler /\ Finished(v, r).who = owner[v]
           /\ owner[v] \in Job => Finished(v, r).kind = "finished"
           /\ owner[v] \in Chat => Finished(v, r).kind = "chatFinished"
<1>1. MapFinishState(r) \in TranslationState
  BY DEF MapFinishState, TranslationState
<1> QED
  BY <1>1, NoneFacts DEF Finished, Handler, Client

LEMMA HandChanges ==
    ASSUME hand \in Handler
    PROVE  /\ \A s \in TranslationState : /\ [hand EXCEPT !.state = s] \in Handler
                                          /\ [hand EXCEPT !.state = s].who = hand.who
                                          /\ [hand EXCEPT !.state = s].inv = hand.inv
           /\ \A v \in InvocationId : /\ [hand EXCEPT !.inv = v] \in Handler
                                      /\ [hand EXCEPT !.inv = v].who = hand.who
                                      /\ [hand EXCEPT !.inv = v].inv = v
BY DEF Handler

LEMMA RaiseFacts ==
    \A a, r \in StopReason : /\ Raise(a, r) \in StopReason
                             /\ StopPriority(Raise(a, r)) >= StopPriority(a)
                             /\ StopPriority(Raise(a, r)) >= StopPriority(r)
                             /\ StopPriority(a) \in Int
BY DEF Raise, StopPriority, StopReason

\* Stopping an invocation raises its reason if the host still has it.
LEMMA StoppedFacts ==
    ASSUME NEW v \in InvocationId, NEW r \in StopReason, asked \in [InvocationId -> StopReason],
           asked' = Stopped(v, r)
    PROVE  /\ asked' \in [InvocationId -> StopReason]
           /\ \A u \in InvocationId : StopPriority(asked'[u]) >= StopPriority(asked[u])
           /\ Live(v) => StopPriority(asked'[v]) >= StopPriority(r)
<1>1. CASE Live(v)
  <2>1. asked' = [asked EXCEPT ![v] = Raise(asked[v], r)]
    BY <1>1 DEF Stopped, Live
  <2>2. Raise(asked[v], r) \in StopReason /\ \A u \in InvocationId : asked[u] \in StopReason
    BY RaiseFacts
  <2>3. asked' \in [InvocationId -> StopReason] /\ asked'[v] = Raise(asked[v], r)
    BY <2>1, <2>2
  <2>4. ASSUME NEW u \in InvocationId
        PROVE  StopPriority(asked'[u]) >= StopPriority(asked[u])
    <3>1. CASE u = v
      BY <2>2, <2>3, <3>1, RaiseFacts
    <3>2. CASE u # v
      <4>1. asked'[u] = asked[u] /\ asked[u] \in StopReason
        BY <2>1, <2>2, <3>2
      <4>2. StopPriority(asked[u]) \in Int
        BY <4>1, RaiseFacts
      <4> QED BY <4>1, <4>2
    <3> QED BY <3>1, <3>2
  <2>5. StopPriority(asked'[v]) >= StopPriority(r)
    BY <2>2, <2>3, RaiseFacts
  <2> QED BY <2>3, <2>4, <2>5
<1>2. CASE ~Live(v)
  <2>1. asked' = asked
    BY <1>2 DEF Stopped, Live
  <2>2. \A u \in InvocationId : StopPriority(asked[u]) \in Int
    BY RaiseFacts
  <2> QED BY <1>2, <2>1, <2>2
<1> QED BY <1>1, <1>2

-----------------------------------------------------------------------------
(* The queue of handlers.                                                  *)

LEMMA Posts ==
    ASSUME NEW h \in Handler, posted \in Seq(Handler), posted' = Append(posted, h)
    PROVE  /\ posted' \in Seq(Handler)
           /\ DOMAIN posted = 1 .. Len(posted) /\ Len(posted) \in Nat
           /\ DOMAIN posted' = 1 .. Len(posted) + 1
           /\ \A k \in DOMAIN posted : k \in DOMAIN posted' /\ posted'[k] = posted[k]
           /\ \A k \in DOMAIN posted' : k \in DOMAIN posted \/ k = Len(posted) + 1
           /\ posted'[Len(posted) + 1] = h
           /\ Queued' = Queued \cup {h.who}
<1>1. /\ posted' \in Seq(Handler) /\ Len(posted') = Len(posted) + 1 /\ Len(posted) \in Nat
      /\ \A i \in 1 .. Len(posted) : posted'[i] = posted[i]
      /\ posted'[Len(posted) + 1] = h
  BY AppendProperties
<1>2. DOMAIN posted = 1 .. Len(posted) /\ DOMAIN posted' = 1 .. Len(posted) + 1
  BY <1>1
<1>3. /\ \A k \in DOMAIN posted : k \in DOMAIN posted' /\ posted'[k] = posted[k]
      /\ \A k \in DOMAIN posted' : k \in DOMAIN posted \/ k = Len(posted) + 1
      /\ Len(posted) + 1 \in DOMAIN posted'
  BY <1>1, <1>2
<1>4. Queued' = Queued \cup {h.who}
  BY <1>1, <1>3 DEF Queued
<1> QED BY <1>1, <1>2, <1>3, <1>4

LEMMA Takes ==
    ASSUME posted \in Seq(Handler), posted # <<>>, posted' = Tail(posted)
    PROVE  /\ posted' \in Seq(Handler) /\ Head(posted) \in Handler
           /\ 1 \in DOMAIN posted /\ Head(posted) = posted[1]
           /\ DOMAIN posted = 1 .. Len(posted) /\ Len(posted) \in Nat \ {0}
           /\ DOMAIN posted' = 1 .. Len(posted) - 1
           /\ \A k \in DOMAIN posted' : k \in Nat \ {0} /\ k + 1 \in DOMAIN posted /\ posted'[k] = posted[k + 1]
           /\ \A k \in DOMAIN posted : k = 1 \/ (k - 1 \in DOMAIN posted' /\ posted'[k - 1] = posted[k])
<1>1. /\ posted' \in Seq(Handler) /\ Head(posted) \in Handler /\ Len(posted') = Len(posted) - 1
      /\ \A i \in 1 .. Len(posted') : posted'[i] = posted[i + 1]
  BY HeadTailProperties
<1>2. Len(posted) \in Nat \ {0} /\ Head(posted) = posted[1]
  BY EmptySeq
<1>3. DOMAIN posted = 1 .. Len(posted) /\ DOMAIN posted' = 1 .. Len(posted) - 1
  BY <1>1
<1>4. /\ \A k \in DOMAIN posted' : k \in Nat \ {0} /\ k + 1 \in DOMAIN posted /\ posted'[k] = posted[k + 1]
      /\ 1 \in DOMAIN posted
  BY <1>1, <1>2, <1>3
<1>5. ASSUME NEW k \in DOMAIN posted, k # 1
      PROVE  k - 1 \in DOMAIN posted' /\ posted'[k - 1] = posted[k]
  <2>1. k - 1 \in DOMAIN posted' /\ (k - 1) + 1 = k
    BY <1>2, <1>3, <1>5
  <2> QED BY <1>4, <2>1
<1> QED BY <1>1, <1>2, <1>3, <1>4, <1>5

-----------------------------------------------------------------------------
(* The host's steps.                                                       *)

\* No stop reason is lowered.
Rising == /\ asked' \in [InvocationId -> StopReason]
          /\ \A u \in InvocationId : StopPriority(asked'[u]) >= StopPriority(asked[u])

LEMMA SameAsked ==
    ASSUME TypeOK, asked' = asked
    PROVE  Rising
<1>1. asked' \in [InvocationId -> StopReason]
  BY DEF TypeOK
<1>2. ASSUME NEW u \in InvocationId
      PROVE  StopPriority(asked'[u]) >= StopPriority(asked[u])
  <2>1. asked[u] \in StopReason
    BY DEF TypeOK
  <2>2. StopPriority(asked[u]) \in Int
    BY <2>1, RaiseFacts
  <2> QED BY <2>2
<1> QED BY <1>1, <1>2 DEF Rising

LEMMA Admission ==
    ASSUME TypeOK, NEW v \in InvocationId, hand.who \in Client, HostAdmits(v)
    PROVE  /\ phase' \in [InvocationId -> {"unborn", "admitted", "started", "finished"}]
           /\ owner' \in [InvocationId -> Client \cup {None}]
           /\ UNCHANGED <<told, outcome, open>>
           /\ ~Live(v) /\ \A u \in InvocationId : Live(u)' <=> Live(u) \/ u = v
           /\ owner'[v] = hand.who /\ \A u \in InvocationId \ {v} : owner'[u] = owner[u]
           /\ Rising
<1>1. /\ phase[v] = "unborn" /\ phase' = [phase EXCEPT ![v] = "admitted"]
      /\ owner' = [owner EXCEPT ![v] = hand.who] /\ UNCHANGED <<told, outcome, open>>
  BY DEF HostAdmits, Host!Admit
<1>2. /\ phase' \in [InvocationId -> {"unborn", "admitted", "started", "finished"}]
      /\ phase'[v] = "admitted" /\ \A u \in InvocationId \ {v} : phase'[u] = phase[u]
      /\ owner' \in [InvocationId -> Client \cup {None}]
      /\ owner'[v] = hand.who /\ \A u \in InvocationId \ {v} : owner'[u] = owner[u]
  BY <1>1 DEF TypeOK
<1>3. ~Live(v) /\ \A u \in InvocationId : Live(u)' <=> Live(u) \/ u = v
  BY <1>1, <1>2 DEF Live
<1>4. PICK P : asked' = [u \in InvocationId |-> IF u \in P THEN Raise(asked[u], "Preempted")
                                                           ELSE asked[u]]
  BY DEF HostAdmits
<1>5. \A u \in InvocationId : /\ asked[u] \in StopReason /\ StopPriority(asked[u]) \in Int
                              /\ Raise(asked[u], "Preempted") \in StopReason
                              /\ StopPriority(Raise(asked[u], "Preempted")) >= StopPriority(asked[u])
  BY RaiseFacts DEF TypeOK, StopReason
<1>6. asked' \in [InvocationId -> StopReason]
  BY <1>4, <1>5
<1>7. ASSUME NEW u \in InvocationId
      PROVE  StopPriority(asked'[u]) >= StopPriority(asked[u])
  <2>1. asked'[u] = Raise(asked[u], "Preempted") \/ asked'[u] = asked[u]
    BY <1>4
  <2> QED BY <1>5, <2>1
<1> QED BY <1>1, <1>2, <1>3, <1>6, <1>7 DEF Rising

LEMMA Start ==
    ASSUME TypeOK, NEW v \in InvocationId, HostStarts(v)
    PROVE  /\ phase' \in [InvocationId -> {"unborn", "admitted", "started", "finished"}]
           /\ told' \in [InvocationId -> Nat]
           /\ \A u \in InvocationId : Live(u)' <=> Live(u)
           /\ UNCHANGED <<asked, table, guard, control, calls, owner, open, history>>
BY DEF TypeOK, HostStarts, Host!Start, Live

LEMMA Finish ==
    ASSUME TypeOK, NEW v \in InvocationId, HostFinishes(v)
    PROVE  /\ phase' \in [InvocationId -> {"unborn", "admitted", "started", "finished"}]
           /\ told' \in [InvocationId -> Nat]
           /\ Live(v) /\ \A u \in InvocationId : Live(u)' <=> Live(u) /\ u # v
           /\ posted' = Append(posted, Finished(v, outcome'[v]))
           /\ UNCHANGED <<asked, table, guard, spc, hand, calls, owner, open, history>>
BY DEF TypeOK, HostFinishes, Host!Finish, Live

LEMMA ShutdownAsks ==
    ASSUME TypeOK, Shutdown
    PROVE  Rising
<1>1. asked' = [v \in InvocationId |->
                   IF phase[v] \in {"admitted", "started"} THEN Raise(asked[v], "Shutdown")
                                                           ELSE asked[v]]
  BY DEF Shutdown
<1>2. \A u \in InvocationId : /\ asked[u] \in StopReason /\ StopPriority(asked[u]) \in Int
                              /\ Raise(asked[u], "Shutdown") \in StopReason
                              /\ StopPriority(Raise(asked[u], "Shutdown")) >= StopPriority(asked[u])
  BY RaiseFacts DEF TypeOK, StopReason
<1>3. asked' \in [InvocationId -> StopReason]
  BY <1>1, <1>2
<1>4. ASSUME NEW u \in InvocationId
      PROVE  StopPriority(asked'[u]) >= StopPriority(asked[u])
  <2>1. asked'[u] = Raise(asked[u], "Shutdown") \/ asked'[u] = asked[u]
    BY <1>1
  <2> QED BY <1>2, <2>1
<1> QED BY <1>3, <1>4 DEF Rising

\* Every step keeps the stop reasons or raises them.
LEMMA AlwaysRising == TypeOK /\ HandInv /\ CallInv /\ [Next]_vars => Rising
<1> SUFFICES ASSUME TypeOK, HandInv, CallInv, [Next]_vars
             PROVE  Rising
  OBVIOUS
<1>0. {"UserCancel", "Preempted", "Deadline"} \subseteq StopReason /\ asked \in [InvocationId -> StopReason]
  BY DEF StopReason, TypeOK
<1>1. ASSUME NEW v \in InvocationId, NEW r \in {"UserCancel", "Preempted", "Deadline"}, asked' = Stopped(v, r)
      PROVE  Rising
  BY <1>0, <1>1, StoppedFacts DEF Rising
<1>2. ASSUME NEW j \in Job, PreemptBatch(j)
      PROVE  Rising
  <2>1. job[j].handle \in InvocationId /\ asked' = Stopped(job[j].handle, "Preempted")
    BY <1>2 DEF PreemptBatch, TypeOK, JobRecord
  <2>2. PICK v \in InvocationId : v = job[j].handle
    BY <2>1
  <2> QED BY <1>1, <2>1, <2>2
<1>3. ASSUME NEW t \in Canceller, CancelCalls(t)
      PROVE  Rising
  <2>1. ctarget[t] \in InvocationId /\ asked' = Stopped(ctarget[t], "UserCancel")
    BY <1>3 DEF CancelCalls, CallInv
  <2>2. PICK v \in InvocationId : v = ctarget[t]
    BY <2>1
  <2> QED BY <1>1, <2>1, <2>2
<1>4. ASSUME SubmitInstalls \/ ChatReplaysCancel
      PROVE  Rising
  <2>1. hand.inv \in InvocationId /\ (asked' = asked \/ asked' = Stopped(hand.inv, "UserCancel"))
    BY <1>4 DEF SubmitInstalls, ChatReplaysCancel, HandInv, Installing
  <2>2. PICK v \in InvocationId : v = hand.inv
    BY <2>1
  <2> QED BY <1>1, <2>1, <2>2, SameAsked
<1>5. ASSUME NEW v \in InvocationId, SubmitAccepted(v) \/ ChatAccepted(v)
      PROVE  Rising
  <2>1. hand.who \in Client /\ HostAdmits(v)
    BY <1>5 DEF SubmitAccepted, ChatAccepted, HandInv, JobStep, ChatStep, Client
  <2> QED BY <2>1, Admission
<1>6. ASSUME NEW v \in InvocationId, HostDeadline(v)
      PROVE  Rising
  BY <1>1, <1>6 DEF HostDeadline
<1>7. CASE Shutdown
  BY <1>7, ShutdownAsks
<1>8. ASSUME asked' = asked
      PROVE  Rising
  BY <1>8, SameAsked
<1>9. CASE UNCHANGED vars
  BY <1>8, <1>9 DEF vars, core
<1>10. CASE Submitting
  BY <1>8, <1>10 DEF Submitting, SubmitBatch, SubmitNative, SubmitChat, Insert, core
<1>11. ASSUME NEW t \in Canceller,
              \/ CancelRequests(t)
              \/ \E j \in Job : CancelFinds(t, j)
              \/ \E c \in Chat : CancelChat(t, c)
       PROVE  Rising
  BY <1>8, <1>11 DEF CancelRequests, CancelFinds, CancelChat, core
<1>12. CASE \/ TakeHandler \/ SubmitChecks \/ SubmitRefused \/ SubmitRecords
            \/ JobFinished \/ JobChecked \/ FinishJob
  BY <1>8, <1>12 DEF TakeHandler, SubmitChecks, SubmitRefused, SubmitRecords, JobFinished,
     JobChecked, FinishJob, core
<1>13. CASE \/ ChatChecks \/ ChatCancelled \/ ChatRefused \/ ChatInstalls
            \/ ChatFinished \/ ShutdownReturns
  <2>1. asked' = asked
    BY <1>13 DEF ChatChecks, ChatCancelled, ChatRefused, ChatInstalls, ChatFinished,
       ShutdownReturns, core,
                 AnswerChat
  <2> QED BY <1>8, <2>1
<1>14. ASSUME NEW v \in InvocationId, HostDelivers(v)
       PROVE  Rising
  BY <1>8, <1>14 DEF HostDelivers, HostStarts, HostFinishes
<1> QED
  BY <1>2, <1>3, <1>4, <1>5, <1>6, <1>7, <1>9, <1>10, <1>11, <1>12, <1>13, <1>14
     DEF Next, Cancelling, ServiceThread

-----------------------------------------------------------------------------
(* Types.                                                                  *)

LEMMA IInvInit == Init => IInv
<1> SUFFICES ASSUME Init
             PROVE  IInv
  OBVIOUS
<1>1. /\ phase = [i \in InvocationId |-> "unborn"] /\ told = [i \in InvocationId |-> 0]
      /\ asked = [i \in InvocationId |-> "None"]
  BY DEF Init, Host!Init
<1>2. posted = <<>> /\ DOMAIN posted = {} /\ Len(posted) = 0 /\ posted \in Seq(Handler)
  BY DEF Init
<1>3. \A v \in InvocationId : ~Live(v)
  BY <1>1 DEF Live
<1>4. TypeOK
  BY <1>1, <1>2, NewRecords, HandlerTypes
     DEF Init, TypeOK, ServiceStep, StopReason, Client
<1>5. HandInv /\ CallInv
  BY <1>2 DEF Init, HandInv, CallInv, JobStep, ChatStep, Installing
<1>6. PlaceInv
  <2>1. Queued = {} /\ Held = {} /\ Running = {}
    BY <1>2, <1>3 DEF Init, Queued, Held, Running, JobStep, ChatStep
  <2> QED BY <1>2, <1>3, <2>1 DEF Init, PlaceInv
<1>7. RecordInv
  BY DEF Init, RecordInv, NewTicket
<1>8. HandleInv /\ CancelReachesCore
  BY <1>3 DEF Init, HandleInv, CancelReachesCore
<1>9. IsFiniteSet(LiveChats) /\ GuardCountsChats
  <2>1. LiveChats = {} /\ {v \in InvocationId : Live(v) /\ owner[v] \in Chat} = {}
    BY <1>3 DEF LiveChats
  <2>2. {k \in 1 .. Len(posted) : posted[k].kind = "chatFinished"} = {}
    BY <1>2
  <2>3. IsFiniteSet({}) /\ Cardinality({}) = 0
    BY FS_EmptySet
  <2>4. spc = "idle" /\ guard = 0
    BY DEF Init
  <2>5. guard = Cardinality({}) + Cardinality({}) + 0
    BY <2>3, <2>4
  <2>6. GuardCountsChats
    BY <2>1, <2>2, <2>4, <2>5 DEF GuardCountsChats
  <2> QED BY <2>1, <2>3, <2>6
<1> QED BY <1>4, <1>5, <1>6, <1>7, <1>8, <1>9 DEF IInv

LEMMA RisingTypes == Rising => asked' \in [InvocationId -> StopReason]
BY DEF Rising

\* The guard is up while a chat is refused or answered.
LEMMA GuardUp ==
    ASSUME TypeOK, IsFiniteSet(LiveChats), GuardCountsChats, spc \in {"chatCore", "chatFinished"}
    PROVE  guard - 1 \in Nat
<1> DEFINE due == {k \in 1 .. Len(posted) : posted[k].kind = "chatFinished"}
<1>1. Len(posted) \in Nat
  BY DEF TypeOK
<1>2. IsFiniteSet(1 .. Len(posted))
  BY <1>1, FS_Interval
<1>3. IsFiniteSet(due)
  BY <1>2, FS_Subset
<1>4. Cardinality(LiveChats) \in Nat /\ Cardinality(due) \in Nat
  BY <1>3, FS_CardinalityType
<1>5. guard = Cardinality(LiveChats) + Cardinality(due) + 1
  BY DEF GuardCountsChats, LiveChats
<1> HIDE DEF due
<1> QED BY <1>4, <1>5

LEMMA FieldChanges ==
    /\ \A r \in JobRecord : /\ \A b \in BOOLEAN : [r EXCEPT !.running = b] \in JobRecord
                            /\ \A v \in InvocationId : [r EXCEPT !.handle = v] \in JobRecord
    /\ \A r \in ChatRecord : /\ \A b \in BOOLEAN : /\ [r EXCEPT !.running = b] \in ChatRecord
                                                  /\ [r EXCEPT !.cancelRequested = b] \in ChatRecord
                             /\ \A v \in InvocationId : [r EXCEPT !.handle = v] \in ChatRecord
    /\ \A r \in Ticket : /\ [r EXCEPT !.requested = TRUE] \in Ticket
                         /\ [r EXCEPT !.completed = TRUE, !.callback = None] \in Ticket
BY DEF JobRecord, ChatRecord, Ticket

LEMMA SubmissionTypes ==
    ASSUME TypeOK, Submitting
    PROVE  TypeOK'
<1>1. ASSUME NEW j \in Job, NEW b \in BOOLEAN, SubmitNative(j, b)
      PROVE  TypeOK'
  <2>1. Submission(j) \in Handler
    BY HandlerTypes DEF Client
  <2>2. posted' \in Seq(Handler)
    BY <1>1, <2>1, Posts DEF SubmitNative, TypeOK
  <2>3. jobs' \subseteq Job /\ job' \in [Job -> JobRecord] /\ batch' \subseteq Job
    BY <1>1, NewRecords DEF SubmitNative, Insert, TypeOK
  <2> QED
    BY <1>1, <2>2, <2>3 DEF SubmitNative, Insert, TypeOK, core, calls
<1>2. ASSUME NEW j \in Job, SubmitBatch(j)
      PROVE  TypeOK'
  <2>1. hand' \in Handler /\ spc' \in ServiceStep
    BY <1>2, HandlerTypes DEF SubmitBatch, Client, ServiceStep
  <2>2. jobs' \subseteq Job /\ job' \in [Job -> JobRecord] /\ batch' \subseteq Job
    BY <1>2, NewRecords DEF SubmitBatch, Insert, TypeOK
  <2> QED
    BY <1>2, <2>1, <2>2 DEF SubmitBatch, Insert, TypeOK, core, calls
<1>3. ASSUME NEW c \in Chat, SubmitChat(c)
      PROVE  TypeOK'
  <2>1. Submission(c) \in Handler
    BY HandlerTypes DEF Client
  <2>2. posted' \in Seq(Handler)
    BY <1>3, <2>1, Posts DEF SubmitChat, TypeOK
  <2>3. chats' \subseteq Chat /\ chat' \in [Chat -> ChatRecord]
    BY <1>3, NewRecords DEF SubmitChat, TypeOK
  <2> QED
    BY <1>3, <2>2, <2>3 DEF SubmitChat, TypeOK, core, calls, history
<1> QED BY <1>1, <1>2, <1>3 DEF Submitting

LEMMA CancelTypes ==
    ASSUME TypeOK, CallInv, Rising, NEW t \in Canceller,
           \/ Cancelling(t)
           \/ \E j \in Job : CancelFinds(t, j)
           \/ \E c \in Chat : CancelChat(t, c)
    PROVE  TypeOK'
<1>1. CASE CancelRequests(t)
  <2>1. ctarget[t] \in Job
    BY <1>1 DEF CancelRequests, CallInv
  <2>2. PICK j \in Job : j = ctarget[t]
    BY <2>1
  <2>3. ticket[j] \in Ticket
    BY DEF TypeOK
  <2>4. ticket' \in [Job -> Ticket] /\ accepted' \subseteq Client
    <3>1. ticket' = ticket \/ ticket' = [ticket EXCEPT ![j] = [ticket[j] EXCEPT !.requested = TRUE]]
      BY <1>1, <2>2 DEF CancelRequests
    <3>2. ticket' \in [Job -> Ticket]
      BY <2>3, <3>1, FieldChanges DEF TypeOK
    <3>3. accepted' \subseteq Client
      BY <1>1, <2>2 DEF CancelRequests, TypeOK, Client
    <3> QED BY <3>2, <3>3
  <2>5. ticket[j].callback \in InvocationId \cup {None}
    BY <2>3 DEF Ticket
  <2>6. cpc' \in [Canceller -> {"idle", "request", "call"}]
    <3>1. cpc' = [cpc EXCEPT ![t] = "call"] \/ cpc' = [cpc EXCEPT ![t] = "idle"]
      BY <1>1 DEF CancelRequests, CancelReturns
    <3>2. cpc \in [Canceller -> {"idle", "request", "call"}]
      BY DEF TypeOK
    <3> QED BY <3>1, <3>2
  <2>7. ctarget' \in [Canceller -> Client \cup InvocationId \cup {None}]
    BY <1>1, <2>2, <2>5 DEF CancelRequests, CancelReturns, TypeOK
  <2> QED
    BY <1>1, <2>4, <2>6, <2>7 DEF CancelRequests, TypeOK, core, control
<1>2. CASE CancelCalls(t)
  BY <1>2, RisingTypes DEF CancelCalls, CancelReturns, TypeOK, table, control, history
<1>3. ASSUME NEW j \in Job, CancelFinds(t, j)
      PROVE  TypeOK'
  BY <1>3 DEF CancelFinds, TypeOK, table, control, core, history, Client
<1>4. ASSUME NEW c \in Chat, CancelChat(t, c)
      PROVE  TypeOK'
  <2>1. chat[c] \in ChatRecord
    BY DEF TypeOK
  <2>2. chat' \in [Chat -> ChatRecord] /\ accepted' \subseteq Client
    BY <1>4, <2>1 DEF CancelChat, TypeOK, ChatRecord, Client
  <2>3. chat[c].handle \in InvocationId \cup {None}
    BY <2>1 DEF ChatRecord
  <2>4. cpc' \in [Canceller -> {"idle", "request", "call"}]
    <3>1. cpc' = [cpc EXCEPT ![t] = "call"] \/ cpc' = cpc
      BY <1>4 DEF CancelChat, calls
    <3>2. cpc \in [Canceller -> {"idle", "request", "call"}]
      BY DEF TypeOK
    <3> QED BY <3>1, <3>2
  <2>5. ctarget' \in [Canceller -> Client \cup InvocationId \cup {None}]
    BY <1>4, <2>3 DEF CancelChat, TypeOK, calls
  <2> QED
    BY <1>4, <2>2, <2>4, <2>5 DEF CancelChat, TypeOK, core, control
<1> QED BY <1>1, <1>2, <1>3, <1>4 DEF Cancelling

\* The record a handler is about.
LEMMA InHand ==
    ASSUME TypeOK, HandInv
    PROVE  /\ spc \in JobStep => /\ hand.who \in Job /\ job[hand.who] \in JobRecord
                                 /\ ticket[hand.who] \in Ticket
           /\ spc \in ChatStep => hand.who \in Chat /\ chat[hand.who] \in ChatRecord
           /\ hand.inv \in InvocationId \cup {None} /\ hand.state \in TranslationState
           /\ hand.who \in Client \cup {None}
BY DEF TypeOK, HandInv, Handler

LEMMA StateSet ==
    ASSUME TypeOK, NEW s \in TranslationState, FinishWith(s)
    PROVE  hand' \in Handler /\ spc' = "finish" /\ posted' = posted
BY HandChanges DEF FinishWith, TypeOK

LEMMA JobTypes ==
    ASSUME TypeOK, HandInv, Rising,
           \/ TakeHandler \/ SubmitChecks \/ SubmitRefused \/ SubmitRecords \/ SubmitInstalls
           \/ JobFinished \/ JobChecked \/ FinishJob \/ \E v \in InvocationId : SubmitAccepted(v)
    PROVE  TypeOK'
<1>0. {"Cancelled", "Failed"} \subseteq TranslationState /\ NoHandler \in Handler
  BY HandlerTypes DEF TranslationState
<1>1. CASE TakeHandler
  <2>1. posted' \in Seq(Handler) /\ hand' \in Handler
    BY <1>1, Takes DEF TakeHandler, TypeOK
  <2>2. spc' \in ServiceStep
    <3>1. spc' = posted[1].kind /\ 1 \in DOMAIN posted
      BY <1>1, Takes DEF TakeHandler, TypeOK
    <3> QED BY <3>1 DEF HandInv, ServiceStep
  <2> QED
    BY <1>1, <2>1, <2>2 DEF TakeHandler, TypeOK, table, calls, core, history
<1>2. CASE SubmitChecks
  <2>1. hand.who \in Job /\ job[hand.who] \in JobRecord
    BY <1>2, InHand DEF SubmitChecks, JobStep
  <2>2. job' \in [Job -> JobRecord]
    <3>1. PICK w \in Job, r \in JobRecord : w = hand.who /\ r = [job[hand.who] EXCEPT !.running = TRUE]
      BY <2>1, FieldChanges
    <3>2. job' = job \/ job' = [job EXCEPT ![w] = r]
      BY <3>1, <1>2 DEF SubmitChecks
    <3> QED BY <3>2 DEF TypeOK
  <2>3. hand' \in Handler /\ spc' \in ServiceStep /\ posted' = posted
    BY <1>0, <1>2, StateSet DEF SubmitChecks, Goto, ServiceStep, TypeOK
  <2> QED
    BY <1>2, <2>2, <2>3 DEF SubmitChecks, TypeOK, calls, core, history
<1>3. CASE SubmitRefused
  <2>1. hand' \in Handler /\ spc' \in ServiceStep /\ posted' = posted
    BY <1>0, <1>3, StateSet DEF SubmitRefused, ServiceStep
  <2> QED
    BY <1>3, <2>1 DEF SubmitRefused, TypeOK, table, calls, core, history
<1>4. CASE SubmitRecords
  <2>1. hand.who \in Job /\ job[hand.who] \in JobRecord /\ hand.inv \in InvocationId
    BY <1>4, InHand DEF SubmitRecords, JobStep, HandInv, Installing
  <2>2. job' \in [Job -> JobRecord]
    <3>1. PICK w \in Job, r \in JobRecord : w = hand.who /\ r = [job[hand.who] EXCEPT !.handle = hand.inv]
      BY <2>1, FieldChanges
    <3>2. job' = job \/ job' = [job EXCEPT ![w] = r]
      BY <3>1, <1>4 DEF SubmitRecords
    <3> QED BY <3>2 DEF TypeOK
  <2>3. hand' \in Handler /\ spc' \in ServiceStep /\ posted' = posted
    BY <1>0, <1>4 DEF SubmitRecords, Goto, Idle, ServiceStep, TypeOK
  <2> QED
    BY <1>4, <2>2, <2>3 DEF SubmitRecords, TypeOK, calls, core, history
<1>5. CASE SubmitInstalls
  <2>1. hand.who \in Job /\ ticket[hand.who] \in Ticket /\ hand.inv \in InvocationId
    BY <1>5, InHand DEF SubmitInstalls, JobStep, HandInv, Installing
  <2>2. ticket' \in [Job -> Ticket]
    BY <1>5, <2>1 DEF SubmitInstalls, TypeOK, Ticket
  <2>3. hand' \in Handler /\ spc' \in ServiceStep /\ posted' = posted
    BY <1>0, <1>5 DEF SubmitInstalls, Idle, ServiceStep
  <2> QED
    BY <1>5, <2>2, <2>3, RisingTypes DEF SubmitInstalls, TypeOK, calls, history
<1>6. CASE JobFinished
  <2>1. hand.who \in Job /\ job[hand.who] \in JobRecord
    BY <1>6, InHand DEF JobFinished, JobStep
  <2>2. job' \in [Job -> JobRecord]
    <3>1. CASE hand.who \notin jobs
      BY <1>6, <3>1 DEF JobFinished, TypeOK
    <3>2. CASE hand.who \in jobs
      <4>1. PICK b \in BOOLEAN : job' = [job EXCEPT ![hand.who].running = FALSE,
                                                    ![hand.who].backStarted = @ \/ b]
        BY <1>6, <3>2 DEF JobFinished
      <4>2. \A x \in JobRecord : (x.backStarted \/ b) \in BOOLEAN
        OBVIOUS
      <4> QED BY <2>1, <4>1, <4>2 DEF TypeOK, JobRecord
    <3> QED BY <3>1, <3>2
  <2>3. hand' \in Handler /\ spc' \in ServiceStep /\ posted' = posted
    BY <1>0, <1>6 DEF JobFinished, Goto, Idle, ServiceStep, TypeOK
  <2> QED
    BY <1>6, <2>2, <2>3 DEF JobFinished, TypeOK, calls, core, history
<1>7. CASE JobChecked
  <2>1. hand' \in Handler /\ spc' \in ServiceStep /\ posted' = posted
    BY <1>0, <1>7, StateSet DEF JobChecked, Goto, ServiceStep, TypeOK
  <2> QED
    BY <1>7, <2>1 DEF JobChecked, TypeOK, table, calls, core, history
<1>8. CASE FinishJob
  <2>1. hand.who \in Job /\ ticket[hand.who] \in Ticket /\ hand.state \in TranslationState
    BY <1>8, InHand DEF FinishJob, JobStep
  <2>2. ticket' \in [Job -> Ticket]
    <3>1. PICK w \in Job, r \in Ticket : w = hand.who /\ r = [ticket[hand.who] EXCEPT !.completed = TRUE,
                                                                                    !.callback = None]
      BY <2>1, FieldChanges
    <3>2. ticket' = ticket \/ ticket' = [ticket EXCEPT ![w] = r]
      BY <3>1, <1>8, <2>1 DEF FinishJob, TypeOK
    <3> QED BY <3>2 DEF TypeOK
  <2>3. jobs' \subseteq Job /\ job' \in [Job -> JobRecord]
    BY <1>8, NewRecords DEF FinishJob, TypeOK
  <2>4. answered' \in [Client -> TranslationState \cup {"nothing"}]
    BY <1>8, <2>1 DEF FinishJob, TypeOK
  <2>5. hand' \in Handler /\ spc' \in ServiceStep /\ posted' = posted
    BY <1>0, <1>8 DEF FinishJob, Idle, ServiceStep
  <2> QED
    BY <1>8, <2>2, <2>3, <2>4, <2>5 DEF FinishJob, TypeOK, calls, core
<1>9. ASSUME NEW v \in InvocationId, SubmitAccepted(v)
      PROVE  TypeOK'
  <2>1. hand.who \in Client
    BY <1>9, InHand DEF SubmitAccepted, JobStep, Client
  <2>2. /\ phase' \in [InvocationId -> {"unborn", "admitted", "started", "finished"}]
        /\ owner' \in [InvocationId -> Client \cup {None}]
        /\ UNCHANGED <<told, outcome, open>>
    BY <1>9, <2>1, Admission DEF SubmitAccepted
  <2>3. hand' \in Handler /\ spc' \in ServiceStep /\ posted' = posted
    BY <1>9, HandChanges DEF SubmitAccepted, ServiceStep, TypeOK
  <2> QED
    BY <1>9, <2>2, <2>3, RisingTypes DEF SubmitAccepted, TypeOK, table, calls, history
<1> QED BY <1>1, <1>2, <1>3, <1>4, <1>5, <1>6, <1>7, <1>8, <1>9

LEMMA AnswerTypes ==
    ASSUME TypeOK, HandInv, spc \in ChatStep, NEW s \in TranslationState, AnswerChat(s)
    PROVE  /\ chats' \subseteq Chat /\ chat' \in [Chat -> ChatRecord]
           /\ answered' \in [Client -> TranslationState \cup {"nothing"}]
           /\ hand' \in Handler /\ spc' \in ServiceStep /\ posted' = posted
           /\ UNCHANGED <<jobs, job, ticket, calls, core, batch, accepted>>
<1>1. hand.who \in Chat
  BY InHand
<1>2. chats' \subseteq Chat /\ chat' \in [Chat -> ChatRecord]
  BY <1>1, NewRecords DEF AnswerChat, TypeOK
<1>3. answered' \in [Client -> TranslationState \cup {"nothing"}]
  BY DEF AnswerChat, TypeOK
<1> QED BY <1>2, <1>3, HandlerTypes DEF AnswerChat, Idle, ServiceStep

LEMMA ChatTypes ==
    ASSUME TypeOK, HandInv, Rising, IsFiniteSet(LiveChats), GuardCountsChats,
           \/ ChatChecks \/ ChatCancelled \/ ChatRefused \/ ChatInstalls \/ ChatReplaysCancel
           \/ ChatFinished \/ \E v \in InvocationId : ChatAccepted(v)
    PROVE  TypeOK'
<1>0. {"Cancelled", "Failed"} \subseteq TranslationState /\ NoHandler \in Handler
  BY HandlerTypes DEF TranslationState
<1>1. CASE ChatChecks
  <2>1. hand.who \in Chat /\ chat[hand.who] \in ChatRecord
    BY <1>1, InHand DEF ChatChecks, ChatStep
  <2>2. chat' \in [Chat -> ChatRecord] /\ guard' \in Nat
    <3>1. PICK w \in Chat, r \in ChatRecord : w = hand.who /\ r = [chat[hand.who] EXCEPT !.running = TRUE]
      BY <2>1, FieldChanges
    <3>2. chat' = chat \/ chat' = [chat EXCEPT ![w] = r]
      BY <3>1, <1>1 DEF ChatChecks
    <3>3. chat' \in [Chat -> ChatRecord]
      BY <3>2 DEF TypeOK
    <3>4. guard' \in Nat
      BY <1>1 DEF ChatChecks, TypeOK
    <3> QED BY <3>3, <3>4
  <2>3. hand' \in Handler /\ spc' \in ServiceStep /\ posted' = posted
    BY <1>0, <1>1 DEF ChatChecks, Goto, Idle, ServiceStep, TypeOK
  <2> QED
    BY <1>1, <2>2, <2>3 DEF ChatChecks, TypeOK, calls, core, history
<1>2. ASSUME NEW s \in TranslationState, AnswerChat(s), spc \in ChatStep, guard' \in Nat
      PROVE  TypeOK'
  BY <1>2, AnswerTypes DEF TypeOK, calls, core
<1>3. CASE ChatCancelled
  BY <1>0, <1>2, <1>3 DEF ChatCancelled, ChatStep, TypeOK
<1>4. CASE ChatRefused
  BY <1>0, <1>2, <1>4, GuardUp DEF ChatRefused, ChatStep
<1>5. CASE ChatFinished
  <2>1. PICK s \in TranslationState : s = hand.state
    BY InHand
  <2> QED BY <1>2, <1>5, <2>1, GuardUp DEF ChatFinished, ChatStep
<1>6. CASE ChatInstalls
  <2>1. hand.who \in Chat /\ chat[hand.who] \in ChatRecord /\ hand.inv \in InvocationId
    BY <1>6, InHand DEF ChatInstalls, ChatStep, HandInv, Installing
  <2>2. chat' \in [Chat -> ChatRecord]
    <3>1. PICK w \in Chat, r \in ChatRecord : w = hand.who /\ r = [chat[hand.who] EXCEPT !.handle = hand.inv]
      BY <2>1, FieldChanges
    <3>2. chat' = chat \/ chat' = [chat EXCEPT ![w] = r]
      BY <3>1, <1>6 DEF ChatInstalls
    <3> QED BY <3>2 DEF TypeOK
  <2>3. hand' \in Handler /\ spc' \in ServiceStep /\ posted' = posted
    BY <1>0, <1>6 DEF ChatInstalls, Goto, Idle, ServiceStep, TypeOK
  <2> QED
    BY <1>6, <2>2, <2>3 DEF ChatInstalls, TypeOK, calls, core, history
<1>7. CASE ChatReplaysCancel
  BY <1>0, <1>7, RisingTypes DEF ChatReplaysCancel, Idle, TypeOK, table, calls, history, ServiceStep
<1>8. ASSUME NEW v \in InvocationId, ChatAccepted(v)
      PROVE  TypeOK'
  <2>1. hand.who \in Client
    BY <1>8, InHand DEF ChatAccepted, ChatStep, Client
  <2>2. /\ phase' \in [InvocationId -> {"unborn", "admitted", "started", "finished"}]
        /\ owner' \in [InvocationId -> Client \cup {None}]
        /\ UNCHANGED <<told, outcome, open>>
    BY <1>8, <2>1, Admission DEF ChatAccepted
  <2>3. hand' \in Handler /\ spc' \in ServiceStep /\ posted' = posted
    BY <1>8, HandChanges DEF ChatAccepted, ServiceStep, TypeOK
  <2> QED
    BY <1>8, <2>2, <2>3, RisingTypes DEF ChatAccepted, TypeOK, table, calls, history
<1> QED BY <1>1, <1>3, <1>4, <1>5, <1>6, <1>7, <1>8

\* Each invocation the host has belongs to a job or a chat.
LEMMA LiveOwner ==
    ASSUME TypeOK, PlaceInv, NEW v \in InvocationId, Live(v)
    PROVE  owner[v] \in Running /\ owner[v] \in jobs \cup chats /\ owner[v] \in Client
BY DEF TypeOK, PlaceInv, Running, Client

LEMMA TypeNext == IInv /\ [Next]_vars => TypeOK'
<1> SUFFICES ASSUME IInv, [Next]_vars
             PROVE  TypeOK'
  OBVIOUS
<1>1. TypeOK /\ HandInv /\ CallInv /\ PlaceInv /\ IsFiniteSet(LiveChats) /\ GuardCountsChats /\ Rising
  BY AlwaysRising DEF IInv
<1>2. CASE UNCHANGED vars
  BY <1>1, <1>2 DEF vars, table, control, core, calls, history, TypeOK
<1>3. ASSUME NEW j \in Job, PreemptBatch(j)
      PROVE  TypeOK'
  BY <1>1, <1>3, RisingTypes DEF PreemptBatch, TypeOK, table, control, calls, history
<1>4. CASE Shutdown
  <2>1. spc' \in ServiceStep /\ open' \in BOOLEAN
    BY <1>4 DEF Shutdown, Goto, ServiceStep
  <2> QED BY <1>1, <1>4, <2>1, RisingTypes DEF Shutdown, Goto, TypeOK, table, calls, history
<1>8. CASE ShutdownReturns
  <2>1. spc' \in ServiceStep /\ hand' \in Handler
    BY <1>8, HandlerTypes DEF ShutdownReturns, Idle, ServiceStep
  <2> QED BY <1>1, <1>8, <2>1 DEF ShutdownReturns, Idle, TypeOK, table, calls, core, history
<1>5. ASSUME NEW v \in InvocationId, HostStarts(v)
      PROVE  TypeOK'
  BY <1>1, <1>5, Start DEF TypeOK, table, control, calls, history
<1>6. ASSUME NEW v \in InvocationId, HostFinishes(v)
      PROVE  TypeOK'
  <2>1. owner[v] \in Client
    BY <1>1, <1>6, Finish, LiveOwner
  <2>2. PICK r : r = outcome'[v]
    OBVIOUS
  <2>3. PICK h \in Handler : h = Finished(v, r)
    BY <2>1, FinishedType
  <2>4. posted' = Append(posted, h)
    BY <1>1, <1>6, <2>2, <2>3, Finish
  <2>5. posted' \in Seq(Handler)
    BY <1>1, <2>4, Posts DEF TypeOK
  <2> QED
    BY <1>1, <1>6, <2>5, Finish DEF TypeOK, table, calls, history
<1>7. ASSUME NEW v \in InvocationId, HostDeadline(v)
      PROVE  TypeOK'
  BY <1>1, <1>7, RisingTypes DEF HostDeadline, TypeOK, table, control, calls, history
<1> QED
  BY <1>1, <1>2, <1>3, <1>4, <1>5, <1>6, <1>7, <1>8, SubmissionTypes, CancelTypes, JobTypes, ChatTypes
     DEF Next, ServiceThread, HostDelivers

-----------------------------------------------------------------------------
(* Where the service thread goes.                                          *)

Holding == (JobStep \cup ChatStep) \ Installing

LEMMA StepSets ==
    /\ JobStep \cap ChatStep = {} /\ Installing \subseteq JobStep \cup ChatStep
    /\ "idle" \notin JobStep \cup ChatStep /\ "stopping" \notin JobStep \cup ChatStep
    /\ {"submit", "core", "finished", "check", "finish"} \subseteq JobStep \cap Holding
    /\ {"chatSubmit", "chatCancelled", "chatCore", "chatFinished"} \subseteq ChatStep \cap Holding
    /\ {"record", "install"} \subseteq JobStep \cap Installing
    /\ {"chatInstall", "chatCancel"} \subseteq ChatStep \cap Installing
BY DEF JobStep, ChatStep, Installing, Holding

\* Whoever the thread works for before admission or after the end has a record.
LEMMA HeldRecorded ==
    ASSUME TypeOK, HandInv, PlaceInv, spc \in Holding
    PROVE  /\ Held = {hand.who} /\ hand.who \in jobs \cup chats
           /\ spc \in JobStep => hand.who \in jobs
           /\ spc \in ChatStep => hand.who \in chats
<1>1. Held = {hand.who}
  BY DEF Held, Holding
<1>2. hand.who \in jobs \cup chats
  BY <1>1 DEF PlaceInv
<1> QED BY <1>1, <1>2, NoneFacts DEF HandInv, TypeOK

\* The thread goes on with the same work, from one handler step to another.
GoesOn == /\ UNCHANGED posted
          /\ hand'.who = hand.who /\ hand'.inv = hand.inv
          /\ \/ spc \in JobStep /\ spc' \in JobStep
             \/ spc \in ChatStep /\ spc' \in ChatStep
          /\ spc \in Installing <=> spc' \in Installing

\* It has done with a handler, or has none to begin with.
Rests == UNCHANGED posted /\ spc' \notin JobStep \cup ChatStep

Steps ==
    \/ SubmitChecks \/ SubmitRefused \/ SubmitRecords \/ SubmitInstalls
    \/ JobFinished \/ JobChecked \/ FinishJob
    \/ ChatChecks \/ ChatCancelled \/ ChatRefused \/ ChatInstalls \/ ChatReplaysCancel
    \/ ChatFinished \/ ShutdownReturns \/ Shutdown

LEMMA IdleRests == Idle => Rests
BY StepSets DEF Idle, Rests

LEMMA GotoGoesOn ==
    ASSUME NEW s, Goto(s),
           \/ spc \in JobStep /\ s \in JobStep
           \/ spc \in ChatStep /\ s \in ChatStep,
           spc \in Installing <=> s \in Installing
    PROVE  GoesOn
BY DEF Goto, GoesOn

LEMMA FinishGoesOn ==
    ASSUME TypeOK, NEW s \in TranslationState, FinishWith(s), spc \in JobStep \ Installing
    PROVE  GoesOn
<1>1. hand'.who = hand.who /\ hand'.inv = hand.inv
  BY HandChanges DEF FinishWith, TypeOK
<1>2. "finish" \in JobStep /\ "finish" \notin Installing
  BY DEF JobStep, Installing
<1> QED BY <1>1, <1>2 DEF FinishWith, GoesOn

\* A step of a handler ends in the next step, or ends the handler; one that holds
\* work ends only where the work is answered.
LEMMA StepKinds ==
    ASSUME TypeOK, HandInv, PlaceInv, Steps
    PROVE  /\ UNCHANGED <<phase, owner>>
           /\ GoesOn \/ Rests
           /\ SubmitChecks \/ SubmitRefused \/ JobFinished \/ JobChecked \/ ChatChecks => GoesOn
           /\ FinishJob \/ ChatCancelled \/ ChatRefused \/ ChatFinished => Rests
<1>0. {"Cancelled", "Failed"} \subseteq TranslationState
  BY DEF TranslationState
<1>1. CASE SubmitChecks
  <2>1. GoesOn
    BY <1>0, <1>1, GotoGoesOn, FinishGoesOn DEF SubmitChecks, JobStep, Installing
  <2>2. UNCHANGED <<phase, owner>>
    BY <1>1 DEF SubmitChecks, core
  <2> QED BY <1>1, <2>1, <2>2 DEF SubmitChecks, FinishJob, ChatCancelled, ChatRefused, ChatFinished
<1>2. CASE SubmitRefused
  <2>1. GoesOn
    BY <1>0, <1>2, FinishGoesOn DEF SubmitRefused, JobStep, Installing
  <2>2. UNCHANGED <<phase, owner>>
    BY <1>2 DEF SubmitRefused, core
  <2> QED BY <1>2, <2>1, <2>2 DEF SubmitRefused, FinishJob, ChatCancelled, ChatRefused, ChatFinished
<1>3. CASE SubmitRecords
  <2>1. GoesOn \/ Rests
    BY <1>3, GotoGoesOn, IdleRests DEF SubmitRecords, JobStep, Installing
  <2>2. UNCHANGED <<phase, owner>>
    BY <1>3 DEF SubmitRecords, core
  <2> QED BY <1>3, <2>1, <2>2 DEF SubmitRecords, SubmitChecks, SubmitRefused, JobFinished,
             JobChecked, ChatChecks, FinishJob, ChatCancelled, ChatRefused, ChatFinished
<1>4. CASE SubmitInstalls
  <2>1. Rests
    BY <1>4, IdleRests DEF SubmitInstalls
  <2> QED BY <1>4, <2>1 DEF SubmitInstalls, SubmitChecks, SubmitRefused, JobFinished,
             JobChecked, ChatChecks
<1>5. CASE JobFinished
  <2>1. hand.who \in jobs
    BY <1>5, HeldRecorded, StepSets DEF JobFinished
  <2>2. GoesOn
    BY <1>5, <2>1, GotoGoesOn DEF JobFinished, JobStep, Installing
  <2>3. UNCHANGED <<phase, owner>>
    BY <1>5 DEF JobFinished, core
  <2> QED BY <1>5, <2>2, <2>3 DEF JobFinished, FinishJob, ChatCancelled, ChatRefused, ChatFinished
<1>6. CASE JobChecked
  <2>1. GoesOn
    BY <1>0, <1>6, GotoGoesOn, FinishGoesOn DEF JobChecked, JobStep, Installing
  <2>2. UNCHANGED <<phase, owner>>
    BY <1>6 DEF JobChecked, core
  <2> QED BY <1>6, <2>1, <2>2 DEF JobChecked, FinishJob, ChatCancelled, ChatRefused, ChatFinished
<1>7. CASE FinishJob
  <2>1. Rests /\ UNCHANGED <<phase, owner>>
    BY <1>7, IdleRests DEF FinishJob, core
  <2> QED BY <1>7, <2>1 DEF FinishJob, SubmitChecks, SubmitRefused, JobFinished, JobChecked, ChatChecks
<1>8. CASE ChatChecks
  <2>1. hand.who \in chats
    BY <1>8, HeldRecorded, StepSets DEF ChatChecks
  <2>2. GoesOn
    BY <1>8, <2>1, GotoGoesOn DEF ChatChecks, ChatStep, Installing
  <2>3. UNCHANGED <<phase, owner>>
    BY <1>8 DEF ChatChecks, core
  <2> QED BY <1>8, <2>2, <2>3 DEF ChatChecks, FinishJob, ChatCancelled, ChatRefused, ChatFinished
<1>9. CASE ChatCancelled \/ ChatRefused \/ ChatFinished
  <2>1. Rests /\ UNCHANGED <<phase, owner>>
    BY <1>9, IdleRests DEF ChatCancelled, ChatRefused, ChatFinished, AnswerChat, core
  <2>2. spc \in {"chatCancelled", "chatCore", "chatFinished"}
    BY <1>9 DEF ChatCancelled, ChatRefused, ChatFinished
  <2> QED BY <2>1, <2>2 DEF SubmitChecks, SubmitRefused, JobFinished, JobChecked, ChatChecks
<1>10. CASE ChatInstalls
  <2>1. GoesOn \/ Rests
    BY <1>10, GotoGoesOn, IdleRests DEF ChatInstalls, ChatStep, Installing
  <2>2. UNCHANGED <<phase, owner>>
    BY <1>10 DEF ChatInstalls, core
  <2> QED BY <1>10, <2>1, <2>2 DEF ChatInstalls, SubmitChecks, SubmitRefused, JobFinished,
             JobChecked, ChatChecks, FinishJob, ChatCancelled, ChatRefused, ChatFinished
<1>11. CASE ChatReplaysCancel
  <2>1. Rests /\ UNCHANGED <<phase, owner>>
    BY <1>11, IdleRests DEF ChatReplaysCancel
  <2> QED BY <1>11, <2>1 DEF ChatReplaysCancel, SubmitChecks, SubmitRefused, JobFinished,
             JobChecked, ChatChecks
<1>12. CASE ShutdownReturns \/ Shutdown
  <2>1. Rests /\ UNCHANGED <<phase, owner>>
    BY <1>12, IdleRests DEF ShutdownReturns, Shutdown, core, Goto, Rests, JobStep, ChatStep
  <2>2. spc \in {"idle", "stopping"}
    BY <1>12 DEF ShutdownReturns, Shutdown
  <2> QED BY <2>1, <2>2 DEF SubmitChecks, SubmitRefused, JobFinished, JobChecked, ChatChecks
<1> QED
  BY <1>1, <1>2, <1>3, <1>4, <1>5, <1>6, <1>7, <1>8, <1>9, <1>10, <1>11, <1>12 DEF Steps

\* Steps that do not touch the places of work, nor the hand of the thread.
Aside == /\ UNCHANGED <<jobs, chats, posted, spc, hand, owner>>
         /\ \A v \in InvocationId : Live(v)' <=> Live(v)

LEMMA AsideSteps ==
    ASSUME TypeOK,
           \/ UNCHANGED vars
           \/ \E t \in Canceller : \/ Cancelling(t)
                                   \/ \E j \in Job : CancelFinds(t, j)
                                   \/ \E c \in Chat : CancelChat(t, c)
           \/ \E j \in Job : PreemptBatch(j)
           \/ \E v \in InvocationId : HostStarts(v) \/ HostDeadline(v)
    PROVE  Aside
<1>1. ASSUME UNCHANGED <<jobs, chats, control, phase, owner>>
      PROVE  Aside
  BY <1>1 DEF Aside, Live, control
<1>2. CASE UNCHANGED vars
  BY <1>1, <1>2 DEF vars, table, core
<1>3. ASSUME NEW t \in Canceller,
             \/ Cancelling(t)
             \/ \E j \in Job : CancelFinds(t, j)
             \/ \E c \in Chat : CancelChat(t, c)
      PROVE  Aside
  BY <1>1, <1>3 DEF Cancelling, CancelRequests, CancelCalls, CancelFinds, CancelChat, table, core
<1>4. ASSUME NEW j \in Job, PreemptBatch(j)
      PROVE  Aside
  BY <1>1, <1>4 DEF PreemptBatch, table
<1>5. ASSUME NEW v \in InvocationId, HostStarts(v)
      PROVE  Aside
  BY <1>5, Start DEF Aside, table, control
<1>6. ASSUME NEW v \in InvocationId, HostDeadline(v)
      PROVE  Aside
  BY <1>1, <1>6 DEF HostDeadline, table
<1> QED BY <1>2, <1>3, <1>4, <1>5, <1>6

-----------------------------------------------------------------------------
(* Handlers, calls and places.                                             *)

\* A queue that is kept keeps the work in it.
LEMMA SameQueue ==
    ASSUME posted' = posted
    PROVE  Queued' = Queued
BY DEF Queued

LEMMA SameRunning ==
    ASSUME owner' = owner, \A v \in InvocationId : Live(v)' <=> Live(v)
    PROVE  Running' = Running
BY DEF Running

LEMMA AdmissionRuns ==
    ASSUME TypeOK, NEW v \in InvocationId, hand.who \in Client, HostAdmits(v)
    PROVE  Running' = Running \cup {hand.who}
<1>1. /\ ~Live(v) /\ \A u \in InvocationId : Live(u)' <=> Live(u) \/ u = v
      /\ owner'[v] = hand.who /\ \A u \in InvocationId \ {v} : owner'[u] = owner[u]
  BY Admission
<1> QED BY <1>1 DEF Running

LEMMA FinishRuns ==
    ASSUME TypeOK, PlaceInv, NEW v \in InvocationId, HostFinishes(v)
    PROVE  Running = Running' \cup {owner[v]} /\ owner[v] \notin Running'
<1>1. /\ Live(v) /\ \A u \in InvocationId : Live(u)' <=> Live(u) /\ u # v
      /\ owner' = owner
  BY Finish
<1>2. \A u \in InvocationId : Live(u) /\ owner[u] = owner[v] => u = v
  BY <1>1 DEF PlaceInv
<1> QED BY <1>1, <1>2 DEF Running

\* The event of an invocation's end is queued behind the others.
LEMMA FinishPosts ==
    ASSUME TypeOK, PlaceInv, NEW v \in InvocationId, HostFinishes(v)
    PROVE  \E h \in Handler : /\ posted' = Append(posted, h) /\ h.who = owner[v]
                              /\ owner[v] \in Job => h.kind = "finished"
                              /\ owner[v] \in Chat => h.kind = "chatFinished"
<1>1. owner[v] \in Client
  BY Finish, LiveOwner
<1>2. PICK r : r = outcome'[v]
  OBVIOUS
<1>3. Finished(v, r) \in Handler /\ posted' = Append(posted, Finished(v, r))
  BY <1>1, <1>2, Finish, FinishedType
<1> QED BY <1>1, <1>3, FinishedType

\* A submission: a job or chat without a record gets one and is queued, or is
\* taken in hand at once.
LEMMA SubmissionKinds ==
    ASSUME TypeOK, Submitting
    PROVE  \E w \in Client :
              /\ w \notin jobs \cup chats /\ answered[w] = "nothing"
              /\ \/ w \in Job /\ jobs' = jobs \cup {w} /\ chats' = chats /\ chat' = chat
                 \/ w \in Chat /\ chats' = chats \cup {w} /\ jobs' = jobs /\ chat' = [chat EXCEPT ![w] = NewChat]
              /\ \/ posted' = Append(posted, Submission(w)) /\ UNCHANGED <<spc, hand>>
                 \/ /\ w \in Job /\ spc = "idle" /\ spc' = "submit" /\ hand' = Submission(w)
                    /\ posted' = posted
              /\ UNCHANGED <<ticket, guard, calls, core, answered>>
<1>1. ASSUME NEW j \in Job, NEW b \in BOOLEAN, SubmitNative(j, b)
      PROVE  /\ j \notin jobs \cup chats /\ answered[j] = "nothing"
             /\ jobs' = jobs \cup {j} /\ chats' = chats /\ chat' = chat
             /\ posted' = Append(posted, Submission(j)) /\ UNCHANGED <<spc, hand>>
             /\ UNCHANGED <<ticket, guard, calls, core, answered>>
  BY <1>1, NoneFacts DEF SubmitNative, Insert, TypeOK
<1>2. ASSUME NEW j \in Job, SubmitBatch(j)
      PROVE  /\ j \notin jobs \cup chats /\ answered[j] = "nothing"
             /\ jobs' = jobs \cup {j} /\ chats' = chats /\ chat' = chat
             /\ spc = "idle" /\ spc' = "submit" /\ hand' = Submission(j) /\ posted' = posted
             /\ UNCHANGED <<ticket, guard, calls, core, answered>>
  BY <1>2, NoneFacts DEF SubmitBatch, Insert, TypeOK
<1>3. ASSUME NEW c \in Chat, SubmitChat(c)
      PROVE  /\ c \notin jobs \cup chats /\ answered[c] = "nothing"
             /\ chats' = chats \cup {c} /\ jobs' = jobs /\ chat' = [chat EXCEPT ![c] = NewChat]
             /\ posted' = Append(posted, Submission(c)) /\ UNCHANGED <<spc, hand>>
             /\ UNCHANGED <<ticket, guard, calls, core, answered>>
  BY <1>3, NoneFacts DEF SubmitChat, TypeOK, history
<1> QED BY <1>1, <1>2, <1>3 DEF Submitting, Client

LEMMA CallNext == TypeOK /\ CallInv /\ [Next]_vars => CallInv'
<1> SUFFICES ASSUME TypeOK, CallInv, [Next]_vars
             PROVE  CallInv'
  OBVIOUS
<1>1. ASSUME UNCHANGED calls
      PROVE  CallInv'
  BY <1>1 DEF calls, CallInv
<1>2. ASSUME NEW t \in Canceller, CancelRequests(t)
      PROVE  CallInv'
  <2>1. ctarget[t] \in Job
    BY <1>2 DEF CancelRequests, CallInv
  <2>2. ticket[ctarget[t]].callback \in InvocationId \cup {None}
    BY <2>1 DEF TypeOK, Ticket
  <2>3. \/ CancelReturns(t)
        \/ /\ cpc' = [cpc EXCEPT ![t] = "call"]
           /\ ctarget' = [ctarget EXCEPT ![t] = ticket[ctarget[t]].callback]
           /\ ticket[ctarget[t]].callback \in InvocationId
    BY <1>2, <2>2 DEF CancelRequests
  <2> QED BY <2>3 DEF CallInv, CancelReturns, TypeOK
<1>3. ASSUME NEW t \in Canceller, CancelCalls(t)
      PROVE  CallInv'
  BY <1>3 DEF CancelCalls, CancelReturns, CallInv, TypeOK
<1>4. ASSUME NEW t \in Canceller, NEW j \in Job, CancelFinds(t, j)
      PROVE  CallInv'
  BY <1>4 DEF CancelFinds, CallInv, TypeOK
<1>5. ASSUME NEW t \in Canceller, NEW c \in Chat, CancelChat(t, c)
      PROVE  CallInv'
  <2>1. chat[c].handle \in InvocationId \cup {None}
    BY DEF TypeOK, ChatRecord
  <2> QED BY <1>1, <1>5, <2>1 DEF CancelChat, CallInv, TypeOK
<1>6. CASE UNCHANGED vars
  BY <1>1, <1>6 DEF vars
<1>7. CASE Submitting
  BY <1>1, <1>7, SubmissionKinds
<1>8. ASSUME NEW j \in Job, PreemptBatch(j)
      PROVE  CallInv'
  BY <1>1, <1>8 DEF PreemptBatch
<1>9. CASE ServiceThread \/ Shutdown
  BY <1>1, <1>9 DEF ServiceThread, TakeHandler, SubmitChecks, SubmitRefused, SubmitRecords,
     SubmitInstalls, JobFinished,
     JobChecked, FinishJob, ChatChecks, ChatCancelled, ChatRefused, ChatInstalls, ChatReplaysCancel,
     ChatFinished, AnswerChat, ShutdownReturns, SubmitAccepted, ChatAccepted, Shutdown
<1>10. ASSUME NEW v \in InvocationId, HostDelivers(v) \/ HostDeadline(v)
       PROVE  CallInv'
  BY <1>1, <1>10 DEF HostDelivers, HostStarts, HostFinishes, HostDeadline
<1> QED
  BY <1>2, <1>3, <1>4, <1>5, <1>6, <1>7, <1>8, <1>9, <1>10 DEF Next, Cancelling

LEMMA Kinds ==
    ASSUME IInv, [Next]_vars
    PROVE  \/ Aside \/ Submitting \/ TakeHandler \/ Steps
           \/ \E v \in InvocationId : SubmitAccepted(v) \/ ChatAccepted(v)
           \/ \E v \in InvocationId : HostFinishes(v)
BY AsideSteps DEF IInv, Next, ServiceThread, Steps, HostDelivers

LEMMA HandNext == IInv /\ [Next]_vars => HandInv'
<1> SUFFICES ASSUME IInv, [Next]_vars
             PROVE  HandInv'
  OBVIOUS
<1>0. TypeOK /\ HandInv /\ PlaceInv
  BY DEF IInv
<1>1. CASE Aside
  <2>1. Queued' = Queued
    BY <1>1, SameQueue DEF Aside
  <2> QED BY <1>0, <1>1, <2>1, StepSets DEF Aside, HandInv
<1>2. CASE Submitting
  <2>1. PICK w \in Client :
              /\ w \notin jobs \cup chats
              /\ \/ posted' = Append(posted, Submission(w)) /\ UNCHANGED <<spc, hand>>
                 \/ /\ w \in Job /\ spc = "idle" /\ spc' = "submit" /\ hand' = Submission(w)
                    /\ posted' = posted
              /\ UNCHANGED core
    BY <1>0, <1>2, SubmissionKinds
  <2>2. \A v \in InvocationId : Live(v)' <=> Live(v)
    BY <2>1 DEF core, Live
  <2>3. Submission(w) \in Handler /\ Submission(w).who = w
        /\ (w \in Job => Submission(w).kind = "submit") /\ (w \in Chat => Submission(w).kind = "chatSubmit")
    BY HandlerTypes
  <2>4. CASE posted' = Append(posted, Submission(w)) /\ UNCHANGED <<spc, hand>>
    <3>1. /\ \A k \in DOMAIN posted' : (k \in DOMAIN posted /\ posted'[k] = posted[k]) \/ posted'[k] = Submission(w)
          /\ Queued \subseteq Queued'
      BY <1>0, <2>3, <2>4, Posts DEF TypeOK
    <3>2. \A k \in DOMAIN posted' : \/ posted'[k].kind \in {"submit", "finished"} /\ posted'[k].who \in Job
                                    \/ posted'[k].kind \in {"chatSubmit", "chatFinished"} /\ posted'[k].who \in Chat
      BY <1>0, <2>3, <3>1 DEF HandInv, Client
    <3> QED BY <1>0, <2>1, <2>2, <2>4, <3>1, <3>2, StepSets DEF HandInv, core
  <2>5. CASE /\ w \in Job /\ spc = "idle" /\ spc' = "submit" /\ hand' = Submission(w)
             /\ posted' = posted
    <3>1. spc' \notin ChatStep /\ spc' \notin Installing
      BY <2>5 DEF ChatStep, Installing
    <3> QED BY <1>0, <2>3, <2>5, <3>1 DEF HandInv
  <2> QED BY <2>1, <2>4, <2>5
<1>3. CASE TakeHandler
  <2>1. /\ \A k \in DOMAIN posted' : k + 1 \in DOMAIN posted /\ posted'[k] = posted[k + 1]
        /\ 1 \in DOMAIN posted /\ hand' = posted[1] /\ spc' = posted[1].kind
    BY <1>0, <1>3, Takes DEF TakeHandler, TypeOK
  <2>2. spc' \notin Installing
    BY <1>0, <2>1 DEF HandInv, Installing
  <2> QED BY <1>0, <2>1, <2>2 DEF HandInv, JobStep, ChatStep
<1>4. CASE Steps
  <2>1. UNCHANGED <<phase, owner>> /\ (GoesOn \/ Rests)
    BY <1>0, <1>4, StepKinds
  <2>2. \A v \in InvocationId : Live(v)' <=> Live(v)
    BY <2>1 DEF Live
  <2>3. Queued' = Queued
    BY <2>1, SameQueue DEF GoesOn, Rests
  <2>4. CASE Rests
    BY <1>0, <2>4, StepSets DEF Rests, HandInv
  <2>5. CASE GoesOn
    BY <1>0, <2>1, <2>2, <2>3, <2>5, StepSets DEF GoesOn, HandInv
  <2> QED BY <2>1, <2>4, <2>5
<1>5. ASSUME NEW v \in InvocationId, SubmitAccepted(v) \/ ChatAccepted(v)
      PROVE  HandInv'
  <2>1. /\ posted' = posted /\ HostAdmits(v)
        /\ \/ hand.who \in Job /\ spc' = "record"
           \/ hand.who \in Chat /\ spc' = "chatInstall"
        /\ hand'.who = hand.who /\ hand'.inv = v
    <3>1. [hand EXCEPT !.inv = v].who = hand.who /\ [hand EXCEPT !.inv = v].inv = v
      BY HandChanges DEF TypeOK
    <3>2. CASE SubmitAccepted(v)
      BY <1>0, <3>1, <3>2 DEF SubmitAccepted, HandInv, JobStep
    <3>3. CASE ChatAccepted(v)
      BY <1>0, <3>1, <3>3 DEF ChatAccepted, HandInv, ChatStep
    <3> QED BY <1>5, <3>2, <3>3
  <2>2. Live(v)' /\ owner'[v] = hand.who
    BY <1>0, <2>1, Admission DEF Client
  <2> QED BY <1>0, <2>1, <2>2, NoneFacts DEF HandInv, JobStep, ChatStep
<1>6. ASSUME NEW v \in InvocationId, HostFinishes(v)
      PROVE  HandInv'
  <2>1. PICK h \in Handler : /\ posted' = Append(posted, h) /\ h.who = owner[v]
                             /\ owner[v] \in Job => h.kind = "finished"
                             /\ owner[v] \in Chat => h.kind = "chatFinished"
    BY <1>0, <1>6, FinishPosts
  <2>2. /\ \A k \in DOMAIN posted' : (k \in DOMAIN posted /\ posted'[k] = posted[k]) \/ posted'[k] = h
        /\ Queued' = Queued \cup {h.who}
    BY <1>0, <2>1, Posts DEF TypeOK
  <2>3. /\ UNCHANGED <<spc, hand, owner>> /\ \A u \in InvocationId : Live(u)' <=> Live(u) /\ u # v
        /\ owner[v] \in Client
    BY <1>0, <1>6, Finish, LiveOwner
  <2>4. \A k \in DOMAIN posted' : \/ posted'[k].kind \in {"submit", "finished"} /\ posted'[k].who \in Job
                                  \/ posted'[k].kind \in {"chatSubmit", "chatFinished"} /\ posted'[k].who \in Chat
    BY <1>0, <2>1, <2>2, <2>3 DEF HandInv, Client
  <2> QED BY <1>0, <2>1, <2>2, <2>3, <2>4 DEF HandInv
<1> QED BY <1>1, <1>2, <1>3, <1>4, <1>5, <1>6, Kinds

LEMMA PlaceQuiet ==
    ASSUME PlaceInv, posted' = posted, owner' = owner, \A v \in InvocationId : Live(v)' <=> Live(v),
           jobs' = jobs, chats' = chats, Held' = Held
    PROVE  PlaceInv'
<1>1. Queued' = Queued /\ Running' = Running
  BY SameQueue, SameRunning
<1> QED BY <1>1 DEF PlaceInv

LEMMA PlaceNext == IInv /\ [Next]_vars => PlaceInv'
<1> SUFFICES ASSUME IInv, [Next]_vars
             PROVE  PlaceInv'
  OBVIOUS
<1>0. TypeOK /\ HandInv /\ PlaceInv
  BY DEF IInv
<1>1. CASE Aside
  BY <1>0, <1>1, PlaceQuiet DEF Aside, Held
<1>2. CASE Submitting
  <2>1. PICK w \in Client :
              /\ w \notin jobs \cup chats
              /\ \/ w \in Job /\ jobs' = jobs \cup {w} /\ chats' = chats
                 \/ w \in Chat /\ chats' = chats \cup {w} /\ jobs' = jobs
              /\ \/ posted' = Append(posted, Submission(w)) /\ UNCHANGED <<spc, hand>>
                 \/ /\ w \in Job /\ spc = "idle" /\ spc' = "submit" /\ hand' = Submission(w)
                    /\ posted' = posted
              /\ UNCHANGED core
    BY <1>0, <1>2, SubmissionKinds
  <2>2. owner' = owner /\ \A v \in InvocationId : Live(v)' <=> Live(v)
    BY <2>1 DEF core, Live
  <2>3. Running' = Running
    BY <2>2, SameRunning
  <2>4. Submission(w) \in Handler /\ Submission(w).who = w
    BY HandlerTypes
  <2>5. (jobs \cup chats)' = (jobs \cup chats) \cup {w}
    BY <2>1
  <2>6. w \notin Queued /\ w \notin Held /\ w \notin Running
    BY <1>0, <2>1 DEF PlaceInv
  <2>7. CASE posted' = Append(posted, Submission(w)) /\ UNCHANGED <<spc, hand>>
    <3>1. /\ \A k \in DOMAIN posted : posted'[k] = posted[k]
          /\ \A k \in DOMAIN posted' : k \in DOMAIN posted \/ k = Len(posted) + 1
          /\ posted'[Len(posted) + 1] = Submission(w) /\ Queued' = Queued \cup {w}
      BY <1>0, <2>4, <2>7, Posts DEF TypeOK
    <3>2. Held' = Held
      BY <2>7 DEF Held
    <3>3. \A k \in DOMAIN posted : posted[k].who # w
      BY <2>6 DEF Queued
    <3>4. \A i, k \in DOMAIN posted' : posted'[i].who = posted'[k].who => i = k
      BY <1>0, <2>4, <3>1, <3>3 DEF PlaceInv
    <3> QED BY <1>0, <2>2, <2>3, <2>5, <2>6, <3>1, <3>2, <3>4 DEF PlaceInv
  <2>8. CASE /\ w \in Job /\ spc = "idle" /\ spc' = "submit" /\ hand' = Submission(w)
             /\ posted' = posted
    <3>1. Held = {} /\ Held' = {w} /\ Queued' = Queued
      BY <2>4, <2>8, SameQueue, StepSets DEF Held, Holding
    <3> QED BY <1>0, <2>2, <2>3, <2>5, <2>6, <2>8, <3>1 DEF PlaceInv
  <2> QED BY <2>1, <2>7, <2>8
<1>3. CASE TakeHandler
  <2>1. /\ \A k \in DOMAIN posted' : k \in Nat \ {0} /\ k + 1 \in DOMAIN posted /\ posted'[k] = posted[k + 1]
        /\ \A k \in DOMAIN posted : k = 1 \/ (k - 1 \in DOMAIN posted' /\ posted'[k - 1] = posted[k])
        /\ 1 \in DOMAIN posted /\ hand' = posted[1] /\ spc' = posted[1].kind
        /\ spc = "idle" /\ UNCHANGED <<jobs, chats, owner, phase>>
    BY <1>0, <1>3, Takes DEF TakeHandler, TypeOK, table, core
  <2>2. Held = {} /\ Held' = {posted[1].who}
    BY <1>0, <2>1, StepSets DEF HandInv, Held, Holding
  <2>3. \A i, k \in DOMAIN posted' : posted'[i].who = posted'[k].who => i = k
    <3> SUFFICES ASSUME NEW i \in DOMAIN posted', NEW k \in DOMAIN posted', posted'[i].who = posted'[k].who
                 PROVE  i = k
      OBVIOUS
    <3>1. i \in Nat /\ k \in Nat /\ i + 1 = k + 1
      BY <1>0, <2>1 DEF PlaceInv
    <3> QED BY <3>1
  <2>4. \A k \in DOMAIN posted' : posted'[k].who # posted[1].who
    <3> SUFFICES ASSUME NEW k \in DOMAIN posted', posted'[k].who = posted[1].who
                 PROVE  FALSE
      OBVIOUS
    <3>1. k \in Nat \ {0} /\ k + 1 = 1
      BY <1>0, <2>1 DEF PlaceInv
    <3> QED BY <3>1
  <2>5. Queued = Queued' \cup {posted[1].who} /\ posted[1].who \notin Queued'
    BY <2>1, <2>4 DEF Queued
  <2>6. \A v \in InvocationId : Live(v)' <=> Live(v)
    BY <2>1 DEF Live
  <2>7. Running' = Running
    BY <2>1, <2>6, SameRunning
  <2> QED BY <1>0, <2>1, <2>2, <2>3, <2>5, <2>6, <2>7 DEF PlaceInv
<1>4. CASE Steps
  <2>1. /\ UNCHANGED <<phase, owner>> /\ (GoesOn \/ Rests) /\ posted' = posted
        /\ SubmitChecks \/ SubmitRefused \/ JobFinished \/ JobChecked \/ ChatChecks => GoesOn
        /\ FinishJob \/ ChatCancelled \/ ChatRefused \/ ChatFinished => Rests
    BY <1>0, <1>4, StepKinds DEF GoesOn, Rests
  <2>2. \A v \in InvocationId : Live(v)' <=> Live(v)
    BY <2>1 DEF Live
  <2>3. CASE /\ UNCHANGED <<jobs, chats>>
             /\ GoesOn \/ (Rests /\ spc \notin Holding)
    <3>1. Held' = Held
      BY <2>3, StepSets DEF GoesOn, Rests, Held, Holding, JobStep, ChatStep, Installing
    <3> QED BY <1>0, <2>1, <2>2, <2>3, <3>1, PlaceQuiet
  <2>4. CASE SubmitChecks \/ SubmitRefused \/ JobFinished \/ JobChecked \/ ChatChecks
    <3>1. UNCHANGED <<jobs, chats>>
      BY <2>4 DEF SubmitChecks, SubmitRefused, JobFinished, JobChecked, ChatChecks, table
    <3> QED BY <2>1, <2>3, <2>4, <3>1
  <2>5. CASE SubmitRecords \/ SubmitInstalls \/ ChatInstalls \/ ChatReplaysCancel \/ ShutdownReturns \/ Shutdown
    <3>1. UNCHANGED <<jobs, chats>>
      BY <2>5 DEF SubmitRecords, SubmitInstalls, ChatInstalls, ChatReplaysCancel,
         ShutdownReturns, Shutdown, table
    <3>2. spc \notin Holding
      BY <2>5, StepSets DEF SubmitRecords, SubmitInstalls, ChatInstalls, ChatReplaysCancel,
         ShutdownReturns, Shutdown, Holding
    <3>3. GoesOn \/ Rests
      BY <2>1
    <3> QED BY <2>3, <3>1, <3>2, <3>3
  <2>6. CASE FinishJob \/ ChatCancelled \/ ChatRefused \/ ChatFinished
    <3>1. /\ Held = {hand.who} /\ Held' = {}
          /\ spc \in JobStep => hand.who \in jobs
          /\ spc \in ChatStep => hand.who \in chats
      <4>1. spc \in Holding
        BY <2>6, StepSets DEF FinishJob, ChatCancelled, ChatRefused, ChatFinished
      <4>2. Rests
        BY <2>1, <2>6
      <4> QED BY <1>0, <4>1, <4>2, HeldRecorded, StepSets DEF Rests, Held
    <3>2. (jobs \cup chats)' = (jobs \cup chats) \ {hand.who}
      <4>1. CASE FinishJob
        <5>1. hand.who \in jobs /\ jobs' = jobs \ {hand.who} /\ chats' = chats
          BY <3>1, <4>1, StepSets DEF FinishJob
        <5> QED BY <1>0, <5>1, NoneFacts DEF TypeOK
      <4>2. CASE ChatCancelled \/ ChatRefused \/ ChatFinished
        <5>1. hand.who \in chats
          BY <3>1, <4>2, StepSets DEF ChatCancelled, ChatRefused, ChatFinished
        <5>2. chats' = chats \ {hand.who} /\ jobs' = jobs
          BY <4>2, <5>1 DEF ChatCancelled, ChatRefused, ChatFinished, AnswerChat
        <5> QED BY <1>0, <5>1, <5>2, NoneFacts DEF TypeOK
      <4> QED BY <2>6, <4>1, <4>2
    <3>3. Queued' = Queued /\ Running' = Running
      BY <2>1, <2>2, SameQueue, SameRunning
    <3> QED BY <1>0, <2>1, <2>2, <3>1, <3>2, <3>3 DEF PlaceInv
  <2> QED BY <1>4, <2>4, <2>5, <2>6 DEF Steps
<1>5. ASSUME NEW v \in InvocationId, SubmitAccepted(v) \/ ChatAccepted(v)
      PROVE  PlaceInv'
  <2>1. /\ posted' = posted /\ HostAdmits(v) /\ UNCHANGED <<jobs, chats>>
        /\ spc \in Holding /\ spc' \notin Holding
    BY <1>5, StepSets DEF SubmitAccepted, ChatAccepted, table, Holding, JobStep, ChatStep
  <2>2. Held = {hand.who} /\ hand.who \in Client /\ Held' = {}
    BY <1>0, <2>1, HeldRecorded DEF Held, Holding, Client, TypeOK
  <2>3. Queued' = Queued /\ Running' = Running \cup {hand.who}
    BY <1>0, <2>1, <2>2, SameQueue, AdmissionRuns
  <2>4. /\ ~Live(v) /\ \A u \in InvocationId : Live(u)' <=> Live(u) \/ u = v
        /\ owner'[v] = hand.who /\ \A u \in InvocationId \ {v} : owner'[u] = owner[u]
    BY <1>0, <2>1, <2>2, Admission
  <2>5. \A u \in InvocationId : Live(u) => owner[u] # hand.who
    BY <1>0, <2>2 DEF PlaceInv, Running
  <2>6. \A x, y \in InvocationId : Live(x)' /\ Live(y)' /\ owner'[x] = owner'[y] => x = y
    BY <1>0, <2>4, <2>5 DEF PlaceInv
  <2> QED BY <1>0, <2>1, <2>2, <2>3, <2>6 DEF PlaceInv
<1>6. ASSUME NEW v \in InvocationId, HostFinishes(v)
      PROVE  PlaceInv'
  <2>1. PICK h \in Handler : posted' = Append(posted, h) /\ h.who = owner[v]
    BY <1>0, <1>6, FinishPosts
  <2>2. /\ \A k \in DOMAIN posted : posted'[k] = posted[k]
        /\ \A k \in DOMAIN posted' : k \in DOMAIN posted \/ k = Len(posted) + 1
        /\ posted'[Len(posted) + 1] = h /\ Queued' = Queued \cup {owner[v]}
    BY <1>0, <2>1, Posts DEF TypeOK
  <2>3. /\ UNCHANGED <<jobs, chats, spc, hand, owner>>
        /\ Live(v) /\ \A u \in InvocationId : Live(u)' <=> Live(u) /\ u # v
    BY <1>0, <1>6, Finish DEF table
  <2>4. Running = Running' \cup {owner[v]} /\ owner[v] \notin Running'
    BY <1>0, <1>6, FinishRuns
  <2>5. Held' = Held
    BY <2>3 DEF Held
  <2>6. \A k \in DOMAIN posted : posted[k].who # owner[v]
    BY <1>0, <2>4 DEF PlaceInv, Queued
  <2>7. \A i, k \in DOMAIN posted' : posted'[i].who = posted'[k].who => i = k
    BY <1>0, <2>1, <2>2, <2>6 DEF PlaceInv
  <2> QED BY <1>0, <2>2, <2>3, <2>4, <2>5, <2>7 DEF PlaceInv
<1> QED BY <1>1, <1>2, <1>3, <1>4, <1>5, <1>6, Kinds

-----------------------------------------------------------------------------
(* Records, handles and cancellations.                                     *)

\* The fields of the tables that cancellation is about: a ticket is completed
\* only by finishJob(), and a callback is installed only by its own handler.
SameTickets == \A j \in Job : /\ ticket'[j].completed = ticket[j].completed
                              /\ ticket'[j].callback = ticket[j].callback

LEMMA RequestKeeps ==
    ASSUME TypeOK, CallInv, NEW t \in Canceller, CancelRequests(t)
    PROVE  SameTickets /\ \A j \in Job : ticket[j].requested => ticket'[j].requested
<1>1. ctarget[t] \in Job
  BY DEF CancelRequests, CallInv
<1>2. PICK i \in Job : i = ctarget[t]
  BY <1>1
<1>3. \/ ticket' = ticket
      \/ ticket' = [ticket EXCEPT ![i] = [ticket[i] EXCEPT !.requested = TRUE]]
  BY <1>2 DEF CancelRequests
<1>4. \A j \in Job : ticket[j] \in Ticket
  BY DEF TypeOK
<1>5. \A r \in Ticket : /\ [r EXCEPT !.requested = TRUE].completed = r.completed
                        /\ [r EXCEPT !.requested = TRUE].callback = r.callback
                        /\ [r EXCEPT !.requested = TRUE].requested
  BY DEF Ticket
<1>6. CASE ticket' = ticket
  BY <1>6 DEF SameTickets
<1>7. CASE ticket' = [ticket EXCEPT ![i] = [ticket[i] EXCEPT !.requested = TRUE]]
  <2> DEFINE r == [ticket[i] EXCEPT !.requested = TRUE]
  <2>1. r.completed = ticket[i].completed /\ r.callback = ticket[i].callback /\ r.requested
    BY <1>4, <1>5
  <2> HIDE DEF r
  <2>2. ticket' = [ticket EXCEPT ![i] = r] /\ DOMAIN ticket = Job
    BY <1>7 DEF r, TypeOK
  <2>3. \A j \in Job : ticket'[j] = IF j = i THEN r ELSE ticket[j]
    BY <2>2
  <2> QED BY <2>1, <2>3 DEF SameTickets
<1> QED BY <1>3, <1>6, <1>7

LEMMA InstallEffect ==
    ASSUME TypeOK, HandInv, SubmitInstalls
    PROVE  /\ \A j \in Job \ {hand.who} : ticket'[j] = ticket[j]
           /\ hand.who \in Job /\ hand.inv \in InvocationId
           /\ ticket'[hand.who].completed = ticket[hand.who].completed
           /\ ticket'[hand.who].requested = ticket[hand.who].requested
           /\ ~ticket[hand.who].completed => ticket'[hand.who].callback = hand.inv
<1>1. PICK w \in Job, v \in InvocationId : w = hand.who /\ v = hand.inv
  BY DEF SubmitInstalls, HandInv, JobStep, Installing
<1>2. ticket' = IF ticket[w].completed THEN ticket
                ELSE [ticket EXCEPT ![w] = [ticket[w] EXCEPT !.callback = v]]
  BY <1>1 DEF SubmitInstalls
<1>3. ticket[w] \in Ticket
  BY DEF TypeOK
<1>4. /\ [ticket[w] EXCEPT !.callback = v].callback = v
      /\ [ticket[w] EXCEPT !.callback = v].completed = ticket[w].completed
      /\ [ticket[w] EXCEPT !.callback = v].requested = ticket[w].requested
  BY <1>3 DEF Ticket
<1>5. /\ \A j \in Job \ {w} : ticket'[j] = ticket[j]
      /\ ticket'[w] = IF ticket[w].completed THEN ticket[w] ELSE [ticket[w] EXCEPT !.callback = v]
  BY <1>2 DEF TypeOK
<1> QED BY <1>1, <1>4, <1>5

\* Steps of the service thread that leave the tickets alone.
LEMMA TicketSteps ==
    ASSUME Steps \/ TakeHandler
    PROVE  SubmitInstalls \/ FinishJob \/ ticket' = ticket
BY DEF Steps, TakeHandler, SubmitChecks, SubmitRefused, SubmitRecords, JobFinished,
       JobChecked, ChatChecks, ChatCancelled, ChatRefused, ChatInstalls, ChatReplaysCancel,
       ChatFinished, AnswerChat, ShutdownReturns, Shutdown, table

LEMMA FinishEffect ==
    ASSUME TypeOK, HandInv, PlaceInv, FinishJob
    PROVE  /\ hand.who \in jobs /\ hand.who \in Job /\ hand.who \notin Queued \cup Running
           /\ jobs' = jobs \ {hand.who} /\ UNCHANGED <<chats, chat>>
           /\ \A j \in Job \ {hand.who} : ticket'[j] = ticket[j]
           /\ answered'[hand.who] \in TranslationState
           /\ \A w \in Client \ {hand.who} : answered'[w] = answered[w]
<1>1. hand.who \in jobs /\ hand.who \in Job /\ Held = {hand.who}
  BY HeldRecorded, StepSets DEF FinishJob, TypeOK
<1>2. hand.who \notin Queued \cup Running
  BY <1>1 DEF PlaceInv
<1>3. hand.state \in TranslationState
  BY InHand
<1> QED BY <1>1, <1>2, <1>3 DEF FinishJob, TypeOK, Client

LEMMA AnswerEffect ==
    ASSUME TypeOK, HandInv, PlaceInv, ChatCancelled \/ ChatRefused \/ ChatFinished
    PROVE  /\ hand.who \in chats /\ hand.who \in Chat /\ hand.who \notin Queued \cup Running
           /\ chats' = chats \ {hand.who} /\ UNCHANGED <<jobs, ticket>>
           /\ \A c \in Chat \ {hand.who} : chat'[c] = chat[c]
           /\ answered'[hand.who] \in TranslationState
           /\ \A w \in Client \ {hand.who} : answered'[w] = answered[w]
<1>1. hand.who \in chats /\ hand.who \in Chat /\ Held = {hand.who}
  BY HeldRecorded, StepSets DEF ChatCancelled, ChatRefused, ChatFinished, TypeOK
<1>2. hand.who \notin Queued \cup Running
  BY <1>1 DEF PlaceInv
<1>3. hand.state \in TranslationState /\ {"Cancelled", "Failed"} \subseteq TranslationState
  BY InHand DEF TranslationState
<1>4. PICK s \in TranslationState : AnswerChat(s)
  BY <1>3 DEF ChatCancelled, ChatRefused, ChatFinished
<1> QED BY <1>1, <1>2, <1>4 DEF AnswerChat, TypeOK, Client

LEMMA RecordKept ==
    ASSUME TypeOK, RecordInv, jobs' = jobs, chats' = chats, answered' = answered,
           \A j \in Job : ticket'[j].completed = ticket[j].completed
    PROVE  RecordInv'
BY DEF RecordInv

LEMMA RecordNext == IInv /\ [Next]_vars => RecordInv'
<1> SUFFICES ASSUME IInv, [Next]_vars
             PROVE  RecordInv'
  OBVIOUS
<1>0. TypeOK /\ HandInv /\ CallInv /\ PlaceInv /\ RecordInv
  BY DEF IInv
<1>1. ASSUME UNCHANGED <<jobs, chats, answered, ticket>>
      PROVE  RecordInv'
  BY <1>0, <1>1, RecordKept
<1>2. CASE UNCHANGED vars
  BY <1>1, <1>2 DEF vars, table, history
<1>3. ASSUME NEW t \in Canceller,
             \/ CancelCalls(t)
             \/ \E j \in Job : CancelFinds(t, j)
             \/ \E c \in Chat : CancelChat(t, c)
      PROVE  RecordInv'
  BY <1>1, <1>3 DEF CancelCalls, CancelFinds, CancelChat, table, history
<1>4. ASSUME NEW t \in Canceller, CancelRequests(t)
      PROVE  RecordInv'
  BY <1>0, <1>4, RequestKeeps, RecordKept DEF CancelRequests, SameTickets
<1>5. CASE \/ \E j \in Job : PreemptBatch(j)
           \/ TakeHandler
           \/ \E v \in InvocationId : \/ SubmitAccepted(v) \/ ChatAccepted(v)
                                      \/ HostStarts(v) \/ HostDeadline(v) \/ HostFinishes(v)
  BY <1>1, <1>5 DEF PreemptBatch, TakeHandler, SubmitAccepted, ChatAccepted, HostStarts, HostDeadline,
                    HostFinishes, table, history
<1>6. CASE Submitting
  <2>1. PICK w \in Client : /\ answered[w] = "nothing"
                            /\ \/ jobs' = jobs \cup {w} /\ chats' = chats
                               \/ chats' = chats \cup {w} /\ jobs' = jobs
                            /\ UNCHANGED <<ticket, answered>>
    BY <1>0, <1>6, SubmissionKinds
  <2> QED BY <1>0, <2>1 DEF RecordInv
<1>7. CASE SubmitInstalls
  <2>1. \A j \in Job : ticket'[j].completed = ticket[j].completed
    BY <1>0, <1>7, InstallEffect
  <2> QED BY <1>0, <1>7, <2>1, RecordKept DEF SubmitInstalls, history
<1>8. CASE FinishJob
  <2>1. "nothing" \notin TranslationState
    BY DEF TranslationState
  <2>2. jobs \cup chats \subseteq Client
    BY <1>0 DEF TypeOK, Client
  <2>3. PICK i \in Job : i = hand.who
    BY <1>0, <1>8, FinishEffect
  <2>4. /\ jobs' = jobs \ {i} /\ chats' = chats /\ i \notin chats
        /\ \A j \in Job \ {i} : ticket'[j] = ticket[j]
        /\ answered'[i] # "nothing" /\ \A w \in Client \ {i} : answered'[w] = answered[w]
    BY <1>0, <1>8, <2>1, <2>3, FinishEffect, NoneFacts DEF TypeOK
  <2>5. \A w \in (jobs \cup chats)' : answered'[w] = "nothing"
    BY <1>0, <2>2, <2>4 DEF RecordInv
  <2>6. \A j \in Job : answered'[j] = "nothing" => ~ticket'[j].completed
    BY <1>0, <2>4 DEF RecordInv, Client
  <2> QED BY <2>5, <2>6 DEF RecordInv
<1>9. CASE ChatCancelled \/ ChatRefused \/ ChatFinished
  <2>1. "nothing" \notin TranslationState
    BY DEF TranslationState
  <2>2. jobs \cup chats \subseteq Client
    BY <1>0 DEF TypeOK, Client
  <2>3. PICK i \in Chat : i = hand.who
    BY <1>0, <1>9, AnswerEffect
  <2>4. /\ chats' = chats \ {i} /\ jobs' = jobs /\ i \notin Job /\ ticket' = ticket
        /\ answered'[i] # "nothing" /\ \A w \in Client \ {i} : answered'[w] = answered[w]
    BY <1>0, <1>9, <2>1, <2>3, AnswerEffect, NoneFacts DEF TypeOK
  <2>5. \A w \in (jobs \cup chats)' : answered'[w] = "nothing"
    BY <1>0, <2>2, <2>3, <2>4, NoneFacts DEF RecordInv, TypeOK
  <2>6. \A j \in Job : answered'[j] = "nothing" => ~ticket'[j].completed
    BY <1>0, <2>3, <2>4 DEF RecordInv, Client
  <2> QED BY <2>5, <2>6 DEF RecordInv
<1>10. CASE \/ SubmitChecks \/ SubmitRefused \/ SubmitRecords \/ JobFinished \/ JobChecked
            \/ ChatChecks \/ ChatInstalls \/ ChatReplaysCancel \/ ShutdownReturns \/ Shutdown
  BY <1>1, <1>10 DEF SubmitChecks, SubmitRefused, SubmitRecords, JobFinished, JobChecked, ChatChecks,
                     ChatInstalls, ChatReplaysCancel, ShutdownReturns, Shutdown, table, history
<1> QED
  BY <1>2, <1>3, <1>4, <1>5, <1>6, <1>7, <1>8, <1>9, <1>10
     DEF Next, Cancelling, ServiceThread, HostDelivers

\* What a step may do to the handles without hiding any.
HandlesKept ==
    /\ \A v \in InvocationId : Live(v)' => Live(v) /\ owner'[v] = owner[v]
    /\ \A v \in InvocationId : Live(v)' /\ owner[v] \in Job =>
          ticket'[owner[v]].callback = ticket[owner[v]].callback
    /\ \A v \in InvocationId : Live(v)' /\ owner[v] \in Chat =>
          /\ chat'[owner[v]].running = chat[owner[v]].running
          /\ chat'[owner[v]].handle = chat[owner[v]].handle
    /\ spc \in {"record", "install"} => spc' \in {"record", "install"} /\ hand'.inv = hand.inv
    /\ spc = "chatInstall" => spc' = "chatInstall" /\ hand'.inv = hand.inv
    /\ spc' = "chatCore" => chat'[hand'.who].running

LEMMA KeptHandles == HandleInv /\ HandlesKept => HandleInv'
BY DEF HandleInv, HandlesKept

\* The chats keep the fields that lead to their invocations.
SameChats == \A c \in Chat : /\ chat'[c].running = chat[c].running
                             /\ chat'[c].handle = chat[c].handle

LEMMA AsideHandles ==
    ASSUME HandInv, HandleInv, Aside, SameTickets, SameChats
    PROVE  HandleInv'
<1>1. spc' = "chatCore" => chat'[hand'.who].running
  BY StepSets DEF Aside, HandInv, HandleInv, SameChats
<1>2. HandlesKept
  BY <1>1 DEF Aside, SameTickets, SameChats, HandlesKept
<1> QED BY <1>2, KeptHandles

LEMMA CancelChatKeeps ==
    ASSUME TypeOK, NEW t \in Canceller, NEW c \in Chat, CancelChat(t, c)
    PROVE  /\ SameChats /\ chat'[c].cancelRequested
           /\ \A d \in Chat \ {c} : chat'[d].cancelRequested = chat[d].cancelRequested
<1>1. chat' = [chat EXCEPT ![c] = [chat[c] EXCEPT !.cancelRequested = TRUE]]
  BY DEF CancelChat
<1>2. chat[c] \in ChatRecord
  BY DEF TypeOK
<1>3. /\ [chat[c] EXCEPT !.cancelRequested = TRUE].running = chat[c].running
      /\ [chat[c] EXCEPT !.cancelRequested = TRUE].handle = chat[c].handle
      /\ [chat[c] EXCEPT !.cancelRequested = TRUE].cancelRequested
  BY <1>2 DEF ChatRecord
<1>4. /\ \A d \in Chat \ {c} : chat'[d] = chat[d]
      /\ chat'[c] = [chat[c] EXCEPT !.cancelRequested = TRUE]
  BY <1>1 DEF TypeOK
<1> QED BY <1>3, <1>4 DEF SameChats

LEMMA ChatChecksEffect ==
    ASSUME TypeOK, HandInv, PlaceInv, ChatChecks
    PROVE  /\ hand.who \in Chat /\ UNCHANGED hand
           /\ \A d \in Chat \ {hand.who} : chat'[d] = chat[d]
           /\ chat'[hand.who].handle = chat[hand.who].handle
           /\ chat'[hand.who].cancelRequested = chat[hand.who].cancelRequested
           /\ spc' = "chatCore" => chat'[hand.who].running
<1>1. hand.who \in chats /\ hand.who \in Chat
  BY HeldRecorded, StepSets DEF ChatChecks, TypeOK
<1>2. PICK w \in Chat : w = hand.who
  BY <1>1
<1>3. chat[w] \in ChatRecord
  BY DEF TypeOK
<1>4. /\ [chat[w] EXCEPT !.running = TRUE].handle = chat[w].handle
      /\ [chat[w] EXCEPT !.running = TRUE].cancelRequested = chat[w].cancelRequested
      /\ [chat[w] EXCEPT !.running = TRUE].running
  BY <1>3 DEF ChatRecord
<1>5. \/ chat' = chat /\ spc' = "chatCancelled"
      \/ chat' = [chat EXCEPT ![w] = [chat[w] EXCEPT !.running = TRUE]]
  BY <1>1, <1>2 DEF ChatChecks, Goto
<1>6. /\ \A d \in Chat \ {w} : chat'[d] = chat[d]
      /\ \/ chat'[w] = chat[w] /\ spc' = "chatCancelled"
         \/ chat'[w] = [chat[w] EXCEPT !.running = TRUE]
  BY <1>5 DEF TypeOK
<1>7. UNCHANGED hand
  BY <1>1 DEF ChatChecks, Goto
<1> QED BY <1>2, <1>4, <1>6, <1>7

LEMMA ChatInstallsEffect ==
    ASSUME TypeOK, HandInv, ChatInstalls
    PROVE  /\ hand.who \in Chat /\ hand.inv \in InvocationId
           /\ \A d \in Chat \ {hand.who} : chat'[d] = chat[d]
           /\ chat'[hand.who].running = chat[hand.who].running
           /\ chat'[hand.who].cancelRequested = chat[hand.who].cancelRequested
           /\ hand.who \in chats => /\ chat'[hand.who].handle = hand.inv
                                    /\ chat[hand.who].cancelRequested => spc' = "chatCancel" /\ hand' = hand
           /\ spc' \in {"chatCancel", "idle"}
<1>1. PICK w \in Chat, v \in InvocationId : w = hand.who /\ v = hand.inv
  BY DEF ChatInstalls, HandInv, ChatStep, Installing
<1>2. chat[w] \in ChatRecord
  BY DEF TypeOK
<1>3. /\ [chat[w] EXCEPT !.handle = v].handle = v
      /\ [chat[w] EXCEPT !.handle = v].cancelRequested = chat[w].cancelRequested
      /\ [chat[w] EXCEPT !.handle = v].running = chat[w].running
  BY <1>2 DEF ChatRecord
<1>4. \/ w \notin chats /\ chat' = chat
      \/ w \in chats /\ chat' = [chat EXCEPT ![w] = [chat[w] EXCEPT !.handle = v]]
  BY <1>1 DEF ChatInstalls
<1>5. /\ \A d \in Chat \ {w} : chat'[d] = chat[d]
      /\ \/ w \notin chats /\ chat'[w] = chat[w]
         \/ w \in chats /\ chat'[w] = [chat[w] EXCEPT !.handle = v]
  BY <1>4 DEF TypeOK
<1>6. /\ spc' \in {"chatCancel", "idle"}
      /\ hand.who \in chats /\ chat[hand.who].cancelRequested => spc' = "chatCancel" /\ hand' = hand
  BY DEF ChatInstalls, Goto, Idle
<1> QED BY <1>1, <1>3, <1>5, <1>6

\* While a handle is being installed, the invocation in hand is the only one of
\* its job or chat.
LEMMA InstallingAlone ==
    ASSUME TypeOK, HandInv, PlaceInv, spc \in Installing,
           NEW v \in InvocationId, Live(v), owner[v] = hand.who
    PROVE  v = hand.inv
<1>1. hand.inv \in InvocationId /\ owner[hand.inv] = hand.who /\ (Live(hand.inv) \/ hand.who \in Queued)
  BY DEF HandInv
<1>2. hand.who \in Running
  BY DEF Running
<1>3. hand.who \notin Queued
  BY <1>2 DEF PlaceInv
<1>4. PICK u \in InvocationId : u = hand.inv
  BY <1>1
<1>5. Live(u) /\ owner[u] = hand.who
  BY <1>1, <1>3, <1>4
<1>6. u = v
  BY <1>5 DEF PlaceInv
<1> QED BY <1>4, <1>6

LEMMA HandleNext == IInv /\ [Next]_vars => HandleInv'
<1> SUFFICES ASSUME IInv, [Next]_vars
             PROVE  HandleInv'
  OBVIOUS
<1>0. TypeOK /\ HandInv /\ CallInv /\ PlaceInv /\ RecordInv /\ HandleInv
  BY DEF IInv
<1>1. ASSUME Aside, UNCHANGED <<ticket, chat>>
      PROVE  HandleInv'
  BY <1>0, <1>1, AsideHandles DEF SameTickets, SameChats
<1>2. CASE UNCHANGED vars
  BY <1>0, <1>1, <1>2, AsideSteps DEF vars, table
<1>3. ASSUME NEW t \in Canceller, CancelCalls(t) \/ \E j \in Job : CancelFinds(t, j)
      PROVE  HandleInv'
  <2>1. UNCHANGED <<ticket, chat>>
    BY <1>3 DEF CancelCalls, CancelFinds, table
  <2> QED BY <1>0, <1>1, <1>3, <2>1, AsideSteps DEF Cancelling
<1>4. ASSUME NEW t \in Canceller, CancelRequests(t)
      PROVE  HandleInv'
  <2>1. Aside /\ SameTickets /\ SameChats
    BY <1>0, <1>4, AsideSteps, RequestKeeps DEF Cancelling, CancelRequests, SameChats
  <2> QED BY <1>0, <2>1, AsideHandles
<1>5. ASSUME NEW t \in Canceller, NEW c \in Chat, CancelChat(t, c)
      PROVE  HandleInv'
  <2>1. Aside /\ SameTickets /\ SameChats
    BY <1>0, <1>5, AsideSteps, CancelChatKeeps DEF CancelChat, SameTickets
  <2> QED BY <1>0, <2>1, AsideHandles
<1>6. CASE \/ \E j \in Job : PreemptBatch(j)
           \/ \E v \in InvocationId : HostStarts(v) \/ HostDeadline(v)
  <2>1. UNCHANGED <<ticket, chat>>
    BY <1>6 DEF PreemptBatch, HostStarts, HostDeadline, table
  <2> QED BY <1>0, <1>1, <1>6, <2>1, AsideSteps
<1>7. CASE Submitting
  <2>1. PICK w \in Client :
              /\ w \notin jobs \cup chats
              /\ \/ chat' = chat
                 \/ w \in Chat /\ chat' = [chat EXCEPT ![w] = NewChat]
              /\ \/ UNCHANGED <<spc, hand>>
                 \/ spc = "idle" /\ spc' = "submit"
              /\ UNCHANGED <<ticket, core>>
    BY <1>0, <1>7, SubmissionKinds
  <2>2. \A v \in InvocationId : (Live(v)' <=> Live(v)) /\ owner'[v] = owner[v]
    BY <2>1 DEF core, Live
  <2>3. \A c \in jobs \cup chats : c # w
    BY <2>1
  <2>4. \A c \in chats : chat'[c] = chat[c]
    BY <1>0, <2>1, <2>3 DEF TypeOK
  <2>5. \A v \in InvocationId : Live(v) /\ owner[v] \in Chat => owner[v] \in chats
    BY <1>0, LiveOwner, NoneFacts DEF TypeOK
  <2>6. spc' = "chatCore" => chat'[hand'.who].running
    <3>1. CASE spc' = "chatCore"
      <4>1. spc = "chatCore" /\ hand' = hand
        BY <2>1, <3>1
      <4>2. hand.who \in chats
        BY <1>0, <4>1, HeldRecorded, StepSets
      <4> QED BY <1>0, <2>4, <4>1, <4>2 DEF HandleInv
    <3> QED BY <3>1
  <2>7. HandlesKept
    BY <2>1, <2>2, <2>4, <2>5, <2>6 DEF HandlesKept
  <2> QED BY <1>0, <2>7, KeptHandles
<1>8. ASSUME UNCHANGED <<phase, owner, ticket, chat>>, spc \notin {"record", "install", "chatInstall"},
             spc' # "chatCore"
      PROVE  HandleInv'
  <2>1. HandlesKept
    BY <1>8 DEF HandlesKept, Live
  <2> QED BY <1>0, <2>1, KeptHandles
<1>9. CASE TakeHandler
  <2>1. spc' \notin {"chatCore"}
    <3>1. spc' = posted[1].kind /\ 1 \in DOMAIN posted
      BY <1>0, <1>9, Takes DEF TakeHandler, TypeOK
    <3> QED BY <1>0, <3>1 DEF HandInv
  <2> QED BY <1>8, <1>9, <2>1 DEF TakeHandler, table, core
<1>10. CASE SubmitChecks \/ SubmitRefused \/ JobFinished \/ JobChecked \/ ChatReplaysCancel \/ ShutdownReturns \/ Shutdown
  <2>1. UNCHANGED <<phase, owner, ticket, chat>>
    BY <1>10 DEF SubmitChecks, SubmitRefused, JobFinished, JobChecked, ChatReplaysCancel,
       ShutdownReturns, Shutdown, table, core
  <2>2. spc \notin {"record", "install", "chatInstall"} /\ spc' # "chatCore"
    BY <1>10 DEF SubmitChecks, SubmitRefused, JobFinished, JobChecked, ChatReplaysCancel,
       ShutdownReturns, Shutdown, Goto, FinishWith, Idle
  <2> QED BY <1>8, <2>1, <2>2
<1>11. CASE SubmitRecords
  <2>1. /\ UNCHANGED <<phase, owner, ticket, chat>>
        /\ \/ hand.who \in jobs /\ spc' = "install" /\ hand' = hand
           \/ hand.who \notin jobs /\ spc' = "idle"
    BY <1>11 DEF SubmitRecords, core, Goto, Idle
  <2>2. hand.who \in jobs
    <3>1. hand.who \in Job /\ hand.inv \in InvocationId /\ owner[hand.inv] = hand.who
          /\ (Live(hand.inv) \/ hand.who \in Queued)
      BY <1>0, <1>11 DEF SubmitRecords, HandInv, JobStep, Installing
    <3>2. hand.who \in Running \/ hand.who \in Queued
      BY <3>1 DEF Running
    <3> QED BY <1>0, <3>1, <3>2, NoneFacts DEF PlaceInv, TypeOK
  <2>3. HandlesKept
    BY <1>11, <2>1, <2>2 DEF SubmitRecords, HandlesKept, Live
  <2> QED BY <1>0, <2>3, KeptHandles
<1>12. CASE SubmitInstalls
  <2>1. PICK i \in Job, u \in InvocationId : i = hand.who /\ u = hand.inv
    BY <1>0, <1>12, InstallEffect
  <2>2. /\ \A j \in Job \ {i} : ticket'[j] = ticket[j]
        /\ ~ticket[i].completed => ticket'[i].callback = u
        /\ UNCHANGED <<phase, owner, chat>> /\ spc = "install" /\ spc' = "idle"
    BY <1>0, <1>12, <2>1, InstallEffect DEF SubmitInstalls, Idle
  <2>3. ASSUME NEW v \in InvocationId, Live(v), owner[v] = i
        PROVE  ticket'[i].callback = v
    <3>1. v = u
      BY <1>0, <2>1, <2>2, <2>3, InstallingAlone, StepSets
    <3>2. i \in jobs \cup chats
      BY <1>0, <2>3, LiveOwner
    <3>3. ~ticket[i].completed
      BY <1>0, <3>2 DEF RecordInv
    <3> QED BY <2>2, <3>1, <3>3
  <2>4. ASSUME NEW v \in InvocationId, Live(v), owner[v] \in Job, owner[v] # i
        PROVE  ticket'[owner[v]].callback = v
    <3>1. hand.inv # v
      BY <1>0, <2>1, <2>2, <2>4, StepSets DEF HandInv
    <3> QED BY <1>0, <2>2, <2>4, <3>1 DEF HandleInv
  <2>5. ASSUME NEW v \in InvocationId, Live(v), owner[v] \in Chat
        PROVE  chat[owner[v]].running /\ chat[owner[v]].handle = v
    BY <1>0, <2>2, <2>5 DEF HandleInv
  <2> QED BY <2>2, <2>3, <2>4, <2>5 DEF HandleInv, Live
<1>13. CASE FinishJob
  <2>1. /\ \A j \in Job \ {hand.who} : ticket'[j] = ticket[j]
        /\ UNCHANGED <<phase, owner, chat>> /\ spc = "finish" /\ spc' = "idle"
        /\ hand.who \notin Running
    BY <1>0, <1>13, FinishEffect DEF FinishJob, core, Idle
  <2>2. \A v \in InvocationId : Live(v) => owner[v] # hand.who
    BY <2>1 DEF Running
  <2>3. HandlesKept
    BY <2>1, <2>2 DEF HandlesKept, Live
  <2> QED BY <1>0, <2>3, KeptHandles
<1>14. CASE ChatChecks
  <2>1. /\ UNCHANGED <<phase, owner, ticket>> /\ spc = "chatSubmit"
        /\ hand.who \notin Running
    BY <1>0, <1>14, HeldRecorded, StepSets DEF ChatChecks, core, PlaceInv
  <2>2. \A v \in InvocationId : Live(v) => owner[v] # hand.who
    BY <2>1 DEF Running
  <2>3. HandlesKept
    BY <1>0, <1>14, <2>1, <2>2, ChatChecksEffect DEF HandlesKept, Live
  <2> QED BY <1>0, <2>3, KeptHandles
<1>15. CASE ChatCancelled \/ ChatRefused \/ ChatFinished
  <2>1. /\ \A c \in Chat \ {hand.who} : chat'[c] = chat[c]
        /\ ticket' = ticket /\ hand.who \notin Running
    BY <1>0, <1>15, AnswerEffect
  <2>2. /\ UNCHANGED <<phase, owner>> /\ spc' = "idle"
        /\ spc \in {"chatCancelled", "chatCore", "chatFinished"}
    BY <1>15 DEF ChatCancelled, ChatRefused, ChatFinished, AnswerChat, core, Idle
  <2>3. \A v \in InvocationId : Live(v) => owner[v] # hand.who
    BY <2>1 DEF Running
  <2>4. HandlesKept
    BY <2>1, <2>2, <2>3 DEF HandlesKept, Live
  <2> QED BY <1>0, <2>4, KeptHandles
<1>16. CASE ChatInstalls
  <2>1. PICK i \in Chat, u \in InvocationId : i = hand.who /\ u = hand.inv
    BY <1>0, <1>16, ChatInstallsEffect
  <2>2. /\ \A d \in Chat \ {i} : chat'[d] = chat[d]
        /\ chat'[i].running = chat[i].running
        /\ i \in chats => chat'[i].handle = u
        /\ UNCHANGED <<phase, owner, ticket>> /\ spc = "chatInstall" /\ spc' \in {"chatCancel", "idle"}
    BY <1>0, <1>16, <2>1, ChatInstallsEffect DEF ChatInstalls, core
  <2>3. ASSUME NEW v \in InvocationId, Live(v), owner[v] = i
        PROVE  chat'[i].running /\ chat'[i].handle = v
    <3>1. v = u
      BY <1>0, <2>1, <2>2, <2>3, InstallingAlone, StepSets
    <3>2. i \in chats
      BY <1>0, <2>3, LiveOwner, NoneFacts DEF TypeOK
    <3>3. chat[i].running
      BY <1>0, <2>3 DEF HandleInv
    <3> QED BY <2>2, <3>1, <3>2, <3>3
  <2>4. ASSUME NEW v \in InvocationId, Live(v), owner[v] \in Chat, owner[v] # i
        PROVE  chat'[owner[v]].running /\ chat'[owner[v]].handle = v
    <3>1. hand.inv # v
      BY <1>0, <2>1, <2>2, <2>4, StepSets DEF HandInv
    <3> QED BY <1>0, <2>2, <2>4, <3>1 DEF HandleInv
  <2>5. ASSUME NEW v \in InvocationId, Live(v), owner[v] \in Job
        PROVE  ticket[owner[v]].callback = v
    BY <1>0, <2>2, <2>5 DEF HandleInv
  <2> QED BY <2>2, <2>3, <2>4, <2>5 DEF HandleInv, Live
<1>17. ASSUME NEW v \in InvocationId, SubmitAccepted(v) \/ ChatAccepted(v)
       PROVE  HandleInv'
  <2>1. /\ HostAdmits(v) /\ UNCHANGED <<ticket, chat>> /\ hand.who \in Client
        /\ hand'.who = hand.who /\ hand'.inv = v
        /\ \/ hand.who \in Job /\ spc = "core" /\ spc' = "record"
           \/ hand.who \in Chat /\ spc = "chatCore" /\ spc' = "chatInstall"
    <3>1. [hand EXCEPT !.inv = v].who = hand.who /\ [hand EXCEPT !.inv = v].inv = v
      BY HandChanges DEF TypeOK
    <3>2. CASE SubmitAccepted(v)
      BY <1>0, <3>1, <3>2 DEF SubmitAccepted, HandInv, JobStep, Client, table
    <3>3. CASE ChatAccepted(v)
      BY <1>0, <3>1, <3>3 DEF ChatAccepted, HandInv, ChatStep, Client, table
    <3> QED BY <1>17, <3>2, <3>3
  <2>2. /\ \A u \in InvocationId : Live(u)' <=> Live(u) \/ u = v
        /\ owner'[v] = hand.who /\ \A u \in InvocationId \ {v} : owner'[u] = owner[u]
    BY <1>0, <2>1, Admission
  <2>3. ASSUME NEW u \in InvocationId, Live(u), u # v
        PROVE  /\ owner'[u] \in Job => ticket'[owner'[u]].callback = u
               /\ owner'[u] \in Chat => chat'[owner'[u]].running /\ chat'[owner'[u]].handle = u
    BY <1>0, <2>1, <2>2, <2>3 DEF HandleInv
  <2>4. /\ owner'[v] \in Job => spc' \in {"record", "install"}
        /\ owner'[v] \in Chat => chat'[owner'[v]].running /\ spc' = "chatInstall"
    BY <1>0, <2>1, <2>2, NoneFacts DEF HandleInv
  <2> QED BY <2>1, <2>2, <2>3, <2>4 DEF HandleInv
<1>18. ASSUME NEW v \in InvocationId, HostFinishes(v)
       PROVE  HandleInv'
  <2>1. /\ \A u \in InvocationId : Live(u)' <=> Live(u) /\ u # v
        /\ UNCHANGED <<ticket, chat, spc, hand, owner>>
    BY <1>0, <1>18, Finish DEF table
  <2>2. HandlesKept
    BY <1>0, <2>1 DEF HandlesKept, HandleInv
  <2> QED BY <1>0, <2>2, KeptHandles
<1> QED
  BY <1>2, <1>3, <1>4, <1>5, <1>6, <1>7, <1>9, <1>10, <1>11, <1>12, <1>13, <1>14, <1>15,
     <1>16, <1>17, <1>18
     DEF Next, Cancelling, ServiceThread, HostDelivers

-----------------------------------------------------------------------------
(* A cancel() on its way to an invocation.                                 *)

CallTo(v) == \E t \in Canceller : cpc[t] = "call" /\ ctarget[t] = v
HandTo(v) == hand.inv = v /\ spc \in Installing

LEMMA Underway == \A v : CancelUnderway(v) <=> HandTo(v) \/ CallTo(v)
BY DEF CancelUnderway, CallTo, HandTo, Installing

Reached(v) == StopPriority(asked[v]) >= StopPriority("UserCancel")

\* No invocation is wanted cancelled that was not, and none loses the call that
\* carries the cancellation, unless it has arrived.
ReachKept ==
    \A v \in InvocationId : Live(v)' =>
        \/ Reached(v)'
        \/ HandTo(v)' \/ CallTo(v)'
        \/ ~CancelWanted(owner[v])'
        \/ Live(v) /\ CancelWanted(owner[v]) /\ ~HandTo(v) /\ ~CallTo(v)

LEMMA KeptReach ==
    ASSUME TypeOK, CancelReachesCore, Rising, ReachKept
    PROVE  CancelReachesCore'
<1> SUFFICES ASSUME NEW v \in InvocationId, Live(v)', CancelWanted(owner[v])', ~CancelUnderway(v)'
             PROVE  Reached(v)'
  BY DEF CancelReachesCore, Reached
<1>1. ~HandTo(v)' /\ ~CallTo(v)'
  BY DEF CancelUnderway, CallTo, HandTo, Installing
<1>2. CASE Live(v) /\ CancelWanted(owner[v]) /\ ~HandTo(v) /\ ~CallTo(v)
  <2>1. Reached(v)
    BY <1>2, Underway DEF CancelReachesCore, Reached
  <2>2. StopPriority(asked'[v]) >= StopPriority(asked[v])
    BY DEF Rising
  <2>3. asked[v] \in StopReason /\ asked'[v] \in StopReason /\ "UserCancel" \in StopReason
    BY DEF TypeOK, Rising, StopReason
  <2>4. /\ StopPriority(asked[v]) \in Int /\ StopPriority(asked'[v]) \in Int
        /\ StopPriority("UserCancel") \in Int
    BY <2>3, RaiseFacts
  <2> QED BY <2>1, <2>2, <2>4 DEF Reached
<1> QED BY <1>1, <1>2 DEF ReachKept

\* The cancellations wanted, as far as the host's invocations are concerned.
SameWants == \A v \in InvocationId : Live(v)' => Live(v) /\ (CancelWanted(owner[v])' <=> CancelWanted(owner[v]))

LEMMA WantsSame ==
    ASSUME UNCHANGED <<ticket, chat, owner>>, \A v \in InvocationId : Live(v)' => Live(v)
    PROVE  SameWants
BY DEF SameWants, CancelWanted

LEMMA ReachQuiet ==
    ASSUME TypeOK, CancelReachesCore, Rising, SameWants,
           \A v \in InvocationId : Live(v)' /\ CancelWanted(owner[v]) =>
               /\ HandTo(v) => HandTo(v)' \/ Reached(v)'
               /\ CallTo(v) => CallTo(v)' \/ Reached(v)'
    PROVE  CancelReachesCore'
<1>1. ReachKept
  BY DEF ReachKept, SameWants
<1> QED BY <1>1, KeptReach

LEMMA StopReaches ==
    ASSUME TypeOK, NEW v \in InvocationId, Live(v), asked' = Stopped(v, "UserCancel")
    PROVE  Reached(v)'
BY StoppedFacts DEF TypeOK, Reached, StopReason

LEMMA AnsweredWants ==
    ASSUME TypeOK, HandInv, PlaceInv, FinishJob \/ ChatCancelled \/ ChatRefused \/ ChatFinished
    PROVE  SameWants
<1>1. UNCHANGED <<phase, owner>>
  BY DEF FinishJob, ChatCancelled, ChatRefused, ChatFinished, AnswerChat, core
<1>2. \A v \in InvocationId : Live(v) => owner[v] # hand.who /\ owner[v] \in Client
  <2>1. hand.who \notin Running
    BY FinishEffect, AnswerEffect
  <2> QED BY <2>1, LiveOwner DEF Running
<1>3. CASE FinishJob
  <2>1. chat' = chat /\ \A j \in Job \ {hand.who} : ticket'[j] = ticket[j]
    BY <1>3, FinishEffect
  <2> QED BY <1>1, <1>2, <2>1 DEF SameWants, CancelWanted, Live
<1>4. CASE ChatCancelled \/ ChatRefused \/ ChatFinished
  <2>1. ticket' = ticket /\ \A c \in Chat \ {hand.who} : chat'[c] = chat[c]
    BY <1>4, AnswerEffect
  <2> QED BY <1>1, <1>2, <2>1 DEF SameWants, CancelWanted, Live, Client
<1> QED BY <1>3, <1>4

LEMMA ReachNext == IInv /\ [Next]_vars => CancelReachesCore'
<1> SUFFICES ASSUME IInv, [Next]_vars
             PROVE  CancelReachesCore'
  OBVIOUS
<1>0. TypeOK /\ HandInv /\ CallInv /\ PlaceInv /\ RecordInv /\ HandleInv /\ CancelReachesCore /\ Rising
  BY AlwaysRising DEF IInv
<1>1. ASSUME Aside, UNCHANGED <<ticket, chat, calls>>
      PROVE  CancelReachesCore'
  <2>1. SameWants
    BY <1>1, WantsSame DEF Aside
  <2>2. \A v \in InvocationId : (HandTo(v) => HandTo(v)') /\ (CallTo(v) => CallTo(v)')
    BY <1>1 DEF Aside, HandTo, CallTo, calls
  <2> QED BY <1>0, <2>1, <2>2, ReachQuiet
<1>2. CASE UNCHANGED vars
  <2>1. UNCHANGED <<ticket, chat, calls>>
    BY <1>2 DEF vars, table
  <2> QED BY <1>0, <1>1, <1>2, <2>1, AsideSteps
<1>3. CASE \/ \E j \in Job : PreemptBatch(j)
           \/ \E v \in InvocationId : HostStarts(v) \/ HostDeadline(v)
  <2>1. UNCHANGED <<ticket, chat, calls>>
    BY <1>3 DEF PreemptBatch, HostStarts, HostDeadline, table
  <2> QED BY <1>0, <1>1, <1>3, <2>1, AsideSteps
<1>4. ASSUME NEW t \in Canceller, NEW j \in Job, CancelFinds(t, j)
      PROVE  CancelReachesCore'
  <2>1. Aside /\ UNCHANGED <<ticket, chat>>
    BY <1>0, <1>4, AsideSteps DEF CancelFinds, table
  <2>2. SameWants
    BY <2>1, WantsSame DEF Aside
  <2>3. \A s \in Canceller : cpc[s] = "call" => cpc'[s] = "call" /\ ctarget'[s] = ctarget[s]
    BY <1>0, <1>4 DEF CancelFinds, TypeOK
  <2>4. \A v \in InvocationId : (HandTo(v) => HandTo(v)') /\ (CallTo(v) => CallTo(v)')
    BY <2>1, <2>3 DEF Aside, HandTo, CallTo
  <2> QED BY <1>0, <2>2, <2>4, ReachQuiet
<1>5. ASSUME NEW t \in Canceller, CancelCalls(t)
      PROVE  CancelReachesCore'
  <2>1. Aside /\ UNCHANGED <<ticket, chat>>
    BY <1>0, <1>5, AsideSteps DEF Cancelling, CancelCalls, table
  <2>2. SameWants
    BY <2>1, WantsSame DEF Aside
  <2>3. PICK u \in InvocationId : u = ctarget[t]
    BY <1>0, <1>5 DEF CancelCalls, CallInv
  <2>4. asked' = Stopped(u, "UserCancel")
    BY <1>5, <2>3 DEF CancelCalls
  <2>5. \A s \in Canceller : cpc[s] = "call" => ctarget[s] = u \/ (cpc'[s] = "call" /\ ctarget'[s] = ctarget[s])
    BY <1>0, <1>5, <2>3 DEF CancelCalls, CancelReturns, TypeOK
  <2>6. ASSUME NEW v \in InvocationId, Live(v)'
        PROVE  (HandTo(v) => HandTo(v)') /\ (CallTo(v) => CallTo(v)' \/ Reached(v)')
    <3>1. Live(v) /\ (HandTo(v) => HandTo(v)')
      BY <2>1, <2>6 DEF Aside, HandTo
    <3>2. CASE v = u
      BY <1>0, <2>4, <3>1, <3>2, StopReaches
    <3>3. CASE v # u
      BY <2>5, <3>1, <3>3 DEF CallTo
    <3> QED BY <3>2, <3>3, <3>1
  <2> QED BY <1>0, <2>2, <2>6, ReachQuiet
<1>6. ASSUME NEW t \in Canceller, CancelRequests(t)
      PROVE  CancelReachesCore'
  <2>1. Aside /\ UNCHANGED <<chat, asked>>
    BY <1>0, <1>6, AsideSteps DEF Cancelling, CancelRequests, core
  <2>2. PICK i \in Job : i = ctarget[t]
    BY <1>0, <1>6 DEF CancelRequests, CallInv
  <2>3. cpc[t] = "request" /\ \A s \in Canceller \ {t} : cpc'[s] = cpc[s] /\ ctarget'[s] = ctarget[s]
    BY <1>0, <1>6 DEF CancelRequests, CancelReturns, TypeOK
  <2>4. \A v \in InvocationId : (HandTo(v) => HandTo(v)') /\ (CallTo(v) => CallTo(v)')
    BY <2>1, <2>3 DEF Aside, HandTo, CallTo
  <2>5. \A j \in Job \ {i} : ticket'[j] = ticket[j]
    BY <1>0, <1>6, <2>2 DEF CancelRequests, TypeOK
  <2>6. ASSUME NEW v \in InvocationId, Live(v), owner[v] = i
        PROVE  HandTo(v)' \/ CallTo(v)'
    <3>1. i \in jobs \cup chats
      BY <1>0, <2>6, LiveOwner
    <3>2. ~ticket[i].completed
      BY <1>0, <3>1 DEF RecordInv
    <3>3. ticket[i].callback = v \/ HandTo(v)
      BY <1>0, <2>6 DEF HandleInv, HandTo, Installing
    <3>4. CASE ticket[i].callback = v
      <4>1. cpc' = [cpc EXCEPT ![t] = "call"] /\ ctarget' = [ctarget EXCEPT ![t] = v]
        BY <1>6, <2>2, <3>2, <3>4, NoneFacts DEF CancelRequests
      <4>2. cpc'[t] = "call" /\ ctarget'[t] = v
        BY <1>0, <4>1 DEF TypeOK
      <4> QED BY <4>2 DEF CallTo
    <3> QED BY <2>4, <3>3, <3>4
  <2>7. ReachKept
    <3> SUFFICES ASSUME NEW v \in InvocationId, Live(v)'
                 PROVE  \/ Reached(v)'
                        \/ HandTo(v)' \/ CallTo(v)'
                        \/ ~CancelWanted(owner[v])'
                        \/ Live(v) /\ CancelWanted(owner[v]) /\ ~HandTo(v) /\ ~CallTo(v)
      BY DEF ReachKept
    <3>1. Live(v) /\ owner'[v] = owner[v]
      BY <2>1 DEF Aside
    <3>2. CASE owner[v] = i
      BY <2>6, <3>1, <3>2
    <3>3. CASE owner[v] # i
      <4>1. CancelWanted(owner[v])' => CancelWanted(owner[v])
        BY <2>1, <2>5, <3>1, <3>3 DEF CancelWanted
      <4> QED BY <2>4, <3>1, <4>1
    <3> QED BY <3>2, <3>3
  <2> QED BY <1>0, <2>7, KeptReach
<1>7. ASSUME NEW t \in Canceller, NEW c \in Chat, CancelChat(t, c)
      PROVE  CancelReachesCore'
  <2>1. Aside /\ UNCHANGED <<ticket, asked>>
    BY <1>0, <1>7, AsideSteps DEF CancelChat, core
  <2>2. cpc[t] = "idle" /\ \A s \in Canceller \ {t} : cpc'[s] = cpc[s] /\ ctarget'[s] = ctarget[s]
    BY <1>0, <1>7 DEF CancelChat, TypeOK, calls
  <2>3. \A v \in InvocationId : (HandTo(v) => HandTo(v)') /\ (CallTo(v) => CallTo(v)')
    BY <2>1, <2>2 DEF Aside, HandTo, CallTo
  <2>4. \A d \in Chat \ {c} : chat'[d] = chat[d]
    BY <1>0, <1>7 DEF CancelChat, TypeOK
  <2>5. ASSUME NEW v \in InvocationId, Live(v), owner[v] = c
        PROVE  HandTo(v)' \/ CallTo(v)'
    <3>1. chat[c].running /\ (chat[c].handle = v \/ HandTo(v))
      BY <1>0, <2>5 DEF HandleInv, HandTo, Installing
    <3>2. CASE chat[c].handle = v
      <4>1. cpc' = [cpc EXCEPT ![t] = "call"] /\ ctarget' = [ctarget EXCEPT ![t] = v]
        BY <1>7, <3>1, <3>2, NoneFacts DEF CancelChat
      <4>2. cpc'[t] = "call" /\ ctarget'[t] = v
        BY <1>0, <4>1 DEF TypeOK
      <4> QED BY <4>2 DEF CallTo
    <3> QED BY <2>3, <3>1, <3>2
  <2>6. ReachKept
    <3> SUFFICES ASSUME NEW v \in InvocationId, Live(v)'
                 PROVE  \/ Reached(v)'
                        \/ HandTo(v)' \/ CallTo(v)'
                        \/ ~CancelWanted(owner[v])'
                        \/ Live(v) /\ CancelWanted(owner[v]) /\ ~HandTo(v) /\ ~CallTo(v)
      BY DEF ReachKept
    <3>1. Live(v) /\ owner'[v] = owner[v] /\ owner[v] \in Client
      BY <1>0, <2>1, LiveOwner DEF Aside
    <3>2. CASE owner[v] = c
      BY <2>5, <3>1, <3>2
    <3>3. CASE owner[v] # c
      <4>1. CancelWanted(owner[v])' => CancelWanted(owner[v])
        BY <2>1, <2>4, <3>1, <3>3 DEF CancelWanted, Client
      <4> QED BY <2>3, <3>1, <4>1
    <3> QED BY <3>2, <3>3
  <2> QED BY <1>0, <2>6, KeptReach
<1>8. CASE Submitting
  <2>1. PICK w \in Client :
              /\ w \notin jobs \cup chats
              /\ \/ chat' = chat
                 \/ w \in Chat /\ chat' = [chat EXCEPT ![w] = NewChat]
              /\ \/ UNCHANGED <<spc, hand>>
                 \/ spc = "idle" /\ spc' = "submit"
              /\ UNCHANGED <<ticket, core, calls>>
    BY <1>0, <1>8, SubmissionKinds
  <2>2. \A v \in InvocationId : (Live(v)' <=> Live(v)) /\ owner'[v] = owner[v]
    BY <2>1 DEF core, Live
  <2>3. \A v \in InvocationId : Live(v) => owner[v] # w /\ owner[v] \in Client
    BY <1>0, <2>1, LiveOwner
  <2>4. \A c \in Chat \ {w} : chat'[c] = chat[c]
    BY <1>0, <2>1 DEF TypeOK
  <2>5. SameWants
    BY <2>1, <2>2, <2>3, <2>4 DEF SameWants, CancelWanted, Client
  <2>6. \A v \in InvocationId : (HandTo(v) => HandTo(v)') /\ (CallTo(v) => CallTo(v)')
    BY <2>1 DEF HandTo, CallTo, calls, Installing
  <2> QED BY <1>0, <2>5, <2>6, ReachQuiet
<1>9. ASSUME UNCHANGED <<phase, owner, calls>>, SameWants, GoesOn \/ spc \notin Installing
      PROVE  CancelReachesCore'
  <2>1. \A v \in InvocationId : (HandTo(v) => HandTo(v)') /\ (CallTo(v) => CallTo(v)')
    BY <1>9 DEF HandTo, CallTo, calls, GoesOn
  <2> QED BY <1>0, <1>9, <2>1, ReachQuiet
<1>10. CASE TakeHandler
  <2>1. UNCHANGED <<phase, owner, calls, ticket, chat>> /\ spc \notin Installing
    BY <1>10 DEF TakeHandler, core, table, Installing
  <2>2. SameWants
    BY <2>1, WantsSame DEF Live
  <2> QED BY <1>9, <2>1, <2>2
<1>11. CASE SubmitChecks \/ SubmitRefused \/ JobFinished \/ JobChecked \/ ShutdownReturns \/ Shutdown
  <2>1. UNCHANGED <<phase, owner, calls, ticket, chat>>
    BY <1>11 DEF SubmitChecks, SubmitRefused, JobFinished, JobChecked, ShutdownReturns,
       Shutdown, core, table
  <2>2. spc \notin Installing
    BY <1>11 DEF SubmitChecks, SubmitRefused, JobFinished, JobChecked, ShutdownReturns,
       Shutdown, Installing
  <2>3. SameWants
    BY <2>1, WantsSame DEF Live
  <2> QED BY <1>9, <2>1, <2>2, <2>3
<1>12. CASE FinishJob \/ ChatCancelled \/ ChatRefused \/ ChatFinished
  <2>1. UNCHANGED <<phase, owner, calls>> /\ spc \notin Installing
    BY <1>12 DEF FinishJob, ChatCancelled, ChatRefused, ChatFinished, AnswerChat, core, Installing
  <2> QED BY <1>0, <1>9, <1>12, <2>1, AnsweredWants
<1>13. CASE ChatChecks
  <2>1. UNCHANGED <<phase, owner, calls, ticket>> /\ spc \notin Installing
    BY <1>13 DEF ChatChecks, core, Installing
  <2>2. \A c \in Chat : chat'[c].cancelRequested = chat[c].cancelRequested
    BY <1>0, <1>13, ChatChecksEffect
  <2>3. \A v \in InvocationId : Live(v) => owner[v] \in Client
    BY <1>0, LiveOwner
  <2>4. SameWants
    BY <2>1, <2>2, <2>3 DEF SameWants, CancelWanted, Live, Client
  <2> QED BY <1>9, <2>1, <2>4
<1>14. CASE SubmitRecords
  <2>1. /\ UNCHANGED <<phase, owner, calls, ticket, chat>>
        /\ hand.who \in jobs => Goto("install")
    BY <1>14 DEF SubmitRecords, core
  <2>2. SameWants
    BY <2>1, WantsSame DEF Live
  <2>3. hand.who \in jobs
    <3>1. hand.who \in Job /\ hand.inv \in InvocationId /\ owner[hand.inv] = hand.who
          /\ (Live(hand.inv) \/ hand.who \in Queued)
      BY <1>0, <1>14 DEF SubmitRecords, HandInv, JobStep, Installing
    <3>2. hand.who \in Running \/ hand.who \in Queued
      BY <3>1 DEF Running
    <3> QED BY <1>0, <3>1, <3>2, NoneFacts DEF PlaceInv, TypeOK
  <2>4. GoesOn
    BY <1>14, <2>1, <2>3, GotoGoesOn DEF SubmitRecords, JobStep, Installing
  <2> QED BY <1>9, <2>1, <2>2, <2>4
<1>15. CASE SubmitInstalls
  <2>1. PICK i \in Job, u \in InvocationId : i = hand.who /\ u = hand.inv
    BY <1>0, <1>15, InstallEffect
  <2>2. /\ UNCHANGED <<phase, owner, calls, chat>>
        /\ ticket[i].requested /\ ~ticket[i].completed => asked' = Stopped(u, "UserCancel")
    BY <1>15, <2>1 DEF SubmitInstalls
  <2>3. \A j \in Job : ticket'[j].requested = ticket[j].requested
    BY <1>0, <1>15, InstallEffect
  <2>4. SameWants
    BY <2>2, <2>3 DEF SameWants, CancelWanted, Live
  <2>5. ASSUME NEW v \in InvocationId, Live(v)', CancelWanted(owner[v])
        PROVE  (HandTo(v) => Reached(v)') /\ (CallTo(v) => CallTo(v)')
    <3>1. Live(v) /\ (CallTo(v) => CallTo(v)')
      BY <2>2, <2>5 DEF Live, CallTo, calls
    <3>2. CASE HandTo(v)
      <4>1. v = u /\ owner[v] = i
        BY <1>0, <2>1, <3>2 DEF HandTo, HandInv
      <4>2. ticket[i].requested
        BY <2>5, <4>1 DEF CancelWanted
      <4>3. i \in jobs \cup chats
        BY <1>0, <3>1, <4>1, LiveOwner
      <4>4. ~ticket[i].completed
        BY <1>0, <4>3 DEF RecordInv
      <4> QED BY <1>0, <2>2, <3>1, <4>1, <4>2, <4>4, StopReaches
    <3> QED BY <3>1, <3>2
  <2> QED BY <1>0, <2>4, <2>5, ReachQuiet
<1>16. CASE ChatInstalls
  <2>1. PICK i \in Chat, u \in InvocationId : i = hand.who /\ u = hand.inv
    BY <1>0, <1>16, ChatInstallsEffect
  <2>2. UNCHANGED <<phase, owner, calls, ticket>>
    BY <1>16 DEF ChatInstalls, core
  <2>3. /\ \A c \in Chat : chat'[c].cancelRequested = chat[c].cancelRequested
        /\ i \in chats /\ chat[i].cancelRequested => spc' = "chatCancel" /\ hand' = hand
    BY <1>0, <1>16, <2>1, ChatInstallsEffect
  <2>4. \A v \in InvocationId : Live(v) => owner[v] \in Client
    BY <1>0, LiveOwner
  <2>5. SameWants
    BY <2>2, <2>3, <2>4 DEF SameWants, CancelWanted, Live, Client
  <2>6. ASSUME NEW v \in InvocationId, Live(v)', CancelWanted(owner[v])
        PROVE  (HandTo(v) => HandTo(v)') /\ (CallTo(v) => CallTo(v)')
    <3>1. Live(v) /\ (CallTo(v) => CallTo(v)')
      BY <2>2, <2>6 DEF Live, CallTo, calls
    <3>2. CASE HandTo(v)
      <4>1. v = u /\ owner[v] = i
        BY <1>0, <2>1, <3>2 DEF HandTo, HandInv
      <4>2. i \in chats
        BY <1>0, <2>1, <3>1, <4>1, LiveOwner, NoneFacts DEF TypeOK
      <4>3. chat[i].cancelRequested
        BY <2>1, <2>6, <4>1, NoneFacts DEF CancelWanted
      <4> QED BY <2>3, <3>1, <3>2, <4>2, <4>3 DEF HandTo, Installing
    <3> QED BY <3>1, <3>2
  <2> QED BY <1>0, <2>5, <2>6, ReachQuiet
<1>17. CASE ChatReplaysCancel
  <2>1. PICK u \in InvocationId : u = hand.inv
    BY <1>0, <1>17 DEF ChatReplaysCancel, HandInv, Installing
  <2>2. UNCHANGED <<phase, owner, calls, ticket, chat>> /\ asked' = Stopped(u, "UserCancel")
    BY <1>17, <2>1 DEF ChatReplaysCancel, table
  <2>3. SameWants
    BY <2>2, WantsSame DEF Live
  <2>4. ASSUME NEW v \in InvocationId, Live(v)'
        PROVE  (HandTo(v) => Reached(v)') /\ (CallTo(v) => CallTo(v)')
    <3>1. Live(v) /\ (CallTo(v) => CallTo(v)')
      BY <2>2, <2>4 DEF Live, CallTo, calls
    <3> QED BY <1>0, <2>1, <2>2, <3>1, StopReaches DEF HandTo
  <2> QED BY <1>0, <2>3, <2>4, ReachQuiet
<1>18. ASSUME NEW v \in InvocationId, SubmitAccepted(v) \/ ChatAccepted(v)
       PROVE  CancelReachesCore'
  <2>1. /\ HostAdmits(v) /\ UNCHANGED <<ticket, chat, calls>> /\ hand.who \in Client
        /\ hand'.inv = v /\ spc' \in Installing /\ spc \notin Installing
    BY <1>0, <1>18, HandChanges DEF SubmitAccepted, ChatAccepted, HandInv, TypeOK, JobStep,
       ChatStep, Client, table, Installing
  <2>2. /\ \A u \in InvocationId : Live(u)' <=> Live(u) \/ u = v
        /\ \A u \in InvocationId \ {v} : owner'[u] = owner[u]
    BY <1>0, <2>1, Admission
  <2>3. HandTo(v)'
    BY <2>1 DEF HandTo
  <2>4. \A u \in InvocationId \ {v} : Live(u)' => /\ Live(u) /\ ~HandTo(u) /\ (CallTo(u) => CallTo(u)')
                                                  /\ CancelWanted(owner[u])' => CancelWanted(owner[u])
    BY <2>1, <2>2 DEF HandTo, CallTo, calls, CancelWanted
  <2>5. ReachKept
    BY <2>3, <2>4 DEF ReachKept
  <2> QED BY <1>0, <2>5, KeptReach
<1>19. ASSUME NEW v \in InvocationId, HostFinishes(v)
       PROVE  CancelReachesCore'
  <2>1. /\ \A u \in InvocationId : Live(u)' <=> Live(u) /\ u # v
        /\ UNCHANGED <<ticket, chat, spc, hand, calls, owner>>
    BY <1>0, <1>19, Finish DEF table
  <2>2. SameWants
    BY <2>1, WantsSame
  <2>3. \A u \in InvocationId : (HandTo(u) => HandTo(u)') /\ (CallTo(u) => CallTo(u)')
    BY <2>1 DEF HandTo, CallTo, calls
  <2> QED BY <1>0, <2>2, <2>3, ReachQuiet
<1> QED
  BY <1>2, <1>3, <1>4, <1>5, <1>6, <1>7, <1>8, <1>10, <1>11, <1>12, <1>13, <1>14, <1>15,
     <1>16, <1>17, <1>18, <1>19
     DEF Next, Cancelling, ServiceThread, HostDelivers

-----------------------------------------------------------------------------
(* The trace guard.                                                        *)

\* The ends of chats the service thread has yet to hear of.
Due == {k \in 1 .. Len(posted) : posted[k].kind = "chatFinished"}

\* The guard is held for the chat in hand.
InHandChat == IF spc \in {"chatCore", "chatFinished"} THEN 1 ELSE 0

GuardInv == IsFiniteSet(LiveChats) /\ guard = Cardinality(LiveChats) + Cardinality(Due) + InHandChat

LEMMA GuardIs == IsFiniteSet(LiveChats) /\ GuardCountsChats <=> GuardInv
BY DEF GuardInv, GuardCountsChats, LiveChats, Due, InHandChat

LEMMA GuardNumbers ==
    ASSUME TypeOK, GuardInv
    PROVE  /\ IsFiniteSet(LiveChats) /\ IsFiniteSet(Due)
           /\ Cardinality(LiveChats) \in Nat /\ Cardinality(Due) \in Nat /\ InHandChat \in Nat
           /\ guard \in Nat
<1>1. Len(posted) \in Nat
  BY DEF TypeOK
<1>2. IsFiniteSet(1 .. Len(posted))
  BY <1>1, FS_Interval
<1>3. IsFiniteSet(Due)
  BY <1>2, FS_Subset DEF Due
<1>4. Cardinality(LiveChats) \in Nat /\ Cardinality(Due) \in Nat
  BY <1>3, FS_CardinalityType DEF GuardInv
<1> QED BY <1>3, <1>4 DEF GuardInv, InHandChat, TypeOK

LEMMA SameLiveChats ==
    ASSUME owner' = owner, \A v \in InvocationId : Live(v)' <=> Live(v)
    PROVE  LiveChats' = LiveChats
BY DEF LiveChats

LEMMA SameDue ==
    ASSUME posted' = posted
    PROVE  Due' = Due
BY DEF Due

\* A handler that is not the end of a chat leaves what is due.
LEMMA DuePosts ==
    ASSUME TypeOK, NEW h \in Handler, posted' = Append(posted, h)
    PROVE  /\ h.kind # "chatFinished" => Due' = Due
           /\ h.kind = "chatFinished" => \E k : k \notin Due /\ Due' = Due \cup {k}
<1>1. /\ Len(posted) \in Nat /\ DOMAIN posted = 1 .. Len(posted) /\ DOMAIN posted' = 1 .. Len(posted) + 1
      /\ posted' \in Seq(Handler)
      /\ \A k \in DOMAIN posted : k \in DOMAIN posted' /\ posted'[k] = posted[k]
      /\ \A k \in DOMAIN posted' : k \in DOMAIN posted \/ k = Len(posted) + 1
      /\ posted'[Len(posted) + 1] = h
  BY Posts DEF TypeOK
<1>2. Due = {k \in DOMAIN posted : posted[k].kind = "chatFinished"}
  BY <1>1 DEF Due
<1>3. Due' = {k \in DOMAIN posted' : posted'[k].kind = "chatFinished"}
  BY <1>1 DEF Due
<1>4. Len(posted) + 1 \in DOMAIN posted' /\ Len(posted) + 1 \notin DOMAIN posted
  BY <1>1
<1>5. CASE h.kind # "chatFinished"
  BY <1>1, <1>2, <1>3, <1>5
<1>6. CASE h.kind = "chatFinished"
  <2>1. Due' = Due \cup {Len(posted) + 1} /\ Len(posted) + 1 \notin Due
    BY <1>1, <1>2, <1>3, <1>4, <1>6
  <2> QED BY <1>6, <2>1
<1> QED BY <1>5, <1>6

LEMMA DueTakes ==
    ASSUME TypeOK, GuardInv, posted # <<>>, posted' = Tail(posted)
    PROVE  Cardinality(Due) = Cardinality(Due') + (IF posted[1].kind = "chatFinished" THEN 1 ELSE 0)
<1> DEFINE rest == Due \ {1}
           shift == [k \in rest |-> k - 1]
<1>1. /\ DOMAIN posted = 1 .. Len(posted) /\ Len(posted) \in Nat \ {0}
      /\ posted' \in Seq(Handler)
      /\ 1 \in DOMAIN posted
      /\ \A k \in DOMAIN posted' : k \in Nat \ {0} /\ k + 1 \in DOMAIN posted /\ posted'[k] = posted[k + 1]
      /\ \A k \in DOMAIN posted : k = 1 \/ (k - 1 \in DOMAIN posted' /\ posted'[k - 1] = posted[k])
  BY Takes DEF TypeOK
<1>2. Due = {k \in DOMAIN posted : posted[k].kind = "chatFinished"}
  BY <1>1 DEF Due
<1>3. Due' = {k \in DOMAIN posted' : posted'[k].kind = "chatFinished"}
  BY <1>1 DEF Due
<1>4. IsFiniteSet(Due) /\ Cardinality(Due) \in Nat
  BY GuardNumbers
<1>5. /\ IsFiniteSet(rest)
      /\ Cardinality(rest) = IF 1 \in Due THEN Cardinality(Due) - 1 ELSE Cardinality(Due)
  BY <1>4, FS_RemoveElement
<1>6. \A k \in rest : k \in Int /\ k - 1 \in Due'
  BY <1>1, <1>2, <1>3
<1>7. \A k \in Due' : k + 1 \in rest /\ (k + 1) - 1 = k
  <2>1. ASSUME NEW k \in Due'
        PROVE  k + 1 \in rest /\ (k + 1) - 1 = k
    <3>1. k \in Nat \ {0} /\ k + 1 \in DOMAIN posted /\ posted[k + 1].kind = "chatFinished"
      BY <1>1, <1>3
    <3> QED BY <1>2, <3>1
  <2> QED BY <2>1
<1>8. shift \in [rest -> Due']
  BY <1>6
<1>9. \A i, k \in rest : shift[i] = shift[k] => i = k
  BY <1>6
<1>10. \A k \in Due' : \E i \in rest : shift[i] = k
  BY <1>7
<1>11. shift \in Bijection(rest, Due')
  BY <1>8, <1>9, <1>10, Fun_IsBij
<1>12. Cardinality(Due') = Cardinality(rest)
  BY <1>5, <1>11, FS_Bijection DEF ExistsBijection
<1>13. 1 \in Due <=> posted[1].kind = "chatFinished"
  BY <1>1, <1>2
<1> HIDE DEF rest, shift
<1> QED BY <1>4, <1>5, <1>12, <1>13

\* Steps that change neither what the guard counts nor the guard.
LEMMA GuardQuiet ==
    ASSUME GuardInv, owner' = owner, \A v \in InvocationId : Live(v)' <=> Live(v),
           Due' = Due, guard' = guard, InHandChat' = InHandChat
    PROVE  GuardInv'
<1>1. LiveChats' = LiveChats
  BY SameLiveChats
<1> QED BY <1>1 DEF GuardInv

LEMMA GuardNext == IInv /\ [Next]_vars => IsFiniteSet(LiveChats)' /\ GuardCountsChats'
<1> SUFFICES ASSUME IInv, [Next]_vars
             PROVE  GuardInv'
  BY DEF GuardInv, GuardCountsChats, LiveChats, Due, InHandChat
<1>0. TypeOK /\ HandInv /\ PlaceInv /\ GuardInv
  BY GuardIs DEF IInv
<1>a. /\ IsFiniteSet(LiveChats) /\ IsFiniteSet(Due)
      /\ Cardinality(LiveChats) \in Nat /\ Cardinality(Due) \in Nat /\ guard \in Nat
  BY <1>0, GuardNumbers
<1>1. ASSUME Aside, guard' = guard
      PROVE  GuardInv'
  <2>1. Due' = Due /\ InHandChat' = InHandChat
    BY <1>1, SameDue DEF Aside, InHandChat
  <2> QED BY <1>0, <1>1, <2>1, GuardQuiet DEF Aside
<1>2. CASE \/ UNCHANGED vars
           \/ \E t \in Canceller : \/ Cancelling(t)
                                   \/ \E j \in Job : CancelFinds(t, j)
                                   \/ \E c \in Chat : CancelChat(t, c)
           \/ \E j \in Job : PreemptBatch(j)
           \/ \E v \in InvocationId : HostStarts(v) \/ HostDeadline(v)
  <2>1. guard' = guard
    BY <1>2 DEF vars, Cancelling, CancelRequests, CancelCalls, CancelFinds, CancelChat,
       PreemptBatch, HostStarts, HostDeadline
  <2> QED BY <1>0, <1>1, <1>2, <2>1, AsideSteps
<1>3. CASE Submitting
  <2>1. PICK w \in Client : /\ \/ posted' = Append(posted, Submission(w)) /\ UNCHANGED <<spc, hand>>
                               \/ spc = "idle" /\ spc' = "submit" /\ posted' = posted
                            /\ UNCHANGED <<guard, core>>
    BY <1>0, <1>3, SubmissionKinds
  <2>2. Submission(w) \in Handler /\ Submission(w).kind # "chatFinished"
    BY HandlerTypes DEF Client
  <2>3. Due' = Due
    BY <1>0, <2>1, <2>2, DuePosts, SameDue
  <2>4. InHandChat' = InHandChat
    BY <2>1 DEF InHandChat
  <2>5. owner' = owner /\ \A v \in InvocationId : Live(v)' <=> Live(v)
    BY <2>1 DEF core, Live
  <2> QED BY <1>0, <2>1, <2>3, <2>4, <2>5, GuardQuiet
<1>4. CASE TakeHandler
  <2>1. /\ UNCHANGED <<guard, owner, phase>> /\ spc = "idle" /\ spc' = posted[1].kind
        /\ 1 \in DOMAIN posted
        /\ posted # <<>> /\ posted' = Tail(posted)
    BY <1>0, <1>4, Takes DEF TakeHandler, TypeOK, core
  <2>2. LiveChats' = LiveChats
    BY <2>1, SameLiveChats DEF Live
  <2>3. posted[1].kind # "chatCore"
    BY <1>0, <2>1 DEF HandInv
  <2>4. Cardinality(Due) = Cardinality(Due') + (IF posted[1].kind = "chatFinished" THEN 1 ELSE 0)
    BY <1>0, <2>1, DueTakes
  <2>5. InHandChat = 0 /\ InHandChat' = IF posted[1].kind = "chatFinished" THEN 1 ELSE 0
    BY <2>1, <2>3 DEF InHandChat
  <2>6. Cardinality(Due') \in Nat
    <3>1. TypeOK'
      BY TypeNext
    <3>2. IsFiniteSet(1 .. Len(posted'))
      BY <3>1, FS_Interval DEF TypeOK
    <3>3. IsFiniteSet(Due')
      BY <3>2, FS_Subset DEF Due
    <3> QED BY <3>3, FS_CardinalityType
  <2> QED BY <1>0, <1>a, <2>1, <2>2, <2>4, <2>5, <2>6 DEF GuardInv
<1>5. CASE Steps
  <2>1. UNCHANGED <<phase, owner>> /\ posted' = posted
    BY <1>0, <1>5, StepKinds DEF GoesOn, Rests
  <2>2. LiveChats' = LiveChats /\ Due' = Due
    BY <2>1, SameLiveChats, SameDue DEF Live
  <2>3. guard' = guard + InHandChat' - InHandChat
    <3>1. CASE \/ SubmitChecks \/ SubmitRefused \/ SubmitRecords \/ SubmitInstalls
               \/ JobFinished \/ JobChecked \/ FinishJob
      <4>1. guard' = guard /\ spc \notin {"chatCore", "chatFinished"} /\ spc' \notin {"chatCore", "chatFinished"}
        BY <3>1 DEF SubmitChecks, SubmitRefused, SubmitRecords, SubmitInstalls, JobFinished,
           JobChecked, FinishJob,
                    table, Goto, Idle, FinishWith
      <4> QED BY <1>a, <4>1 DEF InHandChat
    <3>2. CASE ChatCancelled \/ ChatInstalls \/ ChatReplaysCancel \/ ShutdownReturns \/ Shutdown
      <4>1. guard' = guard /\ spc \notin {"chatCore", "chatFinished"} /\ spc' \notin {"chatCore", "chatFinished"}
        BY <3>2 DEF ChatCancelled, AnswerChat, ChatInstalls, ChatReplaysCancel,
           ShutdownReturns, Shutdown, Goto, Idle
      <4> QED BY <1>a, <4>1 DEF InHandChat
    <3>3. CASE ChatRefused \/ ChatFinished
      <4>1. guard' = guard - 1 /\ spc \in {"chatCore", "chatFinished"} /\ spc' = "idle"
        BY <3>3 DEF ChatRefused, ChatFinished, AnswerChat, Idle
      <4> QED BY <1>a, <4>1 DEF InHandChat
    <3>4. CASE ChatChecks
      <4>1. spc = "chatSubmit" /\ \/ guard' = guard /\ spc' \in {"idle", "chatCancelled"}
                                  \/ guard' = guard + 1 /\ spc' = "chatCore"
        BY <3>4 DEF ChatChecks, Goto, Idle
      <4> QED BY <1>a, <4>1 DEF InHandChat
    <3> QED BY <1>5, <3>1, <3>2, <3>3, <3>4 DEF Steps
  <2>4. InHandChat \in Nat /\ InHandChat' \in Nat
    BY DEF InHandChat
  <2> QED BY <1>0, <1>a, <2>2, <2>3, <2>4 DEF GuardInv
<1>6. ASSUME NEW v \in InvocationId, SubmitAccepted(v)
      PROVE  GuardInv'
  <2>1. /\ HostAdmits(v) /\ UNCHANGED <<posted, guard>> /\ hand.who \in Job /\ hand.who \in Client
        /\ spc = "core" /\ spc' = "record"
    BY <1>0, <1>6 DEF SubmitAccepted, HandInv, JobStep, Client
  <2>2. /\ ~Live(v) /\ \A u \in InvocationId : Live(u)' <=> Live(u) \/ u = v
        /\ owner'[v] = hand.who /\ \A u \in InvocationId \ {v} : owner'[u] = owner[u]
    BY <1>0, <2>1, Admission
  <2>3. LiveChats' = LiveChats
    BY <2>1, <2>2, NoneFacts DEF LiveChats
  <2>4. Due' = Due /\ InHandChat' = InHandChat
    BY <2>1, SameDue DEF InHandChat
  <2> QED BY <1>0, <2>1, <2>3, <2>4 DEF GuardInv
<1>7. ASSUME NEW v \in InvocationId, ChatAccepted(v)
      PROVE  GuardInv'
  <2>1. /\ HostAdmits(v) /\ UNCHANGED <<posted, guard>> /\ hand.who \in Chat /\ hand.who \in Client
        /\ spc = "chatCore" /\ spc' = "chatInstall"
    BY <1>0, <1>7 DEF ChatAccepted, HandInv, ChatStep, Client, table
  <2>2. /\ ~Live(v) /\ \A u \in InvocationId : Live(u)' <=> Live(u) \/ u = v
        /\ owner'[v] = hand.who /\ \A u \in InvocationId \ {v} : owner'[u] = owner[u]
    BY <1>0, <2>1, Admission
  <2>3. LiveChats' = LiveChats \cup {v} /\ v \notin LiveChats
    BY <2>1, <2>2 DEF LiveChats
  <2>4. Due' = Due /\ InHandChat = 1 /\ InHandChat' = 0
    BY <2>1, SameDue DEF InHandChat
  <2>5. IsFiniteSet(LiveChats') /\ Cardinality(LiveChats') = Cardinality(LiveChats) + 1
    BY <1>a, <2>3, FS_AddElement
  <2> QED BY <1>0, <1>a, <2>1, <2>4, <2>5 DEF GuardInv
<1>8. ASSUME NEW v \in InvocationId, HostFinishes(v)
      PROVE  GuardInv'
  <2>1. PICK h \in Handler : /\ posted' = Append(posted, h)
                             /\ owner[v] \in Job => h.kind = "finished"
                             /\ owner[v] \in Chat => h.kind = "chatFinished"
    BY <1>0, <1>8, FinishPosts
  <2>2. /\ Live(v) /\ \A u \in InvocationId : Live(u)' <=> Live(u) /\ u # v
        /\ UNCHANGED <<guard, spc, owner>> /\ owner[v] \in Client
    BY <1>0, <1>8, Finish, LiveOwner
  <2>3. InHandChat' = InHandChat /\ InHandChat \in Nat
    BY <2>2 DEF InHandChat
  <2>4. CASE owner[v] \in Job
    <3>1. LiveChats' = LiveChats
      BY <2>2, <2>4, NoneFacts DEF LiveChats
    <3>2. Due' = Due
      BY <1>0, <2>1, <2>4, DuePosts
    <3> QED BY <1>0, <2>2, <2>3, <3>1, <3>2 DEF GuardInv
  <2>5. CASE owner[v] \in Chat
    <3>1. LiveChats' = LiveChats \ {v} /\ v \in LiveChats
      BY <2>2, <2>5 DEF LiveChats
    <3>2. PICK k : k \notin Due /\ Due' = Due \cup {k}
      BY <1>0, <2>1, <2>5, DuePosts
    <3>3. IsFiniteSet(LiveChats') /\ Cardinality(LiveChats') = Cardinality(LiveChats) - 1
      BY <1>a, <3>1, FS_RemoveElement
    <3>4. Cardinality(Due') = Cardinality(Due) + 1
      BY <1>a, <3>2, FS_AddElement
    <3> QED BY <1>0, <1>a, <2>2, <2>3, <3>3, <3>4 DEF GuardInv
  <2> QED BY <2>2, <2>4, <2>5 DEF Client
<1> QED
  BY <1>2, <1>3, <1>4, <1>5, <1>6, <1>7, <1>8 DEF Next, Steps, ServiceThread, HostDelivers

-----------------------------------------------------------------------------
LEMMA IInvNext == IInv /\ [Next]_vars => IInv'
<1> SUFFICES ASSUME IInv, [Next]_vars
             PROVE  IInv'
  OBVIOUS
<1>1. CallInv'
  BY CallNext DEF IInv
<1> QED BY <1>1, TypeNext, HandNext, PlaceNext, RecordNext, HandleNext, ReachNext, GuardNext DEF IInv

LEMMA IInvAlways == Spec => []IInv
BY IInvInit, IInvNext, PTL DEF Spec

(* A cancellation that was accepted reaches the invocation of the job or   *)
(* chat, or its call is still underway: whichever of the cancel() and the  *)
(* handle came first, and across the hand-over to the translation back.    *)
THEOREM CancellationArrives == Spec => []CancelReachesCore
<1>1. IInv => CancelReachesCore
  BY DEF IInv
<1> QED BY IInvAlways, <1>1, PTL

(* The tables agree with the work of the host, each job and chat has one   *)
(* invocation at most and is not answered before its end, and the trace    *)
(* guard is up exactly as often as the host works for a chat.              *)
THEOREM TablesAgree == Spec => []TablesMatchWork
<1>1. IInv => TablesMatchWork
  <2> SUFFICES ASSUME IInv
               PROVE  LiveWorkIsOwned
    BY DEF IInv, TablesMatchWork
  <2>1. ASSUME NEW v \in InvocationId, Live(v)
        PROVE  owner[v] \in jobs \cup chats /\ answered[owner[v]] = "nothing"
    <3>1. owner[v] \in jobs \cup chats
      BY <2>1, LiveOwner DEF IInv
    <3> QED BY <3>1 DEF IInv, RecordInv
  <2>2. \A u, v \in InvocationId : Live(u) /\ Live(v) /\ owner[u] = owner[v] => u = v
    BY DEF IInv, PlaceInv
  <2> QED BY <2>1, <2>2 DEF LiveWorkIsOwned
<1> QED BY IInvAlways, <1>1, PTL

(* No work is lost and none is done twice: each job or chat with a record  *)
(* is queued, in the hand of the service thread or with the host, in one   *)
(* place and once; whatever else is queued or running there is none of.    *)
THEOREM WorkIsInOnePlace == Spec => []PlaceInv
<1>1. IInv => PlaceInv
  BY DEF IInv
<1> QED BY IInvAlways, <1>1, PTL
===============================================================================
