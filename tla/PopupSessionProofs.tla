------------------------- MODULE PopupSessionProofs -------------------------
(***************************************************************************)
(* PopupSession keeps SessionOwnsItsWork, for any number of presses and    *)
(* retries, any depth of nested captures and any order of events.          *)
(***************************************************************************)
EXTENDS PopupSession, SequenceTheorems, TLAPS

Posted == [kind : {"started", "delta", "finished"}, job : Job, result : Result]

TypeOK ==
    /\ ui \in Ui
    /\ job \in [Job -> JobRecord]
    /\ events \in Seq(Posted)

\* What the service promises of its events: they are of jobs there are, the last
\* one of a job is "finished", and then the job has ended.
QueueInv ==
    /\ \A i \in DOMAIN events :
          /\ job[events[i].job].phase # "none"
          /\ events[i].kind = "finished" => job[events[i].job].phase = "ended"
    /\ \A i, k \in DOMAIN events :
          i < k /\ events[i].kind = "finished" => events[k].job # events[i].job
    /\ \A j \in Job : job[j].started => job[j].phase = "live"
    /\ \A j \in ui.output : job[j].phase # "none"

\* The "started" event of job j is among the first n.
StartedBy(j, n) == \E k \in DOMAIN events : k <= n /\ events[k].kind = "started" /\ events[k].job = j

\* The popup has not heard of the start of j: it will, before any output or the
\* completion.
StartIsDue(j) ==
    /\ \A i \in DOMAIN events :
          events[i].job = j =>
             \/ StartedBy(j, i)
             \/ events[i].kind = "finished" /\ events[i].result # "Completed"
    /\ job[j].started => StartedBy(j, Len(events))

\* The popup has been prepared for the job of the session.
Presented == ui.visible /\ ui.streaming /\ ui.source = ui.last

\* The job the session accepts events of is being translated, or has been heard
\* of for the last time.
CurrentInv ==
    ui.jobFresh /\ ui.active # None =>
        /\ job[ui.active].phase # "none" /\ job[ui.active].text = ui.last
        /\ \/ ui.state = "Translating" /\ (Presented \/ StartIsDue(ui.active))
           \/ /\ ui.state = "Showing" /\ job[ui.active].phase = "ended"
              /\ \A i \in DOMAIN events : events[i].job # ui.active

IInv == TypeOK /\ QueueInv /\ CurrentInv /\ SessionOwnsItsWork

-----------------------------------------------------------------------------
(* What the helpers of the session and of the window do to the fields that *)
(* the invariant is about.                                                 *)

LEMMA NoneIsNoJob == None \notin Job
BY PopupAssumption DEF Job

LEMMA InvalidatedFacts ==
    ASSUME NEW u \in Ui
    PROVE  /\ Invalidated(u) \in Ui
           /\ Invalidated(u).jobFresh = FALSE
           /\ Invalidated(u).state = u.state /\ Invalidated(u).active = u.active
           /\ Invalidated(u).last = u.last /\ Invalidated(u).asked = u.asked
           /\ Invalidated(u).visible = u.visible /\ Invalidated(u).streaming = u.streaming
           /\ Invalidated(u).source = u.source /\ Invalidated(u).output = u.output
<1> DEFINE none == [i \in DOMAIN u.frames |-> FALSE]
<1>1. none \in Seq(BOOLEAN)
  <2>1. u.frames \in Seq(BOOLEAN)
    BY DEF Ui
  <2>2. none \in [1 .. Len(u.frames) -> BOOLEAN] /\ Len(u.frames) \in Nat
    BY <2>1
  <2> HIDE DEF none
  <2> QED BY <2>2, SeqDef
<1> HIDE DEF none
<1>2. [u EXCEPT !.jobFresh = FALSE, !.frames = none] \in Ui
  BY <1>1 DEF Ui
<1>3. Invalidated(u) = [u EXCEPT !.jobFresh = FALSE, !.frames = none]
  BY DEF Invalidated, none
<1> QED BY <1>2, <1>3 DEF Ui

LEMMA ActiveCancelledFacts ==
    ASSUME NEW u \in Ui
    PROVE  /\ ActiveCancelled(u) \in Ui
           /\ ActiveCancelled(u) = [u EXCEPT !.asked = ActiveCancelled(u).asked]
           /\ u.asked \subseteq ActiveCancelled(u).asked
           /\ u.state = "Translating" /\ u.active # None /\ job[u.active].phase = "live"
                 => u.active \in ActiveCancelled(u).asked
<1> DEFINE asks == u.state = "Translating" /\ u.active # None /\ job[u.active].phase = "live"
<1>1. CASE asks
  <2> DEFINE a == u.asked \cup {u.active}
  <2>1. ActiveCancelled(u) = [u EXCEPT !.asked = a]
    BY <1>1 DEF ActiveCancelled
  <2>2. a \in SUBSET Job
    BY <1>1 DEF Ui
  <2>3. u.asked \subseteq a /\ u.active \in a
    OBVIOUS
  <2> HIDE DEF a
  <2>4. [u EXCEPT !.asked = a] \in Ui /\ [u EXCEPT !.asked = a].asked = a
    BY <2>2 DEF Ui
  <2> QED BY <2>1, <2>3, <2>4
<1>2. CASE ~asks
  <2>1. ActiveCancelled(u) = u
    BY <1>2 DEF ActiveCancelled
  <2> QED BY <1>2, <2>1 DEF Ui
<1> QED BY <1>1, <1>2

\* v is u as far as the session is concerned; the window may differ.
SameSession(u, v) ==
    /\ v.state = u.state /\ v.active = u.active /\ v.jobFresh = u.jobFresh
    /\ v.last = u.last /\ v.asked = u.asked
    /\ v.source = u.source /\ v.output = u.output

SameWindow(u, v) == v.visible = u.visible /\ v.streaming = u.streaming

LEMMA AutoCloseStartedFacts ==
    ASSUME NEW u \in Ui
    PROVE  /\ AutoCloseStarted(u) \in Ui
           /\ SameSession(u, AutoCloseStarted(u)) /\ SameWindow(u, AutoCloseStarted(u))
BY DEF AutoCloseStarted, SameSession, SameWindow, Ui

LEMMA ReturnedFacts ==
    ASSUME NEW u \in Ui, u.frames # <<>>
    PROVE  /\ Returned(u) \in Ui
           /\ SameSession(u, Returned(u)) /\ SameWindow(u, Returned(u))
<1> DEFINE outer == SubSeq(u.frames, 1, Len(u.frames) - 1)
<1>1. outer \in Seq(BOOLEAN)
  <2>1. u.frames \in Seq(BOOLEAN)
    BY DEF Ui
  <2> QED BY <2>1
<1> HIDE DEF outer
<1>2. Returned(u) = [u EXCEPT !.frames = outer]
  BY DEF Returned, outer
<1> QED BY <1>1, <1>2 DEF SameSession, SameWindow, Ui

LEMMA ErrorShownFacts ==
    ASSUME NEW u \in Ui
    PROVE  /\ ErrorShown(u) \in Ui
           /\ SameSession(u, ErrorShown(u))
           /\ ErrorShown(u).visible = TRUE /\ ErrorShown(u).streaming = FALSE
<1> DEFINE v == [u EXCEPT !.closing = FALSE, !.streaming = FALSE, !.error = TRUE, !.visible = TRUE]
<1>1. v \in Ui /\ SameSession(u, v) /\ v.visible = TRUE /\ v.streaming = FALSE
  BY DEF SameSession, Ui
<1>2. ErrorShown(u) = AutoCloseStarted(v)
  BY DEF ErrorShown
<1> HIDE DEF v
<1> QED BY <1>1, <1>2, AutoCloseStartedFacts DEF SameSession, SameWindow

LEMMA StreamingFinishedFacts ==
    ASSUME NEW u \in Ui
    PROVE  /\ StreamingFinished(u) \in Ui
           /\ SameSession(u, StreamingFinished(u))
           /\ StreamingFinished(u).visible = u.visible
<1> DEFINE v == [u EXCEPT !.streaming = FALSE]
<1>1. v \in Ui /\ SameSession(u, v) /\ v.visible = u.visible
  BY DEF SameSession, Ui
<1>2. StreamingFinished(u) = IF u.streaming THEN AutoCloseStarted(v) ELSE u
  BY DEF StreamingFinished
<1> HIDE DEF v
<1> QED BY <1>1, <1>2, AutoCloseStartedFacts DEF SameSession, SameWindow

LEMMA LoadingShownFacts ==
    ASSUME NEW u \in Ui
    PROVE  LET v == LoadingShown(u) IN
           /\ v \in Ui
           /\ v.state = u.state /\ v.active = u.active /\ v.jobFresh = u.jobFresh
           /\ v.last = u.last /\ v.asked = u.asked
           /\ v.visible = TRUE /\ v.streaming = TRUE /\ v.source = u.last /\ v.output = {}
BY DEF LoadingShown, Ui

LEMMA ResetFacts ==
    ASSUME NEW u \in Ui
    PROVE  LET v == Reset(u) IN
           /\ v \in Ui
           /\ v.state = "Idle" /\ v.jobFresh = FALSE /\ v.asked = u.asked
           /\ v.visible = u.visible /\ v.source = u.source /\ v.output = u.output
<1>1. PICK w \in Ui : w = Invalidated(u)
  BY InvalidatedFacts
<1>2. Reset(u) = [w EXCEPT !.state = "Idle", !.active = None, !.last = None]
  BY <1>1 DEF Reset
<1>3. Reset(u) \in Ui
  BY <1>2 DEF Ui, PopupState
<1>4. /\ Reset(u).state = "Idle" /\ Reset(u).jobFresh = w.jobFresh /\ Reset(u).asked = w.asked
      /\ Reset(u).visible = w.visible /\ Reset(u).source = w.source
      /\ Reset(u).output = w.output
  BY <1>2 DEF Ui
<1> QED BY <1>1, <1>3, <1>4, InvalidatedFacts

LEMMA SubmittedFacts ==
    ASSUME NEW u \in Ui, NEW t \in Text, NEW j \in Job
    PROVE  /\ Submitted(u, t, j) \in Ui
           /\ Submitted(u, t, j).state = "Translating" /\ Submitted(u, t, j).active = j
           /\ Submitted(u, t, j).jobFresh = TRUE /\ Submitted(u, t, j).last = t
           /\ Submitted(u, t, j).asked = u.asked
           /\ Submitted(u, t, j).source = u.source /\ Submitted(u, t, j).output = u.output
<1> DEFINE w == Invalidated(u)
           x == [w EXCEPT !.jobFresh = TRUE, !.state = "Translating"]
           y == [x EXCEPT !.active = j, !.last = t]
<1>1. w \in Ui /\ w.asked = u.asked /\ w.source = u.source /\ w.output = u.output
  BY InvalidatedFacts
<1>2. Submitted(u, t, j) = y
  BY DEF Submitted
<1> HIDE DEF w
<1>3. /\ x \in Ui /\ x.jobFresh = TRUE /\ x.state = "Translating"
      /\ x.asked = w.asked /\ x.source = w.source /\ x.output = w.output
  BY <1>1 DEF Ui, PopupState
<1> HIDE DEF x
<1>4. /\ y \in Ui /\ y.active = j /\ y.last = t
      /\ y.jobFresh = x.jobFresh /\ y.state = x.state
      /\ y.asked = x.asked /\ y.source = x.source /\ y.output = x.output
  BY <1>3 DEF Ui
<1> HIDE DEF y
<1> QED BY <1>1, <1>2, <1>3, <1>4

\* hide() closes the window; its dismissal either ends the session or, in a
\* capture, leaves it alone.
LEMMA DismissedFacts ==
    ASSUME NEW u \in Ui
    PROVE  LET v == Dismissed(u) IN
           /\ v \in Ui
           /\ v.visible = u.visible /\ v.source = u.source /\ v.output = u.output
           /\ u.asked \subseteq v.asked
           /\ IF u.state \in Captures
                THEN v = u
                ELSE /\ v.state = "Idle" /\ v.jobFresh = FALSE
                     /\ u.state = "Translating" /\ u.active # None /\ job[u.active].phase = "live"
                           => u.active \in v.asked
<1>1. CASE u.state \in Captures
  BY <1>1 DEF Dismissed
<1>2. CASE u.state \notin Captures
  <2> DEFINE w == Invalidated(u)
             x == ActiveCancelled(w)
  <2>1. /\ w \in Ui /\ w.state = u.state /\ w.active = u.active /\ w.asked = u.asked
        /\ w.visible = u.visible /\ w.source = u.source /\ w.output = u.output
    BY InvalidatedFacts
  <2>2. Dismissed(u) = Reset(x)
    BY <1>2 DEF Dismissed
  <2> HIDE DEF w
  <2>3. /\ x \in Ui /\ w.asked \subseteq x.asked
        /\ w.state = "Translating" /\ w.active # None /\ job[w.active].phase = "live"
              => w.active \in x.asked
    BY <2>1, ActiveCancelledFacts
  <2>4. x.visible = w.visible /\ x.source = w.source /\ x.output = w.output
    BY <2>1 DEF ActiveCancelled, Ui
  <2> HIDE DEF x
  <2>5. LET v == Reset(x) IN
        /\ v \in Ui
        /\ v.state = "Idle" /\ v.jobFresh = FALSE /\ v.asked = x.asked
        /\ v.visible = x.visible /\ v.source = x.source /\ v.output = x.output
    BY ONLY <2>3, ResetFacts, Zenon
  <2> QED BY <1>2, <2>1, <2>2, <2>3, <2>4, <2>5
<1> QED BY <1>1, <1>2

LEMMA HiddenFacts ==
    ASSUME NEW u \in Ui
    PROVE  LET v == Hidden(u) IN
           /\ v \in Ui
           /\ v.visible = FALSE
           /\ v.source = u.source /\ v.output = u.output /\ u.asked \subseteq v.asked
           /\ IF u.visible
                THEN IF u.state \in Captures
                       THEN SameSession(u, v)
                       ELSE /\ v.state = "Idle" /\ v.jobFresh = FALSE
                            /\ u.state = "Translating" /\ u.active # None
                                  /\ job[u.active].phase = "live" => u.active \in v.asked
                ELSE v = u
<1> DEFINE w == [u EXCEPT !.visible = FALSE, !.streaming = FALSE, !.closing = FALSE]
<1>1. w \in Ui /\ SameSession(u, w) /\ w.visible = FALSE
  BY DEF Ui, SameSession
<1>2. Hidden(u) = IF u.visible THEN Dismissed(w) ELSE u
  BY DEF Hidden
<1>3. u.visible \in BOOLEAN
  BY DEF Ui
<1> HIDE DEF w
<1>4. CASE ~u.visible
  BY <1>2, <1>3, <1>4
<1>5. CASE u.visible
  <2>1. LET v == Dismissed(w) IN
           /\ v \in Ui
           /\ v.visible = w.visible /\ v.source = w.source /\ v.output = w.output
           /\ w.asked \subseteq v.asked
           /\ IF w.state \in Captures
                THEN v = w
                ELSE /\ v.state = "Idle" /\ v.jobFresh = FALSE
                     /\ w.state = "Translating" /\ w.active # None /\ job[w.active].phase = "live"
                           => w.active \in v.asked
    BY ONLY <1>1, DismissedFacts, Zenon
  <2> QED BY <1>1, <1>2, <1>5, <2>1 DEF SameSession
<1> QED BY <1>4, <1>5

-----------------------------------------------------------------------------
(* The queue of events.                                                    *)

LEMMA EventFacts ==
    ASSUME events \in Seq(Posted), NEW i \in DOMAIN events
    PROVE  events[i] \in Posted /\ events[i].job \in Job
<1>1. events[i] \in Posted
  OBVIOUS
<1> QED BY <1>1 DEF Posted

LEMMA TailFacts ==
    ASSUME events \in Seq(Posted), events # <<>>, events' = Tail(events)
    PROVE  /\ events' \in Seq(Posted)
           /\ Len(events) \in Nat /\ Len(events) > 0 /\ Len(events') = Len(events) - 1
           /\ DOMAIN events = 1 .. Len(events) /\ DOMAIN events' = 1 .. Len(events) - 1
           /\ Head(events) = events[1] /\ events[1] \in Posted
           /\ \A i \in DOMAIN events' : i + 1 \in DOMAIN events /\ events'[i] = events[i + 1]
OBVIOUS

LEMMA AppendFacts ==
    ASSUME events \in Seq(Posted), NEW e \in Posted, events' = Append(events, e)
    PROVE  /\ events' \in Seq(Posted)
           /\ Len(events) \in Nat /\ Len(events') = Len(events) + 1
           /\ DOMAIN events = 1 .. Len(events) /\ DOMAIN events' = 1 .. Len(events) + 1
           /\ \A i \in DOMAIN events : events'[i] = events[i]
           /\ events'[Len(events) + 1] = e
OBVIOUS

\* Taking an event keeps the order of the others, and so does leaving them.
LEMMA QueueKept ==
    ASSUME TypeOK, QueueInv, job' = job,
           events' = events \/ (events # <<>> /\ events' = Tail(events)),
           \A j \in ui'.output : job[j].phase # "none"
    PROVE  events' \in Seq(Posted) /\ QueueInv'
<1>1. CASE events' = events
  BY <1>1 DEF TypeOK, QueueInv
<1>2. CASE events # <<>> /\ events' = Tail(events)
  <2>1. /\ Len(events) \in Nat
        /\ DOMAIN events = 1 .. Len(events) /\ DOMAIN events' = 1 .. Len(events) - 1
        /\ \A i \in DOMAIN events' : i + 1 \in DOMAIN events /\ events'[i] = events[i + 1]
    BY <1>2, TailFacts DEF TypeOK
  <2>2. ASSUME NEW i \in DOMAIN events'
        PROVE  /\ job'[events'[i].job].phase # "none"
               /\ events'[i].kind = "finished" => job'[events'[i].job].phase = "ended"
    <3>1. i + 1 \in DOMAIN events /\ events'[i] = events[i + 1]
      BY <2>1
    <3>2. /\ job[events[i + 1].job].phase # "none"
          /\ events[i + 1].kind = "finished" => job[events[i + 1].job].phase = "ended"
      BY <3>1 DEF QueueInv
    <3> QED BY <3>1, <3>2
  <2>3. ASSUME NEW i \in DOMAIN events', NEW k \in DOMAIN events', i < k,
               events'[i].kind = "finished"
        PROVE  events'[k].job # events'[i].job
    <3>1. /\ i + 1 \in DOMAIN events /\ events'[i] = events[i + 1]
          /\ k + 1 \in DOMAIN events /\ events'[k] = events[k + 1]
      BY <2>1
    <3>2. i \in 1 .. Len(events) - 1 /\ k \in 1 .. Len(events) - 1
      BY <2>1
    <3>3. i + 1 < k + 1
      BY <2>1, <2>3, <3>2
    <3>4. events[k + 1].job # events[i + 1].job
      BY <2>3, <3>1, <3>3 DEF QueueInv
    <3> QED BY <3>1, <3>4
  <2>4. events' \in Seq(Posted)
    BY <1>2, TailFacts DEF TypeOK
  <2> QED BY <2>2, <2>3, <2>4 DEF QueueInv
<1> QED BY <1>1, <1>2

\* The event of another job, or of one the session gave up, changes nothing.
LEMMA CurrentKept ==
    ASSUME TypeOK, CurrentInv, job' = job, ui' = ui,
           events # <<>>, events' = Tail(events),
           ~(ui.jobFresh /\ Head(events).job = ui.active)
    PROVE  CurrentInv'
<1> SUFFICES ASSUME ui.jobFresh, ui.active # None PROVE CurrentInv'
  BY DEF CurrentInv
<1>1. /\ Len(events) \in Nat /\ Len(events) > 0 /\ Len(events') = Len(events) - 1
      /\ DOMAIN events = 1 .. Len(events) /\ DOMAIN events' = 1 .. Len(events) - 1
      /\ Head(events) = events[1]
      /\ \A i \in DOMAIN events' : i + 1 \in DOMAIN events /\ events'[i] = events[i + 1]
  BY TailFacts DEF TypeOK
<1> DEFINE a == ui.active
<1>2. ASSUME NEW i \in Nat, StartedBy(a, i + 1)
      PROVE  StartedBy(a, i)'
  <2>1. PICK k \in DOMAIN events : k <= i + 1 /\ events[k].kind = "started" /\ events[k].job = a
    BY <1>2 DEF StartedBy
  <2>2. k # 1 /\ k - 1 \in DOMAIN events' /\ k - 1 <= i
    BY <1>1, <2>1
  <2>3. events'[k - 1] = events[k]
    BY <1>1, <2>1, <2>2
  <2> QED BY <2>1, <2>2, <2>3 DEF StartedBy
<1>3. ASSUME StartIsDue(a) PROVE StartIsDue(a)'
  <2>1. ASSUME NEW i \in DOMAIN events', events'[i].job = a
        PROVE  \/ StartedBy(a, i)'
               \/ events'[i].kind = "finished" /\ events'[i].result # "Completed"
    <3>1. i \in Nat
      BY <1>1
    <3> QED BY <1>1, <1>2, <1>3, <2>1, <3>1 DEF StartIsDue
  <2>2. ASSUME job[a].started PROVE StartedBy(a, Len(events))'
    <3>1. PICK n \in Nat : Len(events) = n + 1
      <4>1. Len(events) - 1 \in Nat /\ Len(events) = (Len(events) - 1) + 1
        BY <1>1
      <4> QED BY <4>1
    <3>2. StartedBy(a, n + 1)
      BY <1>3, <2>2, <3>1 DEF StartIsDue
    <3>3. StartedBy(a, n)'
      BY <1>2, <3>2
    <3>4. Len(events') = n
      BY <1>1, <3>1
    <3> QED BY <3>3, <3>4
  <2> QED BY <2>1, <2>2 DEF StartIsDue
<1>4. /\ job[a].phase # "none" /\ job[a].text = ui.last
      /\ \/ ui.state = "Translating" /\ (Presented \/ StartIsDue(a))
         \/ /\ ui.state = "Showing" /\ job[a].phase = "ended"
            /\ \A i \in DOMAIN events : events[i].job # a
  BY DEF CurrentInv
<1>5. CASE ui.state = "Translating" /\ Presented
  BY <1>4, <1>5 DEF CurrentInv, Presented
<1>6. CASE ui.state = "Translating" /\ StartIsDue(a)
  BY <1>3, <1>4, <1>6 DEF CurrentInv
<1>7. CASE /\ ui.state = "Showing" /\ job[a].phase = "ended"
           /\ \A i \in DOMAIN events : events[i].job # a
  BY <1>1, <1>4, <1>7 DEF CurrentInv
<1> QED BY <1>4, <1>5, <1>6, <1>7

-----------------------------------------------------------------------------
(* The kinds of steps.                                                     *)

\* A session that is not translating has told every running job to stop, and
\* one that shows no result either accepts no event.
LEMMA AtRest ==
    ASSUME SessionOwnsItsWork, CurrentInv
    PROVE  /\ ui.state # "Translating" =>
                 \A j \in Job : job[j].phase = "live" => j \in ui.asked
           /\ ui.state \notin {"Translating", "Showing"} => ~(ui.jobFresh /\ ui.active # None)
BY DEF SessionOwnsItsWork, NoOrphanJob, CurrentInv

\* A step after which the session waits for no job and every running one was
\* told to stop.
LEMMA SilentStep ==
    ASSUME IInv, job' = job, ui' \in Ui,
           events' = events \/ (events # <<>> /\ events' = Tail(events)),
           ~(ui'.jobFresh /\ ui'.active # None),
           ui'.source = ui.source, ui'.output = ui.output,
           ui'.state = "Showing" => ui'.visible,
           \A j \in Job : job[j].phase = "live" => j \in ui'.asked
    PROVE  IInv'
<1>1. TypeOK /\ QueueInv /\ SessionOwnsItsWork
  BY DEF IInv
<1>2. events' \in Seq(Posted) /\ QueueInv'
  <2>1. \A j \in ui'.output : job[j].phase # "none"
    BY <1>1 DEF QueueInv
  <2> QED BY <1>1, <2>1, QueueKept
<1>3. CurrentInv'
  BY DEF CurrentInv
<1>4. SessionOwnsItsWork'
  BY <1>1 DEF SessionOwnsItsWork, NoOrphanJob, ShowsOneTranslation
<1> QED BY <1>1, <1>2, <1>3, <1>4 DEF IInv, TypeOK

\* A step of the window that the session does not hear of.
LEMMA WindowStep ==
    ASSUME IInv, job' = job, events' = events, ui' \in Ui, SameSession(ui, ui'),
           ui.state = "Translating" => SameWindow(ui, ui'),
           ui.state = "Showing" /\ ui.visible => ui'.visible
    PROVE  IInv'
<1>1. TypeOK /\ QueueInv /\ CurrentInv /\ SessionOwnsItsWork
  BY DEF IInv
<1>2. QueueInv'
  BY <1>1 DEF QueueInv, SameSession
<1>3. CurrentInv'
  <2>1. ASSUME NEW j, StartIsDue(j) PROVE StartIsDue(j)'
    BY <2>1 DEF StartIsDue, StartedBy
  <2>2. ui.state = "Translating" /\ Presented => Presented'
    BY DEF Presented, SameSession, SameWindow
  <2> QED BY <1>1, <2>1, <2>2 DEF CurrentInv, SameSession
<1>4. SessionOwnsItsWork'
  BY <1>1 DEF SessionOwnsItsWork, NoOrphanJob, ShowsOneTranslation, Accepts, SameSession
<1> QED BY <1>1, <1>2, <1>3, <1>4 DEF IInv, TypeOK

\* A step that takes the event of another job, or of one the session gave up.
LEMMA StaleEvent ==
    ASSUME IInv, job' = job, ui' = ui, events # <<>>, events' = Tail(events),
           ~(ui.jobFresh /\ Head(events).job = ui.active)
    PROVE  IInv'
<1>1. TypeOK /\ QueueInv /\ CurrentInv /\ SessionOwnsItsWork
  BY DEF IInv
<1>2. events' \in Seq(Posted) /\ QueueInv'
  <2>1. \A j \in ui'.output : job[j].phase # "none"
    BY <1>1 DEF QueueInv
  <2> QED BY <1>1, <2>1, QueueKept
<1>3. CurrentInv'
  BY <1>1, CurrentKept
<1>4. SessionOwnsItsWork'
  BY <1>1 DEF SessionOwnsItsWork, NoOrphanJob, ShowsOneTranslation, Accepts
<1> QED BY <1>1, <1>2, <1>3, <1>4 DEF IInv, TypeOK

\* A session that is not translating submits a new job.
LEMMA SubmitStep ==
    ASSUME IInv, NEW u \in Ui, NEW t \in Text, NEW j \in Job, ui.state # "Translating",
           NewJob(j), JobBorn(t, j), ui' = Submitted(u, t, j), events' = events,
           u.asked = ui.asked, u.source = ui.source, u.output = ui.output
    PROVE  IInv'
<1>1. TypeOK /\ QueueInv /\ CurrentInv /\ SessionOwnsItsWork
  BY DEF IInv
<1>2. /\ ui' \in Ui
      /\ ui'.state = "Translating" /\ ui'.active = j /\ ui'.jobFresh = TRUE /\ ui'.last = t
      /\ ui'.asked = ui.asked /\ ui'.source = ui.source /\ ui'.output = ui.output
  <2>1. PICK v : v = Submitted(u, t, j)
    OBVIOUS
  <2>2. v \in Ui
    BY <2>1, SubmittedFacts
  <2>3. v.state = "Translating" /\ v.active = j /\ v.jobFresh = TRUE /\ v.last = t
    BY <2>1, SubmittedFacts
  <2>4. v.asked = u.asked /\ v.source = u.source /\ v.output = u.output
    BY <2>1, SubmittedFacts
  <2>5. ui' = v
    BY <2>1
  <2> QED BY <2>2, <2>3, <2>4, <2>5
<1>3. job[j].phase = "none" /\ job[j] \in JobRecord
  BY <1>1 DEF NewJob, TypeOK
<1>4. /\ job' \in [Job -> JobRecord]
      /\ job'[j].phase = "live" /\ job'[j].text = t /\ job'[j].started = job[j].started
      /\ \A i \in Job \ {j} : job'[i] = job[i]
  BY <1>1, <1>3 DEF JobBorn, TypeOK, JobRecord, Text
<1>5. ~job[j].started
  BY <1>1, <1>3 DEF QueueInv
<1>6. \A i \in DOMAIN events : events[i] \in Posted /\ events[i].job \in Job
  BY <1>1, EventFacts DEF TypeOK
<1>7. \A i \in DOMAIN events : events[i].job # j
  BY <1>1, <1>3 DEF QueueInv
<1>8. j \notin ui.output /\ ui.output \subseteq Job
  BY <1>1, <1>3 DEF QueueInv, TypeOK, Ui
<1>9. QueueInv'
  BY <1>1, <1>2, <1>4, <1>5, <1>6, <1>7, <1>8 DEF QueueInv
<1>10. CurrentInv'
  <2>1. StartIsDue(j)'
    BY <1>4, <1>5, <1>7 DEF StartIsDue
  <2> QED BY <1>2, <1>4, <2>1 DEF CurrentInv
<1>11. SessionOwnsItsWork'
  <2>1. NoOrphanJob'
    BY <1>1, <1>2, <1>4, AtRest DEF NoOrphanJob, Accepts
  <2>2. ShowsOneTranslation'
    BY <1>1, <1>2, <1>4, <1>8 DEF SessionOwnsItsWork, ShowsOneTranslation
  <2> QED BY <2>1, <2>2 DEF SessionOwnsItsWork
<1> QED BY <1>1, <1>2, <1>4, <1>9, <1>10, <1>11 DEF IInv, TypeOK

\* The service posts event e of a running job j, whose record becomes r.
LEMMA PostStep ==
    ASSUME IInv, NEW j \in Job, job[j].phase = "live",
           NEW e \in Posted, e.job = j, events' = Append(events, e),
           NEW r \in JobRecord, job' = [job EXCEPT ![j] = r],
           r.text = job[j].text,
           r.phase = IF e.kind = "finished" THEN "ended" ELSE "live",
           r.started => e.kind # "finished" /\ (job[j].started \/ e.kind = "started"),
           e.kind = "delta" => job[j].started,
           e.kind = "finished" /\ e.result = "Completed" => job[j].started,
           ui' = [ui EXCEPT !.asked = IF e.kind = "finished" THEN @ \ {j} ELSE @]
    PROVE  IInv'
<1>1. TypeOK /\ QueueInv /\ CurrentInv /\ SessionOwnsItsWork
  BY DEF IInv
<1>2. /\ events' \in Seq(Posted)
      /\ Len(events) \in Nat /\ Len(events') = Len(events) + 1
      /\ DOMAIN events = 1 .. Len(events) /\ DOMAIN events' = 1 .. Len(events) + 1
      /\ \A i \in DOMAIN events : events'[i] = events[i]
      /\ events'[Len(events) + 1] = e
  BY <1>1, AppendFacts DEF TypeOK
<1> DEFINE n == Len(events)
<1>3. /\ DOMAIN events \subseteq DOMAIN events' /\ n + 1 \in DOMAIN events'
      /\ \A i \in DOMAIN events' : i \in DOMAIN events \/ i = n + 1
      /\ \A i \in DOMAIN events : i <= n /\ i < n + 1
  BY <1>2
<1>4. /\ job' \in [Job -> JobRecord] /\ job'[j] = r
      /\ \A i \in Job \ {j} : job'[i] = job[i]
      /\ \A i \in Job : job'[i].text = job[i].text
      /\ \A i \in Job : job[i].phase # "none" => job'[i].phase # "none"
      /\ \A i \in Job : job[i].phase = "ended" => job'[i] = job[i]
  BY <1>1 DEF TypeOK
<1>5. /\ ui' \in Ui
      /\ ui'.state = ui.state /\ ui'.active = ui.active /\ ui'.jobFresh = ui.jobFresh
      /\ ui'.last = ui.last /\ ui'.source = ui.source /\ ui'.output = ui.output
      /\ ui'.visible = ui.visible /\ ui'.streaming = ui.streaming
      /\ ui'.asked = IF e.kind = "finished" THEN ui.asked \ {j} ELSE ui.asked
      /\ ui.output \subseteq Job /\ ui.active \in Job \cup {None}
  BY <1>1 DEF TypeOK, Ui
<1>6. \A i \in DOMAIN events : events[i].job \in Job
  BY <1>1, EventFacts DEF TypeOK
<1>7. QueueInv'
  <2>1. ASSUME NEW i \in DOMAIN events'
        PROVE  /\ job'[events'[i].job].phase # "none"
               /\ events'[i].kind = "finished" => job'[events'[i].job].phase = "ended"
    <3>1. CASE i \in DOMAIN events
      BY <1>1, <1>2, <1>4, <1>6, <3>1 DEF QueueInv
    <3>2. CASE i = n + 1
      BY <1>2, <1>4, <3>2
    <3> QED BY <1>3, <3>1, <3>2
  <2>2. ASSUME NEW i \in DOMAIN events', NEW k \in DOMAIN events', i < k,
               events'[i].kind = "finished"
        PROVE  events'[k].job # events'[i].job
    <3>1. i \in DOMAIN events
      BY <1>2, <2>2
    <3>2. CASE k \in DOMAIN events
      BY <1>1, <1>2, <2>2, <3>1, <3>2 DEF QueueInv
    <3>3. CASE k = n + 1
      BY <1>1, <1>2, <2>2, <3>1, <3>3 DEF QueueInv
    <3> QED BY <1>3, <3>2, <3>3
  <2>3. \A i \in Job : job'[i].started => job'[i].phase = "live"
    BY <1>1, <1>4 DEF QueueInv
  <2>4. \A i \in ui'.output : job'[i].phase # "none"
    BY <1>1, <1>4, <1>5 DEF QueueInv
  <2> QED BY <2>1, <2>2, <2>3, <2>4 DEF QueueInv
<1>8. CurrentInv'
  <2> SUFFICES ASSUME ui.jobFresh, ui.active # None PROVE CurrentInv'
    BY <1>5 DEF CurrentInv
  <2>1. PICK a \in Job : a = ui.active
    BY <1>5
  <2>2. /\ job[a].phase # "none" /\ job[a].text = ui.last
        /\ \/ ui.state = "Translating" /\ (Presented \/ StartIsDue(a))
           \/ /\ ui.state = "Showing" /\ job[a].phase = "ended"
              /\ \A i \in DOMAIN events : events[i].job # a
    BY <1>1, <2>1 DEF CurrentInv
  <2>3. job'[a].phase # "none" /\ job'[a].text = ui'.last
    BY <1>4, <1>5, <2>2
  <2>4. CASE ui.state = "Translating" /\ Presented
    BY <1>5, <2>1, <2>3, <2>4 DEF CurrentInv, Presented
  <2>5. CASE ui.state = "Translating" /\ StartIsDue(a)
    <3>1. ASSUME NEW m, StartedBy(a, m) PROVE StartedBy(a, m)'
      BY <1>2, <1>3, <3>1 DEF StartedBy
    <3>2. ASSUME StartedBy(a, n) PROVE \E k \in DOMAIN events' :
                    k <= n + 1 /\ events'[k].kind = "started" /\ events'[k].job = a
      BY <1>2, <1>3, <3>2 DEF StartedBy
    <3>3. ASSUME e.kind = "started", a = j PROVE \E k \in DOMAIN events' :
                    k <= n + 1 /\ events'[k].kind = "started" /\ events'[k].job = a
      BY <1>2, <1>3, <3>3
    <3>4. job'[a].started => StartedBy(a, Len(events))'
      <4>1. job'[a].started => job[a].started \/ (e.kind = "started" /\ a = j)
        BY <1>4
      <4> QED BY <1>2, <2>5, <3>2, <3>3, <4>1 DEF StartIsDue, StartedBy
    <3>5. ASSUME NEW i \in DOMAIN events', events'[i].job = a
          PROVE  \/ StartedBy(a, i)'
                 \/ events'[i].kind = "finished" /\ events'[i].result # "Completed"
      <4>1. CASE i \in DOMAIN events
        BY <1>2, <2>5, <3>1, <3>5, <4>1 DEF StartIsDue
      <4>2. CASE i = n + 1
        <5>1. a = j /\ events'[i] = e
          BY <1>2, <3>5, <4>2
        <5>2. CASE e.kind = "started"
          BY <1>2, <3>3, <4>2, <5>1, <5>2 DEF StartedBy
        <5>3. CASE job[a].started
          BY <1>2, <2>5, <3>2, <4>2, <5>3 DEF StartIsDue, StartedBy
        <5>4. CASE e.kind = "finished" /\ e.result # "Completed"
          BY <5>1, <5>4
        <5> QED BY <5>1, <5>2, <5>3, <5>4 DEF Posted
      <4> QED BY <1>3, <4>1, <4>2
    <3>6. StartIsDue(a)'
      BY <3>4, <3>5 DEF StartIsDue
    <3> QED BY <1>5, <2>1, <2>3, <2>5, <3>6 DEF CurrentInv
  <2>6. CASE /\ ui.state = "Showing" /\ job[a].phase = "ended"
             /\ \A i \in DOMAIN events : events[i].job # a
    <3>1. a # j
      BY <2>6
    <3>2. \A i \in DOMAIN events' : events'[i].job # a
      BY <1>2, <1>3, <2>6, <3>1
    <3> QED BY <1>4, <1>5, <2>1, <2>3, <2>6, <3>2 DEF CurrentInv
  <2> QED BY <2>2, <2>4, <2>5, <2>6
<1>9. SessionOwnsItsWork'
  <2>1. NoOrphanJob'
    BY <1>1, <1>4, <1>5 DEF SessionOwnsItsWork, NoOrphanJob, Accepts
  <2>2. ShowsOneTranslation'
    BY <1>1, <1>4, <1>5 DEF SessionOwnsItsWork, ShowsOneTranslation
  <2> QED BY <2>1, <2>2 DEF SessionOwnsItsWork
<1> QED BY <1>2, <1>4, <1>5, <1>7, <1>8, <1>9 DEF IInv, TypeOK

-----------------------------------------------------------------------------
(* The invariant: the session's own steps.                                 *)

LEMMA InitIInv == Init => IInv
<1> SUFFICES ASSUME Init PROVE IInv
  OBVIOUS
<1>1. ui \in Ui
  BY DEF Init, Ui, PopupState
<1>2. job \in [Job -> JobRecord]
  BY PopupAssumption DEF Init, JobRecord
<1>3. QueueInv
  BY DEF Init, QueueInv
<1>4. CurrentInv /\ SessionOwnsItsWork
  BY DEF Init, CurrentInv, SessionOwnsItsWork, NoOrphanJob, ShowsOneTranslation
<1>5. events \in Seq(Posted)
  <2>1. events = <<>>
    BY DEF Init
  <2> QED BY <2>1
<1> QED BY <1>1, <1>2, <1>3, <1>4, <1>5 DEF IInv, TypeOK

LEMMA HotkeyStep == ASSUME IInv, NEW b \in BOOLEAN, Hotkey(b) PROVE IInv'
<1>1. TypeOK /\ QueueInv /\ CurrentInv /\ SessionOwnsItsWork /\ ui \in Ui
  BY DEF IInv, TypeOK
<1> DEFINE given == Invalidated(ui)
           told  == ActiveCancelled(given)
           u == IF ui.state = "Translating" THEN Reset(told)
                ELSE IF ui.state \in Captures THEN Reset(ui) ELSE ui
<1>2. /\ job' = job /\ events' = events
      /\ ui' = IF b THEN [Invalidated(u) EXCEPT !.state = "CaptureScheduled"] ELSE ErrorShown(u)
  BY DEF Hotkey
\* The session before the press was ended, if it waited for something.
<1>3. /\ u \in Ui /\ u.source = ui.source /\ u.output = ui.output
      /\ \A j \in Job : job[j].phase = "live" => j \in u.asked
      /\ IF ui.state \in Busy THEN u.jobFresh = FALSE /\ u.state = "Idle" ELSE u = ui
  <2>1. CASE ui.state = "Translating"
    <3>1. /\ given \in Ui /\ given.state = ui.state /\ given.active = ui.active
          /\ given.asked = ui.asked /\ given.source = ui.source /\ given.output = ui.output
      BY <1>1, InvalidatedFacts
    <3> HIDE DEF given
    <3>2. /\ told \in Ui /\ given.asked \subseteq told.asked
          /\ given.state = "Translating" /\ given.active # None /\ job[given.active].phase = "live"
                => given.active \in told.asked
      BY <3>1, ActiveCancelledFacts
    <3>3. told.source = given.source /\ told.output = given.output
      BY <3>1 DEF ActiveCancelled, Ui
    <3>4. \A j \in Job : job[j].phase = "live" => j \in told.asked
      BY <1>1, <2>1, <3>1, <3>2, NoneIsNoJob DEF SessionOwnsItsWork, NoOrphanJob, Accepts
    <3> HIDE DEF told
    <3>5. LET v == Reset(told) IN
          /\ v \in Ui
          /\ v.state = "Idle" /\ v.jobFresh = FALSE /\ v.asked = told.asked
          /\ v.visible = told.visible /\ v.source = told.source /\ v.output = told.output
      BY ONLY <3>2, ResetFacts, Zenon
    <3>6. u = Reset(told) /\ ui.state \in Busy
      BY <2>1 DEF Busy
    <3> QED BY <3>1, <3>3, <3>4, <3>5, <3>6
  <2>2. CASE ui.state \in Captures
    <3>1. LET v == Reset(ui) IN
          /\ v \in Ui
          /\ v.state = "Idle" /\ v.jobFresh = FALSE /\ v.asked = ui.asked
          /\ v.visible = ui.visible /\ v.source = ui.source /\ v.output = ui.output
      BY ONLY <1>1, ResetFacts, Zenon
    <3>2. u = Reset(ui) /\ ui.state \in Busy /\ ui.state # "Translating"
      BY <2>2 DEF Captures, Busy
    <3> QED BY <1>1, <3>1, <3>2, AtRest
  <2>3. CASE ui.state \notin Busy
    BY <1>1, <2>3, AtRest DEF Busy
  <2> QED BY <2>1, <2>2, <2>3 DEF Busy
<1> HIDE DEF u
<1>4. CASE b
  <2> DEFINE w == Invalidated(u)
  <2>1. w \in Ui /\ w.jobFresh = FALSE /\ w.asked = u.asked /\ w.source = u.source /\ w.output = u.output
    BY <1>3, InvalidatedFacts
  <2>2. ui' = [w EXCEPT !.state = "CaptureScheduled"]
    BY <1>2, <1>4
  <2> HIDE DEF w
  <2>3. /\ ui' \in Ui /\ ui'.jobFresh = FALSE /\ ui'.asked = w.asked
        /\ ui'.source = w.source /\ ui'.output = w.output /\ ui'.state = "CaptureScheduled"
    BY <2>1, <2>2 DEF Ui, PopupState
  <2> QED BY <1>2, <1>3, <2>1, <2>3, SilentStep
<1>5. CASE ~b
  <2>1. /\ ui' \in Ui /\ SameSession(u, ui') /\ ui'.visible = TRUE
    BY <1>2, <1>3, <1>5, ErrorShownFacts
  <2>2. CASE ui.state \in Busy
    BY <1>2, <1>3, <2>1, <2>2, SilentStep DEF SameSession
  <2>3. CASE ui.state \notin Busy
    BY <1>2, <1>3, <2>1, <2>3, WindowStep DEF Busy
  <2> QED BY <2>2, <2>3
<1> QED BY <1>4, <1>5

LEMMA DoTranslateStep == ASSUME IInv, NEW b \in BOOLEAN, DoTranslate(b) PROVE IInv'
<1>1. TypeOK /\ QueueInv /\ CurrentInv /\ SessionOwnsItsWork /\ ui \in Ui
  BY DEF IInv, TypeOK
<1>2. job' = job /\ events' = events
  BY DEF DoTranslate
<1>3. CASE ui.state # "CaptureScheduled"
  BY <1>1, <1>2, <1>3, WindowStep DEF DoTranslate, SameSession, SameWindow
<1>4. CASE ui.state = "CaptureScheduled"
  <2>1. /\ \A j \in Job : job[j].phase = "live" => j \in ui.asked
        /\ ~(ui.jobFresh /\ ui.active # None)
    BY <1>1, <1>4, AtRest
  <2>2. CASE b
    <3> DEFINE deeper == Append(ui.frames, TRUE)
    <3>1. deeper \in Seq(BOOLEAN)
      <4>1. ui.frames \in Seq(BOOLEAN)
        BY <1>1 DEF Ui
      <4> QED BY <4>1
    <3>2. ui' = [ui EXCEPT !.state = "Capturing", !.frames = deeper]
      BY <1>4, <2>2 DEF DoTranslate
    <3> HIDE DEF deeper
    <3>3. /\ ui' \in Ui /\ ui'.state = "Capturing" /\ ui'.jobFresh = ui.jobFresh
          /\ ui'.active = ui.active /\ ui'.asked = ui.asked
          /\ ui'.source = ui.source /\ ui'.output = ui.output
      BY <1>1, <3>1, <3>2 DEF Ui, PopupState
    <3> QED BY <1>2, <2>1, <3>3, SilentStep
  <2>3. CASE ~b
    <3> DEFINE w == [ui EXCEPT !.state = "Capturing"]
               x == ErrorShown(w)
    <3>1. w \in Ui /\ w.asked = ui.asked /\ w.source = ui.source /\ w.output = ui.output
      BY <1>1 DEF Ui, PopupState
    <3>2. ui' = Reset(x)
      BY <1>4, <2>3 DEF DoTranslate
    <3> HIDE DEF w
    <3>3. x \in Ui /\ SameSession(w, x)
      BY <3>1, ErrorShownFacts
    <3> HIDE DEF x
    <3>4. LET v == Reset(x) IN
          /\ v \in Ui
          /\ v.state = "Idle" /\ v.jobFresh = FALSE /\ v.asked = x.asked
          /\ v.visible = x.visible /\ v.source = x.source /\ v.output = x.output
      BY ONLY <3>3, ResetFacts, Zenon
    <3> QED BY <1>2, <2>1, <3>1, <3>2, <3>3, <3>4, SilentStep DEF SameSession
  <2> QED BY <2>2, <2>3
<1> QED BY <1>3, <1>4

LEMMA CaptureReturnsStep == ASSUME IInv, NEW b \in BOOLEAN, CaptureReturns(b) PROVE IInv'
<1>1. TypeOK /\ QueueInv /\ CurrentInv /\ SessionOwnsItsWork /\ ui \in Ui
  BY DEF IInv, TypeOK
<1> DEFINE u == Returned(ui)
           stale == ui.state # "Capturing" \/ ~ui.frames[Len(ui.frames)]
<1>2. /\ ui.frames # <<>> /\ events' = events
      /\ IF stale THEN ui' = u /\ job' = job
         ELSE IF ~b THEN ui' = Reset(ErrorShown(u)) /\ job' = job
         ELSE \E j \in Job : NewJob(j) /\ ui' = Submitted(u, j, j) /\ JobBorn(j, j)
  BY DEF CaptureReturns
<1>3. u \in Ui /\ SameSession(ui, u) /\ SameWindow(ui, u)
  BY <1>1, <1>2, ReturnedFacts
<1> HIDE DEF u
<1>4. CASE stale
  BY <1>2, <1>3, <1>4, WindowStep DEF SameWindow
<1>5. CASE ~stale /\ ~b
  <2> DEFINE x == ErrorShown(u)
  <2>1. x \in Ui /\ SameSession(u, x) /\ ui' = Reset(x) /\ job' = job
    BY <1>2, <1>3, <1>5, ErrorShownFacts
  <2> HIDE DEF x
  <2>2. LET v == Reset(x) IN
        /\ v \in Ui
        /\ v.state = "Idle" /\ v.jobFresh = FALSE /\ v.asked = x.asked
        /\ v.visible = x.visible /\ v.source = x.source /\ v.output = x.output
    BY ONLY <2>1, ResetFacts, Zenon
  <2>3. \A j \in Job : job[j].phase = "live" => j \in ui.asked
    BY <1>1, <1>5, AtRest
  <2> QED BY <1>2, <1>3, <2>1, <2>2, <2>3, SilentStep DEF SameSession
<1>6. CASE ~stale /\ b
  <2>1. PICK j \in Job : NewJob(j) /\ ui' = Submitted(u, j, j) /\ JobBorn(j, j)
    BY <1>2, <1>6
  <2>2. ui.state # "Translating" /\ j \in Text
    BY <1>6 DEF Text
  <2> QED BY <1>2, <1>3, <2>1, <2>2, SubmitStep DEF SameSession
<1> QED BY <1>4, <1>5, <1>6

LEMMA RetryStep == ASSUME IInv, NEW b \in BOOLEAN, Retry(b) PROVE IInv'
<1>1. TypeOK /\ QueueInv /\ CurrentInv /\ SessionOwnsItsWork /\ ui \in Ui
  BY DEF IInv, TypeOK
<1>2. ui.state # "Translating" /\ events' = events
  BY DEF Retry, Busy, Window
<1>3. CASE ui.last = None \/ ~b
  <2>1. ui' = ErrorShown(ui) /\ job' = job
    BY <1>3 DEF Retry, Window
  <2> QED BY <1>1, <1>2, <2>1, ErrorShownFacts, WindowStep
<1>4. CASE ~(ui.last = None \/ ~b)
  <2>1. PICK j \in Job : NewJob(j) /\ ui' = Submitted(ui, ui.last, j) /\ JobBorn(ui.last, j)
    BY <1>4 DEF Retry
  <2>2. ui.last \in Text
    BY <1>1, <1>4 DEF Ui
  <2> QED BY <1>1, <1>2, <2>1, <2>2, SubmitStep
<1> QED BY <1>3, <1>4

\* The session that accepts the event at the head is translating its job, and
\* no later event of that job precedes the completion.
LEMMA Accepted ==
    ASSUME IInv, events # <<>>, Accepts(Head(events).job)
    PROVE  LET e == Head(events) IN
           /\ e \in Posted /\ e.job \in Job /\ ui.active = e.job /\ ui.jobFresh
           /\ job[e.job].phase # "none" /\ job[e.job].text = ui.last
           /\ ui.state = "Translating"
           /\ e.kind = "delta" \/ (e.kind = "finished" /\ e.result = "Completed") => Presented
           /\ e.kind = "finished" =>
                 /\ job[e.job].phase = "ended"
                 /\ \A i \in DOMAIN Tail(events) : Tail(events)[i].job # e.job
<1>1. TypeOK /\ QueueInv /\ CurrentInv
  BY DEF IInv
<1>2. events \in Seq(Posted)
  BY <1>1 DEF TypeOK
<1>3. /\ Len(events) \in Nat /\ Len(events) > 0 /\ DOMAIN events = 1 .. Len(events)
      /\ Head(events) = events[1] /\ 1 \in DOMAIN events
      /\ \A i \in DOMAIN Tail(events) :
            i + 1 \in DOMAIN events /\ 1 < i + 1 /\ Tail(events)[i] = events[i + 1]
  BY <1>2
<1>4. PICK e \in Posted : e = events[1] /\ e.job \in Job
  BY <1>2, <1>3, EventFacts
<1>5. ui.active = e.job /\ ui.jobFresh /\ ui.active # None
  BY <1>3, <1>4, NoneIsNoJob DEF Accepts
<1>6. /\ job[e.job].phase # "none" /\ job[e.job].text = ui.last
      /\ ui.state = "Translating" /\ (Presented \/ StartIsDue(e.job))
  BY <1>1, <1>3, <1>4, <1>5 DEF CurrentInv
<1>7. ASSUME StartIsDue(e.job), ~(e.kind = "finished" /\ e.result # "Completed")
      PROVE  e.kind = "started"
  <2>1. StartedBy(e.job, 1)
    BY <1>3, <1>4, <1>7 DEF StartIsDue
  <2> QED BY <1>3, <1>4, <2>1 DEF StartedBy
<1>8. ASSUME e.kind = "finished"
      PROVE  /\ job[e.job].phase = "ended"
             /\ \A i \in DOMAIN Tail(events) : Tail(events)[i].job # e.job
  BY <1>1, <1>3, <1>4, <1>8 DEF QueueInv
<1> QED BY <1>3, <1>4, <1>5, <1>6, <1>7, <1>8

LEMMA StartedStep == ASSUME IInv, OnTranslationStarted PROVE IInv'
<1>1. TypeOK /\ QueueInv /\ CurrentInv /\ SessionOwnsItsWork /\ ui \in Ui
  BY DEF IInv, TypeOK
<1>2. events # <<>> /\ events' = Tail(events) /\ job' = job
  BY DEF OnTranslationStarted, Take
<1>3. CASE ~Accepts(Head(events).job)
  <2>1. ui' = ui
    BY <1>3 DEF OnTranslationStarted
  <2> QED BY <1>2, <1>3, <2>1, StaleEvent DEF Accepts
<1>4. CASE Accepts(Head(events).job)
  <2>1. PICK a \in Job : /\ a = Head(events).job /\ ui.active = a /\ ui.jobFresh
                         /\ job[a].phase # "none" /\ job[a].text = ui.last
                         /\ ui.state = "Translating"
    BY <1>2, <1>4, Accepted
  <2>2. ui' = LoadingShown(ui)
    BY <1>4, <2>1 DEF OnTranslationStarted
  <2>3. /\ ui' \in Ui
        /\ ui'.state = ui.state /\ ui'.active = ui.active /\ ui'.jobFresh = ui.jobFresh
        /\ ui'.last = ui.last /\ ui'.asked = ui.asked
        /\ ui'.visible = TRUE /\ ui'.streaming = TRUE /\ ui'.source = ui.last /\ ui'.output = {}
    BY <1>1, <2>2, LoadingShownFacts
  <2>4. events' \in Seq(Posted) /\ QueueInv'
    BY <1>1, <1>2, <2>3, QueueKept
  <2>5. CurrentInv'
    BY <1>2, <2>1, <2>3 DEF CurrentInv, Presented
  <2>6. SessionOwnsItsWork'
    BY <1>1, <1>2, <2>1, <2>3 DEF SessionOwnsItsWork, NoOrphanJob, ShowsOneTranslation, Accepts
  <2> QED BY <1>1, <1>2, <2>3, <2>4, <2>5, <2>6 DEF IInv, TypeOK
<1> QED BY <1>3, <1>4

LEMMA DeltaStep == ASSUME IInv, OnTranslationDelta PROVE IInv'
<1>1. TypeOK /\ QueueInv /\ CurrentInv /\ SessionOwnsItsWork /\ ui \in Ui
  BY DEF IInv, TypeOK
<1>2. events # <<>> /\ events' = Tail(events) /\ job' = job /\ Head(events).kind = "delta"
  BY DEF OnTranslationDelta, Take
<1>3. CASE ~Accepts(Head(events).job)
  <2>1. ui' = ui
    BY <1>3 DEF OnTranslationDelta
  <2> QED BY <1>2, <1>3, <2>1, StaleEvent DEF Accepts
<1>4. CASE Accepts(Head(events).job)
  <2>1. PICK a \in Job : /\ a = Head(events).job /\ ui.active = a /\ ui.jobFresh
                         /\ job[a].phase # "none" /\ job[a].text = ui.last
                         /\ ui.state = "Translating" /\ Presented
    BY <1>2, <1>4, Accepted
  <2>2. ui' = [ui EXCEPT !.output = @ \cup {a}]
    BY <1>4, <2>1 DEF OnTranslationDelta, Presented
  <2>3. /\ ui' \in Ui /\ SameWindow(ui, ui')
        /\ ui'.state = ui.state /\ ui'.active = ui.active /\ ui'.jobFresh = ui.jobFresh
        /\ ui'.last = ui.last /\ ui'.asked = ui.asked
        /\ ui'.source = ui.source /\ ui'.output = ui.output \cup {a}
    BY <1>1, <2>2 DEF Ui, SameWindow
  <2>4. events' \in Seq(Posted) /\ QueueInv'
    <3>1. \A j \in ui'.output : job[j].phase # "none"
      BY <1>1, <2>1, <2>3 DEF QueueInv
    <3> QED BY <1>1, <1>2, <3>1, QueueKept
  <2>5. CurrentInv'
    BY <1>2, <2>1, <2>3 DEF CurrentInv, Presented, SameWindow
  <2>6. SessionOwnsItsWork'
    BY <1>1, <1>2, <2>1, <2>3
       DEF SessionOwnsItsWork, NoOrphanJob, ShowsOneTranslation, Accepts, Presented
  <2> QED BY <1>1, <1>2, <2>3, <2>4, <2>5, <2>6 DEF IInv, TypeOK
<1> QED BY <1>3, <1>4

LEMMA FinishedStep == ASSUME IInv, OnTranslationFinished PROVE IInv'
<1>1. TypeOK /\ QueueInv /\ CurrentInv /\ SessionOwnsItsWork /\ ui \in Ui
  BY DEF IInv, TypeOK
<1>2. events # <<>> /\ events' = Tail(events) /\ job' = job /\ Head(events).kind = "finished"
  BY DEF OnTranslationFinished, Take
<1>3. CASE ~Accepts(Head(events).job)
  <2>1. ui' = ui
    BY <1>3 DEF OnTranslationFinished
  <2> QED BY <1>2, <1>3, <2>1, StaleEvent DEF Accepts
<1>4. CASE Accepts(Head(events).job)
  <2> DEFINE e == Head(events)
  <2>1. PICK a \in Job : /\ a = e.job /\ ui.active = a /\ ui.jobFresh
                         /\ job[a].phase = "ended" /\ job[a].text = ui.last
                         /\ ui.state = "Translating"
                         /\ e.result \in Result
                         /\ e.result = "Completed" => Presented
                         /\ \A i \in DOMAIN events' : events'[i].job # a
    BY <1>2, <1>4, Accepted DEF Posted
  <2>2. \A j \in Job : job[j].phase = "live" => j \in ui.asked
    BY <1>1, <2>1 DEF SessionOwnsItsWork, NoOrphanJob, Accepts
  <2>3. ASSUME NEW v \in Ui, SameSession(ui, v), v.visible,
               ui' = [v EXCEPT !.state = "Showing"]
        PROVE  IInv'
    <3>1. /\ ui' \in Ui /\ ui'.state = "Showing" /\ ui'.active = a /\ ui'.jobFresh
          /\ ui'.last = ui.last /\ ui'.asked = ui.asked
          /\ ui'.source = ui.source /\ ui'.output = ui.output /\ ui'.visible
      BY <2>1, <2>3 DEF Ui, PopupState, SameSession
    <3>2. events' \in Seq(Posted) /\ QueueInv'
      <4>1. \A j \in ui'.output : job[j].phase # "none"
        BY <1>1, <3>1 DEF QueueInv
      <4> QED BY <1>1, <1>2, <4>1, QueueKept
    <3>3. CurrentInv'
      BY <1>2, <2>1, <3>1 DEF CurrentInv
    <3>4. SessionOwnsItsWork'
      BY <1>1, <1>2, <2>2, <3>1 DEF SessionOwnsItsWork, NoOrphanJob, ShowsOneTranslation
    <3> QED BY <1>1, <1>2, <3>1, <3>2, <3>3, <3>4 DEF IInv, TypeOK
  <2>4. CASE e.result = "Completed"
    <3>1. ui' = [StreamingFinished(ui) EXCEPT !.state = "Showing"]
      BY <1>4, <2>4 DEF OnTranslationFinished
    <3> QED BY <1>1, <2>1, <2>3, <2>4, <3>1, StreamingFinishedFacts DEF Presented
  <2>5. CASE e.result = "Failed"
    <3>1. ui' = [ErrorShown(ui) EXCEPT !.state = "Showing"]
      BY <1>4, <2>5 DEF OnTranslationFinished
    <3> QED BY <1>1, <2>3, <3>1, ErrorShownFacts
  <2>6. CASE e.result = "Cancelled"
    <3> DEFINE w == Reset(ui)
    <3>1. ui' = Hidden(w)
      BY <1>4, <2>6 DEF OnTranslationFinished
    <3>2. /\ w \in Ui /\ w.state = "Idle" /\ w.jobFresh = FALSE /\ w.asked = ui.asked
          /\ w.source = ui.source /\ w.output = ui.output
      BY <1>1, ResetFacts
    <3> HIDE DEF w
    <3>3. LET v == Hidden(w) IN
          /\ v \in Ui
          /\ v.visible = FALSE
          /\ v.source = w.source /\ v.output = w.output /\ w.asked \subseteq v.asked
          /\ IF w.visible
               THEN IF w.state \in Captures
                      THEN SameSession(w, v)
                      ELSE /\ v.state = "Idle" /\ v.jobFresh = FALSE
                           /\ w.state = "Translating" /\ w.active # None
                                 /\ job[w.active].phase = "live" => w.active \in v.asked
               ELSE v = w
      BY ONLY <3>2, HiddenFacts, Zenon
    <3>4. ui'.state = "Idle" /\ ui'.jobFresh = FALSE
      BY <3>1, <3>2, <3>3 DEF Captures
    <3> QED BY <1>2, <2>2, <3>1, <3>2, <3>3, <3>4, SilentStep
  <2> QED BY <2>1, <2>4, <2>5, <2>6 DEF Result
<1> QED BY <1>3, <1>4

-----------------------------------------------------------------------------
(* The invariant: the user, the window and the service.                    *)

\* hide() of window u, which the session has not heard of.
LEMMA HideStep ==
    ASSUME IInv, NEW u \in Ui, u.visible, SameSession(ui, u), ui' = Hidden(u),
           job' = job, events' = events
    PROVE  IInv'
<1>1. TypeOK /\ QueueInv /\ CurrentInv /\ SessionOwnsItsWork
  BY DEF IInv
<1>2. /\ ui' \in Ui
      /\ ui'.source = u.source /\ ui'.output = u.output /\ u.asked \subseteq ui'.asked
      /\ IF u.state \in Captures
           THEN SameSession(u, ui')
           ELSE /\ ui'.state = "Idle" /\ ui'.jobFresh = FALSE
                /\ u.state = "Translating" /\ u.active # None /\ job[u.active].phase = "live"
                      => u.active \in ui'.asked
  <2>1. LET v == Hidden(u) IN
        /\ v \in Ui
        /\ v.visible = FALSE
        /\ v.source = u.source /\ v.output = u.output /\ u.asked \subseteq v.asked
        /\ IF u.visible
             THEN IF u.state \in Captures
                    THEN SameSession(u, v)
                    ELSE /\ v.state = "Idle" /\ v.jobFresh = FALSE
                         /\ u.state = "Translating" /\ u.active # None
                               /\ job[u.active].phase = "live" => u.active \in v.asked
             ELSE v = u
    BY ONLY HiddenFacts, u \in Ui, Zenon
  <2> QED BY <2>1
<1>3. CASE ui.state \in Captures
  <2>1. SameSession(ui, ui')
    BY <1>2, <1>3 DEF SameSession
  <2> QED BY <1>2, <1>3, <2>1, WindowStep DEF Captures
<1>4. CASE ui.state \notin Captures
  <2>1. ui'.state = "Idle" /\ ui'.jobFresh = FALSE
    BY <1>2, <1>4 DEF SameSession
  <2>2. \A j \in Job : job[j].phase = "live" => j \in ui'.asked
    BY <1>1, <1>2, <1>4, NoneIsNoJob DEF SameSession, SessionOwnsItsWork, NoOrphanJob, Accepts
  <2> QED BY <1>2, <2>1, <2>2, SilentStep DEF SameSession
<1> QED BY <1>3, <1>4

\* A timer that fires, or a pointer that comes and goes, moves fields that the
\* invariant does not mention.
LEMMA PointerStep ==
    ASSUME IInv,
           \/ Close
           \/ AutoClose
           \/ PointerEnters
           \/ PointerLeaves
           \/ \E b \in BOOLEAN : PinToggled(b)
    PROVE  IInv'
<1>1. ui \in Ui
  BY DEF IInv, TypeOK
<1>2. job' = job /\ events' = events
  BY DEF Close, AutoClose, PointerEnters, PointerLeaves, PinToggled, Window
<1>3. CASE Close
  BY <1>1, <1>2, <1>3, HideStep DEF Close, Window, SameSession
<1>4. CASE AutoClose
  <2> DEFINE u == [ui EXCEPT !.closing = FALSE]
  <2>1. u \in Ui /\ SameSession(ui, u) /\ SameWindow(ui, u)
    BY <1>1 DEF Ui, SameSession, SameWindow
  <2>2. ui' = Hidden(u)
    BY <1>4 DEF AutoClose, Window
  <2> HIDE DEF u
  <2>3. CASE u.visible
    BY <1>2, <2>1, <2>2, <2>3, HideStep
  <2>4. CASE ~u.visible
    <3>1. ui' = u
      BY <2>2, <2>4 DEF Hidden
    <3> QED BY <1>2, <2>1, <3>1, WindowStep DEF SameWindow
  <2> QED BY <2>3, <2>4
<1>5. CASE PointerEnters
  <2>1. ui' = [ui EXCEPT !.closing = FALSE]
    BY <1>5 DEF PointerEnters, Window
  <2>2. ui' \in Ui /\ SameSession(ui, ui') /\ SameWindow(ui, ui')
    BY <1>1, <2>1 DEF Ui, SameSession, SameWindow
  <2> QED BY <1>2, <2>2, WindowStep DEF SameWindow
<1>6. CASE PointerLeaves
  <2>1. ui' = AutoCloseStarted(ui)
    BY <1>6 DEF PointerLeaves, Window
  <2>2. ui' \in Ui /\ SameSession(ui, ui') /\ SameWindow(ui, ui')
    BY <1>1, <2>1, AutoCloseStartedFacts
  <2> QED BY <1>2, <2>2, WindowStep DEF SameWindow
<1>7. ASSUME NEW b \in BOOLEAN, PinToggled(b) PROVE IInv'
  <2> DEFINE u == [ui EXCEPT !.pinned = FALSE]
             w == [ui EXCEPT !.pinned = TRUE, !.closing = FALSE]
  <2>1. /\ u \in Ui /\ SameSession(ui, u) /\ SameWindow(ui, u)
        /\ w \in Ui /\ SameSession(ui, w) /\ SameWindow(ui, w)
    BY <1>1 DEF Ui, SameSession, SameWindow
  <2>2. ui' = u \/ ui' = w \/ ui' = AutoCloseStarted(u)
    BY <1>7 DEF PinToggled, Window
  <2> HIDE DEF u, w
  <2>3. ui' \in Ui /\ SameSession(ui, ui') /\ SameWindow(ui, ui')
    BY <2>1, <2>2, AutoCloseStartedFacts DEF SameSession, SameWindow
  <2> QED BY <1>2, <2>3, WindowStep DEF SameWindow
<1> QED BY <1>3, <1>4, <1>5, <1>6, <1>7

LEMMA ServiceStep ==
    ASSUME IInv, NEW j \in Job,
           \/ JobStarts(j)
           \/ JobStreams(j)
           \/ \E r \in Result : JobEnds(j, r)
    PROVE  IInv'
<1>1. job[j] \in JobRecord /\ job \in [Job -> JobRecord] /\ ui \in Ui
  BY DEF IInv, TypeOK
<1>2. ASSUME ui' = ui, NEW e \in Posted, e.kind # "finished"
      PROVE  ui' = [ui EXCEPT !.asked = IF e.kind = "finished" THEN @ \ {j} ELSE @]
  BY <1>1, <1>2 DEF Ui
<1>3. CASE JobStarts(j)
  <2> DEFINE e == Event("started", j, "Failed")
             r == [job[j] EXCEPT !.started = TRUE]
  <2>1. e \in Posted /\ e.job = j /\ e.kind = "started"
    BY DEF Event, Posted, Result
  <2>2. r \in JobRecord /\ r.text = job[j].text /\ r.phase = job[j].phase
    BY <1>1 DEF JobRecord
  <2>3. /\ job[j].phase = "live" /\ ui' = ui
        /\ job' = [job EXCEPT ![j] = r] /\ events' = Append(events, e)
    BY <1>1, <1>3 DEF JobStarts, Post
  <2> HIDE DEF e, r
  <2> QED BY <1>2, <2>1, <2>2, <2>3, PostStep
<1>4. CASE JobStreams(j)
  <2> DEFINE e == Event("delta", j, "Failed")
             r == [job[j] EXCEPT !.deltas = @ + 1]
  <2>1. e \in Posted /\ e.job = j /\ e.kind = "delta"
    BY DEF Event, Posted, Result
  <2>2. /\ job[j].phase = "live" /\ job[j].started /\ ui' = ui
        /\ job' = [job EXCEPT ![j] = r] /\ events' = Append(events, e)
    BY <1>1, <1>4 DEF JobStreams, Post
  <2>3. /\ r \in JobRecord /\ r.text = job[j].text /\ r.phase = job[j].phase
        /\ r.started = job[j].started
    <3>1. job[j].deltas + 1 \in 0 .. MaxDeltas
      <4>1. job[j].deltas \in 0 .. MaxDeltas /\ job[j].deltas < MaxDeltas /\ MaxDeltas \in Nat
        BY <1>1, <1>4, PopupAssumption DEF JobRecord, JobStreams
      <4> QED BY <4>1
    <3> DEFINE d == job[j].deltas + 1
    <3>2. r = [job[j] EXCEPT !.deltas = d]
      BY DEF r
    <3>3. d \in 0 .. MaxDeltas
      BY <3>1
    <3>4. job[j] \in JobRecord
      BY <1>1
    <3> HIDE DEF d, r
    <3>5. r \in JobRecord
      BY <3>2, <3>3, <3>4 DEF JobRecord
    <3>6. r.text = job[j].text /\ r.phase = job[j].phase /\ r.started = job[j].started
      BY <3>2, <3>4 DEF JobRecord
    <3> QED BY <3>5, <3>6
  <2> HIDE DEF e, r
  <2>4. ui' = [ui EXCEPT !.asked = IF e.kind = "finished" THEN @ \ {j} ELSE @]
    BY <1>2, <2>1, <2>2
  <2> QED BY <2>1, <2>2, <2>3, <2>4, PostStep
<1>5. ASSUME NEW x \in Result, JobEnds(j, x) PROVE IInv'
  <2> DEFINE e == Event("finished", j, x)
             r == [job[j] EXCEPT !.phase = "ended", !.started = FALSE, !.deltas = 0]
  <2>1. e \in Posted /\ e.job = j /\ e.kind = "finished" /\ e.result = x
    BY DEF Event, Posted
  <2>2. r \in JobRecord /\ r.text = job[j].text /\ r.phase = "ended" /\ r.started = FALSE
    <3>1. 0 \in 0 .. MaxDeltas
      BY PopupAssumption
    <3> QED BY <1>1, <3>1 DEF JobRecord
  <2>3. /\ job[j].phase = "live"
        /\ x = "Completed" => job[j].started
        /\ ui' = [ui EXCEPT !.asked = @ \ {j}]
        /\ job' = [job EXCEPT ![j] = r] /\ events' = Append(events, e)
    BY <1>1, <1>5 DEF JobEnds, Post
  <2> HIDE DEF e, r
  <2>4. ui' = [ui EXCEPT !.asked = IF e.kind = "finished" THEN @ \ {j} ELSE @]
    BY <2>1, <2>3
  <2> QED BY <2>1, <2>2, <2>3, <2>4, PostStep
<1> QED BY <1>3, <1>4, <1>5

LEMMA StepIInv == IInv /\ [Next]_vars => IInv'
<1> SUFFICES ASSUME IInv, [Next]_vars PROVE IInv'
  OBVIOUS
<1>1. ASSUME NEW b \in BOOLEAN, Hotkey(b) PROVE IInv'
  BY <1>1, HotkeyStep
<1>2. ASSUME NEW b \in BOOLEAN, DoTranslate(b) PROVE IInv'
  BY <1>2, DoTranslateStep
<1>3. ASSUME NEW b \in BOOLEAN, CaptureReturns(b) PROVE IInv'
  BY <1>3, CaptureReturnsStep
<1>4. ASSUME NEW b \in BOOLEAN, Retry(b) PROVE IInv'
  BY <1>4, RetryStep
<1>5. CASE OnTranslationStarted
  BY <1>5, StartedStep
<1>6. CASE OnTranslationDelta
  BY <1>6, DeltaStep
<1>7. CASE OnTranslationFinished
  BY <1>7, FinishedStep
<1>8. CASE Close \/ AutoClose \/ PointerEnters \/ PointerLeaves \/ \E b \in BOOLEAN : PinToggled(b)
  BY <1>8, PointerStep
<1>9. ASSUME NEW j \in Job, JobStarts(j) \/ JobStreams(j) \/ \E r \in Result : JobEnds(j, r)
      PROVE  IInv'
  BY <1>9, ServiceStep
<1>10. CASE UNCHANGED vars
  BY <1>10, WindowStep DEF vars, IInv, TypeOK, SameSession, SameWindow
<1> QED BY <1>1, <1>2, <1>3, <1>4, <1>5, <1>6, <1>7, <1>8, <1>9, <1>10 DEF Next

-----------------------------------------------------------------------------
\* Whatever the order in which presses, retries, dismissals, nested captures and
\* the events of the service meet, every running job of the popup is either the
\* one the session waits for or was told to stop, and the output the popup holds
\* was translated from the source it shows (session_controller.cpp).
THEOREM SessionKeepsItsWork == Spec => []SessionOwnsItsWork
<1>1. IInv => SessionOwnsItsWork
  BY DEF IInv
<1> QED BY <1>1, InitIInv, StepIInv, PTL DEF Spec
=============================================================================
