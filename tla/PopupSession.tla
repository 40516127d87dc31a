---------------------------- MODULE PopupSession ----------------------------
(***************************************************************************)
(* The word-select popup: SessionController (hotkey, clipboard capture,    *)
(* translation job, dismissal) and the PopupWindow it drives.              *)
(*                                                                         *)
(* All of it runs on the user-interface thread, one handler at a time, but *)
(* a capture runs the event loop while it waits for the clipboard: the     *)
(* handlers below run inside it, further captures too, and captures return *)
(* last in, first out.  Jobs run in the inference service, which posts     *)
(* their events to this thread in order.                                   *)
(*                                                                         *)
(* m_sessionToken only ever grows and is only ever compared, so each copy  *)
(* of it is kept as whether it still equals the token.                     *)
(***************************************************************************)
EXTENDS Naturals, Sequences

CONSTANTS
    None,         \* no job, no text
    MaxRequests,  \* bound: hotkey presses and retries that submit, in all
    MaxDeltas     \* bound: pieces of output of one job

ASSUME PopupAssumption == /\ MaxRequests \in Nat /\ MaxDeltas \in Nat
                          /\ None \notin Nat

Job == 1 .. MaxRequests

\* A text the user selected, named after the first job that translates it: two
\* captures that find the same text differ in less.
Text == Job

VARIABLES
    ui,        \* the session and its popup, see Ui
    timers,    \* pending 50 ms timers of onHotkeyTriggered()
    requests,  \* presses and retries so far
    job,       \* the popup's jobs with the inference service, see JobRecord
    events     \* their events posted to this thread

vars == <<ui, timers, requests, job, events>>

PopupState == {"Idle", "CaptureScheduled", "Capturing", "Translating", "Showing"}

\* Busy in onRetryRequested(); a dismissal belongs to the previous
\* presentation in onPopupDismissed().
Captures == {"CaptureScheduled", "Capturing"}
Busy     == Captures \cup {"Translating"}

Ui == [state     : PopupState,            \* m_state
       active    : Job \cup {None},       \* m_activeJobId
       jobFresh  : BOOLEAN,               \* m_jobToken = m_sessionToken
       frames    : Seq(BOOLEAN),          \* doTranslate() in its capture: token = m_sessionToken
       last      : Text \cup {None},    \* m_lastRequest, m_hasLastRequest
       asked     : SUBSET Job,            \* the running jobs that cancel() was called for
       \* PopupWindow
       visible   : BOOLEAN,
       streaming : BOOLEAN,               \* m_isStreaming
       closing   : BOOLEAN,               \* m_closeTimer runs
       pinned    : BOOLEAN,
       error     : BOOLEAN,               \* the error banner with its Retry button
       source    : Text \cup {None},    \* m_sourceLabel
       output    : SUBSET Job]            \* whose pieces m_resultEdit holds

JobRecord == [phase : {"none", "live", "ended"}, text : Text \cup {None},
              started : BOOLEAN, deltas : 0 .. MaxDeltas]

Result == {"Completed", "Cancelled", "Failed"}

Event(k, j, r) == [kind |-> k, job |-> j, result |-> r]

Init ==
    /\ ui = [state |-> "Idle", active |-> None, jobFresh |-> TRUE, frames |-> <<>>,
             last |-> None, asked |-> {}, visible |-> FALSE, streaming |-> FALSE,
             closing |-> FALSE, pinned |-> FALSE, error |-> FALSE, source |-> None,
             output |-> {}]
    /\ timers = 0 /\ requests = 0
    /\ job = [j \in Job |-> [phase |-> "none", text |-> None, started |-> FALSE, deltas |-> 0]]
    /\ events = <<>>

-----------------------------------------------------------------------------
(* The helpers of the session and of the window, as functions of ui.       *)

Invalidated(u) == [u EXCEPT !.jobFresh = FALSE, !.frames = [i \in DOMAIN @ |-> FALSE]]

\* cancelActiveJob(): the service has no record of a job that has ended.
ActiveCancelled(u) ==
    IF u.state = "Translating" /\ u.active # None /\ job[u.active].phase = "live"
      THEN [u EXCEPT !.asked = @ \cup {u.active}]
      ELSE u

\* resetSession()
Reset(u) == [Invalidated(u) EXCEPT !.state = "Idle", !.active = None, !.last = None]

\* onPopupDismissed()
Dismissed(u) == IF u.state \in Captures THEN u ELSE Reset(ActiveCancelled(Invalidated(u)))

\* hide(): the hideEvent() of a visible window.
Hidden(u) ==
    IF u.visible
      THEN Dismissed([u EXCEPT !.visible = FALSE, !.streaming = FALSE, !.closing = FALSE])
      ELSE u

AutoCloseStarted(u) == [u EXCEPT !.closing = @ \/ ~u.pinned]

LoadingShown(u) ==
    [u EXCEPT !.closing = FALSE, !.streaming = TRUE, !.source = u.last, !.output = {},
              !.error = FALSE, !.visible = TRUE]

ErrorShown(u) ==
    AutoCloseStarted([u EXCEPT !.closing = FALSE, !.streaming = FALSE, !.error = TRUE,
                               !.visible = TRUE])

StreamingFinished(u) ==
    IF u.streaming THEN AutoCloseStarted([u EXCEPT !.streaming = FALSE]) ELSE u

\* submitRequest(): translateNative() only posts the job to the service thread.
Submitted(u, t, j) ==
    [Invalidated(u) EXCEPT !.jobFresh = TRUE, !.state = "Translating", !.active = j, !.last = t]

JobBorn(t, j) == job' = [job EXCEPT ![j] = [@ EXCEPT !.phase = "live", !.text = t]]

NewJob(j) == job[j].phase = "none" /\ \A i \in 1 .. j - 1 : job[i].phase # "none"

-----------------------------------------------------------------------------
(* The hotkey and the capture.                                             *)

\* onHotkeyTriggered() once the press is enabled and not within the debounce
\* interval; loaded is what isModelLoaded() answers.
Hotkey(loaded) ==
    /\ requests < MaxRequests
    /\ requests' = requests + 1
    /\ LET u == IF ui.state = "Translating" THEN Reset(ActiveCancelled(Invalidated(ui)))
                ELSE IF ui.state \in Captures THEN Reset(ui) ELSE ui
       IN  IF loaded
             THEN /\ ui' = [Invalidated(u) EXCEPT !.state = "CaptureScheduled"]
                  /\ timers' = timers + 1
             ELSE /\ ui' = ErrorShown(u)
                  /\ UNCHANGED timers
    /\ UNCHANGED <<job, events>>

\* doTranslate() up to the capture; trusted is what macOS says of the
\* accessibility permission.
DoTranslate(trusted) ==
    /\ timers > 0
    /\ timers' = timers - 1
    /\ ui' = IF ui.state # "CaptureScheduled" THEN ui
             ELSE IF trusted
               THEN [ui EXCEPT !.state = "Capturing", !.frames = Append(@, TRUE)]
               ELSE Reset(ErrorShown([ui EXCEPT !.state = "Capturing"]))
    /\ UNCHANGED <<requests, job, events>>

\* The capture that returns is the innermost.
Returned(u) == [u EXCEPT !.frames = SubSeq(@, 1, Len(@) - 1)]

\* Mistake: the capture is trusted to be the session's.
Mut_CaptureReturns(found) ==
    /\ ui.frames # <<>>
    /\ LET u == Returned(ui)
       IN  IF ~found
             THEN ui' = Reset(ErrorShown(u)) /\ UNCHANGED job
             ELSE \E j \in Job : NewJob(j) /\ ui' = Submitted(u, j, j) /\ JobBorn(j, j)
    /\ UNCHANGED <<timers, requests, events>>

\* Mistake: nothing was selected, and the session is not reset.
Mut_CaptureReturnsBusy(found) ==
    /\ ui.frames # <<>>
    /\ LET u     == Returned(ui)
           stale == ui.state # "Capturing" \/ ~ui.frames[Len(ui.frames)]
       IN  IF stale THEN ui' = u /\ UNCHANGED job
           ELSE IF ~found
             THEN ui' = ErrorShown(u) /\ UNCHANGED job
             ELSE \E j \in Job : NewJob(j) /\ ui' = Submitted(u, j, j) /\ JobBorn(j, j)
    /\ UNCHANGED <<timers, requests, events>>

\* doTranslate() after the capture, which found a text or none.
CaptureReturns(found) ==
    /\ ui.frames # <<>>
    /\ LET u     == Returned(ui)
           stale == ui.state # "Capturing" \/ ~ui.frames[Len(ui.frames)]
       IN  IF stale THEN ui' = u /\ UNCHANGED job
           ELSE IF ~found
             THEN ui' = Reset(ErrorShown(u)) /\ UNCHANGED job
             ELSE \E j \in Job : NewJob(j) /\ ui' = Submitted(u, j, j) /\ JobBorn(j, j)
    /\ UNCHANGED <<timers, requests, events>>

-----------------------------------------------------------------------------
(* Slots for the signals of the service.                                   *)

Accepts(j) == ui.jobFresh /\ j = ui.active

Take(kind) ==
    /\ events # <<>>
    /\ Head(events).kind = kind
    /\ events' = Tail(events)
    /\ UNCHANGED <<timers, requests, job>>

OnTranslationStarted ==
    /\ Take("started")
    /\ ui' = IF ui.state = "Translating" /\ Accepts(Head(events).job) THEN LoadingShown(ui) ELSE ui

\* The appendChunk() of a window that is not streaming does nothing.
OnTranslationDelta ==
    /\ Take("delta")
    /\ ui' = IF ui.state = "Translating" /\ Accepts(Head(events).job) /\ ui.streaming
               THEN [ui EXCEPT !.output = @ \cup {Head(events).job}]
               ELSE ui

\* A popup's job is never preempted: Cancelled stands for both.
OnTranslationFinished ==
    /\ Take("finished")
    /\ ui' = IF ~Accepts(Head(events).job) THEN ui
             ELSE CASE Head(events).result = "Completed" ->
                         [StreamingFinished(ui) EXCEPT !.state = "Showing"]
                    [] Head(events).result = "Cancelled" -> Hidden(Reset(ui))
                    [] Head(events).result = "Failed"    ->
                         [ErrorShown(ui) EXCEPT !.state = "Showing"]

-----------------------------------------------------------------------------
(* The user and the window.                                                *)

Window(u) == ui' = u /\ UNCHANGED <<timers, requests, job, events>>

\* onRetryRequested(), from the button of the error banner.
Retry(loaded) ==
    /\ ui.visible /\ ui.error
    /\ ui.state \notin Busy
    /\ IF ui.last = None \/ ~loaded
         THEN Window(ErrorShown(ui))
         ELSE /\ requests < MaxRequests
              /\ requests' = requests + 1
              /\ \E j \in Job : NewJob(j) /\ ui' = Submitted(ui, ui.last, j) /\ JobBorn(ui.last, j)
              /\ UNCHANGED <<timers, events>>

\* The close button, and Escape once its deferred dismissal runs.
Close == ui.visible /\ Window(Hidden(ui))

AutoClose == ui.closing /\ Window(Hidden([ui EXCEPT !.closing = FALSE]))

PointerEnters == ui.visible /\ ui.closing /\ Window([ui EXCEPT !.closing = FALSE])

PointerLeaves ==
    /\ ui.visible /\ ~ui.streaming /\ ~ui.pinned
    /\ Window(AutoCloseStarted(ui))

\* onPinToggled(); over says whether the pointer is over the popup.
PinToggled(over) ==
    /\ ui.visible
    /\ IF ~ui.pinned THEN Window([ui EXCEPT !.pinned = TRUE, !.closing = FALSE])
       ELSE LET u == [ui EXCEPT !.pinned = FALSE]
            IN  Window(IF ~ui.streaming /\ ~over THEN AutoCloseStarted(u) ELSE u)

-----------------------------------------------------------------------------
(* The inference service: a job starts, streams, and is answered once.     *)

Post(e) == events' = Append(events, e)

JobStarts(j) ==
    /\ job[j].phase = "live" /\ ~job[j].started
    /\ job' = [job EXCEPT ![j].started = TRUE]
    /\ Post(Event("started", j, "Failed"))
    /\ UNCHANGED <<ui, timers, requests>>

JobStreams(j) ==
    /\ job[j].phase = "live" /\ job[j].started /\ job[j].deltas < MaxDeltas
    /\ job' = [job EXCEPT ![j].deltas = @ + 1]
    /\ Post(Event("delta", j, "Failed"))
    /\ UNCHANGED <<ui, timers, requests>>

\* A job that was told to stop may have completed all the same.
JobEnds(j, r) ==
    /\ job[j].phase = "live"
    /\ r = "Completed" => job[j].started
    /\ r = "Cancelled" => j \in ui.asked
    /\ job' = [job EXCEPT ![j] = [@ EXCEPT !.phase = "ended", !.started = FALSE, !.deltas = 0]]
    /\ ui' = [ui EXCEPT !.asked = @ \ {j}]
    /\ Post(Event("finished", j, r))
    /\ UNCHANGED <<timers, requests>>

-----------------------------------------------------------------------------
Next ==
    \/ \E b \in BOOLEAN : Hotkey(b) \/ DoTranslate(b) \/ CaptureReturns(b) \/ Retry(b) \/ PinToggled(b)
    \/ OnTranslationStarted \/ OnTranslationDelta \/ OnTranslationFinished
    \/ Close \/ AutoClose \/ PointerEnters \/ PointerLeaves
    \/ \E j \in Job : JobStarts(j) \/ JobStreams(j) \/ \E r \in Result : JobEnds(j, r)

Spec == Init /\ [][Next]_vars

\* The event loop runs: timers fire, captures time out, posted events are
\* handled.  The service answers every job (InferenceService,
\* EveryClientAnswered).  Nothing is assumed of the user or of the window.
Fairness ==
    /\ WF_vars(\E b \in BOOLEAN : DoTranslate(b))
    /\ WF_vars(\E b \in BOOLEAN : CaptureReturns(b))
    /\ WF_vars(OnTranslationStarted \/ OnTranslationDelta \/ OnTranslationFinished)
    /\ \A j \in Job : WF_vars(\E r \in Result : JobEnds(j, r))

FairSpec == Spec /\ Fairness

-----------------------------------------------------------------------------
\* Every job of the popup that runs and was not told to stop is the one the
\* session waits for: no dismissal, new hotkey, retry or late capture leaves
\* a translation behind that occupies the model and that nobody will show.
NoOrphanJob ==
    \A j \in Job : job[j].phase = "live" /\ j \notin ui.asked =>
        ui.state = "Translating" /\ Accepts(j)

\* The output the popup holds was translated from the source it shows, and the
\* session thinks it shows a result only while the popup is there.
ShowsOneTranslation ==
    /\ \A j \in ui.output : job[j].text = ui.source
    /\ ui.state = "Showing" => ui.visible

\* What the session owns, it shows, and what it shows, it owns: the stale
\* captures, jobs and dismissals that meet a newer session change neither.
SessionOwnsItsWork == NoOrphanJob /\ ShowsOneTranslation

\* The user never waits for ever: a scheduled capture, a running one and a
\* popup that says "Translating" come to a result, an error or an idle session.
LoadingEnds ==
    (ui.state \in Busy \/ ui.streaming) ~> (ui.state \notin Busy /\ ~ui.streaming)
=============================================================================
