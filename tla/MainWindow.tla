----------------------------- MODULE MainWindow -----------------------------
(***************************************************************************)
(* The main window with its pages: ModelShell, the Translate page and the  *)
(* Batch page on the user-interface thread, and on the service thread the  *)
(* job of the Translate page and the batch controller, as far as the       *)
(* window sees them.  Both occupy the model, and the window must not take  *)
(* it away from them; all it knows of them is what it has been told.       *)
(*                                                                         *)
(* InferenceService and BatchController have the two services in full.     *)
(* The batch table has rows, so that its Start button is enabled.          *)
(***************************************************************************)
EXTENDS ModelShell

CONSTANT MaxSegments  \* bound: the segments the batch controller submits

ASSUME MaxSegmentsAssumption == MaxSegments \in Nat

VARIABLES
    own,       \* own_translation_active_, and active_translate_job_id_ is valid
    page,      \* TranslatePage: translating_, busy_, last_failed_, retry_button_
    batch,     \* batch_running_ and batch_paused_, and the same of BatchPage
    job,       \* the job of the Translate page in InferenceService
    ctl,       \* BatchController: running_ and paused_
    segment,   \* its job: none, live, ended, or stuck (refused unnoticed)
    left,      \* the segments there are still to submit
    erred      \* history: errorOccurred() was heard

translation == <<own, page, job>>
batchState  == <<batch, ctl, segment, left, erred>>

vars == <<shell, translation, batchState>>

-----------------------------------------------------------------------------
NoJob == [at |-> "none", back |-> FALSE, cancel |-> FALSE, end |-> "none"]

Init ==
    /\ ShellInit
    /\ own = FALSE /\ job = NoJob
    /\ page = [translating |-> FALSE, busy |-> FALSE, failed |-> FALSE, retry |-> FALSE]
    /\ batch = [running |-> FALSE, paused |-> FALSE, pageRunning |-> FALSE, pagePaused |-> FALSE]
    /\ ctl = [running |-> FALSE, paused |-> FALSE]
    /\ segment = "none" /\ left = MaxSegments /\ erred = FALSE

\* translationFinished(), of the page's job or of another one.
Translated(mine, failed) == [kind |-> "translated", mine |-> mine, failed |-> failed]
BatchState(c) == [kind |-> "batchState", running |-> c.running, paused |-> c.paused]
BatchFinished == [kind |-> "batchFinished"]
BatchError    == [kind |-> "batchError"]

\* What a button of these two pages leaves alone, commands and clicks excepted.
ShellKept == UNCHANGED <<window, flow, signals, service, download, withdrawn>>

Post(command) == commands' = Append(commands, command)

-----------------------------------------------------------------------------
(* The Translate page.                                                     *)

\* onTranslateRequested(), with or without a translation back.
OnTranslateRequested(back) ==
    /\ Click /\ ShellKept
    /\ own' = TRUE
    /\ page' = [page EXCEPT !.translating = TRUE, !.failed = FALSE, !.retry = FALSE]
    /\ job' = [NoJob EXCEPT !.at = "posted", !.back = back]
    /\ Post("translate")
    /\ UNCHANGED batchState

\* The Translate button.
OnTranslate(back) ==
    /\ ~page.translating /\ ~page.busy /\ canTranslate
    /\ OnTranslateRequested(back)

\* The Retry button, once a translation has failed.
OnRetry(back) ==
    /\ page.retry /\ ~page.translating /\ ~page.busy /\ canTranslate
    /\ OnTranslateRequested(back)

\* The Stop button.  The service may have finished the job already.
OnCancelRequested ==
    /\ Click /\ ShellKept
    /\ page.translating
    /\ job' = IF job.at = "none" THEN job ELSE [job EXCEPT !.cancel = TRUE]
    /\ UNCHANGED <<commands, own, page, batchState>>

\* The Clear button.
OnClear ==
    /\ Click /\ ShellKept
    /\ ~page.busy /\ ~page.translating
    /\ page' = [page EXCEPT !.failed = FALSE, !.retry = FALSE]
    /\ UNCHANGED <<commands, own, job, batchState>>

\* Mistake: the result is shown before the page is told that it is not translating.
Mut_ResultShown(failed) ==
    page' = [page EXCEPT !.failed = failed,
                         !.retry = failed /\ ~page.busy /\ ~page.translating,
                         !.translating = FALSE]

\* setTranslating(false), then setTranslationResult() with updateResultStrip().
ResultShown(failed) ==
    page' = [page EXCEPT !.translating = FALSE, !.failed = failed, !.retry = failed /\ ~page.busy]

\* The window hears of every job there is and looks for its own.
OnTranslationFinished ==
    /\ Hears("translated")
    /\ IF Head(signals).mine
         THEN own' = FALSE /\ ResultShown(Head(signals).failed)
         ELSE UNCHANGED <<own, page>>
    /\ UNCHANGED <<window, flow, commands, service, download, history, job, batchState>>

\* onStatusChanged() tells the page, too; the strip is not looked at again.
StatusHeard ==
    /\ OnStatusChanged
    /\ page' = [page EXCEPT !.busy = Head(signals).flag]
    /\ UNCHANGED <<own, job, batchState>>

-----------------------------------------------------------------------------
(* The Batch page.                                                         *)

\* The one button that starts, pauses and resumes.
OnStartPause ==
    /\ Click /\ ShellKept
    /\ CASE ~batch.pageRunning ->
              /\ batch' = [batch EXCEPT !.running = TRUE, !.paused = FALSE, !.pageRunning = TRUE]
              /\ Post("start")
         [] batch.pageRunning /\ ~batch.pagePaused ->
              /\ batch' = [batch EXCEPT !.running = TRUE, !.paused = TRUE, !.pagePaused = TRUE]
              /\ Post("pause")
         [] OTHER ->
              /\ batch' = [batch EXCEPT !.paused = FALSE, !.pagePaused = FALSE]
              /\ Post("resume")
    /\ UNCHANGED <<ctl, segment, left, erred, translation>>

\* A file is dropped on the table, running or not.
OnBatchAddFiles ==
    /\ Click /\ ShellKept
    /\ Post("addFile")
    /\ UNCHANGED <<translation, batchState>>

OnBatchStateChanged ==
    /\ Hears("batchState")
    /\ LET s == Head(signals)
       IN  batch' = [running |-> s.running, paused |-> s.paused,
                     pageRunning |-> s.running, pagePaused |-> s.paused]
    /\ UNCHANGED <<window, flow, commands, service, download, history,
                   ctl, segment, left, erred, translation>>

OnBatchFinished ==
    /\ Hears("batchFinished")
    /\ batch' = [batch EXCEPT !.running = FALSE, !.paused = FALSE, !.pageRunning = FALSE]
    /\ UNCHANGED <<window, flow, commands, service, download, history,
                   ctl, segment, left, erred, translation>>

\* onBatchError(): whatever the error was, the window shows no run; the page
\* is not told.
OnBatchError ==
    /\ Hears("batchError")
    /\ batch' = [batch EXCEPT !.running = FALSE, !.paused = FALSE]
    /\ erred' = TRUE
    /\ UNCHANGED <<window, flow, commands, service, download, history,
                   ctl, segment, left, translation>>

-----------------------------------------------------------------------------
(* The service thread.                                                     *)

\* A posted call is executed, while no other one is.
Executes(command) ==
    /\ spc = "idle" /\ commands # <<>> /\ Head(commands) = command
    /\ commands' = Tail(commands)
    /\ UNCHANGED <<window, flow, service, download, history>>

\* finishJob(), with what was published before.
FinishJob(before, failed) ==
    /\ job' = NoJob
    /\ Emit(before \o <<Translated(TRUE, failed), Settled(host)>>)

\* submitJob(): the host refuses work for a model it does not hold.
SubmitJob(before, back) ==
    IF job.cancel THEN FinishJob(before, FALSE)
    ELSE IF host # configured THEN FinishJob(before, TRUE)
    ELSE job' = [job EXCEPT !.at = "live", !.back = back] /\ Emit(before)

\* submitNative(): the snapshot, and the submission behind it.
TranslateNative ==
    /\ Executes("translate")
    /\ SubmitJob(<<Settled(host)>>, job.back)
    /\ UNCHANGED <<own, page, batchState>>

\* Mistake: the end of a job that was cancelled before its translation back is
\* not reported.
Mut_JobEnded ==
    /\ Executes("ended")
    /\ IF job.end = "Completed" /\ job.back
         THEN IF job.cancel THEN job' = NoJob /\ UNCHANGED signals ELSE SubmitJob(<<>>, FALSE)
         ELSE FinishJob(<<>>, job.end = "Failed")
    /\ UNCHANGED <<own, page, batchState>>

\* handleCoreEvent(): the translation back, or the end.
JobEnded ==
    /\ Executes("ended")
    /\ IF job.end = "Completed" /\ job.back /\ ~job.cancel
         THEN SubmitJob(<<>>, FALSE)
         ELSE FinishJob(<<>>, job.end = "Failed")
    /\ UNCHANGED <<own, page, batchState>>

\* advanceBatch() from a run in state c, with what was emitted before: an error
\* for a segment that failed earlier, then the next segment, the end of the run,
\* or another error.  A refused submission ends before its id is known.
AdvanceBatch(before, c) ==
    IF host = NoModel
      THEN /\ ctl' = [running |-> FALSE, paused |-> FALSE]
           /\ Emit(before \o <<BatchState(ctl'), BatchError>>)
           /\ segment' = "none" /\ UNCHANGED left
      ELSE \E skipped \in {<<>>, <<BatchError>>} :
           \/ /\ left > 0 /\ left' = left - 1
              /\ ctl' = c
              /\ IF host = configured
                   THEN segment' = "live" /\ Emit(before \o skipped \o <<Settled(host)>>)
                   ELSE segment' = "stuck" /\ Emit(before \o skipped
                           \o <<Settled(host), Translated(FALSE, TRUE), Settled(host)>>)
           \/ /\ ctl' = [c EXCEPT !.running = FALSE]
              /\ Emit(before \o skipped \o <<BatchState(ctl'), BatchFinished>>)
              /\ segment' = "none" /\ UNCHANGED left
           \/ /\ ctl' = [running |-> FALSE, paused |-> FALSE]
              /\ Emit(before \o skipped \o <<BatchState(ctl'), BatchError>>)
              /\ segment' = "none" /\ UNCHANGED left

\* advanceBatch() once more, which returns while there is a job.
Continue(before, c) ==
    IF c.paused \/ segment \in {"live", "ended", "stuck"}
      THEN ctl' = c /\ Emit(before) /\ UNCHANGED <<segment, left>>
      ELSE AdvanceBatch(before, c)

NothingDone == UNCHANGED <<signals, ctl, segment, left>>

BatchStart ==
    /\ Executes("start")
    /\ IF ctl.running THEN NothingDone
       ELSE IF host = NoModel THEN Emit(<<BatchError>>) /\ UNCHANGED <<ctl, segment, left>>
       ELSE LET c == [running |-> TRUE, paused |-> FALSE] IN Continue(<<BatchState(c)>>, c)
    /\ UNCHANGED <<batch, erred, translation>>

BatchPause ==
    /\ Executes("pause")
    /\ IF ~ctl.running \/ ctl.paused THEN NothingDone
       ELSE /\ ctl' = [ctl EXCEPT !.paused = TRUE]
            /\ Emit(<<BatchState(ctl')>>)
            /\ UNCHANGED <<segment, left>>
    /\ UNCHANGED <<batch, erred, translation>>

BatchResume ==
    /\ Executes("resume")
    /\ IF ~ctl.running \/ ~ctl.paused THEN NothingDone
       ELSE IF host = NoModel
         THEN /\ ctl' = [running |-> FALSE, paused |-> FALSE]
              /\ Emit(<<BatchState(ctl'), BatchError>>)
              /\ UNCHANGED <<segment, left>>
       ELSE LET c == [ctl EXCEPT !.paused = FALSE] IN Continue(<<BatchState(c)>>, c)
    /\ UNCHANGED <<batch, erred, translation>>

\* addFile(): a file that cannot be used is an error.
AddFile ==
    /\ Executes("addFile")
    /\ \/ Emit(<<BatchError>>) \/ Emit(<<BatchState(ctl)>>)
    /\ UNCHANGED <<ctl, segment, left, batch, erred, translation>>

\* The controller's onTranslationFinished(), for its own job, which the window
\* hears of, too: the next segment, an error, or a wait for the timer or resume().
SegmentEnded ==
    LET heard(failed) == <<Translated(FALSE, failed), Settled(host)>> IN
    /\ Executes("segmentEnded")
    /\ \/ ~ctl.paused /\ AdvanceBatch(heard(FALSE), ctl)
       \/ /\ segment' = "none" /\ ctl' = [running |-> FALSE, paused |-> FALSE]
          /\ Emit(heard(TRUE) \o <<BatchState(ctl'), BatchError>>) /\ UNCHANGED left
       \/ segment' = "none" /\ Emit(heard(FALSE)) /\ UNCHANGED <<ctl, left>>
    /\ UNCHANGED <<batch, erred, translation>>

\* The timer of a segment that was preempted, when it does anything.
OnRequeueTimer ==
    /\ spc = "idle"
    /\ ctl.running /\ ~ctl.paused /\ segment = "none"
    /\ AdvanceBatch(<<>>, ctl)
    /\ UNCHANGED <<window, flow, commands, service, download, history, batch, erred, translation>>

\* unload() finds the host idle, or fails.
Working == job.at = "live" \/ segment = "live"

ModelCommands ==
    /\ \/ LoadModel \/ UnloadModel
       \/ \E ok \in BOOLEAN : LoadModelReturns(ok) \/ ((ok => ~Working) /\ UnloadModelReturns(ok))
    /\ UNCHANGED <<translation, batchState>>

-----------------------------------------------------------------------------
(* The model host ends a job and posts its event.                          *)

JobEnds(end) ==
    /\ job.at = "live"
    /\ end = "Cancelled" => job.cancel
    /\ job' = [job EXCEPT !.at = "ended", !.end = end]
    /\ Post("ended")
    /\ UNCHANGED <<window, flow, signals, service, download, history, own, page, batchState>>

SegmentEnds ==
    /\ segment = "live" /\ segment' = "ended"
    /\ Post("segmentEnded")
    /\ UNCHANGED <<window, flow, signals, service, download, history, translation,
                   batch, ctl, left, erred>>

-----------------------------------------------------------------------------
\* Mistake: only the batch run is looked at.
Mut_Unlocked == ~batch.running

\* setInferenceActive(), for the rows of the model page.
Unlocked == ~(own \/ batch.running)

User ==
    \/ (OtherButtons \/ (Unlocked /\ LockedButtons)) /\ UNCHANGED <<translation, batchState>>
    \/ \E back \in BOOLEAN : OnTranslate(back) \/ OnRetry(back)
    \/ OnCancelRequested \/ OnClear
    \/ OnStartPause \/ OnBatchAddFiles

Slots ==
    \/ (OnRuntimeSnapshot \/ FlowSlots) /\ UNCHANGED <<translation, batchState>>
    \/ StatusHeard \/ OnTranslationFinished
    \/ OnBatchStateChanged \/ OnBatchFinished \/ OnBatchError

ServiceThread ==
    \/ ModelCommands
    \/ TranslateNative \/ JobEnded
    \/ BatchStart \/ BatchPause \/ BatchResume \/ AddFile \/ SegmentEnded \/ OnRequeueTimer

ModelHostEnds == SegmentEnds \/ \E end \in {"Completed", "Failed", "Cancelled"} : JobEnds(end)

Downloading == DownloadSteps /\ UNCHANGED <<translation, batchState>>

Next == User \/ Slots \/ ServiceThread \/ ModelHostEnds \/ Downloading

\* Event loops run, commands return, jobs and downloads end; the user need not act.
Fairness == /\ WF_vars(Slots) /\ WF_vars(ServiceThread) /\ WF_vars(Downloading)
            /\ WF_vars(ModelHostEnds)

Spec == Init /\ [][Next]_vars /\ Fairness

-----------------------------------------------------------------------------
TypeOK ==
    /\ configured \in Model
    /\ loadedId \in Model \cup {NoModel} /\ host \in Model \cup {NoModel}
    /\ bound = NoId <=> boundModel = NoModel
    /\ job.at \in {"none", "posted", "live", "ended"}
    /\ segment \in {"none", "live", "ended", "stuck"}

\* Nothing is queued, in progress or being downloaded.
Quiet == /\ commands = <<>> /\ signals = <<>> /\ spc = "idle"
         /\ \A i \in Download : phase[i] \in {"unknown", "finished"}

\* Once everything has been heard, the window names the model the host holds,
\* no part of the flow is still waiting for an answer, and both the window and
\* the Batch page show the run of the controller as it is, unless an error was
\* reported (onModelLoadFinished() and the snapshot slot both write the model;
\* the slots of the Batch page write what the controller will say).
WindowAgreesWithHost ==
    /\ TypeOK
    /\ Quiet => /\ modelLoaded <=> host # NoModel
                /\ modelLoaded => loadedId = host
                /\ ~busy /\ ~AnyOperation
    /\ Quiet /\ ~erred =>
          /\ batch.running = ctl.running /\ batch.pageRunning = ctl.running
          /\ batch.paused = ctl.paused /\ batch.pagePaused = ctl.paused

\* The Translate page translates exactly as long as its job is with the service
\* or the end of it is on the way, whatever other jobs there are; and when it
\* does not, a failure can be retried until the next submission or Clear.
PageFollowsItsJob ==
    /\ page.translating = own
    /\ own <=> \/ job.at # "none"
               \/ \E i \in DOMAIN signals : signals[i].kind = "translated" /\ signals[i].mine
    /\ ~page.translating => page.retry = page.failed

\* No unload the window has ordered finds its translation in the host ("an
\* unload must never start while a live interactive or batch job owns the
\* model"): a translation that is submitted behind the unload is refused.  Of
\* the batch run the window only has an old picture, and it may be in the host.
UnloadSparesTranslation == spc = "unload" => job.at # "live"

\* A download the user has cancelled never starts a load, even if it completes
\* all the same (cancelFromPage(), cancelFromDialog()).
CancelledNeverLoads ==
    [][(bound \in withdrawn /\ bound' = NoId) => commands' = commands]_vars

\* Every operation the shell shows as running ends in the shell
\* (onModelUnloadFinished(): "the shell never stays locked").
ShellUnlocks == AnyOperation ~> ~AnyOperation

\* Every translation of the Translate page ends in the page.
TranslationEnds == own ~> ~own
=============================================================================
