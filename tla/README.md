# QTrans: a TLA+ model of the translator and its services

QTrans is a desktop translator: Qt user interface, a local language model run
by llama.cpp, a popup translator on a hotkey, a queue of documents, and an
OpenAI-compatible local HTTP server, all of which share one loaded model. This
directory models the parts of it in which threads, queues, cancellations,
crashes and shutdowns meet, checks them with TLC and proves the core of them
with TLAPS. `PROJECT.json` lists the runs, the lines of code behind every
definition, the hazards and the theorems. Source paths below are relative to
`src/app/src/`.

- [The system](#the-system)
- [The modules and the code](#the-modules-and-the-code)
- [The runs](#the-runs)
- [Fairness](#fairness)
- [What is proved](#what-is-proved)
- [Where code and documents differ](#where-code-and-documents-differ)
- [What is not modelled](#what-is-not-modelled)

## The system

| Component | State | Operations | Hard behaviour |
|---|---|---|---|
| Invocation scheduler (`runtime/internal/host/invocation_scheduler.cpp`) | four queues, a size, the round-robin cursor, the count of pops since the last batch job | `push`, `pop` | starvation, the counter that must not drift |
| Model host (`.../model_host.cpp`) | lifecycle, invocation map, scheduler, runtime command queue, event queue, per invocation an atomic stop reason | `load`, `unload`, `submit`, `cancel`, `preempt`, `shutdown`, and the steps of the runtime, dispatch and finalizer threads | every operation races with every other; shutdown during a load; shutdown from an observer |
| Runtime adapter (`.../model_runtime.cpp`, `runtime/internal/local_runtime.cpp`) | the loaded model, the chunk in hand, the response so far | execution of a request, generation loop | a stop or a failure in a later chunk, an unfinished character |
| Text utilities (`runtime/internal/text/`) | a stream buffer | chunk, split, drain | token counts do not add up; boundaries inside UTF-8 sequences |
| Inference service (`translate/inference_service.cpp`) | job table, chat table, a ticket per job, a trace guard | submit native, batch, chat; cancel; preempt; load; unload; shutdown | a cancel against the installation of the handle; the hand-over to the translation back; answers exactly once |
| Local API service (`translate/local_api_service.cpp`) | connections, read buffers, timers, outstanding requests | accept, read, dispatch, reply, time out, stop | signals emitted inside calls; addresses used again; the cap |
| Batch controller (`batch/batch_controller.cpp`) | the current entry, segment and job, run and pause flags, a retry timer | add, remove, start, pause, resume, retry, advance, the results of jobs | a job that outlives its entry; store errors in the middle of a handler |
| Batch store (`batch/batch_store.cpp`) | the queue file and its temporary file | append, update, remove, recover, repair | crashes between file operations; a file that does not open for a moment; formats of older versions |
| Document parsing and assembly (`batch/batch_file_handler.cpp`, `batch_output_writer.cpp`) | none | cut, assemble, allocate output paths | nothing of a document may be lost; names |
| Download service (`download/`) | the active download, a generation, one worker thread | start, cancel, complete, shutdown | starts and completions queued across a shutdown; a thread object overwritten |
| Model flow and main window (`ui/shell/`, `ui/pages/`) | a picture of the services built from their signals | the buttons of banner, dialog and pages; the slots | the picture going stale; a result of an earlier job |
| Popup session and window (`popup/session_controller.cpp`, `popup_window.cpp`) | a session token, the job and its token, what the popup shows | hotkey, capture, submit, retry, dismiss, close by itself | a capture runs the event loop inside a handler |
| Hotkey and settings (`popup/mac/hotkey_manager.cpp`, `settings/settings.cpp`, `ui/shell/preferences_page.cpp`) | the registration, the session's idea of it, the page, the settings, the file | start, edit, toggle, save | a refused registration, a shortcut of which only a part is registered, a file cut short |

How they interact. The user-interface thread owns the windows, the popup and
the API server. One worker thread owns the inference service, the batch
controller and the download service (`worker_host.cpp`). A call that crosses
threads is either a critical section of a mutex, from any thread, or a handler
posted to the owner's event queue; results come back as posted signals. The
model host has its own runtime, dispatch and finalizer threads and calls its
observers from the dispatch thread; the inference service posts those calls to
its own thread. The download service runs one `std::thread` at a time.

What makes each part correct:

- *scheduler*: the size is exact, no class is passed over beyond its constant, every job is served;
- *host*: each admitted invocation is started, told its output in order and finished exactly once, for the strongest reason it was stopped for; the model is never loaded or unloaded under an invocation; shutdown completes, drains everything and is final; every blocking call returns;
- *runtime and text*: a text that is split is refused before its first delta or not at all, the context is never exceeded, and the result is what was delivered;
- *inference service*: an accepted cancellation reaches the invocation; no invocation outlives its record; every job and chat is answered; the trace guard returns to zero;
- *API*: one response per connection, its own, or none to a peer that left; the cap counts right; every connection is released;
- *batch*: the queue file is true at every moment a crash may choose, forgets nothing that was translated unless it did not open, and no job works behind the controller's back; a run settles; the document put together is the document that was read;
- *download service*: one worker at a time, never a joinable thread overwritten; the active flag is exact; nothing unverified stays at a model's path that the system lets go; every reserved download is answered unless a shutdown silences it;
- *window*: once all signals are heard it shows what the services do; a cancelled download never starts a load; no operation and no translation is shown for ever; the window never unloads the model under its own translation;
- *popup*: every running job belongs to the session that shows it; a result is shown with the source it was translated from; no loading state lasts;
- *hotkey*: session and settings name the same shortcut, its first chord is what is registered, and a failed change leaves a working one.

## The modules and the code

The order of the modules is the order in which they were built: the host first,
because everything else goes through it; the services that own tables of work;
the shell that composes them; what only uses them.

Two abstract specifications keep the state spaces apart: `InvocationContract`
(implemented by the host, used by the inference service) and `DownloadContract`
(implemented by the download service, used by the window). What the batch
controller, the API service, the popup and the Translate page may assume of
their jobs is what `EveryClientAnswered` and `TablesMatchWork` establish for
`InferenceService`: every accepted job is started, streams and ends once.

**InvocationScheduler** gives `push()` and `pop()` as operators on the value of
the queue: `Pushed`, `PopClass`, `PopJob`, `Popped`. The four C++ deques are a
function from work class to sequence; `since` is `pops_since_batch_`.
**SchedulerFairness** drives them with arbitrary arrivals and counts in
`waited` how often each class has been passed over.

**ModelHost** has one action per critical section of `state_mutex`,
`runtime_mutex` or `dispatch_mutex`, and one per access to an atomic stop
reason. `rpc`, `dpc`, `fpc` and `cpc` are the program counters of the runtime
thread, the dispatch thread, the finalizer and the callers; a blocking call is
`LoadCall`/`UnloadCall`, then `PushCommand`, then `LoadReturn`/`UnloadReturn`
once the promise in `reply` is kept. `execute()` is `BeginExecute` to
`PublishFinished`: start, stop check, deadline, admission, generation loop,
settlement. Times, usage counters and failure texts are left out.
**StopReasons** holds the ids, the priorities and the mapping of stop reasons to finish
reasons, shared with the services above. **InvocationContract** is what the
observer of an invocation may rely on; `ModelHost!Contract` maps the host to
it: `phase` is what the observer has heard, or "admitted" while the host still
holds a trace of the invocation.

**TextPieces** has the chunker, the sentences it works on and the UTF-8 stream
buffer as functions; **Generation** has `ModelRuntime::execute()` and
`LocalRuntime::generate()`: context and output limits, the split, one prompt
per chunk, the checks for stop around decode and behind each delta, and what is
kept of a partial output. Token counts are any function of the text
(`TokenCount`); the code does not know more of them either.

**InferenceService** keeps `jobs_`, `api_chats_` and the tickets. The service
thread takes posted handlers (`posted`, `spc`, `hand`) and runs `submitJob()`,
`handleCoreEvent()`, `finishJob()`, `doSubmitApiChat()`, `finishApiChat()` in
steps that end where a mutex is released or the host is called; cancelling
threads run `cancel()` of a job, whose ticket is a second mutex and whose
callback is called outside it, or of a chat. The host below is any that keeps
`InvocationContract`. A record that is erased is reset to its initial value, so
that states do not differ in what no longer exists.

**LocalApiService** has one action per slot of the service; `Tables` are its
hash tables, keyed by the address of a `QTcpSocket`, which a later connection
may take over. `disconnected()` emitted within `abort()` or
`disconnectFromHost()` is part of the action that calls them. A request is
incomplete, an error or one of the two routes; its JSON is left out.

**BatchController** runs on the worker thread; each of its writes is two steps
(the temporary file, the rename), because the process may stop in between
(`Crash`), and each may fail, with the consequence the enclosing handler gives
it (`write.mode`). `Advance` looks at one entry of the queue that
`advanceBatch()` has loaded (`entries`), `Finish...` are the stages of a result,
`Recover` and `Load` the startup, `SaveEntries` what the exports load and show,
`Refuse` the calls that end in an error.
A load throws (`LoadFailsInRun`), or returns the queue, or, when the file is
there and does not open, an empty queue without an error (`Loads`, `Read`): each
load of each handler may. A handler that writes after such a load renames a
queue made of nothing over the file (`write.opened` is FALSE); `lost` collects
the documents that this has left out. `MaxUnopened` bounds how often the file
does not open in one behaviour. `shown` is the table of the Batch page, with what
was heard last, and
`Shows` applies a snapshot to it as `BatchQueueModel::applySnapshot()` does:
`Kept` is its first loop, `Applied` (with `Updated`, one turn) its second.
**BatchDocument** has what BatchController takes for granted: how a text is
cut into segments and put together again, the format of the queue file as
records and escapes, the startup repairs of ids and paths, and the allocation
of output paths; documents are short sequences of tokens (newline, carriage
return, space, backslash, a number, an arrow, a word), because those are what
the parsers look at.

**DownloadService** has one action per critical section of `mutex_`, the
handlers of the owning thread (`opc`, `hand`) split where they give it up, and
the worker's steps: parse, open a hub, transfer, rename, compare the digest.
`overwritten` stands for the `std::terminate` of assigning to a joinable
`std::thread`. `StartsDuringShutdown` says whether another thread may call
`startDownload()` between the two critical sections of `shutdown()`; in the
application none does. **DownloadContract** is what its listeners may rely on.

**ModelShell** is the user-interface thread with the banner, the model page and
`ModelFlow` (one action per button and per slot, each slot with every refresh
it ends in), the `loadModel()` and `unloadModel()` handlers of the service
thread, and the two queues between them; downloads are those of
`DownloadContract`. **MainWindow** extends it with the Translate page, the
Batch page, the gate that guards an unload, and, on the service thread, the job
of the Translate page and the batch controller as far as the window hears of
them. It leaves out progress signals, the silence of downloads at shutdown,
the question asked before a delete (the deletion is one step), and the remove and
retry buttons of the Batch page (`mainwindow.cpp:1019-1035`), which post calls to
the controller and whose signals are of the kinds a run sends anyway.

**PopupSession** composes `SessionController` with `PopupWindow` and the posted
events of its jobs. `captureSelectedText()` runs the event loop, so a handler
can be suspended in it while others run; `frames` is the stack of suspended
calls, each of which only knows whether its token is still the session's, and
calls return innermost first. Dismissal is part of every action that hides the
window. Tokens, which only grow, are compared and never shown: they are kept as
the Booleans the comparisons yield.

**HotkeySettings** follows one shortcut and one switch through the preferences
page, the session, the registration and the settings file. A shortcut is a
sequence of chords, because the edit field records several; `setHotkey()`
registers the first of them (`First`) and keeps the whole. Other programs take
and release chords, also between the two registrations of `setHotkey()`
(`Grabs`). A write empties the file first; it may be left cut anywhere, in the
middle of a shortcut as well, which then reads as another one (`Written`, with
the constant `CutShort`). The table of the Mac backend is mapped; the Windows
backend has the same shape.

`MC*` modules extend a component for TLC; `*Proofs` modules hold theorems.
Operators named `Mut_...` precede the definition of the same name and are a
plausible mistake in it, which some property must notice; the specifications
never use them.

## The runs

| Run | Question | Bounds and why they are enough |
|---|---|---|
| `host_safety` | do counter, map, queues, lifecycle and stop reasons agree, and does the host implement its contract? | two invocations of a batch and an interactive class (preemption, a queue of one that is full, rollback), one blocking caller, one delta each |
| `host_liveness` | does everything return, finish and stop? | two callers that load, unload and shut down against one invocation with a deadline; loads and unloads may fail |
| `host_loadrace` | (violation) does a shutdown win against a load? | two callers |
| `download` | one worker, exact flag, verified files, answers, the contract | three downloads of two files over two hubs, one shutdown, a history of two: a download before, across and after the shutdown, one rejected beside an active one |
| `inference` | cancellation, ownership, guard, answers; does the admission queue count right and starve nobody? | one job (native, with a translation back, or batch), one chat, three invocations, one cancelling thread: the chat can preempt the job, the job can go through both halves; jobs do not share anything but the queue of handlers; for the queue, three ids that come again and room for two: every class can wait behind every other, the queue is refilled while a job waits, and the counters run past the constants they are compared with |
| `shell` | does the window agree with the services? | two models, one download, one batch segment, three clicks anywhere: a load, a switch or an unload during a translation or a run; a translation retried or cancelled while its end is on the way |
| `batch` | is the queue file true, kept and shown, through crashes? | two entries with two segments in all: an entry removed, retried or failed while the other runs; a crash at any step, any number of times; one load, any, that does not open the file: the documents it left out are met by the other one's run; the jobs are symmetric |
| `batch_settles` | does a run end? | the same two entries, or one of them and a load, any, that does not open the file (`OpensOrAlone`); states that differ in the table of the Batch page only (`shown`, which no step of a run reads) count as one |
| `batch_lost` | (violation) does a write keep the other documents? | as `batch` |
| `api` | is every connection answered once and released? | three connections over three addresses, two clients, one outstanding chat: one beyond each limit, and an address that is used again |
| `popup` | does the session own what it shows? | three hotkeys or retries: a capture nested in a capture and a third session that meets the late events of both |
| `texts` | does a text survive its way through queue and model? do session, registration and settings agree on the shortcut? | all documents of two of the tokens and of three line ends, escapes and carriage returns, and six longer ones; two entries of one name; texts of up to five code points in contexts of 2, 4 and 5 tokens and a model that does not name one, any pieces of ASCII and two-byte characters; five shortcuts: the default, an ordinary one, one of two chords that begins with the ordinary one, one without a modifier, and one the platform does not know; a cut makes one of another |

`MCInferenceService` and `MCTexts` put parts that share no state into one run
(`InferenceService` and `SchedulerFairness`; `BatchDocument`, `Generation` and
`HotkeySettings`): `part` is chosen at the start, and a behaviour takes steps of
that part alone, while the others rest in an initial state.

Deadlock is checked for `host_safety` (a host that has been shut down stutters
explicitly) and `host_loadrace`, and is off in the others, where the system rests
when its bounded supply of ids, clicks or requests is used up or nobody calls.

Several properties name two or three facts that only make sense together:
`CountInv`, `LifecycleInv`, `TablesMatchWork`, `OneDownloadAtATime`,
`JobsMatchQueue`, `DocumentInv`. Their parts are definitions of their own,
beside them.

`ReadyModelIsLoaded` is checked with one blocking caller. With
`UnloadMayFail = TRUE` and two callers it does not hold: `unload()` puts back
Ready after its failed command without looking whose Unloading it finds
(`model_host.cpp:570-573`). The application has one caller, and the runtime's
unload fails only through a test seam, so this is recorded here and is not a
finding.

## Fairness

Weak fairness, thread by thread: a thread with a step to take takes it, because
the operating system schedules it and no step holds a lock across a wait. For
the owner of an event queue this says that the event loop keeps running, and
that its timers fire. No fairness is put on callers, users, peers, arrivals,
cancellations, store errors or crashes. In detail:

- *Host*: the generation is bounded by `MaxDeltas`, which stands for the output budget the code enforces.
- *Downloads*: a transfer ends because the downloader sets limits on connecting and on slow transfers (`download.cpp:158-168`).
- *Inference service*: the fairness of the host is exactly what `EveryInvocationFinishes` establishes for `ModelHost`; that of the window, the API service and the popup, that jobs end, is what `EveryClientAnswered` establishes for `InferenceService`.
- *API*: the timers fire. A peer need not send, finish or close anything.
- *Batch*: the queue file does not open only finitely often (`MaxUnopened`, once in `batch_settles`): a file that fails to open again and again can keep a run looking for an entry it does not find. Strong fairness of the retry timer and of the end of an attempt. The event loop takes its events in order, so neither waits for ever behind the calls of a user who keeps clicking; and interactive work does not preempt every attempt at a segment. The last is an assumption about the user, not about the code: a popup used without a pause does hold the queue back.

## What is proved

For every set of ids, callers, models, downloads, jobs, chats, addresses and
shortcuts, every capacity and every number of presses, clicks and segments, from
the assumptions named in the modules (ids are positive numbers, the capacity is
positive, NoModel is not a model, the classes are work classes, jobs, chats and
invocations are different things, shortcuts are sequences of one or more chords,
the default is one whose first chord the platform knows, and, for the batch
queue alone, documents and jobs are finitely many):

- `SchedulerTypeAndSize`, `NobodyStarves`. Neither bound is inductive. `PassedOver`
  says for batch that the history never exceeds the counter `pop()` consults,
  and that the size is exact (else a pop might serve nothing). `RoundTrip` adds
  for the interactive classes how far the cursor still is from the class
  (`Distance`): pops counted plus pops to come stay within three, and where
  they reach three, too few interactive pops are left for a second batch job
  to fall due.
- `HostTypeOK`, from `TypeInv`: types need the control state, because the
  runtime thread indexes the stop reasons with the invocation in hand.
- `HostCounts`, `HostLifecycle`, `HostNeverBack`, from
  `IInv == TypeInv /\ FinalizerInv /\ FreshInv /\ CountInv /\ TransitionInv`.
  The parts need each other. The reset of the lifecycle after a failed load
  zeroes `active_invocations` without looking: the counter stays right only
  because nothing is active during a transition (`TransitionInv`), and nothing
  is active during a transition only because `unload()` read a right counter
  (`CountInv`). `OneRunPerInvocation` guarantees that a pop is not
  empty-handed, `FreshInv` that an id submitted is not one the map still
  holds, and `FinalizerInv` that whoever has been joined had emptied its queue.
- `HostImplementsContract`: `ModelHost` implements `InvocationContract`, from the
  same invariant with two more parts. `StreamInv` is about the events between
  the runtime thread and the observer, the one being delivered and those
  queued: in the order of their numbers, a started before the rest, a finished
  last and only of an invocation the map no longer holds. `PublisherInv` is
  about the two ends: what the observer has been told, and how far the runtime
  thread is with the invocation in hand.
- `HostReadyIsLoaded` (`ReadyModelIsLoaded`), from `OneCall(c)` besides. Its
  hypothesis is that one thread `c` calls `load()` and `unload()`, which is what
  the application does: the inference service calls both from its worker only
  (`inference_service.cpp:549`, `565`). With two callers and two models TLC finds
  the property false: `unload()` tidies up after the other caller's command.
  `CallInv` says what the caller and the runtime thread may be doing at the same
  time, `CommandInv` that the command in between is the caller's own, and
  `HeldInv` which model the runtime holds in each of these positions.
  Other threads may submit, cancel and shut down at any time.
- `TypeCorrect`, `FilesAtRest`, `ServiceImplementsContract` (downloads), from
  `IInv == TypeOK /\ PlaceInv /\ ToldInv /\ GenerationInv /\ RestingFilesVerified`:
  each download without an answer is queued, in hand or running, once; what its
  listeners have been told follows from the place; and a queued completion of
  the generation that lasts is that of the thread which is held. This is for any
  callers, those included that start a download in the middle of `shutdown()`.
- `OneDownload`, from `ReservationInv` besides: `active_` stands for one piece of
  work, and between the two critical sections of `shutdown()` there is none. Its
  hypothesis is `~StartsDuringShutdown`, without which the property is false
  (see [below](#where-code-and-documents-differ)); in the application the thread
  that starts downloads is the one that waits for `shutdown()` to return.
- `OutstandingCounted`, `OneResponse` (local API), from `IInv == TypeOK /\
  TableInv`. `SocketInv` lists what the tables may say of one address (unused,
  reading, waiting, replying, leaving); `ConnectionInv` ties a chat and the
  responses to the connection, also after its address is someone else's;
  `CountInv` has the counter as the cardinality of the waiting sockets, which
  are finitely many because the clients are: part of the invariant, since
  nothing says so of the addresses.
- `CancellationArrives`, `TablesAgree`, `WorkIsInOnePlace` (inference service).
  `PlaceInv`, a theorem itself, says that the work of a record is in exactly one
  of three places: the queue of handlers, the hand of the service thread, the
  host. `RecordInv` keeps the record until the answer, `HandleInv` says that a
  `cancel()` finds the handle of a running invocation or its installation is
  underway; and during the installation, `HandInv`, the invocation still runs
  or its completion is queued behind. Only together do they show that the
  `cancel()` that came too early is replayed on the right invocation. The guard is
  a count again: the cardinality of the chats the host works for.
- `SpecJobsMatchQueue`, `SpecDurableTruth`, `SpecCommittedStays` (batch), from
  `IInv == Scalars /\ FileInv /\ LossInv /\ PhaseInv /\ WalkInv /\ CurrentInv /\
  LiveInv`. The truth of the file is not inductive by itself: the rename makes
  the file of what was written, so the written queue must be true before
  (`FileInv`), and after a crash between write and rename a restart may promote
  it, so it may forget no translated segment either (`Keeps`), but for the
  document being removed, unless it was made from a file that did not open. A
  completed segment is true because the text collected is that of the current
  segment (`Collected`), which is so because the current job was submitted for
  it and no other job is heard (`Owned`); and because that segment is still
  pending, in the queue and in what is being written (`Target`), so that an
  outcome overwrites nothing; or its document was lost, and then for good
  (`LossInv`), so that no outcome is recorded at all. `WalkInv` says the same of
  the queue `advanceBatch()` goes through, which it loaded before it wrote: what
  is ahead of the loop is still so on disk, or lost. That the next job gets an
  id of its own needs one to be spare (`Spare`), a consequence of the bound on
  live jobs and of their being finitely many. `Succeeds` collects what every
  operation on the queue owes the invariant, and has a lemma for each: adding,
  retrying, removing, recovering, and giving a document or a segment its
  outcome.
- `SpecRowsCurrent` (the table of the Batch page), from `IInv` and `TableInv`. Each
  handler writes the queue and shows it once the write is renamed, but some
  writes of the scan are not shown: then the scan goes on, and shows the queue
  or reports an error before it waits (`ShowsLater`). A snapshot of a file that did
  not open empties the table (`Told`), whatever is in the queue: that is the third
  case of the property. For that the applied snapshot must be the
  table, whatever the table was. It is, as long as the rows that stay are in the
  order of the queue (`InOrder`): `applySnapshot()` keeps that order when it
  removes rows (`KeptInOrder`), after each turn of its second loop the first rows
  are those of the snapshot (`Settled`, `UpdatedRows`), and after the last there
  are no others (`AppliedIsSnapshot`). The two loops are recursive functions;
  induction over their turns is `SetInduction`, which states it for a set of
  numbers.
- `SpecWindowAgreesWithHost`, `SpecPageFollowsItsJob`,
  `SpecUnloadSparesTranslation`, `SpecCancelledNeverLoads` (window), from `IInv
  == Types /\ DownloadInv /\ JobInv /\ OrderInv /\ BusyInv /\ HostInv /\ FlowInv
  /\ BatchPicture`. The window knows only what it was told, so each part says
  what it will know once the queued signals are heard, and what the queued
  commands will make of it. `HostInv`: between two commands the last word on the
  way is a snapshot of the host as it is. `BusyInv`: after each prefix of the
  signals the page is busy exactly if the service was; it gives that no job ends
  unheard in between, which `JobInv` needs for one end of each job. `OrderInv`:
  a translation that is queued comes behind every unload, so an unload that was
  let go meets no job. `FlowInv`: whatever locks a row is on its way to an
  answer. `BatchPicture` is the hardest: the flags of a run follow repeated
  states and a late "finished" that may arrive behind the state of the next run.
  Either the last state on the way is that of the run (`RunShown`), or a command
  is queued that will change the run and report it (`ChangeIsPosted`); a
  "finished" is directly behind the state that ended its run (`FinishInv`); and
  all of it holds as long as no error was posted, as in the property.
- `ShortcutAlwaysAgrees`, `FailedChangesAreUndone`, from `IInv == ShortcutAgrees
  /\ BindingInv`. `BindingInv` says that what is registered is a chord the
  platform knows and no other program has: without it, asking for the previous
  shortcut again could fail for a reason of our own. The lemmas before it say
  what one call of `setHotkey()` and one reading of a file, cut or not, can
  yield. The agreement is of the whole shortcut between session and settings,
  and of its first chord with the registration.
- `SessionKeepsItsWork` (`SessionOwnsItsWork` of the popup), from `IInv ==
  TypeOK /\ QueueInv /\ CurrentInv /\ SessionOwnsItsWork`. A handler of the
  session looks at the token and the job of an event, never at whether the
  window was prepared for the job: pieces are from the source shown only because
  the start of a job precedes its pieces and its completion in the queue of
  events (`StartIsDue`), and the popup of a result is there for the same reason
  (`CurrentInv`). `QueueInv` is what the service promises of the queue; that the
  last event of a job is its "finished" keeps a finished session from being
  overwritten. The lemmas before the steps sort them into five kinds: those that
  leave the session waiting for nothing, those it does not hear of, stale
  events, submissions, and events posted.

`ModelHostProofs` extends both `ModelHost` and `SchedulerFairness`, which share
the variable `sch`: it begins with the lemmas about push and pop and ends with
the fairness of the queue (`QueueSpec`), which cites them. The inductive
invariants were model-checked, on the instances of the runs or smaller ones,
before they were proved.

Only model-checked:

- liveness under fairness, which is out of the prover's reach: `EveryJobServed`
  and the other properties with `~>` of the runs;
- `DocumentInv`, `OutputsStay`: `BatchDocument` parses, escapes and reads back
  whole texts with nested folds, and tells ids and paths apart by `ToString`, of
  which the prover knows nothing;
- `SplitFits`, `OutputIsDelivered`: `Generation` rests on `TextPieces`, whose
  `HardSplit` and `Drained` are RECURSIVE operators.

The runs compare what these compute with what is meant, over every input up to
a length.

## Where code and documents differ

Two disagreements have a run:

- `host_loadrace`: `load()` looks for a shutdown under one lock and publishes
  Ready under another (`model_host.cpp:511-532`); a shutdown in between is
  overwritten until the finalizer stops the host. The test
  `ShutdownWinsBlockedLoadWithoutPublishingReady` covers only a shutdown that
  came before the look.
- `batch_lost`: a queue file that exists and does not open
  (`batch_store.cpp:300-301`, `484-485`) is read as an empty queue, and the next
  write of any handler replaces the queue by what it made of that: every other
  document and its translated segments are gone, without an error and without
  the copy that an unreadable queue gets (`batch_store.h:61-62`), although the
  store promises "durable batch queue store with atomic persistence semantics"
  (`batch_store.h:10`). The header documents only that `load()` returns nothing
  (17-18). `CommittedStays` and `JobsMatchQueue` except the write and the
  documents it drops, `NothingLost` does not.

The models show these others; the properties except exactly them, and say so.

Services:

- `shutdown()` of the download service clears `active_` in a second critical
  section. With `StartsDuringShutdown = TRUE`, `OneDownloadAtATime` does not
  hold: a start in between is left running with the flag down, and the next
  start assigns to a joinable thread, which the class comment rules out for any
  thread. The application's only caller is blocked in `shutdown()` at that time.
- A file whose digest does not match and that the system does not let go stays
  at the model's path (`model_downloader.cpp:85-87` drops the error): the state
  "mismatched", which `RestingFilesVerified` allows.
- A cancel accepted between the check of the ticket (`inference_service.cpp:228`)
  and `finishJob()` is answered true, and the job finishes Completed.
- The API's cap counts connections: the chat of a connection that left has been
  told to stop, but may still occupy the model.

Batch:

- While the queue file does not open, the table of the Batch page is empty and no
  error says why (`batch_store.cpp:300-301`, `batch_controller.cpp:389-394`): the
  third case of `RowsCurrent`. A run that is waiting for a segment then ends or goes
  on without its document (`FinishNotFound`). `addFile()` reserves no output path of
  the documents it did not read; `OutputsStay` is about files that open.
- A submission that is refused reports its failure before `currentJobId_` is
  assigned (`batch_controller.cpp:673`): the event is ignored, and the run waits
  for nobody until it is paused. The same follows a `resume()` without a model
  while the end of a job is on its way (259-274). `RunSettlesUnlessStranded`
  excepts both.
- A failure of the startup recovery of any kind, a full disk included, is taken
  for corruption and moves a healthy queue aside (`batch_controller.cpp:111`).
  `CommittedStays` excepts this step.
- An entry migrated from an older version takes the plain output path without
  looking at the file system (`batch_controller.cpp:121-137`); entries that are
  added do look.

Window:

- A load that is refused because a model is there already disables the
  Translate page, and nothing enables it again while the host stays Ready. The
  banner offers that second load, because it is refreshed before the busy
  signal of the first one arrives.
- Start on the Batch page without a loaded model leaves the page in its running
  state until the controller says otherwise, and Pause on it then sets the
  window's flag as well. Any reported error clears the window's flag while the
  run goes on. That is why `WindowAgreesWithHost` speaks of the batch only
  as long as no error was heard.
- The gate of the unload ("an unload must never start while a live interactive
  or batch job owns the model", `mainwindow.cpp:615-616`) rests for the batch
  on what was last heard: the state `addFile()` repeats, a late `batchFinished`
  or an error overwrites the flag, and the unload goes out; the host refuses
  it. `UnloadSparesTranslation` is the half about the Translate page, which
  holds.

Popup and text:

- The countdown that closes an error banner runs on when Retry is pressed
  (`popup_window.cpp:548`): only the start of the new job stops it, and when it
  fires before, the popup is dismissed and the new job cancelled. The comment
  that a stale countdown must never hide the popup (281-283) speaks of the
  stream only. The session stays consistent, and no property forbids it.
- The clipboard is saved and put back by each capture
  (`clipboard_capture.cpp:61-114`); a capture within a capture may save, and put
  back, the copied selection of the outer one instead of the user's clipboard.
- The stream buffer waits for the rest of a character whose first byte it has
  seen (`utf8_stream_buffer.cpp:23`): bytes that are no UTF-8 hold back what
  follows them. `OutputIsDelivered` promises completeness for characters only.

Hotkey and settings:

- Only the edit field's own signal asks whether a shortcut is one chord with a
  modifier (`preferences_page.cpp:400-413`). One that was refused stays in the
  field, and any other control of the page hands it on: a naked key is registered
  and saved; of "Ctrl+K, C" the chord Ctrl+K is registered, while session, page
  and settings name both. The comments at `preferences_page.cpp:47-49` ("a naked
  letter would hijack typing everywhere. Single-sequence keys only") and
  `mainwindow.cpp:517` say otherwise. `RecordShortcut` then `ChangeOther` are the
  steps. No property says that only `Usable` shortcuts are taken; `ShortcutAgrees`
  speaks of the first chord for that reason.
- Pause in the tray switches off the session only; the next change of any
  preference switches it on again, while the tray's mark stays.
- The constructor saves the settings outside any `try` when the saved shortcut
  had to be reverted (`mainwindow.cpp:348`); a file that does not open then ends
  the start (`StartupThrows`).
- The settings file is emptied and written in place. A crash or a full disk
  loses what is behind the cut; a `hotkey=` line cut within its value is read as
  another shortcut, and one cut behind its `=` as no shortcut at all, and then
  the program starts with the default registered and an empty field, although no
  shortcut is never saved on purpose.

## What is not modelled

- Catalog, platform profile, resolver, languages: tables and pure lookups.
- Text beyond the chunker and the stream buffer: `sanitize_utf8()`, the ICU
  boundaries and `libs/sentbreak` (data of the sentence function), prompts, the
  grammar of HTTP headers and JSON bodies: pure functions of text without state.
- Numeric code and third-party libraries: llama.cpp, sampling, curl, hashing.
- Presentation: theme, layout, overlays, navigation, progress, the geometry of
  the popup, formatting of tables.
- The order in which the process shuts its services down (`main.cpp`,
  `worker_host.cpp`), single instance, logging: operating-system calls in one
  fixed order; each service's own `shutdown()` is in its module.
- Settings other than the shortcut and the switch, and the model paths with
  their migration: independent keys of the same file.
- Exports of finished documents (`saveEntry`, `saveEntriesToDirectory`): the copies
  they write. What they load and show is in (`SaveEntries`).
- A queue file that opens and then fails in the middle of being read (the store
  does not look at the stream afterwards), and a quarantine whose rename fails:
  the first would be a file cut short at any place.
- Temporary files of downloads that cannot be removed (`download.cpp:255-271`,
  `428`).
- Remove and retry on the Batch page, as far as the window is concerned; the
  controller's side is in `BatchController`.
- The Escape key of the popup beyond that it dismisses, and the Windows hotkey
  window.
- The bounded histories of terminal states, except in the download service.
