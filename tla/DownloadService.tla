-------------------------- MODULE DownloadService --------------------------
(***************************************************************************)
(* DownloadService and the downloader it drives.                           *)
(*                                                                         *)
(* Any thread may call startDownload(), cancel() and setDownloadRequest(): *)
(* each is one critical section of mutex_, startDownload() also posts a    *)
(* handler to the owning thread.  The owning thread runs the posted        *)
(* handlers in order; a handler is split where it gives mutex_ up.  One    *)
(* worker thread at a time, held by the std::thread download_thread_,      *)
(* transfers a file, renames it into place and compares its digest.        *)
(***************************************************************************)
EXTENDS Integers, Sequences, FiniteSets

CONSTANTS
    Download,        \* bound: the ids there are for downloads
    Request,         \* what can be downloaded: a remote file and its local path
    NoRequest,       \* no request
    Hubs,            \* how many hubs a request tries in turn
    HistoryLimit,    \* kTerminalHistoryLimit
    MaxShutdowns,    \* bound: how often shutdown() is called
    StartsDuringShutdown  \* may another thread call startDownload() while
                          \* shutdown() is between its critical sections?

ASSUME DownloadAssumption == Download \subseteq Nat \ {0}
ASSUME NoRequestAssumption == NoRequest \notin Request
ASSUME HubsAssumption == Hubs \in Nat \ {0}
ASSUME HistoryLimitAssumption == HistoryLimit \in Nat \ {0}
ASSUME MaxShutdownsAssumption == MaxShutdowns \in Nat
ASSUME StartsDuringShutdownAssumption == StartsDuringShutdown \in BOOLEAN

VARIABLES
    \* mutex_
    nextId,      \* next_download_id_
    active,      \* active_
    generation,  \* generation_
    downloads,   \* downloads_: the ids with a record
    record,      \* the record of each id
    history,     \* terminal_downloads_ in terminal_download_order_
    request,     \* request_
    \* the owning thread
    posted,      \* its event queue
    opc,         \* where the handler in hand is
    hand,        \* the handler in hand
    \* download_thread_ and the thread it holds
    joinable,    \* download_thread_.joinable()
    worker,      \* the download the thread runs: id, generation, step, hub
    overwritten, \* a joinable std::thread was assigned to: std::terminate
    \* the file system
    temp,        \* the requests whose ".download" file exists
    file,        \* what is at the local path of each request
    \* history variables
    told,        \* the last signal each id was the subject of
    answer,      \* the state its downloadFinished carried
    shutdowns

locked  == <<nextId, active, generation, downloads, record, history, request>>
owner   == <<posted, opc, hand>>
thread  == <<joinable, worker, overwritten>>
disk    == <<temp, file>>
signals == <<told, answer>>

vars == <<locked, owner, thread, disk, signals, shutdowns>>

-----------------------------------------------------------------------------
State == {"Pending", "Running", "Completed", "Cancelled", "Failed"}

Outcome == {"Completed", "Cancelled", "Failed"}

NoId == 0

\* DownloadRecord.  token: whether cancel_token is set; cancelled: what it says.
Record == [state : State, request : Request \cup {NoRequest}, token : BOOLEAN,
           cancelled : BOOLEAN, asked : BOOLEAN]

NewRecord(s, q) == [state |-> s, request |-> q, token |-> FALSE,
                    cancelled |-> FALSE, asked |-> FALSE]

\* What stands for the record of an id downloads_ does not hold.
NoRecord == NewRecord("Pending", NoRequest)

\* The handlers posted to the owning thread.
Handler == [kind : {"none", "begin", "reject", "complete"},
            id : Download \cup {NoId}, generation : Nat,
            outcome : Outcome]

NoHandler        == [kind |-> "none", id |-> NoId, generation |-> 0, outcome |-> "Failed"]
Begin(i, g)      == [kind |-> "begin", id |-> i, generation |-> g, outcome |-> "Failed"]
Reject(i)        == [kind |-> "reject", id |-> i, generation |-> 0, outcome |-> "Failed"]
Complete(i, g, r) == [kind |-> "complete", id |-> i, generation |-> g, outcome |-> r]

\* The worker thread.  "done": it has posted its completion and ends.
Worker == [id : Download \cup {NoId}, generation : Nat, hub : 0 .. Hubs,
           step : {"none", "parse", "transfer", "verify", "done"}]

NoWorker == [id |-> NoId, generation |-> 0, hub |-> 0, step |-> "none"]

TypeOK ==
    /\ nextId \in Nat /\ active \in BOOLEAN /\ generation \in Nat
    /\ downloads \subseteq Download
    /\ record \in [Download -> Record]
    /\ history \in Seq(Download \X Outcome) /\ Len(history) <= HistoryLimit
    /\ request \in Request
    /\ posted \in Seq(Handler) /\ hand \in Handler
    /\ opc \in {"idle", "begin", "spawn", "reject", "join", "clear"}
    /\ joinable \in BOOLEAN /\ worker \in Worker /\ overwritten \in BOOLEAN
    /\ temp \subseteq Request
    /\ file \in [Request -> {"absent", "unverified", "verified", "mismatched"}]
    /\ told \in [Download -> {"unknown", "reserved", "started", "finished"}]
    /\ answer \in [Download -> Outcome \cup {"none"}]
    /\ shutdowns \in 0 .. MaxShutdowns

Init ==
    /\ nextId = 1 /\ active = FALSE /\ generation = 0
    /\ downloads = {} /\ history = <<>>
    /\ request \in Request
    /\ record = [i \in Download |-> NoRecord]
    /\ posted = <<>> /\ opc = "idle" /\ hand = NoHandler
    /\ joinable = FALSE /\ worker = NoWorker /\ overwritten = FALSE
    /\ temp = {} /\ file = [q \in Request |-> "absent"]
    /\ told = [i \in Download |-> "unknown"]
    /\ answer = [i \in Download |-> "none"]
    /\ shutdowns = 0

-----------------------------------------------------------------------------
(* Calls from any thread.                                                  *)

\* rememberTerminalDownload(): the newest HistoryLimit outcomes.
Remembered(i, r) ==
    LET h == Append(history, <<i, r>>)
    IN  IF Len(h) > HistoryLimit THEN Tail(h) ELSE h

Erase(i) ==
    /\ downloads' = downloads \ {i}
    /\ record' = [record EXCEPT ![i] = NoRecord]

SetDownloadRequest(q) ==
    /\ ~overwritten
    /\ request' = q
    /\ UNCHANGED <<nextId, active, generation, downloads, record, history,
                   owner, thread, disk, signals, shutdowns>>

\* The owning thread is inside shutdown().
ShuttingDown == opc \in {"join", "clear"}

\* The critical section of startDownload(): the id, its record, the reservation.
Reservation(i) ==
    /\ ~overwritten
    /\ i = nextId /\ i \in Download
    /\ nextId' = nextId + 1
    /\ downloads' = downloads \cup {i}
    /\ record' = [record EXCEPT ![i] = NewRecord(IF active THEN "Failed" ELSE "Pending", request)]
    /\ active' = TRUE
    /\ told' = [told EXCEPT ![i] = "reserved"]
    /\ UNCHANGED <<generation, history, request, thread, disk, answer, shutdowns>>

FirstHandler(i) == IF active THEN Reject(i) ELSE Begin(i, generation)

\* From another thread: the rest is posted.
StartDownload(i) ==
    /\ ShuttingDown => StartsDuringShutdown
    /\ Reservation(i)
    /\ posted' = Append(posted, FirstHandler(i))
    /\ UNCHANGED <<opc, hand>>

\* From a slot on the owning thread: the rest follows at once.
StartDownloadInline(i) ==
    /\ opc = "idle"
    /\ Reservation(i)
    /\ hand' = FirstHandler(i)
    /\ opc' = FirstHandler(i).kind
    /\ UNCHANGED posted

Cancel(i) ==
    /\ ~overwritten
    /\ i \in downloads
    /\ record' = IF record[i].token
                   THEN [record EXCEPT ![i].cancelled = TRUE]
                   ELSE [record EXCEPT ![i].asked = TRUE]
    /\ UNCHANGED <<nextId, active, generation, downloads, history, request,
                   owner, thread, disk, signals, shutdowns>>

-----------------------------------------------------------------------------
(* Handlers of the owning thread.                                          *)

TakeHandler ==
    /\ ~overwritten
    /\ opc = "idle" /\ posted # <<>>
    /\ Head(posted).kind \in {"begin", "reject"}
    /\ hand' = Head(posted)
    /\ posted' = Tail(posted)
    /\ opc' = Head(posted).kind
    /\ UNCHANGED <<locked, thread, disk, signals, shutdowns>>

\* Mistake: a start that a shutdown has superseded begins all the same.
Mut_BeginDownload ==
    /\ opc = "begin"
    /\ record' = [record EXCEPT ![hand.id].state = "Running",
                                ![hand.id].token = TRUE,
                                ![hand.id].cancelled = @ \/ record[hand.id].asked]
    /\ generation' = generation + 1
    /\ hand' = [hand EXCEPT !.generation = generation + 1]
    /\ opc' = "spawn"
    /\ UNCHANGED <<nextId, active, downloads, history, request, posted,
                   thread, disk, signals, shutdowns>>

\* Mistake: a superseded start returns without rejecting its download.
Mut_BeginDownloadSilent ==
    /\ opc = "begin"
    /\ IF hand.generation # generation
         THEN /\ opc' = "idle" /\ hand' = NoHandler
              /\ UNCHANGED <<generation, record>>
         ELSE /\ record' = [record EXCEPT ![hand.id].state = "Running",
                                          ![hand.id].token = TRUE,
                                          ![hand.id].cancelled = @ \/ record[hand.id].asked]
              /\ generation' = generation + 1
              /\ hand' = [hand EXCEPT !.generation = generation + 1]
              /\ opc' = "spawn"
    /\ UNCHANGED <<nextId, active, downloads, history, request, posted,
                   thread, disk, signals, shutdowns>>

\* beginDownload(), its critical section.
BeginDownload ==
    /\ opc = "begin"
    /\ IF hand.generation # generation
         THEN /\ opc' = "reject"
              /\ UNCHANGED <<hand, generation, record>>
         ELSE /\ record' = [record EXCEPT ![hand.id].state = "Running",
                                          ![hand.id].token = TRUE,
                                          ![hand.id].cancelled = @ \/ record[hand.id].asked]
              /\ generation' = generation + 1
              /\ hand' = [hand EXCEPT !.generation = generation + 1]
              /\ opc' = "spawn"
    /\ UNCHANGED <<nextId, active, downloads, history, request, posted,
                   thread, disk, signals, shutdowns>>

\* std::thread is assigned, then downloadStarted is emitted.
SpawnWorker ==
    /\ opc = "spawn" /\ ~overwritten
    /\ IF joinable
         THEN /\ overwritten' = TRUE
              /\ UNCHANGED <<joinable, worker, told, opc, hand>>
         ELSE /\ joinable' = TRUE
              /\ worker' = [id |-> hand.id, generation |-> hand.generation,
                            hub |-> 0, step |-> "parse"]
              /\ told' = [told EXCEPT ![hand.id] = "started"]
              /\ opc' = "idle" /\ hand' = NoHandler
              /\ UNCHANGED overwritten
    /\ UNCHANGED <<locked, posted, disk, answer, shutdowns>>

\* completeDownload(i, g, r): one critical section, then downloadFinished.
CompleteDownload(i, g, r) ==
    /\ Erase(i)
    /\ history' = Remembered(i, r)
    /\ IF g # generation
         THEN UNCHANGED <<joinable, worker, active, signals>>
         ELSE /\ joinable' = FALSE /\ worker' = NoWorker
              /\ active' = FALSE
              /\ told' = [told EXCEPT ![i] = "finished"]
              /\ answer' = [answer EXCEPT ![i] = r]
    /\ UNCHANGED <<nextId, generation, request, overwritten, disk, shutdowns>>

\* The thread could not be created.
SpawnFails ==
    /\ opc = "spawn" /\ ~joinable
    /\ CompleteDownload(hand.id, hand.generation, "Failed")
    /\ opc' = "idle" /\ hand' = NoHandler
    /\ UNCHANGED posted

\* The posted completion of a worker.  The join reaps a thread that has ended.
WorkerCompletion ==
    /\ ~overwritten
    /\ opc = "idle" /\ posted # <<>> /\ Head(posted).kind = "complete"
    /\ LET h == Head(posted)
       IN  CompleteDownload(h.id, h.generation, h.outcome)
    /\ posted' = Tail(posted)
    /\ UNCHANGED <<opc, hand>>

\* rejectDownload()
RejectDownload ==
    /\ opc = "reject"
    /\ Erase(hand.id)
    /\ history' = Remembered(hand.id, "Failed")
    /\ told' = [told EXCEPT ![hand.id] = "finished"]
    /\ answer' = [answer EXCEPT ![hand.id] = "Failed"]
    /\ opc' = "idle" /\ hand' = NoHandler
    /\ UNCHANGED <<nextId, active, generation, request, posted, thread, disk, shutdowns>>

\* Mistake: the generation stays.
Mut_Shutdown ==
    /\ ~overwritten
    /\ opc = "idle"
    /\ shutdowns < MaxShutdowns
    /\ shutdowns' = shutdowns + 1
    /\ record' = [i \in Download |->
                    IF i \in downloads
                      THEN [record[i] EXCEPT !.cancelled = @ \/ record[i].token, !.asked = TRUE]
                      ELSE record[i]]
    /\ opc' = "join"
    /\ UNCHANGED <<nextId, active, generation, downloads, history, request, posted, hand,
                   thread, disk, signals>>

\* shutdown(): the first critical section.
Shutdown ==
    /\ ~overwritten
    /\ opc = "idle"
    /\ shutdowns < MaxShutdowns
    /\ shutdowns' = shutdowns + 1
    /\ generation' = generation + 1
    /\ record' = [i \in Download |->
                    IF i \in downloads
                      THEN [record[i] EXCEPT !.cancelled = @ \/ record[i].token, !.asked = TRUE]
                      ELSE record[i]]
    /\ opc' = "join"
    /\ UNCHANGED <<nextId, active, downloads, history, request, posted, hand,
                   thread, disk, signals>>

ShutdownJoins ==
    /\ opc = "join"
    /\ joinable => worker.step = "done"
    /\ joinable' = FALSE /\ worker' = NoWorker
    /\ opc' = "clear"
    /\ UNCHANGED <<locked, posted, hand, overwritten, disk, signals, shutdowns>>

ShutdownClears ==
    /\ opc = "clear"
    /\ active' = FALSE
    /\ opc' = "idle"
    /\ UNCHANGED <<nextId, generation, downloads, record, history, request, posted, hand,
                   thread, disk, signals, shutdowns>>

-----------------------------------------------------------------------------
(* The worker: ProductionModelDownloader::download().                      *)

Token == record[worker.id].cancelled

Wanted == record[worker.id].request

WorkerGoto(step, hub) == worker' = [worker EXCEPT !.step = step, !.hub = hub]

\* The result is posted as the last action of the thread.
WorkerReturns(r) ==
    /\ WorkerGoto("done", worker.hub)
    /\ posted' = Append(posted, Complete(worker.id, worker.generation, r))

\* The request has no digest or cannot be parsed.
WorkerRefuses ==
    /\ worker.step = "parse" /\ ~overwritten
    /\ WorkerReturns("Failed")
    /\ UNCHANGED <<locked, opc, hand, joinable, overwritten, disk, signals, shutdowns>>

\* download_from_hub(): a fresh temporary file is opened.
WorkerOpensHub ==
    /\ worker.step = "parse" /\ ~overwritten
    /\ worker.hub < Hubs
    /\ temp' = temp \cup {Wanted}
    /\ WorkerGoto("transfer", worker.hub + 1)
    /\ UNCHANGED <<locked, owner, joinable, overwritten, file, signals, shutdowns>>

\* The transfer was aborted by the progress callback: no other hub is tried.
WorkerAborts ==
    /\ worker.step = "transfer" /\ ~overwritten
    /\ Token
    /\ temp' = temp \ {Wanted}
    /\ WorkerReturns("Cancelled")
    /\ UNCHANGED <<locked, opc, hand, joinable, overwritten, file, signals, shutdowns>>

\* The transfer failed: the next hub, if there is one.
WorkerTransferFails ==
    /\ worker.step = "transfer" /\ ~overwritten
    /\ temp' = temp \ {Wanted}
    /\ IF worker.hub < Hubs
         THEN WorkerGoto("parse", worker.hub) /\ UNCHANGED posted
         ELSE WorkerReturns("Failed")
    /\ UNCHANGED <<locked, opc, hand, joinable, overwritten, file, signals, shutdowns>>

\* The temporary file is renamed into place.
WorkerRenames ==
    /\ worker.step = "transfer" /\ ~overwritten
    /\ temp' = temp \ {Wanted}
    /\ file' = [file EXCEPT ![Wanted] = "unverified"]
    /\ WorkerGoto("verify", worker.hub)
    /\ UNCHANGED <<locked, owner, joinable, overwritten, signals, shutdowns>>

\* Mistake: a file with a wrong digest stays.
Mut_WorkerVerifies ==
    /\ worker.step = "verify" /\ ~overwritten
    /\ \/ /\ file' = [file EXCEPT ![Wanted] = "verified"]
          /\ WorkerReturns("Completed")
       \/ /\ file' = file
          /\ WorkerReturns("Failed")
    /\ UNCHANGED <<locked, opc, hand, joinable, overwritten, temp, signals, shutdowns>>

\* The digest of the transferred bytes matches, or the file is removed; nobody
\* looks at the error when it cannot be.
WorkerVerifies ==
    /\ worker.step = "verify" /\ ~overwritten
    /\ \/ /\ file' = [file EXCEPT ![Wanted] = "verified"]
          /\ WorkerReturns("Completed")
       \/ /\ \E left \in {"absent", "mismatched"} : file' = [file EXCEPT ![Wanted] = left]
          /\ WorkerReturns("Failed")
    /\ UNCHANGED <<locked, opc, hand, joinable, overwritten, temp, signals, shutdowns>>

WorkerStep == \/ WorkerRefuses \/ WorkerOpensHub \/ WorkerAborts
              \/ WorkerTransferFails \/ WorkerRenames \/ WorkerVerifies

OwnerStep == \/ TakeHandler \/ BeginDownload \/ SpawnWorker \/ SpawnFails
             \/ WorkerCompletion \/ RejectDownload \/ ShutdownJoins \/ ShutdownClears

CallerStep == \/ \E q \in Request : SetDownloadRequest(q)
              \/ \E i \in Download : StartDownload(i) \/ StartDownloadInline(i) \/ Cancel(i)
              \/ Shutdown

Next == CallerStep \/ OwnerStep \/ WorkerStep

\* Both threads run whenever they can; nobody has to call anything.
Fairness == WF_vars(OwnerStep) /\ WF_vars(WorkerStep)

Spec == Init /\ [][Next]_vars

FairSpec == Spec /\ Fairness

-----------------------------------------------------------------------------
\* The thread object is never assigned to while it holds a thread.
WorkerNeverOverwritten == ~overwritten

\* The work that is reserved under the current generation: a start still queued
\* or in hand, or a worker whose completion has not been handled.
Reserved ==
    \/ \E k \in 1 .. Len(posted) : posted[k].kind = "begin" /\ posted[k].generation = generation
    \/ opc \in {"begin", "spawn"} /\ hand.generation = generation
    \/ joinable /\ worker.generation = generation

\* At most one download is active (download_service.h:28-30): active_ is set
\* exactly while there is reserved work.  It never stays behind and refuses every
\* later download, and never falls while a worker runs, when the next start would
\* end the process by assigning to a joinable thread (beginDownload()).
OneDownloadAtATime ==
    /\ TypeOK
    /\ WorkerNeverOverwritten
    /\ ~ShuttingDown => (active <=> Reserved)

\* What is at a local path was compared with its digest, except while the worker
\* that renamed it there is about to do so: it matches, or the system has refused
\* to remove it.  No temporary file is left behind.
RestingFilesVerified ==
    /\ \A q \in Request : file[q] = "unverified" => worker.step = "verify" /\ Wanted = q
    /\ \A q \in temp : worker.step = "transfer" /\ Wanted = q

\* A download that was started under a generation that is over is silenced.
Heard(i) == IF told[i] = "started" /\ ~(joinable /\ worker.id = i /\ worker.generation = generation)
              THEN "silenced"
              ELSE told[i]

Contract == INSTANCE DownloadContract
              WITH phase <- [i \in Download |-> Heard(i)], outcome <- answer

\* The service answers as its class comment says, for any callers.
ServiceKeepsContract == Contract!Spec

\* A reserved download is answered, or a shutdown has silenced it.
EveryDownloadAnswered ==
    \A i \in Download : (told[i] = "reserved") ~> (Heard(i) \in {"finished", "silenced"})

-----------------------------------------------------------------------------
(* Where the work is.  The inductive invariants build on it.               *)

InHand == opc \in {"begin", "spawn", "reject"}

Busy == worker.step \in {"parse", "transfer", "verify"}

\* Each download without an answer is in one place: queued, in hand or running.
PlaceInv ==
    /\ joinable <=> worker.step # "none"
    /\ \A i \in downloads : i < nextId /\ record[i].request \in Request
    /\ \A k \in 1 .. Len(posted) : posted[k].kind # "none" /\ posted[k].id \in downloads
    /\ \A j, k \in 1 .. Len(posted) : j # k => posted[j].id # posted[k].id
    /\ InHand => /\ hand.id \in downloads
                 /\ \A k \in 1 .. Len(posted) : posted[k].id # hand.id
    /\ Busy => /\ worker.id \in downloads
               /\ \A k \in 1 .. Len(posted) : posted[k].id # worker.id

\* What its listeners have been told follows from the place.
ToldInv ==
    /\ \A i \in Download : i >= nextId => told[i] = "unknown"
    /\ \A k \in 1 .. Len(posted) :
          told[posted[k].id] = IF posted[k].kind = "complete" THEN "started" ELSE "reserved"
    /\ InHand => told[hand.id] = "reserved"
    /\ joinable => worker.id \in Download /\ told[worker.id] = "started"

\* A generation ends with the handler that begins the next, and a completion of
\* the generation that lasts is that of the thread which is held.
GenerationInv ==
    /\ \A k \in 1 .. Len(posted) : posted[k].generation <= generation
    /\ hand.generation <= generation /\ worker.generation <= generation
    /\ opc = "spawn" => hand.generation = generation
    /\ opc = "join" /\ joinable => worker.generation # generation
    /\ \A k \in 1 .. Len(posted) :
          posted[k].kind = "complete" /\ posted[k].generation = generation
             => /\ joinable /\ worker.step = "done"
                /\ worker.id = posted[k].id /\ worker.generation = generation

\* What is reserved is one piece of work: a start queued, in hand, or running.
\* Between the two critical sections of shutdown() nothing is reserved.
QueuedStart(k) == posted[k].kind = "begin" /\ posted[k].generation = generation
AnyQueued   == \E k \in 1 .. Len(posted) : QueuedStart(k)
OneQueued   == \A j, k \in 1 .. Len(posted) : QueuedStart(j) /\ QueuedStart(k) => j = k
StartInHand == opc \in {"begin", "spawn"} /\ hand.generation = generation
RunsNow     == joinable /\ worker.generation = generation

ReservationInv ==
    /\ ~overwritten
    /\ ~ShuttingDown => (active <=> AnyQueued \/ StartInHand \/ RunsNow)
    /\ OneQueued
    /\ AnyQueued => ~StartInHand /\ ~RunsNow
    /\ StartInHand => ~RunsNow
    /\ ShuttingDown => ~AnyQueued /\ ~StartInHand /\ ~RunsNow
    /\ joinable /\ opc # "join" => RunsNow
    /\ opc = "clear" => ~joinable
=============================================================================
