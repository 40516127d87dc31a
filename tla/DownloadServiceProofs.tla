------------------------ MODULE DownloadServiceProofs ------------------------
(***************************************************************************)
(* The download service for any set of ids and requests and any number of  *)
(* hubs and shutdowns.  In order: types; the inductive invariant that says *)
(* in which one place each unanswered download is, what its listeners have *)
(* been told of it and under which generation it was begun; the files; the *)
(* refinement of DownloadContract; and, for callers that do not start a    *)
(* download while shutdown() runs, the reservation.                        *)
(***************************************************************************)
EXTENDS DownloadService, TLAPS

-----------------------------------------------------------------------------
(* Small facts about the data.                                             *)

(* Every constructor of a handler builds a handler.                        *)
LEMMA HandlerTypes ==
    /\ NoHandler \in Handler
    /\ \A i \in Download : Reject(i) \in Handler
    /\ \A i \in Download, g \in Nat : Begin(i, g) \in Handler
    /\ \A i \in Download \cup {NoId}, g \in Nat, r \in Outcome : Complete(i, g, r) \in Handler
BY DEF Handler, NoHandler, Reject, Begin, Complete, NoId, Outcome

(* Every constructor of a record builds a record.                          *)
LEMMA RecordTypes ==
    /\ \A s \in State, q \in Request \cup {NoRequest} : NewRecord(s, q) \in Record
    /\ NoRecord \in Record
BY DEF Record, NewRecord, NoRecord, State

(* An appended handler is the last, the others stay where they are.        *)
LEMMA AppendFacts ==
    ASSUME NEW S, NEW q \in Seq(S), NEW e \in S, NEW p, p = Append(q, e)
    PROVE  /\ p \in Seq(S) /\ Len(q) \in Nat /\ Len(p) = Len(q) + 1
           /\ p[Len(q) + 1] = e
           /\ \A k \in 1..Len(q) : p[k] = q[k] /\ k \in 1..Len(p)
           /\ \A k \in 1..Len(p) : k = Len(q) + 1 \/ k \in 1..Len(q)
OBVIOUS

(* Taking the first handler moves the others up by one.                    *)
LEMMA TailFacts ==
    ASSUME NEW S, NEW q \in Seq(S), q # <<>>, NEW p, p = Tail(q)
    PROVE  /\ p \in Seq(S) /\ Len(q) \in Nat /\ Len(p) = Len(q) - 1
           /\ Head(q) = q[1] /\ 1 \in 1..Len(q) /\ Head(q) \in S
           /\ \A k \in 1..Len(p) : p[k] = q[k + 1] /\ k + 1 \in 2..Len(q) /\ k + 1 \in 1..Len(q)
<1>1. Len(q) \in Nat /\ Len(q) >= 1 /\ Len(p) = Len(q) - 1 /\ p \in Seq(S)
  OBVIOUS
<1>2. \A k \in 1..Len(p) : p[k] = q[k + 1]
  OBVIOUS
<1> QED
  BY <1>1, <1>2

(* The history stays within its limit.                                     *)
LEMMA RememberedType ==
    ASSUME NEW i \in Download, NEW r \in Outcome,
           history \in Seq(Download \X Outcome), Len(history) <= HistoryLimit
    PROVE  Remembered(i, r) \in Seq(Download \X Outcome) /\ Len(Remembered(i, r)) <= HistoryLimit
<1> DEFINE h == Append(history, <<i, r>>)
<1> <<i, r>> \in Download \X Outcome
  OBVIOUS
<1>1. h \in Seq(Download \X Outcome) /\ Len(h) = Len(history) + 1 /\ Len(history) \in Nat /\ h # <<>>
  BY AppendFacts
<1>2. Tail(h) \in Seq(Download \X Outcome) /\ Len(Tail(h)) = Len(h) - 1
  BY <1>1
<1> QED
  BY <1>1, <1>2, HistoryLimitAssumption DEF Remembered

-----------------------------------------------------------------------------
(* Types.                                                                  *)

LEMMA TypeInit == Init => TypeOK
<1> SUFFICES ASSUME Init PROVE TypeOK
  OBVIOUS
<1>1. NoWorker \in Worker /\ 0 <= HistoryLimit /\ 0 \in 0..MaxShutdowns
  BY HubsAssumption, HistoryLimitAssumption, MaxShutdownsAssumption DEF Worker, NoWorker
<1>2. /\ worker \in Worker /\ hand \in Handler /\ record \in [Download -> Record]
      /\ posted \in Seq(Handler) /\ history \in Seq(Download \X Outcome) /\ Len(history) = 0
  BY <1>1, HandlerTypes, RecordTypes DEF Init
<1> QED
  BY <1>1, <1>2 DEF Init, TypeOK

(* A record stays a record when the marks of a cancel are set.             *)
LEMMA MarkedType ==
    ASSUME record \in [Download -> Record], NEW i \in Download
    PROVE  /\ [record[i] EXCEPT !.cancelled = TRUE] \in Record
           /\ [record[i] EXCEPT !.asked = TRUE] \in Record
           /\ [record[i] EXCEPT !.cancelled = @ \/ record[i].token, !.asked = TRUE] \in Record
           /\ [record[i] EXCEPT !.state = "Running", !.token = TRUE,
                                !.cancelled = @ \/ record[i].asked] \in Record
           /\ record[i] \in Record
<1>1. record[i] \in Record
  OBVIOUS
<1> QED
  BY <1>1 DEF Record, State

(* The record of a download that begins.                                   *)
LEMMA BegunRecord ==
    ASSUME record \in [Download -> Record], NEW i \in Download, NEW r,
           r = [record EXCEPT ![i].state = "Running", ![i].token = TRUE,
                              ![i].cancelled = @ \/ record[i].asked]
    PROVE  /\ r \in [Download -> Record]
           /\ \A j \in Download : r[j].request = record[j].request
<1>1. r = [record EXCEPT ![i] = [record[i] EXCEPT !.state = "Running", !.token = TRUE,
                                     !.cancelled = @ \/ record[i].asked]]
  OBVIOUS
<1>2. [record[i] EXCEPT !.state = "Running", !.token = TRUE,
                        !.cancelled = @ \/ record[i].asked] \in Record
  BY MarkedType
<1>3. \A j \in Download : record[j] \in Record
  OBVIOUS
<1> QED
  BY <1>1, <1>2, <1>3 DEF Record

(* What a completion does to the service.                                  *)
LEMMA CompletionType ==
    ASSUME TypeOK, NEW i \in Download, NEW g, NEW r \in Outcome, CompleteDownload(i, g, r)
    PROVE  /\ downloads' \subseteq Download /\ record' \in [Download -> Record]
           /\ history' \in Seq(Download \X Outcome) /\ Len(history') <= HistoryLimit
           /\ active' \in BOOLEAN /\ joinable' \in BOOLEAN /\ worker' \in Worker
           /\ told' \in [Download -> {"unknown", "reserved", "started", "finished"}]
           /\ answer' \in [Download -> Outcome \cup {"none"}]
           /\ UNCHANGED <<nextId, generation, request, overwritten, temp, file, shutdowns>>
<1>1. NoWorker \in Worker
  BY HubsAssumption DEF Worker, NoWorker
<1>2. record' \in [Download -> Record] /\ downloads' \subseteq Download
  BY RecordTypes DEF TypeOK, CompleteDownload, Erase
<1>3. history' \in Seq(Download \X Outcome) /\ Len(history') <= HistoryLimit
  BY RememberedType DEF TypeOK, CompleteDownload
<1> QED
  BY <1>1, <1>2, <1>3 DEF TypeOK, CompleteDownload, disk, signals

(* What every step of the worker thread has in common: it is the step of a *)
(* thread that has not ended, on the download it was started for, and it   *)
(* goes on or posts its result and ends.                                   *)
LEMMA WorkerSteps ==
    ASSUME TypeOK, WorkerStep
    PROVE  /\ Busy /\ worker' \in Worker /\ worker'.step # "none"
           /\ worker'.id = worker.id /\ worker'.generation = worker.generation
           /\ UNCHANGED <<nextId, active, generation, downloads, record, history, request,
                          opc, hand, joinable, overwritten, told, answer, shutdowns>>
           /\ \/ posted' = posted /\ worker'.step # "done"
              \/ /\ worker'.step = "done"
                 /\ \E r \in Outcome : posted' = Append(posted, Complete(worker.id, worker.generation, r))
<1> USE DEF locked, signals, disk, owner, thread
<1>1. /\ worker \in Worker /\ Hubs \in Nat /\ Hubs >= 1
      /\ {"Completed", "Cancelled", "Failed"} = Outcome
  BY HubsAssumption DEF TypeOK, Outcome
<1>2. \A s \in {"none", "parse", "transfer", "verify", "done"}, h \in 0..Hubs :
        LET w == [worker EXCEPT !.step = s, !.hub = h]
        IN  w \in Worker /\ w.id = worker.id /\ w.generation = worker.generation /\ w.step = s
  BY <1>1 DEF Worker
<1>3. worker.hub \in 0..Hubs /\ (worker.hub < Hubs => worker.hub + 1 \in 0..Hubs)
  BY <1>1 DEF Worker
<1> HIDE DEF locked, signals, disk, owner, thread
<1>4. ASSUME NEW r \in Outcome, WorkerReturns(r)
      PROVE  /\ worker' \in Worker /\ worker'.step = "done"
             /\ worker'.id = worker.id /\ worker'.generation = worker.generation
             /\ posted' = Append(posted, Complete(worker.id, worker.generation, r))
  BY <1>2, <1>3, <1>4 DEF WorkerReturns, WorkerGoto
<1>5. CASE WorkerRefuses
  BY <1>1, <1>4, <1>5 DEF WorkerRefuses, Busy, locked, signals, disk
<1>6. CASE WorkerOpensHub
  <2> DEFINE w == [worker EXCEPT !.step = "transfer", !.hub = worker.hub + 1]
  <2>1. w \in Worker /\ w.id = worker.id /\ w.generation = worker.generation /\ w.step = "transfer"
    <3>1. worker.hub + 1 \in 0..Hubs
      BY <1>3, <1>6 DEF WorkerOpensHub
    <3> DEFINE n == worker.hub + 1
    <3>2. w = [worker EXCEPT !.step = "transfer", !.hub = n] /\ worker \in Worker
      BY <1>1
    <3>3. n \in 0..Hubs
      BY <3>1
    <3> HIDE DEF n, w
    <3>4. w \in Worker
      BY <3>2, <3>3 DEF Worker
    <3>5. w.id = worker.id /\ w.generation = worker.generation /\ w.step = "transfer"
      BY <3>2 DEF Worker
    <3> QED
      BY <3>4, <3>5
  <2>2. worker' = w /\ posted' = posted /\ Busy
    <3>1. worker' = w
      BY <1>6 DEF WorkerOpensHub, WorkerGoto
    <3>2. posted' = posted
      BY <1>6 DEF WorkerOpensHub, owner
    <3>3. Busy
      BY <1>6 DEF WorkerOpensHub, Busy
    <3> QED
      BY <3>1, <3>2, <3>3
  <2>3. UNCHANGED <<nextId, active, generation, downloads, record, history, request,
                    opc, hand, joinable, overwritten, told, answer, shutdowns>>
    BY <1>6 DEF WorkerOpensHub, locked, signals, owner
  <2> HIDE DEF w
  <2> QED
    BY <2>1, <2>2, <2>3
<1>7. CASE WorkerAborts
  BY <1>1, <1>4, <1>7 DEF WorkerAborts, Busy, locked, signals
<1>8. CASE WorkerTransferFails
  <2>1. Busy /\ UNCHANGED <<locked, opc, hand, joinable, overwritten, signals, shutdowns>>
    BY <1>8 DEF WorkerTransferFails, Busy
  <2>2. CASE worker.hub < Hubs
    <3>1. posted' = posted /\ worker' = [worker EXCEPT !.step = "parse", !.hub = worker.hub]
      BY <1>8, <2>2 DEF WorkerTransferFails, WorkerGoto
    <3>2. worker' \in Worker /\ worker'.id = worker.id /\ worker'.generation = worker.generation
          /\ worker'.step = "parse"
      BY <1>2, <1>3, <3>1
    <3> QED
      BY <2>1, <3>1, <3>2 DEF locked, signals
  <2>3. CASE ~(worker.hub < Hubs)
    BY <1>1, <1>4, <1>8, <2>1, <2>3 DEF WorkerTransferFails, locked, signals
  <2> QED
    BY <2>2, <2>3
<1>9. CASE WorkerRenames
  BY <1>2, <1>3, <1>9 DEF WorkerRenames, WorkerGoto, Busy, locked, signals, owner
<1>10. CASE WorkerVerifies
  BY <1>1, <1>4, <1>10 DEF WorkerVerifies, Busy, locked, signals
<1> QED
  BY <1>5, <1>6, <1>7, <1>8, <1>9, <1>10 DEF WorkerStep

IInv == TypeOK /\ PlaceInv /\ ToldInv /\ GenerationInv /\ RestingFilesVerified

(* The ids in the owning thread's hands are ids of downloads.              *)
LEMMA IdsInHand ==
    ASSUME IInv
    PROVE  /\ InHand => hand.id \in Download
           /\ \A k \in 1..Len(posted) : posted[k].id \in Download /\ posted[k] \in Handler
           /\ posted # <<>> => /\ Head(posted) = posted[1] /\ 1 \in 1..Len(posted)
                               /\ Head(posted).id \in Download /\ Head(posted) \in Handler
                               /\ Tail(posted) \in Seq(Handler)
           /\ NoId \notin Download
<1>1. \A k \in 1..Len(posted) : posted[k].id \in downloads
  BY DEF IInv, PlaceInv
<1>2. posted \in Seq(Handler) /\ downloads \subseteq Download
  BY DEF IInv, TypeOK
<1>3. \A k \in 1..Len(posted) : posted[k] \in Handler
  BY <1>2
<1>4. posted # <<>> => Head(posted) = posted[1] /\ 1 \in 1..Len(posted) /\ Tail(posted) \in Seq(Handler)
  BY <1>2, TailFacts
<1> QED
  BY <1>1, <1>2, <1>3, <1>4, DownloadAssumption DEF IInv, PlaceInv, NoId

LEMMA TypeNext ==
    ASSUME IInv, Next
    PROVE  TypeOK'
<1> USE DEF locked, owner, thread, disk, signals
<1>1. TypeOK
  BY DEF IInv
<1>2. ASSUME NEW i \in Download, Reservation(i)
      PROVE  /\ FirstHandler(i) \in Handler /\ FirstHandler(i).kind \in {"begin", "reject"}
             /\ posted' \in Seq(Handler) /\ hand' \in Handler
                /\ opc' \in {"idle", "begin", "spawn", "reject", "join", "clear"} => TypeOK'
  <2>1. FirstHandler(i) \in Handler /\ FirstHandler(i).kind \in {"begin", "reject"}
    BY <1>1, HandlerTypes DEF FirstHandler, TypeOK, Reject, Begin
  <2>2. NewRecord(IF active THEN "Failed" ELSE "Pending", request) \in Record
    BY <1>1, RecordTypes DEF TypeOK, State
  <2>3. record' \in [Download -> Record] /\ nextId' \in Nat /\ downloads' \subseteq Download
    BY <1>1, <1>2, <2>2 DEF Reservation, TypeOK
  <2> QED
    BY <1>1, <1>2, <2>1, <2>3 DEF Reservation, TypeOK
<1>3. ASSUME NEW i \in Download, NEW g, NEW r \in Outcome, CompleteDownload(i, g, r),
             posted' \in Seq(Handler), hand' \in Handler, opc' \in {opc, "idle"}
      PROVE  TypeOK'
  BY <1>1, <1>3, CompletionType DEF TypeOK
<1>4. CASE \E q \in Request : SetDownloadRequest(q)
  BY <1>1, <1>4 DEF SetDownloadRequest, TypeOK
<1>5. ASSUME NEW i \in Download, StartDownload(i)
      PROVE  TypeOK'
  <2>1. posted' \in Seq(Handler)
    BY <1>1, <1>2, <1>5, AppendFacts DEF StartDownload, TypeOK
  <2> QED
    BY <1>1, <1>2, <1>5, <2>1 DEF StartDownload, TypeOK
<1>6. ASSUME NEW i \in Download, StartDownloadInline(i)
      PROVE  TypeOK'
  BY <1>1, <1>2, <1>6 DEF StartDownloadInline, TypeOK
<1>7. ASSUME NEW i \in Download, Cancel(i)
      PROVE  TypeOK'
  <2>1. record' \in [Download -> Record]
    BY <1>1, <1>7, MarkedType DEF Cancel, TypeOK
  <2> QED
    BY <1>1, <1>7, <2>1 DEF Cancel, TypeOK
<1>8. CASE Shutdown
  <2>1. record' \in [Download -> Record]
    BY <1>1, <1>8, MarkedType DEF Shutdown, TypeOK
  <2>2. shutdowns' \in 0..MaxShutdowns /\ generation' \in Nat
    <3>1. shutdowns' = shutdowns + 1 /\ shutdowns < MaxShutdowns /\ generation' = generation + 1
      BY <1>8 DEF Shutdown
    <3>2. shutdowns \in 0..MaxShutdowns /\ generation \in Nat
      BY <1>1 DEF TypeOK
    <3> QED
      BY <3>1, <3>2, MaxShutdownsAssumption
  <2> QED
    BY <1>1, <1>8, <2>1, <2>2 DEF Shutdown, TypeOK
<1>9. CASE TakeHandler
  BY <1>1, <1>9, IdsInHand DEF TakeHandler, TypeOK
<1>10. CASE BeginDownload
  <2>1. record' \in [Download -> Record]
    BY <1>1, <1>10, IdsInHand, BegunRecord DEF BeginDownload, TypeOK, InHand
  <2>2. hand' \in Handler /\ generation' \in Nat
    <3>1. generation \in Nat /\ generation + 1 \in Nat /\ hand \in Handler
      BY <1>1 DEF TypeOK
    <3>2. [hand EXCEPT !.generation = generation + 1] \in Handler
      BY <3>1 DEF Handler
    <3> QED
      BY <1>10, <3>1, <3>2 DEF BeginDownload
  <2> QED
    BY <1>1, <1>10, <2>1, <2>2 DEF BeginDownload, TypeOK
<1>11. CASE SpawnWorker
  <2>1. worker' \in Worker
    BY <1>1, <1>11, HubsAssumption DEF SpawnWorker, TypeOK, Worker, Handler
  <2> QED
    BY <1>1, <1>11, <2>1, HandlerTypes DEF SpawnWorker, TypeOK
<1>12. CASE SpawnFails
  BY <1>1, <1>3, <1>12, IdsInHand, HandlerTypes DEF SpawnFails, TypeOK, InHand, Outcome
<1>13. CASE WorkerCompletion
  <2>1. Head(posted).outcome \in Outcome
    BY <1>13, IdsInHand DEF WorkerCompletion, Handler
  <2> QED
    BY <1>1, <1>3, <1>13, <2>1, IdsInHand DEF WorkerCompletion, TypeOK
<1>14. CASE RejectDownload
  <2>1. record' \in [Download -> Record] /\ downloads' \subseteq Download
    BY <1>1, <1>14, RecordTypes DEF RejectDownload, Erase, TypeOK
  <2>2. history' \in Seq(Download \X Outcome) /\ Len(history') <= HistoryLimit
    BY <1>1, <1>14, IdsInHand, RememberedType DEF RejectDownload, TypeOK, InHand, Outcome
  <2> QED
    BY <1>1, <1>14, <2>1, <2>2, HandlerTypes DEF RejectDownload, TypeOK, Outcome
<1>15. CASE ShutdownJoins
  <2>1. NoWorker \in Worker
    BY HubsAssumption DEF NoWorker, Worker
  <2> QED
    BY <1>1, <1>15, <2>1 DEF ShutdownJoins, TypeOK
<1>16. CASE ShutdownClears
  BY <1>1, <1>16 DEF ShutdownClears, TypeOK
<1>17. CASE WorkerStep
  <2>1. posted' \in Seq(Handler)
    <3>1. ASSUME NEW r \in Outcome PROVE Complete(worker.id, worker.generation, r) \in Handler
      BY <1>1, HandlerTypes DEF TypeOK, Worker
    <3> QED
      BY <1>1, <1>17, <3>1, WorkerSteps, AppendFacts DEF TypeOK
  <2>2. Wanted \in Request
    BY <1>17, <1>1, WorkerSteps DEF IInv, PlaceInv, Wanted
  <2>3. temp' \subseteq Request /\ file' \in [Request -> {"absent", "unverified", "verified", "mismatched"}]
    BY <1>1, <1>17, <2>2
       DEF WorkerStep, WorkerRefuses, WorkerOpensHub, WorkerAborts, WorkerTransferFails,
           WorkerRenames, WorkerVerifies, TypeOK
  <2> QED
    BY <1>1, <1>17, <2>1, <2>3, WorkerSteps DEF TypeOK
<1> QED
  BY <1>4, <1>5, <1>6, <1>7, <1>8, <1>9, <1>10, <1>11, <1>12, <1>13, <1>14, <1>15, <1>16, <1>17
     DEF Next, CallerStep, OwnerStep

-----------------------------------------------------------------------------
(* Where the work is.                                                      *)

(* The marks of a cancel, of a shutdown and of a start leave the requests  *)
(* of the records alone.                                                   *)
LEMMA MarksKeepRequests ==
    ASSUME IInv, Shutdown \/ BeginDownload \/ \E i \in Download : Cancel(i)
    PROVE  \A j \in Download : record'[j].request = record[j].request
<1>1. record \in [Download -> Record] /\ \A j \in Download : record[j] \in Record
  BY DEF IInv, TypeOK
<1>2. CASE Shutdown
  <2>1. \A j \in Download : \/ record'[j] = record[j]
                            \/ record'[j] = [record[j] EXCEPT !.cancelled = @ \/ record[j].token, !.asked = TRUE]
    BY <1>2 DEF Shutdown
  <2> QED
    BY <1>1, <2>1 DEF Record
<1>3. CASE BeginDownload
  <2>1. hand.id \in Download
    BY <1>3, IdsInHand DEF BeginDownload, InHand
  <2>2. CASE record' = record
    BY <2>2
  <2>3. CASE record' = [record EXCEPT ![hand.id].state = "Running", ![hand.id].token = TRUE,
                                      ![hand.id].cancelled = @ \/ record[hand.id].asked]
    <3>1. \A j \in Download : \/ record'[j] = record[j]
                              \/ record'[j] = [record[j] EXCEPT !.state = "Running", !.token = TRUE,
                                                               !.cancelled = @ \/ record[j].asked]
      BY <1>1, <2>1, <2>3
    <3> QED
      BY <1>1, <3>1 DEF Record
  <2> QED
    BY <1>3, <2>2, <2>3 DEF BeginDownload
<1>4. ASSUME NEW i \in Download, Cancel(i)
      PROVE  \A j \in Download : record'[j].request = record[j].request
  <2>1. \A j \in Download : \/ record'[j] = record[j]
                            \/ record'[j] = [record[j] EXCEPT !.cancelled = TRUE]
                            \/ record'[j] = [record[j] EXCEPT !.asked = TRUE]
    BY <1>1, <1>4 DEF Cancel
  <2> QED
    BY <1>1, <2>1 DEF Record
<1> QED
  BY <1>2, <1>3, <1>4

(* A step that moves no download keeps every download in its place.        *)
LEMMA PlaceQuiet ==
    ASSUME IInv, posted' = posted, downloads' = downloads, nextId' = nextId,
           \A j \in Download : record'[j].request = record[j].request,
           InHand' => InHand /\ hand'.id = hand.id,
           Busy' => Busy /\ worker'.id = worker.id,
           joinable' <=> worker'.step # "none"
    PROVE  PlaceInv'
<1>1. \A i \in downloads' : i < nextId' /\ record'[i].request \in Request
  BY DEF IInv, PlaceInv, TypeOK
<1>2. /\ \A k \in 1 .. Len(posted') : posted'[k].kind # "none" /\ posted'[k].id \in downloads'
      /\ \A j, k \in 1 .. Len(posted') : j # k => posted'[j].id # posted'[k].id
  BY DEF IInv, PlaceInv
<1>3. /\ InHand' => /\ hand'.id \in downloads'
                    /\ \A k \in 1 .. Len(posted') : posted'[k].id # hand'.id
      /\ Busy' => /\ worker'.id \in downloads'
                  /\ \A k \in 1 .. Len(posted') : posted'[k].id # worker'.id
  BY DEF IInv, PlaceInv
<1> QED
  BY <1>1, <1>2, <1>3 DEF PlaceInv

(* An answered download that was in hand leaves no trace of itself.        *)
LEMMA PlaceErased ==
    ASSUME IInv, InHand, Erase(hand.id), opc' = "idle",
           UNCHANGED <<posted, nextId, joinable, worker>>
    PROVE  PlaceInv'
<1>1. /\ downloads' = downloads \ {hand.id} /\ hand.id \in Download
      /\ \A j \in downloads' : record'[j] = record[j]
  BY IdsInHand DEF Erase, IInv, TypeOK
<1>2. Busy => worker.id # hand.id
  BY DEF IInv, ToldInv, PlaceInv, Busy
<1>3. ~InHand' /\ (Busy' <=> Busy)
  BY DEF InHand, Busy
<1> QED
  BY <1>1, <1>2, <1>3 DEF IInv, PlaceInv, TypeOK

LEMMA PlaceReserved ==
    ASSUME IInv, NEW i \in Download, StartDownload(i) \/ StartDownloadInline(i)
    PROVE  PlaceInv'
<1> DEFINE e == FirstHandler(i)
<1>1. /\ i = nextId /\ i \in Nat /\ nextId' = nextId + 1
      /\ downloads' = downloads \cup {i} /\ i \notin downloads
      /\ joinable' = joinable /\ worker' = worker
  BY DEF StartDownload, StartDownloadInline, Reservation, IInv, PlaceInv, TypeOK, thread
<1>2. /\ record'[i].request \in Request
      /\ \A j \in downloads : record'[j] = record[j]
  <2>1. PICK s : record' = [record EXCEPT ![i] = NewRecord(s, request)]
    BY DEF StartDownload, StartDownloadInline, Reservation
  <2>2. request \in Request /\ record \in [Download -> Record] /\ downloads \subseteq Download
    BY DEF IInv, TypeOK
  <2>3. NewRecord(s, request).request = request
    BY DEF NewRecord
  <2> QED
    BY <1>1, <2>1, <2>2, <2>3
<1>3. e \in Handler /\ e.id = i /\ e.kind \in {"begin", "reject"}
  BY HandlerTypes DEF FirstHandler, IInv, TypeOK, Reject, Begin
<1>4. /\ joinable' <=> worker'.step # "none"
      /\ \A j \in downloads' : j < nextId' /\ record'[j].request \in Request
  <2>1. joinable' <=> worker'.step # "none"
    BY <1>1 DEF IInv, PlaceInv
  <2>2. \A j \in downloads : j \in Nat /\ j < nextId /\ record[j].request \in Request
    BY DownloadAssumption DEF IInv, PlaceInv, TypeOK
  <2>3. nextId \in Nat
    BY <1>1
  <2> QED
    BY <1>1, <1>2, <2>1, <2>2, <2>3
<1>5. (Busy' <=> Busy) /\ (Busy => worker.id \in downloads)
  BY <1>1 DEF Busy, IInv, PlaceInv
<1>6. CASE StartDownload(i)
  <2>1. posted' = Append(posted, e) /\ opc' = opc /\ hand' = hand /\ (InHand' <=> InHand)
    BY <1>6 DEF StartDownload, InHand
  <2> HIDE DEF e
  <2>2. /\ Len(posted) \in Nat /\ Len(posted') = Len(posted) + 1 /\ posted'[Len(posted) + 1] = e
        /\ \A k \in 1..Len(posted) : posted'[k] = posted[k]
        /\ \A k \in 1..Len(posted') : k = Len(posted) + 1 \/ k \in 1..Len(posted)
    BY <1>3, <2>1, AppendFacts DEF IInv, TypeOK
  <2>3. /\ \A k \in 1..Len(posted') : posted'[k].kind # "none" /\ posted'[k].id \in downloads'
        /\ \A j, k \in 1..Len(posted') : j # k => posted'[j].id # posted'[k].id
    BY <1>1, <1>3, <2>2 DEF IInv, PlaceInv
  <2>4. InHand' => /\ hand'.id \in downloads'
                   /\ \A k \in 1..Len(posted') : posted'[k].id # hand'.id
    BY <1>1, <1>3, <2>1, <2>2 DEF IInv, PlaceInv
  <2>5. Busy' => /\ worker'.id \in downloads'
                 /\ \A k \in 1..Len(posted') : posted'[k].id # worker'.id
    BY <1>1, <1>3, <1>5, <2>2 DEF IInv, PlaceInv
  <2> QED
    BY <1>4, <2>3, <2>4, <2>5 DEF PlaceInv
<1>7. CASE StartDownloadInline(i)
  <2>1. posted' = posted /\ hand' = e /\ \A k \in 1..Len(posted) : posted[k].id \in downloads
    BY <1>7 DEF StartDownloadInline, IInv, PlaceInv
  <2> HIDE DEF e
  <2> QED
    BY <1>1, <1>3, <1>4, <1>5, <2>1 DEF IInv, PlaceInv
<1> QED
  BY <1>6, <1>7

(* The first handler is taken, and answered or put in hand.                *)
LEMMA PlaceTaken ==
    ASSUME IInv, TakeHandler \/ WorkerCompletion
    PROVE  PlaceInv'
<1> DEFINE h == posted[1]
<1>1. /\ posted # <<>> /\ posted' = Tail(posted) /\ Head(posted) = h
      /\ opc = "idle" /\ nextId' = nextId /\ 1 \in 1..Len(posted)
  BY IdsInHand DEF TakeHandler, WorkerCompletion, CompleteDownload, locked
<1>2. h = posted[1]
  OBVIOUS
<1>3. \A k \in 1..Len(posted') : posted'[k] = posted[k + 1] /\ k + 1 \in 1..Len(posted) /\ k + 1 # 1
  BY <1>1, TailFacts DEF IInv, TypeOK
<1>4. h.id \in downloads /\ h.id \in Download /\ (Busy => worker.id # h.id)
  BY <1>1 DEF IInv, PlaceInv, TypeOK
<1> HIDE DEF h
<1>5. \A k \in 1..Len(posted') : /\ posted'[k].kind # "none" /\ posted'[k].id \in downloads
                                 /\ posted'[k].id # h.id
                                 /\ Busy => posted'[k].id # worker.id
  <2>1. \A j, k \in 1..Len(posted) : j # k => posted[j].id # posted[k].id
    BY DEF IInv, PlaceInv
  <2>2. \A k \in 1..Len(posted') : posted[k + 1].id # h.id
    BY <1>2, <1>1, <1>3, <2>1
  <2>3. \A k \in 1..Len(posted) : posted[k].kind # "none" /\ posted[k].id \in downloads
    BY DEF IInv, PlaceInv
  <2> SUFFICES ASSUME NEW k \in 1..Len(posted')
               PROVE  /\ posted'[k].kind # "none" /\ posted'[k].id \in downloads
                      /\ posted'[k].id # h.id /\ (Busy => posted'[k].id # worker.id)
    OBVIOUS
  <2>4. PICK n \in 1..Len(posted) : posted'[k] = posted[n] /\ n = k + 1
    BY <1>3
  <2>5. posted[n].id # h.id
    BY <2>2, <2>4
  <2>6. posted[n].kind # "none" /\ posted[n].id \in downloads
    BY <2>3
  <2>7. Busy => posted[n].id # worker.id
    BY DEF IInv, PlaceInv
  <2> QED
    BY <2>4, <2>5, <2>6, <2>7
<1>6. \A j, k \in 1..Len(posted') : j # k => posted'[j].id # posted'[k].id
  <2> SUFFICES ASSUME NEW j \in 1..Len(posted'), NEW k \in 1..Len(posted'), j # k
               PROVE  posted'[j].id # posted'[k].id
    OBVIOUS
  <2>1. posted'[j] = posted[j + 1] /\ posted'[k] = posted[k + 1]
    BY <1>3
  <2>2. j + 1 \in 1..Len(posted) /\ k + 1 \in 1..Len(posted) /\ j + 1 # k + 1
    BY <1>3
  <2>3. posted[j + 1].id # posted[k + 1].id
    BY <2>2 DEF IInv, PlaceInv
  <2> QED
    BY <2>1, <2>3
<1>7. CASE TakeHandler
  <2>1. hand' = h /\ InHand' /\ UNCHANGED <<downloads, record, joinable, worker>>
    BY <1>1, <1>7 DEF TakeHandler, InHand, locked, thread
  <2> QED
    BY <1>1, <1>4, <1>5, <1>6, <2>1 DEF IInv, PlaceInv, Busy
<1>8. CASE WorkerCompletion
  <2>1. /\ ~InHand' /\ downloads' = downloads \ {h.id}
        /\ \A j \in downloads' : record'[j] = record[j]
    BY <1>1, <1>4, <1>8 DEF WorkerCompletion, InHand, CompleteDownload, Erase, IInv, TypeOK
  <2>2. (joinable' <=> worker'.step # "none") /\ (Busy' => Busy /\ worker'.id = worker.id)
    BY <1>8 DEF WorkerCompletion, CompleteDownload, NoWorker, Busy, IInv, PlaceInv
  <2> QED
    BY <1>1, <1>4, <1>5, <1>6, <2>1, <2>2 DEF IInv, PlaceInv, TypeOK
<1> QED
  BY <1>7, <1>8

LEMMA PlaceNext ==
    ASSUME IInv, Next
    PROVE  PlaceInv'
<1> USE DEF locked, owner, thread, InHand, Busy
<1>1. joinable <=> worker.step # "none"
  BY DEF IInv, PlaceInv
<1>2. CASE \E q \in Request : SetDownloadRequest(q)
  BY <1>1, <1>2, PlaceQuiet DEF SetDownloadRequest
<1>3. CASE \E i \in Download : StartDownload(i) \/ StartDownloadInline(i)
  BY <1>3, PlaceReserved
<1>4. CASE Shutdown \/ \E i \in Download : Cancel(i)
  BY <1>1, <1>4, PlaceQuiet, MarksKeepRequests DEF Shutdown, Cancel
<1>5. CASE BeginDownload
  <2>1. hand'.id = hand.id /\ opc' \in {"spawn", "reject"} /\ UNCHANGED <<posted, downloads, nextId, joinable, worker>>
    BY <1>5 DEF BeginDownload, IInv, TypeOK, Handler
  <2> QED
    BY <1>1, <1>5, <2>1, PlaceQuiet, MarksKeepRequests DEF BeginDownload
<1>6. CASE SpawnWorker
  <2>1. CASE joinable
    BY <1>1, <1>6, <2>1, PlaceQuiet DEF SpawnWorker
  <2>2. CASE ~joinable
    BY <1>6, <2>2 DEF SpawnWorker, IInv, PlaceInv
  <2> QED
    BY <2>1, <2>2
<1>7. CASE SpawnFails \/ RejectDownload
  <2>1. InHand /\ Erase(hand.id) /\ opc' = "idle" /\ UNCHANGED <<posted, nextId>>
    BY <1>7 DEF SpawnFails, RejectDownload, CompleteDownload
  <2>2. CASE UNCHANGED <<joinable, worker>>
    BY <2>1, <2>2, PlaceErased
  <2>3. CASE SpawnFails /\ joinable' = FALSE /\ worker' = NoWorker
    <3>1. ~joinable /\ worker.step = "none" /\ ~Busy /\ ~Busy' /\ worker'.step = "none"
      BY <1>1, <2>3 DEF SpawnFails, NoWorker
    <3>2. /\ hand.id \in Download /\ downloads' = downloads \ {hand.id}
          /\ \A j \in downloads' : record'[j] = record[j]
      BY <2>1, IdsInHand DEF Erase, IInv, TypeOK
    <3>3. \A i \in downloads' : i < nextId' /\ record'[i].request \in Request
      BY <2>1, <3>2 DEF IInv, PlaceInv
    <3>4. /\ \A k \in 1..Len(posted') : posted'[k].kind # "none" /\ posted'[k].id \in downloads'
          /\ \A i, k \in 1..Len(posted') : i # k => posted'[i].id # posted'[k].id
      BY <2>1, <3>2 DEF IInv, PlaceInv
    <3> QED
      BY <2>1, <2>3, <3>1, <3>3, <3>4 DEF PlaceInv
  <2> QED
    BY <1>7, <2>2, <2>3 DEF SpawnFails, RejectDownload, CompleteDownload
<1>8. CASE TakeHandler \/ WorkerCompletion
  BY <1>8, PlaceTaken
<1>9. CASE ShutdownJoins
  BY <1>9, PlaceQuiet DEF ShutdownJoins, NoWorker
<1>10. CASE ShutdownClears
  BY <1>1, <1>10, PlaceQuiet DEF ShutdownClears
<1>11. CASE WorkerStep
  <2>1. TypeOK /\ PlaceInv
    BY DEF IInv
  <2>2. /\ Busy /\ worker'.id = worker.id /\ worker' \in Worker /\ worker'.step # "none"
        /\ UNCHANGED <<downloads, record, nextId, opc, hand, joinable>>
    BY <1>11, <2>1, WorkerSteps
  <2>3. CASE posted' = posted
    BY <1>1, <2>2, <2>3, PlaceQuiet
  <2>4. ASSUME NEW r \in Outcome, worker'.step = "done",
               posted' = Append(posted, Complete(worker.id, worker.generation, r))
        PROVE  PlaceInv'
    <3> DEFINE e == Complete(worker.id, worker.generation, r)
    <3>1. e \in Handler /\ e.kind # "none" /\ e.id = worker.id
      BY <2>1, HandlerTypes DEF Complete, TypeOK, Worker
    <3> HIDE DEF e
    <3>2. /\ Len(posted) \in Nat /\ Len(posted') = Len(posted) + 1 /\ posted'[Len(posted) + 1] = e
          /\ \A k \in 1..Len(posted) : posted'[k] = posted[k]
          /\ \A k \in 1..Len(posted') : k = Len(posted) + 1 \/ k \in 1..Len(posted)
      BY <2>1, <2>4, <3>1, AppendFacts DEF TypeOK, e
    <3>3. worker.id \in downloads /\ \A k \in 1..Len(posted) : posted[k].id # worker.id
      BY <2>1, <2>2 DEF PlaceInv
    <3>4. InHand => hand.id # worker.id
      BY <1>1, <2>2 DEF IInv, ToldInv
    <3> QED
      BY <2>1, <2>2, <2>4, <3>1, <3>2, <3>3, <3>4 DEF PlaceInv
  <2> QED
    BY <1>11, <2>1, <2>3, <2>4, WorkerSteps
<1> QED
  BY <1>2, <1>3, <1>4, <1>5, <1>6, <1>7, <1>8, <1>9, <1>10, <1>11
     DEF Next, CallerStep, OwnerStep

-----------------------------------------------------------------------------
(* What the listeners have been told.                                      *)

(* A step without a signal that keeps every download in its place, or      *)
(* takes one from the queue into the owning thread's hand.                 *)
LEMMA ToldQuiet ==
    ASSUME IInv, told' = told, nextId' = nextId,
           \A k \in 1..Len(posted') : \E j \in 1..Len(posted) :
                posted'[k].id = posted[j].id /\ posted'[k].kind = posted[j].kind,
           InHand' => told[hand'.id] = "reserved",
           joinable' => joinable /\ worker'.id = worker.id
    PROVE  ToldInv'
BY DEF IInv, ToldInv

(* A step that signals one download, which no handler holds afterwards.    *)
LEMMA ToldSignal ==
    ASSUME IInv, NEW i \in Download, NEW s, told' = [told EXCEPT ![i] = s],
           i < nextId, nextId' = nextId, ~InHand',
           \A k \in 1..Len(posted') : /\ posted'[k].id # i
                                      /\ \E j \in 1..Len(posted) :
                                           posted'[k].id = posted[j].id /\ posted'[k].kind = posted[j].kind,
           joinable' => \/ joinable /\ worker'.id = worker.id /\ worker.id # i
                        \/ worker'.id = i /\ s = "started"
    PROVE  ToldInv'
<1>1. \A j \in Download : told'[j] = IF j = i THEN s ELSE told[j]
  BY DEF IInv, TypeOK
<1>2. \A j \in Download : j >= nextId' => told'[j] = "unknown"
  BY <1>1, DownloadAssumption DEF IInv, ToldInv, TypeOK
<1>3. ASSUME NEW k \in 1..Len(posted')
      PROVE  told'[posted'[k].id] = IF posted'[k].kind = "complete" THEN "started" ELSE "reserved"
  <2>1. PICK j \in 1..Len(posted) : posted'[k].id = posted[j].id /\ posted'[k].kind = posted[j].kind
    OBVIOUS
  <2>2. posted[j].id \in Download /\ posted[j].id # i
    BY <2>1, IdsInHand
  <2> QED
    BY <1>1, <2>1, <2>2 DEF IInv, ToldInv
<1>4. joinable' => worker'.id \in Download /\ told'[worker'.id] = "started"
  BY <1>1 DEF IInv, ToldInv
<1> QED
  BY <1>2, <1>3, <1>4 DEF ToldInv

LEMMA ToldReserved ==
    ASSUME IInv, NEW i \in Download, StartDownload(i) \/ StartDownloadInline(i)
    PROVE  ToldInv'
<1> DEFINE e == FirstHandler(i)
<1>1. /\ i = nextId /\ i \in Nat /\ nextId' = nextId + 1 /\ UNCHANGED <<joinable, worker>>
      /\ \A j \in Download : told'[j] = IF j = i THEN "reserved" ELSE told[j]
  BY DEF StartDownload, StartDownloadInline, Reservation, IInv, TypeOK, thread
<1>2. e \in Handler /\ e.id = i /\ e.kind \in {"begin", "reject"}
  BY HandlerTypes DEF FirstHandler, IInv, TypeOK, Reject, Begin
<1>3. /\ \A j \in downloads : j # i
      /\ \A k \in 1..Len(posted) : posted[k].id # i /\ posted[k].id \in Download
      /\ InHand => hand.id # i /\ hand.id \in Download
      /\ joinable => worker.id # i
  BY <1>1, IdsInHand DEF IInv, PlaceInv, ToldInv
<1>4. \A j \in Download : j >= nextId' => told'[j] = "unknown"
  BY <1>1, DownloadAssumption DEF IInv, ToldInv, TypeOK
<1>5. joinable' => worker'.id \in Download /\ told'[worker'.id] = "started"
  BY <1>1, <1>3 DEF IInv, ToldInv
<1>6. CASE StartDownload(i)
  <2>1. posted' = Append(posted, e) /\ hand' = hand /\ (InHand' <=> InHand)
    BY <1>6 DEF StartDownload, InHand
  <2> HIDE DEF e
  <2>2. /\ posted'[Len(posted) + 1] = e
        /\ \A k \in 1..Len(posted) : posted'[k] = posted[k]
        /\ \A k \in 1..Len(posted') : k = Len(posted) + 1 \/ k \in 1..Len(posted)
    BY <1>2, <2>1, AppendFacts DEF IInv, TypeOK
  <2>3. ASSUME NEW k \in 1..Len(posted')
        PROVE  told'[posted'[k].id] = IF posted'[k].kind = "complete" THEN "started" ELSE "reserved"
    <3>1. CASE k = Len(posted) + 1
      <4>1. posted'[k].id = i /\ posted'[k].kind # "complete"
        BY <1>2, <2>2, <3>1
      <4> QED BY <1>1, <4>1
    <3>2. CASE k \in 1..Len(posted)
      <4>1. told[posted[k].id] = IF posted[k].kind = "complete" THEN "started" ELSE "reserved"
        BY <3>2 DEF IInv, ToldInv
      <4>2. posted'[k] = posted[k] /\ told'[posted[k].id] = told[posted[k].id]
        BY <1>1, <1>3, <2>2, <3>2
      <4> QED BY <4>1, <4>2
    <3> QED BY <2>2, <3>1, <3>2
  <2>4. InHand' => told'[hand'.id] = "reserved"
    BY <1>1, <1>3, <2>1 DEF IInv, ToldInv
  <2> QED
    BY <1>4, <1>5, <2>3, <2>4 DEF ToldInv
<1>7. CASE StartDownloadInline(i)
  <2>1. posted' = posted /\ hand' = e
    BY <1>7 DEF StartDownloadInline
  <2> HIDE DEF e
  <2>2. told'[hand'.id] = "reserved"
    BY <1>1, <1>2, <2>1
  <2>3. \A k \in 1..Len(posted) : told'[posted[k].id] = told[posted[k].id]
    BY <1>1, <1>3
  <2> QED
    BY <1>4, <1>5, <2>1, <2>2, <2>3 DEF IInv, ToldInv
<1> QED
  BY <1>6, <1>7

LEMMA ToldNext ==
    ASSUME IInv, Next
    PROVE  ToldInv'
<1> USE DEF locked, owner, thread, signals, InHand
<1>1. CASE \E q \in Request : SetDownloadRequest(q)
  BY <1>1, ToldQuiet DEF SetDownloadRequest, IInv, ToldInv
<1>2. CASE \E i \in Download : StartDownload(i) \/ StartDownloadInline(i)
  BY <1>2, ToldReserved
<1>3. CASE Shutdown \/ \E i \in Download : Cancel(i)
  <2>1. /\ UNCHANGED <<told, nextId, posted, hand, joinable, worker>>
        /\ InHand' => InHand
    BY <1>3 DEF Shutdown, Cancel
  <2>2. InHand => told[hand.id] = "reserved"
    BY DEF IInv, ToldInv
  <2> QED
    BY <2>1, <2>2, ToldQuiet
<1>4. CASE BeginDownload
  <2>1. hand'.id = hand.id /\ told[hand.id] = "reserved"
        /\ UNCHANGED <<told, nextId, posted, joinable, worker>>
    BY <1>4 DEF BeginDownload, IInv, TypeOK, Handler, ToldInv
  <2> QED
    BY <2>1, ToldQuiet
<1>5. CASE SpawnWorker
  <2>1. CASE joinable
    BY <1>5, <2>1, ToldQuiet DEF SpawnWorker, IInv, ToldInv
  <2>2. CASE ~joinable
    <3>1. /\ told' = [told EXCEPT ![hand.id] = "started"] /\ worker'.id = hand.id
          /\ ~InHand' /\ UNCHANGED <<nextId, posted>>
      BY <1>5, <2>2 DEF SpawnWorker
    <3>2. hand.id \in Download /\ hand.id < nextId /\ \A k \in 1..Len(posted) : posted[k].id # hand.id
      BY <1>5, IdsInHand DEF SpawnWorker, IInv, PlaceInv
    <3> QED
      BY <3>1, <3>2, ToldSignal
  <2> QED
    BY <2>1, <2>2
<1>6. CASE SpawnFails \/ RejectDownload
  <2>1. /\ InHand /\ ~InHand' /\ told' = [told EXCEPT ![hand.id] = "finished"]
        /\ UNCHANGED <<nextId, posted>> /\ (joinable' => joinable /\ worker' = worker)
    BY <1>6 DEF SpawnFails, RejectDownload, CompleteDownload, IInv, GenerationInv
  <2>2. /\ hand.id \in Download /\ hand.id < nextId /\ \A k \in 1..Len(posted) : posted[k].id # hand.id
        /\ joinable => worker.id # hand.id
    BY <2>1, IdsInHand DEF IInv, PlaceInv, ToldInv
  <2> QED
    BY <2>1, <2>2, ToldSignal
<1>7. CASE TakeHandler \/ WorkerCompletion
  <2>1. posted # <<>> /\ posted' = Tail(posted) /\ nextId' = nextId /\ 1 \in 1..Len(posted)
        /\ Head(posted) = posted[1]
    BY <1>7, IdsInHand DEF TakeHandler, WorkerCompletion, CompleteDownload
  <2>2. \A k \in 1..Len(posted') : posted'[k] = posted[k + 1] /\ k + 1 \in 1..Len(posted) /\ k + 1 # 1
    BY <2>1, TailFacts DEF IInv, TypeOK
  <2>3. CASE TakeHandler
    BY <2>1, <2>2, <2>3, ToldQuiet DEF TakeHandler, IInv, ToldInv
  <2>4. CASE WorkerCompletion /\ told' = told
    BY <2>1, <2>2, <2>4, ToldQuiet DEF WorkerCompletion, CompleteDownload
  <2>5. CASE WorkerCompletion /\ told' = [told EXCEPT ![posted[1].id] = "finished"] /\ joinable' = FALSE
    <3>1. posted[1].id \in Download /\ posted[1].id < nextId
          /\ \A k \in 1..Len(posted') : posted'[k].id # posted[1].id
      BY <2>1, <2>2, IdsInHand DEF IInv, PlaceInv
    <3> QED
      BY <2>1, <2>2, <2>5, <3>1, ToldSignal DEF WorkerCompletion
  <2> QED
    BY <1>7, <2>1, <2>3, <2>4, <2>5 DEF WorkerCompletion, CompleteDownload
<1>8. CASE ShutdownJoins
  BY <1>8, ToldQuiet DEF ShutdownJoins
<1>9. CASE ShutdownClears
  BY <1>9, ToldQuiet DEF ShutdownClears
<1>10. CASE WorkerStep
  <2>1. TypeOK /\ ToldInv /\ joinable
    BY <1>10, WorkerSteps DEF IInv, PlaceInv, Busy
  <2>2. worker'.id = worker.id /\ UNCHANGED <<told, nextId, opc, hand, joinable>>
    BY <1>10, <2>1, WorkerSteps
  <2>3. CASE posted' = posted
    BY <2>1, <2>2, <2>3, ToldQuiet DEF ToldInv
  <2>4. ASSUME NEW r \in Outcome, posted' = Append(posted, Complete(worker.id, worker.generation, r))
        PROVE  ToldInv'
    <3> DEFINE e == Complete(worker.id, worker.generation, r)
    <3>1. e \in Handler /\ e.kind = "complete" /\ e.id = worker.id
      BY <2>1, HandlerTypes DEF Complete, TypeOK, Worker
    <3> HIDE DEF e
    <3>2. /\ posted'[Len(posted) + 1] = e
          /\ \A k \in 1..Len(posted) : posted'[k] = posted[k]
          /\ \A k \in 1..Len(posted') : k = Len(posted) + 1 \/ k \in 1..Len(posted)
      BY <2>1, <2>4, <3>1, AppendFacts DEF TypeOK, e
    <3> QED
      BY <2>1, <2>2, <3>1, <3>2 DEF ToldInv
  <2> QED
    BY <1>10, <2>1, <2>3, <2>4, WorkerSteps
<1> QED
  BY <1>1, <1>2, <1>3, <1>4, <1>5, <1>6, <1>7, <1>8, <1>9, <1>10
     DEF Next, CallerStep, OwnerStep

-----------------------------------------------------------------------------
(* Generations.                                                            *)

(* A step that begins no generation and leaves the held thread alone.      *)
LEMMA GenerationQuiet ==
    ASSUME IInv, generation' = generation, UNCHANGED <<joinable, worker>>,
           \A k \in 1..Len(posted') : \/ \E j \in 1..Len(posted) : posted'[k] = posted[j]
                                      \/ /\ posted'[k].generation <= generation
                                         /\ posted'[k].kind # "complete",
           hand'.generation <= generation,
           opc' = "spawn" => opc = "spawn" /\ hand' = hand,
           opc' = "join" => opc = "join"
    PROVE  GenerationInv'
<1>1. ASSUME NEW k \in 1..Len(posted')
      PROVE  /\ posted'[k].generation <= generation'
             /\ posted'[k].kind = "complete" /\ posted'[k].generation = generation'
                   => /\ joinable' /\ worker'.step = "done"
                      /\ worker'.id = posted'[k].id /\ worker'.generation = generation'
  BY DEF IInv, GenerationInv
<1> QED
  BY <1>1 DEF IInv, GenerationInv

(* A new generation: nothing that is queued or runs belongs to it.         *)
LEMMA GenerationBegins ==
    ASSUME IInv, generation' = generation + 1, UNCHANGED <<posted, joinable, worker>>,
           hand'.generation <= generation',
           opc' = "spawn" => hand'.generation = generation'
    PROVE  GenerationInv'
<1>1. /\ generation \in Nat /\ worker.generation \in Nat
      /\ \A k \in 1..Len(posted) : posted[k].generation \in Nat
  BY IdsInHand DEF IInv, TypeOK, Worker, Handler
<1> QED
  BY <1>1 DEF IInv, GenerationInv

(* The held thread is given up: its completion is none of those queued, or *)
(* its generation is over.                                                 *)
LEMMA GenerationJoined ==
    ASSUME IInv, generation' = generation, worker' = NoWorker, joinable' = FALSE,
           \A k \in 1..Len(posted') : \E j \in 1..Len(posted) : posted'[k] = posted[j],
           \A k \in 1..Len(posted') : posted'[k].kind = "complete" => posted'[k].generation # generation,
           hand'.generation <= generation, opc' \in {"idle", "clear"}
    PROVE  GenerationInv'
<1>1. worker'.generation <= generation'
  BY DEF NoWorker, IInv, TypeOK
<1> QED
  BY <1>1 DEF IInv, GenerationInv

LEMMA GenerationNext ==
    ASSUME IInv, Next
    PROVE  GenerationInv'
<1> USE DEF locked, owner, thread
<1>1. /\ generation \in Nat /\ hand.generation <= generation /\ NoHandler.generation <= generation
      /\ NoHandler.generation = 0
  BY DEF IInv, TypeOK, GenerationInv, NoHandler
<1>2. CASE (\E q \in Request : SetDownloadRequest(q)) \/ (\E i \in Download : Cancel(i)) \/ ShutdownClears
  <2>1. /\ UNCHANGED <<generation, posted, hand, joinable, worker>>
        /\ opc' = opc \/ opc' = "idle"
    BY <1>2 DEF SetDownloadRequest, Cancel, ShutdownClears
  <2> QED
    BY <1>1, <2>1, GenerationQuiet
<1>3. ASSUME NEW i \in Download, StartDownload(i)
      PROVE  GenerationInv'
  <2> DEFINE e == FirstHandler(i)
  <2>1. e \in Handler /\ e.generation <= generation /\ e.kind # "complete"
    BY <1>1, HandlerTypes DEF FirstHandler, Reject, Begin
  <2>2. posted' = Append(posted, e) /\ UNCHANGED <<generation, joinable, worker, opc, hand>>
    BY <1>3 DEF StartDownload, Reservation
  <2> HIDE DEF e
  <2>3. \A k \in 1..Len(posted') : \/ \E j \in 1..Len(posted) : posted'[k] = posted[j]
                                   \/ posted'[k] = e
    BY <2>1, <2>2, AppendFacts DEF IInv, TypeOK
  <2> QED
    BY <1>1, <2>1, <2>2, <2>3, GenerationQuiet
<1>4. ASSUME NEW i \in Download, StartDownloadInline(i)
      PROVE  GenerationInv'
  <2>1. FirstHandler(i).generation <= generation /\ FirstHandler(i).kind \in {"begin", "reject"}
    BY <1>1 DEF FirstHandler, Reject, Begin
  <2>2. /\ UNCHANGED <<generation, joinable, worker, posted>> /\ hand' = FirstHandler(i)
        /\ opc' = FirstHandler(i).kind
    BY <1>4 DEF StartDownloadInline, Reservation
  <2> QED
    BY <2>1, <2>2, GenerationQuiet
<1>5. CASE Shutdown
  <2>1. generation' = generation + 1 /\ opc' = "join" /\ UNCHANGED <<posted, hand, joinable, worker>>
    BY <1>5 DEF Shutdown
  <2> QED
    BY <1>1, <2>1, GenerationBegins DEF IInv, TypeOK, Handler
<1>6. CASE BeginDownload
  <2>1. CASE hand.generation # generation
    <3>1. opc' = "reject" /\ UNCHANGED <<generation, posted, hand, joinable, worker>>
      BY <1>6, <2>1 DEF BeginDownload
    <3> QED
      BY <1>1, <3>1, GenerationQuiet
  <2>2. CASE hand.generation = generation
    <3>1. /\ generation' = generation + 1 /\ hand' = [hand EXCEPT !.generation = generation + 1]
          /\ opc' = "spawn" /\ UNCHANGED <<posted, joinable, worker>>
      BY <1>6, <2>2 DEF BeginDownload
    <3>2. hand'.generation = generation'
      BY <3>1 DEF IInv, TypeOK, Handler
    <3> QED
      BY <1>1, <3>1, <3>2, GenerationBegins
  <2> QED
    BY <2>1, <2>2
<1>7. CASE SpawnWorker
  <2>1. CASE joinable
    BY <1>1, <1>7, <2>1, GenerationQuiet DEF SpawnWorker
  <2>2. CASE ~joinable
    <3>1. /\ UNCHANGED <<generation, posted>> /\ worker'.generation = hand.generation
          /\ hand' = NoHandler /\ opc' = "idle"
      BY <1>7, <2>2 DEF SpawnWorker
    <3> QED
      BY <1>1, <2>2, <3>1 DEF IInv, GenerationInv
  <2> QED
    BY <2>1, <2>2
<1>8. CASE SpawnFails
  <2>1. /\ ~joinable /\ joinable' = FALSE /\ worker' = NoWorker /\ UNCHANGED <<generation, posted>>
        /\ hand' = NoHandler /\ opc' = "idle"
    BY <1>8 DEF SpawnFails, CompleteDownload, IInv, GenerationInv
  <2> QED
    BY <1>1, <2>1, GenerationJoined DEF IInv, GenerationInv
<1>9. CASE RejectDownload
  BY <1>1, <1>9, GenerationQuiet DEF RejectDownload
<1>10. CASE TakeHandler \/ WorkerCompletion
  <2>1. posted # <<>> /\ posted' = Tail(posted) /\ generation' = generation /\ 1 \in 1..Len(posted)
        /\ Head(posted) = posted[1]
    BY <1>10, IdsInHand DEF TakeHandler, WorkerCompletion, CompleteDownload
  <2>2. \A k \in 1..Len(posted') : posted'[k] = posted[k + 1] /\ k + 1 \in 1..Len(posted) /\ k + 1 # 1
    BY <2>1, TailFacts DEF IInv, TypeOK
  <2>3. CASE TakeHandler
    <3>1. hand' = posted[1] /\ opc' \in {"begin", "reject"} /\ UNCHANGED <<joinable, worker>>
      BY <2>1, <2>3 DEF TakeHandler
    <3> QED
      BY <2>1, <2>2, <3>1, GenerationQuiet DEF IInv, GenerationInv
  <2>4. CASE WorkerCompletion /\ UNCHANGED <<joinable, worker>>
    BY <1>1, <2>1, <2>2, <2>4, GenerationQuiet DEF WorkerCompletion
  <2>5. CASE WorkerCompletion /\ posted[1].generation = generation
             /\ joinable' = FALSE /\ worker' = NoWorker
    <3>1. ASSUME NEW k \in 1..Len(posted')
          PROVE  posted'[k].kind = "complete" => posted'[k].generation # generation
      <4>1. posted[1].kind = "complete" /\ worker.id = posted[1].id
        BY <2>1, <2>5 DEF WorkerCompletion, IInv, GenerationInv
      <4>2. posted[k + 1].id # posted[1].id
        BY <2>1, <2>2 DEF IInv, PlaceInv
      <4> QED
        BY <2>2, <4>1, <4>2 DEF IInv, GenerationInv
    <3> QED
      BY <1>1, <2>1, <2>2, <2>5, <3>1, GenerationJoined DEF WorkerCompletion
  <2> QED
    BY <1>10, <2>1, <2>3, <2>4, <2>5 DEF WorkerCompletion, CompleteDownload
<1>11. CASE ShutdownJoins
  <2>1. /\ opc = "join" /\ joinable' = FALSE /\ worker' = NoWorker /\ opc' = "clear"
        /\ UNCHANGED <<generation, posted, hand>>
    BY <1>11 DEF ShutdownJoins
  <2>2. \A k \in 1..Len(posted) : posted[k].kind = "complete" => posted[k].generation # generation
    BY <2>1 DEF IInv, GenerationInv
  <2> QED
    BY <1>1, <2>1, <2>2, GenerationJoined
<1>12. CASE WorkerStep
  <2>1. TypeOK /\ GenerationInv /\ joinable /\ Busy /\ worker.step # "done"
    BY <1>12, WorkerSteps DEF IInv, PlaceInv, Busy
  <2>2. /\ worker'.id = worker.id /\ worker'.generation = worker.generation
        /\ UNCHANGED <<generation, opc, hand, joinable>>
    BY <1>12, <2>1, WorkerSteps
  <2>3. \A k \in 1..Len(posted) : posted[k].kind = "complete" => posted[k].generation # generation
    BY <2>1 DEF GenerationInv
  <2>4. CASE posted' = posted
    BY <2>1, <2>2, <2>3, <2>4 DEF GenerationInv
  <2>5. ASSUME NEW r \in Outcome, worker'.step = "done",
               posted' = Append(posted, Complete(worker.id, worker.generation, r))
        PROVE  GenerationInv'
    <3> DEFINE e == Complete(worker.id, worker.generation, r)
    <3>1. e \in Handler /\ e.generation = worker.generation /\ e.id = worker.id
      BY <2>1, HandlerTypes DEF Complete, TypeOK, Worker
    <3> HIDE DEF e
    <3>2. /\ posted'[Len(posted) + 1] = e
          /\ \A k \in 1..Len(posted) : posted'[k] = posted[k]
          /\ \A k \in 1..Len(posted') : k = Len(posted) + 1 \/ k \in 1..Len(posted)
      BY <2>1, <2>5, <3>1, AppendFacts DEF TypeOK, e
    <3> QED
      BY <2>1, <2>2, <2>3, <2>5, <3>1, <3>2 DEF GenerationInv
  <2> QED
    BY <1>12, <2>1, <2>4, <2>5, WorkerSteps
<1> QED
  BY <1>2, <1>3, <1>4, <1>5, <1>6, <1>7, <1>8, <1>9, <1>10, <1>11, <1>12
     DEF Next, CallerStep, OwnerStep

-----------------------------------------------------------------------------
(* Files.                                                                  *)

(* A step that leaves the disk to the worker that is busy with it.         *)
LEMMA FilesQuiet ==
    ASSUME IInv, temp' = temp, file' = file,
           Busy => /\ worker' = worker
                   /\ record'[worker.id].request = record[worker.id].request
    PROVE  RestingFilesVerified'
<1>1. CASE Busy
  BY <1>1 DEF IInv, RestingFilesVerified, Wanted
<1>2. CASE ~Busy
  BY <1>2 DEF IInv, RestingFilesVerified, TypeOK, Busy
<1> QED
  BY <1>1, <1>2

(* The worker has a temporary file while it transfers and an unverified    *)
(* one in place while it verifies, both of the request it was started for. *)
LEMMA FilesWorker ==
    ASSUME IInv, WorkerStep
    PROVE  RestingFilesVerified'
<1>1. /\ Wanted' = Wanted /\ Wanted \in Request /\ worker \in Worker
  BY WorkerSteps DEF Wanted, IInv, PlaceInv, TypeOK
<1>2. /\ \A s \in {"parse", "transfer", "verify", "done"} : \A h : WorkerGoto(s, h) => worker'.step = s
      /\ \A r : WorkerReturns(r) => worker'.step = "done"
  BY <1>1 DEF WorkerGoto, WorkerReturns, Worker
<1>3. /\ \A q \in Request : file[q] = "unverified" => worker.step = "verify" /\ Wanted = q
      /\ \A q \in temp : worker.step = "transfer" /\ Wanted = q
      /\ temp \subseteq Request /\ file \in [Request -> {"absent", "unverified", "verified", "mismatched"}]
  BY DEF IInv, RestingFilesVerified, TypeOK
<1>4. SUFFICES /\ \A q \in Request : file'[q] = "unverified" => worker'.step = "verify" /\ Wanted = q
               /\ \A q \in temp' : worker'.step = "transfer" /\ Wanted = q
  BY <1>1 DEF RestingFilesVerified
<1>5. CASE WorkerRefuses
  BY <1>3, <1>5 DEF WorkerRefuses, disk
<1>6. CASE WorkerOpensHub
  BY <1>2, <1>3, <1>6 DEF WorkerOpensHub
<1>7. CASE WorkerAborts \/ WorkerTransferFails
  BY <1>3, <1>7 DEF WorkerAborts, WorkerTransferFails
<1>8. CASE WorkerRenames
  BY <1>1, <1>2, <1>3, <1>8 DEF WorkerRenames
<1>9. CASE WorkerVerifies
  BY <1>1, <1>3, <1>9 DEF WorkerVerifies
<1> QED
  BY <1>5, <1>6, <1>7, <1>8, <1>9 DEF WorkerStep

LEMMA FilesNext ==
    ASSUME IInv, Next
    PROVE  RestingFilesVerified'
<1> USE DEF locked, owner, thread, disk
<1>1. TypeOK /\ (Busy => worker.id \in Download /\ worker.id \in downloads)
  BY DEF IInv, PlaceInv, TypeOK
<1>2. CASE (\E q \in Request : SetDownloadRequest(q)) \/ TakeHandler \/ ShutdownClears
  BY <1>2, FilesQuiet DEF SetDownloadRequest, TakeHandler, ShutdownClears
<1>3. CASE Shutdown \/ BeginDownload \/ \E i \in Download : Cancel(i)
  BY <1>1, <1>3, MarksKeepRequests, FilesQuiet DEF Shutdown, BeginDownload, Cancel
<1>4. ASSUME NEW i \in Download, StartDownload(i) \/ StartDownloadInline(i)
      PROVE  RestingFilesVerified'
  <2>1. i \notin downloads /\ UNCHANGED <<temp, file, worker>>
    BY <1>4 DEF StartDownload, StartDownloadInline, Reservation, IInv, PlaceInv, TypeOK
  <2>2. \A j \in Download \ {i} : record'[j] = record[j]
    BY <1>1, <1>4 DEF StartDownload, StartDownloadInline, Reservation, TypeOK
  <2> QED
    BY <1>1, <2>1, <2>2, FilesQuiet
<1>5. CASE SpawnWorker
  BY <1>5, FilesQuiet DEF SpawnWorker, IInv, PlaceInv, Busy
<1>6. ASSUME NEW i \in Download, Erase(i), Busy => worker.id # i /\ worker' = worker, UNCHANGED <<temp, file>>
      PROVE  RestingFilesVerified'
  BY <1>1, <1>6, FilesQuiet DEF Erase, TypeOK
<1>7. CASE SpawnFails
  BY <1>6, <1>7, IdsInHand DEF SpawnFails, CompleteDownload, InHand, IInv, PlaceInv, Busy
<1>8. CASE RejectDownload
  <2>1. Busy => worker.id # hand.id
    BY <1>8 DEF RejectDownload, InHand, Busy, IInv, PlaceInv, ToldInv
  <2> QED
    BY <1>6, <1>8, <2>1, IdsInHand DEF RejectDownload, InHand
<1>9. CASE WorkerCompletion
  <2>1. posted[1].id \in Download /\ Head(posted) = posted[1] /\ 1 \in 1..Len(posted)
    BY <1>9, IdsInHand DEF WorkerCompletion
  <2>2. Busy => worker.id # posted[1].id /\ ~(posted[1].kind = "complete" /\ posted[1].generation = generation)
    BY <2>1 DEF Busy, IInv, PlaceInv, GenerationInv
  <2> QED
    BY <1>6, <1>9, <2>1, <2>2 DEF WorkerCompletion, CompleteDownload
<1>10. CASE ShutdownJoins
  BY <1>10, FilesQuiet DEF ShutdownJoins, Busy, IInv, PlaceInv
<1>11. CASE WorkerStep
  BY <1>11, FilesWorker
<1> QED
  BY <1>2, <1>3, <1>4, <1>5, <1>7, <1>8, <1>9, <1>10, <1>11 DEF Next, CallerStep, OwnerStep

-----------------------------------------------------------------------------
(* The invariants.                                                         *)

LEMMA IInvInit == Init => IInv
<1> SUFFICES ASSUME Init PROVE IInv
  OBVIOUS
<1>1. Len(posted) = 0 /\ Len(posted) \in Nat
  BY DEF Init
<1>2. worker.step = "none" /\ worker.generation = 0 /\ hand.generation = 0
  BY DEF Init, NoWorker, NoHandler
<1> QED
  BY <1>1, <1>2, TypeInit
     DEF Init, IInv, PlaceInv, ToldInv, GenerationInv, RestingFilesVerified, InHand, Busy

LEMMA IInvAlways == Spec => []IInv
<1>1. IInv /\ [Next]_vars => IInv'
  <2>1. CASE Next
    BY <2>1, TypeNext, PlaceNext, ToldNext, GenerationNext, FilesNext DEF IInv
  <2>2. CASE UNCHANGED vars
    BY <2>2
       DEF vars, locked, owner, thread, disk, signals, IInv, TypeOK, PlaceInv, ToldInv,
           GenerationInv, RestingFilesVerified, InHand, Busy, Wanted
  <2> QED
    BY <2>1, <2>2
<1> QED
  BY IInvInit, <1>1, PTL DEF Spec

(* The type invariant of the service.                                      *)
THEOREM TypeCorrect == Spec => []TypeOK
<1>1. IInv => TypeOK
  BY DEF IInv
<1> QED
  BY IInvAlways, <1>1, PTL

(* What lies at a model's path is verified, or the one worker that renamed *)
(* it there is about to verify it, whatever is cancelled, superseded or    *)
(* shut down meanwhile; no temporary file outlives its transfer.           *)
THEOREM FilesAtRest == Spec => []RestingFilesVerified
<1>1. IInv => RestingFilesVerified
  BY DEF IInv
<1> QED
  BY IInvAlways, <1>1, PTL

-----------------------------------------------------------------------------
(* The refinement of DownloadContract.                                     *)

Runs(i) == joinable /\ worker.id = i /\ worker.generation = generation

Stutter == UNCHANGED <<[i \in Download |-> Heard(i)], answer>>

LEMMA ContractInit == Init => Contract!Init
BY DEF Init, Contract!Init, Heard

(* What is heard of a download, where nothing is signalled of it.          *)
LEMMA HeardSame ==
    ASSUME NEW i \in Download, told'[i] = told[i], Runs(i)' <=> Runs(i)
    PROVE  Heard(i)' = Heard(i)
BY DEF Heard, Runs

(* A step without a signal that leaves the running download what it was.   *)
LEMMA HeardQuiet ==
    ASSUME told' = told, answer' = answer, \A i \in Download : Runs(i)' <=> Runs(i)
    PROVE  Stutter
BY HeardSame DEF Stutter

(* A signal of one download.                                               *)
LEMMA HeardSignal ==
    ASSUME IInv, NEW i \in Download, NEW s, s # "started",
           told' = [told EXCEPT ![i] = s],
           \A j \in Download \ {i} : Runs(j)' <=> Runs(j)
    PROVE  \A j \in Download : Heard(j)' = IF j = i THEN s ELSE Heard(j)
<1>1. \A j \in Download : told'[j] = IF j = i THEN s ELSE told[j]
  BY DEF IInv, TypeOK
<1>2. Heard(i)' = s
  BY <1>1 DEF Heard
<1>3. \A j \in Download \ {i} : Heard(j)' = Heard(j)
  BY <1>1, HeardSame
<1> QED
  BY <1>2, <1>3

(* downloadFinished, of the download that runs or of one that never did.   *)
LEMMA HeardFinish ==
    ASSUME IInv, NEW i \in Download, NEW r \in Outcome,
           told' = [told EXCEPT ![i] = "finished"], answer' = [answer EXCEPT ![i] = r],
           \A j \in Download \ {i} : Runs(j)' <=> Runs(j),
           \/ told[i] = "started" /\ Runs(i)
           \/ told[i] = "reserved" /\ r = "Failed"
    PROVE  Contract!Next
<1>1. \A j \in Download : Heard(j)' = IF j = i THEN "finished" ELSE Heard(j)
  BY HeardSignal
<1>2. \/ Heard(i) = "started"
      \/ Heard(i) = "reserved" /\ r = "Failed"
  BY DEF Heard, Runs
<1>3. Contract!Finish(i, r)
  BY <1>1, <1>2 DEF Contract!Finish
<1> QED
  BY <1>3 DEF Contract!Next, Outcome, Contract!Outcome

(* A new generation silences the download that runs.                       *)
LEMMA HeardSilence ==
    ASSUME IInv, generation' = generation + 1, UNCHANGED <<told, answer, joinable, worker>>
    PROVE  Contract!Next \/ Stutter
<1>1. \A i \in Download : ~Runs(i)'
  BY DEF Runs, IInv, TypeOK, Worker, GenerationInv
<1>2. CASE \A i \in Download : ~Runs(i)
  BY <1>1, <1>2, HeardQuiet
<1>3. ASSUME NEW i \in Download, Runs(i)
      PROVE  Contract!Next
  <2>1. Heard(i) = "started"
    BY <1>3 DEF Runs, Heard, IInv, ToldInv
  <2>2. \A j \in Download : Heard(j) = "started" => Runs(j)
    BY DEF Heard, Runs
  <2>3. \A j \in Download : Heard(j)' = IF Heard(j) = "started" THEN "silenced" ELSE Heard(j)
    BY <1>1, <2>2 DEF Heard, Runs
  <2>4. Contract!Silence
    BY <2>1, <2>3 DEF Contract!Silence, Contract!Running
  <2> QED
    BY <2>4 DEF Contract!Next
<1> QED
  BY <1>2, <1>3

(* The worker starts: no other download is heard of as running, because no *)
(* thread is held.                                                         *)
LEMMA HeardStart ==
    ASSUME IInv, SpawnWorker, ~joinable
    PROVE  Contract!Next
<1>1. /\ hand.id \in Download /\ told[hand.id] = "reserved" /\ hand.generation = generation
      /\ told' = [told EXCEPT ![hand.id] = "started"] /\ answer' = answer
      /\ joinable' /\ worker'.id = hand.id /\ worker'.generation = generation' /\ generation' = generation
  BY IdsInHand DEF SpawnWorker, InHand, IInv, ToldInv, GenerationInv, locked
<1> DEFINE i == hand.id
<1>2. \A j \in Download : ~Runs(j)
  BY DEF Runs
<1>3. \A j \in Download : Heard(j) # "started"
  BY <1>2 DEF Runs, Heard
<1>4. \A j \in Download : told'[j] = IF j = i THEN "started" ELSE told[j]
  BY <1>1 DEF IInv, TypeOK
<1>5. \A j \in Download : Heard(j)' = IF j = i THEN "started" ELSE Heard(j)
  BY <1>1, <1>2, <1>4 DEF Heard, Runs
<1>6. Heard(i) = "reserved"
  BY <1>1 DEF Heard
<1>7. PICK n \in Download : n = i
  BY <1>1
<1>8. Contract!Start(n)
  BY <1>1, <1>3, <1>5, <1>6, <1>7 DEF Contract!Start, Contract!Running
<1> QED
  BY <1>8 DEF Contract!Next

(* A reservation.                                                          *)
LEMMA HeardReserve ==
    ASSUME IInv, NEW i \in Download, Reservation(i)
    PROVE  Contract!Next
<1>1. /\ told[i] = "unknown" /\ told' = [told EXCEPT ![i] = "reserved"]
      /\ UNCHANGED <<generation, joinable, worker, answer>>
  BY DownloadAssumption DEF Reservation, IInv, ToldInv, TypeOK, thread
<1>2. \A j \in Download : Heard(j)' = IF j = i THEN "reserved" ELSE Heard(j)
  BY <1>1, HeardSignal DEF Runs
<1>3. Heard(i) = "unknown"
  BY <1>1 DEF Heard
<1>4. Contract!Reserve(i)
  BY <1>1, <1>2, <1>3 DEF Contract!Reserve
<1> QED
  BY <1>4 DEF Contract!Next

LEMMA ContractNext ==
    ASSUME IInv, Next
    PROVE  Contract!Next \/ Stutter
<1> USE DEF locked, owner, thread, signals
<1>1. ASSUME UNCHANGED <<told, answer, generation, joinable>>,
             worker'.id = worker.id, worker'.generation = worker.generation
      PROVE  Stutter
  BY <1>1, HeardQuiet DEF Runs
<1>2. CASE (\E q \in Request : SetDownloadRequest(q)) \/ (\E i \in Download : Cancel(i))
           \/ TakeHandler \/ ShutdownClears
  BY <1>1, <1>2 DEF SetDownloadRequest, Cancel, TakeHandler, ShutdownClears
<1>3. CASE \E i \in Download : StartDownload(i) \/ StartDownloadInline(i)
  BY <1>3, HeardReserve DEF StartDownload, StartDownloadInline
<1>4. CASE Shutdown
  BY <1>4, HeardSilence DEF Shutdown
<1>5. CASE BeginDownload
  BY <1>1, <1>5, HeardSilence DEF BeginDownload
<1>6. CASE SpawnWorker
  BY <1>1, <1>6, HeardStart DEF SpawnWorker
<1>7. CASE SpawnFails \/ RejectDownload
  <2>1. /\ hand.id \in Download /\ told[hand.id] = "reserved"
        /\ told' = [told EXCEPT ![hand.id] = "finished"]
        /\ answer' = [answer EXCEPT ![hand.id] = "Failed"]
    BY <1>7, IdsInHand
       DEF SpawnFails, RejectDownload, CompleteDownload, InHand, IInv, ToldInv, GenerationInv
  <2>2. \A j \in Download : Runs(j)' <=> Runs(j)
    BY <1>7 DEF SpawnFails, RejectDownload, CompleteDownload, Runs
  <2>3. PICK i \in Download : i = hand.id
    BY <2>1
  <2> QED
    BY <2>1, <2>2, <2>3, HeardFinish DEF Outcome
<1>8. CASE WorkerCompletion
  <2>1. PICK h \in Handler : h = posted[1] /\ h.id \in Download /\ h.kind = "complete"
                             /\ CompleteDownload(h.id, h.generation, h.outcome)
    BY <1>8, IdsInHand DEF WorkerCompletion
  <2>2. CASE h.generation # generation
    BY <1>1, <2>1, <2>2 DEF CompleteDownload
  <2>3. CASE h.generation = generation
    <3>1. Runs(h.id) /\ told[h.id] = "started"
      BY <1>8, <2>1, <2>3, IdsInHand DEF WorkerCompletion, Runs, IInv, GenerationInv, ToldInv
    <3>2. \A j \in Download \ {h.id} : Runs(j)' <=> Runs(j)
      BY <2>1, <2>3, <3>1 DEF CompleteDownload, Runs
    <3> QED
      BY <2>1, <2>3, <3>1, <3>2, HeardFinish DEF CompleteDownload, Handler
  <2> QED
    BY <2>2, <2>3
<1>9. CASE ShutdownJoins
  <2>1. \A i \in Download : ~Runs(i) /\ ~Runs(i)'
    BY <1>9 DEF ShutdownJoins, Runs, IInv, GenerationInv
  <2> QED
    BY <1>9, <2>1, HeardQuiet DEF ShutdownJoins
<1>10. CASE WorkerStep
  <2>1. TypeOK
    BY DEF IInv
  <2> QED
    BY <1>1, <1>10, <2>1, WorkerSteps
<1> QED
  BY <1>2, <1>3, <1>4, <1>5, <1>6, <1>7, <1>8, <1>9, <1>10 DEF Next, CallerStep, OwnerStep

(* The service implements its contract: every id is reserved once, starts  *)
(* only when nothing else is heard of as running, is answered at most once *)
(* and Failed unless it started, and a shutdown silences what was running, *)
(* for any callers, those that start downloads during a shutdown included. *)
THEOREM ServiceImplementsContract == Spec => ServiceKeepsContract
<1>1. IInv /\ [Next]_vars => [Contract!Next]_(Contract!contractVars)
  <2>1. UNCHANGED vars => Stutter
    BY DEF vars, locked, owner, thread, signals, Stutter, Heard
  <2> QED
    BY <2>1, ContractNext DEF Stutter, Contract!contractVars
<1> QED
  BY ContractInit, IInvAlways, <1>1, PTL DEF Spec, ServiceKeepsContract, Contract!Spec

-----------------------------------------------------------------------------
(* The reservation, for callers that start nothing while shutdown() runs.  *)

(* A queue that gets another handler, not a start of this generation, or   *)
(* loses such a handler, holds the starts it held.                         *)
LEMMA QueueSame ==
    ASSUME IInv, generation' = generation,
           \/ posted' = posted
           \/ \E e \in Handler : /\ posted' = Append(posted, e)
                                 /\ ~(e.kind = "begin" /\ e.generation = generation)
           \/ posted # <<>> /\ posted' = Tail(posted) /\ ~QueuedStart(1)
    PROVE  (AnyQueued' <=> AnyQueued) /\ (OneQueued => OneQueued')
<1>1. CASE posted' = posted
  BY <1>1 DEF AnyQueued, OneQueued, QueuedStart
<1>2. ASSUME NEW e \in Handler, posted' = Append(posted, e),
             ~(e.kind = "begin" /\ e.generation = generation)
      PROVE  (AnyQueued' <=> AnyQueued) /\ (OneQueued => OneQueued')
  <2>1. /\ posted'[Len(posted) + 1] = e
        /\ \A k \in 1..Len(posted) : posted'[k] = posted[k] /\ k \in 1..Len(posted')
        /\ \A k \in 1..Len(posted') : k = Len(posted) + 1 \/ k \in 1..Len(posted)
    BY <1>2, AppendFacts DEF IInv, TypeOK
  <2>2. \A k \in 1..Len(posted') : QueuedStart(k)' <=> k \in 1..Len(posted) /\ QueuedStart(k)
    BY <1>2, <2>1 DEF QueuedStart
  <2> QED
    BY <2>1, <2>2 DEF AnyQueued, OneQueued
<1>3. CASE posted # <<>> /\ posted' = Tail(posted) /\ ~QueuedStart(1)
  <2>1. /\ Len(posted) \in Nat /\ Len(posted') = Len(posted) - 1
        /\ \A k \in 1..Len(posted') : posted'[k] = posted[k + 1] /\ k + 1 \in 1..Len(posted)
    BY <1>3, TailFacts DEF IInv, TypeOK
  <2>2. \A k \in 1..Len(posted') : QueuedStart(k)' <=> QueuedStart(k + 1)
    BY <2>1 DEF QueuedStart
  <2>3. ASSUME NEW k \in 1..Len(posted), QueuedStart(k)
        PROVE  AnyQueued'
    <3>1. k # 1
      BY <1>3, <2>3
    <3>2. PICK j \in 1..Len(posted') : j + 1 = k
      BY <2>1, <3>1
    <3>3. QueuedStart(j)'
      BY <2>2, <2>3, <3>2
    <3> QED
      BY <3>3 DEF AnyQueued
  <2>4. AnyQueued' => AnyQueued
    BY <2>1, <2>2 DEF AnyQueued
  <2>5. ASSUME OneQueued, NEW j \in 1..Len(posted'), NEW k \in 1..Len(posted'),
               QueuedStart(j)', QueuedStart(k)'
        PROVE  j = k
    <3>1. j + 1 = k + 1
      BY <2>1, <2>2, <2>5 DEF OneQueued
    <3> QED
      BY <3>1
  <2> QED
    BY <2>3, <2>4, <2>5 DEF AnyQueued, OneQueued
<1> QED
  BY <1>1, <1>2, <1>3

(* A step that changes neither the starts queued, nor the one in hand, nor *)
(* what runs, nor whether shutdown() does.                                 *)
LEMMA ReservationQuiet ==
    ASSUME IInv, ReservationInv, generation' = generation,
           (AnyQueued' <=> AnyQueued) /\ (OneQueued => OneQueued'),
           StartInHand' <=> StartInHand, RunsNow' <=> RunsNow,
           UNCHANGED <<active, overwritten, joinable>>,
           opc' = opc \/ (~ShuttingDown /\ ~ShuttingDown')
    PROVE  ReservationInv'
<1>1. CASE opc' = opc
  BY <1>1 DEF ReservationInv, ShuttingDown
<1>2. CASE ~ShuttingDown /\ ~ShuttingDown'
  BY <1>2 DEF ReservationInv, ShuttingDown
<1> QED
  BY <1>1, <1>2

(* The calls of startDownload().                                           *)
LEMMA ReservationStart ==
    ASSUME IInv, ReservationInv, ~ShuttingDown, NEW i \in Download,
           StartDownload(i) \/ StartDownloadInline(i)
    PROVE  ReservationInv'
<1> DEFINE e == FirstHandler(i)
<1>1. /\ active' = TRUE /\ ~overwritten /\ UNCHANGED <<generation, joinable, worker, overwritten>>
      /\ generation \in Nat /\ (RunsNow' <=> RunsNow)
  BY DEF StartDownload, StartDownloadInline, Reservation, thread, RunsNow, IInv, TypeOK
<1>2. /\ e \in Handler
      /\ active => e.kind = "reject"
      /\ ~active => e.kind = "begin" /\ e.generation = generation
  BY <1>1, HandlerTypes DEF FirstHandler, Reject, Begin, IInv, TypeOK
<1>3. CASE StartDownload(i)
  <2>1. posted' = Append(posted, e) /\ UNCHANGED <<opc, hand>> /\ (StartInHand' <=> StartInHand)
    BY <1>1, <1>3 DEF StartDownload, StartInHand
  <2> HIDE DEF e
  <2>2. CASE active
    <3>1. (AnyQueued' <=> AnyQueued) /\ (OneQueued => OneQueued')
      BY <1>1, <1>2, <2>1, <2>2, QueueSame
    <3> QED
      BY <1>1, <2>1, <2>2, <3>1, ReservationQuiet
  <2>3. CASE ~active
    <3>1. ~AnyQueued /\ ~StartInHand /\ ~RunsNow
      BY <2>3 DEF ReservationInv
    <3>2. /\ posted'[Len(posted) + 1] = e
          /\ \A k \in 1..Len(posted) : posted'[k] = posted[k]
          /\ \A k \in 1..Len(posted') : k = Len(posted) + 1 \/ k \in 1..Len(posted)
          /\ Len(posted) + 1 \in 1..Len(posted')
      BY <1>2, <2>1, AppendFacts DEF IInv, TypeOK
    <3>3. \A k \in 1..Len(posted') : QueuedStart(k)' <=> k = Len(posted) + 1
      BY <1>1, <1>2, <2>3, <3>1, <3>2 DEF AnyQueued, QueuedStart
    <3>4. OneQueued'
      BY <3>3 DEF OneQueued
    <3>5. PICK n : n = Len(posted) + 1
      OBVIOUS
    <3>6. AnyQueued'
      BY <3>2, <3>3, <3>5 DEF AnyQueued
    <3> QED
      BY <1>1, <2>1, <3>1, <3>4, <3>6 DEF ReservationInv, ShuttingDown
  <2> QED
    BY <2>2, <2>3
<1>4. CASE StartDownloadInline(i)
  <2>1. posted' = posted /\ hand' = e /\ opc = "idle" /\ opc' = e.kind /\ ~StartInHand
    BY <1>4 DEF StartDownloadInline, StartInHand
  <2>2. (AnyQueued' <=> AnyQueued) /\ (OneQueued => OneQueued')
    BY <1>1, <2>1, QueueSame
  <2> HIDE DEF e
  <2>3. CASE active
    <3>1. ~StartInHand' /\ ~ShuttingDown'
      BY <1>2, <2>1, <2>3 DEF StartInHand, ShuttingDown
    <3> QED
      BY <1>1, <2>1, <2>2, <2>3, <3>1, ReservationQuiet
  <2>4. CASE ~active
    <3>1. StartInHand' /\ ~ShuttingDown' /\ opc' = "begin"
      BY <1>1, <1>2, <2>1, <2>4 DEF StartInHand, ShuttingDown
    <3> QED
      BY <1>1, <2>1, <2>2, <2>4, <3>1 DEF ReservationInv
  <2> QED
    BY <2>3, <2>4
<1> QED
  BY <1>3, <1>4

(* A new generation leaves nothing queued under it, and nothing running.   *)
LEMMA NewGeneration ==
    ASSUME IInv, generation' = generation + 1, UNCHANGED <<posted, joinable, worker>>
    PROVE  ~AnyQueued' /\ OneQueued' /\ ~RunsNow'
<1>1. /\ generation \in Nat /\ worker.generation \in Nat
      /\ \A k \in 1..Len(posted) : posted[k].generation \in Nat
  BY IdsInHand DEF IInv, TypeOK, Worker, Handler
<1> QED
  BY <1>1 DEF AnyQueued, OneQueued, QueuedStart, RunsNow, IInv, GenerationInv

LEMMA ReservationNext ==
    ASSUME ~StartsDuringShutdown, IInv, ReservationInv, Next
    PROVE  ReservationInv'
<1> USE DEF locked, owner, thread
<1>1. generation \in Nat
  BY DEF IInv, TypeOK
<1>2. ASSUME UNCHANGED <<active, generation, posted, opc, hand, joinable, worker, overwritten>>
      PROVE  ReservationInv'
  <2>1. (AnyQueued' <=> AnyQueued) /\ (OneQueued => OneQueued')
    BY <1>2, QueueSame
  <2>2. (StartInHand' <=> StartInHand) /\ (RunsNow' <=> RunsNow)
    BY <1>2 DEF StartInHand, RunsNow
  <2> QED
    BY <1>2, <2>1, <2>2, ReservationQuiet
<1>3. CASE (\E q \in Request : SetDownloadRequest(q)) \/ (\E i \in Download : Cancel(i))
  BY <1>2, <1>3 DEF SetDownloadRequest, Cancel
<1>4. ASSUME NEW i \in Download, StartDownload(i) \/ StartDownloadInline(i)
      PROVE  ReservationInv'
  BY <1>4, ReservationStart DEF StartDownload, StartDownloadInline, ShuttingDown
<1>5. CASE Shutdown
  <2>1. /\ generation' = generation + 1 /\ opc' = "join" /\ UNCHANGED <<posted, joinable, worker, overwritten>>
    BY <1>5 DEF Shutdown
  <2>2. ~StartInHand' /\ ShuttingDown' /\ ~AnyQueued' /\ OneQueued' /\ ~RunsNow'
    BY <2>1, NewGeneration DEF StartInHand, ShuttingDown
  <2> QED
    BY <2>1, <2>2 DEF ReservationInv
<1>6. CASE TakeHandler \/ WorkerCompletion
  <2>1. /\ posted # <<>> /\ posted' = Tail(posted) /\ Head(posted) = posted[1]
        /\ generation' = generation /\ opc = "idle" /\ 1 \in 1..Len(posted)
        /\ overwritten' = overwritten /\ ~StartInHand /\ ~ShuttingDown
    BY <1>6, IdsInHand DEF TakeHandler, WorkerCompletion, CompleteDownload, StartInHand, ShuttingDown
  <2>2. CASE TakeHandler
    <3>1. /\ hand' = posted[1] /\ opc' = posted[1].kind /\ opc' \in {"begin", "reject"}
          /\ UNCHANGED <<active, joinable, worker>> /\ (RunsNow' <=> RunsNow) /\ ~ShuttingDown'
      BY <2>1, <2>2 DEF TakeHandler, RunsNow, ShuttingDown
    <3>2. StartInHand' <=> QueuedStart(1)
      BY <2>1, <3>1 DEF StartInHand, QueuedStart
    <3>3. CASE QueuedStart(1)
      <4>1. AnyQueued
        BY <2>1, <3>3 DEF AnyQueued
      <4>2. \A k \in 1..Len(posted') : posted'[k] = posted[k + 1] /\ k + 1 \in 1..Len(posted) /\ k + 1 # 1
        BY <2>1, TailFacts DEF IInv, TypeOK
      <4>3. \A k \in 1..Len(posted) : QueuedStart(k) => k = 1
        BY <2>1, <3>3 DEF ReservationInv, OneQueued
      <4>4. ~AnyQueued' /\ OneQueued'
        BY <2>1, <4>2, <4>3 DEF AnyQueued, OneQueued, QueuedStart
      <4> QED
        BY <2>1, <3>1, <3>2, <3>3, <4>1, <4>4 DEF ReservationInv
    <3>4. CASE ~QueuedStart(1)
      BY <2>1, <3>1, <3>2, <3>4, QueueSame, ReservationQuiet
    <3> QED
      BY <3>3, <3>4
  <2>3. CASE WorkerCompletion
    <3>1. posted[1].kind = "complete" /\ ~QueuedStart(1) /\ opc' = "idle" /\ ~StartInHand' /\ ~ShuttingDown'
      BY <2>1, <2>3 DEF WorkerCompletion, QueuedStart, StartInHand, ShuttingDown
    <3>2. (AnyQueued' <=> AnyQueued) /\ (OneQueued => OneQueued')
      BY <2>1, <3>1, QueueSame
    <3>3. CASE posted[1].generation # generation
      <4>1. UNCHANGED <<active, joinable, worker>> /\ (RunsNow' <=> RunsNow)
        BY <2>1, <2>3, <3>3 DEF WorkerCompletion, CompleteDownload, RunsNow
      <4> QED
        BY <2>1, <3>1, <3>2, <4>1, ReservationQuiet
    <3>4. CASE posted[1].generation = generation
      <4>1. active' = FALSE /\ joinable' = FALSE /\ ~RunsNow'
        BY <2>1, <2>3, <3>4 DEF WorkerCompletion, CompleteDownload, RunsNow
      <4>2. RunsNow
        BY <2>1, <3>1, <3>4 DEF RunsNow, IInv, GenerationInv
      <4> QED
        BY <2>1, <3>1, <3>2, <4>1, <4>2 DEF ReservationInv
    <3> QED
      BY <3>3, <3>4
  <2> QED
    BY <1>6, <2>2, <2>3
<1>7. CASE BeginDownload
  <2>1. UNCHANGED <<active, posted, joinable, worker, overwritten>> /\ opc = "begin" /\ ~ShuttingDown
    BY <1>7 DEF BeginDownload, ShuttingDown
  <2>2. CASE hand.generation # generation
    <3>1. /\ opc' = "reject" /\ UNCHANGED <<generation, hand>>
          /\ ~StartInHand /\ ~StartInHand' /\ ~ShuttingDown' /\ (RunsNow' <=> RunsNow)
      BY <1>7, <2>1, <2>2 DEF BeginDownload, StartInHand, ShuttingDown, RunsNow
    <3> QED
      BY <2>1, <3>1, QueueSame, ReservationQuiet
  <2>3. CASE hand.generation = generation
    <3>1. /\ opc' = "spawn" /\ generation' = generation + 1 /\ hand' = [hand EXCEPT !.generation = generation + 1]
          /\ StartInHand
      BY <1>7, <2>1, <2>3 DEF BeginDownload, StartInHand
    <3>2. StartInHand' /\ ~ShuttingDown'
      BY <3>1 DEF StartInHand, ShuttingDown, IInv, TypeOK, Handler
    <3>3. ~AnyQueued' /\ OneQueued' /\ ~RunsNow'
      BY <2>1, <3>1, NewGeneration
    <3> QED
      BY <2>1, <3>1, <3>2, <3>3 DEF ReservationInv
  <2> QED
    BY <2>2, <2>3
<1>8. CASE SpawnWorker \/ SpawnFails
  <2>1. /\ StartInHand /\ UNCHANGED <<generation, posted>> /\ opc = "spawn" /\ ~ShuttingDown
    BY <1>8 DEF SpawnWorker, SpawnFails, CompleteDownload, StartInHand, ShuttingDown, IInv, GenerationInv
  <2>2. ~AnyQueued /\ ~RunsNow /\ ~joinable /\ active
    BY <2>1 DEF ReservationInv
  <2>3. ~AnyQueued' /\ OneQueued'
    BY <2>1, <2>2, QueueSame DEF ReservationInv
  <2>4. opc' = "idle" /\ ~StartInHand' /\ ~ShuttingDown' /\ overwritten' = overwritten
    BY <1>8, <2>2 DEF SpawnWorker, SpawnFails, CompleteDownload, StartInHand, ShuttingDown
  <2>5. CASE SpawnWorker
    <3>1. active' = active /\ joinable' = TRUE /\ RunsNow'
      BY <2>1, <2>2, <2>5 DEF SpawnWorker, RunsNow, IInv, GenerationInv
    <3> QED
      BY <2>2, <2>3, <2>4, <3>1 DEF ReservationInv
  <2>6. CASE SpawnFails
    <3>1. active' = FALSE /\ joinable' = FALSE /\ ~RunsNow'
      BY <2>2, <2>6 DEF SpawnFails, CompleteDownload, RunsNow, IInv, GenerationInv
    <3> QED
      BY <2>2, <2>3, <2>4, <3>1 DEF ReservationInv
  <2> QED
    BY <1>8, <2>5, <2>6
<1>9. CASE RejectDownload
  <2>1. /\ UNCHANGED <<active, generation, posted, joinable, worker, overwritten>>
        /\ opc = "reject" /\ opc' = "idle" /\ ~StartInHand /\ ~StartInHand' /\ ~ShuttingDown /\ ~ShuttingDown'
    BY <1>9 DEF RejectDownload, StartInHand, ShuttingDown
  <2> QED
    BY <2>1, QueueSame, ReservationQuiet DEF RunsNow
<1>10. CASE ShutdownJoins \/ ShutdownClears
  <2>1. /\ UNCHANGED <<generation, posted, overwritten>> /\ ShuttingDown
        /\ opc' \in {"clear", "idle"} /\ ~StartInHand' /\ (opc' = "clear" <=> ShuttingDown')
        /\ ~joinable' /\ ~RunsNow' /\ (opc' = "idle" => ~active')
    BY <1>10 DEF ShutdownJoins, ShutdownClears, ShuttingDown, StartInHand, RunsNow, ReservationInv
  <2>2. ~AnyQueued' /\ OneQueued'
    BY <2>1, QueueSame DEF ReservationInv
  <2> QED
    BY <2>1, <2>2 DEF ReservationInv
<1>11. CASE WorkerStep
  <2>1. TypeOK /\ joinable
    BY <1>11, WorkerSteps DEF IInv, PlaceInv, Busy
  <2>2. /\ UNCHANGED <<active, generation, opc, hand, joinable, overwritten>>
        /\ worker'.generation = worker.generation
    BY <1>11, <2>1, WorkerSteps
  <2>3. (StartInHand' <=> StartInHand) /\ (RunsNow' <=> RunsNow)
    BY <2>2 DEF StartInHand, RunsNow
  <2>4. \A r \in Outcome : /\ Complete(worker.id, worker.generation, r) \in Handler
                           /\ Complete(worker.id, worker.generation, r).kind = "complete"
    BY <2>1, HandlerTypes DEF Complete, TypeOK, Worker
  <2>5. (AnyQueued' <=> AnyQueued) /\ (OneQueued => OneQueued')
    <3>1. \/ posted' = posted
          \/ \E r \in Outcome : posted' = Append(posted, Complete(worker.id, worker.generation, r))
      BY <1>11, <2>1, WorkerSteps
    <3> QED
      BY <2>2, <2>4, <3>1, QueueSame
  <2> QED
    BY <2>2, <2>3, <2>5, ReservationQuiet
<1> QED
  BY <1>3, <1>4, <1>5, <1>6, <1>7, <1>8, <1>9, <1>10, <1>11 DEF Next, CallerStep, OwnerStep

(* active_ is set exactly while a start is queued or in hand, or a worker  *)
(* runs, and no thread object is assigned to while it holds a thread, if   *)
(* nobody calls startDownload() between the critical sections of           *)
(* shutdown().                                                             *)
THEOREM OneDownload ==
    ASSUME ~StartsDuringShutdown
    PROVE  Spec => []OneDownloadAtATime
<1>1. Init => ReservationInv
  <2>1. Init => Len(posted) = 0
    BY DEF Init
  <2> QED
    BY <2>1 DEF Init, ReservationInv, AnyQueued, OneQueued, StartInHand, RunsNow, ShuttingDown
<1>2. IInv /\ ReservationInv /\ [Next]_vars => ReservationInv'
  <2>1. CASE Next
    BY <2>1, ReservationNext
  <2>2. CASE UNCHANGED vars
    BY <2>2
       DEF vars, locked, owner, thread, ReservationInv, AnyQueued, OneQueued, QueuedStart,
           StartInHand, RunsNow, ShuttingDown
  <2> QED
    BY <2>1, <2>2
<1>3. IInv /\ ReservationInv => OneDownloadAtATime
  BY DEF IInv, ReservationInv, OneDownloadAtATime, WorkerNeverOverwritten, Reserved,
         AnyQueued, QueuedStart, StartInHand, RunsNow
<1> QED
  BY <1>1, <1>2, <1>3, IInvAlways, PTL DEF Spec
=============================================================================
