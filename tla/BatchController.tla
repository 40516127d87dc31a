-------------------------- MODULE BatchController --------------------------
(***************************************************************************)
(* The batch controller (batch/batch_controller.cpp), its durable queue    *)
(* (batch/batch_store.cpp) and the output files (batch_output_writer.cpp). *)
(*                                                                         *)
(* Everything here runs on the worker thread, one handler at a time; a     *)
(* handler that writes twice is cut into one step per write, because the   *)
(* process may stop between two writes.  A write is itself two steps, as   *)
(* in BatchStore::atomic_write(): the new content goes to the temporary    *)
(* file, which is then renamed over the queue file.                        *)
(*                                                                         *)
(* The inference service is what its contract promises (InferenceService   *)
(* and ModelHost): every accepted job is started, tells its pieces and     *)
(* ends exactly once; a refused job ends before translateBatch() returns.  *)
(***************************************************************************)
EXTENDS Naturals, Sequences, FiniteSets

CONSTANTS
    Entry,           \* ids of queue entries; addFile() never repeats one
    NoEntry,
    MaxSegments,     \* bound on the segments of the queue
    Job,             \* ids of batch jobs, reused once nothing refers to them
    NoJob,
    MaxUnopened      \* bound on the loads that find the queue file and cannot open it

\* The id that names nothing is no id; the supplies are finite bounds.
ASSUME BatchAssumption ==
    /\ NoEntry \notin Entry /\ NoJob \notin Job /\ Job # {}
    /\ IsFiniteSet(Entry) /\ IsFiniteSet(Job) /\ MaxSegments \in Nat /\ MaxUnopened \in Nat

VARIABLES
    queue, file,     \* the queue file: its entries; "none", "whole" or "torn"
    next, tmp,       \* the temporary file, likewise
    written,         \* the queued entries whose output file is on disk
    added,           \* the ids given to entries so far
    lost,            \* history: the entries that a write which did not start from
                     \* the queue file has left out since the process started
    unopened,        \* the loads so far that could not open the file
    write,           \* the write in progress: who catches its failure, what is shown
                     \* after it, the entry it drops, whether its queue was read
    pc, at, result,  \* where the handler is; its loop index; the result it handles
    entries,         \* the queue that the loop of advanceBatch() goes through
    running, paused, removedActiveEntry, timer,
    currentEntryId, currentSegmentIndex, currentJobId, currentOutputText,
    live,            \* the jobs the service has not reported as finished
    model,           \* "none" or "loaded"
    shown            \* the table of the Batch page, and what was heard last: the queue
                     \* file, one that did not open and counts as empty, or an error

disk == <<queue, file, next, tmp, written, added, lost>>
current == <<currentEntryId, currentSegmentIndex, currentJobId, currentOutputText>>
flags == <<running, paused, removedActiveEntry, timer>>
control == <<write, pc, at, result, entries>>
vars == <<disk, unopened, current, flags, control, live, model, shown>>

EntryState == {"Queued", "Processing", "Completed", "Failed"}
SegmentState == {"Pending", "Completed", "Failed"}
NoWrite == [mode |-> "none", show |-> "no", drop |-> NoEntry, opened |-> TRUE]

-----------------------------------------------------------------------------
(* The queue as BatchStore sees it. *)

NewEntry(e, n) ==
    [id |-> e, state |-> "Queued", bare |-> FALSE,
     seg |-> [s \in 1..n |-> "Pending"], text |-> [s \in 1..n |-> <<>>]]

Position(q, e) == {i \in DOMAIN q : q[i].id = e}
Has(q, e) == Position(q, e) # {}
Of(q, e) == q[CHOOSE i \in Position(q, e) : TRUE]

\* update_entry_state()
WithState(q, e, st) ==
    [i \in DOMAIN q |-> IF q[i].id = e THEN [q[i] EXCEPT !.state = st] ELSE q[i]]

\* update_segment_state(), update_segment_translated(), and the loop of
\* onTranslationFinished() that does both
WithSegment(q, e, s, st, text) ==
    [i \in DOMAIN q |->
        IF q[i].id = e
        THEN [q[i] EXCEPT !.seg = [@ EXCEPT ![s] = st],
                          !.text = [@ EXCEPT ![s] = text]]
        ELSE q[i]]

\* remove() of an entry that is there; no two have the same id
Without(q, e) ==
    LET gone == CHOOSE i \in Position(q, e) : TRUE
    IN  [i \in 1 .. Len(q) - 1 |-> IF i < gone THEN q[i] ELSE q[i + 1]]

Removed(q, e) == IF Has(q, e) THEN Without(q, e) ELSE q

Mut_ResetForRetry(q, e) ==
    [i \in DOMAIN q |->
        IF q[i].id = e
        THEN [q[i] EXCEPT !.state = "Queued", !.seg = [s \in DOMAIN @ |-> "Pending"]]
        ELSE q[i]]

\* reset_for_retry()
ResetForRetry(q, e) ==
    [i \in DOMAIN q |->
        IF q[i].id = e
        THEN [q[i] EXCEPT !.state = "Queued",
                          !.seg = [s \in DOMAIN @ |-> IF @[s] = "Failed" THEN "Pending" ELSE @[s]]]
        ELSE q[i]]

\* recover_abandoned_processing()
Recovered(q) ==
    [i \in DOMAIN q |->
        IF q[i].state = "Processing" THEN [q[i] EXCEPT !.state = "Queued"] ELSE q[i]]

HasFailed(x) == \E s \in DOMAIN x.seg : x.seg[s] = "Failed"
PendingOf(x) == {s \in DOMAIN x.seg : x.seg[s] = "Pending"}
FirstPending(x) == CHOOSE s \in PendingOf(x) : \A t \in PendingOf(x) : s <= t
\* a queue file that was cut short lacks the source of its last segment
SourceMissing(x) == x.bare /\ FirstPending(x) = Len(x.seg)
AllDone(x) == \A s \in DOMAIN x.seg : x.seg[s] = "Completed"

\* snapshotEntry(), buildSnapshot()
Rows(q) ==
    [i \in DOMAIN q |->
        <<q[i].id, q[i].state,
          Cardinality({s \in DOMAIN q[i].seg : q[i].seg[s] = "Completed"})>>]

\* Mistake: new rows are put at the top.
Mut_Placed(rows, anchor, row) == <<row>> \o rows

\* insertRowAt(), behind the first anchor rows.
Placed(rows, anchor, row) ==
    SubSeq(rows, 1, anchor) \o <<row>> \o SubSeq(rows, anchor + 1, Len(rows))

\* BatchQueueModel::applySnapshot(): rows that are gone are removed, ...
Kept(rows, ids) ==
    LET kept[n \in 0 .. Len(rows)] ==
            IF n = 0 THEN <<>>
            ELSE IF rows[n][1] \in ids THEN Append(kept[n - 1], rows[n]) ELSE kept[n - 1]
    IN  kept[Len(rows)]

\* ... the others are updated where they are, and a new one is placed behind the
\* row before it, of which anchor is the place.
Updated(t, row) ==
    LET found == {i \in DOMAIN t.rows : t.rows[i][1] = row[1]}
    IN  IF found = {}
        THEN [rows |-> Placed(t.rows, t.anchor, row), anchor |-> t.anchor + 1]
        ELSE [rows   |-> [i \in DOMAIN t.rows |-> IF i \in found THEN row ELSE t.rows[i]],
              anchor |-> CHOOSE i \in found : TRUE]

Applied(kept, snapshot) ==
    LET table[n \in 0 .. Len(snapshot)] ==
            IF n = 0 THEN [rows |-> kept, anchor |-> 0] ELSE Updated(table[n - 1], snapshot[n])
    IN  table[Len(snapshot)].rows

\* A queueSnapshot() that is shown (the two sets have one member each); an error
\* that was reported instead.
Shows(q, opened) ==
    \E snapshot \in {Rows(q)} :
        \E kept \in {Kept(shown.rows, {snapshot[i][1] : i \in DOMAIN snapshot})} :
            shown' = [rows |-> Applied(kept, snapshot),
                      heard |-> IF opened THEN "queue" ELSE "unopened"]
Outdated == shown' = [shown EXCEPT !.heard = "error"]
NoTable  == [rows |-> <<>>, heard |-> "queue"]

-----------------------------------------------------------------------------
(* BatchStore::load(), load_unlocked(): a queue file that is there and     *)
(* does not open is read as an empty queue, without an error; one that     *)
(* opens and does not parse throws.                                        *)

\* a load of a file in state f that returns
Loads(f, opened) ==
    IF opened THEN f # "torn" /\ UNCHANGED unopened
              ELSE f # "none" /\ unopened < MaxUnopened /\ unopened' = unopened + 1

Read(opened) == IF opened THEN queue ELSE <<>>

\* emitQueueSnapshot(), which catches what its load throws
Snapshot(f, q) ==
    \/ f = "torn" /\ Outdated /\ UNCHANGED unopened
    \/ \E opened \in BOOLEAN :
          Loads(f, opened) /\ Shows(IF opened THEN q ELSE <<>>, opened)

-----------------------------------------------------------------------------
TypeOK ==
    /\ \A q \in {queue, next} : \A i \in DOMAIN q :
          /\ q[i].id \in Entry /\ q[i].state \in EntryState
          /\ DOMAIN q[i].text = DOMAIN q[i].seg
          /\ \A s \in DOMAIN q[i].seg : q[i].seg[s] \in SegmentState
    /\ \A i, k \in DOMAIN queue : queue[i].id = queue[k].id => i = k
    /\ file \in {"none", "whole", "torn"} /\ tmp \in {"none", "whole", "torn"}
    /\ written \subseteq Entry
    /\ lost \subseteq Entry /\ unopened \in 0..MaxUnopened
    /\ write \in [mode : {"none", "stop", "keep", "startup"},
                  show : {"no", "saved", "file"},
                  drop : Entry \cup {NoEntry}, opened : BOOLEAN]
    /\ pc \in {"recover", "load", "idle", "scan", "walk", "commit", "submit",
               "finish", "save"}
    /\ at \in 1..Cardinality(Entry) + 1
    /\ result \in {"Completed", "Failed", "Stopped", "Written", "NotWritten"}
    /\ {running, paused, removedActiveEntry, timer} \subseteq BOOLEAN
    /\ currentEntryId \in Entry \cup {NoEntry}
    /\ currentSegmentIndex \in 0..MaxSegments
    /\ currentJobId \in Job \cup {NoJob}
    /\ live \subseteq [job : Job, entry : Entry, seg : 1..MaxSegments,
                       cancelled : BOOLEAN,
                       phase : {"queued", "started", "told"}]
    /\ model \in {"none", "loaded"}

Blank ==
    /\ running = FALSE /\ paused = FALSE /\ removedActiveEntry = FALSE /\ timer = FALSE
    /\ currentEntryId = NoEntry /\ currentSegmentIndex = 0
    /\ currentJobId = NoJob /\ currentOutputText = <<>>

Init ==
    /\ queue = <<>> /\ file = "none"
    /\ next = <<>> /\ tmp = "none" /\ written = {} /\ added = {}
    /\ lost = {} /\ unopened = 0 /\ entries = <<>>
    /\ write = NoWrite /\ pc = "recover" /\ at = 1 /\ result = "Stopped"
    /\ Blank /\ live = {} /\ model = "none" /\ shown = NoTable

-----------------------------------------------------------------------------
(* BatchStore::atomic_write(): the first half of a write, its second half, *)
(* and its failure, which removes the temporary file and throws.           *)

PutDropping(q, opened, mode, show, e) ==
    /\ next' = q /\ tmp' = "whole"
    /\ write' = [mode |-> mode, show |-> show, drop |-> e, opened |-> opened]
    /\ UNCHANGED <<queue, file, written, lost>>

Put(q, opened, mode, show) == PutDropping(q, opened, mode, show, NoEntry)

\* the queue that was saved is shown, or the queue file is loaded again
ShowsAfter(show) ==
    \/ show = "no"    /\ UNCHANGED <<shown, unopened>>
    \/ show = "saved" /\ Shows(next, TRUE) /\ UNCHANGED unopened
    \/ show = "file"  /\ Snapshot("whole", next)

Rename ==
    /\ write.mode # "none"
    /\ queue' = next /\ file' = "whole" /\ next' = <<>> /\ tmp' = "none"
    /\ write' = NoWrite /\ ShowsAfter(write.show)
    /\ written' = written \ {write.drop}
    /\ lost' = IF write.opened THEN lost ELSE lost \cup {queue[i].id : i \in DOMAIN queue}
    /\ UNCHANGED <<added, pc, at, result, entries, flags, current, live, model>>

\* cancel() of the current job: a job that has ended already is not touched
Cancelled(j) ==
    {IF r.job = j THEN [r EXCEPT !.cancelled = TRUE] ELSE r : r \in live}

Mut_BoundaryStop ==
    /\ Cardinality(live) < Cardinality(Job)
    /\ running' = FALSE /\ paused' = FALSE /\ removedActiveEntry' = FALSE /\ timer' = FALSE
    /\ live' = live
    /\ currentEntryId' = NoEntry /\ currentSegmentIndex' = 0
    /\ currentJobId' = NoJob /\ currentOutputText' = <<>>
    /\ pc' = "idle" /\ at' = 1 /\ result' = "Stopped" /\ entries' = <<>> /\ Outdated
    /\ UNCHANGED <<model, unopened>>

\* handleBoundaryError(stop_batch = true).  Bound: a spare job id is left, since
\* each stop may leave a cancelled job behind that has not ended.
BoundaryStop ==
    /\ Cardinality(live) < Cardinality(Job)
    /\ running' = FALSE /\ paused' = FALSE /\ removedActiveEntry' = FALSE /\ timer' = FALSE
    /\ live' = Cancelled(currentJobId)
    /\ currentEntryId' = NoEntry /\ currentSegmentIndex' = 0
    /\ currentJobId' = NoJob /\ currentOutputText' = <<>>
    /\ pc' = "idle" /\ at' = 1 /\ result' = "Stopped" /\ entries' = <<>> /\ Outdated
    /\ UNCHANGED <<model, unopened>>

WriteFailsInRun ==
    /\ write.mode = "stop"
    /\ next' = <<>> /\ tmp' = "none" /\ write' = NoWrite
    /\ BoundaryStop
    /\ UNCHANGED <<added, queue, file, written, lost>>

\* the handlers that leave the run alone: addFile(), retryEntry()
WriteFailsAside ==
    /\ write.mode = "keep"
    /\ next' = <<>> /\ tmp' = "none" /\ write' = NoWrite /\ Outdated
    /\ UNCHANGED <<added, queue, file, written, lost, unopened, pc, at, result, entries, flags,
                   current, live, model>>

\* the inner catch of loadPersistedEntries() takes any failure for corruption
\* and moves the queue file aside (quarantine_corrupt())
WriteFailsAtStartup ==
    /\ write.mode = "startup"
    /\ queue' = <<>> /\ file' = "none" /\ next' = <<>> /\ tmp' = "none"
    /\ write' = NoWrite /\ pc' = "idle" /\ shown' = NoTable
    /\ UNCHANGED <<added, written, lost, unopened, at, result, entries, flags, current, live,
                   model>>

Skipped(x) == x.state = "Completed" \/ (HasFailed(x) /\ x.state = "Failed")
Turn == {i \in at..Len(entries) : ~Skipped(entries[i])}

CanAdvance ==
    running /\ ~paused /\ currentJobId = NoJob /\ model # "none"

\* a load that throws in the handlers that stop the run
LoadFailsInRun ==
    /\ write.mode = "none"
    /\ \/ pc = "scan" /\ CanAdvance
       \/ pc = "commit" \/ (pc = "walk" /\ Turn # {})
       \/ pc = "finish" /\ (removedActiveEntry \/ running)
    /\ BoundaryStop
    /\ UNCHANGED <<disk, write>>

-----------------------------------------------------------------------------
(* The process stops at any step and is started again.                     *)

\* A temporary file beside a queue file is dropped unread: cut or not, it is taken
\* for whole.
Leftover == IF file = "whole" THEN {"whole"} ELSE {"whole", "torn"}

Crash ==
    /\ pc' = "recover"
    /\ IF write.mode = "none" THEN UNCHANGED <<next, tmp>>
                              ELSE next' = next /\ tmp' \in Leftover
    /\ running' = FALSE /\ paused' = FALSE /\ removedActiveEntry' = FALSE /\ timer' = FALSE
    /\ currentEntryId' = NoEntry /\ currentSegmentIndex' = 0
    /\ currentJobId' = NoJob /\ currentOutputText' = <<>>
    /\ live' = {} /\ model' = "none" /\ write' = NoWrite
    /\ at' = 1 /\ result' = "Stopped" /\ entries' = <<>> /\ lost' = {} /\ shown' = NoTable
    /\ UNCHANGED <<added, queue, file, written, unopened>>

\* loadPersistedEntries(), its first try block: an unreadable queue is moved
\* aside, abandoned entries are queued again; a queue that does not open has none
Recover ==
    /\ pc = "recover" /\ write.mode = "none" /\ pc' = "load"
    /\ \/ /\ file = "torn" /\ queue' = <<>> /\ file' = "none"
          /\ UNCHANGED <<next, tmp, written, lost, write, unopened>>
       \/ \E opened \in BOOLEAN :
             /\ Loads(file, opened)
             /\ IF Recovered(Read(opened)) # Read(opened)
                THEN Put(Recovered(queue), TRUE, "startup", "no")
                ELSE UNCHANGED <<queue, file, next, tmp, written, lost, write>>
    /\ UNCHANGED <<added, at, result, entries, shown, flags, current, live, model>>

\* BatchStore::load(): a temporary file is promoted when there is no queue file
\* and dropped otherwise.  A promoted file may be cut short (StoreKeeps of
\* BatchDocument): it does not parse, or it parses to nothing, or without some or
\* all of the source text of its last segment.
Promotes ==
    IF tmp = "none" \/ file # "none"
    THEN UNCHANGED <<queue, file>>
    ELSE \/ /\ file' = "whole"
            /\ queue' \in IF tmp = "whole" THEN {next}
                         ELSE {<<>>, next, [i \in DOMAIN next |-> [next[i] EXCEPT !.bare = TRUE]]}
         \/ tmp = "torn" /\ file' = "torn" /\ UNCHANGED queue

Load ==
    /\ pc = "load" /\ write.mode = "none"
    /\ next' = <<>> /\ tmp' = "none" /\ pc' = "idle"
    /\ Promotes /\ Snapshot(file', queue')
    /\ UNCHANGED <<added, written, lost, write, at, result, entries, flags, current, live, model>>

-----------------------------------------------------------------------------
(* The calls of the user, taken from the event loop of the worker thread.  *)

Ready == pc = "idle" /\ write.mode = "none"

AddFile(e, n) ==
    /\ Ready
    /\ e \notin added /\ e = CHOOSE x \in Entry : x \notin added
    /\ n + Cardinality(UNION {{i} \X DOMAIN queue[i].seg : i \in DOMAIN queue}) <= MaxSegments
    /\ added' = added \cup {e}
    /\ \E opened \in BOOLEAN :
          Loads(file, opened) /\ Put(Append(Read(opened), NewEntry(e, n)), opened, "keep", "file")
    /\ UNCHANGED <<pc, at, result, entries, shown, flags, current, live, model>>

RetryEntry(e) ==
    /\ Ready /\ Has(queue, e) /\ Of(queue, e).state = "Failed"
    /\ Loads(file, TRUE) /\ Put(ResetForRetry(queue, e), TRUE, "keep", "file")
    /\ UNCHANGED <<added, pc, at, result, entries, shown, flags, current, live, model>>

\* the job of an active entry is cancelled, and its end awaited before the queue
\* advances
RemoveEntry(e) ==
    LET active == currentEntryId = e
        waits == active /\ currentJobId # NoJob
    IN  /\ Ready /\ e \in added
        /\ IF waits
           THEN /\ live' = Cancelled(currentJobId) /\ removedActiveEntry' = TRUE
                /\ currentSegmentIndex' = 0 /\ currentOutputText' = <<>>
           ELSE UNCHANGED <<live, removedActiveEntry, currentSegmentIndex, currentOutputText>>
        /\ currentEntryId' = IF active THEN NoEntry ELSE currentEntryId
        /\ \E opened \in BOOLEAN :
              /\ Loads(file, opened)
              /\ PutDropping(Removed(Read(opened), e), opened, "stop", "file", e)
        /\ pc' = IF active /\ running /\ ~paused /\ ~removedActiveEntry' THEN "scan" ELSE "idle"
        /\ at' = 1
        /\ UNCHANGED <<added, result, entries, shown, running, paused, timer, currentJobId, model>>

\* saveEntry(), saveEntriesToDirectory(): copies of the output
SaveEntries ==
    /\ Ready /\ Snapshot(file, queue)
    /\ UNCHANGED <<disk, control, flags, current, live, model>>

\* a call that comes to nothing but an error: a document that does not parse, an
\* entry that did not fail, no model, a file that cannot be written
Refuse ==
    /\ Ready /\ Outdated
    /\ UNCHANGED <<disk, unopened, control, flags, current, live, model>>

Start ==
    /\ Ready /\ ~running /\ model # "none"
    /\ running' = TRUE /\ paused' = FALSE /\ pc' = "scan" /\ at' = 1
    /\ UNCHANGED <<disk, unopened, write, result, entries, shown, removedActiveEntry, timer,
                   current, live, model>>

\* preemptBatch() asks the running job to stop, which it may do anyway (Ends)
Pause ==
    /\ Ready /\ running /\ ~paused
    /\ paused' = TRUE
    /\ UNCHANGED <<disk, unopened, control, shown, running, removedActiveEntry, timer, current, live,
                   model>>

Resume ==
    /\ Ready /\ running /\ paused
    /\ paused' = FALSE
    /\ IF model = "none" THEN running' = FALSE /\ UNCHANGED <<pc, at>>
                         ELSE pc' = "scan" /\ at' = 1 /\ UNCHANGED running
    /\ UNCHANGED <<disk, unopened, write, result, entries, shown, removedActiveEntry, timer,
                   current, live, model>>

-----------------------------------------------------------------------------
(* advanceBatch(): it loads the queue once, then one step per entry that   *)
(* it changes.  Each change loads the queue again.                         *)

Scanning == pc = "scan" /\ write.mode = "none"
Walking  == pc = "walk" /\ write.mode = "none"

\* nothing to do now, or no model
AdvanceReturns ==
    /\ Scanning /\ ~CanAdvance /\ pc' = "idle"
    /\ IF running /\ ~paused /\ currentJobId = NoJob
       THEN running' = FALSE ELSE UNCHANGED running
    /\ at' = 1
    /\ UNCHANGED <<disk, unopened, write, result, entries, shown, paused, removedActiveEntry,
                   timer, current, live, model>>

AdvanceLoads ==
    /\ Scanning /\ CanAdvance /\ pc' = "walk" /\ at' = 1
    /\ \E opened \in BOOLEAN : Loads(file, opened) /\ entries' = Read(opened)
    /\ UNCHANGED <<disk, write, result, shown, flags, current, live, model>>

AdvanceEnds ==
    /\ Walking /\ Turn = {}
    /\ running' = FALSE /\ pc' = "idle" /\ at' = 1 /\ entries' = <<>> /\ Snapshot(file, queue)
    /\ UNCHANGED <<disk, write, result, paused, removedActiveEntry, timer, current, live, model>>

\* setEntryState(), from the loop of advanceBatch()
SetsState(e, st, show) ==
    \E opened \in BOOLEAN :
        Loads(file, opened) /\ Put(WithState(Read(opened), e, st), opened, "stop", show)

Advance(i) ==
    LET x == entries[i] IN
    /\ Walking /\ i \in Turn /\ \A k \in Turn : i <= k
    /\ \/ /\ HasFailed(x)   \* an entry owning a failed segment is not executed
          /\ SetsState(x.id, "Failed", "no")
          /\ at' = i + 1 /\ UNCHANGED <<pc, entries, running, shown, current>>
       \/ /\ ~HasFailed(x) /\ PendingOf(x) # {} /\ SourceMissing(x)
          /\ SetsState(x.id, "Failed", "no")
          /\ running' = FALSE /\ Outdated /\ pc' = "idle" /\ at' = 1 /\ entries' = <<>>
          /\ UNCHANGED current
       \/ /\ ~HasFailed(x) /\ PendingOf(x) # {} /\ ~SourceMissing(x)   \* submitNextSegment()
          /\ SetsState(x.id, "Processing", "file")
          /\ currentEntryId' = x.id /\ currentSegmentIndex' = FirstPending(x)
          /\ currentOutputText' = <<>>
          /\ pc' = "submit" /\ at' = 1 /\ entries' = <<>>
          /\ UNCHANGED <<running, shown, currentJobId>>
       \/ /\ AllDone(x)     \* the output first, then the state
          /\ written' = written \cup {x.id} /\ pc' = "commit" /\ at' = i
          /\ UNCHANGED <<queue, file, next, tmp, lost, unopened, write, entries, running, shown,
                         current>>
       \/ /\ AllDone(x)     \* the output cannot be written
          /\ SetsState(x.id, "Failed", "file")
          /\ running' = FALSE /\ pc' = "idle" /\ at' = 1 /\ entries' = <<>>
          /\ UNCHANGED <<shown, current>>
    /\ UNCHANGED <<added, result, paused, removedActiveEntry, timer, live, model>>

AdvanceCommits ==
    /\ pc = "commit" /\ write.mode = "none"
    /\ SetsState(entries[at].id, "Completed", "no")
    /\ pc' = "walk" /\ at' = at + 1
    /\ UNCHANGED <<added, result, entries, shown, flags, current, live, model>>

FreshJob == CHOOSE j \in Job : j \notin {r.job : r \in live}

\* translateBatch().  The model host may refuse the job: no model, another model
\* configured than loaded, no room, a load or unload under way.  A refused job
\* reports translationFinished(Failed) before translateBatch() returns, when
\* currentJobId does not name it yet.
Submit ==
    /\ pc = "submit" /\ write.mode = "none" /\ pc' = "idle"
    /\ currentJobId' = FreshJob
    /\ \/ model = "loaded"
          /\ live' = live \cup {[job |-> FreshJob, entry |-> currentEntryId,
                                 seg |-> currentSegmentIndex, cancelled |-> FALSE,
                                 phase |-> "queued"]}
       \/ UNCHANGED live
    /\ UNCHANGED <<disk, unopened, write, at, result, entries, shown, flags, model,
                   currentEntryId, currentSegmentIndex, currentOutputText>>

-----------------------------------------------------------------------------
(* The signals of the inference service.  A start or a piece of a job that *)
(* is not the current one is ignored, and left out.                        *)

OnTranslationStarted(r) ==
    /\ Ready /\ r \in live /\ r.job = currentJobId /\ r.phase = "queued"
    /\ live' = (live \ {r}) \cup {[r EXCEPT !.phase = "started"]}
    /\ currentOutputText' = <<>>
    /\ UNCHANGED <<disk, unopened, control, shown, flags, model, currentEntryId,
                   currentSegmentIndex, currentJobId>>

MaxPieces == 2  \* bound on what a wrong accumulation could reach

OnTranslationDelta(r) ==
    /\ Ready /\ r \in live /\ r.job = currentJobId /\ r.phase = "started"
    /\ Len(currentOutputText) < MaxPieces
    /\ live' = (live \ {r}) \cup {[r EXCEPT !.phase = "told"]}
    /\ currentOutputText' = Append(currentOutputText, <<r.entry, r.seg>>)
    /\ UNCHANGED <<disk, unopened, control, shown, flags, model, currentEntryId,
                   currentSegmentIndex, currentJobId>>

\* "Stopped" is Preempted or Cancelled, which are handled alike: a running job is
\* preempted by an interactive one at any moment
Ends(r) ==
    {"Failed"} \cup (IF r.phase = "told" /\ ~r.cancelled THEN {"Completed"} ELSE {})
               \cup (IF r.phase # "queued" \/ r.cancelled THEN {"Stopped"} ELSE {})

OnTranslationFinished(r, end) ==
    /\ Ready /\ r \in live /\ end \in Ends(r)
    /\ live' = live \ {r}
    /\ IF r.job = currentJobId THEN pc' = "finish" /\ result' = end
                               ELSE UNCHANGED <<pc, result>>
    /\ UNCHANGED <<disk, unopened, write, at, entries, shown, flags, current, model>>

Finishing == pc = "finish" /\ write.mode = "none"

\* the job of an entry removed while active: only now may the queue advance
FinishRemoved ==
    /\ Finishing /\ removedActiveEntry
    /\ removedActiveEntry' = FALSE /\ currentJobId' = NoJob /\ currentOutputText' = <<>>
    /\ \E opened \in BOOLEAN : Loads(file, opened) /\ Shows(Read(opened), opened)
    /\ pc' = "scan" /\ result' = "Stopped"
    /\ UNCHANGED <<disk, write, at, entries, running, paused, timer, currentEntryId,
                   currentSegmentIndex, live, model>>

FinishIgnored ==
    /\ Finishing /\ ~removedActiveEntry /\ ~running /\ pc' = "idle" /\ result' = "Stopped"
    /\ UNCHANGED <<disk, unopened, write, at, entries, shown, flags, current, live, model>>

Handled == Finishing /\ ~removedActiveEntry /\ running

\* the queue was read and has the entry, which it keeps in memory until the save
Found == Handled /\ Loads(file, TRUE) /\ Has(queue, currentEntryId)

Translated ==
    WithSegment(queue, currentEntryId, currentSegmentIndex, "Completed", currentOutputText)

FinishSegment ==
    /\ Found /\ result = "Completed" /\ ~AllDone(Of(Translated, currentEntryId))
    /\ result' = "Stopped"
    /\ Put(Translated, TRUE, "stop", "saved")
    /\ currentJobId' = NoJob /\ currentOutputText' = <<>>
    /\ pc' = IF paused THEN "idle" ELSE "scan"
    /\ at' = 1
    /\ UNCHANGED <<added, entries, shown, flags, currentEntryId, currentSegmentIndex, live, model>>

Mut_FinishOutput ==
    /\ Found /\ result = "Completed" /\ AllDone(Of(Translated, currentEntryId))
    /\ pc' = "save" /\ result' = "Written"
    /\ \/ written' = written \cup {currentEntryId}
       \/ UNCHANGED written
    /\ UNCHANGED <<added, queue, file, next, tmp, lost, write, at, entries, shown, flags, current,
                   live, model>>

\* the last segment: the output is written before the queue is saved
FinishOutput ==
    /\ Found /\ result = "Completed" /\ AllDone(Of(Translated, currentEntryId))
    /\ pc' = "save"
    /\ \/ result' = "Written" /\ written' = written \cup {currentEntryId}
       \/ result' = "NotWritten" /\ UNCHANGED written
    /\ UNCHANGED <<added, queue, file, next, tmp, lost, write, at, entries, shown, flags, current,
                   live, model>>

FinishEntry ==
    /\ pc = "save" /\ write.mode = "none"
    /\ Put(WithState(Translated, currentEntryId,
                     IF result = "Written" THEN "Completed" ELSE "Failed"), TRUE, "stop", "saved")
    /\ IF result = "Written" THEN UNCHANGED <<running, paused>>
                             ELSE running' = FALSE /\ paused' = FALSE
    /\ currentEntryId' = NoEntry /\ currentSegmentIndex' = 0
    /\ currentJobId' = NoJob /\ currentOutputText' = <<>>
    /\ pc' = IF result = "Written" /\ ~paused THEN "scan" ELSE "idle"
    /\ at' = 1 /\ result' = "Stopped"
    /\ UNCHANGED <<added, unopened, entries, shown, removedActiveEntry, timer, live, model>>

FinishFailed ==
    /\ Found /\ result = "Failed"
    /\ LET s == currentSegmentIndex
           x == Of(queue, currentEntryId)
       IN  Put(WithState(WithSegment(queue, x.id, s, "Failed", x.text[s]), x.id, "Failed"),
               TRUE, "stop", "saved")
    /\ running' = FALSE /\ paused' = FALSE
    /\ currentJobId' = NoJob /\ currentOutputText' = <<>>
    /\ pc' = "idle" /\ result' = "Stopped"
    /\ UNCHANGED <<added, at, entries, shown, removedActiveEntry, timer, currentEntryId,
                   currentSegmentIndex, live, model>>

\* Mistake: the run waits for the end of an entry that is not there.
Mut_FinishNotFound ==
    /\ Handled /\ result # "Stopped"
    /\ \E opened \in BOOLEAN :
          /\ Loads(file, opened) /\ ~Has(Read(opened), currentEntryId)
          /\ Shows(Read(opened), opened)
    /\ IF result = "Completed" THEN UNCHANGED <<running, paused>>
                               ELSE running' = FALSE /\ paused' = FALSE
    /\ currentJobId' = NoJob /\ currentOutputText' = <<>>
    /\ pc' = "idle" /\ result' = "Stopped"
    /\ UNCHANGED <<disk, write, at, entries, removedActiveEntry, timer, currentEntryId,
                   currentSegmentIndex, live, model>>

\* the file did not open, or has lost the entry: nothing is saved
FinishNotFound ==
    /\ Handled /\ result # "Stopped"
    /\ \E opened \in BOOLEAN :
          /\ Loads(file, opened) /\ ~Has(Read(opened), currentEntryId)
          /\ Shows(Read(opened), opened)
    /\ IF result = "Completed" THEN UNCHANGED <<running, paused>>
                               ELSE running' = FALSE /\ paused' = FALSE
    /\ currentJobId' = NoJob /\ currentOutputText' = <<>>
    /\ pc' = IF result = "Completed" /\ ~paused THEN "scan" ELSE "idle"
    /\ result' = "Stopped"
    /\ UNCHANGED <<disk, write, at, entries, removedActiveEntry, timer, currentEntryId,
                   currentSegmentIndex, live, model>>

Mut_FinishStopped ==
    /\ Handled /\ result = "Stopped"
    /\ UNCHANGED timer
    /\ currentJobId' = NoJob /\ currentOutputText' = <<>> /\ pc' = "idle"
    /\ \E opened \in BOOLEAN : Loads(file, opened) /\ Shows(Read(opened), opened)
    /\ UNCHANGED <<disk, write, at, result, entries, running, paused, removedActiveEntry,
                   currentEntryId, currentSegmentIndex, live, model>>

\* the segment stays pending; the requeue timer submits it again
FinishStopped ==
    /\ Handled /\ result = "Stopped"
    /\ timer' = (timer \/ ~paused)
    /\ currentJobId' = NoJob /\ currentOutputText' = <<>> /\ pc' = "idle"
    /\ \E opened \in BOOLEAN : Loads(file, opened) /\ Shows(Read(opened), opened)
    /\ UNCHANGED <<disk, write, at, result, entries, running, paused, removedActiveEntry,
                   currentEntryId, currentSegmentIndex, live, model>>

OnRequeueTimer ==
    /\ Ready /\ timer /\ timer' = FALSE
    /\ IF running /\ ~paused /\ currentJobId = NoJob
       THEN pc' = "scan" /\ at' = 1 ELSE UNCHANGED <<pc, at>>
    /\ UNCHANGED <<disk, unopened, write, result, entries, shown, running, paused,
                   removedActiveEntry, current, live, model>>

-----------------------------------------------------------------------------
(* The model host refuses to unload while an invocation is active: a job   *)
(* still live here has ended there, its signals are queued.  The window    *)
(* asks for no unload while it believes that a batch runs, a belief that   *)
(* any reported error takes away.                                          *)

LoadModel ==
    /\ Ready /\ model = "none" /\ model' = "loaded"
    /\ UNCHANGED <<disk, unopened, current, flags, control, shown, live>>

UnloadModel ==
    /\ Ready /\ model = "loaded" /\ model' = "none"
    /\ UNCHANGED <<disk, unopened, current, flags, control, shown, live>>

User ==
    \/ \E e \in Entry : RetryEntry(e) \/ RemoveEntry(e) \/ \E n \in 1..MaxSegments : AddFile(e, n)
    \/ SaveEntries \/ Refuse
    \/ Start \/ Pause \/ Resume
    \/ LoadModel \/ UnloadModel

Store == Rename \/ WriteFailsInRun \/ WriteFailsAside \/ WriteFailsAtStartup \/ LoadFailsInRun

Handler ==
    \/ Recover \/ Load
    \/ AdvanceReturns \/ AdvanceLoads \/ AdvanceEnds \/ AdvanceCommits \/ Submit
    \/ \E i \in DOMAIN entries : Advance(i)
    \/ FinishRemoved \/ FinishIgnored \/ FinishSegment \/ FinishOutput \/ FinishEntry
    \/ FinishFailed \/ FinishNotFound \/ FinishStopped

Signal ==
    \E r \in live :
        \/ OnTranslationStarted(r) \/ OnTranslationDelta(r)
        \/ \E end \in Ends(r) : OnTranslationFinished(r, end)

Next == User \/ Store \/ Handler \/ Signal \/ OnRequeueTimer \/ Crash

Spec == Init /\ [][Next]_vars

\* A handler runs to its end.  The event loop takes its events in order, so that
\* none waits for ever behind the calls of the user (strong fairness).  And the
\* interactive work does not stop every attempt at a segment: some attempt ends
\* by itself.
EndsByItself ==
    \E r \in live : \E end \in Ends(r) :
        (end = "Stopped" => r.cancelled) /\ OnTranslationFinished(r, end)

FairSpec ==
    /\ Spec
    /\ WF_vars(Handler \/ Store)
    /\ SF_vars(OnRequeueTimer)
    /\ SF_vars(EndsByItself)

-----------------------------------------------------------------------------
\* Every job still with the service, except the current one, has been told to
\* stop: "a new batch job is never submitted while the old invocation is still
\* completing" (batch_controller.cpp:204-207), also after a store error in the
\* middle of a handler.  And the current job works on a segment that the queue
\* file still holds as pending, in an entry without a failed segment (589-590);
\* or on an entry that was lost to a write over a file that did not open.
JobsMatchQueue ==
    /\ TypeOK
    /\ \A r \in live : ~r.cancelled =>
          /\ r.job = currentJobId
          /\ Has(queue, r.entry) \/ r.entry \in lost
          /\ Has(queue, r.entry) => /\ ~HasFailed(Of(queue, r.entry))
                                   /\ Of(queue, r.entry).seg[r.seg] = "Pending"

\* What the queue file says of an entry is true at every moment a crash may
\* choose: a completed segment holds the whole text of one job for exactly this
\* segment, and a completed entry has all its segments and its output file.
DurableTruth ==
    \A i \in DOMAIN queue :
        /\ \A s \in DOMAIN queue[i].seg :
              queue[i].seg[s] = "Completed" => queue[i].text[s] = <<<<queue[i].id, s>>>>
        /\ queue[i].state = "Completed" => AllDone(queue[i]) /\ queue[i].id \in written

\* The queue file of the next state holds x with what was translated of it.
StaysIn(x) ==
    \E k \in DOMAIN queue' :
       /\ queue'[k].id = x.id
       /\ \A s \in DOMAIN x.seg :
             x.seg[s] = "Completed" => /\ queue'[k].seg[s] = "Completed"
                                       /\ queue'[k].text[s] = x.text[s]

\* No step, a crash and a restart included, drops an entry the user did not
\* remove or forgets a segment that was translated (atomic_write() and load() of
\* batch_store.cpp).  Excepted are the step that moves the whole queue file aside
\* and the rename of a queue that was made from a file that did not open
\* (batch_store.cpp:484-485): it leaves every entry out.
CommittedStays ==
    [][\A i \in DOMAIN queue :
          write.opened /\ write.drop # queue[i].id /\ file' # "none" => StaysIn(queue[i])]_vars

\* The promise without the second exception: "Durable batch queue store with
\* atomic persistence semantics" (batch_store.h:10), where an unreadable queue is
\* moved aside (61-62).
NothingLost ==
    [][\A i \in DOMAIN queue :
          write.drop # queue[i].id /\ file' # "none" => StaysIn(queue[i])]_vars

\* Whenever the controller waits for the next event, the table shows the queue
\* file, or an error has been reported since ("emitted after every mutation",
\* batch_controller.h:75-79), or the last load could not open the file: then the
\* table is empty, and no error tells why (batch_store.cpp:300-301).
RowsCurrent ==
    Ready => /\ shown.heard = "queue" => shown.rows = Rows(queue)
             /\ shown.heard = "unopened" => shown.rows = <<>>

\* The controller waits for a job that was refused, or whose end it ignored.
AwaitsNobody == Ready /\ currentJobId # NoJob /\ \A r \in live : r.job # currentJobId

\* A run that is not paused ends, whatever is removed, preempted, cancelled or
\* retried meanwhile, except that the controller may be left waiting for nobody:
\* after a submission that was refused (submitNextSegment(), batch_controller.cpp:
\* 649-674), or a resume() without a model with the end of the job on its way (259-274).
RunSettlesUnlessStranded == (running /\ ~paused) ~> (~running \/ paused \/ AwaitsNobody)

=============================================================================
