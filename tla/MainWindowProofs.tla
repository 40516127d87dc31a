-------------------------- MODULE MainWindowProofs --------------------------
(***************************************************************************)
(* The main window for any catalog of models, any number of downloads,     *)
(* clicks and segments.  All the window knows of the two services is what  *)
(* it has been told, so each part of the inductive invariant says what the *)
(* window will know once everything that is queued has been heard, and     *)
(* what the commands that are still queued will make of it.                *)
(***************************************************************************)
EXTENDS MainWindow, TLAPS

-----------------------------------------------------------------------------
(* Types.                                                                  *)

Signal ==
    [kind : {"status", "loaded", "unloaded"}, flag : BOOLEAN]
    \cup [kind : {"snapshot"}, lifecycle : {"Loading", "Unloading", "Ready", "Unloaded"},
          model : Model \cup {NoModel}]
    \cup [kind : {"started"}, id : Download]
    \cup [kind : {"finished"}, id : Download, outcome : {"Completed", "Cancelled", "Failed"}]
    \cup [kind : {"translated"}, mine : BOOLEAN, failed : BOOLEAN]
    \cup [kind : {"batchState"}, running : BOOLEAN, paused : BOOLEAN]
    \cup [kind : {"batchFinished", "batchError"}]

Command == {"load", "unload", "translate", "ended",
            "start", "pause", "resume", "addFile", "segmentEnded"}

Run == [running : BOOLEAN, paused : BOOLEAN]

QueueType == signals \in Seq(Signal) /\ commands \in Seq(Command)

ModelType ==
    /\ configured \in Model /\ loadedId \in Model \cup {NoModel} /\ host \in Model \cup {NoModel}
    /\ spc \in {"idle", "load", "unload"}
    /\ target \in Model \cup {NoModel} /\ (spc = "load" => target \in Model)
    /\ modelLoaded \in BOOLEAN /\ busy \in BOOLEAN /\ unloading \in BOOLEAN
    /\ loading \in Model \cup {NoModel} /\ boundModel \in Model \cup {NoModel}
    /\ bound \in Download \cup {NoId}
    /\ bound = NoId <=> boundModel = NoModel
    /\ awaiting \in BOOLEAN
    /\ phase \in [Download -> {"unknown", "reserved", "started", "finished"}]

WorkType ==
    /\ own \in BOOLEAN
    /\ page \in [translating : BOOLEAN, busy : BOOLEAN, failed : BOOLEAN, retry : BOOLEAN]
    /\ batch \in [running : BOOLEAN, paused : BOOLEAN, pageRunning : BOOLEAN, pagePaused : BOOLEAN]
    /\ job \in [at : {"none", "posted", "live", "ended"}, back : BOOLEAN, cancel : BOOLEAN,
                end : {"none", "Completed", "Failed", "Cancelled"}]
    /\ ctl \in Run
    /\ segment \in {"none", "live", "ended", "stuck"}
    /\ erred \in BOOLEAN

Types == QueueType /\ ModelType /\ WorkType

-----------------------------------------------------------------------------
(* Downloads.  A download that was withdrawn and is still bound is not     *)
(* awaited any more; one that is bound ends, or its end is on the way.     *)

DownloadInv ==
    /\ withdrawn \subseteq Download /\ NoId \notin withdrawn
    /\ \A i \in withdrawn : phase[i] # "unknown"
    /\ bound # NoId => phase[bound] # "unknown"
    /\ bound \in withdrawn => ~awaiting

-----------------------------------------------------------------------------
(* The Translate page and its job.                                         *)

Mine(e) == e.kind = "translated" /\ e.mine

\* The job is posted, live or ended, or its end is on the way; never two of these.
JobInv ==
    /\ page.translating = own
    /\ job.at # "none" => own
    /\ own => \/ job.at # "none"
              \/ \E i \in 1..Len(signals) : Mine(signals[i])
    /\ \A i \in 1..Len(signals) : Mine(signals[i]) => job.at = "none" /\ own
    /\ \A i, j \in 1..Len(signals) : Mine(signals[i]) /\ Mine(signals[j]) => i = j
    /\ ~page.translating => page.retry = page.failed

\* The commands of the job, and what an unload finds of it.
OrderInv ==
    /\ \A k \in 1..Len(commands) :
          /\ commands[k] = "translate" => job.at = "posted"
          /\ commands[k] = "ended" => job.at = "ended"
          /\ commands[k] = "unload" => job.at \in {"none", "posted"}
    /\ \A j, k \in 1..Len(commands) :
          /\ commands[j] = "translate" /\ commands[k] = "translate" => j = k
          /\ commands[j] = "ended" /\ commands[k] = "ended" => j = k
          /\ commands[j] = "translate" /\ commands[k] = "unload" => k < j
    /\ spc = "unload" => job.at \in {"none", "posted"}

\* Once the first n signals have been heard, the page is busy or not.
BusyAfter(n, b) ==
    /\ (\A k \in 1..n : signals[k].kind # "status") => page.busy = b
    /\ \A k \in 1..n :
          signals[k].kind = "status" /\ (\A j \in 1..n : j > k => signals[j].kind # "status")
             => signals[k].flag = b

\* No job ends while the service loads or unloads.
BusyInv ==
    /\ BusyAfter(Len(signals), spc # "idle")
    /\ \A i \in 1..Len(signals) : Mine(signals[i]) => BusyAfter(i, FALSE)

-----------------------------------------------------------------------------
(* What the window knows of the host.                                      *)

News(e) == e.kind \in {"status", "snapshot", "loaded", "unloaded"}

Shown ==
    /\ modelLoaded <=> host # NoModel
    /\ modelLoaded => loadedId = host
    /\ ~busy

\* Between two commands the last word on the way is a snapshot of the host.
HostInv ==
    spc = "idle" =>
       /\ (\A k \in 1..Len(signals) : ~News(signals[k])) => Shown
       /\ \A k \in 1..Len(signals) :
             News(signals[k]) /\ (\A j \in 1..Len(signals) : j > k => ~News(signals[j]))
                => signals[k] = Settled(host)

\* What the flow waits for is on its way.
FlowInv ==
    /\ loading # NoModel =>
          \/ spc = "load"
          \/ \E k \in 1..Len(commands) : commands[k] = "load"
          \/ \E k \in 1..Len(signals) : signals[k].kind = "loaded"
    /\ unloading =>
          \/ spc = "unload"
          \/ \E k \in 1..Len(commands) : commands[k] = "unload"
          \/ \E k \in 1..Len(signals) : signals[k].kind = "unloaded"
    /\ bound # NoId =>
          \/ phase[bound] \in {"reserved", "started"}
          \/ \E k \in 1..Len(signals) : signals[k].kind = "finished" /\ signals[k].id = bound

-----------------------------------------------------------------------------
(* What the window knows of the batch run.                                 *)

Stopped == [running |-> FALSE, paused |-> FALSE]

Erring == erred \/ \E k \in 1..Len(signals) : signals[k].kind = "batchError"

StateAt(k)  == signals[k].kind = "batchState"
FinishAt(k) == signals[k].kind = "batchFinished"

\* Once everything on the way has been heard, the window shows the run as it is.
RunShown ==
    /\ \A k \in 1..Len(signals) :
          StateAt(k) /\ (\A j \in 1..Len(signals) : j > k => ~StateAt(j))
             => signals[k] = BatchState(ctl)
    /\ (\A k \in 1..Len(signals) : ~StateAt(k)) =>
          /\ batch.pagePaused = ctl.paused
          /\ (\A k \in 1..Len(signals) : ~FinishAt(k)) =>
                batch.running = ctl.running /\ batch.paused = ctl.paused
                /\ batch.pageRunning = ctl.running

\* A command that will change the run, and report it.
Changes(command) ==
    \/ command = "start" /\ ~ctl.running
    \/ command = "pause" /\ ctl.running /\ ~ctl.paused
    \/ command = "resume" /\ ctl.running /\ ctl.paused

ChangeIsPosted == \E k \in 1..Len(commands) : Changes(commands[k])

\* The end of a run directly follows its last state.
FinishInv ==
    /\ \A k \in 1..Len(signals) :
          FinishAt(k) => k = 1 \/ signals[k - 1] = BatchState(Stopped)
    /\ \A k \in 1..Len(signals) :
          FinishAt(k) /\ (\A j \in 1..Len(signals) : j > k => ~StateAt(j)) => ctl = Stopped
    /\ /\ \E k \in 1..Len(signals) : FinishAt(k)
       /\ \A k \in 1..Len(signals) : ~StateAt(k)
       /\ batch.pageRunning
       => \E k \in 1..Len(commands) : commands[k] = "start"

BatchInv == FinishInv /\ (RunShown \/ ChangeIsPosted)

BatchPicture == Erring \/ BatchInv

-----------------------------------------------------------------------------
IInv ==
    /\ Types
    /\ DownloadInv
    /\ JobInv /\ OrderInv /\ BusyInv
    /\ HostInv /\ FlowInv
    /\ BatchPicture

-----------------------------------------------------------------------------
(* Queues.                                                                 *)

(* The first element of a queue, and what is left of it.                   *)
LEMMA Taking ==
    ASSUME NEW S, NEW q \in Seq(S), q # <<>>
    PROVE  /\ Len(q) \in Nat /\ 1 \in 1..Len(q) /\ Head(q) = q[1] /\ q[1] \in S
           /\ Tail(q) \in Seq(S) /\ Len(Tail(q)) = Len(q) - 1 /\ Len(Tail(q)) \in Nat
           /\ \A k \in 1..Len(Tail(q)) : Tail(q)[k] = q[k + 1] /\ k + 1 \in 1..Len(q)
           /\ \A k \in 1..Len(q) : k # 1 => k - 1 \in 1..Len(Tail(q)) /\ Tail(q)[k - 1] = q[k]
<1>1. /\ Len(q) \in Nat /\ Len(q) # 0 /\ Head(q) = q[1] /\ q[1] \in S
      /\ Tail(q) \in Seq(S) /\ Len(Tail(q)) = Len(q) - 1
      /\ \A k \in 1..Len(Tail(q)) : Tail(q)[k] = q[k + 1]
  OBVIOUS
<1>2. \A k \in 1..Len(Tail(q)) : k + 1 \in 1..Len(q)
  BY <1>1
<1>3. ASSUME NEW k \in 1..Len(q), k # 1
      PROVE  k - 1 \in 1..Len(Tail(q)) /\ Tail(q)[k - 1] = q[k]
  <2>1. k - 1 \in 1..Len(Tail(q)) /\ (k - 1) + 1 = k
    BY <1>1, <1>3
  <2> QED
    BY <1>1, <2>1
<1> QED
  BY <1>1, <1>2, <1>3

(* A queue and what is appended to it.                                     *)
LEMMA Appending ==
    ASSUME NEW S, NEW q \in Seq(S), NEW e \in S
    PROVE  /\ Append(q, e) \in Seq(S)
           /\ Len(q) \in Nat /\ Len(Append(q, e)) = Len(q) + 1
           /\ \A k \in 1..Len(q) : k \in 1..Len(Append(q, e)) /\ Append(q, e)[k] = q[k]
           /\ Len(q) + 1 \in 1..Len(Append(q, e)) /\ Append(q, e)[Len(q) + 1] = e
           /\ \A k \in 1..Len(Append(q, e)) : k \in 1..Len(q) \/ k = Len(q) + 1
OBVIOUS

(* A queue and a sequence behind it.                                       *)
LEMMA Joining ==
    ASSUME NEW S, NEW q \in Seq(S), NEW s \in Seq(S)
    PROVE  /\ q \o s \in Seq(S)
           /\ Len(q) \in Nat /\ Len(s) \in Nat
           /\ Len(q \o s) = Len(q) + Len(s) /\ Len(q \o s) \in Nat
           /\ \A k \in 1..Len(q) : k \in 1..Len(q \o s) /\ (q \o s)[k] = q[k]
           /\ \A k \in 1..Len(s) : Len(q) + k \in 1..Len(q \o s) /\ (q \o s)[Len(q) + k] = s[k]
           /\ \A k \in 1..Len(q \o s) :
                 \/ k \in 1..Len(q)
                 \/ k - Len(q) \in 1..Len(s) /\ (q \o s)[k] = s[k - Len(q)] /\ k > Len(q)
<1>1. /\ q \o s \in Seq(S) /\ Len(q) \in Nat /\ Len(s) \in Nat
      /\ Len(q \o s) = Len(q) + Len(s)
      /\ \A k \in 1..Len(q \o s) : (q \o s)[k] = IF k <= Len(q) THEN q[k] ELSE s[k - Len(q)]
  OBVIOUS
<1>2. \A k \in 1..Len(q) : k \in 1..Len(q \o s) /\ (q \o s)[k] = q[k]
  BY <1>1
<1>3. ASSUME NEW k \in 1..Len(s)
      PROVE  Len(q) + k \in 1..Len(q \o s) /\ (q \o s)[Len(q) + k] = s[k]
  <2>1. Len(q) + k \in 1..Len(q \o s) /\ ~(Len(q) + k <= Len(q)) /\ (Len(q) + k) - Len(q) = k
    BY <1>1
  <2> QED
    BY <1>1, <2>1
<1>4. ASSUME NEW k \in 1..Len(q \o s), k \notin 1..Len(q)
      PROVE  k - Len(q) \in 1..Len(s) /\ (q \o s)[k] = s[k - Len(q)] /\ k > Len(q)
  BY <1>1, <1>4
<1> QED
  BY <1>1, <1>2, <1>3, <1>4

(* Short sequences.                                                        *)
LEMMA Few ==
    ASSUME NEW S
    PROVE  /\ <<>> \in Seq(S) /\ Len(<<>>) = 0
           /\ \A a \in S : <<a>> \in Seq(S) /\ Len(<<a>>) = 1 /\ <<a>>[1] = a
           /\ \A a, b \in S : <<a, b>> \in Seq(S) /\ Len(<<a, b>>) = 2
                              /\ <<a, b>>[1] = a /\ <<a, b>>[2] = b
           /\ \A a, b, c \in S :
                 /\ <<a, b, c>> \in Seq(S) /\ Len(<<a, b, c>>) = 3
                 /\ <<a, b, c>>[1] = a /\ <<a, b, c>>[2] = b /\ <<a, b, c>>[3] = c
OBVIOUS

(* Every signal that is emitted is one.                                    *)
LEMMA SignalTypes ==
    /\ \A b \in BOOLEAN : /\ StatusChanged(b) \in Signal
                          /\ LoadFinished(b) \in Signal /\ UnloadFinished(b) \in Signal
    /\ \A l \in {"Loading", "Unloading", "Ready", "Unloaded"}, m \in Model \cup {NoModel} :
          SnapshotChanged(l, m) \in Signal
    /\ \A m \in Model \cup {NoModel} : Settled(m) \in Signal
    /\ \A i \in Download : DownloadStarted(i) \in Signal
    /\ \A i \in Download, r \in Downloads!Outcome : DownloadFinished(i, r) \in Signal
    /\ \A m, f \in BOOLEAN : Translated(m, f) \in Signal
    /\ \A c \in Run : BatchState(c) \in Signal
    /\ BatchFinished \in Signal /\ BatchError \in Signal
BY DEF Signal, StatusChanged, LoadFinished, UnloadFinished, SnapshotChanged, Settled,
       DownloadStarted, DownloadFinished, Downloads!Outcome, Translated, BatchState, Run,
       BatchFinished, BatchError

-----------------------------------------------------------------------------
(* What each kind of step does to the queues.                              *)

\* What a step leaves alone that does not belong to the part of the window.
ButtonLeaves == UNCHANGED <<signals, spc, target, host, modelLoaded, loadedId, busy>>

Reserves ==
    \E i \in Download, m \in Model :
        /\ phase[i] = "unknown" /\ phase' = [phase EXCEPT ![i] = "reserved"]
        /\ bound' = i /\ boundModel' = m /\ awaiting' = TRUE
        /\ UNCHANGED withdrawn

Withdraws ==
    /\ awaiting' = FALSE
    /\ withdrawn' = withdrawn \cup ({bound} \ {NoId})
    /\ UNCHANGED <<phase, bound, boundModel>>

KeepsDownload == UNCHANGED <<phase, bound, boundModel, awaiting, withdrawn>>

(* A button posts a load or an unload, or nothing; only the buttons that   *)
(* inference locks post an unload; and it reserves or withdraws a download,*)
(* or leaves the download alone.                                           *)
LEMMA ButtonFacts ==
    ASSUME Types, OtherButtons \/ LockedButtons
    PROVE  /\ ButtonLeaves /\ configured' \in Model
           /\ \/ UNCHANGED <<commands, loading, unloading>>
              \/ /\ commands' = Append(commands, "load") /\ loading' \in Model /\ UNCHANGED unloading
              \/ /\ commands' = Append(commands, "unload") /\ unloading' = TRUE /\ UNCHANGED loading
                 /\ LockedButtons
           /\ Reserves \/ Withdraws \/ KeepsDownload
<1> USE DEF window, flow, service, download, history, ButtonLeaves, Types, ModelType,
            Reserves, Withdraws, KeepsDownload
<1>1. CASE Startup \/ BannerLoad
  BY <1>1 DEF Startup, BannerLoad, BeginLoad, Click
<1>2. CASE CancelFromPage \/ CancelFromDialog
  BY <1>2 DEF CancelFromPage, CancelFromDialog, Withdraw, Click
<1>3. CASE DismissAlert \/ BannerDismiss
  BY <1>3 DEF DismissAlert, BannerDismiss, Click
<1>4. ASSUME NEW m \in Model, RowDelete(m)
      PROVE  /\ ButtonLeaves /\ UNCHANGED <<configured, commands, loading, unloading>>
             /\ KeepsDownload
  BY <1>4 DEF RowDelete, Click
<1>5. ASSUME NEW i \in Download, BannerDownload(i)
      PROVE  /\ ButtonLeaves /\ UNCHANGED <<configured, commands, loading, unloading>>
             /\ Reserves
  BY <1>5 DEF BannerDownload, ReserveAndBind, Downloads!Reserve, Click
<1>6. CASE RowUnload
  BY <1>6 DEF RowUnload, Click, LockedButtons
<1>7. ASSUME NEW m \in Model, RowLoad(m)
      PROVE  /\ ButtonLeaves /\ configured' = m /\ KeepsDownload
             /\ commands' = Append(commands, "load") /\ loading' = m /\ UNCHANGED unloading
  BY <1>7 DEF RowLoad, BeginLoad, Click
<1>8. ASSUME NEW m \in Model, NEW i \in Download, RowDownload(m, i)
      PROVE  /\ ButtonLeaves /\ configured' = m /\ UNCHANGED <<commands, loading, unloading>>
             /\ Reserves
  BY <1>8 DEF RowDownload, ReserveAndBind, Downloads!Reserve, Click
<1> QED
  BY <1>1, <1>2, <1>3, <1>4, <1>5, <1>6, <1>7, <1>8 DEF OtherButtons, LockedButtons

\* A sequence of signals that says nothing of a load, of a download or of the
\* job of the page, and of the host only how it is.
CalmSignal(e) ==
    /\ e \in Signal
    /\ e.kind \in {"snapshot", "translated", "batchState", "batchFinished", "batchError"}
    /\ e.kind = "snapshot" => e = Settled(host)
    /\ ~Mine(e)

Calm(s) == s \in Seq(Signal) /\ \A k \in 1..Len(s) : CalmSignal(s[k])

\* A sequence that says nothing of the batch run.
Silent(s) == \A k \in 1..Len(s) : s[k].kind \notin {"batchState", "batchFinished", "batchError"}

\* A sequence that reports how the run is now, its end last.
ReportsRun(s) ==
    /\ \E k \in 1..Len(s) :
          /\ s[k] = BatchState(ctl')
          /\ \A j \in 1..Len(s) : j > k => s[j].kind # "batchState"
    /\ \A k \in 1..Len(s) :
          s[k].kind = "batchFinished" =>
             k > 1 /\ s[k - 1] = BatchState(Stopped) /\ ctl' = Stopped

\* A sequence that reports an error or the run.
Reported(s) ==
    \/ \E k \in 1..Len(s) : s[k].kind = "batchError"
    \/ ReportsRun(s)

\* What the controller emits in one turn: a report, unless the run is as it was.
Emission(s) ==
    /\ signals' = signals \o s /\ Calm(s)
    /\ Reported(s) \/ (ctl' = ctl /\ Silent(s))

RunTypes == ctl' \in Run /\ segment' \in {"none", "live", "ended", "stuck"}

(* A calm sequence stays calm when another one follows.                    *)
LEMMA CalmJoin ==
    ASSUME NEW a, NEW b, Calm(a), Calm(b)
    PROVE  Calm(a \o b)
<1>1. a \in Seq(Signal) /\ b \in Seq(Signal)
  BY DEF Calm
<1> QED
  BY <1>1, Joining DEF Calm

(* The signals of the batch controller are calm.                           *)
LEMMA CalmSignals ==
    ASSUME Types
    PROVE  /\ Calm(<<>>) /\ Calm(<<BatchError>>) /\ Calm(<<Settled(host)>>)
           /\ \A f \in BOOLEAN : Calm(<<Translated(FALSE, f), Settled(host)>>)
           /\ \A c \in Run : /\ Calm(<<BatchState(c)>>) /\ Calm(<<BatchState(c), BatchError>>)
                             /\ Calm(<<BatchState(c), BatchFinished>>)
           /\ Calm(<<Settled(host), Translated(FALSE, TRUE), Settled(host)>>)
<1>1. host \in Model \cup {NoModel}
  BY DEF Types, ModelType
<1>2. /\ CalmSignal(Settled(host)) /\ CalmSignal(BatchFinished) /\ CalmSignal(BatchError)
      /\ \A f \in BOOLEAN : CalmSignal(Translated(FALSE, f))
      /\ \A c \in Run : CalmSignal(BatchState(c))
  BY <1>1, SignalTypes
     DEF CalmSignal, Mine, Settled, SnapshotChanged, BatchError, BatchFinished, Translated, BatchState
<1>3. Calm(<<>>)
  BY Few DEF Calm
<1>4. ASSUME NEW a, CalmSignal(a) PROVE Calm(<<a>>)
  BY <1>4, Few DEF Calm, CalmSignal
<1>5. ASSUME NEW a, NEW b, CalmSignal(a), CalmSignal(b) PROVE Calm(<<a, b>>)
  <2>1. a \in Signal /\ b \in Signal
    BY <1>5 DEF CalmSignal
  <2>2. <<a, b>> \in Seq(Signal) /\ Len(<<a, b>>) = 2 /\ <<a, b>>[1] = a /\ <<a, b>>[2] = b
    BY <2>1
  <2>3. \A k \in 1..Len(<<a, b>>) : k = 1 \/ k = 2
    BY <2>2
  <2> QED
    BY <1>5, <2>2, <2>3 DEF Calm
<1>6. ASSUME NEW a, NEW b, NEW c, CalmSignal(a), CalmSignal(b), CalmSignal(c)
      PROVE  Calm(<<a, b, c>>)
  <2>1. a \in Signal /\ b \in Signal /\ c \in Signal
    BY <1>6 DEF CalmSignal
  <2>2. /\ <<a, b, c>> \in Seq(Signal) /\ Len(<<a, b, c>>) = 3
        /\ <<a, b, c>>[1] = a /\ <<a, b, c>>[2] = b /\ <<a, b, c>>[3] = c
    BY <2>1
  <2>3. \A k \in 1..Len(<<a, b, c>>) : k = 1 \/ k = 2 \/ k = 3
    BY <2>2
  <2> QED
    BY <1>6, <2>2, <2>3 DEF Calm
<1> HIDE DEF Settled, BatchError, BatchFinished, Translated, BatchState
<1> QED
  BY <1>2, <1>3, <1>4, <1>5, <1>6

(* What a sequence reports when another one is joined to it.               *)
LEMMA ReportsJoin ==
    ASSUME NEW a, NEW b, Calm(a), Calm(b)
    PROVE  /\ Calm(a \o b)
           /\ Silent(a) /\ Silent(b) => Silent(a \o b)
           /\ (\E k \in 1..Len(a) : a[k].kind = "batchError") => Reported(a \o b)
           /\ (\E k \in 1..Len(b) : b[k].kind = "batchError") => Reported(a \o b)
           /\ ReportsRun(a) /\ Silent(b) => ReportsRun(a \o b)
           /\ (\A k \in 1..Len(a) : a[k].kind # "batchFinished") /\ ReportsRun(b)
                 => ReportsRun(a \o b)
<1>0. a \in Seq(Signal) /\ b \in Seq(Signal)
  BY DEF Calm
<1> DEFINE q == a \o b
<1>1. /\ Len(a) \in Nat /\ Len(b) \in Nat /\ Len(q) = Len(a) + Len(b)
      /\ \A k \in 1..Len(a) : k \in 1..Len(q) /\ q[k] = a[k]
      /\ \A k \in 1..Len(b) : Len(a) + k \in 1..Len(q) /\ q[Len(a) + k] = b[k]
      /\ \A k \in 1..Len(q) : \/ k \in 1..Len(a)
                              \/ k - Len(a) \in 1..Len(b) /\ q[k] = b[k - Len(a)] /\ k > Len(a)
  BY <1>0, Joining
<1>2. Calm(q)
  BY CalmJoin
<1> HIDE DEF q
<1>3. Silent(a) /\ Silent(b) => Silent(q)
  BY <1>1 DEF Silent
<1>4. (\E k \in 1..Len(a) : a[k].kind = "batchError") => Reported(q)
  BY <1>1 DEF Reported
<1>5. (\E k \in 1..Len(b) : b[k].kind = "batchError") => Reported(q)
  BY <1>1 DEF Reported
<1>6. ASSUME ReportsRun(a), Silent(b) PROVE ReportsRun(q)
  <2>1. PICK k \in 1..Len(a) : a[k] = BatchState(ctl') /\ \A j \in 1..Len(a) : j > k => a[j].kind # "batchState"
    BY <1>6 DEF ReportsRun
  <2>2. k \in 1..Len(q) /\ q[k] = BatchState(ctl')
    BY <1>1, <2>1
  <2>3. \A j \in 1..Len(q) : j > k => q[j].kind # "batchState"
    BY <1>1, <1>6, <2>1 DEF Silent
  <2>4. ASSUME NEW j \in 1..Len(q), q[j].kind = "batchFinished"
        PROVE  j > 1 /\ q[j - 1] = BatchState(Stopped) /\ ctl' = Stopped
    <3>1. j \in 1..Len(a) /\ a[j].kind = "batchFinished"
      BY <1>1, <1>6, <2>4 DEF Silent
    <3>2. j > 1 /\ a[j - 1] = BatchState(Stopped) /\ ctl' = Stopped
      BY <1>6, <3>1 DEF ReportsRun
    <3>3. j - 1 \in 1..Len(a)
      BY <1>1, <3>1, <3>2
    <3> QED
      BY <1>1, <3>2, <3>3
  <2> QED
    BY <2>2, <2>3, <2>4 DEF ReportsRun
<1>7. ASSUME \A k \in 1..Len(a) : a[k].kind # "batchFinished", ReportsRun(b) PROVE ReportsRun(q)
  <2>1. PICK k \in 1..Len(b) : b[k] = BatchState(ctl') /\ \A j \in 1..Len(b) : j > k => b[j].kind # "batchState"
    BY <1>7 DEF ReportsRun
  <2>2. Len(a) + k \in 1..Len(q) /\ q[Len(a) + k] = BatchState(ctl')
    BY <1>1, <2>1
  <2>3. \A j \in 1..Len(q) : j > Len(a) + k => q[j].kind # "batchState"
    <3> SUFFICES ASSUME NEW j \in 1..Len(q), j > Len(a) + k PROVE q[j].kind # "batchState"
      OBVIOUS
    <3>1. j - Len(a) \in 1..Len(b) /\ q[j] = b[j - Len(a)] /\ j - Len(a) > k
      BY <1>1
    <3> QED
      BY <2>1, <3>1
  <2>4. ASSUME NEW j \in 1..Len(q), q[j].kind = "batchFinished"
        PROVE  j > 1 /\ q[j - 1] = BatchState(Stopped) /\ ctl' = Stopped
    <3>1. j - Len(a) \in 1..Len(b) /\ b[j - Len(a)].kind = "batchFinished"
      BY <1>1, <1>7, <2>4
    <3>2. j - Len(a) > 1 /\ b[(j - Len(a)) - 1] = BatchState(Stopped) /\ ctl' = Stopped
      BY <1>7, <3>1 DEF ReportsRun
    <3>3. (j - Len(a)) - 1 \in 1..Len(b) /\ Len(a) + ((j - Len(a)) - 1) = j - 1
      BY <1>1, <3>1, <3>2
    <3>4. q[Len(a) + ((j - Len(a)) - 1)] = b[(j - Len(a)) - 1]
      BY <1>1, <3>3
    <3>5. j > 1
      BY <1>1, <3>1, <3>2
    <3> QED
      BY <3>2, <3>3, <3>4, <3>5
  <2> QED
    BY <2>2, <2>3, <2>4 DEF ReportsRun
<1> QED
  BY <1>2, <1>3, <1>4, <1>5, <1>6, <1>7 DEF q

(* The state of the run, with or without its end behind it, is a report.   *)
LEMMA StateReports ==
    ASSUME ctl' \in Run
    PROVE  /\ ReportsRun(<<BatchState(ctl')>>)
           /\ ctl' = Stopped => ReportsRun(<<BatchState(ctl'), BatchFinished>>)
<1>1. BatchState(ctl').kind = "batchState" /\ BatchFinished.kind = "batchFinished"
  BY DEF BatchState, BatchFinished
<1> PICK e : e = BatchState(ctl')
  OBVIOUS
<1> PICK f : f = BatchFinished
  OBVIOUS
<1>2. Len(<<e>>) = 1 /\ <<e>>[1] = e /\ Len(<<e, f>>) = 2 /\ <<e, f>>[1] = e /\ <<e, f>>[2] = f
  OBVIOUS
<1>3. ReportsRun(<<e>>)
  BY <1>1, <1>2 DEF ReportsRun
<1>4. ctl' = Stopped => ReportsRun(<<e, f>>)
  BY <1>1, <1>2 DEF ReportsRun
<1> QED
  BY <1>3, <1>4

(* Nothing behind a sequence is the sequence.                              *)
LEMMA JoinNothing ==
    ASSUME NEW a \in Seq(Signal)
    PROVE  a \o <<>> = a
OBVIOUS

(* The states of a run, and a run with one of its flags changed.           *)
LEMMA RunChanges ==
    ASSUME NEW c \in Run, NEW b \in BOOLEAN
    PROVE  /\ [c EXCEPT !.running = b] = [running |-> b, paused |-> c.paused]
           /\ [c EXCEPT !.paused = b] = [running |-> c.running, paused |-> b]
<1>1. \A r, s \in Run : r.running = s.running /\ r.paused = s.paused => r = s
  BY DEF Run
<1>2. /\ [c EXCEPT !.running = b] \in Run /\ [c EXCEPT !.paused = b] \in Run
      /\ [running |-> b, paused |-> c.paused] \in Run /\ [running |-> c.running, paused |-> b] \in Run
  BY DEF Run
<1>3. /\ [c EXCEPT !.running = b].running = b /\ [c EXCEPT !.running = b].paused = c.paused
      /\ [c EXCEPT !.paused = b].paused = b /\ [c EXCEPT !.paused = b].running = c.running
  BY DEF Run
<1> QED
  BY <1>1, <1>2, <1>3

\* What precedes the emission of advanceBatch(): nothing about the run, or that
\* it has just been started or resumed.
Prelude(before, c) ==
    /\ Calm(before) /\ c \in Run /\ ~c.paused
    /\ (Silent(before) /\ c = ctl) \/ before = <<BatchState(c)>>

(* advanceBatch() reports the run it leaves.                               *)
LEMMA AdvanceReports ==
    ASSUME Types, NEW before, NEW c, Prelude(before, c), AdvanceBatch(before, c)
    PROVE  RunTypes /\ \E s : Emission(s) /\ (Silent(before) \/ Reported(s))
<1> USE DEF Prelude
<1>1. /\ Stopped \in Run /\ [running |-> FALSE, paused |-> FALSE] = Stopped
      /\ [c EXCEPT !.running = FALSE] = Stopped
  <2>1. c \in Run /\ c.paused = FALSE
    BY DEF Run
  <2>2. [c EXCEPT !.running = FALSE] = [running |-> FALSE, paused |-> c.paused]
    BY <2>1, RunChanges
  <2> QED
    BY <2>1, <2>2 DEF Run, Stopped
<1>2. CASE host = NoModel
  <2>1. ctl' = Stopped /\ segment' = "none"
        /\ signals' = signals \o (before \o <<BatchState(ctl'), BatchError>>)
    BY <1>1, <1>2 DEF AdvanceBatch, Emit
  <2>2. Calm(<<BatchState(ctl'), BatchError>>)
    BY <1>1, <2>1, CalmSignals
  <2>3. \E k \in 1..Len(<<BatchState(ctl'), BatchError>>) :
           <<BatchState(ctl'), BatchError>>[k].kind = "batchError"
    <3>1. 2 \in 1..Len(<<BatchState(ctl'), BatchError>>)
          /\ <<BatchState(ctl'), BatchError>>[2].kind = "batchError"
      BY DEF BatchError
    <3> QED
      BY <3>1
  <2>4. /\ Emission(before \o <<BatchState(ctl'), BatchError>>)
        /\ Reported(before \o <<BatchState(ctl'), BatchError>>)
    BY <2>1, <2>2, <2>3, ReportsJoin DEF Emission
  <2> QED
    BY <1>1, <2>1, <2>4 DEF RunTypes
<1>3. CASE host # NoModel
  <2>1. PICK skipped \in {<<>>, <<BatchError>>} :
           \/ /\ ctl' = c
              /\ \/ segment' = "live" /\ Emit(before \o skipped \o <<Settled(host)>>)
                 \/ segment' = "stuck" /\ Emit(before \o skipped
                       \o <<Settled(host), Translated(FALSE, TRUE), Settled(host)>>)
           \/ /\ ctl' = Stopped /\ segment' = "none"
              /\ Emit(before \o skipped \o <<BatchState(ctl'), BatchFinished>>)
           \/ /\ ctl' = Stopped /\ segment' = "none"
              /\ Emit(before \o skipped \o <<BatchState(ctl'), BatchError>>)
    BY <1>1, <1>3 DEF AdvanceBatch
  <2>2. RunTypes
    BY <1>1, <2>1 DEF RunTypes
  <2>3. /\ Calm(before \o skipped)
        /\ skipped = <<>> => before \o skipped = before
        /\ skipped # <<>> => \E k \in 1..Len(before \o skipped) :
                                (before \o skipped)[k].kind = "batchError"
    <3>1. CASE skipped = <<>>
      BY <3>1, JoinNothing DEF Calm
    <3>2. CASE skipped = <<BatchError>>
      <4>1. Calm(before \o skipped)
        BY <3>2, CalmSignals, CalmJoin
      <4>2. before \in Seq(Signal) /\ skipped \in Seq(Signal) /\ 1 \in 1..Len(skipped)
            /\ skipped[1].kind = "batchError"
        BY <3>2, CalmSignals DEF Calm, BatchError
      <4>3. Len(before) + 1 \in 1..Len(before \o skipped)
            /\ (before \o skipped)[Len(before) + 1].kind = "batchError"
        BY <4>2, Joining
      <4> QED
        BY <4>1, <4>2, <4>3
    <3> QED
      BY <3>1, <3>2
  <2> PICK p : p = before \o skipped
    OBVIOUS
  <2>4. /\ Calm(p)
        /\ (\E k \in 1..Len(p) : p[k].kind = "batchError") \/ p = before
    BY <2>3
  <2>5. \A k \in 1..Len(before) : before[k].kind # "batchFinished"
    <3>1. CASE Silent(before)
      BY <3>1 DEF Silent
    <3>2. CASE before = <<BatchState(c)>>
      BY <3>2 DEF BatchState
    <3> QED
      BY <3>1, <3>2
  <2>6. ASSUME ctl' = c, NEW t, Calm(t), Silent(t), Emit(p \o t)
        PROVE  Emission(p \o t) /\ (Silent(before) \/ Reported(p \o t))
    <3>1. CASE \E k \in 1..Len(p) : p[k].kind = "batchError"
      BY <2>4, <2>6, <3>1, ReportsJoin DEF Emission, Emit
    <3>2. CASE p = before /\ Silent(before) /\ c = ctl
      BY <2>4, <2>6, <3>2, ReportsJoin DEF Emission, Emit, Reported
    <3>3. CASE p = before /\ before = <<BatchState(c)>>
      <4>1. ReportsRun(p)
        BY <2>6, <3>3, StateReports
      <4> QED
        BY <2>4, <2>6, <4>1, ReportsJoin DEF Emission, Emit, Reported
    <3> QED
      BY <2>4, <3>1, <3>2, <3>3
  <2>7. CASE Emit(p \o <<Settled(host)>>) /\ ctl' = c
    <3>1. Silent(<<Settled(host)>>) /\ Calm(<<Settled(host)>>)
      BY CalmSignals DEF Silent, Settled, SnapshotChanged
    <3> QED
      BY <2>2, <2>6, <2>7, <3>1
  <2>8. CASE Emit(p \o <<Settled(host), Translated(FALSE, TRUE), Settled(host)>>) /\ ctl' = c
    <3>1. PICK t : t = <<Settled(host), Translated(FALSE, TRUE), Settled(host)>>
      OBVIOUS
    <3>2. Calm(t)
      BY <3>1, CalmSignals
    <3>3. Len(t) = 3 /\ t[1] = Settled(host) /\ t[2] = Translated(FALSE, TRUE) /\ t[3] = Settled(host)
      BY <3>1
    <3>4. Settled(host).kind = "snapshot" /\ Translated(FALSE, TRUE).kind = "translated"
      BY DEF Settled, SnapshotChanged, Translated
    <3>5. Silent(t)
      <4>1. \A k \in 1..Len(t) : k = 1 \/ k = 2 \/ k = 3
        BY <3>3
      <4> QED
        BY <3>3, <3>4, <4>1 DEF Silent
    <3> QED
      BY <2>2, <2>6, <2>8, <3>1, <3>2, <3>5
  <2>9. CASE Emit(p \o <<BatchState(ctl'), BatchFinished>>) /\ ctl' = Stopped
    <3>1. Calm(<<BatchState(ctl'), BatchFinished>>) /\ ReportsRun(<<BatchState(ctl'), BatchFinished>>)
      BY <1>1, <2>9, CalmSignals, StateReports
    <3> QED
      BY <2>2, <2>4, <2>5, <2>9, <3>1, ReportsJoin DEF Emission, Emit, Reported
  <2>10. CASE Emit(p \o <<BatchState(ctl'), BatchError>>) /\ ctl' = Stopped
    <3>1. Calm(<<BatchState(ctl'), BatchError>>)
      BY <1>1, <2>10, CalmSignals
    <3>2. 2 \in 1..Len(<<BatchState(ctl'), BatchError>>)
          /\ <<BatchState(ctl'), BatchError>>[2].kind = "batchError"
      BY DEF BatchError
    <3>3. /\ Emission(p \o <<BatchState(ctl'), BatchError>>)
          /\ Reported(p \o <<BatchState(ctl'), BatchError>>)
      BY <2>4, <2>10, <3>1, <3>2, ReportsJoin DEF Emission, Emit, Reported
    <3> QED
      BY <2>2, <3>3
  <2> QED
    BY <2>1, <2>7, <2>8, <2>9, <2>10
<1> QED
  BY <1>2, <1>3

\* A turn of the controller on the service thread.
Controller == \/ BatchStart \/ BatchPause \/ BatchResume \/ AddFile
              \/ SegmentEnded \/ OnRequeueTimer

\* What the controller leaves alone.
ControllerLeaves ==
    /\ spc = "idle"
    /\ UNCHANGED <<window, flow, service, download, history, own, page, job, batch, erred>>

ControllerCommand == {"start", "pause", "resume", "addFile", "segmentEnded"}

\* The command the controller has executed, if it was one: what it was to change
\* is reported.
Executed(s) ==
    \/ UNCHANGED commands
    \/ /\ commands # <<>> /\ commands' = Tail(commands)
       /\ Head(commands) \in ControllerCommand
       /\ Changes(Head(commands)) => Reported(s)
       /\ Head(commands) = "start" => Reported(s) \/ ctl.running

(* A turn of the controller emits calm signals that report the run, unless *)
(* the run is as it was.                                                   *)
LEMMA ControllerFacts ==
    ASSUME Types, Controller
    PROVE  ControllerLeaves /\ RunTypes /\ \E s : Emission(s) /\ Executed(s)
<1> USE DEF ControllerLeaves, window, flow, service, download, history, translation
<1>0. /\ ctl \in Run /\ signals \in Seq(Signal) /\ segment \in {"none", "live", "ended", "stuck"}
      /\ ctl.running \in BOOLEAN /\ ctl.paused \in BOOLEAN
      /\ Stopped \in Run /\ [running |-> FALSE, paused |-> FALSE] = Stopped
  BY DEF Types, QueueType, WorkType, Run, Stopped
<1>1. ASSUME UNCHANGED <<signals, ctl, segment>>
      PROVE  RunTypes /\ Emission(<<>>)
  BY <1>0, <1>1, JoinNothing, CalmSignals DEF Emission, Silent, RunTypes
<1>2. ASSUME NEW s, Calm(s), Emit(s), ctl' \in Run, segment' \in {"none", "live", "ended", "stuck"},
             Reported(s)
      PROVE  RunTypes /\ \E t : Emission(t) /\ Reported(t)
  BY <1>2 DEF RunTypes, Emission, Emit
<1>3. ASSUME UNCHANGED segment, Emit(<<BatchError>>), ctl' \in Run
      PROVE  RunTypes /\ \E s : Emission(s) /\ Reported(s)
  <2>1. Calm(<<BatchError>>) /\ 1 \in 1..Len(<<BatchError>>) /\ <<BatchError>>[1].kind = "batchError"
    BY CalmSignals DEF BatchError
  <2> QED
    BY <1>0, <1>2, <1>3, <2>1 DEF Reported
<1>4. ASSUME Emit(<<BatchState(ctl'), BatchError>>), ctl' \in Run,
             segment' \in {"none", "live", "ended", "stuck"}
      PROVE  RunTypes /\ \E s : Emission(s) /\ Reported(s)
  <2>1. Calm(<<BatchState(ctl'), BatchError>>)
    BY <1>4, CalmSignals
  <2>2. 2 \in 1..Len(<<BatchState(ctl'), BatchError>>)
        /\ <<BatchState(ctl'), BatchError>>[2].kind = "batchError"
    BY DEF BatchError
  <2> QED
    BY <1>2, <1>4, <2>1, <2>2 DEF Reported
<1>5. ASSUME Emit(<<BatchState(ctl')>>), ctl' \in Run,
             segment' \in {"none", "live", "ended", "stuck"}
      PROVE  RunTypes /\ \E s : Emission(s) /\ Reported(s)
  <2>1. Calm(<<BatchState(ctl')>>) /\ ReportsRun(<<BatchState(ctl')>>)
    BY <1>5, CalmSignals, StateReports
  <2> QED
    BY <1>2, <1>5, <2>1 DEF Reported
<1>6. ASSUME NEW c \in Run, ~c.paused, Continue(<<BatchState(c)>>, c)
      PROVE  RunTypes /\ \E s : Emission(s) /\ Reported(s)
  <2>1. CASE ctl' = c /\ Emit(<<BatchState(c)>>) /\ UNCHANGED segment
    BY <1>0, <1>5, <1>6, <2>1
  <2>2. CASE AdvanceBatch(<<BatchState(c)>>, c)
    <3>1. Prelude(<<BatchState(c)>>, c)
      BY <1>6, CalmSignals DEF Prelude
    <3>2. ~Silent(<<BatchState(c)>>)
      <4>1. 1 \in 1..Len(<<BatchState(c)>>) /\ <<BatchState(c)>>[1].kind = "batchState"
        BY DEF BatchState
      <4> QED
        BY <4>1 DEF Silent
    <3> QED
      BY <2>2, <3>1, <3>2, AdvanceReports
  <2> QED
    BY <1>6, <2>1, <2>2 DEF Continue
<1>7. ASSUME NEW before, Calm(before), Silent(before), ~ctl.paused, AdvanceBatch(before, ctl)
      PROVE  RunTypes /\ \E s : Emission(s)
  <2>1. Prelude(before, ctl)
    BY <1>0, <1>7 DEF Prelude
  <2> QED
    BY <1>7, <2>1, AdvanceReports
<1>8. CASE BatchStart
  <2>1. ControllerLeaves /\ commands # <<>> /\ Head(commands) = "start" /\ commands' = Tail(commands)
    BY <1>8 DEF BatchStart, Executes
  <2>2. CASE ctl.running
    <3>1. RunTypes /\ Emission(<<>>)
      BY <1>1, <1>8, <2>2 DEF BatchStart, NothingDone
    <3> QED
      BY <2>1, <2>2, <3>1 DEF Executed, Changes, ControllerCommand
  <2>3. CASE ~ctl.running
    <3>1. RunTypes /\ \E s : Emission(s) /\ Reported(s)
      <4>1. CASE host = NoModel
        BY <1>0, <1>3, <1>8, <2>3, <4>1 DEF BatchStart
      <4>2. CASE host # NoModel
        <5>1. PICK c : c = [running |-> TRUE, paused |-> FALSE]
          OBVIOUS
        <5>2. c \in Run /\ ~c.paused
          BY <5>1 DEF Run
        <5>3. Continue(<<BatchState(c)>>, c)
          BY <1>8, <2>3, <4>2, <5>1 DEF BatchStart
        <5> QED
          BY <1>6, <5>2, <5>3
      <4> QED
        BY <4>1, <4>2
    <3> QED
      BY <2>1, <3>1 DEF Executed, ControllerCommand
  <2> QED
    BY <2>2, <2>3
<1>9. CASE BatchPause
  <2>1. ControllerLeaves /\ commands # <<>> /\ Head(commands) = "pause" /\ commands' = Tail(commands)
    BY <1>9 DEF BatchPause, Executes
  <2>2. CASE ~ctl.running \/ ctl.paused
    <3>1. RunTypes /\ Emission(<<>>)
      BY <1>1, <1>9, <2>2 DEF BatchPause, NothingDone
    <3> QED
      BY <2>1, <2>2, <3>1 DEF Executed, Changes, ControllerCommand
  <2>3. CASE ~(~ctl.running \/ ctl.paused)
    <3>1. ctl' \in Run
      BY <1>0, <1>9, <2>3, RunChanges DEF BatchPause, Run
    <3>2. RunTypes /\ \E s : Emission(s) /\ Reported(s)
      BY <1>0, <1>5, <1>9, <2>3, <3>1 DEF BatchPause
    <3> QED
      BY <2>1, <3>2 DEF Executed, ControllerCommand
  <2> QED
    BY <2>2, <2>3
<1>10. CASE BatchResume
  <2>1. ControllerLeaves /\ commands # <<>> /\ Head(commands) = "resume" /\ commands' = Tail(commands)
    BY <1>10 DEF BatchResume, Executes
  <2>2. CASE ~ctl.running \/ ~ctl.paused
    <3>1. RunTypes /\ Emission(<<>>)
      BY <1>1, <1>10, <2>2 DEF BatchResume, NothingDone
    <3> QED
      BY <2>1, <2>2, <3>1 DEF Executed, Changes, ControllerCommand
  <2>3. CASE ~(~ctl.running \/ ~ctl.paused)
    <3>1. RunTypes /\ \E s : Emission(s) /\ Reported(s)
      <4>1. CASE host = NoModel
        BY <1>0, <1>4, <1>10, <2>3, <4>1 DEF BatchResume
      <4>2. CASE host # NoModel
        <5>1. PICK c : c = [ctl EXCEPT !.paused = FALSE]
          OBVIOUS
        <5>2. c \in Run /\ ~c.paused
          BY <1>0, <5>1, RunChanges DEF Run
        <5>3. Continue(<<BatchState(c)>>, c)
          BY <1>10, <2>3, <4>2, <5>1 DEF BatchResume
        <5> QED
          BY <1>6, <5>2, <5>3
      <4> QED
        BY <4>1, <4>2
    <3> QED
      BY <2>1, <3>1 DEF Executed, ControllerCommand
  <2> QED
    BY <2>2, <2>3
<1>11. CASE AddFile
  <2>1. ControllerLeaves /\ commands # <<>> /\ Head(commands) = "addFile" /\ commands' = Tail(commands)
    BY <1>11 DEF AddFile, Executes
  <2>2. RunTypes /\ \E s : Emission(s) /\ Reported(s)
    BY <1>0, <1>3, <1>5, <1>11 DEF AddFile
  <2> QED
    BY <2>1, <2>2 DEF Executed, ControllerCommand
<1>12. CASE SegmentEnded
  <2>1. /\ ControllerLeaves /\ commands # <<>> /\ Head(commands) = "segmentEnded"
        /\ commands' = Tail(commands)
    BY <1>12 DEF SegmentEnded, Executes
  <2>2. ASSUME NEW f \in BOOLEAN
        PROVE  /\ Calm(<<Translated(FALSE, f), Settled(host)>>)
               /\ Silent(<<Translated(FALSE, f), Settled(host)>>)
    <3>1. PICK t : t = <<Translated(FALSE, f), Settled(host)>>
      OBVIOUS
    <3>2. Calm(t)
      BY <3>1, CalmSignals
    <3>3. Len(t) = 2 /\ t[1] = Translated(FALSE, f) /\ t[2] = Settled(host)
      BY <3>1
    <3>4. Settled(host).kind = "snapshot" /\ Translated(FALSE, f).kind = "translated"
      BY DEF Settled, SnapshotChanged, Translated
    <3>5. \A k \in 1..Len(t) : k = 1 \/ k = 2
      BY <3>3
    <3> QED
      BY <3>1, <3>2, <3>3, <3>4, <3>5 DEF Silent
  <2>3. RunTypes /\ \E s : Emission(s)
    <3>1. CASE ~ctl.paused /\ AdvanceBatch(<<Translated(FALSE, FALSE), Settled(host)>>, ctl)
      BY <1>7, <2>2, <3>1
    <3>2. CASE /\ segment' = "none" /\ ctl' = Stopped
               /\ Emit(<<Translated(FALSE, TRUE), Settled(host)>> \o <<BatchState(ctl'), BatchError>>)
      <4>1. Calm(<<BatchState(ctl'), BatchError>>)
        BY <1>0, <3>2, CalmSignals
      <4>2. 2 \in 1..Len(<<BatchState(ctl'), BatchError>>)
            /\ <<BatchState(ctl'), BatchError>>[2].kind = "batchError"
        BY DEF BatchError
      <4>3. /\ Calm(<<Translated(FALSE, TRUE), Settled(host)>> \o <<BatchState(ctl'), BatchError>>)
            /\ Reported(<<Translated(FALSE, TRUE), Settled(host)>> \o <<BatchState(ctl'), BatchError>>)
        BY <2>2, <4>1, <4>2, ReportsJoin
      <4> QED
        BY <1>0, <1>2, <3>2, <4>3
    <3>3. CASE segment' = "none" /\ Emit(<<Translated(FALSE, FALSE), Settled(host)>>) /\ UNCHANGED ctl
      BY <1>0, <2>2, <3>3 DEF RunTypes, Emission, Emit
    <3> QED
      BY <1>0, <1>12, <3>1, <3>2, <3>3 DEF SegmentEnded
  <2> QED
    BY <2>1, <2>3 DEF Executed, Changes, ControllerCommand
<1>13. CASE OnRequeueTimer
  <2>1. ControllerLeaves /\ UNCHANGED commands
    BY <1>13 DEF OnRequeueTimer
  <2>2. Calm(<<>>) /\ Silent(<<>>)
    BY CalmSignals DEF Silent
  <2>3. RunTypes /\ \E s : Emission(s)
    BY <1>7, <1>13, <2>2 DEF OnRequeueTimer
  <2> QED
    BY <2>1, <2>3 DEF Executed
<1> QED
  BY <1>8, <1>9, <1>10, <1>11, <1>12, <1>13 DEF Controller

\* The end of the page's job, with a snapshot around it.
EndsJob(t) ==
    /\ t \in Seq(Signal)
    /\ \A k \in 1..Len(t) : CalmSignal(t[k]) \/ Mine(t[k])
    /\ Silent(t)
    /\ \E m \in 1..Len(t) : Mine(t[m]) /\ \A k \in 1..Len(t) : Mine(t[k]) => k = m

JobWork == TranslateNative \/ JobEnded

(* The service submits the job of the page, or reports its end.            *)
LEMMA JobWorkFacts ==
    ASSUME Types, JobWork
    PROVE  /\ spc = "idle" /\ commands # <<>> /\ commands' = Tail(commands)
           /\ Head(commands) \in {"translate", "ended"}
           /\ UNCHANGED <<window, flow, service, download, history, own, page, batchState>>
           /\ \/ /\ job' \in [at : {"live"}, back : BOOLEAN, cancel : BOOLEAN,
                              end : {"none", "Completed", "Failed", "Cancelled"}]
                 /\ \E s : signals' = signals \o s /\ Calm(s) /\ Silent(s)
              \/ /\ job' = NoJob
                 /\ \E t : signals' = signals \o t /\ EndsJob(t)
<1>0. /\ host \in Model \cup {NoModel} /\ Settled(host) \in Signal
      /\ job \in [at : {"none", "posted", "live", "ended"}, back : BOOLEAN, cancel : BOOLEAN,
                  end : {"none", "Completed", "Failed", "Cancelled"}]
  BY SignalTypes DEF Types, ModelType, WorkType
<1>1. /\ spc = "idle" /\ commands # <<>> /\ commands' = Tail(commands)
      /\ Head(commands) \in {"translate", "ended"}
      /\ UNCHANGED <<window, flow, service, download, history, own, page, batchState>>
  BY DEF JobWork, TranslateNative, JobEnded, Executes
<1>2. Calm(<<Settled(host)>>) /\ Silent(<<Settled(host)>>) /\ Calm(<<>>) /\ Silent(<<>>)
  BY CalmSignals DEF Silent, Settled, SnapshotChanged
<1>3. ASSUME NEW before \in {<<>>, <<Settled(host)>>}, NEW f \in BOOLEAN
      PROVE  EndsJob(before \o <<Translated(TRUE, f), Settled(host)>>)
  <2>1. PICK e : e = Translated(TRUE, f)
    OBVIOUS
  <2>2. e \in Signal /\ Mine(e) /\ e.kind = "translated"
    BY <1>3, <2>1, SignalTypes DEF Mine, Translated
  <2>3. PICK h : h = Settled(host)
    OBVIOUS
  <2>4. h \in Signal /\ CalmSignal(h) /\ ~Mine(h) /\ h.kind = "snapshot"
    BY <1>0, <2>3 DEF CalmSignal, Settled, SnapshotChanged, Mine
  <2>5. CASE before = <<>>
    <3>1. PICK t : t = <<e, h>>
      OBVIOUS
    <3>2. t \in Seq(Signal) /\ Len(t) = 2 /\ t[1] = e /\ t[2] = h
      BY <2>2, <2>4, <3>1
    <3>3. \A k \in 1..Len(t) : k = 1 \/ k = 2
      BY <3>2
    <3>4. 1 \in 1..Len(t)
      BY <3>2
    <3>5. EndsJob(t)
      BY <2>2, <2>4, <3>2, <3>3, <3>4 DEF EndsJob, Silent
    <3>6. before \o t = t
      BY <2>5, <3>2
    <3> QED
      BY <2>1, <2>3, <3>1, <3>5, <3>6
  <2>6. CASE before = <<Settled(host)>>
    <3>1. PICK t : t = <<h>> \o <<e, h>>
      OBVIOUS
    <3>2. /\ <<h>> \in Seq(Signal) /\ Len(<<h>>) = 1 /\ <<h>>[1] = h
          /\ <<e, h>> \in Seq(Signal) /\ Len(<<e, h>>) = 2 /\ <<e, h>>[1] = e /\ <<e, h>>[2] = h
      BY <2>2, <2>4
    <3>3. t \in Seq(Signal) /\ Len(t) = 3 /\ t[1] = h /\ t[2] = e /\ t[3] = h
      <4> PICK a : a = <<h>>
        OBVIOUS
      <4> PICK b : b = <<e, h>>
        OBVIOUS
      <4>1. /\ t \in Seq(Signal) /\ Len(t) = 1 + 2
            /\ \A k \in 1..1 : t[k] = a[k]
            /\ \A k \in 1..2 : t[1 + k] = b[k]
        BY <3>1, <3>2, Joining
      <4>2. t[1] = a[1] /\ t[1 + 1] = b[1] /\ t[1 + 2] = b[2]
        BY <4>1
      <4> QED
        BY <3>2, <4>1, <4>2
    <3>4. \A k \in 1..Len(t) : k = 1 \/ k = 2 \/ k = 3
      BY <3>3
    <3>5. 2 \in 1..Len(t)
      BY <3>3
    <3>6. EndsJob(t)
      BY <2>2, <2>4, <3>3, <3>4, <3>5 DEF EndsJob, Silent
    <3> QED
      BY <2>1, <2>3, <2>6, <3>1, <3>6
  <2> QED
    BY <2>5, <2>6
<1>4. ASSUME NEW before \in {<<>>, <<Settled(host)>>}, NEW back \in BOOLEAN, SubmitJob(before, back)
      PROVE  \/ /\ job' \in [at : {"live"}, back : BOOLEAN, cancel : BOOLEAN,
                             end : {"none", "Completed", "Failed", "Cancelled"}]
                /\ \E s : signals' = signals \o s /\ Calm(s) /\ Silent(s)
             \/ /\ job' = NoJob
                /\ \E t : signals' = signals \o t /\ EndsJob(t)
  <2>1. CASE \E f \in BOOLEAN : FinishJob(before, f)
    BY <1>3, <2>1 DEF FinishJob, Emit
  <2>2. CASE job' = [job EXCEPT !.at = "live", !.back = back] /\ Emit(before)
    <3>1. job' \in [at : {"live"}, back : BOOLEAN, cancel : BOOLEAN,
                    end : {"none", "Completed", "Failed", "Cancelled"}]
      BY <1>0, <2>2
    <3> QED
      BY <1>2, <2>2, <3>1 DEF Emit
  <2> QED
    BY <1>4, <2>1, <2>2 DEF SubmitJob
<1>5. CASE TranslateNative
  <2>1. job.back \in BOOLEAN /\ SubmitJob(<<Settled(host)>>, job.back)
    BY <1>0, <1>5 DEF TranslateNative
  <2> QED
    BY <1>1, <1>4, <2>1
<1>6. CASE JobEnded
  <2>1. SubmitJob(<<>>, FALSE) \/ \E f \in BOOLEAN : FinishJob(<<>>, f)
    BY <1>6 DEF JobEnded
  <2>2. CASE SubmitJob(<<>>, FALSE)
    BY <1>1, <1>4, <2>2
  <2>3. CASE \E f \in BOOLEAN : FinishJob(<<>>, f)
    BY <1>1, <1>3, <2>3 DEF FinishJob, Emit
  <2> QED
    BY <2>1, <2>2, <2>3
<1> QED
  BY <1>5, <1>6 DEF JobWork

-----------------------------------------------------------------------------
(* The kinds of step, and the types.                                       *)

Kept == UNCHANGED <<translation, batchState>>

Pressed   == (OtherButtons \/ (Unlocked /\ LockedButtons)) /\ Kept
Heard     == (OnRuntimeSnapshot \/ FlowSlots) /\ Kept
Requested == ~page.translating /\ ~page.busy /\ \E back \in BOOLEAN : OnTranslateRequested(back)
PageSlots == OnTranslationFinished \/ OnBatchStateChanged \/ OnBatchFinished \/ OnBatchError

(* A step is of one of these kinds.                                        *)
LEMMA Steps ==
    ASSUME [Next]_vars
    PROVE  \/ Pressed \/ Requested \/ OnCancelRequested \/ OnClear
           \/ OnStartPause \/ OnBatchAddFiles
           \/ Heard \/ StatusHeard \/ PageSlots
           \/ ModelCommands \/ JobWork \/ Controller
           \/ SegmentEnds \/ (\E end \in {"Completed", "Failed", "Cancelled"} : JobEnds(end))
           \/ Downloading
           \/ UNCHANGED vars
BY DEF Next, User, Slots, ServiceThread, ModelHostEnds, OnTranslate, OnRetry,
       Pressed, Heard, Requested, PageSlots, Kept, JobWork, Controller

\* A slot takes the first signal.
Hearing == signals # <<>> /\ signals' = Tail(signals)

(* The slots that update the picture of the model.                         *)
LEMMA HeardFacts ==
    ASSUME Types, Heard
    PROVE  /\ Hearing /\ Kept /\ UNCHANGED <<configured, service, phase, withdrawn>>
           /\ Head(signals).kind \in {"snapshot", "loaded", "unloaded", "started", "finished"}
           /\ Head(signals).kind = "snapshot" <=> OnRuntimeSnapshot
           /\ Head(signals).kind = "loaded" <=> OnModelLoadFinished
           /\ Head(signals).kind = "unloaded" <=> OnModelUnloadFinished
           /\ Head(signals).kind = "finished" <=> OnDownloadFinished
           /\ Head(signals).kind # "finished" =>
                 UNCHANGED <<commands, bound, boundModel, awaiting>>
           /\ Head(signals).kind \in {"started", "finished"} =>
                 UNCHANGED <<modelLoaded, loadedId, busy, unloading>>
<1> USE DEF Hearing, Kept, window, flow, service, download, history, Hears
<1>1. CASE OnRuntimeSnapshot
  BY <1>1 DEF OnRuntimeSnapshot, OnModelLoadFinished, OnModelUnloadFinished, OnDownloadFinished, Heard
<1>2. CASE OnModelLoadFinished
  BY <1>2 DEF OnRuntimeSnapshot, OnModelLoadFinished, OnModelUnloadFinished, OnDownloadFinished, Heard
<1>3. CASE OnModelUnloadFinished
  BY <1>3 DEF OnRuntimeSnapshot, OnModelLoadFinished, OnModelUnloadFinished, OnDownloadFinished, Heard
<1>4. CASE OnDownloadStarted
  BY <1>4 DEF OnRuntimeSnapshot, OnModelLoadFinished, OnModelUnloadFinished, OnDownloadStarted,
              OnDownloadFinished, Heard
<1>5. CASE OnDownloadFinished
  BY <1>5 DEF OnRuntimeSnapshot, OnModelLoadFinished, OnModelUnloadFinished, OnDownloadFinished, Heard
<1> QED
  BY <1>1, <1>2, <1>3, <1>4, <1>5 DEF Heard, FlowSlots

(* The types of the fields of a signal.                                    *)
LEMMA SignalFields ==
    ASSUME NEW e \in Signal
    PROVE  /\ e.kind \in {"status", "loaded", "unloaded"} => e.flag \in BOOLEAN
           /\ e.kind = "snapshot" => e.model \in Model \cup {NoModel}
           /\ e.kind \in {"started", "finished"} => e.id \in Download
           /\ e.kind = "translated" => e.mine \in BOOLEAN /\ e.failed \in BOOLEAN
           /\ e.kind = "batchState" => /\ e.running \in BOOLEAN /\ e.paused \in BOOLEAN
                                       /\ \A c \in Run : e = BatchState(c) <=>
                                             e.running = c.running /\ e.paused = c.paused
BY DEF Signal, BatchState, Run

(* The types hold at the start.                                            *)
LEMMA TypesInit == Init => Types
<1> SUFFICES ASSUME Init PROVE Types
  OBVIOUS
<1> USE NoModelAssumption DEF Init, ShellInit
<1>1. QueueType
  BY DEF QueueType
<1>2. phase \in [Download -> {"unknown", "reserved", "started", "finished"}]
  BY DEF Downloads!Init
<1>3. ModelType
  BY <1>2 DEF ModelType
<1>4. /\ page \in [translating : BOOLEAN, busy : BOOLEAN, failed : BOOLEAN, retry : BOOLEAN]
      /\ batch \in [running : BOOLEAN, paused : BOOLEAN, pageRunning : BOOLEAN, pagePaused : BOOLEAN]
  OBVIOUS
<1>5. job \in [at : {"none", "posted", "live", "ended"}, back : BOOLEAN, cancel : BOOLEAN,
               end : {"none", "Completed", "Failed", "Cancelled"}]
  BY DEF NoJob
<1>6. WorkType
  BY <1>4, <1>5 DEF WorkType, Run
<1> QED
  BY <1>1, <1>3, <1>6 DEF Types

(* The queues hold signals and commands.                                    *)
LEMMA QueueTypeNext == Types /\ [Next]_vars => QueueType'
<1> SUFFICES ASSUME Types, [Next]_vars PROVE QueueType'
  OBVIOUS
<1>0. signals \in Seq(Signal) /\ commands \in Seq(Command)
  BY DEF Types, QueueType
<1>1. \A e \in Command : Append(commands, e) \in Seq(Command)
  BY <1>0, Appending
<1>2. commands # <<>> => Tail(commands) \in Seq(Command)
  BY <1>0
<1>3. signals # <<>> => Tail(signals) \in Seq(Signal)
  BY <1>0
<1>4. \A s \in Seq(Signal) : signals \o s \in Seq(Signal)
  BY <1>0, Joining
<1> USE DEF QueueType, window, flow, service, download, history, translation, batchState
<1>5. CASE Pressed
  BY <1>0, <1>1, <1>5, ButtonFacts DEF Pressed, Command, ButtonLeaves
<1>6. CASE Requested \/ OnCancelRequested \/ OnClear \/ OnStartPause \/ OnBatchAddFiles
  BY <1>0, <1>1, <1>6 DEF Requested, OnTranslateRequested, OnCancelRequested, OnClear, OnStartPause,
     OnBatchAddFiles, ShellKept, Post, Command
<1>7. CASE Heard
  <2>1. commands' = commands \/ commands' = Append(commands, "load")
    BY <1>7, HeardFacts DEF OnDownloadFinished, BeginLoad
  <2>2. signals # <<>> /\ signals' = Tail(signals)
    BY <1>7, HeardFacts DEF Hearing
  <2> QED
    BY <1>0, <1>1, <1>3, <2>1, <2>2 DEF Command
<1>8. CASE StatusHeard \/ PageSlots
  BY <1>0, <1>3, <1>8 DEF StatusHeard, OnStatusChanged, PageSlots, OnTranslationFinished,
     OnBatchStateChanged, OnBatchFinished, OnBatchError, Hears
<1>9. CASE ModelCommands
  <2>0. host \in Model \cup {NoModel} /\ target \in Model \cup {NoModel}
    BY DEF Types, ModelType
  <2>1. CASE LoadModel
    <3>1. StatusChanged(TRUE) \in Signal /\ SnapshotChanged("Loading", host) \in Signal
      BY <2>0, SignalTypes
    <3> QED
      BY <1>0, <1>2, <1>4, <2>1, <3>1, Few DEF LoadModel, Emit
  <2>2. CASE UnloadModel
    <3>1. StatusChanged(TRUE) \in Signal /\ SnapshotChanged("Unloading", host) \in Signal
      BY <2>0, SignalTypes
    <3> QED
      BY <1>0, <1>2, <1>4, <2>2, <3>1, Few DEF UnloadModel, Emit
  <2>3. ASSUME NEW ok \in BOOLEAN, LoadModelReturns(ok) PROVE QueueType'
    <3>1. host' \in Model \cup {NoModel}
      BY <2>0, <2>3 DEF LoadModelReturns
    <3>2. StatusChanged(FALSE) \in Signal /\ LoadFinished(ok) \in Signal /\ Settled(host') \in Signal
      BY <3>1, SignalTypes
    <3> QED
      BY <1>0, <1>4, <2>3, <3>2, Few DEF LoadModelReturns, Emit
  <2>4. ASSUME NEW ok \in BOOLEAN, UnloadModelReturns(ok) PROVE QueueType'
    <3>1. host' \in Model \cup {NoModel}
      BY <2>0, <2>4 DEF UnloadModelReturns
    <3>2. StatusChanged(FALSE) \in Signal /\ UnloadFinished(ok) \in Signal /\ Settled(host') \in Signal
      BY <3>1, SignalTypes
    <3> QED
      BY <1>0, <1>4, <2>4, <3>2, Few DEF UnloadModelReturns, Emit
  <2> QED
    BY <1>9, <2>1, <2>2, <2>3, <2>4 DEF ModelCommands
<1>10. CASE JobWork
  BY <1>0, <1>2, <1>4, <1>10, JobWorkFacts DEF EndsJob, Calm
<1>11. CASE Controller
  BY <1>0, <1>2, <1>4, <1>11, ControllerFacts DEF Emission, Calm, Executed
<1>12. CASE SegmentEnds \/ (\E end \in {"Completed", "Failed", "Cancelled"} : JobEnds(end))
  BY <1>0, <1>1, <1>12 DEF SegmentEnds, JobEnds, Post, Command
<1>13. CASE Downloading
  <2>1. PICK i \in Download : ServiceStarts(i) \/ \E r \in Downloads!Outcome : ServiceFinishes(i, r)
    BY <1>13 DEF Downloading, DownloadSteps
  <2>2. PICK e \in Signal : Emit(<<e>>) /\ UNCHANGED commands
    BY <2>1, SignalTypes DEF ServiceStarts, ServiceFinishes
  <2> QED
    BY <1>0, <1>4, <2>2, Few DEF Emit
<1>14. CASE UNCHANGED vars
  BY <1>0, <1>14 DEF vars, shell
<1> QED
  BY <1>5, <1>6, <1>7, <1>8, <1>9, <1>10, <1>11, <1>12, <1>13, <1>14, Steps

\* What a step of the pages, of their jobs or of the controller leaves alone.
ModelKept == UNCHANGED <<window, flow, service, download, withdrawn>>

WorkStep ==
    \/ Requested \/ OnCancelRequested \/ OnClear \/ OnStartPause \/ OnBatchAddFiles
    \/ PageSlots \/ JobWork \/ Controller
    \/ SegmentEnds \/ \E end \in {"Completed", "Failed", "Cancelled"} : JobEnds(end)
    \/ UNCHANGED vars

(* The work of the pages leaves the model and the downloads alone.         *)
LEMMA WorkKeepsModel ==
    ASSUME Types, WorkStep
    PROVE  ModelKept
<1> USE DEF ModelKept, history
<1>1. CASE Requested \/ OnCancelRequested \/ OnClear \/ OnStartPause \/ OnBatchAddFiles
  BY <1>1 DEF Requested, OnTranslateRequested, OnCancelRequested, OnClear, OnStartPause,
     OnBatchAddFiles, ShellKept
<1>2. CASE PageSlots
  BY <1>2 DEF PageSlots, OnTranslationFinished, OnBatchStateChanged, OnBatchFinished, OnBatchError
<1>3. CASE JobWork
  BY <1>3, JobWorkFacts
<1>4. CASE Controller
  BY <1>4, ControllerFacts DEF ControllerLeaves
<1>5. CASE SegmentEnds \/ \E end \in {"Completed", "Failed", "Cancelled"} : JobEnds(end)
  BY <1>5 DEF SegmentEnds, JobEnds
<1>6. CASE UNCHANGED vars
  BY <1>6 DEF vars, shell
<1> QED
  BY <1>1, <1>2, <1>3, <1>4, <1>5, <1>6 DEF WorkStep

(* The model keeps its types.                                              *)
LEMMA ModelTypeNext == Types /\ [Next]_vars => ModelType'
<1> SUFFICES ASSUME Types, [Next]_vars PROVE ModelType'
  OBVIOUS
<1>0. ModelType
  BY DEF Types
<1> USE DEF window, flow, service, download, history
<1>1. CASE WorkStep
  BY <1>0, <1>1, WorkKeepsModel DEF ModelKept, ModelType
<1>2. CASE Pressed
  <2>1. /\ ButtonLeaves /\ configured' \in Model
        /\ loading' \in Model \/ UNCHANGED loading
        /\ unloading' \in BOOLEAN
        /\ Reserves \/ Withdraws \/ KeepsDownload
    BY <1>0, <1>2, ButtonFacts DEF Pressed, ModelType
  <2>2. CASE Reserves
    <3>1. PICK i \in Download, m \in Model :
             phase' = [phase EXCEPT ![i] = "reserved"] /\ bound' = i /\ boundModel' = m /\ awaiting' = TRUE
      BY <2>2 DEF Reserves
    <3>2. i # NoId /\ m # NoModel
      BY DownloadAssumption, NoModelAssumption DEF NoId
    <3>3. phase' \in [Download -> {"unknown", "reserved", "started", "finished"}]
      BY <1>0, <3>1 DEF ModelType
    <3>4. /\ boundModel' \in Model \cup {NoModel} /\ bound' \in Download \cup {NoId}
          /\ bound' # NoId /\ boundModel' # NoModel /\ awaiting' \in BOOLEAN
      BY <3>1, <3>2
    <3> QED
      BY <1>0, <2>1, <3>3, <3>4 DEF ModelType, ButtonLeaves
  <2>3. CASE Withdraws \/ KeepsDownload
    BY <1>0, <2>1, <2>3 DEF ModelType, ButtonLeaves, Withdraws, KeepsDownload
  <2> QED
    BY <2>1, <2>2, <2>3
<1>3. CASE Heard
  <2>0. Head(signals) \in Signal
    BY <1>3, HeardFacts DEF Hearing, Types, QueueType
  <2>1. /\ UNCHANGED <<configured, service, phase>>
        /\ OnRuntimeSnapshot \/ FlowSlots
    BY <1>3, HeardFacts DEF Heard
  <2>2. CASE OnRuntimeSnapshot
    <3>1. Head(signals).model \in Model \cup {NoModel}
      BY <2>0, <2>2, SignalFields DEF OnRuntimeSnapshot, Hears
    <3> QED
      BY <1>0, <2>1, <2>2, <3>1 DEF ModelType, OnRuntimeSnapshot
  <2>3. CASE OnModelLoadFinished
    <3>1. Head(signals).flag \in BOOLEAN
      BY <2>0, <2>3, SignalFields DEF OnModelLoadFinished, Hears
    <3> QED
      BY <1>0, <2>1, <2>3, <3>1 DEF ModelType, OnModelLoadFinished
  <2>4. CASE OnModelUnloadFinished
    <3>1. Head(signals).flag \in BOOLEAN
      BY <2>0, <2>4, SignalFields DEF OnModelUnloadFinished, Hears
    <3> QED
      BY <1>0, <2>1, <2>4, <3>1 DEF ModelType, OnModelUnloadFinished
  <2>5. CASE OnDownloadStarted
    BY <1>0, <2>1, <2>5 DEF ModelType, OnDownloadStarted
  <2>6. CASE OnDownloadFinished
    BY <1>0, <2>1, <2>6 DEF ModelType, OnDownloadFinished, BeginLoad
  <2> QED
    BY <2>1, <2>2, <2>3, <2>4, <2>5, <2>6 DEF FlowSlots
<1>4. CASE StatusHeard
  <2>1. Head(signals).flag \in BOOLEAN
    BY <1>4, SignalFields DEF StatusHeard, OnStatusChanged, Hears, Types, QueueType
  <2>2. /\ busy' = Head(signals).flag
        /\ UNCHANGED <<configured, modelLoaded, loadedId, flow, service, download>>
    BY <1>4 DEF StatusHeard, OnStatusChanged
  <2> QED
    BY <1>0, <2>1, <2>2 DEF ModelType
<1>5. CASE ModelCommands
  BY <1>0, <1>5 DEF ModelType, ModelCommands, LoadModel, UnloadModel, LoadModelReturns, UnloadModelReturns
<1>6. CASE Downloading
  <2>1. PICK i \in Download : ServiceStarts(i) \/ \E r \in Downloads!Outcome : ServiceFinishes(i, r)
    BY <1>6 DEF Downloading, DownloadSteps
  <2>2. \/ phase' = [phase EXCEPT ![i] = "started"] \/ phase' = [phase EXCEPT ![i] = "finished"]
    BY <2>1 DEF ServiceStarts, ServiceFinishes, Downloads!Start, Downloads!Finish
  <2>3. UNCHANGED <<window, flow, service>>
    BY <2>1 DEF ServiceStarts, ServiceFinishes
  <2> QED
    BY <1>0, <2>2, <2>3 DEF ModelType
<1> QED
  BY <1>1, <1>2, <1>3, <1>4, <1>5, <1>6, Steps DEF WorkStep

(* The pages, the job and the run keep their types.                        *)
LEMMA WorkTypeNext == Types /\ [Next]_vars => WorkType'
<1> SUFFICES ASSUME Types, [Next]_vars PROVE WorkType'
  OBVIOUS
<1>0. WorkType
  BY DEF Types
<1> USE DEF translation, batchState
<1>1. CASE Pressed \/ Heard \/ ModelCommands \/ Downloading
  BY <1>0, <1>1 DEF WorkType, Pressed, Heard, Kept, ModelCommands, Downloading
<1>2. CASE Requested
  <2>1. PICK back \in BOOLEAN : OnTranslateRequested(back)
    BY <1>2 DEF Requested
  <2>2. job' \in [at : {"none", "posted", "live", "ended"}, back : BOOLEAN, cancel : BOOLEAN,
                  end : {"none", "Completed", "Failed", "Cancelled"}]
    BY <2>1 DEF OnTranslateRequested, NoJob
  <2>3. page' \in [translating : BOOLEAN, busy : BOOLEAN, failed : BOOLEAN, retry : BOOLEAN]
    BY <1>0, <2>1 DEF WorkType, OnTranslateRequested
  <2>4. own' \in BOOLEAN /\ UNCHANGED batchState
    BY <2>1 DEF OnTranslateRequested
  <2> QED
    BY <1>0, <2>2, <2>3, <2>4 DEF WorkType
<1>3. CASE OnCancelRequested
  <2>1. job' \in [at : {"none", "posted", "live", "ended"}, back : BOOLEAN, cancel : BOOLEAN,
                  end : {"none", "Completed", "Failed", "Cancelled"}]
    BY <1>0, <1>3 DEF WorkType, OnCancelRequested
  <2>2. UNCHANGED <<own, page, batchState>>
    BY <1>3 DEF OnCancelRequested
  <2> QED
    BY <1>0, <2>1, <2>2 DEF WorkType
<1>4. CASE OnClear
  <2>1. page' \in [translating : BOOLEAN, busy : BOOLEAN, failed : BOOLEAN, retry : BOOLEAN]
    BY <1>0, <1>4 DEF WorkType, OnClear
  <2>2. UNCHANGED <<own, job, batchState>>
    BY <1>4 DEF OnClear
  <2> QED
    BY <1>0, <2>1, <2>2 DEF WorkType
<1>5. CASE OnStartPause
  <2>1. \/ batch' = [batch EXCEPT !.running = TRUE, !.paused = FALSE, !.pageRunning = TRUE]
        \/ batch' = [batch EXCEPT !.running = TRUE, !.paused = TRUE, !.pagePaused = TRUE]
        \/ batch' = [batch EXCEPT !.paused = FALSE, !.pagePaused = FALSE]
    BY <1>5 DEF OnStartPause
  <2>2. batch' \in [running : BOOLEAN, paused : BOOLEAN,
                    pageRunning : BOOLEAN, pagePaused : BOOLEAN]
    BY <1>0, <2>1 DEF WorkType
  <2>3. UNCHANGED <<ctl, segment, left, erred, translation>>
    BY <1>5 DEF OnStartPause
  <2> QED
    BY <1>0, <2>2, <2>3 DEF WorkType
<1>6. CASE OnBatchAddFiles
  BY <1>0, <1>6 DEF WorkType, OnBatchAddFiles
<1>7. CASE StatusHeard
  <2>1. Head(signals).flag \in BOOLEAN
    BY <1>7, SignalFields DEF StatusHeard, OnStatusChanged, Hears, Types, QueueType
  <2> QED
    BY <1>0, <1>7, <2>1 DEF WorkType, StatusHeard
<1>8. CASE PageSlots
  <2>1. Head(signals) \in Signal
    BY <1>8 DEF Types, QueueType, PageSlots, OnTranslationFinished, OnBatchStateChanged,
       OnBatchFinished, OnBatchError, Hears
  <2>2. CASE OnTranslationFinished
    <3>1. Head(signals).failed \in BOOLEAN
      BY <2>1, <2>2, SignalFields DEF OnTranslationFinished, Hears
    <3>2. page' \in [translating : BOOLEAN, busy : BOOLEAN, failed : BOOLEAN, retry : BOOLEAN]
      BY <1>0, <2>2, <3>1 DEF WorkType, OnTranslationFinished, ResultShown
    <3>3. own' \in BOOLEAN /\ UNCHANGED <<job, batchState>>
      BY <1>0, <2>2 DEF WorkType, OnTranslationFinished
    <3> QED
      BY <1>0, <3>2, <3>3 DEF WorkType
  <2>3. CASE OnBatchStateChanged
    <3>1. Head(signals).running \in BOOLEAN /\ Head(signals).paused \in BOOLEAN
      BY <2>1, <2>3, SignalFields DEF OnBatchStateChanged, Hears
    <3> QED
      BY <1>0, <2>3, <3>1 DEF WorkType, OnBatchStateChanged
  <2>4. CASE OnBatchFinished \/ OnBatchError
    BY <1>0, <2>4 DEF WorkType, OnBatchFinished, OnBatchError
  <2> QED
    BY <1>8, <2>2, <2>3, <2>4 DEF PageSlots
<1>9. CASE JobWork
  <2>1. job' \in [at : {"none", "posted", "live", "ended"}, back : BOOLEAN, cancel : BOOLEAN,
                  end : {"none", "Completed", "Failed", "Cancelled"}]
    <3>1. NoJob \in [at : {"none", "posted", "live", "ended"}, back : BOOLEAN, cancel : BOOLEAN,
                     end : {"none", "Completed", "Failed", "Cancelled"}]
      BY DEF NoJob
    <3>2. \A j \in [at : {"live"}, back : BOOLEAN, cancel : BOOLEAN,
                    end : {"none", "Completed", "Failed", "Cancelled"}] :
             j \in [at : {"none", "posted", "live", "ended"}, back : BOOLEAN, cancel : BOOLEAN,
                    end : {"none", "Completed", "Failed", "Cancelled"}]
      OBVIOUS
    <3>3. job' \in [at : {"live"}, back : BOOLEAN, cancel : BOOLEAN,
                    end : {"none", "Completed", "Failed", "Cancelled"}] \/ job' = NoJob
      BY <1>9, JobWorkFacts
    <3> QED
      BY <3>1, <3>2, <3>3
  <2> QED
    BY <1>0, <1>9, <2>1, JobWorkFacts DEF WorkType
<1>10. CASE Controller
  BY <1>0, <1>10, ControllerFacts DEF WorkType, RunTypes, ControllerLeaves
<1>11. CASE SegmentEnds \/ \E end \in {"Completed", "Failed", "Cancelled"} : JobEnds(end)
  BY <1>0, <1>11 DEF WorkType, SegmentEnds, JobEnds
<1>12. CASE UNCHANGED vars
  BY <1>0, <1>12 DEF WorkType, vars
<1> QED
  BY <1>1, <1>2, <1>3, <1>4, <1>5, <1>6, <1>7, <1>8, <1>9, <1>10, <1>11, <1>12, Steps

(* Every step keeps the types.                                             *)
LEMMA TypesNext == Types /\ [Next]_vars => Types'
BY QueueTypeNext, ModelTypeNext, WorkTypeNext DEF Types

-----------------------------------------------------------------------------
(* The commands that load and unload.                                      *)

(* A command begins, or returns; the first signal says which.              *)
LEMMA ModelCommandFacts ==
    ASSUME Types, ModelCommands
    PROVE  /\ Kept /\ UNCHANGED <<window, flow, download, history>>
           /\ \E s \in Seq(Signal) :
                 /\ Emit(s) /\ 1 \in 1..Len(s) /\ s[1] = StatusChanged(spc' # "idle")
                 /\ \/ /\ spc = "idle" /\ commands # <<>> /\ commands' = Tail(commands)
                       /\ Head(commands) \in {"load", "unload"} /\ spc' = Head(commands)
                       /\ UNCHANGED host
                       /\ Len(s) = 2 /\ s[2].kind = "snapshot"
                    \/ /\ spc \in {"load", "unload"} /\ spc' = "idle" /\ UNCHANGED commands
                       /\ Len(s) = 3 /\ s[3] = Settled(host')
                       /\ s[2].kind = IF spc = "load" THEN "loaded" ELSE "unloaded"
<1>0. host \in Model \cup {NoModel} /\ target \in Model \cup {NoModel}
  BY DEF Types, ModelType
<1> USE DEF ModelCommands
<1>1. Kept /\ UNCHANGED <<window, flow, download, history>>
  BY DEF Kept, LoadModel, UnloadModel, LoadModelReturns, UnloadModelReturns
<1>2. ASSUME NEW l \in {"Loading", "Unloading"}
      PROVE  \E s \in Seq(Signal) : /\ s = <<StatusChanged(TRUE), SnapshotChanged(l, host)>>
                                    /\ Len(s) = 2 /\ 1 \in 1..Len(s) /\ s[1] = StatusChanged(TRUE)
                                    /\ s[2].kind = "snapshot"
  <2>1. PICK e \in Signal : e = StatusChanged(TRUE)
    BY SignalTypes
  <2>2. PICK f \in Signal : f = SnapshotChanged(l, host) /\ f.kind = "snapshot"
    BY <1>0, SignalTypes DEF SnapshotChanged
  <2>3. /\ <<e, f>> \in Seq(Signal) /\ Len(<<e, f>>) = 2 /\ 1 \in 1..Len(<<e, f>>)
        /\ <<e, f>>[1] = e /\ <<e, f>>[2] = f
    OBVIOUS
  <2> QED
    BY <2>1, <2>2, <2>3
<1>3. ASSUME NEW g \in Signal, NEW m \in Model \cup {NoModel}
      PROVE  \E s \in Seq(Signal) : /\ s = <<StatusChanged(FALSE), g, Settled(m)>>
                                    /\ Len(s) = 3 /\ 1 \in 1..Len(s) /\ s[1] = StatusChanged(FALSE)
                                    /\ s[2] = g /\ s[3] = Settled(m)
  <2>1. PICK e \in Signal : e = StatusChanged(FALSE)
    BY SignalTypes
  <2>2. PICK f \in Signal : f = Settled(m)
    BY SignalTypes
  <2>3. /\ <<e, g, f>> \in Seq(Signal) /\ Len(<<e, g, f>>) = 3 /\ 1 \in 1..Len(<<e, g, f>>)
        /\ <<e, g, f>>[1] = e /\ <<e, g, f>>[2] = g /\ <<e, g, f>>[3] = f
    OBVIOUS
  <2> QED
    BY <2>1, <2>2, <2>3
<1>4. CASE LoadModel
  <2>1. /\ Emit(<<StatusChanged(TRUE), SnapshotChanged("Loading", host)>>)
        /\ spc = "idle" /\ commands # <<>> /\ commands' = Tail(commands) /\ Head(commands) = "load"
        /\ spc' = "load" /\ UNCHANGED host
    BY <1>4 DEF LoadModel
  <2> QED
    BY <1>1, <1>2, <2>1
<1>5. CASE UnloadModel
  <2>1. /\ Emit(<<StatusChanged(TRUE), SnapshotChanged("Unloading", host)>>)
        /\ spc = "idle" /\ commands # <<>> /\ commands' = Tail(commands) /\ Head(commands) = "unload"
        /\ spc' = "unload" /\ UNCHANGED host
    BY <1>5 DEF UnloadModel
  <2> QED
    BY <1>1, <1>2, <2>1
<1>6. ASSUME NEW ok \in BOOLEAN, LoadModelReturns(ok)
      PROVE  /\ Emit(<<StatusChanged(FALSE), LoadFinished(ok), Settled(host')>>)
             /\ spc = "load" /\ spc' = "idle" /\ UNCHANGED commands
             /\ host' \in Model \cup {NoModel}
             /\ LoadFinished(ok) \in Signal /\ LoadFinished(ok).kind = "loaded"
  BY <1>0, <1>6, SignalTypes DEF LoadModelReturns, LoadFinished
<1>7. ASSUME NEW ok \in BOOLEAN, UnloadModelReturns(ok)
      PROVE  /\ Emit(<<StatusChanged(FALSE), UnloadFinished(ok), Settled(host')>>)
             /\ spc = "unload" /\ spc' = "idle" /\ UNCHANGED commands
             /\ host' \in Model \cup {NoModel}
             /\ UnloadFinished(ok) \in Signal /\ UnloadFinished(ok).kind = "unloaded"
  BY <1>0, <1>7, SignalTypes DEF UnloadModelReturns, UnloadFinished
<1>8. ASSUME NEW ok \in BOOLEAN, LoadModelReturns(ok) \/ UnloadModelReturns(ok)
      PROVE  \E s \in Seq(Signal) :
                 /\ Emit(s) /\ 1 \in 1..Len(s) /\ s[1] = StatusChanged(spc' # "idle")
                 /\ spc \in {"load", "unload"} /\ spc' = "idle" /\ UNCHANGED commands
                 /\ Len(s) = 3 /\ s[3] = Settled(host')
                 /\ s[2].kind = IF spc = "load" THEN "loaded" ELSE "unloaded"
  <2>1. CASE LoadModelReturns(ok)
    <3>1. PICK s \in Seq(Signal) :
             /\ s = <<StatusChanged(FALSE), LoadFinished(ok), Settled(host')>>
             /\ Len(s) = 3 /\ 1 \in 1..Len(s) /\ s[1] = StatusChanged(FALSE)
             /\ s[2] = LoadFinished(ok) /\ s[3] = Settled(host')
      BY <1>3, <1>6, <2>1
    <3> QED
      BY <1>6, <2>1, <3>1
  <2>2. CASE UnloadModelReturns(ok)
    <3>1. PICK s \in Seq(Signal) :
             /\ s = <<StatusChanged(FALSE), UnloadFinished(ok), Settled(host')>>
             /\ Len(s) = 3 /\ 1 \in 1..Len(s) /\ s[1] = StatusChanged(FALSE)
             /\ s[2] = UnloadFinished(ok) /\ s[3] = Settled(host')
      BY <1>3, <1>7, <2>2
    <3> QED
      BY <1>7, <2>2, <3>1
  <2> QED
    BY <1>8, <2>1, <2>2
<1> QED
  BY <1>1, <1>4, <1>5, <1>8

-----------------------------------------------------------------------------
(* Downloads.                                                              *)

(* What a step of the download service or of the model's commands leaves   *)
(* alone, and how the phases of the downloads change.                      *)
LEMMA DownloadingFacts ==
    ASSUME Types, Downloading
    PROVE  /\ Kept /\ UNCHANGED <<window, flow, commands, service, history>>
           /\ \E i \in Download :
                 /\ phase[i] \in {"reserved", "started"}
                 /\ \/ /\ phase' = [phase EXCEPT ![i] = "started"]
                       /\ Emit(<<DownloadStarted(i)>>)
                    \/ /\ phase' = [phase EXCEPT ![i] = "finished"]
                       /\ \E r \in Downloads!Outcome : Emit(<<DownloadFinished(i, r)>>)
<1>1. PICK i \in Download : ServiceStarts(i) \/ \E r \in Downloads!Outcome : ServiceFinishes(i, r)
  BY DEF Downloading, DownloadSteps
<1>2. Kept
  BY DEF Downloading, Kept
<1>3. CASE ServiceStarts(i)
  BY <1>2, <1>3 DEF ServiceStarts, Downloads!Start
<1>4. ASSUME NEW r \in Downloads!Outcome, ServiceFinishes(i, r)
      PROVE  /\ UNCHANGED <<window, flow, commands, service, history>>
             /\ phase[i] \in {"reserved", "started"}
             /\ phase' = [phase EXCEPT ![i] = "finished"] /\ Emit(<<DownloadFinished(i, r)>>)
  BY <1>4 DEF ServiceFinishes, Downloads!Finish
<1> QED
  BY <1>1, <1>2, <1>3, <1>4

(* The downloads keep what holds of them.                                  *)
LEMMA DownloadInvNext == IInv /\ [Next]_vars => DownloadInv'
<1> SUFFICES ASSUME IInv, [Next]_vars PROVE DownloadInv'
  OBVIOUS
<1>0. /\ DownloadInv /\ Types /\ bound \in Download \cup {NoId} /\ awaiting \in BOOLEAN
      /\ phase \in [Download -> {"unknown", "reserved", "started", "finished"}]
  BY DEF IInv, Types, ModelType
<1> USE DEF DownloadInv, window, flow, service, download, history
<1>1. CASE WorkStep
  BY <1>0, <1>1, WorkKeepsModel DEF ModelKept
<1>2. CASE Pressed
  <2>1. Reserves \/ Withdraws \/ KeepsDownload
    BY <1>0, <1>2, ButtonFacts DEF Pressed
  <2>2. CASE Reserves
    <3>1. PICK i \in Download : /\ phase[i] = "unknown" /\ phase' = [phase EXCEPT ![i] = "reserved"]
                                /\ bound' = i /\ UNCHANGED withdrawn
      BY <2>2 DEF Reserves
    <3>2. phase'[i] = "reserved" /\ \A j \in Download : j # i => phase'[j] = phase[j]
      BY <1>0, <3>1
    <3>3. i \notin withdrawn
      BY <1>0, <3>1
    <3> QED
      BY <1>0, <3>1, <3>2, <3>3
  <2>3. CASE Withdraws
    <3>1. withdrawn' = withdrawn \cup ({bound} \ {NoId}) /\ UNCHANGED <<phase, bound>> /\ awaiting' = FALSE
      BY <2>3 DEF Withdraws
    <3> QED
      BY <1>0, <3>1
  <2> QED
    BY <1>0, <2>1, <2>2, <2>3 DEF KeepsDownload
<1>3. CASE Heard
  <2>1. UNCHANGED <<phase, withdrawn>>
    BY <1>0, <1>3, HeardFacts
  <2>2. CASE Head(signals).kind = "finished"
    <3>1. OnDownloadFinished
      BY <1>0, <1>3, <2>2, HeardFacts
    <3>2. bound' = NoId \/ UNCHANGED <<bound, awaiting>>
      BY <3>1 DEF OnDownloadFinished
    <3> QED
      BY <1>0, <2>1, <3>2
  <2>3. CASE Head(signals).kind # "finished"
    BY <1>0, <1>3, <2>1, <2>3, HeardFacts
  <2> QED
    BY <2>2, <2>3
<1>4. CASE StatusHeard
  BY <1>0, <1>4 DEF StatusHeard, OnStatusChanged
<1>5. CASE ModelCommands
  BY <1>0, <1>5, ModelCommandFacts
<1>6. CASE Downloading
  <2>1. UNCHANGED <<flow, history>>
    BY <1>0, <1>6, DownloadingFacts
  <2>2. PICK i \in Download : \/ phase' = [phase EXCEPT ![i] = "started"]
                              \/ phase' = [phase EXCEPT ![i] = "finished"]
    BY <1>0, <1>6, DownloadingFacts
  <2>3. \A j \in Download : phase[j] # "unknown" => phase'[j] # "unknown"
    BY <1>0, <2>2
  <2> QED
    BY <1>0, <2>1, <2>3
<1> QED
  BY <1>1, <1>2, <1>3, <1>4, <1>5, <1>6, Steps DEF WorkStep

(* Only the end of the download that is bound unbinds it, and a load       *)
(* follows only if the download is awaited.                                *)
LEMMA CancelledStep ==
    ASSUME IInv, [Next]_vars, bound \in withdrawn, bound' = NoId
    PROVE  commands' = commands
<1>0. Types /\ bound # NoId /\ ~awaiting
  BY DEF IInv, DownloadInv
<1> USE DEF window, flow, service, download, history
<1>1. CASE WorkStep
  BY <1>0, <1>1, WorkKeepsModel DEF ModelKept
<1>2. CASE Pressed
  <2>1. Reserves \/ Withdraws \/ KeepsDownload
    BY <1>0, <1>2, ButtonFacts DEF Pressed
  <2> QED
    BY <1>0, <2>1, DownloadAssumption DEF Reserves, Withdraws, KeepsDownload, NoId
<1>3. CASE Heard
  <2>1. CASE Head(signals).kind = "finished"
    <3>1. OnDownloadFinished
      BY <1>0, <1>3, <2>1, HeardFacts
    <3> QED
      BY <1>0, <3>1 DEF OnDownloadFinished
  <2>2. CASE Head(signals).kind # "finished"
    BY <1>0, <1>3, <2>2, HeardFacts
  <2> QED
    BY <2>1, <2>2
<1>4. CASE StatusHeard
  BY <1>0, <1>4 DEF StatusHeard, OnStatusChanged
<1>5. CASE ModelCommands
  <2>1. UNCHANGED flow
    BY <1>0, <1>5, ModelCommandFacts
  <2> QED
    BY <1>0, <2>1
<1>6. CASE Downloading
  BY <1>0, <1>6, DownloadingFacts
<1> QED
  BY <1>1, <1>2, <1>3, <1>4, <1>5, <1>6, Steps DEF WorkStep


-----------------------------------------------------------------------------
(* The job of the Translate page.                                          *)

NoneMine(s) == \A k \in 1..Len(s) : ~Mine(s[k])
NoStatus(s) == \A k \in 1..Len(s) : s[k].kind # "status"

\* What is not about the job of the page: the job is left alone, its end is
\* neither heard nor emitted, and an unload is only ordered without a job.
Apart ==
    /\ UNCHANGED <<own, job>>
    /\ page'.translating = page.translating /\ page'.retry = page.retry /\ page'.failed = page.failed
    /\ \/ UNCHANGED signals
       \/ Hearing /\ ~Mine(Head(signals))
       \/ \E s \in Seq(Signal) : signals' = signals \o s /\ NoneMine(s)
    /\ \/ UNCHANGED commands
       \/ commands # <<>> /\ commands' = Tail(commands)
       \/ \E c \in Command \ {"translate", "ended", "unload"} : commands' = Append(commands, c)
       \/ commands' = Append(commands, "unload") /\ ~own
    /\ spc' = "unload" => spc = "unload" \/ (commands # <<>> /\ Head(commands) = "unload")

(* A step is apart from the job, or one of the job's.                      *)
LEMMA ApartSteps ==
    ASSUME Types, [Next]_vars
    PROVE  \/ Apart
           \/ Requested \/ OnCancelRequested \/ OnClear
           \/ OnTranslationFinished /\ Mine(Head(signals))
           \/ JobWork \/ \E end \in {"Completed", "Failed", "Cancelled"} : JobEnds(end)
<1> USE DEF window, flow, service, download, history, translation, batchState
<1>1. CASE Pressed
  <2>1. /\ ButtonLeaves /\ Kept
        /\ \/ UNCHANGED commands
           \/ commands' = Append(commands, "load")
           \/ commands' = Append(commands, "unload")
    BY <1>1, ButtonFacts DEF Pressed
  <2>2. CASE OtherButtons
    <3>1. UNCHANGED commands \/ commands' = Append(commands, "load")
      BY <2>2 DEF OtherButtons, Startup, CancelFromPage, CancelFromDialog, DismissAlert,
         BannerLoad, BannerDismiss, RowDelete, BannerDownload, Withdraw, BeginLoad
    <3> QED
      BY <2>1, <3>1 DEF Apart, ButtonLeaves, Kept, Command
  <2>3. CASE Unlocked
    <3>1. ~own
      BY <2>3 DEF Unlocked
    <3> QED
      BY <2>1, <3>1 DEF Apart, ButtonLeaves, Kept, Command
  <2> QED
    BY <1>1, <2>2, <2>3 DEF Pressed
<1>2. CASE OnStartPause \/ OnBatchAddFiles
  BY <1>2 DEF OnStartPause, OnBatchAddFiles, ShellKept, Post, Apart, Command
<1>3. CASE Heard
  <2>1. /\ Hearing /\ Kept /\ UNCHANGED service
        /\ Head(signals).kind \in {"snapshot", "loaded", "unloaded", "started", "finished"}
    BY <1>3, HeardFacts
  <2>2. UNCHANGED commands \/ commands' = Append(commands, "load")
    BY <1>3, HeardFacts DEF OnDownloadFinished, BeginLoad
  <2> QED
    BY <2>1, <2>2 DEF Apart, Mine, Kept, Command
<1>4. CASE StatusHeard
  <2>1. page'.translating = page.translating /\ page'.retry = page.retry /\ page'.failed = page.failed
    BY <1>4 DEF StatusHeard, Types, WorkType
  <2> QED
    BY <1>4, <2>1 DEF StatusHeard, OnStatusChanged, Hears, Hearing, Apart, Mine
<1>5. CASE OnTranslationFinished /\ ~Mine(Head(signals))
  BY <1>5 DEF OnTranslationFinished, Hears, Hearing, Apart, Mine
<1>6. CASE OnBatchStateChanged \/ OnBatchFinished \/ OnBatchError
  BY <1>6 DEF OnBatchStateChanged, OnBatchFinished, OnBatchError, Hears, Hearing, Apart, Mine
<1>7. CASE ModelCommands
  <2>1. PICK s \in Seq(Signal) :
                 /\ Emit(s) /\ 1 \in 1..Len(s) /\ s[1] = StatusChanged(spc' # "idle")
                 /\ \/ /\ spc = "idle" /\ commands # <<>> /\ commands' = Tail(commands)
                       /\ Head(commands) \in {"load", "unload"} /\ spc' = Head(commands)
                       /\ UNCHANGED host
                       /\ Len(s) = 2 /\ s[2].kind = "snapshot"
                    \/ /\ spc \in {"load", "unload"} /\ spc' = "idle" /\ UNCHANGED commands
                       /\ Len(s) = 3 /\ s[3] = Settled(host')
                       /\ s[2].kind = IF spc = "load" THEN "loaded" ELSE "unloaded"
    BY <1>7, ModelCommandFacts
  <2>2. ASSUME Len(s) = 2 PROVE NoneMine(s)
    <3>1. \A k \in 1..Len(s) : k = 1 \/ k = 2
      BY <2>2
    <3>2. s[1].kind = "status" /\ s[2].kind # "translated"
      BY <2>1, <2>2 DEF StatusChanged
    <3> QED
      BY <3>1, <3>2 DEF NoneMine, Mine
  <2>3. ASSUME Len(s) = 3 PROVE NoneMine(s)
    <3>1. \A k \in 1..Len(s) : k = 1 \/ k = 2 \/ k = 3
      BY <2>3
    <3>2. s[1].kind = "status" /\ s[2].kind # "translated" /\ s[3].kind = "snapshot"
      BY <2>1, <2>3 DEF StatusChanged, Settled, SnapshotChanged
    <3> QED
      BY <3>1, <3>2 DEF NoneMine, Mine
  <2>4. Kept
    BY <1>7, ModelCommandFacts
  <2>5. NoneMine(s)
    BY <2>1, <2>2, <2>3
  <2> QED
    BY <2>1, <2>4, <2>5 DEF Apart, Kept, Emit
<1>8. CASE Controller
  <2>1. PICK s : Emission(s) /\ Executed(s)
    BY <1>8, ControllerFacts
  <2>2. s \in Seq(Signal) /\ NoneMine(s) /\ signals' = signals \o s
    BY <2>1 DEF Emission, Calm, CalmSignal, NoneMine
  <2> QED
    BY <1>8, <2>1, <2>2, ControllerFacts DEF Apart, ControllerLeaves, Executed
<1>9. CASE SegmentEnds
  BY <1>9 DEF SegmentEnds, Post, Apart, Command
<1>10. CASE Downloading
  <2>1. Kept /\ UNCHANGED <<commands, service>>
    BY <1>10, DownloadingFacts
  <2>2. PICK e \in Signal : Emit(<<e>>) /\ ~Mine(e)
    BY <1>10, DownloadingFacts, SignalTypes DEF DownloadStarted, DownloadFinished, Mine
  <2>3. <<e>> \in Seq(Signal) /\ NoneMine(<<e>>)
    BY <2>2 DEF NoneMine
  <2> QED
    BY <2>1, <2>2, <2>3 DEF Apart, Kept, Emit
<1>11. CASE UNCHANGED vars
  BY <1>11 DEF vars, shell, Apart
<1> QED
  BY <1>1, <1>2, <1>3, <1>4, <1>5, <1>6, <1>7, <1>8, <1>9, <1>10, <1>11, Steps DEF PageSlots

(* What is on the way of the job's end, once a signal is heard or others   *)
(* are emitted.                                                            *)
LEMMA MineKept ==
    ASSUME Types,
           \/ UNCHANGED signals
           \/ Hearing /\ ~Mine(Head(signals))
           \/ \E s \in Seq(Signal) : signals' = signals \o s /\ NoneMine(s)
    PROVE  /\ (\E i \in 1..Len(signals') : Mine(signals'[i])) <=> (\E i \in 1..Len(signals) : Mine(signals[i]))
           /\ (\A i, j \in 1..Len(signals) : Mine(signals[i]) /\ Mine(signals[j]) => i = j)
                 => (\A i, j \in 1..Len(signals') : Mine(signals'[i]) /\ Mine(signals'[j]) => i = j)
<1>0. signals \in Seq(Signal)
  BY DEF Types, QueueType
<1>1. CASE UNCHANGED signals
  BY <1>1
<1>2. CASE Hearing /\ ~Mine(Head(signals))
  <2>1. /\ 1 \in 1..Len(signals) /\ Head(signals) = signals[1] /\ Len(signals) \in Nat
        /\ \A k \in 1..Len(signals') : signals'[k] = signals[k + 1] /\ k + 1 \in 1..Len(signals)
        /\ \A k \in 1..Len(signals) : k # 1 => k - 1 \in 1..Len(signals') /\ signals'[k - 1] = signals[k]
        /\ Len(signals') \in Nat
    BY <1>0, <1>2, Taking DEF Hearing
  <2>2. ~Mine(signals[1])
    BY <1>2, <2>1
  <2>3. ASSUME \A i, j \in 1..Len(signals) : Mine(signals[i]) /\ Mine(signals[j]) => i = j,
               NEW i \in 1..Len(signals'), NEW j \in 1..Len(signals'),
               Mine(signals'[i]), Mine(signals'[j])
        PROVE  i = j
    <3>1. i + 1 = j + 1
      BY <2>1, <2>3
    <3> QED
      BY <2>1, <3>1
  <2> QED
    BY <2>1, <2>2, <2>3
<1>3. CASE \E s \in Seq(Signal) : signals' = signals \o s /\ NoneMine(s)
  <2>1. PICK s \in Seq(Signal) : signals' = signals \o s /\ NoneMine(s)
    BY <1>3
  <2>2. /\ \A k \in 1..Len(signals) : k \in 1..Len(signals') /\ signals'[k] = signals[k]
        /\ \A k \in 1..Len(signals') :
              \/ k \in 1..Len(signals)
              \/ k - Len(signals) \in 1..Len(s) /\ signals'[k] = s[k - Len(signals)]
    BY <1>0, <2>1, Joining
  <2>3. \A k \in 1..Len(signals') : Mine(signals'[k]) => k \in 1..Len(signals) /\ Mine(signals[k])
    BY <2>1, <2>2 DEF NoneMine
  <2> QED
    BY <2>2, <2>3
<1> QED
  BY <1>1, <1>2, <1>3

(* The service works on the job that its command is about.                 *)
LEMMA JobWorkOrder ==
    ASSUME IInv, JobWork
    PROVE  /\ job.at \in {"posted", "ended"} /\ own
           /\ \A k \in 1..Len(signals) : ~Mine(signals[k])
           /\ 1 \in 1..Len(commands) /\ Head(commands) = commands[1]
           /\ commands[1] = "translate" => job.at = "posted"
           /\ commands[1] = "ended" => job.at = "ended"
           /\ commands[1] \in {"translate", "ended"}
<1>0. Types /\ OrderInv /\ JobInv /\ commands \in Seq(Command)
  BY DEF IInv, Types, QueueType
<1>1. commands # <<>> /\ Head(commands) \in {"translate", "ended"}
  BY <1>0, JobWorkFacts
<1>2. 1 \in 1..Len(commands) /\ Head(commands) = commands[1]
  BY <1>0, <1>1, Taking
<1>3. /\ commands[1] = "translate" => job.at = "posted"
      /\ commands[1] = "ended" => job.at = "ended"
  BY <1>0, <1>2 DEF OrderInv
<1> QED
  BY <1>0, <1>1, <1>2, <1>3 DEF JobInv

(* The page translates as long as its job, or its end, is on the way.      *)
LEMMA JobInvNext == IInv /\ [Next]_vars => JobInv'
<1> SUFFICES ASSUME IInv, [Next]_vars PROVE JobInv'
  OBVIOUS
<1>0. /\ Types /\ JobInv /\ BusyInv /\ signals \in Seq(Signal)
      /\ page \in [translating : BOOLEAN, busy : BOOLEAN, failed : BOOLEAN, retry : BOOLEAN]
      /\ job \in [at : {"none", "posted", "live", "ended"}, back : BOOLEAN, cancel : BOOLEAN,
                  end : {"none", "Completed", "Failed", "Cancelled"}]
  BY DEF IInv, Types, QueueType, WorkType
<1> USE DEF window, flow, service, download, history, translation, batchState
<1>1. CASE Apart
  <2>1. /\ (\E i \in 1..Len(signals') : Mine(signals'[i])) <=> (\E i \in 1..Len(signals) : Mine(signals[i]))
        /\ \A i, j \in 1..Len(signals') : Mine(signals'[i]) /\ Mine(signals'[j]) => i = j
    BY <1>0, <1>1, MineKept DEF Apart, JobInv
  <2>2. /\ UNCHANGED <<own, job>>
        /\ page'.translating = page.translating /\ page'.retry = page.retry /\ page'.failed = page.failed
    BY <1>1 DEF Apart
  <2> QED
    BY <1>0, <2>1, <2>2 DEF JobInv
<1>2. CASE Requested
  <2>1. /\ ~own /\ UNCHANGED signals /\ own' = TRUE
        /\ page'.translating = TRUE /\ job'.at = "posted"
    BY <1>0, <1>2 DEF Requested, OnTranslateRequested, ShellKept, JobInv, NoJob
  <2> QED
    BY <1>0, <2>1 DEF JobInv
<1>3. CASE OnCancelRequested
  <2>1. UNCHANGED <<signals, own, page>> /\ job'.at = job.at
    BY <1>0, <1>3 DEF OnCancelRequested, ShellKept
  <2> QED
    BY <1>0, <2>1 DEF JobInv
<1>4. CASE OnClear
  <2>1. /\ UNCHANGED <<signals, own, job>>
        /\ page'.translating = page.translating /\ page'.retry = FALSE /\ page'.failed = FALSE
    BY <1>0, <1>4 DEF OnClear, ShellKept
  <2> QED
    BY <1>0, <2>1 DEF JobInv
<1>5. CASE OnTranslationFinished /\ Mine(Head(signals))
  <2>1. /\ 1 \in 1..Len(signals) /\ Head(signals) = signals[1] /\ signals' = Tail(signals)
        /\ \A k \in 1..Len(signals') : signals'[k] = signals[k + 1] /\ k + 1 \in 1..Len(signals)
        /\ Len(signals') \in Nat
    BY <1>0, <1>5, Taking DEF OnTranslationFinished, Hears
  <2>2. Mine(signals[1]) /\ job.at = "none"
    BY <1>0, <1>5, <2>1 DEF JobInv
  <2>3. page.busy = FALSE
    <3>1. BusyAfter(1, FALSE)
      BY <1>0, <2>1, <2>2 DEF BusyInv
    <3>2. signals[1].kind # "status"
      BY <2>2 DEF Mine
    <3>3. \A k \in 1..1 : signals[k].kind # "status"
      BY <3>2
    <3> QED
      BY <3>1, <3>3 DEF BusyAfter
  <2>4. \A k \in 1..Len(signals') : ~Mine(signals'[k])
    <3> SUFFICES ASSUME NEW k \in 1..Len(signals'), Mine(signals'[k]) PROVE FALSE
      OBVIOUS
    <3>1. k + 1 \in 1..Len(signals) /\ Mine(signals[k + 1]) /\ k + 1 # 1
      BY <2>1
    <3> QED
      BY <1>0, <2>1, <2>2, <3>1 DEF JobInv
  <2>5. Head(signals).failed \in BOOLEAN
    BY <1>0, <2>1, <2>2, SignalFields DEF Mine
  <2>6. /\ own' = FALSE /\ UNCHANGED job
        /\ ResultShown(Head(signals).failed)
    BY <1>5 DEF OnTranslationFinished, Mine
  <2>7. page'.translating = FALSE /\ page'.failed = Head(signals).failed
        /\ page'.retry = (Head(signals).failed /\ ~page.busy)
    BY <1>0, <2>6 DEF ResultShown
  <2> QED
    BY <1>0, <2>2, <2>3, <2>4, <2>5, <2>6, <2>7 DEF JobInv
<1>6. CASE JobWork
  <2>1. own /\ (\A k \in 1..Len(signals) : ~Mine(signals[k])) /\ UNCHANGED <<own, page>>
    BY <1>0, <1>6, JobWorkOrder, JobWorkFacts
  <2>2. CASE job'.at = "live" /\ \E s : signals' = signals \o s /\ Calm(s)
    <3>1. PICK s \in Seq(Signal) : signals' = signals \o s /\ NoneMine(s)
      BY <2>2 DEF Calm, CalmSignal, NoneMine
    <3>2. \A k \in 1..Len(signals') : ~Mine(signals'[k])
      BY <1>0, <2>1, <3>1, MineKept
    <3> QED
      BY <1>0, <2>1, <2>2, <3>2 DEF JobInv
  <2>3. CASE job'.at = "none" /\ \E t : signals' = signals \o t /\ EndsJob(t)
    <3>1. PICK t \in Seq(Signal) : signals' = signals \o t /\ EndsJob(t)
      BY <2>3 DEF EndsJob
    <3>2. PICK m \in 1..Len(t) : Mine(t[m]) /\ \A k \in 1..Len(t) : Mine(t[k]) => k = m
      BY <3>1 DEF EndsJob
    <3>3. /\ Len(signals) \in Nat
          /\ \A k \in 1..Len(signals) : k \in 1..Len(signals') /\ signals'[k] = signals[k]
          /\ \A k \in 1..Len(t) : Len(signals) + k \in 1..Len(signals')
                                  /\ signals'[Len(signals) + k] = t[k]
          /\ \A k \in 1..Len(signals') :
                \/ k \in 1..Len(signals)
                \/ k - Len(signals) \in 1..Len(t) /\ signals'[k] = t[k - Len(signals)]
      BY <1>0, <3>1, Joining
    <3>4. Len(signals) + m \in 1..Len(signals') /\ Mine(signals'[Len(signals) + m])
      BY <3>2, <3>3
    <3>5. ASSUME NEW k \in 1..Len(signals'), Mine(signals'[k])
          PROVE  k = Len(signals) + m
      <4>1. k - Len(signals) \in 1..Len(t) /\ Mine(t[k - Len(signals)])
        BY <2>1, <3>3, <3>5
      <4>2. k - Len(signals) = m
        BY <3>2, <4>1
      <4> QED
        BY <3>2, <3>3, <4>2
    <3>6. \A i, j \in 1..Len(signals') : Mine(signals'[i]) /\ Mine(signals'[j]) => i = j
      BY <3>5
    <3> QED
      BY <1>0, <2>1, <2>3, <3>4, <3>6 DEF JobInv
  <2>4. \/ /\ job' \in [at : {"live"}, back : BOOLEAN, cancel : BOOLEAN,
                        end : {"none", "Completed", "Failed", "Cancelled"}]
           /\ \E s : signals' = signals \o s /\ Calm(s) /\ Silent(s)
        \/ job' = NoJob /\ \E t : signals' = signals \o t /\ EndsJob(t)
    BY <1>0, <1>6, JobWorkFacts
  <2>5. NoJob.at = "none"
    BY DEF NoJob
  <2> QED
    BY <2>2, <2>3, <2>4, <2>5
<1>7. CASE \E end \in {"Completed", "Failed", "Cancelled"} : JobEnds(end)
  <2>1. UNCHANGED <<signals, own, page>> /\ job.at = "live" /\ job'.at = "ended"
    BY <1>0, <1>7 DEF JobEnds
  <2> QED
    BY <1>0, <2>1 DEF JobInv
<1> QED
  BY <1>0, <1>1, <1>2, <1>3, <1>4, <1>5, <1>6, <1>7, ApartSteps

(* A queue of commands without its first, and with one more.               *)
LEMMA CommandQueue ==
    ASSUME Types
    PROVE  /\ commands # <<>> /\ commands' = Tail(commands) =>
                 /\ 1 \in 1..Len(commands) /\ Head(commands) = commands[1] /\ Len(commands) \in Nat
                 /\ \A k \in 1..Len(commands') : commands'[k] = commands[k + 1]
                                                 /\ k + 1 \in 1..Len(commands) /\ k \in Nat
                 /\ \A k \in 1..Len(commands) :
                       k # 1 => k - 1 \in 1..Len(commands') /\ commands'[k - 1] = commands[k]
           /\ \A c \in Command : commands' = Append(commands, c) =>
                 /\ Len(commands) \in Nat /\ Len(commands) + 1 \in 1..Len(commands')
                 /\ commands'[Len(commands) + 1] = c
                 /\ \A k \in 1..Len(commands) : k \in 1..Len(commands') /\ commands'[k] = commands[k]
                 /\ \A k \in 1..Len(commands') : k \in 1..Len(commands) \/ k = Len(commands) + 1
<1>0. commands \in Seq(Command)
  BY DEF Types, QueueType
<1>1. commands # <<>> /\ commands' = Tail(commands) =>
         /\ 1 \in 1..Len(commands) /\ Head(commands) = commands[1] /\ Len(commands) \in Nat
         /\ \A k \in 1..Len(commands') : commands'[k] = commands[k + 1]
                                         /\ k + 1 \in 1..Len(commands) /\ k \in Nat
         /\ \A k \in 1..Len(commands) :
               k # 1 => k - 1 \in 1..Len(commands') /\ commands'[k - 1] = commands[k]
  BY <1>0, Taking
<1>2. \A c \in Command : commands' = Append(commands, c) =>
         /\ Len(commands) \in Nat /\ Len(commands) + 1 \in 1..Len(commands')
         /\ commands'[Len(commands) + 1] = c
         /\ \A k \in 1..Len(commands) : k \in 1..Len(commands') /\ commands'[k] = commands[k]
         /\ \A k \in 1..Len(commands') : k \in 1..Len(commands) \/ k = Len(commands) + 1
  BY <1>0, Appending
<1> QED
  BY <1>1, <1>2

(* The commands keep their order when the first one is taken.              *)
LEMMA OrderTail ==
    ASSUME Types, OrderInv, commands # <<>>, commands' = Tail(commands), job'.at = job.at,
           spc' = "unload" => spc = "unload" \/ Head(commands) = "unload"
    PROVE  OrderInv'
<1>1. /\ 1 \in 1..Len(commands) /\ Head(commands) = commands[1] /\ Len(commands) \in Nat
      /\ \A k \in 1..Len(commands') : commands'[k] = commands[k + 1]
                                      /\ k + 1 \in 1..Len(commands) /\ k \in Nat
  BY CommandQueue
<1>2. ASSUME NEW k \in 1..Len(commands')
      PROVE  /\ commands'[k] = "translate" => job'.at = "posted"
             /\ commands'[k] = "ended" => job'.at = "ended"
             /\ commands'[k] = "unload" => job'.at \in {"none", "posted"}
  BY <1>1 DEF OrderInv
<1>3. ASSUME NEW j \in 1..Len(commands'), NEW k \in 1..Len(commands')
      PROVE  /\ commands'[j] = "translate" /\ commands'[k] = "translate" => j = k
             /\ commands'[j] = "ended" /\ commands'[k] = "ended" => j = k
             /\ commands'[j] = "translate" /\ commands'[k] = "unload" => k < j
  <2>1. /\ j + 1 \in 1..Len(commands) /\ k + 1 \in 1..Len(commands) /\ j \in Nat /\ k \in Nat
        /\ commands'[j] = commands[j + 1] /\ commands'[k] = commands[k + 1]
    BY <1>1
  <2>2. /\ commands[j + 1] = "translate" /\ commands[k + 1] = "translate" => j + 1 = k + 1
        /\ commands[j + 1] = "ended" /\ commands[k + 1] = "ended" => j + 1 = k + 1
        /\ commands[j + 1] = "translate" /\ commands[k + 1] = "unload" => k + 1 < j + 1
    BY <2>1 DEF OrderInv
  <2> QED
    BY <2>1, <2>2
<1>4. spc' = "unload" => job'.at \in {"none", "posted"}
  BY <1>1 DEF OrderInv
<1> QED
  BY <1>2, <1>3, <1>4 DEF OrderInv

(* The commands keep their order when one is posted that may come last.    *)
LEMMA OrderAppend ==
    ASSUME Types, OrderInv, NEW c \in Command, commands' = Append(commands, c),
           \A k \in 1..Len(commands) :
              /\ commands[k] = "translate" => job'.at = "posted" /\ c \notin {"translate", "unload"}
              /\ commands[k] = "ended" => job'.at = "ended" /\ c # "ended"
              /\ commands[k] = "unload" => job'.at \in {"none", "posted"},
           c = "translate" => job'.at = "posted",
           c = "ended" => job'.at = "ended",
           c = "unload" => job'.at \in {"none", "posted"},
           spc' = "unload" => job'.at \in {"none", "posted"}
    PROVE  OrderInv'
<1>1. /\ Len(commands) \in Nat
      /\ commands'[Len(commands) + 1] = c
      /\ \A k \in 1..Len(commands) : commands'[k] = commands[k]
      /\ \A k \in 1..Len(commands') : k \in 1..Len(commands) \/ k = Len(commands) + 1
  BY CommandQueue
<1>2. ASSUME NEW k \in 1..Len(commands')
      PROVE  /\ commands'[k] = "translate" => job'.at = "posted"
             /\ commands'[k] = "ended" => job'.at = "ended"
             /\ commands'[k] = "unload" => job'.at \in {"none", "posted"}
  BY <1>1
<1>3. ASSUME NEW j \in 1..Len(commands'), NEW k \in 1..Len(commands')
      PROVE  /\ commands'[j] = "translate" /\ commands'[k] = "translate" => j = k
             /\ commands'[j] = "ended" /\ commands'[k] = "ended" => j = k
             /\ commands'[j] = "translate" /\ commands'[k] = "unload" => k < j
  <2>1. CASE j \in 1..Len(commands) /\ k \in 1..Len(commands)
    BY <1>1, <2>1 DEF OrderInv
  <2>2. CASE j = Len(commands) + 1 /\ k = Len(commands) + 1
    BY <1>1, <2>2
  <2>3. CASE j \in 1..Len(commands) /\ k = Len(commands) + 1
    BY <1>1, <2>3
  <2>4. CASE j = Len(commands) + 1 /\ k \in 1..Len(commands)
    BY <1>1, <2>4
  <2> QED
    BY <1>1, <2>1, <2>2, <2>3, <2>4
<1> QED
  BY <1>2, <1>3 DEF OrderInv

(* The commands of the job keep their order, and no unload that was        *)
(* ordered finds the job live.                                             *)
LEMMA OrderInvNext == IInv /\ [Next]_vars => OrderInv'
<1> SUFFICES ASSUME IInv, [Next]_vars PROVE OrderInv'
  OBVIOUS
<1>0. /\ Types /\ JobInv /\ OrderInv /\ commands \in Seq(Command)
      /\ job \in [at : {"none", "posted", "live", "ended"}, back : BOOLEAN, cancel : BOOLEAN,
                  end : {"none", "Completed", "Failed", "Cancelled"}]
  BY DEF IInv, Types, QueueType, WorkType
<1> USE DEF window, flow, service, download, history, translation, batchState
<1>1. CASE Apart
  <2>0. job' = job
        /\ (spc' = "unload" => spc = "unload" \/ (commands # <<>> /\ Head(commands) = "unload"))
    BY <1>1 DEF Apart
  <2>1. spc' = "unload" => job.at \in {"none", "posted"}
    <3>1. CASE commands # <<>> /\ Head(commands) = "unload"
      BY <1>0, <3>1, Taking DEF OrderInv
    <3> QED
      BY <1>0, <2>0, <3>1 DEF OrderInv
  <2>2. CASE UNCHANGED commands
    BY <1>0, <2>0, <2>1, <2>2 DEF OrderInv
  <2>3. CASE commands # <<>> /\ commands' = Tail(commands)
    BY <1>0, <2>0, <2>3, OrderTail
  <2>4. CASE \E c \in Command \ {"translate", "ended", "unload"} : commands' = Append(commands, c)
    <3>1. PICK c \in Command \ {"translate", "ended", "unload"} : commands' = Append(commands, c)
      BY <2>4
    <3>2. \A k \in 1..Len(commands) :
              /\ commands[k] = "translate" => job'.at = "posted" /\ c \notin {"translate", "unload"}
              /\ commands[k] = "ended" => job'.at = "ended" /\ c # "ended"
              /\ commands[k] = "unload" => job'.at \in {"none", "posted"}
      BY <1>0, <2>0, <3>1 DEF OrderInv
    <3> QED
      BY <1>0, <2>0, <2>1, <3>1, <3>2, OrderAppend
  <2>5. CASE commands' = Append(commands, "unload") /\ ~own
    <3>1. job.at = "none" /\ "unload" \in Command
      BY <1>0, <2>5 DEF JobInv, Command
    <3>2. \A k \in 1..Len(commands) : commands[k] # "translate" /\ commands[k] # "ended"
      BY <1>0, <3>1 DEF OrderInv
    <3> QED
      BY <1>0, <2>0, <2>5, <3>1, <3>2, OrderAppend
  <2> QED
    BY <1>1, <2>2, <2>3, <2>4, <2>5 DEF Apart
<1>2. CASE Requested
  <2>1. /\ ~own /\ commands' = Append(commands, "translate") /\ job'.at = "posted" /\ "translate" \in Command
    BY <1>0, <1>2 DEF Requested, OnTranslateRequested, Post, NoJob, JobInv, Command
  <2>2. job.at = "none"
    BY <1>0, <2>1 DEF JobInv
  <2>3. \A k \in 1..Len(commands) : commands[k] # "translate" /\ commands[k] # "ended"
    BY <1>0, <2>2 DEF OrderInv
  <2> QED
    BY <1>0, <2>1, <2>3, OrderAppend
<1>3. CASE OnCancelRequested \/ OnClear
  <2>1. UNCHANGED <<commands, spc>> /\ job'.at = job.at
    BY <1>0, <1>3 DEF OnCancelRequested, OnClear, ShellKept
  <2> QED
    BY <1>0, <2>1 DEF OrderInv
<1>4. CASE OnTranslationFinished
  <2>1. UNCHANGED <<commands, spc, job>>
    BY <1>4 DEF OnTranslationFinished
  <2> QED
    BY <1>0, <2>1 DEF OrderInv
<1>5. CASE JobWork
  <2>1. /\ commands # <<>> /\ commands' = Tail(commands) /\ spc = "idle" /\ UNCHANGED spc
    BY <1>0, <1>5, JobWorkFacts
  <2>2. /\ 1 \in 1..Len(commands) /\ commands[1] \in {"translate", "ended"}
        /\ commands[1] = "translate" => job.at = "posted"
        /\ commands[1] = "ended" => job.at = "ended"
    BY <1>5, JobWorkOrder
  <2>3. \A k \in 1..Len(commands') : commands'[k] = commands[k + 1]
                                      /\ k + 1 \in 1..Len(commands) /\ k \in Nat /\ k # 0
    BY <1>0, <2>1, CommandQueue
  <2>4. ASSUME NEW k \in 1..Len(commands')
        PROVE  commands'[k] \notin {"translate", "ended", "unload"}
    <3>1. k + 1 \in 1..Len(commands) /\ k + 1 # 1 /\ ~(k + 1 < 1) /\ commands'[k] = commands[k + 1]
      BY <2>3
    <3>2. CASE commands[1] = "translate"
      BY <1>0, <2>2, <3>1, <3>2 DEF OrderInv
    <3>3. CASE commands[1] = "ended"
      BY <1>0, <2>2, <3>1, <3>3 DEF OrderInv
    <3> QED
      BY <2>2, <3>2, <3>3
  <2> QED
    BY <2>1, <2>4 DEF OrderInv
<1>6. CASE \E end \in {"Completed", "Failed", "Cancelled"} : JobEnds(end)
  <2>1. /\ commands' = Append(commands, "ended") /\ job.at = "live" /\ job'.at = "ended" /\ UNCHANGED spc
        /\ "ended" \in Command
    BY <1>0, <1>6 DEF JobEnds, Post, Command
  <2>2. \A k \in 1..Len(commands) : commands[k] \notin {"translate", "ended", "unload"}
    BY <1>0, <2>1 DEF OrderInv
  <2>3. spc # "unload"
    BY <1>0, <2>1 DEF OrderInv
  <2> QED
    BY <1>0, <2>1, <2>2, <2>3, OrderAppend
<1> QED
  BY <1>0, <1>1, <1>2, <1>3, <1>4, <1>5, <1>6, ApartSteps

\* What the page will have been told: a heard status is shown, and a status is
\* only emitted when a command begins or returns.
BusyMove ==
    \/ UNCHANGED <<signals, spc>> /\ page'.busy = page.busy
    \/ /\ Hearing /\ UNCHANGED spc
       /\ page'.busy = IF Head(signals).kind = "status" THEN Head(signals).flag ELSE page.busy
    \/ /\ page'.busy = page.busy
       /\ \E s \in Seq(Signal) :
             /\ signals' = signals \o s
             /\ \/ NoStatus(s) /\ UNCHANGED spc /\ (spc = "idle" \/ NoneMine(s))
                \/ /\ 1 \in 1..Len(s) /\ s[1] = StatusChanged(spc' # "idle") /\ NoneMine(s)
                   /\ \A k \in 1..Len(s) : k # 1 => s[k].kind # "status"

(* Every step is one of these.                                             *)
LEMMA BusyMoves ==
    ASSUME Types, [Next]_vars
    PROVE  BusyMove
<1>0. page \in [translating : BOOLEAN, busy : BOOLEAN, failed : BOOLEAN, retry : BOOLEAN]
  BY DEF Types, WorkType
<1> USE DEF window, flow, service, download, history, translation, batchState
<1>1. CASE Pressed
  BY <1>1, ButtonFacts DEF Pressed, ButtonLeaves, Kept, BusyMove
<1>2. CASE Requested \/ OnCancelRequested \/ OnClear \/ OnStartPause \/ OnBatchAddFiles
  <2>1. UNCHANGED <<signals, spc>>
    BY <1>2 DEF Requested, OnTranslateRequested, OnCancelRequested, OnClear, OnStartPause,
       OnBatchAddFiles, ShellKept
  <2>2. page'.busy = page.busy
    <3>1. CASE Requested
      BY <1>0, <3>1 DEF Requested, OnTranslateRequested
    <3>2. CASE OnClear
      BY <1>0, <3>2 DEF OnClear
    <3>3. CASE OnCancelRequested \/ OnStartPause \/ OnBatchAddFiles
      BY <3>3 DEF OnCancelRequested, OnStartPause, OnBatchAddFiles
    <3> QED
      BY <1>2, <3>1, <3>2, <3>3
  <2> QED
    BY <2>1, <2>2 DEF BusyMove
<1>3. CASE Heard
  BY <1>3, HeardFacts DEF Kept, BusyMove
<1>4. CASE StatusHeard
  <2>1. page'.busy = Head(signals).flag
    BY <1>0, <1>4 DEF StatusHeard
  <2> QED
    BY <1>4, <2>1 DEF StatusHeard, OnStatusChanged, Hears, Hearing, BusyMove
<1>5. CASE OnTranslationFinished
  <2>1. page'.busy = page.busy
    BY <1>0, <1>5 DEF OnTranslationFinished, ResultShown
  <2> QED
    BY <1>5, <2>1 DEF OnTranslationFinished, Hears, Hearing, BusyMove
<1>6. CASE OnBatchStateChanged \/ OnBatchFinished \/ OnBatchError
  BY <1>6 DEF OnBatchStateChanged, OnBatchFinished, OnBatchError, Hears, Hearing, BusyMove
<1>7. CASE ModelCommands
  <2>1. PICK s \in Seq(Signal) :
                 /\ Emit(s) /\ 1 \in 1..Len(s) /\ s[1] = StatusChanged(spc' # "idle")
                 /\ \/ Len(s) = 2 /\ s[2].kind = "snapshot"
                    \/ /\ Len(s) = 3 /\ s[3] = Settled(host')
                       /\ s[2].kind = IF spc = "load" THEN "loaded" ELSE "unloaded"
    BY <1>7, ModelCommandFacts
  <2>2. ASSUME NEW k \in 1..Len(s), k # 1 PROVE s[k].kind \notin {"status", "translated"}
    <3>1. CASE Len(s) = 2
      <4>1. k = 2
        BY <2>2, <3>1
      <4> QED
        BY <2>1, <3>1, <4>1
    <3>2. CASE Len(s) = 3
      <4>1. k = 2 \/ k = 3
        BY <2>2, <3>2
      <4> QED
        BY <2>1, <3>2, <4>1 DEF Settled, SnapshotChanged
    <3> QED
      BY <2>1, <3>1, <3>2
  <2>3. s[1].kind = "status"
    BY <2>1 DEF StatusChanged
  <2>4. NoneMine(s)
    BY <2>2, <2>3 DEF NoneMine, Mine
  <2>5. page' = page
    BY <1>7, ModelCommandFacts DEF Kept
  <2> QED
    BY <2>1, <2>2, <2>4, <2>5 DEF BusyMove, Emit
<1>8. CASE JobWork
  <2>1. spc = "idle" /\ UNCHANGED <<spc, page>>
    BY <1>8, JobWorkFacts
  <2>2. PICK s \in Seq(Signal) : signals' = signals \o s /\ NoStatus(s)
    <3>1. CASE \E s : signals' = signals \o s /\ Calm(s)
      BY <3>1 DEF Calm, CalmSignal, NoStatus
    <3>2. CASE \E t : signals' = signals \o t /\ EndsJob(t)
      <4>1. PICK t \in Seq(Signal) : signals' = signals \o t /\ EndsJob(t)
        BY <3>2 DEF EndsJob
      <4>2. NoStatus(t)
        BY <4>1 DEF EndsJob, CalmSignal, Mine, NoStatus
      <4> QED
        BY <4>1, <4>2
    <3> QED
      BY <1>8, <3>1, <3>2, JobWorkFacts
  <2> QED
    BY <2>1, <2>2 DEF BusyMove
<1>9. CASE Controller
  <2>1. PICK s : Emission(s)
    BY <1>9, ControllerFacts
  <2>2. s \in Seq(Signal) /\ NoStatus(s) /\ signals' = signals \o s
    BY <2>1 DEF Emission, Calm, CalmSignal, NoStatus
  <2> QED
    BY <1>9, <2>2, ControllerFacts DEF BusyMove, ControllerLeaves
<1>10. CASE SegmentEnds \/ \E end \in {"Completed", "Failed", "Cancelled"} : JobEnds(end)
  BY <1>10 DEF SegmentEnds, JobEnds, BusyMove
<1>11. CASE Downloading
  <2>1. Kept /\ UNCHANGED service
    BY <1>11, DownloadingFacts
  <2>2. PICK e \in Signal : Emit(<<e>>) /\ e.kind \in {"started", "finished"}
    BY <1>11, DownloadingFacts, SignalTypes DEF DownloadStarted, DownloadFinished
  <2>3. <<e>> \in Seq(Signal) /\ NoneMine(<<e>>) /\ NoStatus(<<e>>)
    BY <2>2 DEF NoneMine, NoStatus, Mine
  <2> QED
    BY <2>1, <2>2, <2>3 DEF BusyMove, Kept, Emit
<1>12. CASE UNCHANGED vars
  BY <1>12 DEF vars, shell, BusyMove
<1> QED
  BY <1>1, <1>2, <1>3, <1>4, <1>5, <1>6, <1>7, <1>8, <1>9, <1>10, <1>11, <1>12, Steps DEF PageSlots

(* What the page will know after the first n signals, when one is heard.   *)
LEMMA BusyHearing ==
    ASSUME Types, Hearing,
           page'.busy = IF Head(signals).kind = "status" THEN Head(signals).flag ELSE page.busy,
           NEW n \in 1..Len(signals), NEW b \in BOOLEAN, BusyAfter(n, b)
    PROVE  BusyAfter(n - 1, b)'
<1>1. /\ 1 \in 1..Len(signals) /\ Head(signals) = signals[1] /\ Len(signals) \in Nat
      /\ \A k \in 1..Len(signals') : signals'[k] = signals[k + 1] /\ k + 1 \in 1..Len(signals)
      /\ Len(signals') = Len(signals) - 1 /\ n \in Nat
  BY Taking DEF Hearing, Types, QueueType
<1>2. \A k \in 1..n - 1 : k \in 1..Len(signals') /\ k + 1 \in 1..n /\ signals'[k] = signals[k + 1]
                          /\ k \in Nat
  BY <1>1
<1>3. \A k \in 1..n : k # 1 => k - 1 \in 1..n - 1 /\ k \in Nat /\ signals'[k - 1] = signals[k]
  <2> SUFFICES ASSUME NEW k \in 1..n, k # 1
               PROVE  k - 1 \in 1..n - 1 /\ k \in Nat /\ signals'[k - 1] = signals[k]
    OBVIOUS
  <2>1. k - 1 \in 1..n - 1 /\ k \in Nat /\ (k - 1) + 1 = k
    BY <1>1
  <2> QED
    BY <1>2, <2>1
<1>4. ASSUME \A k \in 1..n - 1 : signals'[k].kind # "status"
      PROVE  page'.busy = b
  <2>1. \A k \in 1..n : k # 1 => signals[k].kind # "status"
    BY <1>3, <1>4
  <2>2. CASE signals[1].kind = "status"
    <3>1. 1 \in 1..n /\ \A j \in 1..n : j > 1 => signals[j].kind # "status"
      BY <1>1, <2>1
    <3>2. signals[1].flag = b
      BY <2>2, <3>1 DEF BusyAfter
    <3> QED
      BY <1>1, <2>2, <3>2
  <2>3. CASE signals[1].kind # "status"
    <3>1. \A k \in 1..n : signals[k].kind # "status"
      BY <2>1, <2>3
    <3> QED
      BY <1>1, <2>3, <3>1 DEF BusyAfter
  <2> QED
    BY <2>2, <2>3
<1>5. ASSUME NEW k \in 1..n - 1, signals'[k].kind = "status",
             \A j \in 1..n - 1 : j > k => signals'[j].kind # "status"
      PROVE  signals'[k].flag = b
  <2>1. k + 1 \in 1..n /\ signals[k + 1].kind = "status"
    BY <1>2, <1>5
  <2>2. ASSUME NEW j \in 1..n, j > k + 1 PROVE signals[j].kind # "status"
    <3>1. j # 1 /\ j - 1 > k
      BY <1>2, <2>2
    <3> QED
      BY <1>3, <1>5, <3>1
  <2>3. signals[k + 1].flag = b
    BY <2>1, <2>2 DEF BusyAfter
  <2> QED
    BY <1>2, <2>3
<1> QED
  BY <1>4, <1>5 DEF BusyAfter

(* The same, when signals are emitted.                                     *)
LEMMA BusyJoin ==
    ASSUME Types, page'.busy = page.busy, NEW s \in Seq(Signal), signals' = signals \o s
    PROVE  /\ \A n \in 1..Len(signals), b \in BOOLEAN : BusyAfter(n, b) => BusyAfter(n, b)'
           /\ NoStatus(s) => \A b \in BOOLEAN, n \in Nat :
                 n >= Len(signals) /\ n <= Len(signals') /\ BusyAfter(Len(signals), b)
                    => BusyAfter(n, b)'
<1>1. /\ Len(signals) \in Nat /\ Len(signals') \in Nat
      /\ \A k \in 1..Len(signals) : k \in 1..Len(signals') /\ signals'[k] = signals[k]
      /\ \A k \in 1..Len(signals') :
            \/ k \in 1..Len(signals)
            \/ k - Len(signals) \in 1..Len(s) /\ signals'[k] = s[k - Len(signals)]
  BY Joining DEF Types, QueueType
<1>2. ASSUME NEW n \in 1..Len(signals), NEW b \in BOOLEAN, BusyAfter(n, b)
      PROVE  BusyAfter(n, b)'
  <2>1. \A k \in 1..n : signals'[k] = signals[k]
    BY <1>1
  <2> QED
    BY <1>2, <2>1 DEF BusyAfter
<1>3. ASSUME NoStatus(s), NEW b \in BOOLEAN, NEW n \in Nat,
             n >= Len(signals), n <= Len(signals'), BusyAfter(Len(signals), b)
      PROVE  BusyAfter(n, b)'
  <2>1. \A k \in 1..Len(signals) : k \in 1..n /\ signals'[k] = signals[k]
    BY <1>1, <1>3
  <2>2. \A k \in 1..n : signals'[k].kind = "status" => k \in 1..Len(signals)
    <3> SUFFICES ASSUME NEW k \in 1..n, k \notin 1..Len(signals) PROVE signals'[k].kind # "status"
      OBVIOUS
    <3>1. k \in 1..Len(signals')
      BY <1>1, <1>3
    <3> QED
      BY <1>1, <1>3, <3>1 DEF NoStatus
  <2> QED
    BY <1>3, <2>1, <2>2 DEF BusyAfter
<1> QED
  BY <1>2, <1>3

(* The page will know whether the service is busy.                         *)
LEMMA BusyInvNext == IInv /\ [Next]_vars => BusyInv'
<1> SUFFICES ASSUME IInv, [Next]_vars PROVE BusyInv'
  OBVIOUS
<1>0. Types /\ BusyInv /\ BusyMove /\ signals \in Seq(Signal)
  BY BusyMoves DEF IInv, Types, QueueType
<1>1. CASE UNCHANGED <<signals, spc>> /\ page'.busy = page.busy
  BY <1>0, <1>1 DEF BusyInv, BusyAfter
<1>2. CASE /\ Hearing /\ UNCHANGED spc
           /\ page'.busy = IF Head(signals).kind = "status" THEN Head(signals).flag ELSE page.busy
  <2>1. /\ Len(signals) \in 1..Len(signals) /\ Len(signals') = Len(signals) - 1
        /\ \A k \in 1..Len(signals') : signals'[k] = signals[k + 1] /\ k + 1 \in 1..Len(signals)
                                       /\ (k + 1) - 1 = k
    BY <1>0, <1>2, Taking DEF Hearing
  <2>2. \A n \in 1..Len(signals), b \in BOOLEAN : BusyAfter(n, b) => BusyAfter(n - 1, b)'
    BY <1>0, <1>2, BusyHearing
  <2>3. BusyAfter(Len(signals), spc # "idle") /\ (spc # "idle") \in BOOLEAN
    BY <1>0 DEF BusyInv
  <2>4. PICK n \in 1..Len(signals), b \in BOOLEAN : n = Len(signals) /\ b = (spc # "idle")
    BY <2>1
  <2>8. BusyAfter(n, b)
    BY <2>3, <2>4
  <2>5. BusyAfter(n - 1, b)' /\ n - 1 = Len(signals') /\ b = (spc' # "idle")
    BY <1>2, <2>1, <2>2, <2>4, <2>8
  <2>6. BusyAfter(Len(signals), spc # "idle")'
    BY <2>5
  <2>7. ASSUME NEW i \in 1..Len(signals'), Mine(signals'[i]) PROVE BusyAfter(i, FALSE)'
    <3>1. i + 1 \in 1..Len(signals) /\ Mine(signals[i + 1]) /\ (i + 1) - 1 = i
      BY <2>1, <2>7
    <3>2. BusyAfter(i + 1, FALSE)
      BY <1>0, <3>1 DEF BusyInv
    <3>3. BusyAfter((i + 1) - 1, FALSE)'
      BY <2>2, <3>1, <3>2
    <3> QED
      BY <3>1, <3>3
  <2> QED
    BY <2>6, <2>7 DEF BusyInv
<1>3. ASSUME page'.busy = page.busy, NEW s \in Seq(Signal), signals' = signals \o s,
             \/ NoStatus(s) /\ UNCHANGED spc /\ (spc = "idle" \/ NoneMine(s))
             \/ /\ 1 \in 1..Len(s) /\ s[1] = StatusChanged(spc' # "idle") /\ NoneMine(s)
                /\ \A k \in 1..Len(s) : k # 1 => s[k].kind # "status"
      PROVE  BusyInv'
  <2>1. /\ Len(signals) \in Nat /\ Len(signals') \in Nat /\ Len(signals') >= Len(signals)
        /\ \A k \in 1..Len(signals) : k \in 1..Len(signals') /\ signals'[k] = signals[k]
        /\ \A k \in 1..Len(s) : Len(signals) + k \in 1..Len(signals')
                                /\ signals'[Len(signals) + k] = s[k]
        /\ \A k \in 1..Len(signals') :
              \/ k \in 1..Len(signals)
              \/ /\ k - Len(signals) \in 1..Len(s) /\ signals'[k] = s[k - Len(signals)]
                 /\ k > Len(signals)
    BY <1>0, <1>3, Joining
  <2>2. \A n \in 1..Len(signals), b \in BOOLEAN : BusyAfter(n, b) => BusyAfter(n, b)'
    BY <1>0, <1>3, BusyJoin
  <2>3. \A i \in 1..Len(signals) : Mine(signals'[i]) => BusyAfter(i, FALSE)'
    BY <1>0, <2>1, <2>2 DEF BusyInv
  <2>4. CASE NoStatus(s) /\ UNCHANGED spc /\ (spc = "idle" \/ NoneMine(s))
    <3>1. \A b \in BOOLEAN, n \in Nat :
             n >= Len(signals) /\ n <= Len(signals') /\ BusyAfter(Len(signals), b) => BusyAfter(n, b)'
      BY <1>0, <1>3, <2>4, BusyJoin
    <3>2. BusyAfter(Len(signals), spc # "idle")
      BY <1>0 DEF BusyInv
    <3>3. PICK n \in Nat, b \in BOOLEAN : n = Len(signals') /\ b = (spc # "idle")
      BY <2>1
    <3>7. BusyAfter(Len(signals), b)
      BY <3>2, <3>3
    <3>8. n >= Len(signals) /\ n <= Len(signals') /\ b = (spc' # "idle")
      BY <2>1, <2>4, <3>3
    <3>4. BusyAfter(n, b)' /\ b = (spc' # "idle")
      BY <3>1, <3>7, <3>8
    <3>5. BusyAfter(Len(signals), spc # "idle")'
      BY <3>3, <3>4
    <3>6. ASSUME NEW i \in 1..Len(signals'), i \notin 1..Len(signals), Mine(signals'[i])
          PROVE  BusyAfter(i, FALSE)'
      <4>1. spc = "idle"
        BY <2>1, <2>4, <3>6 DEF NoneMine
      <4>2. i \in Nat /\ i >= Len(signals) /\ i <= Len(signals')
        BY <2>1, <3>6
      <4>3. BusyAfter(Len(signals), FALSE)
        BY <3>2, <4>1
      <4> QED
        BY <3>1, <4>2, <4>3
    <3> QED
      BY <2>3, <3>5, <3>6 DEF BusyInv
  <2>5. CASE /\ 1 \in 1..Len(s) /\ s[1] = StatusChanged(spc' # "idle") /\ NoneMine(s)
             /\ \A k \in 1..Len(s) : k # 1 => s[k].kind # "status"
    <3>1. PICK m : m = Len(signals) + 1
      OBVIOUS
    <3>2. /\ m \in 1..Len(signals') /\ signals'[m].kind = "status"
          /\ signals'[m].flag = (spc' # "idle")
      BY <2>1, <2>5, <3>1 DEF StatusChanged
    <3>3. ASSUME NEW k \in 1..Len(signals'), k > m PROVE signals'[k].kind # "status"
      <4>1. k \notin 1..Len(signals) /\ k - Len(signals) # 1
        BY <2>1, <3>1, <3>3
      <4>2. k - Len(signals) \in 1..Len(s) /\ signals'[k] = s[k - Len(signals)]
        BY <2>1, <4>1
      <4> QED
        BY <2>5, <4>1, <4>2
    <3>4. BusyAfter(Len(signals), spc # "idle")'
      <4>1. ASSUME NEW k \in 1..Len(signals'), signals'[k].kind = "status",
                   \A j \in 1..Len(signals') : j > k => signals'[j].kind # "status"
            PROVE  k = m
        <5>1. ~(m > k) /\ ~(k > m)
          BY <3>2, <3>3, <4>1
        <5> QED
          BY <2>1, <3>2, <5>1
      <4> QED
        BY <3>2, <4>1 DEF BusyAfter
    <3>5. \A i \in 1..Len(signals') : Mine(signals'[i]) => i \in 1..Len(signals)
      BY <2>1, <2>5 DEF NoneMine
    <3> QED
      BY <2>3, <3>4, <3>5 DEF BusyInv
  <2> QED
    BY <1>3, <2>4, <2>5
<1> QED
  BY <1>0, <1>1, <1>2, <1>3 DEF BusyMove

-----------------------------------------------------------------------------
(* What the window knows of the host.                                      *)

picture == <<modelLoaded, loadedId, busy>>

\* Between two commands the host is as it was, and so is every snapshot of it; a
\* command that returns says how it has left the host.
HostMove ==
    \/ spc' # "idle"
    \/ UNCHANGED <<signals, picture, spc, host>>
    \/ /\ Hearing /\ UNCHANGED <<spc, host>>
       /\ News(Head(signals)) \/ UNCHANGED picture
       /\ Head(signals) = Settled(host) => Shown'
    \/ /\ UNCHANGED picture
       /\ \E s \in Seq(Signal) :
             /\ signals' = signals \o s
             /\ \/ UNCHANGED <<spc, host>> /\ \A k \in 1..Len(s) : News(s[k]) => s[k] = Settled(host)
                \/ Len(s) = 3 /\ s[3] = Settled(host')

(* Every step is one of these.                                             *)
LEMMA HostMoves ==
    ASSUME Types, [Next]_vars
    PROVE  HostMove
<1> USE DEF window, flow, service, download, history, picture
<1>0. Settled(host).kind = "snapshot"
  BY DEF Settled, SnapshotChanged
<1>1. CASE Pressed
  BY <1>1, ButtonFacts DEF Pressed, ButtonLeaves, HostMove
<1>2. CASE Requested \/ OnCancelRequested \/ OnClear \/ OnStartPause \/ OnBatchAddFiles
  BY <1>2 DEF Requested, OnTranslateRequested, OnCancelRequested, OnClear, OnStartPause,
     OnBatchAddFiles, ShellKept, HostMove
<1>3. CASE Heard
  <2>1. Hearing /\ UNCHANGED <<spc, host>>
    BY <1>3, HeardFacts
  <2>2. News(Head(signals)) \/ UNCHANGED picture
    BY <1>3, HeardFacts DEF News
  <2>3. ASSUME Head(signals) = Settled(host) PROVE Shown'
    <3>1. OnRuntimeSnapshot
      BY <1>0, <1>3, <2>3, HeardFacts
    <3>2. CASE host = NoModel
      <4>1. Head(signals).lifecycle = "Unloaded"
        BY <2>3, <3>2 DEF Settled, SnapshotChanged
      <4>2. ~modelLoaded' /\ ~busy'
        BY <3>1, <4>1 DEF OnRuntimeSnapshot
      <4> QED
        BY <2>1, <3>2, <4>2 DEF Shown
    <3>3. CASE host # NoModel
      <4>1. Head(signals).lifecycle = "Ready" /\ Head(signals).model = host
        BY <2>3, <3>3 DEF Settled, SnapshotChanged
      <4>2. modelLoaded' /\ ~busy' /\ loadedId' = host
        BY <3>1, <4>1 DEF OnRuntimeSnapshot
      <4> QED
        BY <2>1, <3>3, <4>2 DEF Shown
    <3> QED
      BY <3>2, <3>3
  <2> QED
    BY <2>1, <2>2, <2>3 DEF HostMove
<1>4. CASE StatusHeard
  BY <1>0, <1>4 DEF StatusHeard, OnStatusChanged, Hears, Hearing, News, HostMove
<1>5. CASE PageSlots
  BY <1>0, <1>5 DEF PageSlots, OnTranslationFinished, OnBatchStateChanged, OnBatchFinished, OnBatchError,
     Hears, Hearing, HostMove
<1>6. CASE ModelCommands
  <2>1. spc' # "idle" \/ \E s \in Seq(Signal) : Emit(s) /\ Len(s) = 3 /\ s[3] = Settled(host')
    BY <1>6, ModelCommandFacts
  <2> QED
    BY <1>6, <2>1, ModelCommandFacts DEF HostMove, Emit
<1>7. CASE JobWork
  <2>1. UNCHANGED <<spc, host, picture>>
    BY <1>7, JobWorkFacts
  <2>2. PICK s \in Seq(Signal) :
           signals' = signals \o s /\ \A k \in 1..Len(s) : CalmSignal(s[k]) \/ Mine(s[k])
    BY <1>7, JobWorkFacts DEF Calm, EndsJob
  <2>3. \A k \in 1..Len(s) : News(s[k]) => s[k] = Settled(host)
    BY <2>2 DEF CalmSignal, Mine, News
  <2> QED
    BY <2>1, <2>2, <2>3 DEF HostMove
<1>8. CASE Controller
  <2>1. PICK s : Emission(s)
    BY <1>8, ControllerFacts
  <2>2. /\ s \in Seq(Signal) /\ signals' = signals \o s
        /\ \A k \in 1..Len(s) : News(s[k]) => s[k] = Settled(host)
    BY <2>1 DEF Emission, Calm, CalmSignal, News
  <2> QED
    BY <1>8, <2>2, ControllerFacts DEF HostMove, ControllerLeaves
<1>9. CASE SegmentEnds \/ \E end \in {"Completed", "Failed", "Cancelled"} : JobEnds(end)
  BY <1>9 DEF SegmentEnds, JobEnds, HostMove
<1>10. CASE Downloading
  <2>1. UNCHANGED <<spc, host, picture>>
    BY <1>10, DownloadingFacts
  <2>2. PICK e \in Signal : Emit(<<e>>) /\ e.kind \in {"started", "finished"}
    BY <1>10, DownloadingFacts, SignalTypes DEF DownloadStarted, DownloadFinished
  <2>3. <<e>> \in Seq(Signal) /\ \A k \in 1..Len(<<e>>) : ~News(<<e>>[k])
    BY <2>2 DEF News
  <2> QED
    BY <2>1, <2>2, <2>3 DEF HostMove, Emit
<1>11. CASE UNCHANGED vars
  BY <1>11 DEF vars, shell, HostMove
<1> QED
  BY <1>1, <1>2, <1>3, <1>4, <1>5, <1>6, <1>7, <1>8, <1>9, <1>10, <1>11, Steps

(* The last word on the way is a snapshot of the host as it is.            *)
LEMMA HostInvNext == IInv /\ [Next]_vars => HostInv'
<1> SUFFICES ASSUME IInv, [Next]_vars, spc' = "idle"
             PROVE  /\ (\A k \in 1..Len(signals') : ~News(signals'[k])) => Shown'
                    /\ \A k \in 1..Len(signals') :
                         News(signals'[k]) /\ (\A j \in 1..Len(signals') : j > k => ~News(signals'[j]))
                            => signals'[k] = Settled(host')
  BY DEF HostInv
<1>0. Types /\ HostInv /\ HostMove /\ signals \in Seq(Signal)
  BY HostMoves DEF IInv, Types, QueueType
<1>1. CASE UNCHANGED <<signals, picture, spc, host>>
  BY <1>0, <1>1 DEF HostInv, Shown, picture
<1>2. CASE /\ Hearing /\ UNCHANGED <<spc, host>>
           /\ News(Head(signals)) \/ UNCHANGED picture
           /\ Head(signals) = Settled(host) => Shown'
  <2>1. /\ 1 \in 1..Len(signals) /\ Head(signals) = signals[1]
        /\ \A k \in 1..Len(signals') : signals'[k] = signals[k + 1] /\ k + 1 \in 1..Len(signals)
                                       /\ k \in Nat /\ k # 0
        /\ \A k \in 1..Len(signals) : k # 1 => /\ k - 1 \in 1..Len(signals') /\ signals'[k - 1] = signals[k]
                                               /\ k \in Nat
    BY <1>0, <1>2, Taking DEF Hearing
  <2>2. ASSUME \A k \in 1..Len(signals') : ~News(signals'[k]) PROVE Shown'
    <3>1. \A k \in 1..Len(signals) : k # 1 => ~News(signals[k])
      BY <2>1, <2>2
    <3>2. CASE News(signals[1])
      <4>1. \A j \in 1..Len(signals) : j > 1 => ~News(signals[j])
        BY <3>1
      <4>2. signals[1] = Settled(host)
        BY <1>0, <1>2, <2>1, <3>2, <4>1 DEF HostInv
      <4> QED
        BY <1>2, <2>1, <4>2
    <3>3. CASE ~News(signals[1])
      <4>1. \A k \in 1..Len(signals) : ~News(signals[k])
        BY <3>1, <3>3
      <4>2. Shown /\ UNCHANGED picture
        BY <1>0, <1>2, <2>1, <3>3, <4>1 DEF HostInv
      <4> QED
        BY <1>2, <4>2 DEF Shown, picture
    <3> QED
      BY <3>2, <3>3
  <2>3. ASSUME NEW k \in 1..Len(signals'), News(signals'[k]),
               \A j \in 1..Len(signals') : j > k => ~News(signals'[j])
        PROVE  signals'[k] = Settled(host')
    <3>1. k + 1 \in 1..Len(signals) /\ News(signals[k + 1]) /\ k \in Nat
      BY <2>1, <2>3
    <3>2. ASSUME NEW j \in 1..Len(signals), j > k + 1 PROVE ~News(signals[j])
      <4>1. j # 1 /\ j - 1 > k
        BY <2>1, <3>1, <3>2
      <4> QED
        BY <2>1, <2>3, <4>1
    <3>3. signals[k + 1] = Settled(host)
      BY <1>0, <1>2, <3>1, <3>2 DEF HostInv
    <3> QED
      BY <1>2, <2>1, <3>3
  <2> QED
    BY <2>2, <2>3
<1>3. ASSUME UNCHANGED picture, NEW s \in Seq(Signal), signals' = signals \o s,
             \/ UNCHANGED <<spc, host>> /\ \A k \in 1..Len(s) : News(s[k]) => s[k] = Settled(host)
             \/ Len(s) = 3 /\ s[3] = Settled(host')
      PROVE  /\ (\A k \in 1..Len(signals') : ~News(signals'[k])) => Shown'
             /\ \A k \in 1..Len(signals') :
                  News(signals'[k]) /\ (\A j \in 1..Len(signals') : j > k => ~News(signals'[j]))
                     => signals'[k] = Settled(host')
  <2>1. /\ Len(signals) \in Nat
        /\ \A k \in 1..Len(signals) : k \in 1..Len(signals') /\ signals'[k] = signals[k]
        /\ \A k \in 1..Len(s) : Len(signals) + k \in 1..Len(signals')
                                /\ signals'[Len(signals) + k] = s[k]
        /\ \A k \in 1..Len(signals') :
              \/ k \in 1..Len(signals)
              \/ /\ k - Len(signals) \in 1..Len(s) /\ signals'[k] = s[k - Len(signals)]
                 /\ k > Len(signals)
    BY <1>0, <1>3, Joining
  <2>2. CASE UNCHANGED <<spc, host>> /\ \A k \in 1..Len(s) : News(s[k]) => s[k] = Settled(host)
    <3>1. ASSUME \A k \in 1..Len(signals') : ~News(signals'[k]) PROVE Shown'
      <4>1. \A k \in 1..Len(signals) : ~News(signals[k])
        BY <2>1, <3>1
      <4>2. Shown
        BY <1>0, <2>2, <4>1 DEF HostInv
      <4> QED
        BY <1>3, <2>2, <4>2 DEF Shown, picture
    <3>2. ASSUME NEW k \in 1..Len(signals'), News(signals'[k]),
                 \A j \in 1..Len(signals') : j > k => ~News(signals'[j])
          PROVE  signals'[k] = Settled(host')
      <4>1. CASE k \in 1..Len(signals)
        <5>1. \A j \in 1..Len(signals) : j > k => ~News(signals[j])
          BY <2>1, <3>2
        <5> QED
          BY <1>0, <2>1, <2>2, <3>2, <4>1, <5>1 DEF HostInv
      <4>2. CASE k \notin 1..Len(signals)
        BY <2>1, <2>2, <3>2, <4>2
      <4> QED
        BY <4>1, <4>2
    <3> QED
      BY <3>1, <3>2
  <2>3. CASE Len(s) = 3 /\ s[3] = Settled(host')
    <3>1. PICK m : m = Len(signals) + 3
      OBVIOUS
    <3>2. m \in 1..Len(signals') /\ signals'[m] = Settled(host')
      <4>1. 3 \in 1..Len(s)
        BY <2>3
      <4> QED
        BY <2>1, <2>3, <3>1, <4>1
    <3>3. News(signals'[m])
      BY <3>2 DEF News, Settled, SnapshotChanged
    <3>4. \A k \in 1..Len(signals') : k <= m /\ k \in Nat
      BY <2>1, <2>3, <3>1
    <3>5. ASSUME NEW k \in 1..Len(signals'), News(signals'[k]),
                 \A j \in 1..Len(signals') : j > k => ~News(signals'[j])
          PROVE  k = m
      <4>1. ~(m > k)
        BY <3>2, <3>3, <3>5
      <4> QED
        BY <2>1, <3>1, <3>4, <4>1
    <3> QED
      BY <3>2, <3>3, <3>5
  <2> QED
    BY <1>3, <2>2, <2>3
<1> QED
  BY <1>0, <1>1, <1>2, <1>3 DEF HostMove

-----------------------------------------------------------------------------
(* What the flow waits for.                                                *)

(* A signal that is not the one that is heard stays on its way.            *)
LEMMA SignalStays ==
    ASSUME Types, [Next]_vars, NEW i \in 1..Len(signals), Hearing => Head(signals) # signals[i]
    PROVE  \E k \in 1..Len(signals') : signals'[k] = signals[i]
<1>0. BusyMove /\ signals \in Seq(Signal)
  BY BusyMoves DEF Types, QueueType
<1>1. CASE UNCHANGED signals
  BY <1>1
<1>2. CASE Hearing
  <2>1. Head(signals) = signals[1] /\ (i # 1 => i - 1 \in 1..Len(signals') /\ signals'[i - 1] = signals[i])
    BY <1>0, <1>2, Taking DEF Hearing
  <2>2. i # 1
    BY <1>2, <2>1
  <2> QED
    BY <2>1, <2>2
<1>3. CASE \E s \in Seq(Signal) : signals' = signals \o s
  BY <1>0, <1>3, Joining
<1> QED
  BY <1>0, <1>1, <1>2, <1>3 DEF BusyMove

(* What becomes of the commands: one is taken when it is executed, and a   *)
(* load or an unload begins then.                                          *)
LEMMA CommandMoves ==
    ASSUME Types, [Next]_vars
    PROVE  \/ UNCHANGED commands
           \/ /\ commands # <<>> /\ commands' = Tail(commands)
              /\ Head(commands) \in {"load", "unload"} => spc' = Head(commands)
           \/ \E c \in Command : commands' = Append(commands, c)
<1> USE DEF window, flow, service, download, history
<1>1. CASE Pressed
  BY <1>1, ButtonFacts DEF Pressed, Command
<1>2. CASE Requested \/ OnStartPause \/ OnBatchAddFiles
  BY <1>2 DEF Requested, OnTranslateRequested, OnStartPause, OnBatchAddFiles, Post, Command
<1>3. CASE OnCancelRequested \/ OnClear
  BY <1>3 DEF OnCancelRequested, OnClear
<1>4. CASE Heard
  <2>1. UNCHANGED commands \/ commands' = Append(commands, "load")
    BY <1>4, HeardFacts DEF OnDownloadFinished, BeginLoad
  <2> QED
    BY <2>1 DEF Command
<1>5. CASE StatusHeard \/ PageSlots
  BY <1>5 DEF StatusHeard, OnStatusChanged, PageSlots, OnTranslationFinished,
     OnBatchStateChanged, OnBatchFinished, OnBatchError
<1>6. CASE ModelCommands
  BY <1>6, ModelCommandFacts
<1>7. CASE JobWork
  <2>1. commands # <<>> /\ commands' = Tail(commands) /\ Head(commands) \in {"translate", "ended"}
    BY <1>7, JobWorkFacts
  <2> QED
    BY <2>1
<1>8. CASE Controller
  BY <1>8, ControllerFacts DEF Executed, ControllerCommand
<1>9. CASE SegmentEnds \/ \E end \in {"Completed", "Failed", "Cancelled"} : JobEnds(end)
  BY <1>9 DEF SegmentEnds, JobEnds, Post, Command
<1>10. CASE Downloading
  BY <1>10, DownloadingFacts
<1>11. CASE UNCHANGED vars
  BY <1>11 DEF vars, shell
<1> QED
  BY <1>1, <1>2, <1>3, <1>4, <1>5, <1>6, <1>7, <1>8, <1>9, <1>10, <1>11, Steps

(* A command stays posted until it is executed.                            *)
LEMMA CommandStays ==
    ASSUME Types, [Next]_vars, NEW i \in 1..Len(commands)
    PROVE  \/ \E k \in 1..Len(commands') : commands'[k] = commands[i]
           \/ commands[i] \in {"load", "unload"} /\ spc' = commands[i]
           \/ commands[i] \notin {"load", "unload"} /\ commands # <<>> /\ commands' = Tail(commands)
              /\ Head(commands) = commands[i]
<1>1. CASE UNCHANGED commands
  BY <1>1
<1>2. CASE /\ commands # <<>> /\ commands' = Tail(commands)
           /\ Head(commands) \in {"load", "unload"} => spc' = Head(commands)
  <2>1. Head(commands) = commands[1] /\ (i # 1 => i - 1 \in 1..Len(commands') /\ commands'[i - 1] = commands[i])
    BY <1>2, CommandQueue
  <2> QED
    BY <1>2, <2>1
<1>3. CASE \E c \in Command : commands' = Append(commands, c)
  BY <1>3, CommandQueue
<1> QED
  BY <1>1, <1>2, <1>3, CommandMoves

(* A command that is posted is among the posted ones.                      *)
LEMMA CommandPosted ==
    ASSUME Types, NEW c \in Command, commands' = Append(commands, c)
    PROVE  \E k \in 1..Len(commands') : commands'[k] = c
BY CommandQueue

(* Signals are heard by the window.                                        *)
LEMMA HearsWhat ==
    ASSUME Types, [Next]_vars, Hearing
    PROVE  Heard \/ StatusHeard \/ PageSlots
<1>0. signals \in Seq(Signal)
  BY DEF Types, QueueType
<1>1. Len(signals') = Len(signals) - 1 /\ Len(signals) \in Nat
  BY <1>0, Taking DEF Hearing
<1>2. signals' # signals
  BY <1>1
<1>3. \A s \in Seq(Signal) : signals' # signals \o s
  <2> SUFFICES ASSUME NEW s \in Seq(Signal) PROVE Len(signals \o s) # Len(signals) - 1
    BY <1>1
  <2>1. Len(signals \o s) = Len(signals) + Len(s) /\ Len(s) \in Nat
    BY <1>0, Joining
  <2> QED
    BY <1>1, <2>1
<1>4. ~Pressed
  BY <1>2, ButtonFacts DEF Pressed, ButtonLeaves
<1>5. ~(Requested \/ OnCancelRequested \/ OnClear \/ OnStartPause \/ OnBatchAddFiles)
  BY <1>2 DEF Requested, OnTranslateRequested, OnCancelRequested, OnClear, OnStartPause,
     OnBatchAddFiles, ShellKept
<1>6. ~ModelCommands
  BY <1>3, ModelCommandFacts DEF Emit
<1>7. ~JobWork
  BY <1>3, JobWorkFacts DEF Calm, EndsJob
<1>8. ~Controller
  BY <1>3, ControllerFacts DEF Emission, Calm
<1>9. ~(SegmentEnds \/ \E end \in {"Completed", "Failed", "Cancelled"} : JobEnds(end))
  BY <1>2 DEF SegmentEnds, JobEnds
<1>10. ~Downloading
  <2>1. Downloading => \E e \in Signal : signals' = signals \o <<e>>
    BY DownloadingFacts, SignalTypes DEF Emit
  <2>2. \A e \in Signal : <<e>> \in Seq(Signal)
    OBVIOUS
  <2> QED
    BY <1>3, <2>1, <2>2
<1>11. ~(UNCHANGED vars)
  BY <1>2 DEF vars, shell
<1> QED
  BY <1>4, <1>5, <1>6, <1>7, <1>8, <1>9, <1>10, <1>11, Steps

(* What the flow waits for changes when it posts a command, reserves a     *)
(* download, or hears the answer.                                          *)
LEMMA FlowMoves ==
    ASSUME Types, [Next]_vars
    PROVE  /\ loading' = loading \/ loading' = NoModel \/ commands' = Append(commands, "load")
           /\ unloading' = unloading \/ unloading' = FALSE \/ commands' = Append(commands, "unload")
           /\ \/ bound' = bound \/ bound' = NoId
              \/ bound' \in Download /\ phase'[bound'] = "reserved"
           /\ Hearing /\ Head(signals).kind = "loaded" => loading' = NoModel
           /\ Hearing /\ Head(signals).kind = "unloaded" => unloading' = FALSE
           /\ Hearing /\ Head(signals).kind = "finished" /\ Head(signals).id = bound => bound' = NoId
           /\ \A i \in Download : phase[i] \in {"reserved", "started"} =>
                 \/ phase'[i] \in {"reserved", "started"}
                 \/ \E k \in 1..Len(signals') : signals'[k].kind = "finished" /\ signals'[k].id = i
           /\ spc' = spc \/ ModelCommands
<1> USE DEF window, flow, service, download, history
<1>0. /\ phase \in [Download -> {"unknown", "reserved", "started", "finished"}]
      /\ bound \in Download \cup {NoId} /\ signals \in Seq(Signal)
  BY DEF Types, ModelType, QueueType
<1>1. /\ Hearing /\ Head(signals).kind \in {"loaded", "unloaded", "finished"} => Heard
  BY HearsWhat DEF StatusHeard, OnStatusChanged, PageSlots, OnTranslationFinished,
     OnBatchStateChanged, OnBatchFinished, OnBatchError, Hears
<1>2. /\ Hearing /\ Head(signals).kind = "loaded" => loading' = NoModel
      /\ Hearing /\ Head(signals).kind = "unloaded" => unloading' = FALSE
      /\ Hearing /\ Head(signals).kind = "finished" /\ Head(signals).id = bound => bound' = NoId
  BY <1>1, HeardFacts DEF OnModelLoadFinished, OnModelUnloadFinished, OnDownloadFinished
<1>3. CASE WorkStep \/ StatusHeard \/ ModelCommands
  <2>1. UNCHANGED <<flow, phase>> /\ (spc' = spc \/ ModelCommands)
    <3>1. CASE WorkStep
      BY <3>1, WorkKeepsModel DEF ModelKept
    <3>2. CASE StatusHeard
      BY <3>2 DEF StatusHeard, OnStatusChanged
    <3>3. CASE ModelCommands
      BY <3>3, ModelCommandFacts
    <3> QED
      BY <1>3, <3>1, <3>2, <3>3
  <2> QED
    BY <1>2, <2>1
<1>4. CASE Pressed
  <2>1. /\ UNCHANGED spc
        /\ loading' = loading \/ commands' = Append(commands, "load")
        /\ unloading' = unloading \/ commands' = Append(commands, "unload")
        /\ Reserves \/ Withdraws \/ KeepsDownload
    BY <1>4, ButtonFacts DEF Pressed, ButtonLeaves
  <2>2. CASE Reserves
    <3>1. PICK i \in Download : /\ phase[i] = "unknown" /\ phase' = [phase EXCEPT ![i] = "reserved"]
                                /\ bound' = i
      BY <2>2 DEF Reserves
    <3>2. phase'[i] = "reserved" /\ \A j \in Download : j # i => phase'[j] = phase[j]
      BY <1>0, <3>1
    <3>3. bound' \in Download /\ phase'[bound'] = "reserved"
      BY <3>1, <3>2
    <3>4. \A j \in Download : phase[j] \in {"reserved", "started"} => phase'[j] \in {"reserved", "started"}
      BY <3>1, <3>2
    <3> QED
      BY <1>2, <2>1, <3>3, <3>4
  <2>3. CASE Withdraws \/ KeepsDownload
    <3>1. UNCHANGED <<bound, phase>>
      BY <2>3 DEF Withdraws, KeepsDownload
    <3> QED
      BY <1>2, <2>1, <3>1
  <2> QED
    BY <2>1, <2>2, <2>3
<1>5. CASE Heard
  <2>1. UNCHANGED <<spc, phase>>
    BY <1>5, HeardFacts
  <2>2. /\ loading' = loading \/ loading' = NoModel \/ commands' = Append(commands, "load")
        /\ unloading' = unloading \/ unloading' = FALSE
        /\ bound' = bound \/ bound' = NoId
    BY <1>5 DEF Heard, FlowSlots, OnRuntimeSnapshot, OnModelLoadFinished, OnModelUnloadFinished,
       OnDownloadStarted, OnDownloadFinished, BeginLoad
  <2> QED
    BY <1>2, <2>1, <2>2
<1>6. CASE Downloading
  <2>1. UNCHANGED <<flow, spc>>
    BY <1>6, DownloadingFacts
  <2>2. PICK i \in Download :
           \/ phase' = [phase EXCEPT ![i] = "started"]
           \/ /\ phase' = [phase EXCEPT ![i] = "finished"]
              /\ \E r \in Downloads!Outcome : Emit(<<DownloadFinished(i, r)>>)
    BY <1>6, DownloadingFacts
  <2>3. CASE phase' = [phase EXCEPT ![i] = "started"]
    <3>1. \A j \in Download : phase[j] \in {"reserved", "started"} => phase'[j] \in {"reserved", "started"}
      BY <1>0, <2>3
    <3> QED
      BY <1>2, <2>1, <3>1
  <2>4. CASE /\ phase' = [phase EXCEPT ![i] = "finished"]
             /\ \E r \in Downloads!Outcome : Emit(<<DownloadFinished(i, r)>>)
    <3>1. PICK e \in Signal : Emit(<<e>>) /\ e.kind = "finished" /\ e.id = i
      BY <2>4, SignalTypes DEF DownloadFinished
    <3>2. <<e>> \in Seq(Signal) /\ 1 \in 1..Len(<<e>>) /\ <<e>>[1] = e
      OBVIOUS
    <3>3. \E k \in 1..Len(signals') : signals'[k] = e
      BY <1>0, <3>1, <3>2, Joining DEF Emit
    <3>4. \A j \in Download : j # i => phase'[j] = phase[j]
      BY <1>0, <2>4
    <3> QED
      BY <1>2, <2>1, <3>1, <3>3, <3>4
  <2> QED
    BY <2>2, <2>3, <2>4
<1> QED
  BY <1>3, <1>4, <1>5, <1>6, Steps DEF WorkStep

(* What the flow waits for stays on its way until it is heard.             *)
LEMMA FlowInvNext == IInv /\ [Next]_vars => FlowInv'
<1> SUFFICES ASSUME IInv, [Next]_vars PROVE FlowInv'
  OBVIOUS
<1>0. Types /\ FlowInv /\ signals \in Seq(Signal) /\ bound \in Download \cup {NoId}
  BY DEF IInv, Types, QueueType, ModelType
<1>1. /\ loading' = loading \/ loading' = NoModel \/ commands' = Append(commands, "load")
      /\ unloading' = unloading \/ unloading' = FALSE \/ commands' = Append(commands, "unload")
      /\ \/ bound' = bound \/ bound' = NoId
         \/ bound' \in Download /\ phase'[bound'] = "reserved"
      /\ Hearing /\ Head(signals).kind = "loaded" => loading' = NoModel
      /\ Hearing /\ Head(signals).kind = "unloaded" => unloading' = FALSE
      /\ Hearing /\ Head(signals).kind = "finished" /\ Head(signals).id = bound => bound' = NoId
      /\ \A i \in Download : phase[i] \in {"reserved", "started"} =>
            \/ phase'[i] \in {"reserved", "started"}
            \/ \E k \in 1..Len(signals') : signals'[k].kind = "finished" /\ signals'[k].id = i
      /\ spc' = spc \/ ModelCommands
  BY <1>0, FlowMoves
<1>2. ASSUME spc # "idle", spc' # spc
      PROVE  \E k \in 1..Len(signals') :
                signals'[k].kind = IF spc = "load" THEN "loaded" ELSE "unloaded"
  <2>1. PICK s \in Seq(Signal) : Emit(s) /\ Len(s) = 3
                                 /\ s[2].kind = IF spc = "load" THEN "loaded" ELSE "unloaded"
    BY <1>0, <1>1, <1>2, ModelCommandFacts
  <2>2. 2 \in 1..Len(s)
    BY <2>1
  <2>9. signals \in Seq(Signal) /\ s \in Seq(Signal) /\ signals' = signals \o s
    BY <1>0, <2>1 DEF Emit
  <2>3. \A k \in 1..Len(s) : Len(signals) + k \in 1..Len(signals') /\ signals'[Len(signals) + k] = s[k]
    BY <2>9, Joining
  <2>4. Len(signals) + 2 \in 1..Len(signals') /\ signals'[Len(signals) + 2] = s[2]
    BY <2>2, <2>3
  <2> QED
    BY <2>1, <2>4
<1>3. ASSUME loading' # NoModel
      PROVE  \/ spc' = "load"
             \/ \E k \in 1..Len(commands') : commands'[k] = "load"
             \/ \E k \in 1..Len(signals') : signals'[k].kind = "loaded"
  <2>1. CASE commands' = Append(commands, "load")
    BY <1>0, <2>1, CommandPosted DEF Command
  <2>2. CASE loading' = loading
    <3>1. CASE spc = "load"
      BY <1>2, <3>1
    <3>2. ASSUME NEW k \in 1..Len(commands), commands[k] = "load"
          PROVE  spc' = "load" \/ \E j \in 1..Len(commands') : commands'[j] = "load"
      BY <1>0, <3>2, CommandStays
    <3>3. ASSUME NEW k \in 1..Len(signals), signals[k].kind = "loaded"
          PROVE  \E j \in 1..Len(signals') : signals'[j].kind = "loaded"
      <4>1. Hearing => Head(signals) # signals[k]
        BY <1>1, <1>3, <3>3
      <4> QED
        BY <1>0, <3>3, <4>1, SignalStays
    <3> QED
      BY <1>0, <1>3, <2>2, <3>1, <3>2, <3>3 DEF FlowInv
  <2> QED
    BY <1>1, <1>3, <2>1, <2>2
<1>4. ASSUME unloading'
      PROVE  \/ spc' = "unload"
             \/ \E k \in 1..Len(commands') : commands'[k] = "unload"
             \/ \E k \in 1..Len(signals') : signals'[k].kind = "unloaded"
  <2>1. CASE commands' = Append(commands, "unload")
    BY <1>0, <2>1, CommandPosted DEF Command
  <2>2. CASE unloading' = unloading
    <3>1. CASE spc = "unload"
      BY <1>2, <3>1
    <3>2. ASSUME NEW k \in 1..Len(commands), commands[k] = "unload"
          PROVE  spc' = "unload" \/ \E j \in 1..Len(commands') : commands'[j] = "unload"
      BY <1>0, <3>2, CommandStays
    <3>3. ASSUME NEW k \in 1..Len(signals), signals[k].kind = "unloaded"
          PROVE  \E j \in 1..Len(signals') : signals'[j].kind = "unloaded"
      <4>1. Hearing => Head(signals) # signals[k]
        BY <1>1, <1>4, <3>3
      <4> QED
        BY <1>0, <3>3, <4>1, SignalStays
    <3> QED
      BY <1>0, <1>4, <2>2, <3>1, <3>2, <3>3 DEF FlowInv
  <2> QED
    BY <1>1, <1>4, <2>1, <2>2
<1>5. ASSUME bound' # NoId
      PROVE  \/ phase'[bound'] \in {"reserved", "started"}
             \/ \E k \in 1..Len(signals') : signals'[k].kind = "finished" /\ signals'[k].id = bound'
  <2>1. CASE bound' \in Download /\ phase'[bound'] = "reserved"
    BY <2>1
  <2>2. CASE bound' = bound
    <3>1. CASE phase[bound] \in {"reserved", "started"}
      BY <1>0, <1>1, <1>5, <2>2, <3>1
    <3>2. ASSUME NEW k \in 1..Len(signals), signals[k].kind = "finished", signals[k].id = bound
          PROVE  \E j \in 1..Len(signals') : signals'[j].kind = "finished" /\ signals'[j].id = bound
      <4>1. Hearing => Head(signals) # signals[k]
        BY <1>1, <1>5, <3>2
      <4> QED
        BY <1>0, <3>2, <4>1, SignalStays
    <3> QED
      BY <1>0, <1>5, <2>2, <3>1, <3>2 DEF FlowInv
  <2> QED
    BY <1>1, <1>5, <2>1, <2>2
<1> QED
  BY <1>3, <1>4, <1>5 DEF FlowInv

-----------------------------------------------------------------------------
(* What the window knows of the batch run.                                 *)

SilentSignal(e) == e.kind \notin {"batchState", "batchFinished", "batchError"}

\* Nothing is heard of the run, and nothing is said of it.
SilentMove ==
    \/ UNCHANGED signals
    \/ Hearing /\ SilentSignal(Head(signals))
    \/ \E s \in Seq(Signal) : signals' = signals \o s /\ Silent(s)

\* What is not about the run.
BatchApart ==
    /\ UNCHANGED <<batch, ctl, erred>>
    /\ SilentMove
    /\ \/ UNCHANGED commands
       \/ commands # <<>> /\ commands' = Tail(commands) /\ Head(commands) \notin ControllerCommand
       \/ \E c \in Command : commands' = Append(commands, c)

(* A step is apart from the run, or one of the page's or the controller's. *)
LEMMA BatchSteps ==
    ASSUME Types, [Next]_vars
    PROVE  \/ BatchApart
           \/ OnStartPause \/ OnBatchStateChanged \/ OnBatchFinished \/ OnBatchError
           \/ Controller
<1> USE DEF window, flow, service, download, history, translation, batchState
<1>1. CASE Pressed
  BY <1>1, ButtonFacts DEF Pressed, ButtonLeaves, Kept, BatchApart, SilentMove, Command
<1>2. CASE Requested \/ OnCancelRequested \/ OnClear \/ OnBatchAddFiles
  <2>1. UNCHANGED <<signals, batch, ctl, erred>>
    BY <1>2 DEF Requested, OnTranslateRequested, OnCancelRequested, OnClear, OnBatchAddFiles, ShellKept
  <2>2. UNCHANGED commands \/ commands' = Append(commands, "translate")
        \/ commands' = Append(commands, "addFile")
    BY <1>2 DEF Requested, OnTranslateRequested, OnCancelRequested, OnClear, OnBatchAddFiles, Post
  <2> QED
    BY <2>1, <2>2 DEF BatchApart, SilentMove, Command
<1>3. CASE Heard
  <2>1. UNCHANGED commands \/ commands' = Append(commands, "load")
    BY <1>3, HeardFacts DEF OnDownloadFinished, BeginLoad
  <2>2. /\ Hearing /\ Kept
        /\ Head(signals).kind \in {"snapshot", "loaded", "unloaded", "started", "finished"}
    BY <1>3, HeardFacts
  <2> QED
    BY <2>1, <2>2 DEF Kept, BatchApart, SilentMove, SilentSignal, Command
<1>4. CASE StatusHeard \/ OnTranslationFinished
  BY <1>4 DEF StatusHeard, OnStatusChanged, OnTranslationFinished, Hears, Hearing,
     BatchApart, SilentMove, SilentSignal
<1>5. CASE ModelCommands
  <2>1. PICK s \in Seq(Signal) :
                 /\ Emit(s) /\ 1 \in 1..Len(s) /\ s[1] = StatusChanged(spc' # "idle")
                 /\ \/ /\ commands # <<>> /\ commands' = Tail(commands)
                       /\ Head(commands) \in {"load", "unload"}
                       /\ Len(s) = 2 /\ s[2].kind = "snapshot"
                    \/ /\ UNCHANGED commands
                       /\ Len(s) = 3 /\ s[3] = Settled(host')
                       /\ s[2].kind = IF spc = "load" THEN "loaded" ELSE "unloaded"
    BY <1>5, ModelCommandFacts
  <2>2. s[1].kind = "status"
    BY <2>1 DEF StatusChanged
  <2>3. ASSUME NEW k \in 1..Len(s) PROVE s[k].kind \notin {"batchState", "batchFinished", "batchError"}
    <3>1. CASE Len(s) = 2
      <4>1. k = 1 \/ k = 2
        BY <2>3, <3>1
      <4> QED
        BY <2>1, <2>2, <3>1, <4>1
    <3>2. CASE Len(s) = 3
      <4>1. k = 1 \/ k = 2 \/ k = 3
        BY <2>3, <3>2
      <4> QED
        BY <2>1, <2>2, <3>2, <4>1 DEF Settled, SnapshotChanged
    <3> QED
      BY <2>1, <3>1, <3>2
  <2>4. Silent(s) /\ signals' = signals \o s
    BY <2>1, <2>3 DEF Silent, Emit
  <2>5. \/ UNCHANGED commands
        \/ commands # <<>> /\ commands' = Tail(commands) /\ Head(commands) \notin ControllerCommand
    BY <2>1 DEF ControllerCommand
  <2>6. UNCHANGED <<batch, ctl, erred>>
    BY <1>5, ModelCommandFacts DEF Kept
  <2> QED
    BY <2>4, <2>5, <2>6 DEF BatchApart, SilentMove
<1>6. CASE JobWork
  <2>1. \E s \in Seq(Signal) : signals' = signals \o s /\ Silent(s)
    BY <1>6, JobWorkFacts DEF Calm, EndsJob
  <2>2. /\ commands # <<>> /\ commands' = Tail(commands) /\ Head(commands) \notin ControllerCommand
        /\ UNCHANGED <<batch, ctl, erred>>
    BY <1>6, JobWorkFacts DEF ControllerCommand
  <2> QED
    BY <2>1, <2>2 DEF BatchApart, SilentMove
<1>7. CASE SegmentEnds \/ \E end \in {"Completed", "Failed", "Cancelled"} : JobEnds(end)
  BY <1>7 DEF SegmentEnds, JobEnds, Post, BatchApart, SilentMove, Command
<1>8. CASE Downloading
  <2>1. PICK e \in Signal : Emit(<<e>>) /\ e.kind \in {"started", "finished"}
    BY <1>8, DownloadingFacts, SignalTypes DEF DownloadStarted, DownloadFinished
  <2>2. <<e>> \in Seq(Signal) /\ Silent(<<e>>)
    BY <2>1 DEF Silent
  <2> QED
    BY <1>8, <2>1, <2>2, DownloadingFacts DEF Kept, BatchApart, SilentMove, Emit
<1>9. CASE UNCHANGED vars
  BY <1>9 DEF vars, shell, BatchApart, SilentMove
<1> QED
  BY <1>1, <1>2, <1>3, <1>4, <1>5, <1>6, <1>7, <1>8, <1>9, Steps DEF PageSlots

(* An error that was reported stays known.                                 *)
LEMMA ErringStays == Types /\ [Next]_vars /\ Erring => Erring'
<1> SUFFICES ASSUME Types, [Next]_vars, Erring PROVE Erring'
  OBVIOUS
<1>1. erred => erred'
  <2>1. erred' = erred \/ erred' = TRUE
    BY BatchSteps, ControllerFacts DEF BatchApart, OnStartPause, OnBatchStateChanged, OnBatchFinished,
       OnBatchError, ControllerLeaves
  <2> QED
    BY <2>1
<1>2. ASSUME NEW k \in 1..Len(signals), signals[k].kind = "batchError"
      PROVE  Erring'
  <2>1. CASE Hearing /\ Head(signals) = signals[k]
    <3>1. OnBatchError
      BY <1>2, <2>1, HearsWhat, HeardFacts DEF PageSlots, StatusHeard, OnStatusChanged,
         OnTranslationFinished, OnBatchStateChanged, OnBatchFinished, Hears
    <3> QED
      BY <3>1 DEF OnBatchError, Erring
  <2>2. CASE ~(Hearing /\ Head(signals) = signals[k])
    BY <1>2, <2>2, SignalStays DEF Erring
  <2> QED
    BY <2>1, <2>2
<1> QED
  BY <1>1, <1>2 DEF Erring

\* The part of FinishInv that only looks at what is on the way.
EndFollowsState ==
    /\ \A k \in 1..Len(signals) :
          FinishAt(k) => k = 1 \/ signals[k - 1] = BatchState(Stopped)
    /\ \A k \in 1..Len(signals) :
          FinishAt(k) /\ (\A j \in 1..Len(signals) : j > k => ~StateAt(j)) => ctl = Stopped

(* The places in the queue after a signal was heard.                       *)
LEMMA Places ==
    ASSUME Types, Hearing
    PROVE  /\ 1 \in 1..Len(signals) /\ Head(signals) = signals[1]
           /\ \A k \in 1..Len(signals') :
                 /\ k \in Nat /\ k # 0 /\ k + 1 \in 1..Len(signals) /\ signals'[k] = signals[k + 1]
                 /\ StateAt(k)' <=> StateAt(k + 1)
                 /\ FinishAt(k)' <=> FinishAt(k + 1)
           /\ \A k \in 1..Len(signals) :
                 k # 1 => /\ k \in Nat /\ k - 1 \in 1..Len(signals') /\ signals'[k - 1] = signals[k]
                          /\ StateAt(k - 1)' <=> StateAt(k)
                          /\ FinishAt(k - 1)' <=> FinishAt(k)
BY Taking DEF Hearing, Types, QueueType, StateAt, FinishAt

(* The end of a run still follows its last state when a signal is heard.   *)
LEMMA EndFollowsHeard ==
    ASSUME Types, Hearing, UNCHANGED ctl, EndFollowsState
    PROVE  EndFollowsState'
<1>1. /\ \A k \in 1..Len(signals') :
            /\ k \in Nat /\ k # 0 /\ k + 1 \in 1..Len(signals) /\ signals'[k] = signals[k + 1]
            /\ StateAt(k)' <=> StateAt(k + 1)
            /\ FinishAt(k)' <=> FinishAt(k + 1)
      /\ \A k \in 1..Len(signals) :
            k # 1 => /\ k \in Nat /\ k - 1 \in 1..Len(signals') /\ signals'[k - 1] = signals[k]
                     /\ StateAt(k - 1)' <=> StateAt(k)
  BY Places
<1>2. ASSUME NEW k \in 1..Len(signals'), FinishAt(k)'
      PROVE  k = 1 \/ signals'[k - 1] = BatchState(Stopped)
  <2>1. k + 1 \in 1..Len(signals) /\ FinishAt(k + 1) /\ k \in Nat /\ k # 0
    BY <1>1, <1>2
  <2>2. (k + 1) - 1 = k /\ k + 1 # 1
    BY <2>1
  <2>3. signals[k] = BatchState(Stopped)
    BY <2>1, <2>2 DEF EndFollowsState
  <2>4. k # 1 => signals'[k - 1] = signals[k]
    <3>1. k \in 1..Len(signals)
      <4>1. Len(signals) \in Nat
        BY DEF Types, QueueType
      <4> QED
        BY <2>1, <4>1
    <3> QED
      BY <1>1, <3>1
  <2> QED
    BY <2>3, <2>4
<1>3. ASSUME NEW k \in 1..Len(signals'), FinishAt(k)',
             \A j \in 1..Len(signals') : j > k => ~StateAt(j)'
      PROVE  ctl' = Stopped
  <2>1. k + 1 \in 1..Len(signals) /\ FinishAt(k + 1) /\ k \in Nat
    BY <1>1, <1>3
  <2>2. ASSUME NEW j \in 1..Len(signals), j > k + 1 PROVE ~StateAt(j)
    <3>1. j # 1 /\ j - 1 > k
      BY <1>1, <2>1, <2>2
    <3> QED
      BY <1>1, <1>3, <3>1
  <2> QED
    BY <2>1, <2>2 DEF EndFollowsState
<1> QED
  BY <1>2, <1>3 DEF EndFollowsState

(* What is silent about the run changes nothing of what is known of it.    *)
LEMMA SilentKeeps ==
    ASSUME Types, SilentMove, UNCHANGED <<batch, ctl>>
    PROVE  /\ EndFollowsState => EndFollowsState'
           /\ RunShown => RunShown'
           /\ (\A k \in 1..Len(signals') : ~StateAt(k)') => \A k \in 1..Len(signals) : ~StateAt(k)
           /\ (\E k \in 1..Len(signals') : FinishAt(k)') => \E k \in 1..Len(signals) : FinishAt(k)
<1>0. signals \in Seq(Signal)
  BY DEF Types, QueueType
<1>1. CASE UNCHANGED signals
  BY <1>1 DEF EndFollowsState, RunShown, StateAt, FinishAt
<1>2. CASE Hearing /\ SilentSignal(Head(signals))
  <2>1. /\ 1 \in 1..Len(signals) /\ Head(signals) = signals[1]
        /\ \A k \in 1..Len(signals') :
              /\ k \in Nat /\ k # 0 /\ k + 1 \in 1..Len(signals) /\ signals'[k] = signals[k + 1]
              /\ StateAt(k)' <=> StateAt(k + 1)
              /\ FinishAt(k)' <=> FinishAt(k + 1)
        /\ \A k \in 1..Len(signals) :
              k # 1 => /\ k \in Nat /\ k - 1 \in 1..Len(signals') /\ signals'[k - 1] = signals[k]
                       /\ StateAt(k - 1)' <=> StateAt(k)
                       /\ FinishAt(k - 1)' <=> FinishAt(k)
    BY <1>2, Places
  <2>2. ~StateAt(1) /\ ~FinishAt(1)
    BY <1>2, <2>1 DEF SilentSignal, StateAt, FinishAt
  <2>3. EndFollowsState => EndFollowsState'
    BY <1>2, EndFollowsHeard
  <2>4. (\A k \in 1..Len(signals') : ~StateAt(k)') => \A k \in 1..Len(signals) : ~StateAt(k)
    BY <2>1, <2>2
  <2>5. (\A k \in 1..Len(signals') : ~FinishAt(k)') => \A k \in 1..Len(signals) : ~FinishAt(k)
    BY <2>1, <2>2
  <2>6. (\E k \in 1..Len(signals') : FinishAt(k)') => \E k \in 1..Len(signals) : FinishAt(k)
    BY <2>1
  <2>7. ASSUME RunShown, NEW k \in 1..Len(signals'), StateAt(k)',
               \A j \in 1..Len(signals') : j > k => ~StateAt(j)'
        PROVE  signals'[k] = BatchState(ctl')
    <3>1. k + 1 \in 1..Len(signals) /\ StateAt(k + 1) /\ k \in Nat
      BY <2>1, <2>7
    <3>2. ASSUME NEW j \in 1..Len(signals), j > k + 1 PROVE ~StateAt(j)
      <4>1. j # 1 /\ j - 1 > k
        BY <2>1, <3>1, <3>2
      <4> QED
        BY <2>1, <2>7, <4>1
    <3>3. signals[k + 1] = BatchState(ctl)
      BY <2>7, <3>1, <3>2 DEF RunShown
    <3> QED
      BY <2>1, <3>3
  <2>8. RunShown => RunShown'
    BY <2>4, <2>5, <2>7 DEF RunShown
  <2> QED
    BY <2>3, <2>4, <2>6, <2>8
<1>3. CASE \E s \in Seq(Signal) : signals' = signals \o s /\ Silent(s)
  <2>1. PICK s \in Seq(Signal) : signals' = signals \o s /\ Silent(s)
    BY <1>3
  <2>2. /\ \A k \in 1..Len(signals) : k \in 1..Len(signals') /\ signals'[k] = signals[k]
        /\ \A k \in 1..Len(signals') :
              \/ k \in 1..Len(signals)
              \/ k - Len(signals) \in 1..Len(s) /\ signals'[k] = s[k - Len(signals)]
        /\ Len(signals) \in Nat
    BY <1>0, <2>1, Joining
  <2>3. \A k \in 1..Len(signals') : StateAt(k)' \/ FinishAt(k)' => k \in 1..Len(signals)
    BY <2>1, <2>2 DEF Silent, StateAt, FinishAt
  <2>4. \A k \in 1..Len(signals) : (StateAt(k)' <=> StateAt(k)) /\ (FinishAt(k)' <=> FinishAt(k))
    BY <2>2 DEF StateAt, FinishAt
  <2>5. ASSUME EndFollowsState, NEW k \in 1..Len(signals'), FinishAt(k)'
        PROVE  k = 1 \/ signals'[k - 1] = BatchState(Stopped)
    <3>1. k \in 1..Len(signals) /\ FinishAt(k)
      BY <2>3, <2>4, <2>5
    <3>2. k # 1 => k - 1 \in 1..Len(signals)
      BY <2>2, <3>1
    <3> QED
      BY <2>2, <2>5, <3>1, <3>2 DEF EndFollowsState
  <2>6. ASSUME EndFollowsState, NEW k \in 1..Len(signals'), FinishAt(k)',
               \A j \in 1..Len(signals') : j > k => ~StateAt(j)'
        PROVE  ctl' = Stopped
    <3>1. k \in 1..Len(signals) /\ FinishAt(k)
      BY <2>3, <2>4, <2>6
    <3>2. \A j \in 1..Len(signals) : j > k => ~StateAt(j)
      BY <2>2, <2>4, <2>6
    <3> QED
      BY <2>6, <3>1, <3>2 DEF EndFollowsState
  <2>7. EndFollowsState => EndFollowsState'
    BY <2>5, <2>6 DEF EndFollowsState
  <2>8. (\A k \in 1..Len(signals') : ~StateAt(k)') => \A k \in 1..Len(signals) : ~StateAt(k)
    BY <2>2, <2>4
  <2>9. (\A k \in 1..Len(signals') : ~FinishAt(k)') => \A k \in 1..Len(signals) : ~FinishAt(k)
    BY <2>2, <2>4
  <2>10. (\E k \in 1..Len(signals') : FinishAt(k)') => \E k \in 1..Len(signals) : FinishAt(k)
    BY <2>3, <2>4
  <2>11. ASSUME RunShown, NEW k \in 1..Len(signals'), StateAt(k)',
                \A j \in 1..Len(signals') : j > k => ~StateAt(j)'
         PROVE  signals'[k] = BatchState(ctl')
    <3>1. k \in 1..Len(signals) /\ StateAt(k)
      BY <2>3, <2>4, <2>11
    <3>2. \A j \in 1..Len(signals) : j > k => ~StateAt(j)
      BY <2>2, <2>4, <2>11
    <3> QED
      BY <2>2, <2>11, <3>1, <3>2 DEF RunShown
  <2>12. RunShown => RunShown'
    BY <2>8, <2>9, <2>11 DEF RunShown
  <2> QED
    BY <2>7, <2>8, <2>10, <2>12
<1> QED
  BY <1>1, <1>2, <1>3 DEF SilentMove

\* The end of a run that is heard alone: the page has been told, or the run was
\* started again.
StartIsPosted ==
    /\ \E k \in 1..Len(signals) : FinishAt(k)
    /\ \A k \in 1..Len(signals) : ~StateAt(k)
    /\ batch.pageRunning
    => \E k \in 1..Len(commands) : commands[k] = "start"

(* What is not about the run keeps the picture of it.                      *)
LEMMA PictureApart ==
    ASSUME Types, [Next]_vars, BatchApart, BatchInv
    PROVE  BatchInv'
<1>0. EndFollowsState /\ StartIsPosted /\ (RunShown \/ ChangeIsPosted)
  BY DEF BatchInv, FinishInv, EndFollowsState, StartIsPosted
<1>1. SilentMove /\ UNCHANGED <<batch, ctl, erred>>
  BY DEF BatchApart
<1>2. /\ EndFollowsState' /\ (RunShown => RunShown')
      /\ (\A k \in 1..Len(signals') : ~StateAt(k)') => \A k \in 1..Len(signals) : ~StateAt(k)
      /\ (\E k \in 1..Len(signals') : FinishAt(k)') => \E k \in 1..Len(signals) : FinishAt(k)
  BY <1>0, <1>1, SilentKeeps
<1>3. ASSUME NEW k \in 1..Len(commands), commands[k] \in {"start", "pause", "resume"}
      PROVE  \E j \in 1..Len(commands') : commands'[j] = commands[k]
  <2>1. ~(commands # <<>> /\ commands' = Tail(commands) /\ Head(commands) = commands[k])
    <3>1. CASE UNCHANGED commands
      <4>1. commands \in Seq(Command)
        BY DEF Types, QueueType
      <4> QED
        BY <3>1, <4>1, Taking
    <3>2. CASE commands # <<>> /\ commands' = Tail(commands) /\ Head(commands) \notin ControllerCommand
      BY <1>3, <3>2 DEF ControllerCommand
    <3>3. CASE \E c \in Command : commands' = Append(commands, c)
      <4>1. commands \in Seq(Command)
        BY DEF Types, QueueType
      <4>2. commands' # Tail(commands) \/ commands = <<>>
        BY <3>3, <4>1, Appending, Taking
      <4> QED
        BY <4>2
    <3> QED
      BY <3>1, <3>2, <3>3 DEF BatchApart
  <2> QED
    BY <1>3, <2>1, CommandStays
<1>4. StartIsPosted'
  BY <1>0, <1>1, <1>2, <1>3 DEF StartIsPosted
<1>5. ChangeIsPosted => ChangeIsPosted'
  BY <1>1, <1>3 DEF ChangeIsPosted, Changes
<1> QED
  BY <1>0, <1>2, <1>4, <1>5 DEF BatchInv, FinishInv, EndFollowsState, StartIsPosted

(* The button of the Batch page: what it posts will change the run, unless *)
(* what is posted already will, for the page shows the run as it is.       *)
LEMMA PicturePressed ==
    ASSUME Types, [Next]_vars, OnStartPause, BatchInv
    PROVE  BatchInv'
<1>0. /\ EndFollowsState /\ StartIsPosted /\ (RunShown \/ ChangeIsPosted)
      /\ commands \in Seq(Command)
      /\ batch \in [running : BOOLEAN, paused : BOOLEAN, pageRunning : BOOLEAN, pagePaused : BOOLEAN]
      /\ ctl \in Run
  BY DEF BatchInv, FinishInv, EndFollowsState, StartIsPosted, Types, QueueType, WorkType
<1>1. /\ UNCHANGED <<signals, ctl>>
      /\ \/ ~batch.pageRunning /\ commands' = Append(commands, "start") /\ batch'.pageRunning = TRUE
         \/ /\ batch.pageRunning /\ ~batch.pagePaused /\ commands' = Append(commands, "pause")
            /\ batch'.pageRunning = batch.pageRunning
         \/ /\ batch.pageRunning /\ batch.pagePaused /\ commands' = Append(commands, "resume")
            /\ batch'.pageRunning = batch.pageRunning
  BY <1>0 DEF OnStartPause, ShellKept, Post
<1>2. EndFollowsState'
  BY <1>0, <1>1 DEF EndFollowsState, StateAt, FinishAt
<1>3. PICK c \in {"start", "pause", "resume"} : commands' = Append(commands, c)
  BY <1>1
<1>4. /\ \E k \in 1..Len(commands') : commands'[k] = c
      /\ \A k \in 1..Len(commands) : \E j \in 1..Len(commands') : commands'[j] = commands[k]
  <2>1. c \in Command
    BY DEF Command
  <2> QED
    BY <1>3, <2>1, CommandQueue
<1>5. StartIsPosted'
  <2>1. CASE ~batch.pageRunning
    <3>1. commands' = Append(commands, "start") /\ "start" \in Command
      BY <1>1, <2>1 DEF Command
    <3> QED
      BY <3>1, CommandPosted DEF StartIsPosted
  <2>2. CASE batch.pageRunning
    BY <1>0, <1>1, <1>4, <2>2 DEF StartIsPosted, StateAt, FinishAt
  <2> QED
    BY <2>1, <2>2
<1>6. ChangeIsPosted => ChangeIsPosted'
  BY <1>1, <1>4 DEF ChangeIsPosted, Changes
<1>7. ASSUME RunShown, ~ChangeIsPosted, \A k \in 1..Len(signals) : ~StateAt(k)
      PROVE  ChangeIsPosted'
  <2>1. CASE \E k \in 1..Len(signals) : FinishAt(k)
    <3>1. ctl = Stopped
      BY <1>0, <1>7, <2>1 DEF EndFollowsState
    <3>2. ~batch.pageRunning
      BY <1>0, <1>7, <2>1, <3>1 DEF StartIsPosted, ChangeIsPosted, Changes, Stopped
    <3>3. commands' = Append(commands, "start") /\ "start" \in Command
      BY <1>1, <3>2 DEF Command
    <3>4. \E k \in 1..Len(commands') : commands'[k] = "start"
      BY <3>3, CommandPosted
    <3> QED
      BY <1>1, <3>1, <3>4 DEF ChangeIsPosted, Changes, Stopped
  <2>2. CASE \A k \in 1..Len(signals) : ~FinishAt(k)
    <3>1. batch.pageRunning = ctl.running /\ batch.pagePaused = ctl.paused
      BY <1>7, <2>2 DEF RunShown
    <3>2. \/ ~ctl.running /\ commands' = Append(commands, "start")
          \/ ctl.running /\ ~ctl.paused /\ commands' = Append(commands, "pause")
          \/ ctl.running /\ ctl.paused /\ commands' = Append(commands, "resume")
      BY <1>1, <3>1
    <3>3. PICK d \in Command : /\ commands' = Append(commands, d)
                               /\ \/ d = "start" /\ ~ctl.running
                                  \/ d = "pause" /\ ctl.running /\ ~ctl.paused
                                  \/ d = "resume" /\ ctl.running /\ ctl.paused
      BY <3>2 DEF Command
    <3>4. \E k \in 1..Len(commands') : commands'[k] = d
      BY <3>3, CommandPosted
    <3> QED
      BY <1>1, <3>3, <3>4 DEF ChangeIsPosted, Changes
  <2> QED
    BY <2>1, <2>2
<1>8. ASSUME RunShown, ~(\A k \in 1..Len(signals) : ~StateAt(k)) PROVE RunShown'
  BY <1>1, <1>8 DEF RunShown, StateAt, FinishAt
<1> QED
  BY <1>0, <1>2, <1>5, <1>6, <1>7, <1>8 DEF BatchInv, FinishInv, EndFollowsState, StartIsPosted

(* A state that is heard is shown.                                         *)
LEMMA PictureState ==
    ASSUME Types, [Next]_vars, OnBatchStateChanged, BatchInv
    PROVE  BatchInv'
<1>0. EndFollowsState /\ StartIsPosted /\ (RunShown \/ ChangeIsPosted)
  BY DEF BatchInv, FinishInv, EndFollowsState, StartIsPosted
<1>1. /\ Hearing /\ Head(signals).kind = "batchState" /\ UNCHANGED <<ctl, commands>>
      /\ batch' = [running |-> Head(signals).running, paused |-> Head(signals).paused,
                   pageRunning |-> Head(signals).running, pagePaused |-> Head(signals).paused]
  BY DEF OnBatchStateChanged, Hears, Hearing
<1>2. /\ 1 \in 1..Len(signals) /\ Head(signals) = signals[1]
      /\ \A k \in 1..Len(signals') :
            /\ k \in Nat /\ k # 0 /\ k + 1 \in 1..Len(signals) /\ signals'[k] = signals[k + 1]
            /\ StateAt(k)' <=> StateAt(k + 1)
            /\ FinishAt(k)' <=> FinishAt(k + 1)
      /\ \A k \in 1..Len(signals) :
            k # 1 => /\ k \in Nat /\ k - 1 \in 1..Len(signals') /\ signals'[k - 1] = signals[k]
                     /\ StateAt(k - 1)' <=> StateAt(k)
                     /\ FinishAt(k - 1)' <=> FinishAt(k)
  BY <1>1, Places
<1>3. EndFollowsState'
  BY <1>0, <1>1, EndFollowsHeard
<1>4. ASSUME NEW k \in 1..Len(signals'), FinishAt(k)',
             \A j \in 1..Len(signals') : ~StateAt(j)'
      PROVE  ~batch'.pageRunning
  <2>1. k + 1 \in 1..Len(signals) /\ FinishAt(k + 1) /\ k \in Nat /\ k # 0 /\ (k + 1) - 1 = k
    BY <1>2, <1>4
  <2>2. signals[k] = BatchState(Stopped)
    BY <1>0, <2>1 DEF EndFollowsState
  <2>3. k \in 1..Len(signals) /\ StateAt(k)
    <3>1. Len(signals) \in Nat
      BY DEF Types, QueueType
    <3> QED
      BY <2>1, <2>2, <3>1 DEF StateAt, BatchState
  <2>4. k = 1
    BY <1>2, <1>4, <2>3
  <2>5. Head(signals).running = FALSE
    BY <1>2, <2>2, <2>4 DEF BatchState, Stopped
  <2> QED
    BY <1>1, <2>5
<1>5. StartIsPosted'
  BY <1>4 DEF StartIsPosted
<1>6. ChangeIsPosted => ChangeIsPosted'
  BY <1>1 DEF ChangeIsPosted, Changes
<1>7. ASSUME RunShown PROVE RunShown'
  <2>1. ASSUME NEW k \in 1..Len(signals'), StateAt(k)',
               \A j \in 1..Len(signals') : j > k => ~StateAt(j)'
        PROVE  signals'[k] = BatchState(ctl')
    <3>1. k + 1 \in 1..Len(signals) /\ StateAt(k + 1) /\ k \in Nat
      BY <1>2, <2>1
    <3>2. ASSUME NEW j \in 1..Len(signals), j > k + 1 PROVE ~StateAt(j)
      <4>1. j # 1 /\ j - 1 > k
        BY <1>2, <3>1, <3>2
      <4> QED
        BY <1>2, <2>1, <4>1
    <3>3. signals[k + 1] = BatchState(ctl)
      BY <1>7, <3>1, <3>2 DEF RunShown
    <3> QED
      BY <1>1, <1>2, <3>3
  <2>2. ASSUME \A k \in 1..Len(signals') : ~StateAt(k)'
        PROVE  /\ batch'.pagePaused = ctl'.paused
               /\ batch'.running = ctl'.running /\ batch'.paused = ctl'.paused
               /\ batch'.pageRunning = ctl'.running
    <3>1. StateAt(1) /\ \A j \in 1..Len(signals) : j > 1 => ~StateAt(j)
      <4>1. StateAt(1)
        BY <1>1, <1>2 DEF StateAt
      <4>2. \A j \in 1..Len(signals) : j # 1 => ~StateAt(j)
        BY <1>2, <2>2
      <4>3. \A j \in 1..Len(signals) : j > 1 => j # 1
        OBVIOUS
      <4> QED
        BY <4>1, <4>2, <4>3
    <3>2. signals[1] = BatchState(ctl)
      BY <1>2, <1>7, <3>1 DEF RunShown
    <3>3. Head(signals).running = ctl.running /\ Head(signals).paused = ctl.paused
      BY <1>2, <3>2 DEF BatchState
    <3> QED
      BY <1>1, <3>3
  <2> QED
    BY <2>1, <2>2 DEF RunShown
<1> QED
  BY <1>0, <1>3, <1>5, <1>6, <1>7 DEF BatchInv, FinishInv, EndFollowsState, StartIsPosted

(* The end of a run that is heard is the end of the run.                   *)
LEMMA PictureFinish ==
    ASSUME Types, [Next]_vars, OnBatchFinished, BatchInv
    PROVE  BatchInv'
<1>0. /\ EndFollowsState /\ StartIsPosted /\ (RunShown \/ ChangeIsPosted)
      /\ batch \in [running : BOOLEAN, paused : BOOLEAN, pageRunning : BOOLEAN, pagePaused : BOOLEAN]
  BY DEF BatchInv, FinishInv, EndFollowsState, StartIsPosted, Types, WorkType
<1>1. /\ Hearing /\ Head(signals).kind = "batchFinished" /\ UNCHANGED <<ctl, commands>>
      /\ batch'.running = FALSE /\ batch'.paused = FALSE /\ batch'.pageRunning = FALSE
      /\ batch'.pagePaused = batch.pagePaused
  BY <1>0 DEF OnBatchFinished, Hears, Hearing
<1>2. /\ 1 \in 1..Len(signals) /\ Head(signals) = signals[1]
      /\ \A k \in 1..Len(signals') :
            /\ k \in Nat /\ k + 1 \in 1..Len(signals) /\ signals'[k] = signals[k + 1]
            /\ StateAt(k)' <=> StateAt(k + 1)
      /\ \A k \in 1..Len(signals) :
            k # 1 => /\ k \in Nat /\ k - 1 \in 1..Len(signals') /\ signals'[k - 1] = signals[k]
                     /\ StateAt(k - 1)' <=> StateAt(k)
  BY <1>1, Places
<1>3. EndFollowsState'
  BY <1>0, <1>1, EndFollowsHeard
<1>4. StartIsPosted'
  BY <1>1 DEF StartIsPosted
<1>5. ChangeIsPosted => ChangeIsPosted'
  BY <1>1 DEF ChangeIsPosted, Changes
<1>6. ASSUME RunShown PROVE RunShown'
  <2>1. ASSUME NEW k \in 1..Len(signals'), StateAt(k)',
               \A j \in 1..Len(signals') : j > k => ~StateAt(j)'
        PROVE  signals'[k] = BatchState(ctl')
    <3>1. k + 1 \in 1..Len(signals) /\ StateAt(k + 1) /\ k \in Nat
      BY <1>2, <2>1
    <3>2. ASSUME NEW j \in 1..Len(signals), j > k + 1 PROVE ~StateAt(j)
      <4>1. j # 1 /\ j - 1 > k
        BY <1>2, <3>1, <3>2
      <4> QED
        BY <1>2, <2>1, <4>1
    <3>3. signals[k + 1] = BatchState(ctl)
      BY <1>6, <3>1, <3>2 DEF RunShown
    <3> QED
      BY <1>1, <1>2, <3>3
  <2>2. ASSUME \A k \in 1..Len(signals') : ~StateAt(k)'
        PROVE  /\ batch'.pagePaused = ctl'.paused
               /\ batch'.running = ctl'.running /\ batch'.paused = ctl'.paused
               /\ batch'.pageRunning = ctl'.running
    <3>1. FinishAt(1) /\ ~StateAt(1)
      BY <1>1, <1>2 DEF StateAt, FinishAt
    <3>2. \A j \in 1..Len(signals) : ~StateAt(j)
      BY <1>2, <2>2, <3>1
    <3>3. ctl = Stopped
      BY <1>0, <1>2, <3>1, <3>2 DEF EndFollowsState
    <3>4. batch.pagePaused = ctl.paused
      BY <1>6, <3>2 DEF RunShown
    <3> QED
      BY <1>1, <3>3, <3>4 DEF Stopped
  <2> QED
    BY <2>1, <2>2 DEF RunShown
<1> QED
  BY <1>0, <1>3, <1>4, <1>5, <1>6 DEF BatchInv, FinishInv, EndFollowsState, StartIsPosted

(* A turn of the controller is reported, unless the run is as it was; and  *)
(* then no command was executed that was to change it.                     *)
LEMMA PictureController ==
    ASSUME Types, [Next]_vars, Controller, BatchInv
    PROVE  BatchPicture'
<1>0. /\ EndFollowsState /\ StartIsPosted /\ (RunShown \/ ChangeIsPosted)
      /\ signals \in Seq(Signal) /\ commands \in Seq(Command)
  BY DEF BatchInv, FinishInv, EndFollowsState, StartIsPosted, Types, QueueType
<1>1. PICK s : Emission(s) /\ Executed(s)
  BY ControllerFacts
<1>2. UNCHANGED <<batch, erred>>
  BY ControllerFacts DEF ControllerLeaves
<1>3. s \in Seq(Signal) /\ signals' = signals \o s
  BY <1>1 DEF Emission, Calm
<1>4. /\ Len(signals) \in Nat
      /\ \A k \in 1..Len(signals) : k \in 1..Len(signals') /\ signals'[k] = signals[k]
      /\ \A k \in 1..Len(s) : Len(signals) + k \in 1..Len(signals')
                              /\ signals'[Len(signals) + k] = s[k]
      /\ \A k \in 1..Len(signals') :
            \/ k \in 1..Len(signals)
            \/ /\ k - Len(signals) \in 1..Len(s) /\ signals'[k] = s[k - Len(signals)]
               /\ k > Len(signals)
  BY <1>0, <1>3, Joining
<1>5. CASE \E k \in 1..Len(s) : s[k].kind = "batchError"
  BY <1>4, <1>5 DEF BatchPicture, Erring
<1>6. CASE ReportsRun(s)
  <2>1. PICK m \in 1..Len(s) : /\ s[m] = BatchState(ctl')
                               /\ \A j \in 1..Len(s) : j > m => s[j].kind # "batchState"
    BY <1>6 DEF ReportsRun
  <2>2. PICK p : p = Len(signals) + m
    OBVIOUS
  <2>3. p \in 1..Len(signals') /\ signals'[p] = BatchState(ctl') /\ StateAt(p)'
    BY <1>4, <2>1, <2>2 DEF StateAt, BatchState
  <2>4. ASSUME NEW j \in 1..Len(signals'), j > p PROVE ~StateAt(j)'
    <3>1. j - Len(signals) \in 1..Len(s) /\ signals'[j] = s[j - Len(signals)] /\ j - Len(signals) > m
      BY <1>4, <2>2, <2>4
    <3> QED
      BY <2>1, <3>1 DEF StateAt
  <2>5. RunShown'
    <3>1. ASSUME NEW k \in 1..Len(signals'), StateAt(k)',
                 \A j \in 1..Len(signals') : j > k => ~StateAt(j)'
          PROVE  k = p
      <4>1. ~(p > k) /\ ~(k > p)
        BY <2>3, <2>4, <3>1
      <4> QED
        BY <1>4, <2>3, <4>1
    <3> QED
      BY <2>3, <3>1 DEF RunShown
  <2>6. ASSUME NEW k \in 1..Len(signals'), FinishAt(k)'
        PROVE  k = 1 \/ signals'[k - 1] = BatchState(Stopped)
    <3>1. CASE k \in 1..Len(signals)
      <4>1. FinishAt(k)
        BY <1>4, <2>6, <3>1 DEF FinishAt
      <4>2. k # 1 => k - 1 \in 1..Len(signals)
        BY <1>4, <3>1
      <4> QED
        BY <1>0, <1>4, <3>1, <4>1, <4>2 DEF EndFollowsState
    <3>2. CASE k \notin 1..Len(signals)
      <4>1. k - Len(signals) \in 1..Len(s) /\ s[k - Len(signals)].kind = "batchFinished"
        BY <1>4, <2>6, <3>2 DEF FinishAt
      <4>2. k - Len(signals) > 1 /\ s[(k - Len(signals)) - 1] = BatchState(Stopped)
        BY <1>6, <4>1 DEF ReportsRun
      <4>3. (k - Len(signals)) - 1 \in 1..Len(s) /\ Len(signals) + ((k - Len(signals)) - 1) = k - 1
        BY <1>4, <4>1, <4>2
      <4> QED
        BY <1>4, <4>2, <4>3
    <3> QED
      BY <3>1, <3>2
  <2>7. ASSUME NEW k \in 1..Len(signals'), FinishAt(k)',
               \A j \in 1..Len(signals') : j > k => ~StateAt(j)'
        PROVE  ctl' = Stopped
    <3>1. k \notin 1..Len(signals)
      <4>1. k \in 1..Len(signals) => p > k
        BY <1>4, <2>1, <2>2
      <4> QED
        BY <2>3, <2>7, <4>1
    <3>2. k - Len(signals) \in 1..Len(s) /\ s[k - Len(signals)].kind = "batchFinished"
      BY <1>4, <2>7, <3>1 DEF FinishAt
    <3> QED
      BY <1>6, <3>2 DEF ReportsRun
  <2>8. EndFollowsState'
    BY <2>6, <2>7 DEF EndFollowsState
  <2>9. StartIsPosted'
    BY <2>3 DEF StartIsPosted
  <2> QED
    BY <2>5, <2>8, <2>9 DEF BatchPicture, BatchInv, FinishInv, EndFollowsState, StartIsPosted
<1>7. CASE ctl' = ctl /\ Silent(s) /\ ~Reported(s)
  <2>1. SilentMove /\ UNCHANGED <<batch, ctl>>
    BY <1>2, <1>3, <1>7 DEF SilentMove
  <2>2. /\ EndFollowsState' /\ (RunShown => RunShown')
        /\ (\A k \in 1..Len(signals') : ~StateAt(k)') => \A k \in 1..Len(signals) : ~StateAt(k)
        /\ (\E k \in 1..Len(signals') : FinishAt(k)') => \E k \in 1..Len(signals) : FinishAt(k)
    BY <1>0, <2>1, SilentKeeps
  <2>3. \/ UNCHANGED commands
        \/ /\ commands # <<>> /\ commands' = Tail(commands) /\ ~Changes(Head(commands))
           /\ Head(commands) = "start" => ctl.running
    BY <1>1, <1>7 DEF Executed
  <2>4. ASSUME NEW k \in 1..Len(commands), (commands[k] = "start" /\ ~ctl.running) \/ Changes(commands[k])
        PROVE  \E j \in 1..Len(commands') : commands'[j] = commands[k]
    <3>1. CASE UNCHANGED commands
      BY <3>1
    <3>2. CASE /\ commands # <<>> /\ commands' = Tail(commands) /\ ~Changes(Head(commands))
               /\ Head(commands) = "start" => ctl.running
      <4>1. Head(commands) = commands[1]
            /\ (k # 1 => k - 1 \in 1..Len(commands') /\ commands'[k - 1] = commands[k])
        BY <1>0, <3>2, Taking
      <4>2. k # 1
        BY <2>4, <3>2, <4>1
      <4> QED
        BY <4>1, <4>2
    <3> QED
      BY <2>3, <3>1, <3>2
  <2>5. StartIsPosted'
    <3> SUFFICES ASSUME \E k \in 1..Len(signals) : FinishAt(k),
                        \A k \in 1..Len(signals) : ~StateAt(k),
                        batch.pageRunning
                 PROVE  \E k \in 1..Len(commands') : commands'[k] = "start"
      BY <2>1, <2>2 DEF StartIsPosted
    <3>1. ctl = Stopped
      BY <1>0 DEF EndFollowsState
    <3>2. ~ctl.running
      BY <3>1 DEF Stopped
    <3> QED
      BY <1>0, <2>4, <3>2 DEF StartIsPosted
  <2>6. ChangeIsPosted => ChangeIsPosted'
    <3> SUFFICES ASSUME NEW k \in 1..Len(commands), Changes(commands[k]) PROVE ChangeIsPosted'
      BY DEF ChangeIsPosted
    <3>1. PICK j \in 1..Len(commands') : commands'[j] = commands[k]
      BY <2>4
    <3> QED
      BY <2>1, <3>1 DEF ChangeIsPosted, Changes
  <2> QED
    BY <1>0, <2>2, <2>5, <2>6
       DEF BatchPicture, BatchInv, FinishInv, EndFollowsState, StartIsPosted
<1> QED
  BY <1>1, <1>5, <1>6, <1>7 DEF Emission, Reported

(* Once everything is heard the window shows the run, or a command that    *)
(* changes the run is still posted; unless an error was reported.          *)
LEMMA BatchPictureNext == IInv /\ [Next]_vars => BatchPicture'
<1> SUFFICES ASSUME IInv, [Next]_vars PROVE BatchPicture'
  OBVIOUS
<1>0. Types /\ BatchPicture
  BY DEF IInv
<1>1. CASE Erring
  BY <1>0, <1>1, ErringStays DEF BatchPicture
<1>2. CASE BatchInv
  <2>1. CASE OnBatchError
    BY <2>1 DEF OnBatchError, BatchPicture, Erring
  <2> QED
    BY <1>0, <1>2, <2>1, BatchSteps, PictureApart, PicturePressed, PictureState, PictureFinish,
       PictureController DEF BatchPicture
<1> QED
  BY <1>0, <1>1, <1>2 DEF BatchPicture

-----------------------------------------------------------------------------
(* The theorems.                                                           *)

(* What is known at the start.                                             *)
LEMMA IInvInit == Init => IInv
<1> SUFFICES ASSUME Init PROVE IInv
  OBVIOUS
<1>1. Types
  BY TypesInit
<1> USE DEF Init, ShellInit
<1>2. signals = <<>> /\ commands = <<>> /\ Len(<<>>) = 0 /\ 1..0 = {}
  OBVIOUS
<1>3. DownloadInv
  BY DEF DownloadInv
<1>4. JobInv
  BY <1>2 DEF JobInv, NoJob
<1>5. OrderInv
  BY <1>2 DEF OrderInv, NoJob
<1>6. BusyInv
  BY <1>2 DEF BusyInv, BusyAfter
<1>7. HostInv
  BY <1>2 DEF HostInv, Shown
<1>8. FlowInv
  BY DEF FlowInv
<1>9. BatchPicture
  <2>1. FinishInv
    BY <1>2 DEF FinishInv
  <2>2. RunShown
    BY <1>2 DEF RunShown
  <2> QED
    BY <2>1, <2>2 DEF BatchPicture, BatchInv
<1> QED
  BY <1>1, <1>3, <1>4, <1>5, <1>6, <1>7, <1>8, <1>9 DEF IInv

(* Every step keeps what is known.                                         *)
LEMMA IInvNext == IInv /\ [Next]_vars => IInv'
<1> SUFFICES ASSUME IInv, [Next]_vars PROVE IInv'
  OBVIOUS
<1>1. Types'
  BY TypesNext DEF IInv
<1>2. DownloadInv' /\ JobInv' /\ OrderInv' /\ BusyInv' /\ HostInv' /\ FlowInv' /\ BatchPicture'
  BY DownloadInvNext, JobInvNext, OrderInvNext, BusyInvNext, HostInvNext, FlowInvNext, BatchPictureNext
<1> QED
  BY <1>1, <1>2 DEF IInv

(* The inductive invariant of the main window: what it will know of the    *)
(* model, of its downloads, of its job and of the batch run.               *)
THEOREM InductiveInvariant == Spec => []IInv
<1> QED
  BY IInvInit, IInvNext, PTL DEF Spec

(* Once everything has been heard the window shows the model the host      *)
(* holds, nothing of the flow waits, and the window and the Batch page     *)
(* show the run of the controller (the slots of MainWindow, ModelFlow and  *)
(* BatchPage).                                                             *)
THEOREM SpecWindowAgreesWithHost == Spec => []WindowAgreesWithHost
<1>1. IInv => WindowAgreesWithHost
  <2> SUFFICES ASSUME IInv PROVE WindowAgreesWithHost
    OBVIOUS
  <2>1. TypeOK
    BY DEF IInv, Types, ModelType, WorkType, TypeOK
  <2>2. ASSUME Quiet
        PROVE  /\ modelLoaded <=> host # NoModel
               /\ modelLoaded => loadedId = host
               /\ ~busy /\ ~AnyOperation
    <3>1. /\ Len(signals) = 0 /\ Len(commands) = 0 /\ 1..0 = {} /\ spc = "idle"
          /\ \A i \in Download : phase[i] \in {"unknown", "finished"}
      BY <2>2 DEF Quiet
    <3>2. Shown
      BY <3>1 DEF IInv, HostInv
    <3>3. loading = NoModel /\ ~unloading
      BY <3>1 DEF IInv, FlowInv
    <3>4. bound = NoId
      <4>1. bound \in Download \cup {NoId}
        BY DEF IInv, Types, ModelType
      <4>2. bound # NoId => phase[bound] \in {"reserved", "started"}
        BY <3>1 DEF IInv, FlowInv
      <4> QED
        BY <3>1, <4>1, <4>2
    <3>5. boundModel = NoModel
      BY <3>4 DEF IInv, Types, ModelType
    <3> QED
      BY <3>2, <3>3, <3>5 DEF Shown, AnyOperation
  <2>3. ASSUME Quiet, ~erred
        PROVE  /\ batch.running = ctl.running /\ batch.pageRunning = ctl.running
               /\ batch.paused = ctl.paused /\ batch.pagePaused = ctl.paused
    <3>1. Len(signals) = 0 /\ Len(commands) = 0 /\ 1..0 = {}
      BY <2>3 DEF Quiet
    <3>2. ~Erring /\ ~ChangeIsPosted
      BY <2>3, <3>1 DEF Erring, ChangeIsPosted
    <3>3. RunShown
      BY <3>2 DEF IInv, BatchPicture, BatchInv
    <3> QED
      BY <3>1, <3>3 DEF RunShown
  <2> QED
    BY <2>1, <2>2, <2>3 DEF WindowAgreesWithHost
<1> QED
  BY <1>1, InductiveInvariant, PTL

(* The Translate page translates as long as its job, or the end of it, is  *)
(* on the way, and a failure can be retried (onTranslateRequested(),       *)
(* onTranslationFinished() and TranslatePage).                             *)
THEOREM SpecPageFollowsItsJob == Spec => []PageFollowsItsJob
<1>1. IInv => PageFollowsItsJob
  <2> SUFFICES ASSUME IInv PROVE PageFollowsItsJob
    OBVIOUS
  <2>1. DOMAIN signals = 1..Len(signals)
    BY DEF IInv, Types, QueueType
  <2> QED
    BY <2>1 DEF IInv, JobInv, Mine, PageFollowsItsJob
<1> QED
  BY <1>1, InductiveInvariant, PTL

(* No unload the window has ordered finds its translation in the host      *)
(* (setInferenceActive() and the order of the posted calls).               *)
THEOREM SpecUnloadSparesTranslation == Spec => []UnloadSparesTranslation
<1>1. IInv => UnloadSparesTranslation
  BY DEF IInv, OrderInv, UnloadSparesTranslation
<1> QED
  BY <1>1, InductiveInvariant, PTL

(* A download the user has cancelled starts no load when it ends           *)
(* (cancelFromPage(), cancelFromDialog() and onDownloadFinished()).        *)
THEOREM SpecCancelledNeverLoads == Spec => CancelledNeverLoads
<1>1. IInv /\ [Next]_vars => [(bound \in withdrawn /\ bound' = NoId) => commands' = commands]_vars
  BY CancelledStep
<1> QED
  BY <1>1, InductiveInvariant, PTL DEF Spec, CancelledNeverLoads
=============================================================================
