---------------------------- MODULE ModelShell ----------------------------
(***************************************************************************)
(* The life of the model as the main window drives it: MainWindow and      *)
(* ModelFlow on the user-interface thread, the load and unload handlers of *)
(* InferenceService on the service thread, and between them one queue of   *)
(* commands and one of signals.  Downloads are those of DownloadContract.  *)
(*                                                                         *)
(* The shell never asks the services for their state: it keeps a picture   *)
(* of it, built from the signals, and enables its buttons from that.       *)
(***************************************************************************)
EXTENDS Naturals, Sequences

CONSTANTS
    Model,       \* the models of the catalog
    NoModel,     \* the empty model id
    Selected,    \* the model the settings name at the start
    Download,    \* bound: the ids there are for downloads
    MaxClicks    \* bound: how many buttons the user presses

ASSUME NoModelAssumption == NoModel \notin Model /\ Selected \in Model
ASSUME DownloadAssumption == Download \subseteq Nat \ {0}
ASSUME MaxClicksAssumption == MaxClicks \in Nat

VARIABLES
    \* MainWindow
    configured,   \* settings_.model_id, and what both services were last told
    modelLoaded,  \* model_loaded_
    loadedId,     \* loaded_model_id_
    busy,         \* busy_
    banner,       \* what the banner offers
    dismissed,    \* dismissed_banner_model_id_ and ..._file_missing_
    modal,        \* the panel the modal overlay shows
    canTranslate, \* TranslatePage::model_loaded_
    \* ModelFlow
    awaiting,     \* awaiting_download_load_
    bound,        \* active_download_id_, valid while download_active_
    boundModel,   \* active_download_model_id_
    loading,      \* loading_model_id_
    unloading,    \* unloading_
    modalFlow,    \* model_flow_modal_active_
    \* the queues of the two threads
    commands,     \* posted to the service thread, by name
    signals,      \* posted to the user-interface thread
    \* the service thread
    spc,          \* the command it executes
    target,       \* the model it loads
    host,         \* the model the host holds
    \* the download service and the disk
    phase, outcome,
    wanted,       \* the model of the request each download snapshotted
    present,      \* the models whose file exists
    \* history
    clicks,
    withdrawn     \* downloads the user has cancelled

window   == <<configured, modelLoaded, loadedId, busy, banner, dismissed, modal, canTranslate>>
flow     == <<awaiting, bound, boundModel, loading, unloading, modalFlow>>
service  == <<spc, target, host>>
download == <<phase, outcome, wanted, present>>
history  == <<clicks, withdrawn>>

shell == <<window, flow, commands, signals, service, download, history>>

Downloads == INSTANCE DownloadContract

NoId == 0

-----------------------------------------------------------------------------


\* The signals the shell listens to.
StatusChanged(b)      == [kind |-> "status", flag |-> b]
SnapshotChanged(l, m) == [kind |-> "snapshot", lifecycle |-> l, model |-> m]
LoadFinished(ok)      == [kind |-> "loaded", flag |-> ok]
UnloadFinished(ok)    == [kind |-> "unloaded", flag |-> ok]
DownloadStarted(i)    == [kind |-> "started", id |-> i]
DownloadFinished(i, r) == [kind |-> "finished", id |-> i, outcome |-> r]

ShellInit ==
    /\ configured = Selected
    /\ modelLoaded = FALSE /\ loadedId = NoModel /\ busy = FALSE
    /\ banner = "hidden" /\ dismissed = NoModel /\ modal = "none"
    /\ canTranslate = FALSE
    /\ awaiting = FALSE /\ bound = NoId /\ boundModel = NoModel
    /\ loading = NoModel /\ unloading = FALSE /\ modalFlow = FALSE
    /\ commands = <<>> /\ signals = <<>>
    /\ spc = "idle" /\ target = NoModel /\ host = NoModel
    /\ Downloads!Init
    /\ wanted = [i \in Download |-> NoModel]
    /\ present \in SUBSET Model
    /\ clicks = 0 /\ withdrawn = {}

-----------------------------------------------------------------------------
(* Helpers of the user-interface thread.                                   *)

\* refreshModelAvailability(), the last thing most handlers do: it reads the
\* window as the handler has left it.
RefreshModelAvailability ==
    banner' = IF \/ busy' \/ bound' # NoId
                 \/ modelLoaded' /\ loadedId' = configured'
                 \/ dismissed' = <<configured', configured' \notin present'>>
                THEN "hidden"
                ELSE IF configured' \in present' THEN "load" ELSE "download"

\* The gate of the model page.
AnyOperation == loading # NoModel \/ unloading \/ boundModel # NoModel

RowLoaded(m) == modelLoaded /\ loadedId = m

\* A press of a button outside the modal overlay.
Click ==
    /\ modal = "none"
    /\ 0 < clicks /\ clicks <= MaxClicks
    /\ clicks' = clicks + 1

\* ModelFlow::beginLoad()
BeginLoad(m) ==
    /\ loading' = m
    /\ commands' = Append(commands, "load")

\* startDownload() and bindActiveDownload()
ReserveAndBind(i, m) ==
    /\ \A j \in Download : j < i => phase[j] # "unknown"
    /\ Downloads!Reserve(i)
    /\ wanted' = [wanted EXCEPT ![i] = m]
    /\ awaiting' = TRUE
    /\ bound' = i /\ boundModel' = m
    /\ UNCHANGED present

-----------------------------------------------------------------------------
(* The user.                                                               *)

\* performStartupCheck(), when the window is first shown.
Startup ==
    /\ clicks = 0 /\ clicks' = 1
    /\ IF configured \in present
         THEN BeginLoad(configured)
         ELSE UNCHANGED <<loading, commands>>
    /\ UNCHANGED <<configured, modelLoaded, loadedId, busy, dismissed, modal, canTranslate,
                   awaiting, bound, boundModel, unloading, modalFlow,
                   signals, service, download, withdrawn>>
    /\ RefreshModelAvailability

\* The Load button of a row: the model is configured, then loaded.
RowLoad(m) ==
    /\ Click
    /\ ~AnyOperation /\ m \in present /\ ~RowLoaded(m)
    /\ configured' = m
    /\ dismissed' = NoModel
    /\ BeginLoad(m)
    /\ UNCHANGED <<modelLoaded, loadedId, busy, modal, canTranslate,
                   awaiting, bound, boundModel, unloading, modalFlow,
                   signals, service, download, withdrawn>>
    /\ RefreshModelAvailability

\* The Download button of a row.
RowDownload(m, i) ==
    /\ Click
    /\ ~AnyOperation /\ m \notin present /\ ~RowLoaded(m)
    /\ bound = NoId
    /\ configured' = m
    /\ dismissed' = NoModel
    /\ ReserveAndBind(i, m)
    /\ UNCHANGED <<modelLoaded, loadedId, busy, modal, canTranslate,
                   loading, unloading, modalFlow, commands, signals, service, withdrawn>>
    /\ RefreshModelAvailability

\* The Unload button of the loaded row.
RowUnload ==
    /\ Click
    /\ ~AnyOperation /\ modelLoaded
    /\ unloading' = TRUE
    /\ commands' = Append(commands, "unload")
    /\ UNCHANGED <<configured, modelLoaded, loadedId, busy, dismissed, modal, canTranslate,
                   awaiting, bound, boundModel, loading, modalFlow,
                   signals, service, download, withdrawn>>
    /\ RefreshModelAvailability

\* The Delete button of a row, confirmed.
RowDelete(m) ==
    /\ Click
    /\ ~AnyOperation /\ m \in present /\ ~RowLoaded(m)
    /\ present' = present \ {m}
    /\ UNCHANGED <<configured, modelLoaded, loadedId, busy, dismissed, modal, canTranslate,
                   flow, commands, signals, service, phase, outcome, wanted, withdrawn>>
    /\ RefreshModelAvailability

\* Mistake: the load that was to follow is not called off.
Mut_Withdraw ==
    /\ modalFlow' = FALSE /\ modal' = "none"
    /\ withdrawn' = withdrawn \cup ({bound} \ {NoId})
    /\ UNCHANGED <<configured, modelLoaded, loadedId, busy, banner, dismissed, canTranslate,
                   awaiting, bound, boundModel, loading, unloading,
                   commands, signals, service, download>>

\* cancelFromPage() and cancelFromDialog(): the download may still complete.
Withdraw ==
    /\ awaiting' = FALSE
    /\ modalFlow' = FALSE /\ modal' = "none"
    /\ withdrawn' = withdrawn \cup ({bound} \ {NoId})
    /\ UNCHANGED <<configured, modelLoaded, loadedId, busy, banner, dismissed, canTranslate,
                   bound, boundModel, loading, unloading,
                   commands, signals, service, download>>

CancelFromPage ==
    /\ Click
    /\ bound # NoId /\ boundModel # loading
    /\ Withdraw

\* The cancel button of the download panel, which outlives the download.
CancelFromDialog ==
    /\ modal = "download"
    /\ Withdraw
    /\ UNCHANGED clicks

DismissAlert ==
    /\ modal = "alert"
    /\ modal' = "none" /\ modalFlow' = FALSE
    /\ UNCHANGED <<configured, modelLoaded, loadedId, busy, banner, dismissed, canTranslate,
                   awaiting, bound, boundModel, loading, unloading,
                   commands, signals, service, download, history>>

\* The banner: its one button loads or downloads the configured model.
BannerLoad ==
    /\ Click
    /\ banner = "load"
    /\ BeginLoad(configured)
    /\ UNCHANGED <<configured, modelLoaded, loadedId, busy, dismissed, modal, canTranslate,
                   awaiting, bound, boundModel, unloading, modalFlow,
                   signals, service, download, withdrawn>>
    /\ RefreshModelAvailability

BannerDownload(i) ==
    /\ Click
    /\ banner = "download"
    /\ modalFlow' = TRUE /\ modal' = "download"
    /\ ReserveAndBind(i, configured)
    /\ UNCHANGED <<configured, modelLoaded, loadedId, busy, dismissed, canTranslate,
                   loading, unloading, commands, signals, service, withdrawn>>
    /\ RefreshModelAvailability

BannerDismiss ==
    /\ Click
    /\ banner # "hidden"
    /\ dismissed' = <<configured, configured \notin present>>
    /\ banner' = "hidden"
    /\ UNCHANGED <<configured, modelLoaded, loadedId, busy, modal, canTranslate,
                   flow, commands, signals, service, download, withdrawn>>

-----------------------------------------------------------------------------
(* Slots of the user-interface thread: the signals, in order.              *)

Hears(kind) == signals # <<>> /\ Head(signals).kind = kind /\ signals' = Tail(signals)

OnStatusChanged ==
    /\ Hears("status")
    /\ busy' = Head(signals).flag
    /\ canTranslate' = modelLoaded
    /\ UNCHANGED <<configured, modelLoaded, loadedId, banner, dismissed, modal,
                   flow, commands, service, download, history>>

\* Mistake: the loaded model id is not taken from the snapshot.
Mut_OnRuntimeSnapshot ==
    /\ Hears("snapshot")
    /\ LET s == Head(signals)
       IN  /\ modelLoaded' = (s.lifecycle = "Ready")
           /\ busy' = (s.lifecycle \in {"Loading", "Unloading"})
    /\ UNCHANGED <<configured, loadedId, banner, dismissed, modal, canTranslate,
                   flow, commands, service, download, history>>

OnRuntimeSnapshot ==
    /\ Hears("snapshot")
    /\ LET s == Head(signals)
       IN  /\ modelLoaded' = (s.lifecycle = "Ready")
           /\ loadedId' = CASE s.lifecycle = "Ready"    -> s.model
                            [] s.lifecycle = "Unloaded" -> NoModel
                            [] OTHER -> loadedId
           /\ busy' = (s.lifecycle \in {"Loading", "Unloading"})
    /\ UNCHANGED <<configured, banner, dismissed, modal, canTranslate,
                   flow, commands, service, download, history>>

\* ModelFlow's slot, which calls the window's.
OnModelLoadFinished ==
    /\ Hears("loaded")
    /\ LET ok == Head(signals).flag
       IN  /\ loading' = NoModel
           /\ modelLoaded' = ok /\ canTranslate' = ok
           /\ loadedId' = IF ok THEN configured ELSE NoModel
           /\ dismissed' = IF ok THEN dismissed ELSE NoModel
           /\ modal' = IF ~ok THEN "alert" ELSE IF modalFlow THEN "none" ELSE modal
           /\ modalFlow' = (modalFlow /\ ~ok)
    /\ UNCHANGED <<configured, busy, awaiting, bound, boundModel, unloading,
                   commands, service, download, history>>
    /\ RefreshModelAvailability

\* Mistake: a failed unload leaves the flow unloading.
Mut_OnModelUnloadFinished ==
    /\ Hears("unloaded")
    /\ LET ok == Head(signals).flag
       IN  /\ unloading' = ~ok
           /\ modelLoaded' = (modelLoaded /\ ~ok) /\ canTranslate' = (canTranslate /\ ~ok)
           /\ loadedId' = IF ok THEN NoModel ELSE loadedId
    /\ UNCHANGED <<configured, busy, dismissed, modal, awaiting, bound, boundModel, loading,
                   modalFlow, commands, service, download, history>>
    /\ RefreshModelAvailability

OnModelUnloadFinished ==
    /\ Hears("unloaded")
    /\ LET ok == Head(signals).flag
       IN  /\ unloading' = FALSE
           /\ modelLoaded' = (modelLoaded /\ ~ok) /\ canTranslate' = (canTranslate /\ ~ok)
           /\ loadedId' = IF ok THEN NoModel ELSE loadedId
    /\ UNCHANGED <<configured, busy, dismissed, modal, awaiting, bound, boundModel, loading,
                   modalFlow, commands, service, download, history>>
    /\ RefreshModelAvailability

OnDownloadStarted ==
    /\ Hears("started")
    /\ UNCHANGED <<configured, modelLoaded, loadedId, busy, dismissed, modal, canTranslate,
                   flow, commands, service, download, history>>
    /\ IF bound = Head(signals).id THEN RefreshModelAvailability ELSE UNCHANGED banner

\* A stale completion is ignored; a current one may begin the load.
OnDownloadFinished ==
    /\ Hears("finished")
    /\ UNCHANGED <<configured, modelLoaded, loadedId, busy, dismissed, modal, canTranslate,
                   unloading, modalFlow, service, download, history>>
    /\ IF bound # Head(signals).id
         THEN UNCHANGED <<awaiting, bound, boundModel, loading, commands, banner>>
         ELSE /\ bound' = NoId /\ boundModel' = NoModel
              /\ awaiting' = FALSE
              /\ IF Head(signals).outcome = "Completed" /\ awaiting
                   THEN BeginLoad(boundModel)
                   ELSE UNCHANGED <<loading, commands>>
              /\ RefreshModelAvailability

-----------------------------------------------------------------------------
(* The service thread: InferenceService::loadModel() and unloadModel().    *)

Emit(s) == signals' = signals \o s

\* The configuration is read when the command runs.
LoadModel ==
    /\ spc = "idle" /\ commands # <<>> /\ Head(commands) = "load"
    /\ commands' = Tail(commands)
    /\ spc' = "load" /\ target' = configured
    /\ Emit(<<StatusChanged(TRUE), SnapshotChanged("Loading", host)>>)
    /\ UNCHANGED <<window, flow, host, download, history>>

\* publishRuntimeSnapshot() after the command, with m in the host.
Settled(m) == SnapshotChanged(IF m = NoModel THEN "Unloaded" ELSE "Ready", m)

\* host_.load() refuses when a model is there, and may fail otherwise.
LoadModelReturns(ok) ==
    /\ spc = "load"
    /\ ok => host = NoModel /\ target \in present
    /\ host' = IF ok THEN target ELSE host
    /\ spc' = "idle" /\ target' = NoModel
    /\ Emit(<<StatusChanged(FALSE), LoadFinished(ok), Settled(host')>>)
    /\ UNCHANGED <<window, flow, commands, download, history>>

UnloadModel ==
    /\ spc = "idle" /\ commands # <<>> /\ Head(commands) = "unload"
    /\ commands' = Tail(commands)
    /\ spc' = "unload"
    /\ Emit(<<StatusChanged(TRUE), SnapshotChanged("Unloading", host)>>)
    /\ UNCHANGED <<window, flow, target, host, download, history>>

\* host_.unload() fails while a popup or an API translation runs.
UnloadModelReturns(ok) ==
    /\ spc = "unload"
    /\ ok => host # NoModel
    /\ host' = IF ok THEN NoModel ELSE host
    /\ spc' = "idle"
    /\ Emit(<<StatusChanged(FALSE), UnloadFinished(ok), Settled(host')>>)
    /\ UNCHANGED <<window, flow, commands, target, download, history>>

-----------------------------------------------------------------------------
(* The download service.                                                   *)

ServiceStarts(i) ==
    /\ Downloads!Start(i)
    /\ Emit(<<DownloadStarted(i)>>)
    /\ UNCHANGED <<window, flow, commands, service, wanted, present, history>>

ServiceFinishes(i, r) ==
    /\ Downloads!Finish(i, r)
    /\ r = "Cancelled" => i \in withdrawn
    /\ present' = IF r = "Completed" THEN present \cup {wanted[i]} ELSE present
    /\ Emit(<<DownloadFinished(i, r)>>)
    /\ UNCHANGED <<window, flow, commands, service, wanted, history>>

-----------------------------------------------------------------------------
\* The buttons of the rows that inference locks, and all the others.
LockedButtons == \/ RowUnload
                 \/ \E m \in Model : RowLoad(m) \/ \E i \in Download : RowDownload(m, i)

OtherButtons == \/ Startup \/ CancelFromPage \/ CancelFromDialog \/ DismissAlert
                \/ BannerLoad \/ BannerDismiss
                \/ \E m \in Model : RowDelete(m)
                \/ \E i \in Download : BannerDownload(i)

FlowSlots == \/ OnModelLoadFinished \/ OnModelUnloadFinished
             \/ OnDownloadStarted \/ OnDownloadFinished

DownloadSteps == \E i \in Download : \/ ServiceStarts(i)
                                     \/ \E r \in Downloads!Outcome : ServiceFinishes(i, r)

=============================================================================
