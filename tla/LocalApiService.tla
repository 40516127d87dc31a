--------------------------- MODULE LocalApiService ---------------------------
(***************************************************************************)
(* The local API service (translate/local_api_service.cpp): TCP            *)
(* connections, their tables and timers, and the cap on outstanding chats. *)
(*                                                                         *)
(* Everything runs on the user-interface thread, one handler at a time.    *)
(* What happens between two handlers is up to the peers, the timers and    *)
(* the inference service, which answers every chat once (InferenceService, *)
(* EveryClientAnswered) through an event posted to this thread.            *)
(*                                                                         *)
(* The tables are keyed by the address of a QTcpSocket.  An address is     *)
(* used again once its object is deleted, so a connection and the address  *)
(* of its socket are two things here.                                      *)
(***************************************************************************)
EXTENDS Naturals, Sequences, FiniteSets

CONSTANTS
    Socket,          \* addresses of QTcpSocket objects
    Connection,      \* the connections peers open, numbered in their order
    Nothing,         \* no connection, no socket
    MaxClients,      \* kMaxClients
    MaxOutstanding,  \* kMaxOutstandingRequests
    MaxReads         \* bound: reads of an unfinished request up to kMaxTotalBytes

ASSUME ConnectionAssumption == Connection \subseteq Nat \ {0} /\ Nothing \notin Connection \cup Socket
ASSUME CapAssumption == MaxClients \in Nat /\ MaxOutstanding \in Nat /\ MaxReads \in Nat

VARIABLES
    listening,   \* server_ is set and listens
    api,         \* the service's tables and what it does to its sockets, see Tables
    at,          \* the connection whose socket object is at an address
    pointer,     \* the address the callback of a connection's chat captured
    chat,        \* how far the chat of a connection is with the inference service
    left         \* history: the connections their peer or stop() closed

vars == <<listening, api, at, pointer, chat, left>>

\* A response: the output of a connection's chat, or one without any (an error,
\* the list of models).
NoOutput == 0
Response == Connection \cup {NoOutput}

\* pending_requests_: no entry, the value 0 of an answered connection, or the
\* request id of a chat, for which the connection that sent it stands.
Answered == 0
Pending == Connection \cup {Answered, Nothing}

Tables == [clients     : SUBSET Socket,             \* clients_
           buffer      : [Socket -> 0 .. MaxReads + 1], \* read_buffers_, in reads
           pending     : [Socket -> Pending],
           timers      : SUBSET Socket,             \* request_timers_
           outstanding : Nat,                       \* outstanding_requests_
           \* Closing: disconnectFromHost() waits for the peer and the 10 second
           \* timer runs.  Closed: disconnected, its deletion is posted.
           sock        : [Socket -> {"free", "open", "closing", "closed"}],
           cancelled   : SUBSET Connection,         \* ApiChatBridge::cancel() was called
           sent        : [Connection -> Seq(Response)]]

TypeOK ==
    /\ listening \in BOOLEAN
    /\ at \in [Socket -> Connection \cup {Nothing}]
    /\ api \in Tables
    /\ pointer \in [Connection -> Socket \cup {Nothing}]
    /\ chat \in [Connection -> {"none", "live", "posted", "done"}]
    /\ left \subseteq Connection

Init ==
    /\ listening = FALSE
    /\ api = [clients     |-> {},
              buffer      |-> [s \in Socket |-> 0],
              pending     |-> [s \in Socket |-> Nothing],
              timers      |-> {},
              outstanding |-> 0,
              sock        |-> [s \in Socket |-> "free"],
              cancelled   |-> {},
              sent        |-> [c \in Connection |-> <<>>]]
    /\ at = [s \in Socket |-> Nothing]
    /\ pointer = [c \in Connection |-> Nothing]
    /\ chat = [c \in Connection |-> "none"]
    /\ left = {}

-----------------------------------------------------------------------------
Lowered(n) == IF n > 0 THEN n - 1 ELSE 0

\* Mistake: the chat of a connection that goes away is not cancelled.
Mut_DiscardedRunsOn(t, s) ==
    LET waits == t.pending[s] \in Connection IN
    [t EXCEPT !.clients = @ \ {s},
              !.outstanding = IF waits THEN Lowered(@) ELSE @,
              !.pending[s] = Nothing,
              !.buffer[s] = 0,
              !.timers = @ \ {s},
              !.sock[s] = "closed"]

\* The tables after discardSocket().
Discarded(t, s) ==
    LET waits == t.pending[s] \in Connection IN
    [t EXCEPT !.clients = @ \ {s},
              !.cancelled = IF waits THEN @ \cup {t.pending[s]} ELSE @,
              !.outstanding = IF waits THEN Lowered(@) ELSE @,
              !.pending[s] = Nothing,
              !.buffer[s] = 0,
              !.timers = @ \ {s},
              !.sock[s] = "closed"]

\* The tables after handleDisconnected().
Disconnected(t, s) == IF s \in t.clients THEN Discarded(t, s) ELSE t

\* The tables after replyJson(), which writes the response and begins the close.
\* disconnectFromHost() may emit disconnected() before it returns.
Replied(t, s, c, response) ==
    LET closing == [t EXCEPT !.timers = @ \ {s},
                             !.pending[s] = Answered,
                             !.sent[c] = Append(@, response),
                             !.sock[s] = "closing"]
    IN  {closing, Disconnected(closing, s)}

\* The tables after abort(), which emits disconnected() before it returns.
Aborted(t, s) == Disconnected([t EXCEPT !.sock[s] = "closed"], s)

-----------------------------------------------------------------------------
(* The service is turned on and off in the settings.                       *)

\* The port may be taken.
Start ==
    /\ ~listening
    /\ listening' \in BOOLEAN
    /\ UNCHANGED <<api, at, pointer, chat, left>>

\* stop(): every tracked connection is aborted, its chat cancelled, and whatever
\* the tables still hold is cleared.  A new port stops the service first.
Stop ==
    LET waiting == {api.pending[s] : s \in api.clients} \cap Connection IN
    /\ listening
    /\ listening' \in BOOLEAN
    /\ api' = [api EXCEPT
                 !.clients = {}, !.timers = {}, !.outstanding = 0,
                 !.buffer = [s \in Socket |-> 0],
                 !.pending = [s \in Socket |-> Nothing],
                 !.cancelled = @ \cup waiting,
                 !.sock = [s \in Socket |-> IF s \in api.clients THEN "closed" ELSE @[s]]]
    /\ left' = left \cup {at[s] : s \in api.clients}
    /\ UNCHANGED <<at, pointer, chat>>

-----------------------------------------------------------------------------
(* Connections.                                                            *)

\* Mistake: the read deadline is started by the first bytes only.
Mut_HandleNewConnection(s, c) ==
    /\ listening /\ api.sock[s] = "free"
    /\ pointer[c] = Nothing /\ \A d \in Connection : d < c => pointer[d] # Nothing
    /\ pointer' = [pointer EXCEPT ![c] = s]
    /\ at' = [at EXCEPT ![s] = c]
    /\ LET t == [api EXCEPT !.clients = @ \cup {s}, !.sock[s] = "open"] IN
       IF Cardinality(t.clients) > MaxClients
         THEN api' \in Replied(t, s, c, NoOutput)
         ELSE api' = t
    /\ UNCHANGED <<listening, chat, left>>

\* handleNewConnection(), for one connection the server has accepted.
HandleNewConnection(s, c) ==
    /\ listening /\ api.sock[s] = "free"
    /\ pointer[c] = Nothing /\ \A d \in Connection : d < c => pointer[d] # Nothing
    /\ pointer' = [pointer EXCEPT ![c] = s]
    /\ at' = [at EXCEPT ![s] = c]
    /\ LET t == [api EXCEPT !.clients = @ \cup {s}, !.sock[s] = "open"] IN
       IF Cardinality(t.clients) > MaxClients
         THEN api' \in Replied(t, s, c, NoOutput)
         ELSE api' = [t EXCEPT !.timers = @ \cup {s}]
    /\ UNCHANGED <<listening, chat, left>>

\* What parse_request() makes of the bytes read so far: too large a request is
\* refused before it is parsed, an unfinished one is waited for.
Parsed(size) == IF size > MaxReads THEN {"error"} ELSE {"incomplete", "error", "request"}

\* The tables once the bytes are read, for a connection that is still to be served.
Read(s) == [api EXCEPT !.buffer[s] = @ + 1]

Reads(s) == api.sock[s] = "open" /\ api.pending[s] = Nothing

ReadIncomplete(s) ==
    /\ Reads(s)
    /\ "incomplete" \in Parsed(Read(s).buffer[s])
    /\ api' = Read(s)
    /\ UNCHANGED <<listening, at, pointer, chat, left>>

\* A parse error, an unknown route, a chat request handleChatCompletions() finds
\* invalid or for another model than the one that is ready: an error.
ReadRefused(s) ==
    /\ Reads(s)
    /\ api' \in Replied(Read(s), s, at[s], NoOutput)
    /\ UNCHANGED <<listening, at, pointer, chat, left>>

HandleListModels(s) ==
    /\ Reads(s)
    /\ "request" \in Parsed(Read(s).buffer[s])
    /\ api' \in Replied(Read(s), s, at[s], NoOutput)
    /\ UNCHANGED <<listening, at, pointer, chat, left>>

\* handleChatCompletions() for a valid request: the cap, or the submission.
HandleChatCompletions(s) ==
    /\ Reads(s)
    /\ "request" \in Parsed(Read(s).buffer[s])
    /\ IF api.outstanding >= MaxOutstanding
         THEN /\ api' \in Replied(Read(s), s, at[s], NoOutput)
              /\ UNCHANGED chat
         ELSE /\ api' = [Read(s) EXCEPT !.outstanding = @ + 1,
                                        !.pending[s] = at[s],
                                        !.timers = @ \ {s}]
              /\ chat' = [chat EXCEPT ![at[s]] = "live"]
    /\ UNCHANGED <<listening, at, pointer, left>>

\* The timer of an unfinished request; stopRequestTimer() takes it off the others.
HandleRequestTimeout(s) ==
    /\ s \in api.timers
    /\ IF s \in api.clients /\ api.pending[s] # Answered
         THEN api' \in Replied(api, s, at[s], NoOutput)
         ELSE api' = [api EXCEPT !.timers = @ \ {s}]
    /\ UNCHANGED <<listening, at, pointer, chat, left>>

\* The peer closes its end, or the connection breaks.
PeerCloses(s) ==
    /\ api.sock[s] \in {"open", "closing"}
    /\ api' = Aborted(api, s)
    /\ left' = left \cup {at[s]}
    /\ UNCHANGED <<listening, at, pointer, chat>>

\* Ten seconds after a response the peer has still not closed its end.
AbortTimer(s) ==
    /\ api.sock[s] = "closing"
    /\ api' = Aborted(api, s)
    /\ UNCHANGED <<listening, at, pointer, chat, left>>

\* The posted deletion: the address is free, every QPointer to it is null.
DeleteLater(s) ==
    /\ api.sock[s] = "closed"
    /\ api' = [api EXCEPT !.sock[s] = "free"]
    /\ at' = [at EXCEPT ![s] = Nothing]
    /\ UNCHANGED <<listening, pointer, chat, left>>

-----------------------------------------------------------------------------
(* Chats.                                                                  *)

\* The inference service calls the callback, on its own thread.
ChatEnds(c) ==
    /\ chat[c] = "live"
    /\ chat' = [chat EXCEPT ![c] = "posted"]
    /\ UNCHANGED <<listening, api, at, pointer, left>>

\* Mistake: the callback keeps the address of its socket instead of a QPointer.
Mut_OnApiChatFinished(c) ==
    LET s == pointer[c] IN
    /\ chat[c] = "posted"
    /\ chat' = [chat EXCEPT ![c] = "done"]
    /\ IF s \in api.clients /\ api.pending[s] # Nothing
         THEN \E response \in {NoOutput, c} :
                api' \in Replied([api EXCEPT !.outstanding = Lowered(@)], s, at[s], response)
         ELSE UNCHANGED api
    /\ UNCHANGED <<listening, at, pointer, left>>

\* onApiChatFinished(), unless the socket object is gone.  replyJson() puts the
\* entry it erases back as answered.
OnApiChatFinished(c) ==
    LET s == pointer[c] IN
    /\ chat[c] = "posted"
    /\ chat' = [chat EXCEPT ![c] = "done"]
    /\ IF at[s] = c /\ s \in api.clients /\ api.pending[s] # Nothing
         THEN \E response \in {NoOutput, c} :
                api' \in Replied([api EXCEPT !.outstanding = Lowered(@)], s, c, response)
         ELSE UNCHANGED api
    /\ UNCHANGED <<listening, at, pointer, left>>

-----------------------------------------------------------------------------
Deadline(s) == HandleRequestTimeout(s) \/ AbortTimer(s) \/ DeleteLater(s)

Next ==
    \/ Start \/ Stop
    \/ \E s \in Socket :
          \/ \E c \in Connection : HandleNewConnection(s, c)
          \/ ReadIncomplete(s) \/ ReadRefused(s)
          \/ HandleListModels(s) \/ HandleChatCompletions(s)
          \/ PeerCloses(s) \/ Deadline(s)
    \/ \E c \in Connection : ChatEnds(c) \/ OnApiChatFinished(c)

Spec == Init /\ [][Next]_vars

\* Timers fire, posted events are handled and the inference service answers every
\* chat (its model deadline included).  Peers need not send, read or close.
Fairness ==
    /\ \A s \in Socket : WF_vars(Deadline(s))
    /\ \A c \in Connection : WF_vars(ChatEnds(c)) /\ WF_vars(OnApiChatFinished(c))

FairSpec == Spec /\ Fairness

-----------------------------------------------------------------------------
(* The cap is on what it says it is on: outstanding_requests_ counts the   *)
(* connections with a chat, across answers, departures and stop(); a chat  *)
(* the service has not cancelled belongs to a connection that still waits  *)
(* for it, so no model work runs on for a client that went away; and no    *)
(* table keeps an entry under the address of a socket that is gone, for    *)
(* the next connection at that address to trip over (replyJson()).         *)
OutstandingMatches ==
    /\ TypeOK
    /\ api.outstanding = Cardinality({s \in Socket : api.pending[s] \in Connection})
    /\ api.outstanding <= MaxOutstanding
    /\ \A c \in Connection :
          chat[c] \in {"live", "posted"} /\ c \notin api.cancelled =>
             LET s == pointer[c] IN s \in api.clients /\ at[s] = c /\ api.pending[s] = c
    /\ \A s \in Socket \ api.clients :
          api.pending[s] = Nothing /\ api.buffer[s] = 0 /\ s \notin api.timers

(* A connection is sent at most one response, the output of no chat but    *)
(* its own, and is never closed on a peer that stays without one.          *)
OneResponseEach ==
    /\ \A c \in Connection :
          Len(api.sent[c]) <= 1 /\ \A k \in 1 .. Len(api.sent[c]) : api.sent[c][k] \in {NoOutput, c}
    /\ \A s \in Socket :
          api.sock[s] = "closed" /\ at[s] \notin left => api.sent[at[s]] # <<>>

(* Every connection is released, also one whose peer never sends a byte,   *)
(* never finishes its request, or never closes its end.                    *)
EveryConnectionReleased ==
    \A c \in Connection : (\E s \in Socket : at[s] = c) ~> (\A s \in Socket : at[s] # c)

-----------------------------------------------------------------------------
(* What the inductive invariant is made of: where an address is between    *)
(* two uses, with the history of the connection at it.                     *)

Ongoing(c) == chat[c] \in {"live", "posted"}

Untracked(s) ==
    /\ s \notin api.clients /\ s \notin api.timers
    /\ api.pending[s] = Nothing /\ api.buffer[s] = 0

Unused(s) == api.sock[s] = "free" /\ at[s] = Nothing /\ Untracked(s)

Reading(s) ==
    /\ api.sock[s] = "open" /\ s \in api.clients
    /\ api.pending[s] = Nothing /\ api.buffer[s] <= MaxReads
    /\ chat[at[s]] = "none" /\ api.sent[at[s]] = <<>>

Waiting(s) ==
    /\ api.sock[s] = "open" /\ s \in api.clients /\ s \notin api.timers
    /\ api.pending[s] = at[s]
    /\ Ongoing(at[s]) /\ api.sent[at[s]] = <<>>

Replying(s) ==
    /\ api.sock[s] = "closing" /\ s \in api.clients /\ s \notin api.timers
    /\ api.pending[s] = Answered
    /\ ~Ongoing(at[s]) /\ api.sent[at[s]] # <<>>

Leaving(s) ==
    /\ api.sock[s] = "closed" /\ Untracked(s)
    /\ Ongoing(at[s]) => at[s] \in api.cancelled
    /\ at[s] \notin left => api.sent[at[s]] # <<>>

SocketInv(s) ==
    \/ Unused(s)
    \/ /\ at[s] \in Connection /\ pointer[at[s]] = s
       /\ Reading(s) \/ Waiting(s) \/ Replying(s) \/ Leaving(s)

ConnectionInv(c) ==
    /\ pointer[c] = Nothing => chat[c] = "none" /\ api.sent[c] = <<>>
    /\ Ongoing(c) /\ c \notin api.cancelled =>
          pointer[c] \in Socket /\ at[pointer[c]] = c /\ api.pending[pointer[c]] = c
    /\ Len(api.sent[c]) <= 1
    /\ \A k \in 1 .. Len(api.sent[c]) : api.sent[c][k] \in {NoOutput, c}

\* clients_ is finite, and its chats are counted and within the cap.
Chats == {s \in Socket : api.pending[s] \in Connection}

CountInv == /\ IsFiniteSet(api.clients)
            /\ api.outstanding = Cardinality(Chats) /\ api.outstanding <= MaxOutstanding

TableInv == /\ \A s \in Socket : SocketInv(s)
            /\ \A c \in Connection : ConnectionInv(c)
            /\ CountInv
=============================================================================
