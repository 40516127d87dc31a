------------------------ MODULE LocalApiServiceProofs ------------------------
(***************************************************************************)
(* The local API service for any addresses and connections and any caps.   *)
(* A handler serves one address and the connection at it; in order: what   *)
(* the operations on the tables do, the frame (the other addresses and     *)
(* connections keep their state), the count of outstanding chats, one      *)
(* lemma per handler, the theorems.                                        *)
(***************************************************************************)
EXTENDS LocalApiService, FiniteSetTheorems, TLAPS

IInv == TypeOK /\ TableInv

-----------------------------------------------------------------------------
(* What the operations on the tables do.                                   *)

(* Lowering a counter keeps it a counter, and undoes an increment.         *)
LEMMA LoweredFacts ==
    \A n \in Nat : Lowered(n) \in Nat /\ (n > 0 => Lowered(n) = n - 1)
BY DEF Lowered

(* u is t after discardSocket(s): closed and untracked, and the chat, if    *)
(* the connection waits for one, cancelled and no longer counted.          *)
DiscardedTo(t, s, u) ==
    /\ u \in Tables
    /\ u.clients = t.clients \ {s} /\ u.timers = t.timers \ {s}
    /\ u.buffer = [t.buffer EXCEPT ![s] = 0]
    /\ u.pending = [t.pending EXCEPT ![s] = Nothing]
    /\ u.sock = [t.sock EXCEPT ![s] = "closed"]
    /\ u.sent = t.sent
    /\ t.pending[s] \notin Connection => u.outstanding = t.outstanding /\ u.cancelled = t.cancelled
    /\ t.pending[s] \in Connection => /\ u.outstanding = Lowered(t.outstanding)
                                      /\ u.cancelled = t.cancelled \cup {t.pending[s]}

(* discardSocket().                                                        *)
LEMMA DiscardedFacts ==
    ASSUME NEW t \in Tables, NEW s \in Socket, NEW u, u = Discarded(t, s)
    PROVE  DiscardedTo(t, s, u)
<1> DEFINE p == [t.pending EXCEPT ![s] = Nothing]
           b == [t.buffer EXCEPT ![s] = 0]
           k == [t.sock EXCEPT ![s] = "closed"]
           c == t.clients \ {s}
           m == t.timers \ {s}
           x == IF t.pending[s] \in Connection THEN t.cancelled \cup {t.pending[s]}
                                              ELSE t.cancelled
           n == IF t.pending[s] \in Connection THEN Lowered(t.outstanding) ELSE t.outstanding
<1>1. u = [t EXCEPT !.clients = c, !.cancelled = x, !.outstanding = n, !.pending = p,
                    !.buffer = b, !.timers = m, !.sock = k]
  BY DEF Discarded
<1>2. p \in [Socket -> Pending]
  BY DEF Tables, Pending
<1>3. b \in [Socket -> 0 .. MaxReads + 1]
  <2>1. t.buffer \in [Socket -> 0 .. MaxReads + 1] /\ 0 \in 0 .. MaxReads + 1
    BY CapAssumption DEF Tables
  <2> QED
    BY <2>1
<1>4. k \in [Socket -> {"free", "open", "closing", "closed"}]
  BY DEF Tables
<1>5. c \in SUBSET Socket /\ m \in SUBSET Socket
  BY DEF Tables
<1>6. x \in SUBSET Connection /\ n \in Nat
  <2>1. t.cancelled \in SUBSET Connection /\ t.outstanding \in Nat
    BY DEF Tables
  <2> QED
    BY <2>1, LoweredFacts
<1> HIDE DEF p, b, k, c, m, x, n
<1>7. u \in Tables
  <2>1. u = [clients |-> c, buffer |-> b, pending |-> p, timers |-> m, outstanding |-> n,
             sock |-> k, cancelled |-> x, sent |-> t.sent]
    BY <1>1 DEF Tables
  <2>2. t.sent \in [Connection -> Seq(Response)]
    BY DEF Tables
  <2> QED
    BY <1>2, <1>3, <1>4, <1>5, <1>6, <2>1, <2>2 DEF Tables
<1>8. /\ u.clients = c /\ u.cancelled = x /\ u.outstanding = n /\ u.pending = p
      /\ u.buffer = b /\ u.timers = m /\ u.sock = k /\ u.sent = t.sent
  BY <1>1 DEF Tables
<1> QED
  BY <1>7, <1>8 DEF DiscardedTo, p, b, k, c, m, x, n

(* abort() on a tracked connection discards it before it returns.          *)
LEMMA AbortedFacts ==
    ASSUME NEW t \in Tables, NEW s \in Socket, s \in t.clients, NEW u, u = Aborted(t, s)
    PROVE  DiscardedTo(t, s, u)
<1> DEFINE v == [t EXCEPT !.sock[s] = "closed"]
<1>1. /\ v \in Tables /\ v.clients = t.clients /\ v.timers = t.timers /\ v.buffer = t.buffer
      /\ v.pending = t.pending /\ v.sent = t.sent /\ v.outstanding = t.outstanding
      /\ v.cancelled = t.cancelled /\ v.sock = [t.sock EXCEPT ![s] = "closed"]
  BY DEF Tables
<1>2. [v.sock EXCEPT ![s] = "closed"] = [t.sock EXCEPT ![s] = "closed"]
  BY <1>1 DEF Tables
<1>3. u = Discarded(v, s)
  BY <1>1 DEF Aborted, Disconnected
<1> HIDE DEF v
<1> QED
  <2>1. DiscardedTo(v, s, u)
    BY <1>1, <1>3, DiscardedFacts
  <2> QED
    BY <1>1, <1>2, <2>1 DEF DiscardedTo

(* u is t after replyJson(): the response is recorded, the deadline taken  *)
(* off, and the connection closes, or is closed and discarded already.     *)
RepliedTo(t, s, c, r, u) ==
    /\ u \in Tables
    /\ u.sent = [t.sent EXCEPT ![c] = Append(@, r)]
    /\ u.cancelled = t.cancelled /\ u.outstanding = t.outstanding
    /\ u.timers = t.timers \ {s}
    /\ \/ /\ u.clients = t.clients /\ u.buffer = t.buffer
          /\ u.pending = [t.pending EXCEPT ![s] = Answered]
          /\ u.sock = [t.sock EXCEPT ![s] = "closing"]
       \/ /\ u.clients = t.clients \ {s} /\ u.buffer = [t.buffer EXCEPT ![s] = 0]
          /\ u.pending = [t.pending EXCEPT ![s] = Nothing]
          /\ u.sock = [t.sock EXCEPT ![s] = "closed"]

(* replyJson().                                                            *)
LEMMA RepliedFacts ==
    ASSUME NEW t \in Tables, NEW s \in Socket, s \in t.clients,
           NEW c \in Connection, NEW r \in Response, NEW u, u \in Replied(t, s, c, r)
    PROVE  RepliedTo(t, s, c, r, u)
<1> DEFINE v == [t EXCEPT !.timers = @ \ {s},
                          !.pending[s] = Answered,
                          !.sent[c] = Append(@, r),
                          !.sock[s] = "closing"]
<1>1. [t.sent EXCEPT ![c] = Append(@, r)] \in [Connection -> Seq(Response)]
  <2>1. t.sent \in [Connection -> Seq(Response)] /\ t.sent[c] \in Seq(Response)
    BY DEF Tables
  <2>2. Append(t.sent[c], r) \in Seq(Response)
    BY <2>1
  <2> QED
    BY <2>1, <2>2
<1>2. /\ v \in Tables /\ v.clients = t.clients /\ v.timers = t.timers \ {s} /\ v.buffer = t.buffer
      /\ v.pending = [t.pending EXCEPT ![s] = Answered]
      /\ v.sent = [t.sent EXCEPT ![c] = Append(@, r)] /\ v.outstanding = t.outstanding
      /\ v.cancelled = t.cancelled /\ v.sock = [t.sock EXCEPT ![s] = "closing"]
  <2>1. /\ [t.pending EXCEPT ![s] = Answered] \in [Socket -> Pending]
        /\ [t.sock EXCEPT ![s] = "closing"] \in [Socket -> {"free", "open", "closing", "closed"}]
        /\ t.timers \ {s} \in SUBSET Socket
    BY DEF Tables, Pending
  <2> QED
    BY <1>1, <2>1 DEF Tables
<1>3. /\ v.pending[s] = Answered /\ Answered \notin Connection
      /\ [v.sock EXCEPT ![s] = "closed"] = [t.sock EXCEPT ![s] = "closed"]
      /\ [v.pending EXCEPT ![s] = Nothing] = [t.pending EXCEPT ![s] = Nothing]
      /\ v.timers \ {s} = t.timers \ {s}
  BY <1>2, ConnectionAssumption DEF Tables, Answered
<1>4. u = v \/ u = Discarded(v, s)
  BY <1>2 DEF Replied, Disconnected
<1> HIDE DEF v
<1>5. CASE u = v
  BY <1>2, <1>5 DEF RepliedTo
<1>6. CASE u = Discarded(v, s)
  <2>1. DiscardedTo(v, s, u)
    BY <1>2, <1>6, DiscardedFacts
  <2> QED
    BY <1>2, <1>3, <2>1 DEF DiscardedTo, RepliedTo
<1> QED
  BY <1>4, <1>5, <1>6

-----------------------------------------------------------------------------
(* The frame.                                                              *)

(* A handler of the connection c at the address s leaves the others alone. *)
OthersKept(s, c) ==
    /\ \A r \in Socket \ {s} :
          /\ r \in api'.clients <=> r \in api.clients
          /\ r \in api'.timers <=> r \in api.timers
          /\ api'.buffer[r] = api.buffer[r] /\ api'.pending[r] = api.pending[r]
          /\ api'.sock[r] = api.sock[r] /\ at'[r] = at[r]
    /\ \A d \in Connection \ {c} :
          /\ api'.sent[d] = api.sent[d] /\ (d \in api'.cancelled <=> d \in api.cancelled)
          /\ pointer'[d] = pointer[d] /\ chat'[d] = chat[d] /\ (d \in left' <=> d \in left)

(* No connection is at two addresses.                                      *)
LEMMA OneAddress ==
    ASSUME IInv, NEW s \in Socket, NEW r \in Socket, at[s] \in Connection, at[r] = at[s]
    PROVE  r = s
<1>1. Nothing \notin Connection
  BY ConnectionAssumption
<1> QED
  BY <1>1 DEF IInv, TableInv, SocketInv, Unused

LEMMA OthersKeep ==
    ASSUME IInv, NEW s \in Socket, NEW c \in Connection, OthersKept(s, c),
           at[s] = c \/ (at[s] = Nothing /\ pointer[c] = Nothing)
    PROVE  /\ \A r \in Socket \ {s} : SocketInv(r)'
           /\ \A d \in Connection \ {c} : ConnectionInv(d)'
<1>1. Nothing \notin Connection /\ Nothing \notin Socket
  BY ConnectionAssumption
<1>2. ASSUME NEW r \in Socket \ {s}
      PROVE  SocketInv(r)'
  <2>1. SocketInv(r) /\ at[r] # c
    <3>1. SocketInv(r)
      BY DEF IInv, TableInv
    <3>2. CASE at[s] = c
      BY <3>1, <3>2, OneAddress
    <3>3. CASE pointer[c] = Nothing
      BY <1>1, <3>1, <3>3 DEF SocketInv, Unused
    <3> QED
      BY <3>1, <3>2, <3>3
  <2>2. /\ r \in api'.clients <=> r \in api.clients
        /\ r \in api'.timers <=> r \in api.timers
        /\ api'.buffer[r] = api.buffer[r] /\ api'.pending[r] = api.pending[r]
        /\ api'.sock[r] = api.sock[r] /\ at'[r] = at[r]
    BY DEF OthersKept
  <2>3. CASE Unused(r)
    BY <2>2, <2>3 DEF SocketInv, Unused, Untracked
  <2>4. CASE at[r] \in Connection
    <3>1. /\ api'.sent[at[r]] = api.sent[at[r]] /\ (at[r] \in api'.cancelled <=> at[r] \in api.cancelled)
          /\ pointer'[at[r]] = pointer[at[r]] /\ chat'[at[r]] = chat[at[r]]
          /\ (at[r] \in left' <=> at[r] \in left)
      BY <2>1, <2>4 DEF OthersKept
    <3> QED
      BY <2>1, <2>2, <2>4, <3>1
         DEF SocketInv, Unused, Untracked, Reading, Waiting, Replying, Leaving, Ongoing
  <2> QED
    BY <2>1, <2>3, <2>4 DEF SocketInv
<1>3. ASSUME NEW d \in Connection \ {c}
      PROVE  ConnectionInv(d)'
  <2>1. ConnectionInv(d)
    BY DEF IInv, TableInv
  <2>2. /\ api'.sent[d] = api.sent[d] /\ (d \in api'.cancelled <=> d \in api.cancelled)
        /\ pointer'[d] = pointer[d] /\ chat'[d] = chat[d]
    BY DEF OthersKept
  <2>3. at[pointer[d]] = d => pointer[d] # s
    BY <1>1
  <2>4. pointer[d] \in Socket /\ pointer[d] # s =>
          api'.pending[pointer[d]] = api.pending[pointer[d]] /\ at'[pointer[d]] = at[pointer[d]]
    BY DEF OthersKept
  <2> QED
    BY <2>1, <2>2, <2>3, <2>4 DEF ConnectionInv, Ongoing
<1> QED
  BY <1>2, <1>3

-----------------------------------------------------------------------------
(* The count of the chats.                                                 *)

(* At most one address begins or ceases to wait for a chat, and the        *)
(* counter is moved with it.                                               *)
LEMMA CountStep ==
    ASSUME IInv, NEW s \in Socket,
           \A r \in Socket \ {s} : api'.pending[r] = api.pending[r],
           api'.clients \in {api.clients, api.clients \cup {s}, api.clients \ {s}},
           \/ /\ api'.pending[s] \in Connection <=> api.pending[s] \in Connection
              /\ api'.outstanding = api.outstanding
           \/ /\ api.pending[s] \in Connection /\ api'.pending[s] \notin Connection
              /\ api'.outstanding = Lowered(api.outstanding)
           \/ /\ api.pending[s] \notin Connection /\ api'.pending[s] \in Connection
              /\ api'.outstanding = api.outstanding + 1 /\ ~(api.outstanding >= MaxOutstanding)
    PROVE  CountInv'
<1>1. /\ IsFiniteSet(api.clients) /\ api.outstanding = Cardinality(Chats)
      /\ api.outstanding <= MaxOutstanding /\ api.outstanding \in Nat /\ MaxOutstanding \in Nat
  BY CapAssumption DEF IInv, TableInv, CountInv, TypeOK, Tables
<1>2. Chats \subseteq api.clients
  BY ConnectionAssumption
     DEF IInv, TableInv, SocketInv, Chats, Unused, Untracked, Reading, Waiting, Replying, Leaving
<1>3. IsFiniteSet(Chats) /\ IsFiniteSet(api'.clients)
  BY <1>1, <1>2, FS_Subset, FS_AddElement, FS_RemoveElement
<1>4. CASE /\ api'.pending[s] \in Connection <=> api.pending[s] \in Connection
           /\ api'.outstanding = api.outstanding
  <2>1. Chats' = Chats
    BY <1>4 DEF Chats
  <2> QED
    BY <1>1, <1>3, <1>4, <2>1 DEF CountInv
<1>5. CASE /\ api.pending[s] \in Connection /\ api'.pending[s] \notin Connection
           /\ api'.outstanding = Lowered(api.outstanding)
  <2>1. Chats' = Chats \ {s} /\ s \in Chats
    BY <1>5 DEF Chats
  <2>2. Cardinality(Chats') = Cardinality(Chats) - 1
    BY <1>3, <2>1, FS_RemoveElement
  <2>3. Cardinality(Chats) > 0
    BY <1>3, <2>1, FS_EmptySet, FS_CardinalityType
  <2>4. api'.outstanding = api.outstanding - 1
    BY <1>1, <1>5, <2>3, LoweredFacts
  <2> QED
    BY <1>1, <1>3, <2>2, <2>4 DEF CountInv
<1>6. CASE /\ api.pending[s] \notin Connection /\ api'.pending[s] \in Connection
           /\ api'.outstanding = api.outstanding + 1 /\ ~(api.outstanding >= MaxOutstanding)
  <2>1. Chats' = Chats \cup {s} /\ s \notin Chats
    BY <1>6 DEF Chats
  <2>2. Cardinality(Chats') = Cardinality(Chats) + 1
    BY <1>3, <2>1, FS_AddElement
  <2> QED
    BY <1>1, <1>3, <1>6, <2>2 DEF CountInv
<1> QED
  BY <1>4, <1>5, <1>6

(* What a handler of one connection has to establish.                      *)
LEMMA OneConnectionStep ==
    ASSUME IInv, NEW s \in Socket, NEW c \in Connection, OthersKept(s, c),
           at[s] = c \/ (at[s] = Nothing /\ pointer[c] = Nothing),
           SocketInv(s)', ConnectionInv(c)', CountInv'
    PROVE  TableInv'
BY OthersKeep DEF TableInv

-----------------------------------------------------------------------------
(* Where an address is.                                                    *)

(* The address of a tracked connection, and what a read finds there.       *)
LEMMA Places ==
    ASSUME IInv, NEW s \in Socket
    PROVE  /\ s \in api.clients => at[s] \in Connection /\ pointer[at[s]] = s
           /\ s \in api.clients => Reading(s) \/ Waiting(s) \/ Replying(s)
           /\ Reads(s) => Reading(s)
           /\ s \in api.timers => Reading(s)
           /\ api.sock[s] = "open" => Reading(s) \/ Waiting(s)
           /\ api.sock[s] = "closing" => Replying(s)
           /\ api.sock[s] = "closed" => Leaving(s) /\ at[s] \in Connection /\ pointer[at[s]] = s
           /\ api.sock[s] = "free" => Unused(s)
           /\ Reading(s) \/ Replying(s) => api.pending[s] \notin Connection
           /\ Waiting(s) => api.pending[s] \in Connection
           /\ Nothing \notin Connection
<1>1. SocketInv(s) /\ Nothing \notin Connection /\ Answered \notin Connection
  BY ConnectionAssumption DEF IInv, TableInv, Answered
<1>2. CASE Unused(s)
  BY <1>1, <1>2 DEF Unused, Untracked, Reading, Waiting, Replying, Reads
<1>3. CASE /\ at[s] \in Connection /\ pointer[at[s]] = s
           /\ Reading(s) \/ Waiting(s) \/ Replying(s) \/ Leaving(s)
  BY <1>1, <1>3 DEF Untracked, Reading, Waiting, Replying, Leaving, Reads
<1> QED
  BY <1>1, <1>2, <1>3 DEF SocketInv

SameElsewhere(t, s) ==
    \A r \in Socket \ {s} :
       /\ r \in t.clients <=> r \in api.clients
       /\ r \in t.timers <=> r \in api.timers
       /\ t.buffer[r] = api.buffer[r] /\ t.pending[r] = api.pending[r]
       /\ t.sock[r] = api.sock[r]

(* A connection without an answer is answered, on tables that differ from  *)
(* those of the state only at its address.                                 *)
LEMMA ReplyStep ==
    ASSUME IInv, NEW s \in Socket, NEW c \in Connection, NEW r \in {NoOutput, c},
           NEW t \in Tables, t.clients = api.clients \cup {s}, SameElsewhere(t, s),
           t.sent = api.sent, t.cancelled = api.cancelled, api.sent[c] = <<>>,
           api' \in Replied(t, s, c, r),
           at[s] = c \/ (at[s] = Nothing /\ pointer[c] = Nothing),
           at'[s] = c, pointer'[c] = s, ~Ongoing(c)',
           \A q \in Socket \ {s} : at'[q] = at[q],
           \A d \in Connection \ {c} : pointer'[d] = pointer[d] /\ chat'[d] = chat[d],
           left' = left,
           \/ t.outstanding = api.outstanding /\ api.pending[s] \notin Connection
           \/ t.outstanding = Lowered(api.outstanding) /\ api.pending[s] \in Connection
    PROVE  TableInv' /\ api' \in Tables
<1>1. PICK u : u = api' /\ u \in Replied(t, s, c, r)
  OBVIOUS
<1>2. RepliedTo(t, s, c, r, u)
  <2>1. r \in Response /\ s \in t.clients
    BY DEF Response
  <2> QED
    BY <1>1, <2>1, RepliedFacts
<1>3. /\ u.sent[c] = <<r>> /\ \A d \in Connection \ {c} : u.sent[d] = api.sent[d]
      /\ \A q \in Socket \ {s} : /\ u.pending[q] = t.pending[q] /\ u.buffer[q] = t.buffer[q]
                                 /\ u.sock[q] = t.sock[q]
      /\ \/ /\ u.clients = t.clients /\ u.pending[s] = Answered /\ u.sock[s] = "closing"
         \/ /\ u.clients = t.clients \ {s} /\ u.buffer[s] = 0 /\ u.pending[s] = Nothing
            /\ u.sock[s] = "closed"
  <2>1. /\ t.sent[c] = <<>> /\ t.sent \in [Connection -> Seq(Response)]
        /\ u.sent = [t.sent EXCEPT ![c] = Append(t.sent[c], r)]
    BY <1>2 DEF RepliedTo, Tables
  <2>2. u.sent[c] = <<r>> /\ \A d \in Connection \ {c} : u.sent[d] = api.sent[d]
    BY <2>1
  <2>3. /\ t.pending \in [Socket -> Pending] /\ t.buffer \in [Socket -> 0 .. MaxReads + 1]
        /\ t.sock \in [Socket -> {"free", "open", "closing", "closed"}]
    BY DEF Tables
  <2> QED
    BY <1>2, <2>2, <2>3 DEF RepliedTo
<1>4. <<r>> # <<>> /\ Len(<<r>>) = 1 /\ \A k \in 1..1 : <<r>>[k] = r
  OBVIOUS
<1>5. Nothing \notin Connection /\ Answered \notin Connection /\ u.pending[s] \notin Connection
  BY <1>3, ConnectionAssumption DEF Answered
<1>6. OthersKept(s, c)
  BY <1>1, <1>2, <1>3 DEF OthersKept, SameElsewhere, RepliedTo
<1>7. SocketInv(s)'
  <2>1. CASE u.sock[s] = "closing"
    <3>1. Replying(s)'
      BY <1>1, <1>2, <1>3, <1>4, <2>1 DEF Replying, RepliedTo
    <3> QED
      BY <3>1 DEF SocketInv
  <2>2. CASE u.sock[s] = "closed"
    <3>1. Leaving(s)'
      BY <1>1, <1>2, <1>3, <1>4, <2>2 DEF Leaving, Untracked, RepliedTo
    <3> QED
      BY <3>1 DEF SocketInv
  <2> QED
    BY <1>3, <2>1, <2>2
<1>8. ConnectionInv(c)'
  <2>1. pointer'[c] # Nothing
    BY ConnectionAssumption
  <2> QED
    BY <1>1, <1>3, <1>4, <2>1 DEF ConnectionInv
<1>9. CountInv'
  <2>1. /\ \A q \in Socket \ {s} : api'.pending[q] = api.pending[q]
        /\ api'.clients \in {api.clients, api.clients \cup {s}, api.clients \ {s}}
    BY <1>1, <1>3 DEF SameElsewhere
  <2> QED
    BY <1>1, <1>2, <1>5, <2>1, CountStep DEF RepliedTo
<1> QED
  BY <1>1, <1>2, <1>6, <1>7, <1>8, <1>9, OneConnectionStep DEF RepliedTo

(* A tracked connection goes away: its peer, or the timer after its        *)
(* answer, closes it.                                                      *)
LEMMA AbortStep ==
    ASSUME IInv, NEW s \in Socket, s \in api.clients, api' = Aborted(api, s),
           UNCHANGED <<at, pointer, chat>>,
           (Replying(s) /\ left' = left) \/ left' = left \cup {at[s]}
    PROVE  TableInv' /\ api' \in Tables
<1> PICK u : u = Aborted(api, s) /\ u = api'
  OBVIOUS
<1>1. PICK c \in Connection : u = api' /\ c = at[s] /\ pointer[c] = s
  BY Places
<1>2. DiscardedTo(api, s, u)
  BY <1>1, AbortedFacts DEF IInv, TypeOK
<1>3. /\ u \in Tables /\ u.clients = api.clients \ {s} /\ u.timers = api.timers \ {s} /\ u.sent = api.sent
      /\ u.buffer[s] = 0 /\ u.pending[s] = Nothing /\ u.sock[s] = "closed"
      /\ \A q \in Socket \ {s} : /\ u.pending[q] = api.pending[q] /\ u.buffer[q] = api.buffer[q]
                                 /\ u.sock[q] = api.sock[q]
  BY <1>2 DEF DiscardedTo, IInv, TypeOK, Tables
<1>4. /\ Waiting(s) => u.cancelled = api.cancelled \cup {c} /\ u.outstanding = Lowered(api.outstanding)
      /\ ~Waiting(s) => u.cancelled = api.cancelled /\ u.outstanding = api.outstanding
  BY <1>1, <1>2, Places DEF DiscardedTo, Waiting
<1>5. OthersKept(s, c)
  BY <1>1, <1>3, <1>4 DEF OthersKept
<1>6. SocketInv(s)'
  <2>1. Ongoing(c) => Waiting(s)
    BY <1>1, Places DEF Reading, Replying, Ongoing
  <2>2. c \notin left' => api.sent[c] # <<>>
    BY <1>1 DEF Replying
  <2>3. Leaving(s)'
    BY <1>1, <1>3, <1>4, <2>1, <2>2 DEF Leaving, Untracked, Ongoing
  <2> QED
    BY <1>1, <2>3 DEF SocketInv
<1>7. ConnectionInv(c)'
  <2>1. ConnectionInv(c) /\ pointer[c] # Nothing
    BY <1>1, ConnectionAssumption DEF IInv, TableInv
  <2>2. Ongoing(c) => c \in u.cancelled
    BY <1>1, <1>4, Places DEF Reading, Replying, Ongoing
  <2> QED
    BY <1>1, <1>3, <2>1, <2>2 DEF ConnectionInv, Ongoing
<1>8. CountInv'
  <2>1. u.pending[s] \notin Connection
    BY <1>3, ConnectionAssumption
  <2> QED
    BY <1>1, <1>3, <1>4, <2>1, CountStep, Places
<1> QED
  BY <1>1, <1>3, <1>5, <1>6, <1>7, <1>8, OneConnectionStep

-----------------------------------------------------------------------------
(* The handlers.                                                           *)

(* The tables a read handler works on.                                     *)
LEMMA ReadFacts ==
    ASSUME IInv, NEW s \in Socket, Reads(s)
    PROVE  /\ Reading(s) /\ s \in api.clients /\ at[s] \in Connection /\ pointer[at[s]] = s
           /\ Read(s) \in Tables /\ Read(s).clients = api.clients \cup {s} /\ SameElsewhere(Read(s), s)
           /\ Read(s).timers = api.timers /\ Read(s).pending = api.pending /\ Read(s).sock = api.sock
           /\ Read(s).sent = api.sent /\ Read(s).cancelled = api.cancelled
           /\ Read(s).outstanding = api.outstanding
           /\ Read(s).buffer[s] = api.buffer[s] + 1
           /\ \A q \in Socket \ {s} : Read(s).buffer[q] = api.buffer[q]
<1>1. /\ Reading(s) /\ s \in api.clients /\ at[s] \in Connection /\ pointer[at[s]] = s
      /\ api \in Tables /\ api.buffer[s] <= MaxReads
  BY Places DEF Reading, IInv, TypeOK
<1>2. [api.buffer EXCEPT ![s] = @ + 1] \in [Socket -> 0 .. MaxReads + 1]
  BY <1>1, CapAssumption DEF Tables
<1>3. PICK b \in [Socket -> 0 .. MaxReads + 1] : b = [api.buffer EXCEPT ![s] = @ + 1]
  BY <1>2
<1>4. b[s] = api.buffer[s] + 1 /\ \A q \in Socket \ {s} : b[q] = api.buffer[q]
  BY <1>1, <1>3 DEF Tables
<1>5. Read(s) = [api EXCEPT !.buffer = b]
  BY <1>3 DEF Read
<1>6. /\ Read(s) \in Tables /\ Read(s).buffer = b /\ Read(s).clients = api.clients
      /\ Read(s).timers = api.timers /\ Read(s).pending = api.pending
      /\ Read(s).sock = api.sock /\ Read(s).sent = api.sent
      /\ Read(s).cancelled = api.cancelled /\ Read(s).outstanding = api.outstanding
  BY <1>1, <1>5 DEF Tables
<1> QED
  BY <1>1, <1>4, <1>6 DEF SameElsewhere

(* A read that is answered at once.                                        *)
LEMMA ReadReplies ==
    ASSUME IInv, NEW s \in Socket, Reads(s), api' \in Replied(Read(s), s, at[s], NoOutput),
           UNCHANGED <<at, pointer, chat, left>>
    PROVE  TableInv' /\ api' \in Tables
<1>1. PICK c \in Connection : c = at[s] /\ pointer[c] = s
  BY ReadFacts
<1>2. /\ api.sent[c] = <<>> /\ ~Ongoing(c)' /\ api.pending[s] \notin Connection
  BY <1>1, ReadFacts, Places DEF Reading, Ongoing
<1> DEFINE t == Read(s)
<1>3. /\ t \in Tables /\ t.clients = api.clients \cup {s} /\ SameElsewhere(t, s)
      /\ t.sent = api.sent /\ t.cancelled = api.cancelled /\ t.outstanding = api.outstanding
      /\ api' \in Replied(t, s, c, NoOutput)
  BY <1>1, ReadFacts
<1> HIDE DEF t
<1> QED
  BY <1>1, <1>2, <1>3, ReplyStep

LEMMA ReadNext ==
    ASSUME IInv, NEW s \in Socket,
           ReadIncomplete(s) \/ ReadRefused(s) \/ HandleListModels(s) \/ HandleChatCompletions(s)
    PROVE  TableInv' /\ api' \in Tables
<1>1. Reads(s) /\ UNCHANGED <<at, pointer, left>>
  BY DEF ReadIncomplete, ReadRefused, HandleListModels, HandleChatCompletions
<1>2. PICK c \in Connection : c = at[s] /\ pointer[c] = s
  BY <1>1, ReadFacts
<1>3. ConnectionInv(c) /\ Nothing \notin Connection /\ api.buffer[s] \in Nat
  BY Places DEF IInv, TableInv, TypeOK, Tables
<1>4. CASE \/ ReadRefused(s) \/ HandleListModels(s)
           \/ HandleChatCompletions(s) /\ api.outstanding >= MaxOutstanding
  BY <1>1, <1>4, ReadReplies DEF ReadRefused, HandleListModels, HandleChatCompletions
<1>5. CASE ReadIncomplete(s)
  <2>1. api' = Read(s) /\ ~(Read(s).buffer[s] > MaxReads) /\ chat' = chat
    BY <1>5 DEF ReadIncomplete, Parsed
  <2>2. api'.buffer[s] <= MaxReads
    BY <1>1, <1>3, <2>1, ReadFacts, CapAssumption
  <2>3. SocketInv(s)'
    BY <1>1, <1>2, <2>1, <2>2, ReadFacts DEF SocketInv, Reading
  <2>4. ConnectionInv(c)'
    BY <1>1, <1>2, <1>3, <2>1, ReadFacts DEF ConnectionInv, Ongoing
  <2>5. OthersKept(s, c)
    BY <1>1, <2>1, ReadFacts DEF OthersKept, SameElsewhere
  <2>6. CountInv'
    BY <1>1, <2>1, ReadFacts, CountStep
  <2> QED
    BY <1>1, <1>2, <2>1, <2>3, <2>4, <2>5, <2>6, ReadFacts, OneConnectionStep
<1>6. CASE HandleChatCompletions(s) /\ ~(api.outstanding >= MaxOutstanding)
  <2> DEFINE t == Read(s)
  <2>1. /\ api' = [t EXCEPT !.outstanding = @ + 1, !.pending[s] = c, !.timers = @ \ {s}]
        /\ chat' = [chat EXCEPT ![c] = "live"] /\ t \in Tables
    BY <1>1, <1>2, <1>6, ReadFacts DEF HandleChatCompletions
  <2>2. /\ t.clients = api.clients \cup {s} /\ t.timers = api.timers /\ t.pending = api.pending
        /\ t.sock = api.sock /\ t.sent = api.sent /\ t.cancelled = api.cancelled
        /\ t.outstanding = api.outstanding /\ t.outstanding \in Nat
        /\ \A q \in Socket \ {s} : t.buffer[q] = api.buffer[q]
    BY <1>1, <2>1, ReadFacts DEF Tables
  <2> HIDE DEF t
  <2>3. /\ api'.clients = t.clients /\ api'.timers = t.timers \ {s} /\ api'.buffer = t.buffer
        /\ api'.pending = [t.pending EXCEPT ![s] = c] /\ api'.sock = t.sock /\ api'.sent = t.sent
        /\ api'.cancelled = t.cancelled /\ api'.outstanding = t.outstanding + 1
    BY <2>1 DEF Tables
  <2>4. api'.pending[s] = c /\ \A q \in Socket \ {s} : api'.pending[q] = api.pending[q]
    BY <2>1, <2>2, <2>3 DEF Tables
  <2>5. api' \in Tables
    <3>1. [t.pending EXCEPT ![s] = c] \in [Socket -> Pending] /\ t.outstanding + 1 \in Nat
          /\ t.timers \ {s} \in SUBSET Socket
      BY <2>1, <2>2 DEF Tables, Pending
    <3> QED
      BY <2>1, <3>1 DEF Tables
  <2>6. /\ Ongoing(c)' /\ \A d \in Connection \ {c} : chat'[d] = chat[d]
    BY <2>1 DEF Ongoing, IInv, TypeOK
  <2>7. Reading(s) /\ api.pending[s] \notin Connection
    BY <1>1, ReadFacts, Places
  <2>8. Waiting(s)'
    BY <1>1, <1>2, <2>2, <2>3, <2>4, <2>6, <2>7 DEF Waiting, Reading
  <2>9. SocketInv(s)'
    BY <1>1, <1>2, <2>8 DEF SocketInv
  <2>10. ConnectionInv(c)'
    BY <1>1, <1>2, <1>3, <2>2, <2>3, <2>4, Places, ConnectionAssumption DEF ConnectionInv
  <2>11. OthersKept(s, c)
    BY <1>1, <2>2, <2>3, <2>4, <2>6 DEF OthersKept
  <2>12. CountInv'
    BY <1>6, <2>2, <2>3, <2>4, <2>7, CountStep
  <2> QED
    BY <1>2, <2>5, <2>9, <2>10, <2>11, <2>12, OneConnectionStep
<1> QED
  BY <1>4, <1>5, <1>6

LEMMA TimeoutNext ==
    ASSUME IInv, NEW s \in Socket, HandleRequestTimeout(s)
    PROVE  TableInv' /\ api' \in Tables
<1>1. /\ s \in api.timers /\ UNCHANGED <<at, pointer, chat, left>> /\ api \in Tables
  BY DEF HandleRequestTimeout, IInv, TypeOK
<1>2. PICK c \in Connection : c = at[s] /\ pointer[c] = s
  BY <1>1, Places DEF Reading
<1>3. Reading(s) /\ s \in api.clients /\ api.sent[c] = <<>> /\ ~Ongoing(c)' /\ ~Ongoing(c)
      /\ api.pending[s] \notin Connection
  BY <1>1, <1>2, Places DEF Reading, Ongoing
<1>4. CASE api' \in Replied(api, s, at[s], NoOutput)
  BY <1>1, <1>2, <1>3, <1>4, ReplyStep DEF SameElsewhere
<1>5. CASE api' = [api EXCEPT !.timers = @ \ {s}]
  <2>1. /\ api' \in Tables
        /\ api'.clients = api.clients /\ api'.timers = api.timers \ {s} /\ api'.buffer = api.buffer
        /\ api'.pending = api.pending /\ api'.sock = api.sock /\ api'.sent = api.sent
        /\ api'.cancelled = api.cancelled /\ api'.outstanding = api.outstanding
    BY <1>1, <1>5 DEF Tables
  <2>2. SocketInv(s)' /\ OthersKept(s, c) /\ CountInv'
    BY <1>1, <1>2, <1>3, <2>1, CountStep DEF SocketInv, Reading, OthersKept
  <2>3. ConnectionInv(c)'
    BY <1>1, <1>2, <2>1 DEF ConnectionInv, Ongoing, IInv, TableInv
  <2> QED
    BY <1>2, <2>1, <2>2, <2>3, OneConnectionStep
<1> QED
  BY <1>4, <1>5 DEF HandleRequestTimeout

LEMMA NewConnectionNext ==
    ASSUME IInv, NEW s \in Socket, NEW c \in Connection, HandleNewConnection(s, c)
    PROVE  TableInv' /\ api' \in Tables
<1> DEFINE t == [api EXCEPT !.clients = @ \cup {s}, !.sock[s] = "open"]
<1>1. /\ api.sock[s] = "free" /\ pointer[c] = Nothing /\ api \in Tables /\ UNCHANGED <<chat, left>>
      /\ pointer' = [pointer EXCEPT ![c] = s] /\ at' = [at EXCEPT ![s] = c]
      /\ api' \in Replied(t, s, c, NoOutput) \/ api' = [t EXCEPT !.timers = @ \cup {s}]
  BY DEF HandleNewConnection, IInv, TypeOK
<1>2. /\ Unused(s) /\ at[s] = Nothing /\ ConnectionInv(c) /\ chat[c] = "none" /\ api.sent[c] = <<>>
      /\ api.pending[s] = Nothing /\ api.buffer[s] = 0 /\ api.pending[s] \notin Connection
  BY <1>1, Places DEF Unused, Untracked, IInv, TableInv, ConnectionInv
<1>3. /\ pointer'[c] = s /\ at'[s] = c /\ ~Ongoing(c)' /\ ~Ongoing(c)
      /\ \A q \in Socket \ {s} : at'[q] = at[q]
      /\ \A d \in Connection \ {c} : pointer'[d] = pointer[d] /\ chat'[d] = chat[d]
  BY <1>1, <1>2 DEF IInv, TypeOK, Ongoing
<1>4. /\ t \in Tables /\ t.clients = api.clients \cup {s} /\ t.timers = api.timers /\ t.buffer = api.buffer
      /\ t.pending = api.pending /\ t.sock = [api.sock EXCEPT ![s] = "open"] /\ t.sent = api.sent
      /\ t.cancelled = api.cancelled /\ t.outstanding = api.outstanding
  <2>1. api.clients \cup {s} \in SUBSET Socket
        /\ [api.sock EXCEPT ![s] = "open"] \in [Socket -> {"free", "open", "closing", "closed"}]
    BY <1>1 DEF Tables
  <2> QED
    BY <1>1, <2>1 DEF Tables
<1> HIDE DEF t
<1>5. t.sock[s] = "open" /\ \A q \in Socket \ {s} : t.sock[q] = api.sock[q]
  BY <1>1, <1>4 DEF Tables
<1>6. CASE api' \in Replied(t, s, c, NoOutput)
  <2>1. SameElsewhere(t, s)
    BY <1>4, <1>5 DEF SameElsewhere
  <2> QED
    BY <1>1, <1>2, <1>3, <1>4, <1>6, <2>1, ReplyStep
<1>7. CASE api' = [t EXCEPT !.timers = @ \cup {s}]
  <2>1. /\ api' \in Tables
        /\ api'.clients = t.clients /\ api'.timers = t.timers \cup {s} /\ api'.buffer = t.buffer
        /\ api'.pending = t.pending /\ api'.sock = t.sock /\ api'.sent = t.sent
        /\ api'.cancelled = t.cancelled /\ api'.outstanding = t.outstanding
    BY <1>4, <1>7 DEF Tables
  <2>2. SocketInv(s)'
    BY <1>1, <1>2, <1>3, <1>4, <1>5, <2>1, CapAssumption DEF SocketInv, Reading
  <2>3. ConnectionInv(c)'
    BY <1>2, <1>3, <1>4, <2>1, Places, ConnectionAssumption DEF ConnectionInv
  <2>4. OthersKept(s, c)
    BY <1>1, <1>3, <1>4, <1>5, <2>1 DEF OthersKept
  <2>5. CountInv'
    BY <1>4, <2>1, CountStep
  <2> QED
    BY <1>1, <1>2, <2>1, <2>2, <2>3, <2>4, <2>5, OneConnectionStep
<1> QED
  BY <1>1, <1>6, <1>7

LEMMA DeleteNext ==
    ASSUME IInv, NEW s \in Socket, DeleteLater(s)
    PROVE  TableInv' /\ api' \in Tables
<1>1. /\ api.sock[s] = "closed" /\ api' = [api EXCEPT !.sock[s] = "free"] /\ api \in Tables
      /\ at' = [at EXCEPT ![s] = Nothing] /\ UNCHANGED <<pointer, chat, left>>
  BY DEF DeleteLater, IInv, TypeOK
<1>2. PICK c \in Connection : c = at[s] /\ pointer[c] = s
  BY <1>1, Places
<1>3. Leaving(s) /\ ConnectionInv(c)
  BY <1>1, Places DEF IInv, TableInv
<1>4. /\ api' \in Tables
      /\ api'.clients = api.clients /\ api'.timers = api.timers /\ api'.buffer = api.buffer
      /\ api'.pending = api.pending /\ api'.sent = api.sent
      /\ api'.sock = [api.sock EXCEPT ![s] = "free"]
      /\ api'.cancelled = api.cancelled /\ api'.outstanding = api.outstanding
  BY <1>1 DEF Tables
<1>5. api'.sock[s] = "free" /\ \A q \in Socket \ {s} : api'.sock[q] = api.sock[q]
  BY <1>1, <1>4 DEF Tables
<1>6. at'[s] = Nothing /\ \A q \in Socket \ {s} : at'[q] = at[q]
  BY <1>1 DEF IInv, TypeOK
<1>7. SocketInv(s)'
  BY <1>3, <1>4, <1>5, <1>6 DEF SocketInv, Unused, Untracked, Leaving
<1>8. ConnectionInv(c)'
  BY <1>1, <1>2, <1>3, <1>4 DEF ConnectionInv, Leaving, Ongoing
<1>9. OthersKept(s, c) /\ CountInv'
  BY <1>1, <1>4, <1>5, <1>6, CountStep DEF OthersKept
<1> QED
  BY <1>2, <1>4, <1>7, <1>8, <1>9, OneConnectionStep

LEMMA StopNext ==
    ASSUME IInv, Stop
    PROVE  TableInv' /\ api' \in Tables /\ left' \subseteq Connection
<1> DEFINE waiting == {api.pending[s] : s \in api.clients} \cap Connection
           K == [s \in Socket |-> IF s \in api.clients THEN "closed" ELSE api.sock[s]]
<1>1. api \in Tables /\ api.clients \subseteq Socket /\ Nothing \notin Connection /\ 0 \notin Connection
  BY ConnectionAssumption DEF IInv, TypeOK, Tables
<1>2. /\ api' = [api EXCEPT !.clients = {}, !.timers = {}, !.outstanding = 0,
                            !.buffer = [s \in Socket |-> 0],
                            !.pending = [s \in Socket |-> Nothing],
                            !.cancelled = api.cancelled \cup waiting,
                            !.sock = K]
      /\ left' = left \cup {at[s] : s \in api.clients} /\ UNCHANGED <<at, pointer, chat>>
  BY <1>1 DEF Stop, Tables
<1>3. /\ waiting \subseteq Connection /\ K \in [Socket -> {"free", "open", "closing", "closed"}]
      /\ \A s \in Socket : K[s] = IF s \in api.clients THEN "closed" ELSE api.sock[s]
      /\ \A s \in api.clients : api.pending[s] \in Connection => api.pending[s] \in waiting
  BY <1>1 DEF Tables
<1> HIDE DEF waiting, K
<1>4. /\ api' \in Tables
      /\ api'.clients = {} /\ api'.timers = {} /\ api'.outstanding = 0 /\ api'.sent = api.sent
      /\ api'.cancelled = api.cancelled \cup waiting /\ api'.sock = K
      /\ \A s \in Socket : api'.buffer[s] = 0 /\ api'.pending[s] = Nothing
  <2>1. /\ [s \in Socket |-> 0] \in [Socket -> 0 .. MaxReads + 1]
        /\ [s \in Socket |-> Nothing] \in [Socket -> Pending]
        /\ api.cancelled \cup waiting \in SUBSET Connection
    BY <1>1, <1>3, CapAssumption DEF Tables, Pending
  <2>2. api' \in Tables
    BY <1>1, <1>2, <1>3, <2>1 DEF Tables
  <2> QED
    BY <1>1, <1>2, <2>2 DEF Tables
<1>5. ASSUME NEW s \in Socket
      PROVE  SocketInv(s)'
  <2>1. Untracked(s)'
    BY <1>4 DEF Untracked
  <2>2. CASE s \in api.clients
    <3>1. PICK c \in Connection : c = at[s] /\ pointer[c] = s
      BY <2>2, Places
    <3>2. Ongoing(c) => c \in api'.cancelled
      <4>1. Ongoing(c) => Waiting(s)
        BY <2>2, <3>1, Places DEF Reading, Replying, Ongoing
      <4> QED
        BY <1>3, <1>4, <2>2, <3>1, <4>1 DEF Waiting
    <3>3. Leaving(s)'
      BY <1>2, <1>3, <1>4, <2>1, <2>2, <3>1, <3>2 DEF Leaving, Ongoing
    <3> QED
      BY <1>2, <3>1, <3>3 DEF SocketInv
  <2>3. CASE s \notin api.clients
    <3>1. SocketInv(s) /\ api'.sock[s] = api.sock[s]
      BY <1>3, <1>4, <2>3 DEF IInv, TableInv
    <3> QED
      BY <1>2, <1>4, <2>1, <2>3, <3>1
         DEF SocketInv, Unused, Leaving, Reading, Waiting, Replying, Ongoing
  <2> QED
    BY <2>2, <2>3
<1>6. ASSUME NEW c \in Connection
      PROVE  ConnectionInv(c)'
  <2>1. ConnectionInv(c)
    BY DEF IInv, TableInv
  <2>2. ASSUME Ongoing(c), c \notin api.cancelled
        PROVE  c \in api'.cancelled
    <3>1. PICK s \in Socket : s = pointer[c] /\ at[s] = c /\ api.pending[s] = c
      BY <2>1, <2>2 DEF ConnectionInv
    <3>2. s \in api.clients
      BY <1>1, <3>1 DEF IInv, TableInv, SocketInv, Unused, Reading, Waiting, Replying, Leaving, Untracked
    <3> QED
      BY <1>3, <1>4, <3>1, <3>2
  <2> QED
    BY <1>2, <1>4, <2>1, <2>2 DEF ConnectionInv, Ongoing
<1>7. CountInv'
  <2>1. Chats' = {}
    BY <1>1, <1>4 DEF Chats
  <2> QED
    BY <1>4, <2>1, FS_EmptySet, CapAssumption DEF CountInv
<1>8. left' \subseteq Connection
  <2>1. \A s \in api.clients : at[s] \in Connection
    BY <1>1, Places
  <2> QED
    BY <1>2, <2>1 DEF IInv, TypeOK
<1> QED
  BY <1>4, <1>5, <1>6, <1>7, <1>8 DEF TableInv

(* The inference service ends a chat: its connection waits on.             *)
LEMMA ChatEndsNext ==
    ASSUME IInv, NEW c \in Connection, ChatEnds(c)
    PROVE  TableInv'
<1>1. /\ \A d \in Connection : (Ongoing(d)' <=> Ongoing(d)) /\ (chat'[d] = "none" <=> chat[d] = "none")
      /\ UNCHANGED <<api, at, pointer, left>>
  BY DEF ChatEnds, Ongoing, IInv, TypeOK
<1>2. ASSUME NEW s \in Socket
      PROVE  SocketInv(s)'
  <2>1. SocketInv(s)
    BY DEF IInv, TableInv
  <2>2. CASE Unused(s)
    BY <1>1, <2>2 DEF SocketInv, Unused, Untracked
  <2>3. CASE at[s] \in Connection
    BY <1>1, <2>1, <2>3 DEF SocketInv, Unused, Untracked, Reading, Waiting, Replying, Leaving
  <2> QED
    BY <2>1, <2>2, <2>3 DEF SocketInv
<1>3. ASSUME NEW d \in Connection
      PROVE  ConnectionInv(d)'
  BY <1>1 DEF ConnectionInv, IInv, TableInv
<1>4. CountInv'
  BY <1>1 DEF CountInv, Chats, IInv, TableInv
<1> QED
  BY <1>2, <1>3, <1>4 DEF TableInv

(* The callback of a chat, on the user-interface thread.                   *)
LEMMA ChatFinishedNext ==
    ASSUME IInv, NEW c \in Connection, OnApiChatFinished(c)
    PROVE  TableInv' /\ api' \in Tables
<1>1. /\ chat[c] = "posted" /\ chat' = [chat EXCEPT ![c] = "done"] /\ UNCHANGED <<at, pointer, left>>
      /\ Ongoing(c) /\ ~Ongoing(c)' /\ chat'[c] = "done" /\ \A d \in Connection \ {c} : chat'[d] = chat[d]
      /\ api \in Tables /\ ConnectionInv(c) /\ Nothing \notin Connection /\ Nothing \notin Socket
  BY ConnectionAssumption DEF OnApiChatFinished, Ongoing, IInv, TypeOK, TableInv
<1>2. ASSUME NEW s \in Socket, at[s] = c
      PROVE  pointer[c] = s /\ (Waiting(s) \/ Leaving(s))
  <2>1. SocketInv(s) /\ ~Reading(s) /\ ~Replying(s) /\ ~Unused(s)
    BY <1>1, <1>2 DEF IInv, TableInv, Reading, Replying, Unused
  <2> QED
    BY <1>2, <2>1 DEF SocketInv
<1>3. ASSUME at[pointer[c]] = c, pointer[c] \in api.clients
      PROVE  TableInv' /\ api' \in Tables
  <2>1. PICK s \in Socket : s = pointer[c]
    BY <1>1, <1>3 DEF Tables
  <2>2. Waiting(s) /\ api.pending[s] = c /\ api.sent[c] = <<>>
    BY <1>2, <1>3, <2>1 DEF Leaving, Untracked, Waiting
  <2> DEFINE t == [api EXCEPT !.outstanding = Lowered(@)]
  <2>3. PICK r \in {NoOutput, c} : api' \in Replied(t, s, c, r)
    BY <1>1, <1>3, <2>1, <2>2 DEF OnApiChatFinished
  <2>4. /\ t \in Tables /\ t.clients = api.clients /\ t.timers = api.timers /\ t.buffer = api.buffer
        /\ t.pending = api.pending /\ t.sock = api.sock /\ t.sent = api.sent
        /\ t.cancelled = api.cancelled /\ t.outstanding = Lowered(api.outstanding)
    BY <1>1, LoweredFacts DEF Tables
  <2> HIDE DEF t
  <2>5. SameElsewhere(t, s) /\ t.clients = api.clients \cup {s}
    BY <1>3, <2>1, <2>4 DEF SameElsewhere
  <2> QED
    BY <1>1, <1>3, <2>1, <2>2, <2>3, <2>4, <2>5, ReplyStep
<1>4. ASSUME ~(at[pointer[c]] = c /\ pointer[c] \in api.clients)
      PROVE  TableInv' /\ api' \in Tables
  <2>1. api' = api
    BY <1>4 DEF OnApiChatFinished
  <2>2. \A s \in Socket : at[s] = c => Leaving(s)
    BY <1>2, <1>4 DEF Waiting
  <2>3. ASSUME NEW s \in Socket
        PROVE  SocketInv(s)'
    <3>1. SocketInv(s)
      BY DEF IInv, TableInv
    <3>2. CASE Unused(s)
      BY <1>1, <2>1, <3>2 DEF SocketInv, Unused, Untracked
    <3>3. CASE at[s] \in Connection /\ at[s] # c
      BY <1>1, <2>1, <3>1, <3>3
         DEF SocketInv, Unused, Untracked, Reading, Waiting, Replying, Leaving, Ongoing
    <3>4. CASE at[s] = c
      <4>1. Leaving(s)' /\ pointer[c] = s
        BY <1>1, <1>2, <2>1, <2>2, <3>4 DEF Leaving, Untracked
      <4> QED
        BY <1>1, <3>4, <4>1 DEF SocketInv
    <3> QED
      BY <3>1, <3>2, <3>3, <3>4 DEF SocketInv
  <2>4. ASSUME NEW d \in Connection
        PROVE  ConnectionInv(d)'
    <3>1. ConnectionInv(d)
      BY DEF IInv, TableInv
    <3>2. CASE d # c
      BY <1>1, <2>1, <3>1, <3>2 DEF ConnectionInv, Ongoing
    <3>3. CASE d = c
      BY <1>1, <2>1, <3>1, <3>3 DEF ConnectionInv, Ongoing
    <3> QED
      BY <3>2, <3>3
  <2>5. CountInv'
    BY <2>1 DEF CountInv, Chats, IInv, TableInv
  <2> QED
    BY <1>1, <2>1, <2>3, <2>4, <2>5 DEF TableInv
<1> QED
  BY <1>3, <1>4

-----------------------------------------------------------------------------
(* The theorems.                                                           *)

LEMMA IInvInit == Init => IInv
<1> SUFFICES ASSUME Init PROVE IInv
  OBVIOUS
<1>1. TypeOK
  <2>1. api \in Tables
    BY CapAssumption DEF Init, Tables, Pending
  <2> QED
    BY <2>1 DEF Init, TypeOK
<1>2. \A s \in Socket : SocketInv(s)
  BY DEF Init, SocketInv, Unused, Untracked
<1>3. \A c \in Connection : ConnectionInv(c)
  <2>1. Len(<<>>) = 0 /\ 1..0 = {}
    OBVIOUS
  <2> QED
    BY <2>1 DEF Init, ConnectionInv, Ongoing
<1>4. CountInv
  <2>1. Chats = {}
    BY ConnectionAssumption DEF Init, Chats
  <2> QED
    BY <2>1, FS_EmptySet, CapAssumption DEF Init, CountInv
<1> QED
  BY <1>1, <1>2, <1>3, <1>4 DEF IInv, TableInv

LEMMA IInvNext == IInv /\ Next => IInv'
<1> SUFFICES ASSUME IInv, Next PROVE IInv'
  OBVIOUS
<1>1. TypeOK
  BY DEF IInv
<1>2. CASE Start
  <2>1. UNCHANGED <<api, at, pointer, chat, left>> /\ listening' \in BOOLEAN
    BY <1>2 DEF Start
  <2> QED
    BY <1>1, <2>1
       DEF IInv, TypeOK, TableInv, SocketInv, ConnectionInv, CountInv, Chats, Unused, Untracked,
           Reading, Waiting, Replying, Leaving, Ongoing
<1>3. CASE Stop
  <2>1. listening' \in BOOLEAN /\ UNCHANGED <<at, pointer, chat>>
    BY <1>3 DEF Stop
  <2> QED
    BY <1>1, <1>3, <2>1, StopNext DEF IInv, TypeOK
<1>4. ASSUME NEW s \in Socket, NEW c \in Connection, HandleNewConnection(s, c)
      PROVE  IInv'
  <2>1. UNCHANGED <<listening, chat, left>>
        /\ at' = [at EXCEPT ![s] = c] /\ pointer' = [pointer EXCEPT ![c] = s]
    BY <1>4 DEF HandleNewConnection
  <2> QED
    BY <1>1, <1>4, <2>1, NewConnectionNext DEF IInv, TypeOK
<1>5. ASSUME NEW s \in Socket,
             ReadIncomplete(s) \/ ReadRefused(s) \/ HandleListModels(s) \/ HandleChatCompletions(s)
      PROVE  IInv'
  <2>1. UNCHANGED <<listening, at, pointer, left>>
        /\ chat' \in [Connection -> {"none", "live", "posted", "done"}]
    BY <1>1, <1>5 DEF ReadIncomplete, ReadRefused, HandleListModels, HandleChatCompletions, TypeOK
  <2> QED
    BY <1>1, <1>5, <2>1, ReadNext DEF IInv, TypeOK
<1>6. ASSUME NEW s \in Socket, PeerCloses(s) \/ AbortTimer(s)
      PROVE  IInv'
  <2>1. /\ UNCHANGED <<listening, at, pointer, chat>> /\ api' = Aborted(api, s)
        /\ s \in api.clients /\ at[s] \in Connection
        /\ left' = left \cup {at[s]} \/ (Replying(s) /\ left' = left)
    BY <1>6, Places DEF PeerCloses, AbortTimer, Reading, Waiting, Replying
  <2>2. left' \subseteq Connection
    BY <1>1, <2>1 DEF TypeOK
  <2> QED
    BY <1>1, <2>1, <2>2, AbortStep DEF IInv, TypeOK
<1>7. ASSUME NEW s \in Socket, HandleRequestTimeout(s)
      PROVE  IInv'
  BY <1>1, <1>7, TimeoutNext DEF IInv, TypeOK, HandleRequestTimeout
<1>8. ASSUME NEW s \in Socket, DeleteLater(s)
      PROVE  IInv'
  <2>1. UNCHANGED <<listening, pointer, chat, left>> /\ at' = [at EXCEPT ![s] = Nothing]
    BY <1>8 DEF DeleteLater
  <2> QED
    BY <1>1, <1>8, <2>1, DeleteNext DEF IInv, TypeOK
<1>9. ASSUME NEW c \in Connection, ChatEnds(c)
      PROVE  IInv'
  BY <1>1, <1>9, ChatEndsNext DEF IInv, TypeOK, ChatEnds
<1>10. ASSUME NEW c \in Connection, OnApiChatFinished(c)
       PROVE  IInv'
  <2>1. UNCHANGED <<listening, at, pointer, left>> /\ chat' = [chat EXCEPT ![c] = "done"]
    BY <1>10 DEF OnApiChatFinished
  <2> QED
    BY <1>1, <1>10, <2>1, ChatFinishedNext DEF IInv, TypeOK
<1> QED
  BY <1>2, <1>3, <1>4, <1>5, <1>6, <1>7, <1>8, <1>9, <1>10 DEF Next, Deadline

LEMMA IInvAlways == Spec => []IInv
<1>1. IInv /\ UNCHANGED vars => IInv'
  BY DEF vars, IInv, TypeOK, TableInv, SocketInv, ConnectionInv, CountInv, Chats, Unused, Untracked,
         Reading, Waiting, Replying, Leaving, Ongoing
<1> QED
  BY IInvInit, IInvNext, <1>1, PTL DEF Spec

(* outstanding_requests_ counts the connections that wait for a chat and   *)
(* stays within its cap, a chat that was not cancelled has its connection, *)
(* and no table keeps an entry for an address whose socket is gone.        *)
THEOREM OutstandingCounted == Spec => []OutstandingMatches
<1>1. IInv => OutstandingMatches
  <2> SUFFICES ASSUME IInv PROVE OutstandingMatches
    OBVIOUS
  <2>1. /\ TypeOK /\ api.outstanding <= MaxOutstanding
        /\ api.outstanding = Cardinality({s \in Socket : api.pending[s] \in Connection})
    BY DEF IInv, TableInv, CountInv, Chats
  <2>2. \A s \in Socket \ api.clients :
           api.pending[s] = Nothing /\ api.buffer[s] = 0 /\ s \notin api.timers
    BY DEF IInv, TableInv, SocketInv, Unused, Untracked, Reading, Waiting, Replying, Leaving
  <2>3. ASSUME NEW c \in Connection, Ongoing(c), c \notin api.cancelled
        PROVE  pointer[c] \in api.clients /\ at[pointer[c]] = c /\ api.pending[pointer[c]] = c
    <3>1. pointer[c] \in Socket /\ at[pointer[c]] = c /\ api.pending[pointer[c]] = c
      BY <2>3 DEF IInv, TableInv, ConnectionInv
    <3> QED
      BY <2>2, <3>1, ConnectionAssumption
  <2> QED
    BY <2>1, <2>2, <2>3 DEF OutstandingMatches, Ongoing
<1> QED
  BY IInvAlways, <1>1, PTL

(* Each connection is sent at most one response, the output of no other    *)
(* connection's chat, and is closed by the service only after it.          *)
THEOREM OneResponse == Spec => []OneResponseEach
<1>1. IInv => OneResponseEach
  <2> SUFFICES ASSUME IInv PROVE OneResponseEach
    OBVIOUS
  <2>1. \A s \in Socket : api.sock[s] = "closed" => Leaving(s)
    BY Places
  <2> QED
    BY <2>1 DEF IInv, TableInv, ConnectionInv, OneResponseEach, Leaving
<1> QED
  BY IInvAlways, <1>1, PTL
=============================================================================
