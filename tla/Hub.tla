-------------------------------- MODULE Hub --------------------------------
(***************************************************************************)
(* The WebSocket hub of a service (src/internal/shared/ws/hub.go): the     *)
(* table of connected clients, and for each connection, here a session,    *)
(* two goroutines:                                                         *)
(*                                                                         *)
(*   - the reader (HandleConnection, readPump, disconnect), which enters   *)
(*     the session in the table, reads until the socket fails and then     *)
(*     removes the client, closes the send channel and the socket;         *)
(*   - the writer (writePump), which writes what is in the send channel.   *)
(*                                                                         *)
(* Whoever has a message for a client calls SendJSON, which looks the      *)
(* client up under the lock and sends after it has released it.  Messages  *)
(* of one session are written in the order of its channel, so that only    *)
(* their number is kept.  What a client sends goes to onMsg, which does    *)
(* not touch the hub.                                                      *)
(***************************************************************************)
EXTENDS Naturals

CONSTANTS
    Client,      \* client identifiers, the {id} of the URL
    MaxSessions, \* bound on the connections that are opened
    Sender,      \* goroutines that call SendJSON
    HttpSender,  \* those whose panic net/http recovers
    NoClient,
    Capacity,    \* sendBufferSize
    MaxSends     \* bound on the calls of SendJSON

ASSUME SessionAssumption == MaxSessions \in Nat
ASSUME CapacityAssumption == Capacity \in Nat \ {0} /\ MaxSends \in Nat
ASSUME ClientAssumption == NoClient \notin Client
ASSUME SenderAssumption == HttpSender \subseteq Sender

VARIABLES
    clients,  \* h.clients: the session of each client, 0 for none
    owner,    \* c.id of each session
    socket,   \* the state of each websocket connection
    reader,   \* where the reader of each session is
    writer,   \* where its writer is
    buffer,   \* the number of messages in c.send
    closed,   \* the sessions whose c.send is closed
    target,   \* the session each sender has looked up, 0 for none
    crashed,  \* history: the process has died of a panic
    sends,    \* calls of SendJSON so far
    overlap   \* history: sessions that were open together with another of
              \* their client

vars == <<clients, owner, socket, reader, writer, buffer, closed, target,
          crashed, sends, overlap>>

\* Sessions are numbered in the order their sockets are opened.
Session == 1 .. MaxSessions

ReaderStep == {"none", "auth", "reading", "leaving", "removed", "closing", "done"}
WriterStep == {"none", "running", "done"}
SocketState == {"none", "open", "broken", "closed"}

Init ==
    /\ clients = [c \in Client |-> 0]
    /\ owner = [s \in Session |-> NoClient]
    /\ socket = [s \in Session |-> "none"]
    /\ reader = [s \in Session |-> "none"]
    /\ writer = [s \in Session |-> "none"]
    /\ buffer = [s \in Session |-> 0]
    /\ closed = {}
    /\ target = [x \in Sender |-> 0]
    /\ crashed = FALSE
    /\ sends = 0
    /\ overlap = {}
-----------------------------------------------------------------------------
(* HandleConnection *)

\* A client opens a socket and has five seconds to authenticate.
Connect(s, c) ==
    /\ reader[s] = "none"
    /\ \A t \in Session : t < s => reader[t] # "none"
    /\ owner' = [owner EXCEPT ![s] = c]
    /\ socket' = [socket EXCEPT ![s] = "open"]
    /\ reader' = [reader EXCEPT ![s] = "auth"]
    /\ UNCHANGED <<clients, writer, buffer, closed, target, crashed, sends, overlap>>

\* No message in time, not an auth message, or a token of somebody else.
RejectClient(s) ==
    /\ reader[s] = "auth"
    /\ socket' = [socket EXCEPT ![s] = "closed"]
    /\ reader' = [reader EXCEPT ![s] = "done"]
    /\ UNCHANGED <<clients, owner, writer, buffer, closed, target, crashed,
                   sends, overlap>>

\* The sessions of a client that will yet remove it from the table.
Leavers(c) == {s \in Session : owner[s] = c /\ reader[s] \in {"reading", "leaving"}}

\* Mutant: the writer is not started.
RegisterUnwritten(s) ==
    /\ reader[s] = "auth"
    /\ clients' = [clients EXCEPT ![owner[s]] = s]
    /\ reader' = [reader EXCEPT ![s] = "reading"]
    /\ overlap' = overlap \cup
                  (IF Leavers(owner[s]) = {} THEN {} ELSE {s} \cup Leavers(owner[s]))
    /\ UNCHANGED <<owner, socket, writer, buffer, closed, target, crashed, sends>>

\* The client is entered in the table, whoever is there, and both pumps run.
Register(s) ==
    /\ reader[s] = "auth"
    /\ clients' = [clients EXCEPT ![owner[s]] = s]
    /\ reader' = [reader EXCEPT ![s] = "reading"]
    /\ writer' = [writer EXCEPT ![s] = "running"]
    /\ overlap' = overlap \cup
                  (IF Leavers(owner[s]) = {} THEN {} ELSE {s} \cup Leavers(owner[s]))
    /\ UNCHANGED <<owner, socket, buffer, closed, target, crashed, sends>>
-----------------------------------------------------------------------------
(* readPump, disconnect *)

\* Mutant: no read deadline, only a socket that is closed ends the reader.
ReadFailsClosed(s) ==
    /\ reader[s] = "reading"
    /\ socket[s] = "broken"
    /\ reader' = [reader EXCEPT ![s] = "leaving"]
    /\ UNCHANGED <<clients, owner, socket, writer, buffer, closed, target,
                   crashed, sends, overlap>>

\* ReadMessage fails when the peer is gone, and when no pong has come within
\* pongWait: the writer that sends the pings has ended.
ReadFails(s) ==
    /\ reader[s] = "reading"
    /\ socket[s] = "broken" \/ writer[s] = "done"
    /\ reader' = [reader EXCEPT ![s] = "leaving"]
    /\ UNCHANGED <<clients, owner, socket, writer, buffer, closed, target,
                   crashed, sends, overlap>>

\* Mutant: the session stays in the table.
UnregisterNothing(s) ==
    /\ reader[s] = "leaving"
    /\ reader' = [reader EXCEPT ![s] = "removed"]
    /\ UNCHANGED <<clients, owner, socket, writer, buffer, closed, target,
                   crashed, sends, overlap>>

\* The client is removed from the table, whichever session is there.
Unregister(s) ==
    /\ reader[s] = "leaving"
    /\ clients' = [clients EXCEPT ![owner[s]] = 0]
    /\ reader' = [reader EXCEPT ![s] = "removed"]
    /\ UNCHANGED <<owner, socket, writer, buffer, closed, target, crashed,
                   sends, overlap>>

\* Mutant: the client is removed again, when the channel is closed.
CloseSendUnregisters(s) ==
    /\ reader[s] = "removed"
    /\ clients' = [clients EXCEPT ![owner[s]] = 0]
    /\ closed' = closed \cup {s}
    /\ reader' = [reader EXCEPT ![s] = "closing"]
    /\ UNCHANGED <<owner, socket, writer, buffer, target, crashed, sends, overlap>>

CloseSend(s) ==
    /\ reader[s] = "removed"
    /\ closed' = closed \cup {s}
    /\ reader' = [reader EXCEPT ![s] = "closing"]
    /\ UNCHANGED <<clients, owner, socket, writer, buffer, target, crashed,
                   sends, overlap>>

CloseSocket(s) ==
    /\ reader[s] = "closing"
    /\ socket' = [socket EXCEPT ![s] = "closed"]
    /\ reader' = [reader EXCEPT ![s] = "done"]
    /\ UNCHANGED <<clients, owner, writer, buffer, closed, target, crashed,
                   sends, overlap>>
-----------------------------------------------------------------------------
(* writePump *)

\* Written, into a socket whose peer may be gone without our knowing it.
Write(s) ==
    /\ writer[s] = "running"
    /\ buffer[s] > 0
    /\ socket[s] # "closed"
    /\ buffer' = [buffer EXCEPT ![s] = @ - 1]
    /\ UNCHANGED <<clients, owner, socket, reader, writer, closed, target,
                   crashed, sends, overlap>>

\* An error, or ten seconds without progress, end the writer.
WriteFails(s) ==
    /\ writer[s] = "running"
    /\ buffer[s] > 0
    /\ buffer' = [buffer EXCEPT ![s] = @ - 1]
    /\ writer' = [writer EXCEPT ![s] = "done"]
    /\ UNCHANGED <<clients, owner, socket, reader, closed, target, crashed,
                   sends, overlap>>

\* The channel is closed, and what was left in it is written.
WriteClose(s) ==
    /\ writer[s] = "running"
    /\ buffer[s] = 0
    /\ s \in closed
    /\ writer' = [writer EXCEPT ![s] = "done"]
    /\ UNCHANGED <<clients, owner, socket, reader, buffer, closed, target,
                   crashed, sends, overlap>>

\* The ping cannot be written.
PingFails(s) ==
    /\ writer[s] = "running"
    /\ writer' = [writer EXCEPT ![s] = "done"]
    /\ UNCHANGED <<clients, owner, socket, reader, buffer, closed, target,
                   crashed, sends, overlap>>

\* The peer leaves, or the network does.
Break(s) ==
    /\ socket[s] = "open"
    /\ socket' = [socket EXCEPT ![s] = "broken"]
    /\ UNCHANGED <<clients, owner, reader, writer, buffer, closed, target,
                   crashed, sends, overlap>>
-----------------------------------------------------------------------------
(* SendJSON *)

Lookup(x, c) ==
    /\ target[x] = 0
    /\ sends < MaxSends
    /\ sends' = sends + 1
    /\ target' = [target EXCEPT ![x] = clients[c]]
    /\ UNCHANGED <<clients, owner, socket, reader, writer, buffer, closed,
                   crashed, overlap>>

\* Mutant: an off-by-one in the capacity of the channel.
SendOver(x) ==
    /\ target[x] # 0
    /\ target[x] \notin closed
    /\ target' = [target EXCEPT ![x] = 0]
    /\ buffer' = [buffer EXCEPT ![target[x]] = IF @ <= Capacity THEN @ + 1 ELSE @]
    /\ UNCHANGED <<clients, owner, socket, reader, writer, closed, crashed,
                   sends, overlap>>

\* The message is in the channel, or dropped when that is full.
Send(x) ==
    /\ target[x] # 0
    /\ target[x] \notin closed
    /\ target' = [target EXCEPT ![x] = 0]
    /\ buffer' = [buffer EXCEPT ![target[x]] = IF @ < Capacity THEN @ + 1 ELSE @]
    /\ UNCHANGED <<clients, owner, socket, reader, writer, closed, crashed,
                   sends, overlap>>

\* A send on a closed channel panics, default clause or not.  net/http recovers
\* the panic of a request handler.
SendPanics(x) ==
    /\ target[x] \in closed
    /\ x \in HttpSender
    /\ target' = [target EXCEPT ![x] = 0]
    /\ UNCHANGED <<clients, owner, socket, reader, writer, buffer, closed,
                   crashed, sends, overlap>>

\* Any other goroutine takes the process with it, which is started anew.
Crash(x) ==
    /\ target[x] \in closed
    /\ x \notin HttpSender
    /\ clients' = [c \in Client |-> 0]
    /\ socket' = [s \in Session |-> IF socket[s] = "none" THEN "none" ELSE "closed"]
    /\ reader' = [s \in Session |-> IF reader[s] = "none" THEN "none" ELSE "done"]
    /\ writer' = [s \in Session |-> IF writer[s] = "none" THEN "none" ELSE "done"]
    /\ buffer' = [s \in Session |-> 0]
    /\ target' = [y \in Sender |-> 0]
    /\ crashed' = TRUE
    /\ UNCHANGED <<owner, closed, sends, overlap>>
-----------------------------------------------------------------------------
ReaderNext(s) ==
    \/ RejectClient(s) \/ Register(s) \/ ReadFails(s) \/ Unregister(s)
    \/ CloseSend(s) \/ CloseSocket(s)

\* The steps a writer is sure to take: a ping need not fail.
WriterNext(s) == Write(s) \/ WriteFails(s) \/ WriteClose(s)

SenderNext(x) ==
    \/ \E c \in Client : Lookup(x, c)
    \/ Send(x)
    \/ SendPanics(x)
    \/ Crash(x)

Next ==
    \/ \E s \in Session, c \in Client : Connect(s, c)
    \/ \E s \in Session : ReaderNext(s)
    \/ \E s \in Session : WriterNext(s)
    \/ \E s \in Session : PingFails(s) \/ Break(s)
    \/ \E x \in Sender : SenderNext(x)

Spec == Init /\ [][Next]_vars

\* Both goroutines of a session run on; reads and writes have deadlines.
Fairness ==
    \A s \in Session : /\ WF_vars(ReaderNext(s))
                       /\ WF_vars(WriterNext(s))

FairSpec == Spec /\ Fairness
-----------------------------------------------------------------------------
(* Properties *)

\* Every variable keeps its type, and no channel holds more than its capacity,
\* though any number of goroutines send to it without the lock.
TypeOK ==
    /\ clients \in [Client -> 0 .. MaxSessions]
    /\ owner \in [Session -> Client \cup {NoClient}]
    /\ socket \in [Session -> SocketState]
    /\ reader \in [Session -> ReaderStep]
    /\ writer \in [Session -> WriterStep]
    /\ buffer \in [Session -> 0 .. Capacity]
    /\ closed \subseteq Session
    /\ target \in [Sender -> 0 .. MaxSessions]
    /\ crashed \in BOOLEAN
    /\ sends \in Nat
    /\ overlap \subseteq Session

\* Nobody who looks a client up now gets a channel that is closed: it is left
\* only to a sender that looked it up before disconnect removed it, and to the
\* client's other sessions (hub.go:139-146).  Sessions of one client never take
\* each other's place in the table after they have gone.
RegisteredIsOpen ==
    \A c \in Client : clients[c] # 0 =>
        /\ clients[c] \notin closed
        /\ owner[clients[c]] = c
        /\ reader[clients[c]] \in {"reading", "leaving"}

\* A client whose connection is served is in the table, so that its messages
\* reach it, provided it was never connected twice at once: the disconnect of
\* one session removes the client whoever is there (hub.go:141).
ServedIsRegistered ==
    \A s \in Session : reader[s] = "reading" /\ s \notin overlap
                           => clients[owner[s]] = s

\* No goroutine is leaked: once the peer is gone, or either pump has given up,
\* both end, through the read deadline and the closed channel.
GoroutinesEnd ==
    \A s \in Session :
        socket[s] = "broken" \/ writer[s] = "done" ~>
            reader[s] = "done" /\ writer[s] # "running"

\* A message that SendJSON has accepted is written, or its session ends.
AcceptedIsWritten ==
    \A s \in Session : buffer[s] > 0 ~> buffer[s] = 0 \/ writer[s] = "done"
-----------------------------------------------------------------------------
\* req.md:30: "Your program MUST NOT crash unexpectedly (any panics:
\* nil-pointer dereference, index out of range, etc.)."
NeverPanics == ~crashed
=============================================================================
