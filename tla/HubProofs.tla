----------------------------- MODULE HubProofs -----------------------------
(***************************************************************************)
(* Proofs about Hub, for any number of clients, sessions, senders and      *)
(* calls and any capacity of the channels.                                 *)
(***************************************************************************)
EXTENDS Hub, TLAPS

\* A session whose reader runs belongs to a client, and a channel is closed
\* only by a reader that has removed its client.
SessionInv ==
    /\ \A s \in Session : reader[s] # "none" => owner[s] \in Client
    /\ \A s \in closed : reader[s] \in {"closing", "done"}

\* Two sessions of one client that will yet remove it know of each other.
OverlapInv ==
    \A s, t \in Session :
        /\ s # t
        /\ owner[s] = owner[t]
        /\ reader[s] \in {"reading", "leaving"}
        /\ reader[t] \in {"reading", "leaving"}
        => s \in overlap

IInv == TypeOK /\ SessionInv /\ OverlapInv /\ RegisteredIsOpen /\ ServedIsRegistered

\* Sessions are numbered from 1, so that 0 can stand for none.
LEMMA SessionNumbers ==
    /\ Session \subseteq 0 .. MaxSessions
    /\ 0 \in 0 .. MaxSessions
    /\ 0 \notin Session
    /\ 0 \in 0 .. Capacity
    /\ \A n \in 0 .. MaxSessions : n # 0 => n \in Session
    /\ \A n \in 0 .. Capacity : /\ n > 0 => n - 1 \in 0 .. Capacity
                                /\ n < Capacity => n + 1 \in 0 .. Capacity
  BY SessionAssumption, CapacityAssumption DEF Session

\* Nothing is registered, and nobody is served, before the first connection.
LEMMA InitInv == Init => IInv
<1> SUFFICES ASSUME Init
             PROVE  IInv
  OBVIOUS
<1>1. TypeOK
  BY SessionNumbers DEF Init, TypeOK, ReaderStep, WriterStep, SocketState
<1>2. SessionInv /\ OverlapInv /\ RegisteredIsOpen /\ ServedIsRegistered
  BY DEF Init, SessionInv, OverlapInv, RegisteredIsOpen, ServedIsRegistered
<1> QED
  BY <1>1, <1>2 DEF IInv

\* Every action keeps the types.
LEMMA TypeStep == TypeOK /\ SessionInv /\ [Next]_vars => TypeOK'
<1> SUFFICES ASSUME TypeOK, SessionInv, [Next]_vars
             PROVE  TypeOK'
  OBVIOUS
<1> USE SessionNumbers DEF TypeOK, ReaderStep, WriterStep, SocketState
<1>1. CASE \E s \in Session, c \in Client : Connect(s, c)
  BY <1>1 DEF Connect
<1>2. CASE \E s \in Session : ReaderNext(s)
  <2> PICK s \in Session : ReaderNext(s)
    BY <1>2
  <2>1. CASE RejectClient(s)
    BY <2>1 DEF RejectClient
  <2>2. CASE Register(s)
    <3>1. overlap' \subseteq Session
      BY <2>2 DEF Register, Leavers
    <3>2. /\ clients' \in [Client -> 0 .. MaxSessions]
          /\ reader' \in [Session -> ReaderStep]
          /\ writer' \in [Session -> WriterStep]
      BY <2>2 DEF Register
    <3>3. UNCHANGED <<owner, socket, buffer, closed, target, crashed, sends>>
      BY <2>2 DEF Register
    <3> QED
      BY <3>1, <3>2, <3>3
  <2>3. CASE ReadFails(s)
    BY <2>3 DEF ReadFails
  <2>4. CASE Unregister(s)
    BY <2>4 DEF Unregister
  <2>5. CASE CloseSend(s)
    BY <2>5 DEF CloseSend
  <2>6. CASE CloseSocket(s)
    BY <2>6 DEF CloseSocket
  <2> QED
    BY <2>1, <2>2, <2>3, <2>4, <2>5, <2>6 DEF ReaderNext
<1>3. CASE \E s \in Session : WriterNext(s)
  <2> PICK s \in Session : WriterNext(s)
    BY <1>3
  <2>1. CASE Write(s)
    BY <2>1 DEF Write
  <2>2. CASE WriteFails(s)
    BY <2>2 DEF WriteFails
  <2>3. CASE WriteClose(s)
    BY <2>3 DEF WriteClose
  <2> QED
    BY <2>1, <2>2, <2>3 DEF WriterNext
<1>4. CASE \E s \in Session : PingFails(s) \/ Break(s)
  BY <1>4 DEF PingFails, Break
<1>5. CASE \E x \in Sender : SenderNext(x)
  <2> PICK x \in Sender : SenderNext(x)
    BY <1>5
  <2>1. CASE \E c \in Client : Lookup(x, c)
    BY <2>1 DEF Lookup
  <2>2. CASE Send(x)
    BY <2>2 DEF Send
  <2>3. CASE SendPanics(x)
    BY <2>3 DEF SendPanics
  <2>4. CASE Crash(x)
    BY <2>4 DEF Crash
  <2> QED
    BY <2>1, <2>2, <2>3, <2>4 DEF SenderNext
<1>6. CASE UNCHANGED vars
  BY <1>6 DEF vars
<1> QED
  BY <1>1, <1>2, <1>3, <1>4, <1>5, <1>6 DEF Next

\* The table and the readers: a step of a writer or of a sender that does not
\* crash changes neither, so that only the readers' own steps matter.
TableInv == SessionInv /\ OverlapInv /\ RegisteredIsOpen /\ ServedIsRegistered

LEMMA TableStep == IInv /\ [Next]_vars => TableInv'
<1> SUFFICES ASSUME IInv, [Next]_vars
             PROVE  TableInv'
  OBVIOUS
<1> USE SessionNumbers DEF IInv, TableInv, TypeOK, SessionInv, OverlapInv,
                           RegisteredIsOpen, ServedIsRegistered
<1>1. ASSUME NEW s \in Session, NEW c \in Client, Connect(s, c)
      PROVE  TableInv'
  <2>1. /\ reader[s] = "none" /\ reader' = [reader EXCEPT ![s] = "auth"]
        /\ owner' = [owner EXCEPT ![s] = c]
        /\ UNCHANGED <<clients, closed, overlap>>
    BY <1>1 DEF Connect
  <2>2. \A d \in Client : clients[d] # 0 => clients[d] \in Session /\ clients[d] # s
    BY <2>1
  <2>3. SessionInv'
    BY <2>1
  <2>4. OverlapInv'
    BY <2>1
  <2>5. RegisteredIsOpen'
    BY <2>1, <2>2
  <2>6. ServedIsRegistered'
    BY <2>1
  <2> QED
    BY <2>3, <2>4, <2>5, <2>6
<1>2. ASSUME NEW s \in Session, Register(s)
      PROVE  TableInv'
  <2>1. /\ reader[s] = "auth" /\ reader' = [reader EXCEPT ![s] = "reading"]
        /\ clients' = [clients EXCEPT ![owner[s]] = s]
        /\ UNCHANGED <<owner, closed>>
    BY <1>2 DEF Register
  <2>2. overlap \subseteq overlap' /\ (Leavers(owner[s]) # {} =>
            s \in overlap' /\ Leavers(owner[s]) \subseteq overlap')
    BY <1>2 DEF Register
  <2>3. \A t \in Session : owner[t] = owner[s] /\ reader[t] \in {"reading", "leaving"}
            => t \in Leavers(owner[s])
    BY DEF Leavers
  <2>4. owner[s] \in Client /\ s \notin closed
    BY <2>1
  <2>5. SessionInv'
    BY <2>1, <2>4
  <2>6. OverlapInv'
    BY <2>1, <2>2, <2>3
  <2>7. RegisteredIsOpen'
    BY <2>1, <2>4
  <2>8. ServedIsRegistered'
    BY <2>1, <2>2, <2>3, <2>4
  <2> QED
    BY <2>5, <2>6, <2>7, <2>8
<1>3. ASSUME NEW s \in Session, Unregister(s)
      PROVE  TableInv'
  <2>1. /\ reader[s] = "leaving" /\ reader' = [reader EXCEPT ![s] = "removed"]
        /\ clients' = [clients EXCEPT ![owner[s]] = 0]
        /\ UNCHANGED <<owner, closed, overlap>>
    BY <1>3 DEF Unregister
  <2>2. owner[s] \in Client /\ s \notin closed
    BY <2>1
  <2>3. SessionInv'
    BY <2>1, <2>2
  <2>4. OverlapInv'
    BY <2>1
  <2>5. RegisteredIsOpen'
    BY <2>1, <2>2
  <2>6. ServedIsRegistered'
    BY <2>1, <2>2
  <2> QED
    BY <2>3, <2>4, <2>5, <2>6
<1>4. ASSUME NEW s \in Session, CloseSend(s)
      PROVE  TableInv'
  <2>1. /\ reader[s] = "removed" /\ reader' = [reader EXCEPT ![s] = "closing"]
        /\ closed' = closed \cup {s}
        /\ UNCHANGED <<owner, clients, overlap>>
    BY <1>4 DEF CloseSend
  <2>2. SessionInv'
    BY <2>1
  <2>3. OverlapInv'
    BY <2>1
  <2>4. RegisteredIsOpen'
    BY <2>1
  <2>5. ServedIsRegistered'
    BY <2>1
  <2> QED
    BY <2>2, <2>3, <2>4, <2>5
<1>5. ASSUME NEW s \in Session, RejectClient(s) \/ ReadFails(s) \/ CloseSocket(s)
      PROVE  TableInv'
  <2>1. /\ \/ reader[s] = "auth" /\ reader' = [reader EXCEPT ![s] = "done"]
           \/ reader[s] = "reading" /\ reader' = [reader EXCEPT ![s] = "leaving"]
           \/ reader[s] = "closing" /\ reader' = [reader EXCEPT ![s] = "done"]
        /\ UNCHANGED <<owner, clients, closed, overlap>>
    BY <1>5 DEF RejectClient, ReadFails, CloseSocket
  <2>2. SessionInv'
    BY <2>1
  <2>3. OverlapInv'
    BY <2>1
  <2>4. RegisteredIsOpen'
    BY <2>1
  <2>5. ServedIsRegistered'
    BY <2>1
  <2> QED
    BY <2>2, <2>3, <2>4, <2>5
<1>6. ASSUME UNCHANGED <<owner, clients, closed, reader, overlap>>
      PROVE  TableInv'
  BY <1>6
<1>7. ASSUME NEW x \in Sender, Crash(x)
      PROVE  TableInv'
  <2>1. /\ reader' = [s \in Session |-> IF reader[s] = "none" THEN "none" ELSE "done"]
        /\ clients' = [c \in Client |-> 0]
        /\ UNCHANGED <<owner, closed, overlap>>
    BY <1>7 DEF Crash
  <2> QED
    BY <2>1
<1> QED
  <2>1. CASE \E s \in Session, c \in Client : Connect(s, c)
    BY <2>1, <1>1
  <2>2. CASE \E s \in Session : ReaderNext(s)
    BY <2>2, <1>2, <1>3, <1>4, <1>5 DEF ReaderNext
  <2>3. CASE \E s \in Session : WriterNext(s)
    BY <2>3, <1>6 DEF WriterNext, Write, WriteFails, WriteClose
  <2>4. CASE \E s \in Session : PingFails(s) \/ Break(s)
    BY <2>4, <1>6 DEF PingFails, Break
  <2>5. CASE \E x \in Sender : SenderNext(x)
    BY <2>5, <1>6, <1>7 DEF SenderNext, Lookup, Send, SendPanics
  <2>6. CASE UNCHANGED vars
    BY <2>6, <1>6 DEF vars
  <2> QED
    BY <2>1, <2>2, <2>3, <2>4, <2>5, <2>6 DEF Next

\* The inductive invariant holds in every behaviour.
THEOREM InvCorrect == Spec => []IInv
<1>1. IInv /\ [Next]_vars => IInv'
  BY TypeStep, TableStep DEF IInv, TableInv
<1> QED
  BY InitInv, <1>1, PTL DEF Spec

\* TypeOK: no channel is ever fuller than its capacity, however many senders
\* there are.
THEOREM TypeOKCorrect == Spec => []TypeOK
  BY InvCorrect, PTL DEF IInv

\* RegisteredIsOpen: the table never leads to a closed channel (hub.go:139-146).
THEOREM RegisteredIsOpenCorrect == Spec => []RegisteredIsOpen
  BY InvCorrect, PTL DEF IInv

\* ServedIsRegistered: a client that was never connected twice at once is
\* reachable as long as it is served (hub.go:81-83, 139-142).
THEOREM ServedIsRegisteredCorrect == Spec => []ServedIsRegistered
  BY InvCorrect, PTL DEF IInv
=============================================================================
