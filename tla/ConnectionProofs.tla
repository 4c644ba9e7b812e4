-------------------------- MODULE ConnectionProofs --------------------------
(***************************************************************************)
(* Proofs about Connection: the descriptors of the connections and the     *)
(* events of their loop; then what is in flight on the socket of a         *)
(* connection, and what the connection thinks is, with the refinement of   *)
(* Turns, from what the operations of the program do to a socket and from  *)
(* the descriptors being the connections' own.  From the same stations:    *)
(* every error that is counted has a cause of its own outside the program. *)
(***************************************************************************)
EXTENDS ConnectionTurns, SequenceTheorems, FiniteSetTheorems, TLAPS

\* A connection that was never opened has no descriptor.
UnbornUnopened == \A c \in unborn : fd[c] = NoFd

\* What the event loop knows between its steps.
InDispatch == {"writable", "read", "parse", "eof"}
InRead == {"read", "parse", "eof"}

CurInv ==
    /\ pc \in InDispatch <=> cur \in Fd
    /\ pc \in {"timers", "poll", "done"} => \A f \in Fd : fired[f] = {}

\* Readiness left in the fired array belongs to sockets that are older than
\* the poll, but for the descriptor that is being dispatched...
FiredInv ==
    \A f \in Fd : f \in fresh \/ sock[f] = Closed => fired[f] = {} \/ f = cur

\* ... and that one, when it was opened again, has one handler for both
\* directions, which has run.
CurFreshInv ==
    pc \in InDispatch /\ cur \in fresh =>
        rfired /\ (events[cur].mask = {} \/ events[cur].rproc = events[cur].wproc)

\* socket_readable works for the connection of the descriptor that fired; once
\* that connection was opened again only its errors are handled.
ReaderInv ==
    pc \in InRead =>
        /\ reader \in Conn /\ fd[reader] \in Fd /\ rfired
        /\ fd[reader] = cur \/ fd[reader] \in fresh
        /\ fd[reader] \in fresh => parser[reader] = "dead" \/ pc = "eof"

DescriptorInv ==
    /\ OwnDescriptor
    /\ UnbornUnopened
    /\ CurInv
    /\ FiredInv
    /\ CurFreshInv
    /\ ReaderInv

IInv == TypeOK /\ DescriptorInv

-----------------------------------------------------------------------------
(* Types.                                                                   *)

Errors == [connect : Nat, read : Nat, write : Nat]

\* A batch has at least one chunk.
LEMMA LengthPositive == Length \in Nat \ {0}
BY ConnectionAssumption DEF Length

\* The socket connect_socket makes is well formed.
LEMMA NewSocketType == \A state \in SocketStates : Socket(state) \in Sockets
BY ConnectionAssumption DEF Socket, Sockets

\* The operations of the event table keep its type.
LEMMA EventTypes ==
    ASSUME NEW table \in [Fd -> Entries], NEW f, NEW mask \in SUBSET RW,
           NEW proc \in Handlers, NEW c \in Conn, NEW sk
    PROVE  /\ aeCreateFileEvent(table, f, mask, proc, c) \in [Fd -> Entries]
           /\ aeDeleteFileEvent(table, f, mask) \in [Fd -> Entries]
           /\ Register(table, sk, f, mask, proc, c) \in [Fd -> Entries]
<1>1. aeCreateFileEvent(table, f, mask, proc, c) \in [Fd -> Entries]
  BY DEF aeCreateFileEvent, Entries
<1>2. aeDeleteFileEvent(table, f, mask) \in [Fd -> Entries]
  BY DEF aeDeleteFileEvent, Entries
<1> QED
  BY <1>1, <1>2 DEF Register

\* Counting an error keeps the type of thread->errors.
LEMMA ErrorTypes ==
    ASSUME NEW err \in Errors, NEW kind \in {"connect", "read", "write"}
    PROVE  CountError(err, kind) \in Errors
BY DEF CountError, Errors

\* connect_socket keeps the types of what it writes, whichever way it ends.
LEMMA ConnectTypes ==
    ASSUME SocketTypes, NEW c \in Conn,
           NEW table \in [Fd -> Entries], NEW sk \in [Fd -> Sockets], NEW err \in Errors,
           connect_socket(c, table, sk, err)
    PROVE  SocketTypes'
<1>1. CASE UNCHANGED <<fd, fresh>> /\ sock' = sk /\ events' = table /\ faults' = faults + 1
           /\ errors' = CountError(err, "connect")
  BY <1>1, ErrorTypes DEF SocketTypes, Errors
<1>2. ASSUME NEW f \in Fd,
             sock' = [sk EXCEPT ![f] = Socket("connecting")],
             fd' = [fd EXCEPT ![c] = f],
             events' = aeCreateFileEvent(table, f, RW, "socket_connected", c),
             fresh' = fresh \cup {f}, errors' = err, UNCHANGED faults
      PROVE  SocketTypes'
  <2>1. events' \in [Fd -> Entries]
    BY <1>2, EventTypes DEF Handlers
  <2>2. sock' \in [Fd -> Sockets]
    BY <1>2, NewSocketType DEF SocketStates
  <2> QED
    BY <1>2, <2>1, <2>2 DEF SocketTypes, Errors
<1> QED
  BY <1>1, <1>2 DEF connect_socket

\* ... and so does reconnect_socket, which closes first.
LEMMA ReconnectTypes ==
    ASSUME SocketTypes, NEW c \in Conn, NEW err \in Errors, reconnect_socket(c, err)
    PROVE  SocketTypes'
<1> DEFINE table == aeDeleteFileEvent(events, fd[c], RW)
           sk == [sock EXCEPT ![fd[c]] = Closed]
<1>1. table \in [Fd -> Entries]
  BY EventTypes DEF SocketTypes, Handlers
<1>2. sk \in [Fd -> Sockets]
  BY NewSocketType DEF SocketTypes, Closed, SocketStates
<1>3. connect_socket(c, table, sk, err)
  BY DEF reconnect_socket
<1> HIDE DEF table, sk
<1> QED
  BY <1>1, <1>2, <1>3, ConnectTypes

\* The error of a handler that reconnects is counted first.
LEMMA FailureTypes ==
    ASSUME SocketTypes, NEW c \in Conn, NEW kind \in {"connect", "read", "write"},
           reconnect_socket(c, CountError(errors, kind))
    PROVE  SocketTypes'
<1>1. CountError(errors, kind) \in Errors
  BY ErrorTypes DEF SocketTypes, Errors
<1> QED
  BY <1>1, ReconnectTypes

\* socket_connected keeps the types, in each outcome of the handshake.
LEMMA ConnectedTypes ==
    ASSUME SocketTypes, BatchTypes, NEW f, NEW c \in Conn, socket_connected(f, c)
    PROVE  SocketTypes' /\ BatchTypes'
<1>1. CASE HandshakeDone(f, c)
  <2>1. Register(events, sock, f, {R}, "socket_readable", c) \in [Fd -> Entries]
    BY EventTypes DEF SocketTypes, Handlers, RW
  <2>2. events' \in [Fd -> Entries]
    BY <1>1, <2>1, EventTypes DEF HandshakeDone, Handlers, RW
  <2>3. SocketTypes'
    BY <1>1, <2>2 DEF HandshakeDone, SocketTypes
  <2>4. BatchTypes'
    BY <1>1, LengthPositive DEF HandshakeDone, WriteFromStart, BatchTypes
  <2> QED
    BY <2>3, <2>4
<1>2. CASE HandshakeRetry(f, c)
  BY <1>2 DEF HandshakeRetry, connVars, BatchTypes, SocketTypes
<1>3. CASE HandshakeError(f, c)
  <2>1. SocketTypes'
    BY <1>3, FailureTypes DEF HandshakeError
  <2>2. BatchTypes'
    BY <1>3 DEF HandshakeError, BatchTypes
  <2> QED
    BY <2>1, <2>2
<1> QED
  BY <1>1, <1>2, <1>3 DEF socket_connected

\* What write() hands to the peer leaves its socket well formed.
LEMMA ReceiveTypes ==
    ASSUME NEW s \in Sockets, NEW from \in Nat, NEW n \in Nat
    PROVE  Receive(s, from, n) \in Sockets
<1>1. s.rx + n \in Nat /\ s.owed \in Int /\ s.garbled \in BOOLEAN
  BY ConnectionAssumption DEF Sockets
<1>2. (s.rx + n) % ReqLen \in 0..ReqLen - 1
  BY <1>1, ConnectionAssumption
<1>3. s.owed + (s.rx + n) \div ReqLen \in Int
  BY <1>1, ConnectionAssumption
<1>4. (s.garbled \/ from % ReqLen # s.rx) \in BOOLEAN
  BY <1>1
<1> QED
  BY <1>2, <1>3, <1>4 DEF Receive, Received, Sockets

\* The bookkeeping at the first byte of a batch keeps the types.
LEMMA BeginBatchTypes ==
    ASSUME BatchTypes, NEW c \in Conn, BeginBatch(c), UNCHANGED <<complete, parser, timers>>,
           written' \in [Conn -> 0..Length - 1]
    PROVE  BatchTypes'
<1>1. Pipeline \in 0..Word - 1
  BY ConnectionAssumption
<1>2. /\ pending \in [Conn -> 0..Word - 1] /\ has_pending \in [Conn -> BOOLEAN]
      /\ complete \in [Conn -> Nat] /\ batchStart \in [Conn -> Nat] /\ lastBatch \in [Conn -> Nat]
  BY DEF BatchTypes
<1>3. CASE AtStart(c)
  <2>1. pending' \in [Conn -> 0..Word - 1]
    BY <1>1, <1>2, <1>3 DEF BeginBatch
  <2>2. has_pending' \in [Conn -> BOOLEAN]
    BY <1>2, <1>3 DEF BeginBatch
  <2>3. batchStart' \in [Conn -> Nat] /\ lastBatch' \in [Conn -> Nat]
    BY <1>2, <1>3 DEF BeginBatch
  <2> QED
    BY <2>1, <2>2, <2>3 DEF BatchTypes
<1>4. CASE ~AtStart(c)
  BY <1>4 DEF BeginBatch, BatchTypes
<1> QED
  BY <1>3, <1>4

\* socket_writeable keeps the types: a partial write never passes c->length.
LEMMA WriteableTypes ==
    ASSUME SocketTypes, BatchTypes, NEW f, NEW c \in Conn, socket_writeable(f, c)
    PROVE  SocketTypes' /\ BatchTypes'
<1>1. aeDeleteFileEvent(events, f, {W}) \in [Fd -> Entries]
  BY EventTypes DEF SocketTypes, Handlers, RW
<1>2. CASE DelayBatch(f, c)
  <2>1. SocketTypes'
    BY <1>1, <1>2 DEF DelayBatch, connVars, SocketTypes
  <2>2. BatchTypes'
    BY <1>2 DEF DelayBatch, connVars, BatchTypes
  <2> QED
    BY <2>1, <2>2
<1>3. CASE WriteSome(f, c)
  <2> PICK n \in 1..(Length - written[c]) :
         /\ sock' = [sock EXCEPT ![fd[c]] = Receive(@, written[c], n)]
         /\ IF BatchWritten(c, n)
            THEN /\ written' = [written EXCEPT ![c] = 0]
                 /\ events' = aeDeleteFileEvent(events, f, {W})
            ELSE /\ written' = [written EXCEPT ![c] = @ + n]
                 /\ UNCHANGED events
    BY <1>3 DEF WriteSome
  <2>1. written[c] \in 0..Length - 1 /\ n \in Nat
    BY LengthPositive DEF BatchTypes
  <2>2. ~BatchWritten(c, n) => written[c] + n \in 0..Length - 1
    BY <2>1, LengthPositive DEF BatchWritten
  <2>3. written' \in [Conn -> 0..Length - 1]
    BY <2>2, LengthPositive DEF BatchTypes
  <2>4. events' \in [Fd -> Entries]
    BY <1>1 DEF SocketTypes
  <2>5. written[c] \in Nat
    BY <2>1, LengthPositive
  <2>6. sock' \in [Fd -> Sockets]
    BY <2>1, <2>5, ReceiveTypes DEF SocketTypes
  <2>7. SocketTypes'
    BY <1>3, <2>4, <2>6 DEF WriteSome, SocketTypes
  <2>8. BatchTypes'
    BY <1>3, <2>3, BeginBatchTypes DEF WriteSome
  <2> QED
    BY <2>7, <2>8
<1>4. CASE WriteRetry(f, c)
  <2>1. /\ BeginBatch(c) /\ UNCHANGED <<complete, parser, timers>>
        /\ UNCHANGED <<fd, events, errors, faults, fresh>>
    BY <1>4 DEF WriteRetry
  <2>2. CASE UNCHANGED <<written, sock>>
    <3>1. SocketTypes'
      BY <2>1, <2>2 DEF SocketTypes
    <3>2. BatchTypes'
      BY <2>1, <2>2, BeginBatchTypes DEF BatchTypes
    <3> QED
      BY <3>1, <3>2
  <2>3. ASSUME NEW n \in 1..(Length - written[c] - 1),
               sock' = [sock EXCEPT ![fd[c]] = Receive(@, written[c], n)],
               written' = [written EXCEPT ![c] = @ + n]
        PROVE  SocketTypes' /\ BatchTypes'
    <3>1. written[c] \in 0..Length - 1 /\ n \in Nat
      BY LengthPositive DEF BatchTypes
    <3>2. written[c] + n \in 0..Length - 1 /\ written[c] \in Nat
      BY <3>1, LengthPositive
    <3>3. written' \in [Conn -> 0..Length - 1]
      BY <2>3, <3>2 DEF BatchTypes
    <3>4. sock' \in [Fd -> Sockets]
      BY <2>3, <3>1, <3>2, ReceiveTypes DEF SocketTypes
    <3>5. SocketTypes'
      BY <2>1, <3>4 DEF SocketTypes
    <3>6. BatchTypes'
      BY <2>1, <3>3, BeginBatchTypes
    <3> QED
      BY <3>5, <3>6
  <2> QED
    BY <1>4, <2>2, <2>3 DEF WriteRetry
<1>5. CASE WriteError(f, c)
  <2>1. SocketTypes'
    BY <1>5, FailureTypes DEF WriteError
  <2>2. BatchTypes'
    BY <1>5, BeginBatchTypes DEF WriteError, BatchTypes
  <2> QED
    BY <2>1, <2>2
<1> QED
  BY <1>2, <1>3, <1>4, <1>5 DEF socket_writeable

\* response_complete keeps the types, the decrement of a zero pending included.
LEMMA ResponseTypes ==
    ASSUME SocketTypes, BatchTypes, NEW c \in Conn,
           NEW state \in {"start", "untilEof", "dead"}, NEW keepAlive \in BOOLEAN,
           due \in [Conn -> BOOLEAN], stop \in BOOLEAN,
           response_complete(c, state, keepAlive), UNCHANGED <<timers, lastBatch>>
    PROVE  SocketTypes' /\ BatchTypes' /\ due' \in [Conn -> BOOLEAN] /\ stop' \in BOOLEAN
<1>1. CASE LastResponse(c, state)
  <2>1. SocketTypes'
    BY <1>1 DEF LastResponse, SocketTypes
  <2>2. BatchTypes'
    BY <1>1 DEF LastResponse, BatchTypes
  <2> QED
    BY <1>1, <2>1, <2>2 DEF LastResponse
<1>2. CASE NextResponse(c, state, keepAlive)
  <2> DEFINE left == (pending[c] + Word - 1) % Word
  <2>1. left \in 0..Word - 1
    <3>1. pending[c] + Word - 1 \in Nat /\ Word \in Nat \ {0}
      BY ConnectionAssumption DEF BatchTypes
    <3> QED
      BY <3>1
  <2>2. /\ complete' = [complete EXCEPT ![c] = @ + 1]
        /\ due' = [due EXCEPT ![c] = FALSE]
        /\ pending' = [pending EXCEPT ![c] = left]
        /\ has_pending' = PendingAfter(c, left)
        /\ UNCHANGED <<written, batchStart, stop>>
    BY <1>2 DEF NextResponse
  <2> HIDE DEF left
  <2>3. parser' \in [Conn -> {"start", "untilEof", "dead"}]
    BY <1>2 DEF NextResponse, BatchTypes
  <2>4. has_pending' \in [Conn -> BOOLEAN]
    BY <2>2 DEF PendingAfter, BatchTypes
  <2>. complete' \in [Conn -> Nat]
    BY <2>2 DEF BatchTypes
  <2>. pending' \in [Conn -> 0..Word - 1]
    BY <2>1, <2>2 DEF BatchTypes
  <2>5. BatchTypes'
    BY <2>2, <2>3, <2>4 DEF BatchTypes
  <2>6. CASE keepAlive
    <3>1. events' = EventsAfter(c, left) /\ UNCHANGED <<fd, errors, sock, faults, fresh>>
      BY <1>2, <2>6 DEF NextResponse, left
    <3>2. EventsAfter(c, left) \in [Fd -> Entries]
      BY EventTypes DEF EventsAfter, SocketTypes, Handlers, RW
    <3> QED
      BY <2>2, <2>5, <3>1, <3>2 DEF SocketTypes
  <2>7. CASE ~keepAlive
    <3>1. reconnect_socket(c, errors)
      BY <1>2, <2>7 DEF NextResponse
    <3>2. SocketTypes'
      BY <3>1, ReconnectTypes DEF SocketTypes, Errors
    <3> QED
      BY <2>2, <2>5, <3>2
  <2> QED
    BY <2>6, <2>7
<1> QED
  BY <1>1, <1>2 DEF response_complete

\* A registration is for a connection, and so is a running socket_readable.
LEMMA ReaderTypes ==
    ASSUME TypeOK, ReaderInv, pc \in InRead
    PROVE  /\ reader \in Conn /\ fd[reader] \in Fd
           /\ sock[fd[reader]] \in Sockets
           /\ sock[fd[reader]].inbox \in Seq(ReplyKinds)
BY DEF TypeOK, ReaderInv, SocketTypes, Sockets

\* read() takes what is in the socket, at most RECVBUF of it.
LEMMA ReadTypes ==
    ASSUME TypeOK, ReaderInv, ReadData
    PROVE  TypeOK'
<1> DEFINE in == sock[fd[reader]].inbox
           n == IF Len(in) < RecvBuf THEN Len(in) ELSE RecvBuf
<1>1. in \in Seq(ReplyKinds) /\ fd[reader] \in Fd /\ sock[fd[reader]] \in Sockets
  BY ReaderTypes DEF ReadData, InRead
<1>2. n \in 0..Len(in) /\ Len(in) \in Nat
  BY <1>1, ConnectionAssumption
<1>3. SubSeq(in, 1, n) \in Seq(ReplyKinds) /\ SubSeq(in, n + 1, Len(in)) \in Seq(ReplyKinds)
  BY <1>1, <1>2
<1>4. sock' = [sock EXCEPT ![fd[reader]].inbox = SubSeq(in, n + 1, Len(in))]
  BY DEF ReadData
<1>5. sock' \in [Fd -> Sockets]
  BY <1>1, <1>3, <1>4 DEF TypeOK, SocketTypes, Sockets
<1>6. SocketTypes'
  BY <1>5 DEF ReadData, TypeOK, SocketTypes, connVars, bounds
<1>7. BatchTypes'
  BY DEF ReadData, TypeOK, BatchTypes, connVars
<1>8. buf' \in Seq(ReplyKinds) /\ again' \in BOOLEAN
  BY <1>3 DEF ReadData
<1>9. LoopTypes'
  BY <1>8 DEF ReadData, TypeOK, LoopTypes, connVars, pace, bounds
<1> QED
  BY <1>6, <1>7, <1>9 DEF TypeOK

\* Leaving socket_readable keeps the types of the loop.
LEMMA ReturnTypes ==
    ASSUME LoopTypes, ReturnFromRead
    PROVE  /\ pc' = "writable" /\ reader' = NoConn /\ again' = FALSE
           /\ buf' \in Seq(ReplyKinds)
           /\ UNCHANGED <<fired, cur, rfired, stop>>
BY DEF ReturnFromRead

\* The error exit of socket_readable keeps the types.
LEMMA ReadFailsTypes ==
    ASSUME TypeOK, ReaderInv, pc \in InRead, ReadFails,
           parser' \in [Conn -> {"start", "untilEof", "dead"}]
    PROVE  TypeOK'
<1>1. SocketTypes'
  BY ReaderTypes, FailureTypes DEF ReadFails, TypeOK
<1>2. BatchTypes'
  BY DEF ReadFails, TypeOK, BatchTypes
<1>3. LoopTypes'
  BY ReturnTypes DEF ReadFails, TypeOK, LoopTypes, pace
<1> QED
  BY <1>1, <1>2, <1>3 DEF TypeOK

\* Every step of socket_readable keeps the types.
LEMMA HandlerTypes ==
    ASSUME TypeOK, ReaderInv, Handler
    PROVE  TypeOK'
<1>1. CASE ReadData
  BY <1>1, ReadTypes
<1>2. CASE ReadEofOfBody
  <2>1. pc \in InRead /\ response_complete(reader, "untilEof", FALSE)
    BY <1>2 DEF ReadEofOfBody, InRead
  <2>2. SocketTypes' /\ BatchTypes' /\ due' \in [Conn -> BOOLEAN] /\ stop' \in BOOLEAN
    BY <1>2, <2>1, ReaderTypes, ResponseTypes DEF ReadEofOfBody, TypeOK, LoopTypes
  <2>3. LoopTypes'
    BY <1>2, <2>2 DEF ReadEofOfBody, TypeOK, LoopTypes
  <2> QED
    BY <2>2, <2>3 DEF TypeOK
<1>3. CASE ReadError
  <2>1. pc \in InRead /\ ReadFails /\ UNCHANGED parser
    BY <1>3 DEF ReadError, InRead
  <2> QED
    BY <2>1, ReadFailsTypes DEF TypeOK, BatchTypes
<1>4. CASE ReadRetry
  <2>1. SocketTypes' /\ BatchTypes'
    BY <1>4 DEF ReadRetry, TypeOK, SocketTypes, BatchTypes, connVars, bounds
  <2>2. LoopTypes'
    BY <1>4, ReturnTypes DEF ReadRetry, TypeOK, LoopTypes, pace, bounds
  <2> QED
    BY <2>1, <2>2 DEF TypeOK
<1>5. CASE ParseResponse
  <2>1. pc \in InRead
    BY <1>5 DEF ParseResponse, InRead
  <2>2. \/ response_complete(reader, "start", TRUE)
        \/ response_complete(reader, "dead", FALSE)
    BY <1>5 DEF ParseResponse
  <2>3. SocketTypes' /\ BatchTypes' /\ due' \in [Conn -> BOOLEAN] /\ stop' \in BOOLEAN
    BY <1>5, <2>1, <2>2, ReaderTypes, ResponseTypes DEF ParseResponse, TypeOK, LoopTypes
  <2>4. buf' \in Seq(ReplyKinds)
    BY <1>5 DEF ParseResponse, TypeOK, LoopTypes
  <2>5. LoopTypes'
    BY <1>5, <2>3, <2>4 DEF ParseResponse, TypeOK, LoopTypes
  <2> QED
    BY <2>3, <2>5 DEF TypeOK
<1>6. CASE ParseOpenBody
  <2>1. SocketTypes'
    BY <1>6 DEF ParseOpenBody, TypeOK, SocketTypes, bounds
  <2>2. BatchTypes'
    BY <1>6 DEF ParseOpenBody, TypeOK, BatchTypes
  <2>3. buf' \in Seq(ReplyKinds)
    BY <1>6 DEF ParseOpenBody, TypeOK, LoopTypes
  <2>4. LoopTypes'
    BY <1>6, <2>3 DEF ParseOpenBody, TypeOK, LoopTypes, pace, bounds
  <2> QED
    BY <2>1, <2>2, <2>4 DEF TypeOK
<1>7. CASE ParseError
  <2>1. pc \in InRead /\ ReadFails
    BY <1>7 DEF ParseError, InRead
  <2>2. parser' \in [Conn -> {"start", "untilEof", "dead"}]
    BY <1>7 DEF ParseError, TypeOK, BatchTypes
  <2> QED
    BY <2>1, <2>2, ReadFailsTypes
<1>8. CASE ParseEnd
  <2>1. SocketTypes' /\ BatchTypes'
    BY <1>8 DEF ParseEnd, TypeOK, SocketTypes, BatchTypes, connVars, bounds
  <2>2. LoopTypes'
    BY <1>8, ReturnTypes DEF ParseEnd, TypeOK, LoopTypes, pace, bounds
  <2> QED
    BY <2>1, <2>2 DEF TypeOK
<1> QED
  BY <1>1, <1>2, <1>3, <1>4, <1>5, <1>6, <1>7, <1>8 DEF Handler

\* The data of a registration that is consulted is a connection of the thread.
LEMMA DispatchTypes ==
    ASSUME TypeOK, OwnDescriptor, NEW f \in Fd,
           DispatchReadable(f) \/ (DispatchWritable /\ cur = f)
    PROVE  events[f].data \in Conn /\ fd[events[f].data] = f /\ sock[f] # Closed
BY DEF DispatchReadable, DispatchWritable, RunsRead, RunsWrite, OwnDescriptor

\* Dispatching one half of an entry keeps the types.
LEMMA DispatchStepTypes ==
    ASSUME TypeOK, OwnDescriptor, CurInv, NEW f \in Fd,
           DispatchReadable(f) \/ DispatchNotReadable(f)
           \/ (cur = f /\ (DispatchWritable \/ DispatchNotWritable))
    PROVE  TypeOK'
<1>1. CASE DispatchReadable(f)
  <2>1. events[f].data \in Conn
    BY <1>1, DispatchTypes
  <2>2. SocketTypes' /\ BatchTypes'
    <3>1. CASE events[f].rproc = "socket_connected"
      BY <1>1, <2>1, <3>1, ConnectedTypes DEF DispatchReadable, TypeOK
    <3>2. CASE events[f].rproc # "socket_connected"
      BY <1>1, <3>2 DEF DispatchReadable, TypeOK, SocketTypes, BatchTypes, connVars
    <3> QED
      BY <3>1, <3>2
  <2>3. LoopTypes'
    BY <1>1, <2>1 DEF DispatchReadable, TypeOK, LoopTypes, pace
  <2> QED
    BY <2>2, <2>3 DEF TypeOK
<1>2. CASE DispatchNotReadable(f)
  <2>1. SocketTypes' /\ BatchTypes'
    BY <1>2 DEF DispatchNotReadable, TypeOK, SocketTypes, BatchTypes, connVars, bounds
  <2>2. LoopTypes'
    BY <1>2 DEF DispatchNotReadable, TypeOK, LoopTypes, pace, bounds
  <2> QED
    BY <2>1, <2>2 DEF TypeOK
<1>3. CASE cur = f /\ DispatchWritable
  <2>1. events[f].data \in Conn
    BY <1>3, DispatchTypes
  <2>2. \/ socket_connected(f, events[f].data)
        \/ socket_writeable(f, events[f].data)
    BY <1>3 DEF DispatchWritable
  <2>3. SocketTypes' /\ BatchTypes'
    BY <2>1, <2>2, ConnectedTypes, WriteableTypes DEF TypeOK
  <2>4. LoopTypes'
    BY <1>3 DEF DispatchWritable, TypeOK, LoopTypes, pace
  <2> QED
    BY <2>3, <2>4 DEF TypeOK
<1>4. CASE cur = f /\ DispatchNotWritable
  <2>1. SocketTypes' /\ BatchTypes'
    BY <1>4 DEF DispatchNotWritable, TypeOK, SocketTypes, BatchTypes, connVars, bounds
  <2>2. LoopTypes'
    BY <1>4 DEF DispatchNotWritable, TypeOK, LoopTypes, pace, bounds
  <2> QED
    BY <2>1, <2>2 DEF TypeOK
<1> QED
  BY <1>1, <1>2, <1>3, <1>4

\* The timer handlers keep the types.
LEMMA TimerStepTypes ==
    ASSUME TypeOK, NEW c \in Conn, delayed_initial_connect(c) \/ delay_request(c)
    PROVE  TypeOK'
<1>1. CASE delayed_initial_connect(c)
  <2>1. connect_socket(c, events, sock, errors)
    BY <1>1 DEF delayed_initial_connect
  <2>2. SocketTypes'
    BY <2>1, ConnectTypes DEF TypeOK, SocketTypes, Errors
  <2>3. BatchTypes'
    BY <1>1 DEF delayed_initial_connect, TypeOK, BatchTypes
  <2>4. LoopTypes'
    BY <1>1 DEF delayed_initial_connect, TypeOK, LoopTypes, pace, loopVars
  <2> QED
    BY <2>2, <2>3, <2>4 DEF TypeOK
<1>2. CASE delay_request(c)
  <2>1. Register(events, sock, fd[c], {W}, "socket_writeable", c) \in [Fd -> Entries]
    BY EventTypes DEF TypeOK, SocketTypes, Handlers, RW
  <2>2. SocketTypes'
    BY <1>2, <2>1 DEF delay_request, TypeOK, SocketTypes, connVars, bounds
  <2>3. timers' \in [Conn -> Nat]
    BY <1>2 DEF delay_request, TypeOK, BatchTypes
  <2>4. BatchTypes'
    BY <1>2, <2>3 DEF delay_request, TypeOK, BatchTypes, connVars
  <2>5. LoopTypes'
    BY <1>2 DEF delay_request, TypeOK, LoopTypes, pace, loopVars, bounds
  <2> QED
    BY <2>2, <2>4, <2>5 DEF TypeOK
<1> QED
  BY <1>1, <1>2

\* epoll_wait reports directions only.
LEMMA PollTypes ==
    ASSUME TypeOK, Poll
    PROVE  TypeOK'
<1>1. \A f \in Fd : Reported(f) \in SUBSET RW
  BY DEF Reported, Ready, RW
<1>2. fired' \in [Fd -> SUBSET RW]
  BY <1>1 DEF Poll
<1>3. SocketTypes' /\ BatchTypes'
  BY DEF Poll, TypeOK, SocketTypes, BatchTypes, connVars, bounds
<1>4. LoopTypes'
  BY <1>2 DEF Poll, TypeOK, LoopTypes, pace, bounds
<1> QED
  BY <1>3, <1>4 DEF TypeOK

\* Every step of the event loop keeps the types.
LEMMA LoopStepTypes ==
    ASSUME TypeOK, OwnDescriptor, CurInv, Loop
    PROVE  TypeOK'
<1>1. CASE Poll
  BY <1>1, PollTypes
<1>2. CASE EndDispatch \/ EndTimers \/ check_timeouts
  <2>1. SocketTypes' /\ BatchTypes'
    BY <1>2 DEF EndDispatch, EndTimers, check_timeouts, TypeOK, SocketTypes, BatchTypes,
                connVars, bounds
  <2>2. LoopTypes'
    BY <1>2 DEF EndDispatch, EndTimers, check_timeouts, TypeOK, LoopTypes, pace, bounds
  <2> QED
    BY <2>1, <2>2 DEF TypeOK
<1>3. CASE DispatchWritable \/ DispatchNotWritable
  <2>1. cur \in Fd
    BY <1>3 DEF CurInv, InDispatch, DispatchWritable, DispatchNotWritable
  <2> QED
    BY <1>3, <2>1, DispatchStepTypes
<1>4. ASSUME NEW f \in Fd, DispatchReadable(f) \/ DispatchNotReadable(f)
      PROVE  TypeOK'
  BY <1>4, DispatchStepTypes
<1>5. ASSUME NEW c \in Conn, delayed_initial_connect(c) \/ delay_request(c)
      PROVE  TypeOK'
  BY <1>5, TimerStepTypes
<1> QED
  BY <1>1, <1>2, <1>3, <1>4, <1>5 DEF Loop

\* A step of the peer touches its own socket only.
LEMMA ServerStepTypes ==
    ASSUME TypeOK, NEW f \in Fd, NEW s \in Sockets, ServerStep(f, s),
           replies' \in Nat, faults' \in Nat
    PROVE  TypeOK'
<1>1. sock' \in [Fd -> Sockets]
  BY DEF ServerStep, TypeOK, SocketTypes
<1>2. SocketTypes'
  BY <1>1 DEF ServerStep, TypeOK, SocketTypes, connVars
<1>3. BatchTypes'
  BY DEF ServerStep, TypeOK, BatchTypes, connVars
<1>4. LoopTypes'
  BY DEF ServerStep, TypeOK, LoopTypes, loopVars, pace
<1> QED
  BY <1>2, <1>3, <1>4 DEF TypeOK

\* Every step of the peer and of the clock keeps the types.
LEMMA EnvironmentTypes ==
    ASSUME TypeOK, Environment
    PROVE  TypeOK'
<1>1. ASSUME NEW kind, Fault(kind)
      PROVE  faults' \in Nat
  BY <1>1 DEF Fault, TypeOK, SocketTypes
<1>2. ASSUME NEW f \in Fd, Accept(f)
      PROVE  TypeOK'
  BY <1>2, NewSocketType, ServerStepTypes DEF Accept, SocketStates, bounds, TypeOK, LoopTypes,
     SocketTypes
<1>3. ASSUME NEW f \in Fd, Refuse(f)
      PROVE  TypeOK'
  BY <1>1, <1>3, NewSocketType, ServerStepTypes DEF Refuse, SocketStates, TypeOK, LoopTypes
<1>4. ASSUME NEW f \in Fd, Close(f)
      PROVE  TypeOK'
  <2>1. [sock[f] EXCEPT !.fin = TRUE] \in Sockets
    BY DEF TypeOK, SocketTypes, Sockets
  <2> QED
    BY <1>1, <1>4, <2>1, ServerStepTypes DEF Close, TypeOK, LoopTypes, SocketTypes
<1>5. ASSUME NEW f \in Fd, Reset(f)
      PROVE  TypeOK'
  BY <1>1, <1>5, NewSocketType, ServerStepTypes DEF Reset, SocketStates, TypeOK, LoopTypes
<1>6. ASSUME NEW f \in Fd, NEW kind \in ReplyKinds, Reply(f, kind)
      PROVE  TypeOK'
  <2> DEFINE s == [sock[f] EXCEPT
                     !.inbox = Append(@, kind),
                     !.owed = IF kind = "interim" THEN @ ELSE @ - 1,
                     !.said = @ \/ kind \in {"close", "untilEof"}]
  <2>1. sock[f] \in Sockets
    BY DEF TypeOK, SocketTypes
  <2>2. Append(sock[f].inbox, kind) \in Seq(ReplyKinds)
    BY <2>1 DEF Sockets
  <2>3. sock[f].owed \in Int /\ sock[f].owed - 1 \in Int
    BY <2>1 DEF Sockets
  <2>4. (sock[f].said \/ kind \in {"close", "untilEof"}) \in BOOLEAN
    BY <2>1 DEF Sockets
  <2>5. s \in Sockets
    BY <2>1, <2>2, <2>3, <2>4 DEF Sockets
  <2>6. ServerStep(f, s) /\ replies' = replies + 1
    BY <1>6 DEF Reply
  <2>7. faults' \in Nat /\ replies' \in Nat
    BY <1>1, <1>6, <2>6 DEF Reply, TypeOK, LoopTypes, SocketTypes
  <2> QED
    BY <2>5, <2>6, <2>7, ServerStepTypes
<1>7. ASSUME NEW c \in Conn, BecomeDue(c)
      PROVE  TypeOK'
  <2>1. SocketTypes' /\ BatchTypes'
    BY <1>7 DEF BecomeDue, TypeOK, SocketTypes, BatchTypes, connVars, bounds
  <2>2. LoopTypes'
    BY <1>7 DEF BecomeDue, TypeOK, LoopTypes, loopVars, bounds
  <2> QED
    BY <2>1, <2>2 DEF TypeOK
<1>8. CASE Expire
  <2>1. SocketTypes' /\ BatchTypes'
    BY <1>8 DEF Expire, TypeOK, SocketTypes, BatchTypes, connVars, bounds
  <2>2. LoopTypes'
    BY <1>8 DEF Expire, TypeOK, LoopTypes, loopVars, bounds
  <2> QED
    BY <2>1, <2>2 DEF TypeOK
<1> QED
  BY <1>2, <1>3, <1>4, <1>5, <1>6, <1>7, <1>8 DEF Environment

\* The initial state has the types.
LEMMA InitTypes == Init => TypeOK
<1> SUFFICES ASSUME Init PROVE TypeOK
  OBVIOUS
<1>1. BatchTypes
  BY ConnectionAssumption, LengthPositive DEF Init, BatchTypes
<1>2. NoEvent("socket_connected", NoConn) \in Entries /\ Closed \in Sockets
  BY NewSocketType DEF NoEvent, Entries, Handlers, Closed, SocketStates
<1>3. SocketTypes
  BY <1>2 DEF Init, SocketTypes
<1>4. due \in [Conn -> BOOLEAN]
  BY Zenon DEF Init
<1>5. fired \in [Fd -> SUBSET RW] /\ <<>> \in Seq(ReplyKinds)
  BY DEF Init
<1>6. LoopTypes
  BY <1>4, <1>5 DEF Init, LoopTypes
<1> QED
  BY <1>1, <1>3, <1>6 DEF TypeOK

-----------------------------------------------------------------------------
(* Descriptors.                                                             *)

\* The initial state satisfies the descriptor invariant.
LEMMA InitDescriptors == Init => DescriptorInv
BY ConnectionAssumption DEF Init, DescriptorInv, OwnDescriptor, UnbornUnopened, CurInv, FiredInv,
   CurFreshInv, ReaderInv, InDispatch, InRead, NoEvent

\* A socket in any state but "closed" is not the closed one.
LEMMA SocketNotClosed ==
    /\ Socket("connecting") # Closed
    /\ Socket("open") # Closed
    /\ Socket("failed") # Closed
    /\ \A s \in Sockets : s.state # "closed" => s # Closed
<1>1. Closed.state = "closed"
  BY DEF Closed, Socket
<1>2. \A st : Socket(st).state = st
  BY DEF Socket
<1> QED
  BY <1>1, <1>2

\* No descriptor but c->fd is watched for c, and that one only while it is open.
Unwatched(table, c) == \A f \in Fd : table[f].mask # {} => table[f].data # c
Owned(table, sk) == \A f \in Fd : table[f].mask # {} =>
                       sk[f] # Closed /\ table[f].data \in Conn /\ fd[table[f].data] = f

\* connect_socket watches the new socket for c and touches no other entry; it
\* needs that nothing is watched for c on entry.
LEMMA ConnectDescriptors ==
    ASSUME TypeOK, NEW c \in Conn,
           NEW table \in [Fd -> Entries], NEW sk \in [Fd -> Sockets], NEW err,
           Owned(table, sk), Unwatched(table, c),
           connect_socket(c, table, sk, err)
    PROVE  /\ OwnDescriptor'
           /\ \A g \in Fd : sock'[g] = Closed => sk[g] = Closed
           /\ fresh \subseteq fresh'
           /\ \A g \in Fd \cap (fresh' \ fresh) :
                /\ sk[g] = Closed
                /\ events'[g].rproc = events'[g].wproc
           /\ \A g \in Fd : events'[g] = table[g] \/ events'[g].rproc = events'[g].wproc
           /\ \A d \in Conn : fd'[d] # fd[d] => d = c /\ fd'[d] \in fresh'
<1>1. CASE /\ errors' = CountError(err, "connect")
           /\ sock' = sk /\ events' = table
           /\ UNCHANGED <<fd, fresh>>
  BY <1>1 DEF OwnDescriptor, Owned
<1>2. ASSUME NEW f \in Fd, sk[f] = Closed,
             sock' = [sk EXCEPT ![f] = Socket("connecting")],
             fd' = [fd EXCEPT ![c] = f],
             events' = aeCreateFileEvent(table, f, RW, "socket_connected", c),
             fresh' = fresh \cup {f}
      PROVE  /\ OwnDescriptor'
             /\ \A g \in Fd : sock'[g] = Closed => sk[g] = Closed
             /\ fresh \subseteq fresh'
             /\ \A g \in Fd \cap (fresh' \ fresh) :
                  /\ sk[g] = Closed
                  /\ events'[g].rproc = events'[g].wproc
             /\ \A g \in Fd : events'[g] = table[g] \/ events'[g].rproc = events'[g].wproc
             /\ \A d \in Conn : fd'[d] # fd[d] => d = c /\ fd'[d] \in fresh'
  <2>1. fd \in [Conn -> Fd \cup {NoFd}]
    BY DEF TypeOK, SocketTypes
  <2>2. /\ events'[f].data = c
        /\ events'[f].rproc = events'[f].wproc
        /\ \A g \in Fd : g # f => events'[g] = table[g]
    BY <1>2 DEF aeCreateFileEvent, RW
  <2>3. fd'[c] = f /\ \A d \in Conn : d # c => fd'[d] = fd[d]
    BY <1>2, <2>1
  <2>4. sock'[f] # Closed /\ \A g \in Fd : g # f => sock'[g] = sk[g]
    BY <1>2, SocketNotClosed
  <2>5. OwnDescriptor'
    BY <2>2, <2>3, <2>4 DEF OwnDescriptor, Owned, Unwatched
  <2> QED
    BY <1>2, <2>2, <2>3, <2>4, <2>5
<1> QED
  BY <1>1, <1>2 DEF connect_socket

\* After reconnect_socket the only descriptor that may have been closed is the
\* one it found in c->fd.
LEMMA ReconnectDescriptors ==
    ASSUME TypeOK, OwnDescriptor, NEW c \in Conn, NEW err, reconnect_socket(c, err)
    PROVE  /\ OwnDescriptor'
           /\ \A g \in Fd : sock'[g] = Closed => sock[g] = Closed \/ g = fd[c]
           /\ fresh \subseteq fresh'
           /\ \A g \in Fd \cap (fresh' \ fresh) :
                /\ sock[g] = Closed \/ g = fd[c]
                /\ events'[g].rproc = events'[g].wproc
           /\ \A g \in Fd : \/ events'[g] = events[g]
                            \/ g = fd[c] /\ events'[g].mask = {}
                            \/ events'[g].rproc = events'[g].wproc
           /\ \A d \in Conn : fd'[d] # fd[d] => d = c /\ fd'[d] \in fresh'
<1> DEFINE table == aeDeleteFileEvent(events, fd[c], RW)
           sk == [sock EXCEPT ![fd[c]] = Closed]
<1>1. table \in [Fd -> Entries]
  BY EventTypes DEF TypeOK, SocketTypes, Handlers
<1>2. sk \in [Fd -> Sockets]
  BY NewSocketType DEF TypeOK, SocketTypes, Closed, SocketStates
<1>3. /\ \A g \in Fd : g # fd[c] => table[g] = events[g] /\ sk[g] = sock[g]
      /\ fd[c] \in Fd => table[fd[c]].mask = {}
  BY DEF aeDeleteFileEvent, TypeOK, SocketTypes, Entries
<1>4. Owned(table, sk) /\ Unwatched(table, c)
  BY <1>3 DEF Owned, Unwatched, OwnDescriptor
<1>5. connect_socket(c, table, sk, err)
  BY DEF reconnect_socket
<1> HIDE DEF table, sk
<1>6. /\ OwnDescriptor'
      /\ \A g \in Fd : sock'[g] = Closed => sk[g] = Closed
      /\ fresh \subseteq fresh'
      /\ \A g \in Fd \cap (fresh' \ fresh) : sk[g] = Closed /\ events'[g].rproc = events'[g].wproc
      /\ \A g \in Fd : events'[g] = table[g] \/ events'[g].rproc = events'[g].wproc
      /\ \A d \in Conn : fd'[d] # fd[d] => d = c /\ fd'[d] \in fresh'
  BY <1>1, <1>2, <1>4, <1>5, ConnectDescriptors
<1>7. \A g \in Fd : \/ events'[g] = events[g]
                    \/ g = fd[c] /\ events'[g].mask = {}
                    \/ events'[g].rproc = events'[g].wproc
  BY <1>3, <1>6
<1>8. \A g \in Fd : sk[g] = Closed => sock[g] = Closed \/ g = fd[c]
  BY <1>3
<1>9. \A g \in Fd : sock'[g] = Closed => sock[g] = Closed \/ g = fd[c]
  BY <1>6, <1>8
<1>10. \A g \in Fd \cap (fresh' \ fresh) :
         (sock[g] = Closed \/ g = fd[c]) /\ events'[g].rproc = events'[g].wproc
  BY <1>6, <1>8
<1> QED
  BY <1>6, <1>7, <1>9, <1>10
\* Registering a handler of c for c->fd leaves every watched descriptor its
\* connection's own.
LEMMA RegisterOwned ==
    ASSUME NEW table \in [Fd -> Entries], NEW c \in Conn, NEW mask, NEW proc, Owned(table, sock)
    PROVE  /\ Owned(Register(table, sock, fd[c], mask, proc, c), sock)
           /\ \A g \in Fd : g # fd[c] =>
                Register(table, sock, fd[c], mask, proc, c)[g] = table[g]
BY DEF Register, aeCreateFileEvent, Owned

\* Dropping interest in a descriptor does so too.
LEMMA UnwatchOwned ==
    ASSUME NEW table \in [Fd -> Entries], NEW f, NEW mask, Owned(table, sock)
    PROVE  Owned(aeDeleteFileEvent(table, f, mask), sock)
BY DEF aeDeleteFileEvent, Owned, Entries

\* What reconnect_socket leaves when a handler of the descriptor `here` calls
\* it: the readiness that may be stale is still that of `here` alone, and
\* `here`, if it was opened again, has one handler for both directions.
LEMMA Reopen ==
    ASSUME TypeOK, TypeOK', OwnDescriptor, UnbornUnopened, UNCHANGED unborn,
           NEW here \in Fd, NEW c \in Conn, NEW err,
           fd[c] \in Fd, fd[c] = here \/ fd[c] \in fresh,
           \A f \in Fd : f \in fresh \/ sock[f] = Closed => fired[f] = {} \/ f = here,
           here \in fresh => events[here].mask = {} \/ events[here].rproc = events[here].wproc,
           reconnect_socket(c, err)
    PROVE  /\ OwnDescriptor'
           /\ UnbornUnopened'
           /\ \A f \in Fd : f \in fresh' \/ sock'[f] = Closed => fired[f] = {} \/ f = here
           /\ here \in fresh' =>
                events'[here].mask = {} \/ events'[here].rproc = events'[here].wproc
           /\ fd'[c] \in Fd
           /\ fd'[c] = fd[c] \/ fd'[c] \in fresh'
<1>1. OwnDescriptor'
  BY ReconnectDescriptors
<1>2. /\ \A g \in Fd : sock'[g] = Closed => sock[g] = Closed \/ g = fd[c]
      /\ \A g \in Fd \cap (fresh' \ fresh) : sock[g] = Closed \/ g = fd[c]
  BY ReconnectDescriptors
<1>3. /\ \A g \in Fd \cap (fresh' \ fresh) : events'[g].rproc = events'[g].wproc
      /\ \A g \in Fd : \/ events'[g] = events[g]
                       \/ g = fd[c] /\ events'[g].mask = {}
                       \/ events'[g].rproc = events'[g].wproc
  BY ReconnectDescriptors
<1>4. \A d \in Conn : fd'[d] # fd[d] => d = c /\ fd'[d] \in fresh'
  BY ReconnectDescriptors
<1>5. UnbornUnopened'
  BY <1>4, ConnectionAssumption DEF UnbornUnopened, TypeOK, LoopTypes
<1>6. \A f \in Fd : f \in fresh' \/ sock'[f] = Closed => fired[f] = {} \/ f = here
  BY <1>2
<1>7. here \in fresh' =>
        events'[here].mask = {} \/ events'[here].rproc = events'[here].wproc
  BY <1>3
<1>8. fresh' \subseteq Fd
  BY DEF TypeOK, SocketTypes
<1> QED
  BY <1>1, <1>4, <1>5, <1>6, <1>7, <1>8
-----------------------------------------------------------------------------
(* The steps inside socket_readable.                                        *)

\* The read handler that opens the connection again leaves the invariant to
\* the dispatcher.
LEMMA ReaderReopens ==
    ASSUME IInv, TypeOK', pc \in InRead, NEW err, reconnect_socket(reader, err),
           UNCHANGED <<unborn, fired, cur, rfired>>,
           \/ pc' = "eof" /\ UNCHANGED reader
           \/ pc' = "parse" /\ UNCHANGED reader /\ parser'[reader] = "dead"
           \/ pc' = "writable"
    PROVE  DescriptorInv'
<1>1. /\ reader \in Conn /\ fd[reader] \in Fd /\ rfired /\ cur \in Fd
      /\ fd[reader] = cur \/ fd[reader] \in fresh
      /\ cur \in fresh => events[cur].mask = {} \/ events[cur].rproc = events[cur].wproc
  BY DEF IInv, DescriptorInv, ReaderInv, CurInv, CurFreshInv, InRead, InDispatch
<1>2. /\ TypeOK /\ OwnDescriptor /\ UnbornUnopened
      /\ \A f \in Fd : f \in fresh \/ sock[f] = Closed => fired[f] = {} \/ f = cur
  BY DEF IInv, DescriptorInv, FiredInv
<1>3. /\ OwnDescriptor' /\ UnbornUnopened'
      /\ \A f \in Fd : f \in fresh' \/ sock'[f] = Closed => fired[f] = {} \/ f = cur
      /\ cur \in fresh' => events'[cur].mask = {} \/ events'[cur].rproc = events'[cur].wproc
      /\ fd'[reader] \in Fd
      /\ fd'[reader] = fd[reader] \/ fd'[reader] \in fresh'
  BY <1>1, <1>2, Reopen
<1>4. fresh \subseteq fresh'
  BY <1>1, <1>2, ReconnectDescriptors
<1>5. FiredInv'
  BY <1>3 DEF FiredInv
<1>6. CurInv'
  BY <1>1 DEF CurInv, InDispatch
<1>7. CurFreshInv'
  BY <1>1, <1>3 DEF CurFreshInv
<1>8. ReaderInv'
  BY <1>1, <1>3, <1>4 DEF ReaderInv, InRead
<1> QED
  BY <1>3, <1>5, <1>6, <1>7, <1>8 DEF DescriptorInv

\* A step of the read handler that closes and opens nothing, up to the return
\* to the dispatcher.
LEMMA ReaderStays ==
    ASSUME IInv, TypeOK', pc \in InRead,
           UNCHANGED <<fd, fresh, unborn, fired, cur, rfired>>,
           \A f \in Fd : sock'[f] = Closed => sock[f] = Closed,
           OwnDescriptor',
           cur \in fresh => events'[cur] = events[cur],
           \/ pc' = "writable"
           \/ pc' \in {"read", "parse"} /\ UNCHANGED reader /\ pc # "eof"
              /\ (parser[reader] = "dead" => parser'[reader] = "dead")
           \/ pc' = "eof" /\ UNCHANGED reader
    PROVE  DescriptorInv'
<1>1. UnbornUnopened'
  BY DEF IInv, DescriptorInv, UnbornUnopened
<1>2. CurInv'
  BY DEF IInv, DescriptorInv, CurInv, InDispatch, InRead
<1>3. FiredInv'
  BY DEF IInv, DescriptorInv, FiredInv
<1>4. CurFreshInv'
  BY DEF IInv, DescriptorInv, CurFreshInv, InDispatch, InRead
<1>5. ReaderInv'
  BY DEF IInv, DescriptorInv, ReaderInv, InRead
<1> QED
  BY <1>1, <1>2, <1>3, <1>4, <1>5 DEF DescriptorInv

\* A step that leaves the events and the sockets alone keeps every watched
\* descriptor its connection's own.
LEMMA OwnDescriptorStays ==
    ASSUME OwnDescriptor, UNCHANGED <<fd, events>>,
           \A f \in Fd : sock'[f] = Closed => sock[f] = Closed
    PROVE  OwnDescriptor'
BY DEF OwnDescriptor
\* The latest response of the batch makes the connection watch for
\* writability on the descriptor that is being dispatched.
LEMMA ResponseDescriptors ==
    ASSUME IInv, TypeOK', pc = "parse", pc' = "parse", NEW keepAlive \in BOOLEAN,
           parser[reader] = "start", UNCHANGED <<unborn, fired, cur, rfired, reader>>,
           response_complete(reader, IF keepAlive THEN "start" ELSE "dead", keepAlive)
    PROVE  DescriptorInv'
<1> DEFINE state == IF keepAlive THEN "start" ELSE "dead"
           left == (pending[reader] + Word - 1) % Word
<1>1. /\ reader \in Conn /\ fd[reader] \in Fd /\ fd[reader] \notin fresh /\ fd[reader] = cur
  BY DEF IInv, DescriptorInv, ReaderInv, InRead
<1>2. OwnDescriptor /\ parser \in [Conn -> {"start", "untilEof", "dead"}]
  BY DEF IInv, DescriptorInv, TypeOK, BatchTypes
<1>3. CASE LastResponse(reader, state)
  <2>1. UNCHANGED <<fd, fresh, sock, events>>
    BY <1>3 DEF LastResponse
  <2>2. OwnDescriptor'
    BY <2>1, <1>2, OwnDescriptorStays
  <2> QED
    BY <2>1, <2>2, <1>2, ReaderStays DEF InRead
<1>4. CASE NextResponse(reader, state, keepAlive) /\ keepAlive
  <2>1. UNCHANGED <<fd, fresh, sock>> /\ events' = EventsAfter(reader, left)
    BY <1>4 DEF NextResponse
  <2>2. Owned(events, sock) /\ events \in [Fd -> Entries]
    BY <1>2 DEF OwnDescriptor, Owned, IInv, TypeOK, SocketTypes
  <2>3. Owned(events', sock)
    BY <2>1, <2>2, <1>1, RegisterOwned DEF EventsAfter
  <2>4. OwnDescriptor'
    BY <2>1, <2>3 DEF OwnDescriptor, Owned
  <2> QED
    BY <2>1, <2>4, <1>1, <1>2, ReaderStays DEF InRead
<1>5. CASE NextResponse(reader, state, keepAlive) /\ ~keepAlive
  <2>1. reconnect_socket(reader, errors) /\ parser'[reader] = "dead"
    BY <1>5, <1>1, <1>2 DEF NextResponse
  <2> QED
    BY <2>1, ReaderReopens DEF InRead
<1> QED
  BY <1>3, <1>4, <1>5 DEF response_complete

\* Every step of socket_readable.
LEMMA HandlerDescriptors ==
    ASSUME IInv, TypeOK', Handler
    PROVE  DescriptorInv'
<1>1. OwnDescriptor /\ SocketTypes /\ BatchTypes /\ TypeOK
  BY DEF IInv, DescriptorInv, TypeOK
<1>2. pc \in InRead => reader \in Conn /\ fd[reader] \in Fd
  BY DEF IInv, DescriptorInv, ReaderInv
<1>3. CASE ReadData
  <2>1. /\ pc = "read" /\ pc' = "parse" /\ sock[fd[reader]].state = "open"
        /\ \E q : sock' = [sock EXCEPT ![fd[reader]].inbox = q]
        /\ UNCHANGED <<fd, fresh, unborn, fired, cur, rfired, events, reader, parser>>
    BY <1>3 DEF ReadData, Live, connVars, bounds
  <2>2. PICK q : sock' = [sock EXCEPT ![fd[reader]].inbox = q]
    BY <2>1
  <2>3. fd[reader] \in Fd /\ sock'[fd[reader]].state = "open"
    BY <1>1, <1>2, <2>1, <2>2 DEF SocketTypes, Sockets, InRead
  <2>4. \A f \in Fd : sock'[f] = Closed => sock[f] = Closed
    <3>1. Closed.state = "closed"
      BY DEF Closed, Socket
    <3>2. \A f \in Fd : f # fd[reader] => sock'[f] = sock[f]
      BY <1>1, <2>2 DEF SocketTypes
    <3> QED
      BY <2>3, <3>1, <3>2
  <2>5. OwnDescriptor'
    BY <1>1, <2>1, <2>4, OwnDescriptorStays
  <2> QED
    BY <2>1, <2>4, <2>5, ReaderStays DEF InRead
<1>4. CASE ReadEofOfBody
  <2>1. /\ pc = "read" /\ pc' = "eof" /\ UNCHANGED <<unborn, fired, cur, rfired, reader>>
        /\ response_complete(reader, "untilEof", FALSE)
    BY <1>4 DEF ReadEofOfBody
  <2>2. CASE LastResponse(reader, "untilEof")
    <3>1. UNCHANGED <<fd, fresh, sock, events>>
      BY <2>2 DEF LastResponse
    <3>2. OwnDescriptor'
      BY <3>1, <1>1, OwnDescriptorStays
    <3> QED
      BY <2>1, <3>1, <3>2, ReaderStays DEF InRead
  <2>3. CASE NextResponse(reader, "untilEof", FALSE)
    <3>1. reconnect_socket(reader, errors)
      BY <2>3 DEF NextResponse
    <3> QED
      BY <2>1, <3>1, ReaderReopens DEF InRead
  <2> QED
    BY <2>1, <2>2, <2>3 DEF response_complete
<1>5. CASE ReadError
  <2>1. pc \in InRead /\ ReadFails
    BY <1>5 DEF ReadError, InRead
  <2>2. /\ reconnect_socket(reader, CountError(errors, "read")) /\ pc' = "writable"
        /\ UNCHANGED <<unborn, fired, cur, rfired>>
    BY <2>1 DEF ReadFails, ReturnFromRead
  <2> QED
    BY <2>1, <2>2, ReaderReopens
<1>6. CASE ReadRetry
  <2>1. /\ pc = "read" /\ pc' = "writable"
        /\ UNCHANGED <<fd, fresh, unborn, fired, cur, rfired, events, sock>>
    BY <1>6 DEF ReadRetry, ReturnFromRead, connVars, bounds
  <2>2. OwnDescriptor'
    BY <2>1, <1>1, OwnDescriptorStays
  <2> QED
    BY <2>1, <2>2, ReaderStays DEF InRead
<1>7. CASE ParseResponse
  <2>1. /\ pc = "parse" /\ pc' = "parse" /\ parser[reader] = "start"
        /\ UNCHANGED <<unborn, fired, cur, rfired, reader>>
    BY <1>7 DEF ParseResponse
  <2>2. PICK keepAlive \in BOOLEAN :
          response_complete(reader, IF keepAlive THEN "start" ELSE "dead", keepAlive)
    <3>1. CASE KeepAlive(Head(buf))
      BY <1>7, <3>1 DEF ParseResponse
    <3>2. CASE ~KeepAlive(Head(buf))
      BY <1>7, <3>2 DEF ParseResponse
    <3> QED
      BY <3>1, <3>2
  <2> QED
    BY <2>1, <2>2, ResponseDescriptors
<1>8. CASE ParseOpenBody
  <2>1. /\ pc = "parse" /\ pc' = "parse" /\ parser[reader] # "dead"
        /\ UNCHANGED <<fd, fresh, unborn, fired, cur, rfired, events, sock, reader>>
    BY <1>8 DEF ParseOpenBody, bounds
  <2>2. OwnDescriptor'
    BY <2>1, <1>1, OwnDescriptorStays
  <2> QED
    BY <2>1, <2>2, ReaderStays DEF InRead
<1>9. CASE ParseError
  <2>1. /\ reconnect_socket(reader, CountError(errors, "read")) /\ pc' = "writable"
        /\ pc = "parse" /\ UNCHANGED <<unborn, fired, cur, rfired>>
    BY <1>9 DEF ParseError, ReadFails, ReturnFromRead
  <2> QED
    BY <2>1, ReaderReopens DEF InRead
<1>10. CASE ParseEnd
  <2>1. /\ pc = "parse" /\ UNCHANGED <<fd, fresh, unborn, fired, cur, rfired, events, sock, parser>>
        /\ pc' = "writable" \/ (pc' = "read" /\ UNCHANGED reader)
    BY <1>10 DEF ParseEnd, ReturnFromRead, connVars, bounds
  <2>2. OwnDescriptor'
    BY <2>1, <1>1, OwnDescriptorStays
  <2> QED
    BY <2>1, <2>2, ReaderStays DEF InRead
<1> QED
  BY <1>3, <1>4, <1>5, <1>6, <1>7, <1>8, <1>9, <1>10 DEF Handler
-----------------------------------------------------------------------------
(* The steps of the event loop.                                             *)

\* What the handlers of one descriptor leave to the dispatcher: nothing but
\* that descriptor's readiness can be stale.
HereInv(here) ==
    /\ OwnDescriptor
    /\ UnbornUnopened
    /\ \A f \in Fd : f \in fresh \/ sock[f] = Closed => fired[f] = {} \/ f = here
    /\ here \in fresh => events[here].mask = {} \/ events[here].rproc = events[here].wproc

\* HereInv after a handler, of the fired array as it was before it.
HereLeft(here) ==
    /\ OwnDescriptor'
    /\ UnbornUnopened'
    /\ \A f \in Fd : f \in fresh' \/ sock'[f] = Closed => fired[f] = {} \/ f = here
    /\ here \in fresh' => events'[here].mask = {} \/ events'[here].rproc = events'[here].wproc

\* A handler that closes and opens nothing, run for a socket that is not new,
\* leaves the readiness as it is.
LEMMA HereStays ==
    ASSUME NEW here, HereInv(here), UNCHANGED <<fd, fresh, unborn>>, here \notin fresh,
           \A f \in Fd : sock'[f] = Closed => sock[f] = Closed,
           OwnDescriptor'
    PROVE  HereLeft(here)
BY DEF HereInv, HereLeft, UnbornUnopened

\* socket_connected run for the descriptor it was registered for.
LEMMA ConnectedDescriptors ==
    ASSUME TypeOK, TypeOK', UNCHANGED unborn, NEW here \in Fd, HereInv(here), here \notin fresh,
           NEW c \in Conn, fd[c] = here, socket_connected(here, c)
    PROVE  HereLeft(here)
<1>1. OwnDescriptor /\ events \in [Fd -> Entries] /\ Owned(events, sock)
  BY DEF HereInv, TypeOK, SocketTypes, OwnDescriptor, Owned
<1>2. CASE HandshakeDone(here, c)
  <2> DEFINE first == Register(events, sock, here, {R}, "socket_readable", c)
  <2>1. first \in [Fd -> Entries]
    BY <1>1, EventTypes DEF RW, Handlers
  <2>2. Owned(first, sock)
    BY <1>1, RegisterOwned
  <2> HIDE DEF first
  <2>3. Owned(Register(first, sock, here, {W}, "socket_writeable", c), sock)
    BY <2>1, <2>2, RegisterOwned
  <2>4. /\ events' = Register(first, sock, here, {W}, "socket_writeable", c)
        /\ UNCHANGED <<fd, fresh, sock>>
    BY <1>2 DEF HandshakeDone, first
  <2>5. OwnDescriptor'
    BY <2>3, <2>4 DEF OwnDescriptor, Owned
  <2> QED
    BY <2>4, <2>5, HereStays
<1>3. CASE HandshakeRetry(here, c)
  <2>1. UNCHANGED <<fd, fresh, sock, events>>
    BY <1>3 DEF HandshakeRetry, connVars
  <2> QED
    BY <1>1, <2>1, OwnDescriptorStays, HereStays
<1>4. CASE HandshakeError(here, c)
  <2>1. reconnect_socket(c, CountError(errors, "connect"))
    BY <1>4 DEF HandshakeError
  <2> QED
    BY <2>1, Reopen DEF HereInv, HereLeft
<1> QED
  BY <1>2, <1>3, <1>4 DEF socket_connected

\* A partial or whole batch reaches a socket that is open and stays so.
LEMMA WriteClosesNothing ==
    ASSUME SocketTypes, NEW c, fd[c] \in Fd, NEW f, WriteSome(f, c) \/ WriteRetry(f, c)
    PROVE  \A g \in Fd : sock'[g] = Closed => sock[g] = Closed
<1>0. CASE UNCHANGED sock
  BY <1>0
<1> SUFFICES ASSUME sock' # sock
             PROVE  \A g \in Fd : sock'[g] = Closed => sock[g] = Closed
  BY <1>0
<1>1. PICK n : sock' = [sock EXCEPT ![fd[c]] = Receive(@, written[c], n)]
  BY DEF WriteSome, WriteRetry
<1>2. sock[fd[c]].state = "open" /\ sock[fd[c]] \in Sockets
  BY DEF WriteSome, WriteRetry, Live, SocketTypes
<1>3. Receive(sock[fd[c]], written[c], n).state = "open"
  BY <1>2 DEF Receive, Sockets
<1>4. Closed.state = "closed"
  BY DEF Closed, Socket
<1>5. /\ sock'[fd[c]].state = "open"
      /\ \A g \in Fd : g # fd[c] => sock'[g] = sock[g]
  BY <1>1, <1>3 DEF SocketTypes
<1> QED
  BY <1>4, <1>5

\* socket_writeable run for the descriptor it was registered for.
LEMMA WriteableDescriptors ==
    ASSUME TypeOK, TypeOK', UNCHANGED unborn, NEW here \in Fd, HereInv(here), here \notin fresh,
           NEW c \in Conn, fd[c] = here, socket_writeable(here, c)
    PROVE  HereLeft(here)
<1>1. /\ OwnDescriptor /\ events \in [Fd -> Entries] /\ Owned(events, sock) /\ SocketTypes
  BY DEF HereInv, TypeOK, SocketTypes, OwnDescriptor, Owned
<1>2. Owned(aeDeleteFileEvent(events, here, {W}), sock)
  BY <1>1, UnwatchOwned
<1>3. CASE DelayBatch(here, c)
  <2>1. UNCHANGED <<fd, fresh, sock>> /\ events' = aeDeleteFileEvent(events, here, {W})
    BY <1>3 DEF DelayBatch, connVars
  <2>2. OwnDescriptor'
    BY <1>2, <2>1 DEF OwnDescriptor, Owned
  <2> QED
    BY <2>1, <2>2, HereStays
<1>4. CASE WriteSome(here, c)
  <2>1. \A g \in Fd : sock'[g] = Closed => sock[g] = Closed
    BY <1>1, <1>4, WriteClosesNothing
  <2>2. /\ UNCHANGED <<fd, fresh>>
        /\ UNCHANGED events \/ events' = aeDeleteFileEvent(events, here, {W})
    BY <1>4 DEF WriteSome
  <2>3. OwnDescriptor'
    BY <1>1, <1>2, <2>1, <2>2 DEF OwnDescriptor, Owned
  <2> QED
    BY <2>1, <2>2, <2>3, HereStays
<1>5. CASE WriteRetry(here, c)
  <2>1. UNCHANGED <<fd, fresh, events>>
    BY <1>5 DEF WriteRetry
  <2>2. \A g \in Fd : sock'[g] = Closed => sock[g] = Closed
    BY <1>1, <1>5, WriteClosesNothing
  <2> QED
    BY <1>1, <2>1, <2>2, OwnDescriptorStays, HereStays
<1>6. CASE WriteError(here, c)
  <2>1. reconnect_socket(c, CountError(errors, "write"))
    BY <1>6 DEF WriteError
  <2> QED
    BY <2>1, Reopen DEF HereInv, HereLeft
<1> QED
  BY <1>3, <1>4, <1>5, <1>6 DEF socket_writeable
\* The readable half of an entry of the fired array.
LEMMA DispatchReadableDescriptors ==
    ASSUME IInv, TypeOK', NEW f \in Fd, DispatchReadable(f)
    PROVE  DescriptorInv'
<1> DEFINE c == events[f].data
<1>1. /\ pc = "dispatch" /\ fired[f] # {} /\ cur' = f /\ rfired' = TRUE
      /\ UNCHANGED <<unborn, fired>> /\ R \in events[f].mask
  BY DEF DispatchReadable, RunsRead
<1>2. c \in Conn /\ fd[c] = f /\ OwnDescriptor /\ TypeOK
  BY <1>1 DEF IInv, DescriptorInv, OwnDescriptor
<1>3. cur \notin Fd
  BY <1>1 DEF IInv, DescriptorInv, CurInv, InDispatch
<1>4. f \notin fresh
  BY <1>1, <1>3 DEF IInv, DescriptorInv, FiredInv
<1>5. HereInv(f)
  BY <1>3, <1>4 DEF IInv, DescriptorInv, FiredInv, HereInv
<1>6. CASE events[f].rproc = "socket_connected"
  <2>1. socket_connected(f, c) /\ pc' = "writable"
    BY <1>6 DEF DispatchReadable
  <2>2. HereLeft(f)
    BY <1>1, <1>2, <1>4, <1>5, <2>1, ConnectedDescriptors
  <2> QED
    BY <1>1, <2>1, <2>2 DEF HereLeft, DescriptorInv, CurInv, FiredInv, CurFreshInv, ReaderInv,
       InDispatch, InRead
<1>7. CASE events[f].rproc # "socket_connected"
  <2>1. /\ reader' = c /\ pc' = "read"
        /\ UNCHANGED <<fd, events, sock, fresh>>
    BY <1>7 DEF DispatchReadable, connVars
  <2>2. OwnDescriptor' /\ HereLeft(f)
    BY <1>1, <1>2, <1>4, <1>5, <2>1, OwnDescriptorStays, HereStays
  <2>3. CurInv' /\ FiredInv' /\ CurFreshInv'
    BY <1>1, <2>1, <2>2 DEF HereLeft, CurInv, FiredInv, CurFreshInv, InDispatch
  <2>4. ReaderInv'
    BY <1>1, <1>2, <1>4, <2>1 DEF ReaderInv
  <2> QED
    BY <2>2, <2>3, <2>4 DEF HereLeft, DescriptorInv
<1> QED
  BY <1>6, <1>7

\* An entry whose readable half does not run.
LEMMA DispatchNotReadableDescriptors ==
    ASSUME IInv, TypeOK', NEW f \in Fd, DispatchNotReadable(f)
    PROVE  DescriptorInv'
<1>1. /\ pc = "dispatch" /\ fired[f] # {} /\ cur' = f /\ pc' = "writable"
      /\ UNCHANGED <<unborn, fired, fd, events, sock, fresh>>
  BY DEF DispatchNotReadable, connVars, bounds
<1>2. cur \notin Fd /\ OwnDescriptor
  BY <1>1 DEF IInv, DescriptorInv, CurInv, InDispatch
<1>3. f \notin fresh
  BY <1>1, <1>2 DEF IInv, DescriptorInv, FiredInv
<1>4. OwnDescriptor'
  BY <1>1, <1>2, OwnDescriptorStays
<1> QED
  BY <1>1, <1>2, <1>3, <1>4 DEF IInv, DescriptorInv, UnbornUnopened, CurInv, FiredInv, CurFreshInv,
     ReaderInv, InDispatch, InRead

\* The writable half: it never runs for a socket opened since the poll.
LEMMA DispatchWritableDescriptors ==
    ASSUME IInv, TypeOK', DispatchWritable
    PROVE  DescriptorInv'
<1> DEFINE c == events[cur].data
<1>1. /\ pc = "writable" /\ cur' = NoFd /\ pc' = "dispatch" /\ rfired' = FALSE
      /\ fired' = [fired EXCEPT ![cur] = {}] /\ UNCHANGED unborn
      /\ RunsWrite(events[cur], fired[cur], rfired)
  BY DEF DispatchWritable
<1>2. cur \in Fd
  BY <1>1 DEF IInv, DescriptorInv, CurInv, InDispatch
<1>3. cur \notin fresh
  BY <1>1, <1>2 DEF IInv, DescriptorInv, CurFreshInv, RunsWrite, InDispatch
<1>4. c \in Conn /\ fd[c] = cur /\ TypeOK
  BY <1>1, <1>2 DEF IInv, DescriptorInv, OwnDescriptor, RunsWrite
<1>5. HereInv(cur)
  BY <1>3 DEF IInv, DescriptorInv, FiredInv, HereInv
<1>6. HereLeft(cur)
  <2>1. CASE socket_connected(cur, c)
    BY <1>1, <1>2, <1>3, <1>4, <1>5, <2>1, ConnectedDescriptors
  <2>2. CASE socket_writeable(cur, c)
    BY <1>1, <1>2, <1>3, <1>4, <1>5, <2>2, WriteableDescriptors
  <2> QED
    BY <2>1, <2>2 DEF DispatchWritable
<1>7. \A g \in Fd : fired'[g] = IF g = cur THEN {} ELSE fired[g]
  BY <1>1, <1>4 DEF TypeOK, LoopTypes
<1>8. FiredInv'
  BY <1>6, <1>7 DEF HereLeft, FiredInv
<1>9. CurInv' /\ CurFreshInv' /\ ReaderInv'
  BY <1>1, ConnectionAssumption DEF CurInv, CurFreshInv, ReaderInv, InDispatch, InRead
<1> QED
  BY <1>6, <1>8, <1>9 DEF HereLeft, DescriptorInv

\* An entry whose writable half does not run.
LEMMA DispatchNotWritableDescriptors ==
    ASSUME IInv, TypeOK', DispatchNotWritable
    PROVE  DescriptorInv'
<1>1. /\ pc = "writable" /\ cur' = NoFd /\ pc' = "dispatch" /\ rfired' = FALSE
      /\ fired' = [fired EXCEPT ![cur] = {}]
      /\ UNCHANGED <<unborn, fd, events, sock, fresh>>
  BY DEF DispatchNotWritable, connVars, bounds
<1>2. OwnDescriptor'
  BY <1>1, OwnDescriptorStays DEF IInv, DescriptorInv
<1>3. \A g \in Fd : fired'[g] = IF g = cur THEN {} ELSE fired[g]
  BY <1>1 DEF IInv, TypeOK, LoopTypes
<1>4. FiredInv' /\ UnbornUnopened'
  BY <1>1, <1>3 DEF IInv, DescriptorInv, FiredInv, UnbornUnopened
<1>5. CurInv' /\ CurFreshInv' /\ ReaderInv'
  BY <1>1, ConnectionAssumption DEF CurInv, CurFreshInv, ReaderInv, InDispatch, InRead
<1> QED
  BY <1>2, <1>4, <1>5 DEF DescriptorInv
\* Outside the dispatch no readiness is left that could be stale.
LEMMA OutsideDispatch ==
    ASSUME IInv, UNCHANGED <<cur, fired>>,
           pc \in {"timers", "poll"}, pc' \in {"timers", "poll", "done"}
    PROVE  CurInv' /\ FiredInv' /\ CurFreshInv' /\ ReaderInv'
BY DEF IInv, DescriptorInv, CurInv, FiredInv, CurFreshInv, ReaderInv, InDispatch, InRead

\* A connection made by its delayed timer had no descriptor before.
LEMMA InitialConnectDescriptors ==
    ASSUME IInv, TypeOK', NEW c \in Conn, delayed_initial_connect(c)
    PROVE  DescriptorInv'
<1>1. /\ pc = "timers" /\ c \in unborn /\ unborn' = unborn \ {c}
      /\ connect_socket(c, events, sock, errors)
      /\ UNCHANGED <<cur, fired, pc>>
  BY DEF delayed_initial_connect, loopVars
<1>2. fd[c] = NoFd /\ TypeOK /\ OwnDescriptor
  BY <1>1 DEF IInv, DescriptorInv, UnbornUnopened
<1>3. Owned(events, sock) /\ Unwatched(events, c)
  BY <1>2, ConnectionAssumption DEF OwnDescriptor, Owned, Unwatched
<1>4. events \in [Fd -> Entries] /\ sock \in [Fd -> Sockets]
  BY <1>2 DEF TypeOK, SocketTypes
<1>5. OwnDescriptor' /\ \A d \in Conn : fd'[d] # fd[d] => d = c /\ fd'[d] \in fresh'
  BY <1>1, <1>2, <1>3, <1>4, ConnectDescriptors
<1>6. UnbornUnopened'
  BY <1>1, <1>5 DEF UnbornUnopened, IInv, DescriptorInv, TypeOK, LoopTypes
<1> QED
  BY <1>1, <1>5, <1>6, OutsideDispatch DEF DescriptorInv

\* A timer registers its connection for the descriptor it has at that time.
LEMMA DelayDescriptors ==
    ASSUME IInv, TypeOK', NEW c \in Conn, delay_request(c)
    PROVE  DescriptorInv'
<1>1. /\ pc = "timers" /\ UNCHANGED <<cur, fired, pc, fd, fresh, sock, unborn>>
      /\ events' = Register(events, sock, fd[c], {W}, "socket_writeable", c)
  BY DEF delay_request, loopVars, connVars
<1>2. events \in [Fd -> Entries] /\ Owned(events, sock)
  BY DEF IInv, TypeOK, SocketTypes, DescriptorInv, OwnDescriptor, Owned
<1>3. Owned(events', sock)
  BY <1>1, <1>2, RegisterOwned
<1>4. OwnDescriptor' /\ UnbornUnopened'
  BY <1>1, <1>3 DEF OwnDescriptor, Owned, UnbornUnopened, IInv, DescriptorInv
<1> QED
  BY <1>1, <1>4, OutsideDispatch DEF DescriptorInv

\* At the poll nothing is new, and what is closed is not watched.
LEMMA PollDescriptors ==
    ASSUME IInv, TypeOK', Poll
    PROVE  DescriptorInv'
<1>1. /\ pc = "poll" /\ pc' = "dispatch" /\ fresh' = {}
      /\ fired' = [f \in Fd |-> Reported(f)]
      /\ UNCHANGED <<fd, unborn, events, cur, sock>>
  BY DEF Poll, connVars
<1>2. OwnDescriptor /\ cur \notin Fd
  BY <1>1 DEF IInv, DescriptorInv, CurInv, InDispatch
<1>3. OwnDescriptor' /\ UnbornUnopened'
  BY <1>1, OwnDescriptorStays DEF IInv, DescriptorInv, UnbornUnopened
<1>4. FiredInv'
  BY <1>1, <1>2 DEF FiredInv, OwnDescriptor, Reported
<1>5. CurInv' /\ CurFreshInv' /\ ReaderInv'
  BY <1>1, <1>2 DEF CurInv, CurFreshInv, ReaderInv, InDispatch, InRead
<1> QED
  BY <1>3, <1>4, <1>5 DEF DescriptorInv

\* Every step of the event loop keeps the descriptor invariant.
LEMMA LoopDescriptors ==
    ASSUME IInv, TypeOK', Loop
    PROVE  DescriptorInv'
<1>1. CASE Poll
  BY <1>1, PollDescriptors
<1>2. CASE EndDispatch
  <2>1. /\ pc = "dispatch" /\ pc' = "timers" /\ \A f \in Fd : fired[f] = {}
        /\ UNCHANGED <<fd, unborn, events, fired, cur, sock, fresh>>
    BY <1>2 DEF EndDispatch, connVars, bounds
  <2>2. OwnDescriptor' /\ UnbornUnopened' /\ FiredInv'
    BY <2>1, OwnDescriptorStays DEF IInv, DescriptorInv, UnbornUnopened, FiredInv
  <2>3. CurInv' /\ CurFreshInv' /\ ReaderInv'
    BY <2>1 DEF IInv, DescriptorInv, CurInv, CurFreshInv, ReaderInv, InDispatch, InRead
  <2> QED
    BY <2>2, <2>3 DEF DescriptorInv
<1>3. CASE EndTimers \/ check_timeouts
  <2>1. /\ pc = "timers" /\ pc' \in {"timers", "poll", "done"}
        /\ UNCHANGED <<fd, unborn, events, fired, cur, sock, fresh>>
    BY <1>3 DEF EndTimers, check_timeouts, connVars, bounds
  <2>2. OwnDescriptor' /\ UnbornUnopened'
    BY <2>1, OwnDescriptorStays DEF IInv, DescriptorInv, UnbornUnopened
  <2> QED
    BY <2>1, <2>2, OutsideDispatch DEF DescriptorInv
<1>4. CASE DispatchWritable
  BY <1>4, DispatchWritableDescriptors
<1>5. CASE DispatchNotWritable
  BY <1>5, DispatchNotWritableDescriptors
<1>6. CASE \E f \in Fd : DispatchReadable(f) \/ DispatchNotReadable(f)
  BY <1>6, DispatchReadableDescriptors, DispatchNotReadableDescriptors
<1>7. CASE \E c \in Conn : delayed_initial_connect(c) \/ delay_request(c)
  BY <1>7, InitialConnectDescriptors, DelayDescriptors
<1> QED
  BY <1>1, <1>2, <1>3, <1>4, <1>5, <1>6, <1>7 DEF Loop

-----------------------------------------------------------------------------
(* The steps outside the program.                                           *)

\* The peer never closes a descriptor of the program.
LEMMA ServerDescriptors ==
    ASSUME IInv, NEW f \in Fd, NEW s, ServerStep(f, s), s # Closed
    PROVE  DescriptorInv'
<1>1. /\ UNCHANGED <<fd, unborn, events, fired, cur, rfired, reader, pc, fresh, parser>>
      /\ sock' = [sock EXCEPT ![f] = s]
  BY DEF ServerStep, connVars, loopVars
<1>2. \A g \in Fd : sock'[g] = Closed => sock[g] = Closed
  BY <1>1 DEF IInv, TypeOK, SocketTypes
<1>3. OwnDescriptor'
  BY <1>1, <1>2, OwnDescriptorStays DEF IInv, DescriptorInv
<1>4. FiredInv'
  BY <1>1, <1>2 DEF IInv, DescriptorInv, FiredInv
<1> QED
  BY <1>1, <1>3, <1>4 DEF IInv, DescriptorInv, UnbornUnopened, CurInv, CurFreshInv, ReaderInv

\* No step of the peer or of the clock disturbs the descriptor invariant.
LEMMA EnvironmentDescriptors ==
    ASSUME IInv, Environment
    PROVE  DescriptorInv'
<1>1. sock \in [Fd -> Sockets] /\ Closed.state = "closed"
  BY DEF IInv, TypeOK, SocketTypes, Closed, Socket
<1>2. ASSUME NEW f \in Fd, Accept(f) \/ Refuse(f) \/ Reset(f) PROVE DescriptorInv'
  <2>1. \E s : ServerStep(f, s) /\ s # Closed
    BY <1>2, SocketNotClosed DEF Accept, Refuse, Reset, ServerStep, loopVars
  <2> QED
    BY <2>1, ServerDescriptors
<1>3. ASSUME NEW f \in Fd, Close(f) PROVE DescriptorInv'
  <2> DEFINE s == [sock[f] EXCEPT !.fin = TRUE]
  <2>1. ServerStep(f, s) /\ sock[f].state = "open"
    BY <1>3 DEF Close, ServerStep, loopVars, Live
  <2>2. s.state = "open"
    BY <1>1, <2>1 DEF Sockets
  <2> QED
    BY <1>1, <2>1, <2>2, ServerDescriptors
<1>4. ASSUME NEW f \in Fd, NEW kind, Reply(f, kind) PROVE DescriptorInv'
  <2> DEFINE s == [sock[f] EXCEPT
                     !.inbox = Append(@, kind),
                     !.owed = IF kind = "interim" THEN @ ELSE @ - 1,
                     !.said = @ \/ kind \in {"close", "untilEof"}]
  <2>1. ServerStep(f, s) /\ sock[f].state = "open"
    BY <1>4 DEF Reply, ServerStep, loopVars, Live
  <2>2. s.state = "open"
    BY <1>1, <2>1 DEF Sockets
  <2> QED
    BY <1>1, <2>1, <2>2, ServerDescriptors
<1>5. ASSUME (\E c \in Conn : BecomeDue(c)) \/ Expire PROVE DescriptorInv'
  <2>1. UNCHANGED <<fd, unborn, events, fired, cur, rfired, reader, pc, fresh, parser, sock>>
    BY <1>5 DEF BecomeDue, Expire, connVars, loopVars, bounds
  <2> QED
    BY <2>1 DEF IInv, DescriptorInv, OwnDescriptor, UnbornUnopened, CurInv, FiredInv,
       CurFreshInv, ReaderInv
<1> QED
  BY <1>2, <1>3, <1>4, <1>5 DEF Environment
-----------------------------------------------------------------------------
(* The theorems.                                                            *)

\* The strengthened invariant is inductive.
LEMMA InductiveStep == IInv /\ [Next]_vars => IInv'
<1> SUFFICES ASSUME IInv, [Next]_vars PROVE IInv'
  OBVIOUS
<1>1. CASE Handler
  <2>1. TypeOK'
    BY <1>1, HandlerTypes DEF IInv, DescriptorInv
  <2> QED
    BY <1>1, <2>1, HandlerDescriptors DEF IInv
<1>2. CASE Loop
  <2>1. TypeOK'
    BY <1>2, LoopStepTypes DEF IInv, DescriptorInv
  <2> QED
    BY <1>2, <2>1, LoopDescriptors DEF IInv
<1>3. CASE Environment
  <2>1. TypeOK'
    BY <1>3, EnvironmentTypes DEF IInv
  <2> QED
    BY <1>3, <2>1, EnvironmentDescriptors DEF IInv
<1>4. CASE Done \/ UNCHANGED vars
  <2>1. UNCHANGED vars
    BY <1>4 DEF Done
  <2>2. TypeOK'
    <3>1. BatchTypes'
      BY <2>1 DEF IInv, TypeOK, BatchTypes, vars, connVars
    <3>2. SocketTypes'
      BY <2>1 DEF IInv, TypeOK, SocketTypes, vars, connVars, bounds
    <3>3. LoopTypes'
      BY <2>1 DEF IInv, TypeOK, LoopTypes, vars, pace, loopVars, bounds
    <3> QED
      BY <3>1, <3>2, <3>3 DEF TypeOK
  <2>3. DescriptorInv'
    BY <2>1 DEF IInv, DescriptorInv, OwnDescriptor, UnbornUnopened, CurInv, FiredInv,
       CurFreshInv, ReaderInv, vars, connVars, pace, loopVars, bounds
  <2> QED
    BY <2>2, <2>3 DEF IInv
<1> QED
  BY <1>1, <1>2, <1>3, <1>4 DEF Next

\* The strengthened invariant implies that no handler is run on the readiness
\* of a socket that is gone.
LEMMA ReadinessIsCurrent == IInv => NoStaleReadiness
<1> SUFFICES ASSUME IInv PROVE NoStaleReadiness
  OBVIOUS
<1>1. ASSUME pc = "dispatch", NEW f \in fresh
      PROVE  ~RunsRead(events[f], fired[f]) /\ ~RunsWrite(events[f], fired[f], FALSE)
  <2>1. f \in Fd /\ cur \notin Fd
    BY <1>1 DEF IInv, TypeOK, SocketTypes, DescriptorInv, CurInv, InDispatch
  <2>2. fired[f] = {}
    BY <1>1, <2>1 DEF IInv, DescriptorInv, FiredInv
  <2> QED
    BY <2>2 DEF RunsRead, RunsWrite
<1>2. ASSUME pc = "writable", cur \in fresh
      PROVE  ~RunsWrite(events[cur], fired[cur], rfired)
  BY <1>2 DEF IInv, DescriptorInv, CurFreshInv, RunsWrite, InDispatch
<1> QED
  BY <1>1, <1>2 DEF NoStaleReadiness

\* The strengthened invariant holds in every reachable state.
THEOREM Invariant == Spec => []IInv
<1>1. Init => IInv
  BY InitTypes, InitDescriptors DEF IInv
<1>2. IInv /\ [Next]_vars => IInv'
  BY InductiveStep
<1> QED
  BY <1>1, <1>2, PTL DEF Spec

\* Every variable keeps its type for every number of connections, descriptors,
\* requests in a batch and faults: written never passes the request buffer.
THEOREM TypeCorrect == Spec => []TypeOK
<1>1. IInv => TypeOK
  BY DEF IInv
<1> QED
  BY <1>1, Invariant, PTL

\* A descriptor the loop watches is open and belongs to the connection whose
\* handlers it will be given: reconnect_socket never leaves the registration
\* of the socket it closed behind.
THEOREM Descriptors == Spec => []OwnDescriptor
<1>1. IInv => OwnDescriptor
  BY DEF IInv, DescriptorInv
<1> QED
  BY <1>1, Invariant, PTL

\* Readiness reported for a socket that was closed during the dispatch is
\* never handed to the socket opened in its place.
THEOREM NoStale == Spec => []NoStaleReadiness
<1>1. IInv => NoStaleReadiness
  BY ReadinessIsCurrent
<1> QED
  BY <1>1, Invariant, PTL
-----------------------------------------------------------------------------
(* The count a latency starts from, when a batch is one request.            *)

\* A request in progress is the only one, and nothing was counted since.
LatencyInv ==
    \A c \in Conn : has_pending[c] =>
        pending[c] = 1 /\ batchStart[c] = lastBatch[c] /\ lastBatch[c] = complete[c]

LEMMA BeginBatchLatency ==
    ASSUME Pipeline = 1, TypeOK, LatencyInv, NEW c, BeginBatch(c), UNCHANGED complete
    PROVE  LatencyInv'
<1>1. /\ pending \in [Conn -> 0..Word - 1] /\ has_pending \in [Conn -> BOOLEAN]
      /\ batchStart \in [Conn -> Nat] /\ lastBatch \in [Conn -> Nat]
  BY DEF TypeOK, BatchTypes
<1>2. ASSUME NEW d \in Conn, has_pending'[d]
      PROVE  pending'[d] = 1 /\ batchStart'[d] = lastBatch'[d] /\ lastBatch'[d] = complete'[d]
  <2>1. CASE AtStart(c) /\ d = c
    BY <1>1, <1>2, <2>1 DEF BeginBatch, LatencyInv
  <2>2. CASE ~AtStart(c) \/ d # c
    BY <1>1, <1>2, <2>2 DEF BeginBatch, LatencyInv
  <2> QED
    BY <2>1, <2>2
<1> QED
  BY <1>2 DEF LatencyInv

LEMMA ResponseLatency ==
    ASSUME TypeOK, LatencyInv, NEW c \in Conn, NEW state, NEW keepAlive,
           response_complete(c, state, keepAlive), UNCHANGED lastBatch
    PROVE  LatencyInv'
<1>1. /\ pending \in [Conn -> 0..Word - 1] /\ has_pending \in [Conn -> BOOLEAN]
      /\ complete \in [Conn -> Nat]
  BY DEF TypeOK, BatchTypes
<1>2. CASE LastResponse(c, state)
  BY <1>2 DEF LastResponse, LatencyInv
<1>3. CASE NextResponse(c, state, keepAlive)
  <2> DEFINE left == (pending[c] + Word - 1) % Word
  <2>1. /\ pending' = [pending EXCEPT ![c] = left] /\ has_pending' = PendingAfter(c, left)
        /\ complete' = [complete EXCEPT ![c] = @ + 1] /\ UNCHANGED <<batchStart, lastBatch>>
    BY <1>3 DEF NextResponse
  <2>2. pending[c] = 1 => left = 0
    <3>1. Word \in Nat \ {0}
      BY ConnectionAssumption
    <3>2. Word % Word = 0
      BY <3>1
    <3> QED
      BY <3>1, <3>2
  <2> HIDE DEF left
  <2>3. ~has_pending'[c]
    BY <1>1, <2>1, <2>2 DEF PendingAfter, LatencyInv
  <2>4. \A d \in Conn \ {c} : /\ has_pending'[d] = has_pending[d] /\ pending'[d] = pending[d]
                              /\ complete'[d] = complete[d]
    BY <1>1, <2>1 DEF PendingAfter
  <2> QED
    BY <2>1, <2>3, <2>4 DEF LatencyInv
<1> QED
  BY <1>2, <1>3 DEF response_complete

LEMMA WriteableLatency ==
    ASSUME Pipeline = 1, TypeOK, LatencyInv, NEW f, NEW c, socket_writeable(f, c)
    PROVE  LatencyInv'
<1>1. CASE DelayBatch(f, c)
  BY <1>1 DEF DelayBatch, connVars, LatencyInv
<1>2. CASE WriteSome(f, c) \/ WriteRetry(f, c) \/ WriteError(f, c)
  <2>1. BeginBatch(c) /\ UNCHANGED complete
    BY <1>2 DEF WriteSome, WriteRetry, WriteError
  <2> QED
    BY <2>1, BeginBatchLatency
<1> QED
  BY <1>1, <1>2 DEF socket_writeable

LEMMA LatencyStep ==
    ASSUME Pipeline = 1, IInv, LatencyInv, [Next]_vars
    PROVE  LatencyInv'
<1>1. TypeOK
  BY DEF IInv
<1>2. ASSUME UNCHANGED <<pending, has_pending, batchStart, lastBatch, complete>>
      PROVE  LatencyInv'
  BY <1>2 DEF LatencyInv
<1>3. CASE Handler
  <2> SUFFICES ASSUME NEW c, c = reader PROVE LatencyInv'
    OBVIOUS
  <2>1. CASE ParseResponse
    <3>1. c \in Conn
      BY <2>1 DEF ParseResponse, IInv, DescriptorInv, ReaderInv, InRead
    <3>2. \E state, keepAlive : response_complete(c, state, keepAlive)
      BY <2>1 DEF ParseResponse
    <3>3. UNCHANGED lastBatch
      BY <2>1 DEF ParseResponse
    <3> QED
      BY <1>1, <3>1, <3>2, <3>3, ResponseLatency
  <2>2. CASE ReadEofOfBody
    <3>1. c \in Conn
      BY <2>2 DEF ReadEofOfBody, IInv, DescriptorInv, ReaderInv, InRead
    <3>2. response_complete(c, "untilEof", FALSE) /\ UNCHANGED lastBatch
      BY <2>2 DEF ReadEofOfBody
    <3> QED
      BY <1>1, <3>1, <3>2, ResponseLatency
  <2>3. CASE ReadData \/ ReadError \/ ReadRetry \/ ParseOpenBody \/ ParseError \/ ParseEnd
    BY <1>2, <2>3 DEF ReadData, ReadError, ReadFails, ReadRetry, ParseOpenBody, ParseError,
       ParseEnd, connVars
  <2> QED
    BY <1>3, <2>1, <2>2, <2>3 DEF Handler
<1>4. CASE Loop
  <2>1. CASE DispatchWritable
    <3> SUFFICES ASSUME NEW f, f = cur, NEW c, c = events[f].data PROVE LatencyInv'
      OBVIOUS
    <3>1. CASE socket_connected(f, c)
      BY <1>2, <3>1 DEF socket_connected, HandshakeDone, HandshakeRetry, HandshakeError, connVars
    <3>2. CASE socket_writeable(f, c)
      BY <1>1, <3>2, WriteableLatency
    <3> QED
      BY <2>1, <3>1, <3>2 DEF DispatchWritable
  <2>2. ASSUME NEW f \in Fd, DispatchReadable(f)
        PROVE  LatencyInv'
    <3> SUFFICES ASSUME NEW c, c = events[f].data PROVE LatencyInv'
      OBVIOUS
    <3> QED
      BY <1>2, <2>2 DEF DispatchReadable, socket_connected, HandshakeDone, HandshakeRetry,
         HandshakeError, connVars
  <2>3. ASSUME NEW f \in Fd, DispatchNotReadable(f)
        PROVE  LatencyInv'
    BY <1>2, <2>3 DEF DispatchNotReadable, connVars
  <2>4. ASSUME NEW c \in Conn, delayed_initial_connect(c) \/ delay_request(c)
        PROVE  LatencyInv'
    BY <1>2, <2>4 DEF delayed_initial_connect, delay_request, connVars
  <2>5. CASE Poll \/ EndDispatch \/ EndTimers \/ check_timeouts \/ DispatchNotWritable
    BY <1>2, <2>5 DEF Poll, EndDispatch, EndTimers, check_timeouts, DispatchNotWritable, connVars
  <2> QED
    BY <1>4, <2>1, <2>2, <2>3, <2>4, <2>5 DEF Loop
<1>5. CASE Environment
  <2>1. ASSUME NEW f \in Fd, Accept(f) \/ Refuse(f) \/ Close(f) \/ Reset(f)
                              \/ \E kind \in ReplyKinds : Reply(f, kind)
        PROVE  LatencyInv'
    BY <1>2, <2>1 DEF Accept, Refuse, Close, Reset, Reply, ServerStep, connVars
  <2>2. CASE (\E c \in Conn : BecomeDue(c)) \/ Expire
    BY <1>2, <2>2 DEF BecomeDue, Expire, connVars
  <2> QED
    BY <1>5, <2>1, <2>2 DEF Environment
<1>6. CASE Done \/ UNCHANGED vars
  BY <1>2, <1>6 DEF Done, vars, connVars
<1> QED
  BY <1>3, <1>4, <1>5, <1>6 DEF Next

\* With one request in a batch a latency is computed from the count of responses
\* seen when its batch began (complete_at_last_batch_start of wrk.c), whatever
\* the server and the network do and however often the batch is sent again.  A
\* batch of more may lose its socket between two of its responses.
THEOREM LatencyBase ==
    ASSUME Pipeline = 1
    PROVE  Spec => []LatencyFromLastBatch
<1>1. Init => LatencyInv
  BY DEF Init, LatencyInv
<1>2. IInv /\ LatencyInv /\ [Next]_vars => LatencyInv'
  BY LatencyStep
<1>3. LatencyInv => LatencyFromLastBatch
  BY DEF LatencyInv, LatencyFromLastBatch
<1> QED
  BY <1>1, <1>2, <1>3, Invariant, PTL DEF Spec

-----------------------------------------------------------------------------
(* What is in flight on a socket.                                           *)

Tokens == {"keep", "close", "bad"}

\* The peers these theorems are about: they send whole responses with a length
\* or an end that is announced, do not close a connection they have let idle and
\* do not answer what they have not read; socket() does not fail.  A plain
\* connect is not refused: socket_connected would take it for a success.  Over
\* TLS a batch is a single request or fits in a record: else SSL_write may send
\* requests that are answered before it returns for the batch, and the next call
\* of socket_writeable starts counting its responses again.
Orderly ==
    /\ Replies \subseteq Tokens
    /\ Faults \cap {"idleClose", "noSocket", "early"} = {}
    /\ Tls \/ "refuse" \notin Faults
    /\ Tls => Pipeline = 1 \/ Length <= Record

-----------------------------------------------------------------------------
(* A socket s, the responses b read from it and not parsed, the offset w    *)
(* of the batch and the count n of its responses still to come.             *)

Has(seq, x) == \E i \in DOMAIN seq : seq[i] = x
ToCome(s, b) == Len(s.inbox) + Len(b)
EndComes(s, b) == Has(s.inbox, "close") \/ Has(b, "close")
Unwritten(s, w) == IF w = 0 THEN 0 ELSE (Length - w + s.rx) \div ReqLen
Out(s, b, w) == s.owed + ToCome(s, b) + Unwritten(s, w)

\* The server's side of a batch: it has got what was written, unless it is gone.
Aligned(s, w) ==
    /\ s.state = "open" \/ s = Socket("failed")
    /\ s.owed \in Nat
    /\ s.state = "open" /\ ~s.fin => s.rx = w % ReqLen

\* What c->pending counts: all that is in flight; and when the rest of it is
\* lost, the loss is found before the count is down to zero.
Counted(s, b, w, n) ==
    /\ IF s.state = "open" /\ ~s.fin
       THEN n = Out(s, b, w) /\ n > 0
       ELSE n > ToCome(s, b) \/ (n = ToCome(s, b) /\ EndComes(s, b))
    /\ s.said => EndComes(s, b)

\* What the variables above are.
Wire(s, b, w) ==
    /\ s \in Sockets /\ s.inbox \in Seq(Tokens)
    /\ b \in Seq(Tokens) /\ w \in 0..Length - 1

LEMMA DivisionFacts ==
    ASSUME NEW x \in Int, NEW m \in Nat \ {0}
    PROVE  /\ x \div m \in Int /\ x % m \in 0..m - 1
           /\ x = m * (x \div m) + (x % m)
OBVIOUS

LEMMA DivisionUnique ==
    ASSUME NEW m \in Nat \ {0}, NEW a \in Int, NEW b \in Int, NEW r \in 0..m - 1, NEW s \in 0..m - 1,
           m * a + r = m * b + s
    PROVE  a = b /\ r = s
<1>1. m * (a - b) = s - r
  OBVIOUS
<1>2. CASE a > b
  <2>1. a - b >= 1
    BY <1>2
  <2>2. m * (a - b) >= m
    BY <2>1
  <2> QED
    BY <1>1, <2>2
<1>3. CASE a < b
  <2>1. b - a >= 1
    BY <1>3
  <2>2. m * (b - a) >= m
    BY <2>1
  <2>3. m * (b - a) = r - s
    BY <1>1
  <2> QED
    BY <2>2, <2>3
<1>4. CASE a = b
  BY <1>1, <1>4
<1> QED
  BY <1>2, <1>3, <1>4

\* Whole requests can be split off before a division by ReqLen.
LEMMA DivisionShift ==
    ASSUME NEW x \in Int, NEW q \in Int, NEW m \in Nat \ {0}
    PROVE  /\ (x + m * q) \div m = x \div m + q
           /\ (x + m * q) % m = x % m
<1>1. x = m * (x \div m) + (x % m) /\ x \div m \in Int /\ x % m \in 0..m - 1
  BY DivisionFacts
<1>2. x + m * q \in Int
  OBVIOUS
<1>3. /\ x + m * q = m * ((x + m * q) \div m) + ((x + m * q) % m)
      /\ (x + m * q) \div m \in Int /\ (x + m * q) % m \in 0..m - 1
  BY <1>2, DivisionFacts
<1>4. m * (x \div m + q) = m * (x \div m) + m * q
  BY <1>1
<1> DEFINE d == x \div m
           e == x % m
           f == (x + m * q) \div m
           g == (x + m * q) % m
           p == m * q
           h == x \div m + q
<1>5. m * f + g = m * h + e
  BY <1>1, <1>3, <1>4
<1>6. h \in Int /\ f \in Int /\ g \in 0..m - 1 /\ e \in 0..m - 1
  BY <1>1, <1>3
<1> HIDE DEF d, e, f, g, h
<1>7. f = h /\ g = e
  BY <1>5, <1>6, DivisionUnique
<1> QED
  BY <1>7 DEF d, e, f, g, h

LEMMA DivisionSplit ==
    ASSUME NEW m \in Nat \ {0}, NEW x \in Int, NEW q \in Int, NEW y, y = x + m * q
    PROVE  y \div m = x \div m + q /\ y % m = x % m
BY DivisionShift

LEMMA Lengths ==
    /\ ReqLen \in Nat \ {0} /\ Pipeline \in Nat \ {0} /\ Length \in Nat \ {0}
    /\ Length = ReqLen * Pipeline
BY LengthPositive, ConnectionAssumption DEF Length

\* What is left after more of a length is less.
LEMMA LessIsLeft ==
    ASSUME NEW l \in Nat, NEW v \in 0..l, NEW w \in 0..v, NEW r \in Nat
    PROVE  l - v + r \in Nat /\ l - w + r \in Nat /\ l - v + r <= l - w + r
OBVIOUS

LEMMA UnwrittenFacts ==
    ASSUME NEW s \in Sockets, NEW w \in 0..Length - 1
    PROVE  /\ Unwritten(s, w) \in Nat
           /\ s.rx = w % ReqLen /\ w > 0 => Unwritten(s, w) >= 1
<1>1. s.rx \in 0..ReqLen - 1 /\ Length - w + s.rx \in Nat /\ Length - w + s.rx >= 1
  BY Lengths DEF Sockets
<1>2. (Length - w + s.rx) \div ReqLen \in Nat
  BY <1>1, Lengths
<1>3. ASSUME s.rx = w % ReqLen, w > 0
      PROVE  (Length - w + s.rx) \div ReqLen >= 1
  <2> DEFINE k == w \div ReqLen
             x == Length - w + s.rx
             y == x \div ReqLen
  <2>1. w = ReqLen * k + s.rx /\ k \in Int
    BY <1>3, Lengths, DivisionFacts
  <2>2. x = ReqLen * y + (x % ReqLen) /\ y \in Nat /\ x \in Int
    <3>1. x \in Int /\ y \in Nat /\ ReqLen \in Nat \ {0}
      BY <1>1, <1>2, Lengths
    <3> HIDE DEF x
    <3> QED
      BY <3>1, DivisionFacts
  <2>3. x % ReqLen = 0
    <3>1. 0 + ReqLen * (Pipeline - k) = x
      <4>1. ReqLen * (Pipeline - k) = ReqLen * Pipeline - ReqLen * k
        BY <2>1, Lengths
      <4> QED
        BY <1>1, <2>1, <4>1, Lengths
    <3>2. Pipeline - k \in Int /\ 0 \in Int /\ 0 % ReqLen = 0
      BY <2>1, Lengths
    <3> HIDE DEF x, k
    <3> QED
      BY <3>1, <3>2, Lengths, DivisionSplit
  <2>4. y # 0
    <3>1. x >= 1
      BY <1>1
    <3> HIDE DEF x, y
    <3> QED
      BY <2>2, <2>3, <3>1, Lengths
  <2> QED
    BY <2>2, <2>4
<1> QED
  BY <1>2, <1>3 DEF Unwritten

\* n chunks more, from offset w of the batch.
LEMMA WriteArithmetic ==
    ASSUME NEW w \in 0..Length - 1, NEW n \in 1..Length - w, NEW x, x = w % ReqLen
    PROVE  /\ (x + n) % ReqLen = (w + n) % ReqLen
           /\ w + n = Length => (x + n) % ReqLen = 0
           /\ (Length - w + x) \div ReqLen =
                (x + n) \div ReqLen
                + IF w + n = Length THEN 0
                  ELSE (Length - (w + n) + ((x + n) % ReqLen)) \div ReqLen
<1> DEFINE k == w \div ReqLen
           q == (x + n) \div ReqLen
           r == (x + n) % ReqLen
<1>1. w \in Int /\ n \in Int /\ x \in 0..ReqLen - 1 /\ x + n \in Int
  BY Lengths
<1>2. w = ReqLen * k + x /\ k \in Int
  BY <1>1, Lengths, DivisionFacts
<1>3. x + n = ReqLen * q + r /\ q \in Int /\ r \in 0..ReqLen - 1
  BY <1>1, Lengths, DivisionFacts
<1>4. (w + n) % ReqLen = r
  <2>1. w + n = (x + n) + ReqLen * k
    BY <1>1, <1>2, Lengths
  <2>2. x + n \in Int /\ k \in Int /\ ReqLen \in Nat \ {0}
    BY <1>1, <1>2, Lengths
  <2> DEFINE y == w + n
             z == x + n
  <2>3. y = z + ReqLen * k /\ z \in Int
    BY <2>1, <2>2
  <2> HIDE DEF y, z, k
  <2>4. y % ReqLen = z % ReqLen
    BY <2>2, <2>3, DivisionSplit
  <2> QED
    BY <2>4 DEF y, z
<1>5. w + n = Length => r = 0
  <2>1. Length = 0 + ReqLen * Pipeline /\ 0 \in Int /\ Pipeline \in Int
    BY Lengths
  <2>2. Length % ReqLen = 0 % ReqLen
    <3>1. ReqLen \in Nat \ {0}
      BY Lengths
    <3> QED
      BY <2>1, <3>1, DivisionSplit, Zenon
  <2>3. 0 % ReqLen = 0
    BY Lengths
  <2> QED
    BY <1>4, <2>2, <2>3
<1>6. (Length - w + x) \div ReqLen = (Length - (w + n) + r) \div ReqLen + q
  <2>1. Length - w + x = (Length - (w + n) + r) + ReqLen * q
    <3> HIDE DEF q, r
    <3>1. ReqLen * q \in Int
      BY <1>3, Lengths
    <3> QED
      BY <1>1, <1>3, <3>1, Lengths
  <2>2. Length - (w + n) + r \in Int
    BY <1>1, <1>3, Lengths
  <2> HIDE DEF q, r
  <2> QED
    BY <1>3, <2>1, <2>2, Lengths, DivisionSplit
<1>7. w + n = Length => (Length - (w + n) + r) \div ReqLen = 0
  BY <1>5, Lengths
<1>8. (Length - (w + n) + r) \div ReqLen \in Int
  BY <1>1, <1>3, Lengths
<1> HIDE DEF q, r
<1>9. (Length - w + x) \div ReqLen =
        q + IF w + n = Length THEN 0 ELSE (Length - (w + n) + r) \div ReqLen
  BY <1>3, <1>6, <1>7, <1>8
<1> QED
  BY <1>4, <1>5, <1>9 DEF q, r

-----------------------------------------------------------------------------
(* Responses that come, are read and are parsed.                            *)

LEMMA AppendFacts ==
    ASSUME NEW q \in Seq(Tokens), NEW k \in Tokens, NEW x
    PROVE  /\ Append(q, k) \in Seq(Tokens) /\ Len(Append(q, k)) = Len(q) + 1
           /\ Append(q, k) # <<>>
           /\ Has(q, x) \/ k = x => Has(Append(q, k), x)
<1>1. /\ Append(q, k) \in Seq(Tokens) /\ Len(Append(q, k)) = Len(q) + 1
      /\ \A i \in 1..Len(q) : Append(q, k)[i] = q[i]
      /\ Append(q, k)[Len(q) + 1] = k
  OBVIOUS
<1>2. DOMAIN q = 1..Len(q) /\ DOMAIN Append(q, k) = 1..Len(q) + 1 /\ Len(q) \in Nat
  BY <1>1
<1> DEFINE r == Append(q, k)
<1> HIDE DEF r
<1>3. DOMAIN r = 1..Len(q) + 1 /\ \A i \in 1..Len(q) : r[i] = q[i]
  BY <1>1, <1>2 DEF r
<1>4. r[Len(q) + 1] = k
  BY <1>1 DEF r
<1>5. Has(q, x) \/ k = x => Has(r, x)
  BY <1>2, <1>3, <1>4 DEF Has
<1>6. r # <<>>
  <2>1. Len(r) = Len(q) + 1 /\ Len(q) \in Nat
    BY <1>1 DEF r
  <2> QED
    BY <2>1
<1> QED
  BY <1>1, <1>5, <1>6 DEF r

LEMMA TailFacts ==
    ASSUME NEW q \in Seq(Tokens), q # <<>>, NEW x
    PROVE  /\ Tail(q) \in Seq(Tokens) /\ Len(q) = Len(Tail(q)) + 1
           /\ Len(q) \in Nat /\ Len(Tail(q)) \in Nat
           /\ Head(q) \in Tokens
           /\ Has(q, x) => Head(q) = x \/ Has(Tail(q), x)
<1>1. /\ Tail(q) \in Seq(Tokens) /\ Len(q) = Len(Tail(q)) + 1 /\ Len(q) \in Nat \ {0}
      /\ \A i \in 1..Len(Tail(q)) : Tail(q)[i] = q[i + 1]
      /\ Head(q) = q[1] /\ DOMAIN q = 1..Len(q)
  OBVIOUS
<1> DEFINE r == Tail(q)
<1>2. DOMAIN r = 1..Len(r) /\ Len(r) \in Nat
  BY <1>1
<1>3. \A i \in 1..Len(r) : r[i] = q[i + 1]
  BY <1>1
<1>4. Len(q) = Len(r) + 1
  BY <1>1
<1> HIDE DEF r
<1>5. ASSUME NEW i \in DOMAIN q, q[i] = x, i # 1 PROVE Has(r, x)
  <2>1. i - 1 \in 1..Len(r) /\ r[i - 1] = q[i]
    BY <1>1, <1>2, <1>3, <1>4, <1>5
  <2> QED
    BY <1>2, <1>5, <2>1 DEF Has
<1>6. Has(q, x) => Head(q) = x \/ Has(r, x)
  BY <1>1, <1>5 DEF Has
<1> QED
  BY <1>1, <1>2, <1>6 DEF r

LEMMA SplitFacts ==
    ASSUME NEW q \in Seq(Tokens), NEW n \in 0..Len(q), NEW x
    PROVE  /\ SubSeq(q, 1, n) \in Seq(Tokens) /\ SubSeq(q, n + 1, Len(q)) \in Seq(Tokens)
           /\ Len(SubSeq(q, 1, n)) = n /\ Len(SubSeq(q, n + 1, Len(q))) = Len(q) - n
           /\ DOMAIN SubSeq(q, 1, n) = 1..n /\ \A i \in 1..n : SubSeq(q, 1, n)[i] = q[i]
           /\ DOMAIN SubSeq(q, n + 1, Len(q)) = 1..Len(q) - n
           /\ \A i \in 1..Len(q) - n : SubSeq(q, n + 1, Len(q))[i] = q[n + i]
           /\ Has(q, x) => Has(SubSeq(q, 1, n), x) \/ Has(SubSeq(q, n + 1, Len(q)), x)
<1> DEFINE a == SubSeq(q, 1, n)
           b == SubSeq(q, n + 1, Len(q))
<1>1. Len(q) \in Nat /\ n \in Nat /\ n <= Len(q) /\ DOMAIN q = 1..Len(q)
  OBVIOUS
<1>2. a \in Seq(Tokens) /\ b \in Seq(Tokens)
  BY <1>1
<1>3. Len(a) = n /\ DOMAIN a = 1..n /\ \A i \in 1..n : a[i] = q[i]
  BY <1>1
<1>4. /\ Len(b) = Len(q) - n /\ DOMAIN b = 1..Len(q) - n
      /\ \A i \in 1..Len(q) - n : b[i] = q[n + i]
  <2>1. \A i \in n + 1..Len(q) : q[i] \in Tokens
    BY <1>1
  <2>2. /\ Len(b) = IF n + 1 <= Len(q) THEN Len(q) - (n + 1) + 1 ELSE 0
        /\ \A i \in 1..Len(q) - (n + 1) + 1 : b[i] = q[n + 1 + i - 1]
    BY <1>1, <2>1, SubSeqProperties
  <2>3. DOMAIN b = 1..Len(b)
    BY <1>2
  <2> HIDE DEF b
  <2>4. Len(b) = Len(q) - n
    <3>1. CASE n + 1 <= Len(q)
      BY <1>1, <2>2, <3>1
    <3>2. CASE n = Len(q)
      <4>1. ~(n + 1 <= Len(q)) /\ Len(q) - n = 0
        BY <1>1, <3>2
      <4> QED
        BY <2>2, <4>1
    <3>3. n + 1 <= Len(q) \/ n = Len(q)
      <4> DEFINE l == Len(q)
      <4>1. l \in Nat /\ n \in Nat /\ n <= l
        BY <1>1
      <4> HIDE DEF l
      <4>2. n + 1 <= l \/ n = l
        BY <4>1
      <4> QED
        BY <4>2 DEF l
    <3> QED
      BY <3>1, <3>2, <3>3
  <2>5. \A i \in 1..Len(q) - n : n + 1 + i - 1 = n + i
    BY <1>1
  <2>6. Len(q) - (n + 1) + 1 = Len(q) - n
    BY <1>1
  <2> QED
    BY <2>2, <2>3, <2>4, <2>5, <2>6
<1> HIDE DEF a, b
<1>5. ASSUME NEW i \in DOMAIN q, q[i] = x PROVE Has(a, x) \/ Has(b, x)
  <2>1. CASE i <= n
    <3>1. i \in DOMAIN a /\ a[i] = x
      BY <1>1, <1>3, <1>5, <2>1
    <3> QED
      BY <3>1 DEF Has
  <2>2. CASE i > n
    <3>1. i - n \in DOMAIN b /\ b[i - n] = x
      BY <1>1, <1>4, <1>5, <2>2
    <3> QED
      BY <3>1 DEF Has
  <2> QED
    BY <1>1, <2>1, <2>2
<1>6. Has(q, x) => Has(a, x) \/ Has(b, x)
  BY <1>5 DEF Has
<1> QED
  BY <1>2, <1>3, <1>4, <1>6 DEF a, b

\* The numbers a wire is made of.
LEMMA WireNumbers ==
    ASSUME NEW s, NEW b, NEW w, Wire(s, b, w)
    PROVE  /\ Len(s.inbox) \in Nat /\ Len(b) \in Nat /\ ToCome(s, b) \in Nat
           /\ Unwritten(s, w) \in Nat /\ s.owed \in Int /\ s.rx \in 0..ReqLen - 1
           /\ w \in Nat
           /\ s.state = "open" /\ ~s.fin /\ Aligned(s, w) =>
                s.owed \in Nat /\ (w > 0 => Unwritten(s, w) >= 1)
<1>1. Len(s.inbox) \in Nat /\ Len(b) \in Nat /\ ToCome(s, b) \in Nat
  BY DEF Wire, ToCome
<1>2. s.owed \in Int /\ s.rx \in 0..ReqLen - 1 /\ s \in Sockets /\ w \in 0..Length - 1
  BY DEF Wire, Sockets
<1>3. w \in Nat
  BY <1>2, Lengths
<1> QED
  BY <1>1, <1>2, <1>3, UnwrittenFacts DEF Aligned

\* What the server may do to a socket it has accepted.
ServerMoves(s, t) ==
    \/ \E kind \in Tokens :
         /\ s.state = "open" /\ ~s.fin /\ s.owed > 0
         /\ t = [s EXCEPT !.inbox = Append(@, kind), !.owed = @ - 1,
                          !.said = @ \/ kind = "close"]
    \/ /\ s.state = "open" /\ ~s.fin /\ (s.said \/ s.owed > 0 \/ s.rx > 0)
       /\ t = [s EXCEPT !.fin = TRUE]
    \/ /\ s.state = "open" /\ (s.said \/ s.owed > 0 \/ s.rx > 0)
       /\ t = Socket("failed")

HasInput(s) == s.state = "failed" \/ s.inbox # <<>> \/ s.fin

\* Whatever the server does, nothing in flight comes to more than it was.
ServerKeeps(s, t, b, w) ==
    /\ Wire(t, b, w) /\ Aligned(t, w)
    /\ Out(t, b, w) <= Out(s, b, w) /\ Out(t, b, w) \in Nat
    /\ t.garbled => s.garbled
    /\ HasInput(s) => HasInput(t)
    /\ \A n \in Nat : Counted(s, b, w, n) => Counted(t, b, w, n)

LEMMA ReplyKeeps ==
    ASSUME NEW s, NEW b, NEW w, Wire(s, b, w), Aligned(s, w), NEW kind \in Tokens,
           s.state = "open", ~s.fin, s.owed > 0
    PROVE  ServerKeeps(s, [s EXCEPT !.inbox = Append(@, kind), !.owed = @ - 1,
                                    !.said = @ \/ kind = "close"], b, w)
<1> DEFINE t == [s EXCEPT !.inbox = Append(@, kind), !.owed = @ - 1,
                          !.said = @ \/ kind = "close"]
<1>1. s \in Sockets /\ s.inbox \in Seq(Tokens)
  BY DEF Wire
<1>2. /\ t.inbox = Append(s.inbox, kind) /\ t.owed = s.owed - 1
      /\ t.said = (s.said \/ kind = "close") /\ t.state = s.state /\ t.fin = s.fin
      /\ t.rx = s.rx /\ t.garbled = s.garbled
  BY <1>1 DEF Sockets
<1>3. t \in Sockets
  <2>1. Append(s.inbox, kind) \in Seq(ReplyKinds)
    BY <1>1 DEF Sockets, ReplyKinds, Tokens
  <2>2. s.owed - 1 \in Int
    BY <1>1 DEF Sockets
  <2>3. (s.said \/ kind = "close") \in BOOLEAN
    BY <1>1
  <2>4. [s EXCEPT !.inbox = Append(@, kind)] \in Sockets
    BY <1>1, <2>1 DEF Sockets
  <2>5. [s EXCEPT !.inbox = Append(@, kind), !.owed = @ - 1] \in Sockets
    BY <1>1, <2>1, <2>2, <2>4 DEF Sockets
  <2> QED
    BY <1>1, <2>3, <2>5 DEF Sockets
<1> HIDE DEF t
<1>4. /\ Append(s.inbox, kind) \in Seq(Tokens) /\ Len(Append(s.inbox, kind)) = Len(s.inbox) + 1
      /\ Append(s.inbox, kind) # <<>>
      /\ Has(s.inbox, "close") \/ kind = "close" => Has(Append(s.inbox, kind), "close")
  BY <1>1, AppendFacts
<1>5. Wire(t, b, w)
  BY <1>2, <1>3, <1>4 DEF Wire
<1>6. /\ Len(s.inbox) \in Nat /\ Len(b) \in Nat /\ Unwritten(s, w) \in Nat
      /\ s.owed \in Nat
  BY WireNumbers
<1>7. ToCome(t, b) = ToCome(s, b) + 1 /\ Unwritten(t, w) = Unwritten(s, w)
  BY <1>2, <1>4, <1>6 DEF ToCome, Unwritten
<1>8. Out(t, b, w) = Out(s, b, w) /\ Out(t, b, w) \in Nat
  <2>1. ToCome(s, b) \in Nat
    BY WireNumbers
  <2>2. t.owed = s.owed - 1
    BY <1>2
  <2> DEFINE x == s.owed
             y == ToCome(s, b)
             z == Unwritten(s, w)
  <2>3. Out(t, b, w) = (x - 1) + (y + 1) + z /\ Out(s, b, w) = x + y + z
    BY <1>7, <2>2 DEF Out
  <2>4. x \in Nat /\ y \in Nat /\ z \in Nat
    BY <1>6, <2>1
  <2> HIDE DEF x, y, z
  <2> QED
    BY <2>3, <2>4
<1>9. Aligned(t, w)
  BY <1>2, <1>6 DEF Aligned
<1>10. EndComes(s, b) \/ kind = "close" => EndComes(t, b)
  BY <1>2, <1>4 DEF EndComes
<1>11. ASSUME NEW n \in Nat, Counted(s, b, w, n) PROVE Counted(t, b, w, n)
  BY <1>2, <1>8, <1>10, <1>11 DEF Counted
<1>12. HasInput(t)
  BY <1>2, <1>4 DEF HasInput
<1>13. ServerKeeps(s, t, b, w)
  BY <1>2, <1>5, <1>8, <1>9, <1>11, <1>12 DEF ServerKeeps
<1> QED
  BY <1>13 DEF t

\* The server goes in the middle of a batch, or as it has said.
LEMMA LossIsSeen ==
    ASSUME NEW s, NEW b, NEW w, NEW n \in Nat, Wire(s, b, w), Aligned(s, w), Counted(s, b, w, n),
           s.state = "open", s.said \/ s.owed > 0 \/ s.rx > 0
    PROVE  /\ n > ToCome(s, b) \/ (n = ToCome(s, b) /\ EndComes(s, b))
           /\ s.said => EndComes(s, b)
<1>1. /\ ToCome(s, b) \in Nat /\ Unwritten(s, w) \in Nat /\ s.rx \in 0..ReqLen - 1
      /\ ~s.fin => s.owed \in Nat /\ (w > 0 => Unwritten(s, w) >= 1)
  BY WireNumbers
<1>2. CASE s.fin
  BY <1>2 DEF Counted
<1>3. CASE ~s.fin
  <2>1. n = s.owed + ToCome(s, b) + Unwritten(s, w)
    BY <1>3 DEF Counted, Out
  <2>2. CASE s.owed > 0
    BY <1>1, <1>3, <2>1, <2>2 DEF Counted
  <2>3. CASE s.said
    BY <1>1, <1>3, <2>1, <2>3 DEF Counted
  <2>4. CASE s.rx > 0
    <3>1. s.rx = w % ReqLen /\ w \in Nat
      BY <1>3, WireNumbers DEF Aligned
    <3>2. w > 0
      <4>1. 0 % ReqLen = 0
        BY Lengths
      <4> QED
        BY <2>4, <3>1, <4>1
    <3> QED
      BY <1>1, <1>3, <2>1, <3>2 DEF Counted
  <2> QED
    BY <2>2, <2>3, <2>4
<1> QED
  BY <1>2, <1>3

LEMMA NewSocket ==
    ASSUME NEW state \in SocketStates
    PROVE  /\ Socket(state) \in Sockets /\ Socket(state).state = state
           /\ Socket(state).inbox = <<>> /\ Socket(state).owed = 0 /\ Socket(state).rx = 0
           /\ Socket(state).fin = FALSE /\ Socket(state).said = FALSE
           /\ Socket(state).garbled = FALSE
           /\ Socket(state).inbox \in Seq(Tokens) /\ ~Has(Socket(state).inbox, "close")
<1>1. Socket(state) \in Sockets
  BY NewSocketType
<1>2. DOMAIN <<>> = {}
  OBVIOUS
<1>3. ~Has(<<>>, "close")
  BY DEF Has
<1> QED
  BY <1>1, <1>3 DEF Socket

LEMMA CloseKeeps ==
    ASSUME NEW s, NEW b, NEW w, Wire(s, b, w), Aligned(s, w),
           s.state = "open", ~s.fin, s.said \/ s.owed > 0 \/ s.rx > 0
    PROVE  ServerKeeps(s, [s EXCEPT !.fin = TRUE], b, w)
<1> DEFINE t == [s EXCEPT !.fin = TRUE]
<1>1. s \in Sockets
  BY DEF Wire
<1>2. /\ t \in Sockets /\ t.inbox = s.inbox /\ t.owed = s.owed /\ t.said = s.said
      /\ t.state = s.state /\ t.fin = TRUE /\ t.rx = s.rx /\ t.garbled = s.garbled
  BY <1>1 DEF Sockets
<1> HIDE DEF t
<1>3. Wire(t, b, w) /\ Aligned(t, w) /\ HasInput(t)
  BY <1>2 DEF Wire, Aligned, HasInput
<1>4. /\ ToCome(t, b) = ToCome(s, b) /\ Out(t, b, w) = Out(s, b, w)
      /\ EndComes(t, b) = EndComes(s, b)
  BY <1>2 DEF ToCome, Out, Unwritten, EndComes
<1>5. Out(s, b, w) \in Nat
  BY WireNumbers DEF Out, Aligned
<1>6. ASSUME NEW n \in Nat, Counted(s, b, w, n) PROVE Counted(t, b, w, n)
  BY <1>2, <1>4, <1>6, LossIsSeen DEF Counted
<1>7. ServerKeeps(s, t, b, w)
  BY <1>2, <1>3, <1>4, <1>5, <1>6 DEF ServerKeeps
<1> QED
  BY <1>7 DEF t

LEMMA ResetKeeps ==
    ASSUME NEW s, NEW b, NEW w, Wire(s, b, w), Aligned(s, w),
           s.state = "open", s.said \/ s.owed > 0 \/ s.rx > 0
    PROVE  ServerKeeps(s, Socket("failed"), b, w)
<1> DEFINE t == Socket("failed")
<1>1. s \in Sockets /\ "failed" \in SocketStates
  BY DEF Wire, SocketStates
<1>2. /\ t \in Sockets /\ t.inbox = <<>> /\ t.owed = 0 /\ t.said = FALSE
      /\ t.state = "failed" /\ t.fin = FALSE /\ t.rx = 0 /\ t.garbled = FALSE
      /\ t.inbox \in Seq(Tokens)
  BY <1>1, NewSocket
<1>3. Aligned(t, w)
  BY <1>2 DEF Aligned
<1> HIDE DEF t
<1>4. Wire(t, b, w) /\ HasInput(t)
  BY <1>2 DEF Wire, HasInput
<1>5. /\ Len(s.inbox) \in Nat /\ Len(b) \in Nat /\ ToCome(s, b) = Len(s.inbox) + Len(b)
      /\ ToCome(t, b) = Len(b) /\ s.owed \in Nat /\ w \in Nat /\ s.rx \in 0..ReqLen - 1
  BY <1>2, WireNumbers DEF ToCome, Aligned
<1>6. Unwritten(t, w) <= Unwritten(s, w) /\ Unwritten(t, w) \in Nat /\ Unwritten(s, w) \in Nat
  <2>1. Unwritten(t, w) \in Nat /\ Unwritten(s, w) \in Nat
    BY <1>4, WireNumbers
  <2>2. CASE w = 0
    BY <2>2 DEF Unwritten
  <2>3. CASE w # 0
    <3>1. w \in 0..Length - 1 /\ s.rx \in Nat
      BY <1>5, Lengths DEF Wire
    <3>2. Length - w \in Nat /\ Length - w + s.rx \in Nat /\ Length - w <= Length - w + s.rx
      BY <3>1, Lengths
    <3> DEFINE x == Length - w
               y == Length - w + s.rx
    <3> HIDE DEF x, y
    <3>3. x \div ReqLen <= y \div ReqLen
      BY <3>2, Lengths DEF x, y
    <3>4. Unwritten(t, w) = x \div ReqLen /\ Unwritten(s, w) = y \div ReqLen
      BY <1>2, <2>3, <3>1, Lengths DEF Unwritten, x, y
    <3> QED
      BY <2>1, <3>3, <3>4
  <2> QED
    BY <2>1, <2>2, <2>3
<1>7. Out(t, b, w) <= Out(s, b, w) /\ Out(t, b, w) \in Nat
  BY <1>2, <1>5, <1>6 DEF Out
<1>8. ASSUME NEW n \in Nat, Counted(s, b, w, n) PROVE Counted(t, b, w, n)
  <2>1. n > ToCome(s, b) \/ (n = ToCome(s, b) /\ EndComes(s, b))
    BY <1>8, LossIsSeen
  <2>2. n > ToCome(t, b) \/ (n = ToCome(t, b) /\ EndComes(t, b))
    <3>1. CASE s.inbox = <<>>
      <4>1. EndComes(s, b) => EndComes(t, b)
        BY <1>2, <3>1 DEF EndComes
      <4> QED
        BY <1>5, <2>1, <3>1, <4>1
    <3>2. CASE s.inbox # <<>>
      <4>1. Len(s.inbox) >= 1
        BY <1>5, <3>2 DEF Wire
      <4> QED
        BY <1>5, <2>1, <4>1
    <3> QED
      BY <3>1, <3>2
  <2> QED
    BY <1>2, <2>2 DEF Counted
<1>9. ServerKeeps(s, t, b, w)
  BY <1>2, <1>3, <1>4, <1>7, <1>8 DEF ServerKeeps
<1> QED
  BY <1>9 DEF t

LEMMA ServerMovesKeep ==
    ASSUME NEW s, NEW t, NEW b, NEW w, Wire(s, b, w), Aligned(s, w), ServerMoves(s, t)
    PROVE  ServerKeeps(s, t, b, w)
<1>1. ASSUME NEW kind \in Tokens, s.state = "open", ~s.fin, s.owed > 0,
             t = [s EXCEPT !.inbox = Append(@, kind), !.owed = @ - 1,
                           !.said = @ \/ kind = "close"]
      PROVE  ServerKeeps(s, t, b, w)
  BY <1>1, ReplyKeeps
<1>2. CASE /\ s.state = "open" /\ ~s.fin /\ (s.said \/ s.owed > 0 \/ s.rx > 0)
           /\ t = [s EXCEPT !.fin = TRUE]
  BY <1>2, CloseKeeps
<1>3. CASE /\ s.state = "open" /\ (s.said \/ s.owed > 0 \/ s.rx > 0)
           /\ t = Socket("failed")
  BY <1>3, ResetKeeps
<1> QED
  BY <1>1, <1>2, <1>3 DEF ServerMoves

-----------------------------------------------------------------------------
(* What the program does to a socket: it writes, reads and parses.          *)

WrittenAfter(w, n) == IF w + n = Length THEN 0 ELSE w + n

\* A write moves requests from the batch to the server.
WriteKeeps(s, t, b, w, v) ==
    /\ Wire(t, b, v) /\ Aligned(t, v)
    /\ Out(t, b, v) <= Out(s, b, w) /\ Out(t, b, v) \in Nat
    /\ t.garbled => s.garbled
    /\ \A n \in Nat : Counted(s, b, w, n) => Counted(t, b, v, n)

\* The server has taken what was written from offset w up to v.
Taken(s, t, w, v) ==
    /\ t \in Sockets /\ v \in 0..Length - 1
    /\ t.state = "open" /\ t.fin = FALSE /\ t.inbox = s.inbox /\ t.said = s.said
    /\ t.owed \in Nat /\ t.rx = v % ReqLen /\ t.garbled = s.garbled
    /\ t.owed + Unwritten(t, v) = s.owed + (Length - w + s.rx) \div ReqLen

LEMMA ReceiveTakes ==
    ASSUME NEW s, NEW b, NEW w, NEW n \in 1..Length - w,
           Wire(s, b, w), s.state = "open", ~s.fin, s.owed \in Nat, s.rx = w % ReqLen
    PROVE  Taken(s, Receive(s, w, n), w, WrittenAfter(w, n))
<1> DEFINE t == Receive(s, w, n)
           v == WrittenAfter(w, n)
           x == s.rx
<1>1. s \in Sockets /\ w \in 0..Length - 1 /\ w \in Nat /\ n \in Nat /\ x \in 0..ReqLen - 1
  BY Lengths DEF Wire, Sockets
<1>2. t \in Sockets
  BY <1>1, ReceiveTypes
<1>3. t = [s EXCEPT !.rx = (x + n) % ReqLen, !.owed = @ + (x + n) \div ReqLen,
                    !.garbled = @ \/ w % ReqLen # x]
  BY DEF Receive, Received
<1>4. /\ t.state = "open" /\ t.fin = FALSE /\ t.inbox = s.inbox /\ t.said = s.said
      /\ t.rx = (x + n) % ReqLen /\ t.owed = s.owed + (x + n) \div ReqLen
      /\ t.garbled = s.garbled
  BY <1>1, <1>3 DEF Sockets
<1>5. v \in 0..Length - 1
  BY <1>1, Lengths DEF WrittenAfter
<1>6. /\ (x + n) % ReqLen = (w + n) % ReqLen
      /\ w + n = Length => (x + n) % ReqLen = 0
      /\ (Length - w + x) \div ReqLen =
           (x + n) \div ReqLen
           + IF w + n = Length THEN 0
             ELSE (Length - (w + n) + ((x + n) % ReqLen)) \div ReqLen
  BY <1>1, WriteArithmetic
<1>7. (x + n) \div ReqLen \in Nat
  BY <1>1, Lengths
<1> HIDE DEF t, x
<1>8. t.rx = v % ReqLen
  <2>1. CASE w + n = Length
    <3>1. v = 0 /\ 0 % ReqLen = 0
      BY <2>1, Lengths DEF WrittenAfter
    <3> QED
      BY <1>4, <1>6, <2>1, <3>1
  <2>2. CASE w + n # Length
    BY <1>4, <1>6, <2>2 DEF WrittenAfter
  <2> QED
    BY <2>1, <2>2
<1>9. Unwritten(t, v) = IF w + n = Length THEN 0
                        ELSE (Length - (w + n) + ((x + n) % ReqLen)) \div ReqLen
  <2>1. CASE w + n = Length
    BY <2>1 DEF WrittenAfter, Unwritten
  <2>2. CASE w + n # Length
    <3>1. v = w + n /\ v # 0
      BY <1>1, <2>2 DEF WrittenAfter
    <3> QED
      BY <1>4, <2>2, <3>1 DEF Unwritten
  <2> QED
    BY <2>1, <2>2
<1>10. Unwritten(t, v) \in Nat
  BY <1>2, <1>5, UnwrittenFacts
<1>11. t.owed \in Nat
  BY <1>4, <1>7
<1>12. t.owed + Unwritten(t, v) = s.owed + (Length - w + x) \div ReqLen
  <2> DEFINE u == Unwritten(t, v)
             q == (x + n) \div ReqLen
  <2>1. (Length - w + x) \div ReqLen = q + u
    BY <1>6, <1>9
  <2>2. t.owed = s.owed + q
    BY <1>4
  <2> HIDE DEF u, q
  <2>3. q \in Nat /\ u \in Nat
    BY <1>7, <1>10 DEF q, u
  <2> QED
    BY <2>1, <2>2, <2>3 DEF u
<1> QED
  BY <1>2, <1>4, <1>5, <1>8, <1>11, <1>12 DEF Taken, t, x

\* The first bytes of a batch: all of it is outstanding, none of it counted.
LEMMA FirstWrite ==
    ASSUME NEW n \in 1..Length
    PROVE  LET t == Receive(Socket("open"), 0, n) v == WrittenAfter(0, n) IN
           /\ Wire(t, <<>>, v) /\ Aligned(t, v) /\ ~t.garbled
           /\ Out(t, <<>>, v) = Pipeline /\ Counted(t, <<>>, v, Pipeline)
           /\ t.state = "open" /\ t.said = FALSE
<1> DEFINE s == Socket("open")
           t == Receive(s, 0, n)
           v == WrittenAfter(0, n)
<1>1. "open" \in SocketStates
  BY DEF SocketStates
<1>2. /\ s \in Sockets /\ s.state = "open" /\ s.inbox = <<>> /\ s.owed = 0 /\ s.rx = 0
      /\ s.fin = FALSE /\ s.said = FALSE /\ s.garbled = FALSE /\ s.inbox \in Seq(Tokens)
  BY <1>1, NewSocket
<1> HIDE DEF s
<1>3. Wire(s, <<>>, 0) /\ 0 % ReqLen = 0 /\ n \in 1..Length - 0 /\ 0 \in Nat
  BY <1>2, Lengths DEF Wire
<1>4. (Length - 0 + s.rx) \div ReqLen = Pipeline
  <2>1. Length - 0 + s.rx = 0 + ReqLen * Pipeline /\ 0 \in Int /\ Pipeline \in Int
    BY <1>2, Lengths
  <2>2. 0 \div ReqLen = 0
    BY Lengths
  <2> DEFINE y == Length - 0 + s.rx
  <2>3. y = 0 + ReqLen * Pipeline
    BY <2>1
  <2> HIDE DEF y
  <2>4. y \div ReqLen = 0 \div ReqLen + Pipeline
    BY <2>1, <2>3, Lengths, DivisionSplit
  <2> QED
    BY <2>2, <2>4, Lengths DEF y
<1>5. /\ t \in Sockets /\ v \in 0..Length - 1
      /\ t.state = "open" /\ t.fin = FALSE /\ t.inbox = s.inbox /\ t.said = s.said
      /\ t.owed \in Nat /\ t.rx = v % ReqLen /\ t.garbled = s.garbled
      /\ t.owed + Unwritten(t, v) = s.owed + (Length - 0 + s.rx) \div ReqLen
  <2> DEFINE z == 0
             e == <<>>
  <2>1. /\ Wire(s, e, z) /\ n \in 1..Length - z /\ s.rx = z % ReqLen /\ s.owed \in Nat
        /\ s.state = "open" /\ ~s.fin
    BY <1>2, <1>3
  <2> HIDE DEF z, e, t, v
  <2>2. Taken(s, Receive(s, z, n), z, WrittenAfter(z, n))
    BY <2>1, ReceiveTakes
  <2>3. Taken(s, t, 0, v)
    BY <2>2 DEF z, t, v
  <2> QED
    BY <1>2, <2>3 DEF Taken
<1> HIDE DEF t, v
<1>6. t.owed + Unwritten(t, v) = Pipeline
  BY <1>2, <1>4, <1>5, Lengths
<1>7. Wire(t, <<>>, v) /\ Aligned(t, v) /\ ~t.garbled
  BY <1>2, <1>5 DEF Wire, Aligned
<1>8. Len(<<>>) = 0 /\ Unwritten(t, v) \in Nat
  BY <1>5, UnwrittenFacts
<1>9. ToCome(t, <<>>) = 0
  BY <1>2, <1>5, <1>8 DEF ToCome
<1>10. Out(t, <<>>, v) = Pipeline
  BY <1>5, <1>6, <1>8, <1>9 DEF Out
<1>11. Counted(t, <<>>, v, Pipeline)
  BY <1>2, <1>5, <1>10, Lengths DEF Counted
<1> QED
  BY <1>2, <1>5, <1>7, <1>10, <1>11 DEF s, t, v

\* The rest of it is written where it was left.
LEMMA NextWrite ==
    ASSUME NEW s, NEW b, NEW w, NEW n \in 1..Length - w,
           Wire(s, b, w), Aligned(s, w), s.state = "open", w > 0
    PROVE  WriteKeeps(s, Receive(s, w, n), b, w, WrittenAfter(w, n))
<1> DEFINE t == Receive(s, w, n)
           v == WrittenAfter(w, n)
<1>1. /\ Len(s.inbox) \in Nat /\ Len(b) \in Nat /\ ToCome(s, b) \in Nat
      /\ Unwritten(s, w) \in Nat /\ s.owed \in Nat /\ s.rx \in 0..ReqLen - 1 /\ w \in Nat
  BY WireNumbers DEF Aligned
<1>2. CASE s.fin
  <2>1. t = s
    BY <1>2 DEF Receive
  <2>2. v \in 0..Length - 1 /\ s \in Sockets
    BY <1>1, Lengths DEF WrittenAfter, Wire
  <2>3. Wire(s, b, v) /\ Aligned(s, v)
    BY <1>2, <2>2 DEF Wire, Aligned
  <2>4. Unwritten(s, v) \in Nat /\ Unwritten(s, v) <= Unwritten(s, w)
    <3>1. Unwritten(s, v) \in Nat
      BY <2>3, WireNumbers
    <3>2. CASE w + n = Length
      BY <1>1, <3>2 DEF Unwritten, WrittenAfter
    <3>3. CASE w + n # Length
      <4>1. v = w + n /\ v # 0 /\ w # 0
        BY <1>1, <3>3 DEF WrittenAfter
      <4> DEFINE x == Length - v + s.rx
                 y == Length - w + s.rx
      <4>2. Length \in Nat /\ v \in 0..Length /\ w \in 0..v /\ s.rx \in Nat
        BY <1>1, <2>2, <4>1, Lengths
      <4> HIDE DEF v
      <4>3. x \in Nat /\ y \in Nat /\ x <= y
        BY <4>2, LessIsLeft
      <4> HIDE DEF x, y
      <4>4. x \div ReqLen <= y \div ReqLen
        BY <4>3, Lengths
      <4> QED
        BY <3>1, <4>1, <4>4 DEF Unwritten, x, y
    <3> QED
      BY <3>1, <3>2, <3>3
  <2>5. Out(s, b, v) <= Out(s, b, w) /\ Out(s, b, v) \in Nat
    <3> DEFINE x == Unwritten(s, v)
               y == Unwritten(s, w)
               z == s.owed + ToCome(s, b)
    <3>1. x \in Nat /\ y \in Nat /\ z \in Nat /\ x <= y
      BY <1>1, <2>4
    <3>2. Out(s, b, v) = z + x /\ Out(s, b, w) = z + y
      BY DEF Out
    <3> HIDE DEF x, y, z
    <3> QED
      BY <3>1, <3>2
  <2>6. ASSUME NEW k \in Nat, Counted(s, b, w, k) PROVE Counted(s, b, v, k)
    BY <1>2, <2>6 DEF Counted
  <2> QED
    BY <2>1, <2>3, <2>5, <2>6 DEF WriteKeeps
<1>3. CASE ~s.fin
  <2>1. s.rx = w % ReqLen
    BY <1>3 DEF Aligned
  <2>2. /\ t \in Sockets /\ v \in 0..Length - 1
        /\ t.state = "open" /\ t.fin = FALSE /\ t.inbox = s.inbox /\ t.said = s.said
        /\ t.owed \in Nat /\ t.rx = v % ReqLen /\ t.garbled = s.garbled
        /\ t.owed + Unwritten(t, v) = s.owed + (Length - w + s.rx) \div ReqLen
    BY <1>1, <1>3, <2>1, ReceiveTakes DEF Taken
  <2> HIDE DEF t, v
  <2>3. Unwritten(s, w) = (Length - w + s.rx) \div ReqLen
    BY <1>1 DEF Unwritten
  <2>4. Unwritten(t, v) \in Nat
    BY <2>2, UnwrittenFacts
  <2>5. ToCome(t, b) = ToCome(s, b) /\ EndComes(t, b) = EndComes(s, b)
    BY <2>2 DEF ToCome, EndComes
  <2>6. t.owed + Unwritten(t, v) = s.owed + Unwritten(s, w)
    BY <2>2, <2>3
  <2>7. Out(t, b, v) = Out(s, b, w) /\ Out(t, b, v) \in Nat
    <3>1. Out(t, b, v) = t.owed + ToCome(s, b) + Unwritten(t, v)
      BY <2>5 DEF Out
    <3>2. Out(s, b, w) = s.owed + ToCome(s, b) + Unwritten(s, w)
      BY DEF Out
    <3>3. t.owed \in Nat
      BY <2>2
    <3> DEFINE x == t.owed
               y == s.owed
               p == ToCome(s, b)
               u == Unwritten(t, v)
               z == Unwritten(s, w)
    <3>4. x \in Nat /\ y \in Nat /\ p \in Nat /\ u \in Nat /\ z \in Nat /\ x + u = y + z
      BY <1>1, <2>4, <2>6, <3>3
    <3> HIDE DEF x, y, p, u, z
    <3>5. x + p + u = y + p + z /\ x + p + u \in Nat
      BY <3>4
    <3> QED
      BY <3>1, <3>2, <3>5 DEF x, y, p, u, z
  <2>8. Wire(t, b, v) /\ Aligned(t, v)
    BY <2>2 DEF Wire, Aligned
  <2>9. ASSUME NEW k \in Nat, Counted(s, b, w, k) PROVE Counted(t, b, v, k)
    BY <1>3, <2>2, <2>5, <2>7, <2>9 DEF Counted
  <2> QED
    BY <2>2, <2>7, <2>8, <2>9 DEF WriteKeeps, t, v
<1> QED
  BY <1>2, <1>3

\* read() moves responses to the buffer.
ReadMoves(s, t, a) ==
    \E k \in 1..Len(s.inbox) :
        /\ t = [s EXCEPT !.inbox = SubSeq(s.inbox, k + 1, Len(s.inbox))]
        /\ a = SubSeq(s.inbox, 1, k)

\* What such a read leaves alone: the count of the answers to come.
ReadKept(s, t, a, w) ==
    /\ Wire(t, a, w) /\ Aligned(t, w) /\ t.garbled = s.garbled /\ t.state = "open"
    /\ Out(t, a, w) = Out(s, <<>>, w)
    /\ \A n \in Nat : Counted(s, <<>>, w, n) => Counted(t, a, w, n)

LEMMA ReadKeeps ==
    ASSUME NEW s, NEW t, NEW a, NEW w, Wire(s, <<>>, w), Aligned(s, w), s.state = "open",
           ReadMoves(s, t, a)
    PROVE  ReadKept(s, t, a, w)
<1> DEFINE q == s.inbox
<1>1. PICK k \in 1..Len(q) :
        t = [s EXCEPT !.inbox = SubSeq(q, k + 1, Len(q))] /\ a = SubSeq(q, 1, k)
  BY DEF ReadMoves
<1>2. s \in Sockets /\ q \in Seq(Tokens) /\ Len(q) \in Nat /\ k \in 0..Len(q)
  BY DEF Wire
<1>3. /\ SubSeq(q, 1, k) \in Seq(Tokens) /\ SubSeq(q, k + 1, Len(q)) \in Seq(Tokens)
      /\ Len(SubSeq(q, 1, k)) = k /\ Len(SubSeq(q, k + 1, Len(q))) = Len(q) - k
      /\ Has(q, "close") => Has(SubSeq(q, 1, k), "close") \/ Has(SubSeq(q, k + 1, Len(q)), "close")
  BY <1>2, SplitFacts
<1> DEFINE r == SubSeq(q, k + 1, Len(q))
<1>4. /\ a \in Seq(Tokens) /\ r \in Seq(Tokens) /\ Len(a) = k /\ Len(r) = Len(q) - k
      /\ Has(q, "close") => Has(a, "close") \/ Has(r, "close")
      /\ t = [s EXCEPT !.inbox = r]
  BY <1>1, <1>3
<1> HIDE DEF r, q
<1>5. r \in Seq(ReplyKinds)
  BY <1>4 DEF ReplyKinds, Tokens
<1>6. /\ t \in Sockets /\ t.inbox = r /\ t.state = s.state /\ t.owed = s.owed /\ t.rx = s.rx
      /\ t.fin = s.fin /\ t.said = s.said /\ t.garbled = s.garbled
  BY <1>2, <1>4, <1>5 DEF Sockets
<1>7. Wire(t, a, w) /\ Aligned(t, w)
  BY <1>4, <1>6 DEF Wire, Aligned
<1>8. ToCome(t, a) = ToCome(s, <<>>)
  BY <1>2, <1>4, <1>6 DEF ToCome, q
<1>9. Out(t, a, w) = Out(s, <<>>, w)
  BY <1>6, <1>8 DEF Out, Unwritten
<1>10. EndComes(s, <<>>) => EndComes(t, a)
  <2>1. ~Has(<<>>, "close")
    BY DEF Has
  <2> QED
    BY <1>4, <1>6, <2>1 DEF EndComes, q
<1>11. ASSUME NEW n \in Nat, Counted(s, <<>>, w, n) PROVE Counted(t, a, w, n)
  BY <1>6, <1>8, <1>9, <1>10, <1>11 DEF Counted
<1> QED
  BY <1>6, <1>7, <1>9, <1>11 DEF ReadKept

\* A response less, whatever it says.
LEMMA ParseLess ==
    ASSUME NEW s, NEW b, NEW w, Wire(s, b, w), Aligned(s, w), b # <<>>
    PROVE  /\ Wire(s, Tail(b), w)
           /\ ToCome(s, b) = ToCome(s, Tail(b)) + 1 /\ ToCome(s, Tail(b)) \in Nat
           /\ Out(s, b, w) \in Nat /\ Out(s, b, w) > 0 /\ Out(s, Tail(b), w) = Out(s, b, w) - 1
<1> DEFINE a == Tail(b)
<1>1. /\ Len(s.inbox) \in Nat /\ Len(b) \in Nat /\ ToCome(s, b) \in Nat
      /\ Unwritten(s, w) \in Nat /\ s.owed \in Nat /\ s.rx \in 0..ReqLen - 1 /\ w \in Nat
      /\ s.state = "open" /\ ~s.fin => (w > 0 => Unwritten(s, w) >= 1)
  BY WireNumbers DEF Aligned
<1>2. /\ a \in Seq(Tokens) /\ Len(b) = Len(a) + 1 /\ Len(a) \in Nat
      /\ Has(b, "close") => Head(b) = "close" \/ Has(a, "close")
  BY TailFacts DEF Wire
<1> HIDE DEF a
<1>3. Wire(s, a, w)
  BY <1>2 DEF Wire
<1>4. ToCome(s, b) = ToCome(s, a) + 1 /\ ToCome(s, a) \in Nat
  <2>1. ToCome(s, a) = Len(s.inbox) + Len(a) /\ ToCome(s, b) = Len(s.inbox) + Len(b)
    BY DEF ToCome
  <2> DEFINE x == Len(s.inbox)
             y == Len(a)
             z == Len(b)
  <2>2. x \in Nat /\ y \in Nat /\ z = y + 1
    BY <1>1, <1>2
  <2> HIDE DEF x, y, z
  <2>3. x + z = (x + y) + 1 /\ x + y \in Nat
    BY <2>2
  <2> QED
    BY <2>1, <2>3 DEF x, y, z
<1>5. Out(s, b, w) \in Nat /\ Out(s, b, w) > 0 /\ Out(s, a, w) = Out(s, b, w) - 1
  <2>1. /\ Out(s, a, w) = s.owed + ToCome(s, a) + Unwritten(s, w)
        /\ Out(s, b, w) = s.owed + ToCome(s, b) + Unwritten(s, w)
    BY DEF Out
  <2> DEFINE x == ToCome(s, a)
             y == ToCome(s, b)
             u == Unwritten(s, w)
             o == s.owed
  <2>2. x \in Nat /\ y = x + 1 /\ u \in Nat /\ o \in Nat
    BY <1>1, <1>4
  <2> HIDE DEF x, y, u, o
  <2>3. o + y + u \in Nat /\ o + y + u > 0 /\ o + x + u = (o + y + u) - 1
    BY <2>2
  <2> QED
    BY <2>1, <2>3 DEF x, y, u, o
<1> QED
  BY <1>3, <1>4, <1>5 DEF a

\* A response that keeps the connection is counted.  The last one leaves the
\* socket as it was before the batch.
LEMMA ParseKeeps ==
    ASSUME NEW s, NEW b, NEW w, Wire(s, b, w), Aligned(s, w), ~s.garbled, b # <<>>,
           NEW n \in Nat, Head(b) # "close", Counted(s, b, w, n)
    PROVE  /\ n >= 1
           /\ n = 1 => s = Socket("open") /\ w = 0 /\ Tail(b) = <<>>
           /\ n > 1 => Counted(s, Tail(b), w, n - 1)
<1> DEFINE a == Tail(b)
<1>1. /\ Len(s.inbox) \in Nat /\ Len(b) \in Nat /\ ToCome(s, b) \in Nat
      /\ Unwritten(s, w) \in Nat /\ s.owed \in Nat /\ s.rx \in 0..ReqLen - 1 /\ w \in Nat
      /\ s.state = "open" /\ ~s.fin => (w > 0 => Unwritten(s, w) >= 1)
  BY WireNumbers DEF Aligned
<1>2. /\ a \in Seq(Tokens) /\ Len(b) = Len(a) + 1 /\ Len(a) \in Nat
      /\ Has(b, "close") => Head(b) = "close" \/ Has(a, "close")
  BY TailFacts DEF Wire
<1>3. /\ ToCome(s, b) = ToCome(s, a) + 1 /\ ToCome(s, a) \in Nat
      /\ Out(s, b, w) \in Nat /\ Out(s, b, w) > 0 /\ Out(s, a, w) = Out(s, b, w) - 1
      /\ Wire(s, a, w)
  BY ParseLess
<1> HIDE DEF a
<1>4. ToCome(s, b) = ToCome(s, a) + 1 /\ ToCome(s, a) \in Nat
  BY <1>3
<1>5. Out(s, b, w) \in Nat /\ Out(s, b, w) > 0 /\ Out(s, a, w) = Out(s, b, w) - 1
  BY <1>3
<1>6. /\ n >= 1
      /\ n > 1 => Counted(s, a, w, n - 1)
      /\ n = 1 => s = Socket("open") /\ w = 0 /\ a = <<>>
  <2>1. EndComes(s, b) => EndComes(s, a)
    BY <1>2 DEF EndComes
  <2>2. Counted(s, b, w, n)
    OBVIOUS
  <2>3. CASE s.state = "open" /\ ~s.fin
    <3>1. n = Out(s, b, w) /\ n >= 1 /\ n - 1 = Out(s, a, w)
      BY <1>5, <2>2, <2>3 DEF Counted
    <3>2. n > 1 => Counted(s, a, w, n - 1)
      BY <2>1, <2>2, <2>3, <3>1 DEF Counted
    <3>3. ASSUME n = 1
          PROVE  s = Socket("open") /\ w = 0 /\ a = <<>>
      <4>1. s.owed = 0 /\ ToCome(s, a) = 0 /\ Unwritten(s, w) = 0
        <5> DEFINE x == ToCome(s, a)
                   y == Unwritten(s, w)
                   z == s.owed
        <5>1. x \in Nat /\ y \in Nat /\ z \in Nat
          BY <1>1, <1>4
        <5>2. z + x + y = 0
          BY <3>1, <3>3 DEF Out
        <5> HIDE DEF x, y, z
        <5>3. x = 0 /\ y = 0 /\ z = 0
          BY <5>1, <5>2
        <5> QED
          BY <5>3 DEF x, y, z
      <4>2. Len(s.inbox) = 0 /\ Len(a) = 0 /\ w = 0
        BY <1>1, <1>2, <2>3, <4>1 DEF ToCome
      <4>3. s.inbox = <<>> /\ a = <<>> /\ DOMAIN <<>> = {}
        BY <1>2, <4>2 DEF Wire
      <4>4. ~EndComes(s, a)
        BY <4>3 DEF EndComes, Has
      <4>5. ~s.said /\ s.rx = 0
        <5>1. s.rx = 0 % ReqLen /\ 0 % ReqLen = 0
          BY <2>3, <4>2, Lengths DEF Aligned
        <5> QED
          BY <2>1, <2>2, <4>4, <5>1 DEF Counted
      <4>6. s = [state |-> s.state, inbox |-> s.inbox, owed |-> s.owed, rx |-> s.rx,
                 fin |-> s.fin, said |-> s.said, garbled |-> s.garbled]
            /\ s.fin \in BOOLEAN /\ s.said \in BOOLEAN /\ s.garbled \in BOOLEAN
        BY DEF Wire, Sockets
      <4>7. s.fin = FALSE /\ s.said = FALSE /\ s.garbled = FALSE
        BY <2>3, <4>5, <4>6
      <4>8. s = Socket("open")
        BY <2>3, <4>1, <4>3, <4>5, <4>6, <4>7 DEF Socket
      <4> QED
        BY <4>2, <4>3, <4>8
    <3> QED
      BY <3>1, <3>2, <3>3
  <2>4. CASE ~(s.state = "open" /\ ~s.fin)
    <3>1. n > ToCome(s, b) \/ (n = ToCome(s, b) /\ EndComes(s, b))
      BY <2>2, <2>4 DEF Counted
    <3>2. n >= 1 /\ (n - 1 > ToCome(s, a) \/ (n - 1 = ToCome(s, a) /\ EndComes(s, a)))
      BY <1>4, <2>1, <3>1
    <3>3. n - 1 \in Nat /\ Counted(s, a, w, n - 1)
      BY <2>1, <2>2, <2>4, <3>2 DEF Counted
    <3>4. n # 1
      <4>1. SUFFICES ASSUME n = 1 PROVE FALSE
        OBVIOUS
      <4>2. ToCome(s, a) = 0 /\ EndComes(s, a)
        BY <1>4, <3>2, <4>1
      <4>3. Len(s.inbox) = 0 /\ Len(a) = 0
        BY <1>1, <1>2, <4>2 DEF ToCome
      <4>4. s.inbox = <<>> /\ a = <<>> /\ DOMAIN <<>> = {}
        BY <1>2, <4>3 DEF Wire
      <4> QED
        BY <4>2, <4>4 DEF EndComes, Has
    <3> QED
      BY <3>2, <3>3, <3>4
  <2> QED
    BY <2>3, <2>4
<1> QED
  BY <1>6 DEF a

-----------------------------------------------------------------------------
(* The stations of a connection, of its entry e in the event table, its     *)
(* socket s, the responses b read and not parsed, its timers t, its offset  *)
(* w, its parser p, its count n, its flag h; over: the run is.               *)

\* socket_connected is to run.
IsConnecting(e, s, t) ==
    /\ e.mask = RW /\ e.rproc = "socket_connected" /\ e.wproc = "socket_connected"
    /\ t = 0
    /\ \/ s \in {Socket("connecting"), Socket("open")}
       \/ Tls /\ s = Socket("failed")

\* Nothing is in flight.
IsQuiet(s, b, w, p) == s = Socket("open") /\ b = <<>> /\ w = 0 /\ p = "start"

\* A batch is in progress, and what is in flight is what c->pending says.
IsInBatch(s, b, w, p, n, h, over) ==
    /\ h /\ Aligned(s, w)
    /\ over \/ (p = "start" /\ Counted(s, b, w, n))

\* To write the first or the next bytes, delayed, or waiting for responses.
IsSpeaking(e, s, b, t, w, p, n, h, over) ==
    /\ R \in e.mask /\ e.rproc = "socket_readable" /\ e.wproc = "socket_writeable"
    /\ \/ W \in e.mask /\ t = 0 /\ IsQuiet(s, b, w, p)
       \/ W \in e.mask /\ t = 0 /\ w > 0 /\ IsInBatch(s, b, w, p, n, h, over)
       \/ W \notin e.mask /\ t = 1 /\ IsQuiet(s, b, w, p)
       \/ W \notin e.mask /\ t = 0 /\ w = 0 /\ IsInBatch(s, b, w, p, n, h, over)

\* The buffer belongs to the socket it was read from.
Buffered(c) == IF reader = c /\ cur \notin fresh THEN buf ELSE <<>>

Connects(c) == IsConnecting(events[fd[c]], sock[fd[c]], timers[c])
Speaks(c) == IsSpeaking(events[fd[c]], sock[fd[c]], Buffered(c), timers[c], written[c],
                        parser[c], pending[c], has_pending[c], stop)

\* Every connection is at one of its stations; a new socket is connecting.
ConnOk(c) ==
    /\ fd[c] \in Fd /\ events[fd[c]].data = c
    /\ Connects(c) \/ Speaks(c)
    /\ fd[c] \in fresh => Connects(c)

ConnInv ==
    /\ \A c \in unborn : timers[c] = 0
    /\ \A c \in Conn \ unborn : ConnOk(c)

SocketOk(s) == ~s.garbled /\ s.inbox \in Seq(Tokens)
SocketsInv == \A f \in Fd : SocketOk(sock[f])

\* Readiness that was reported and not yet used is still there.
FiredInput ==
    \A f \in Fd \ fresh : fired[f] # {} =>
        /\ sock[f].state # "connecting"
        /\ f # cur /\ R \in fired[f] => HasInput(sock[f])

ReadInv ==
    /\ pc # "eof" /\ buf \in Seq(Tokens) /\ \A c \in Conn : parser[c] # "untilEof"
    /\ pc \in {"read", "parse"} \/ (reader = NoConn /\ buf = <<>>)
    /\ pc = "read" => fd[reader] = cur /\ cur \notin fresh /\ buf = <<>> /\ HasInput(sock[cur])
    /\ pc \in {"read", "parse"} /\ cur \notin fresh /\ fd[reader] = cur =>
         events[cur].rproc = "socket_readable"

StopInv == (stop => expired) /\ (pc = "poll" => ~stop)

WireInv == ConnInv /\ SocketsInv /\ FiredInput /\ ReadInv /\ StopInv

\* Over TLS, where every call of socket_writeable is one for the start of the
\* batch: a request of which a part is sent is the only one, it is due, and
\* nothing has come back.
TlsAt(c) ==
    written[c] > 0 =>
        /\ Pipeline = 1 /\ pending[c] = 1 /\ due[c] /\ c \notin unborn
        /\ sock[fd[c]].inbox = <<>> /\ sock[fd[c]].owed = 0
        /\ reader = c => buf = <<>>
TlsInv == Tls => \A c \in Conn : TlsAt(c)

-----------------------------------------------------------------------------
(* What a step leaves alone.                                                *)

\* Nothing a connection's station depends on but the buffer.
Unmoved(c) ==
    /\ fd'[c] = fd[c] /\ events'[fd[c]] = events[fd[c]] /\ sock'[fd[c]] = sock[fd[c]]
    /\ timers'[c] = timers[c] /\ written'[c] = written[c] /\ parser'[c] = parser[c]
    /\ pending'[c] = pending[c] /\ has_pending'[c] = has_pending[c]
    /\ fd[c] \in fresh' => fd[c] \in fresh
    /\ stop => stop'

\* What is in flight on the socket a connection speaks on.
Load(c) == IF events[fd[c]].rproc = "socket_readable"
           THEN Out(sock[fd[c]], Buffered(c), written[c]) ELSE 0

\* A step of Turns or a stutter, of what is outstanding and what is counted.
TakesTurn(o, p, n, m) ==
    \/ p = o /\ m = n
    \/ o = 0 /\ p \in 1..Pipeline /\ m = n
    \/ o > 0 /\ p \in {0, o - 1} /\ m = n + 1
    \/ p \in 0..o - 1 /\ m = n

TurnOf(c) == TakesTurn(Load(c), Load(c)', complete[c], complete'[c])

\* What Turns sees of a connection, and of a step.
Open(c) == IF c \in unborn THEN 0 ELSE Load(c)
Still(c) == Open(c)' = Open(c) /\ complete'[c] = complete[c]
Turned ==
    \/ \A d \in Conn : Still(d)
    \/ \E c \in Conn : /\ \A d \in Conn \ {c} : Still(d)
                       /\ TakesTurn(Open(c), Open(c)', complete[c], complete'[c])

LEMMA UnmovedLoad ==
    ASSUME NEW c, Unmoved(c), Buffered(c)' = Buffered(c)
    PROVE  Load(c)' = Load(c)
<1>1. /\ events'[fd'[c]] = events[fd[c]] /\ sock'[fd'[c]] = sock[fd[c]]
      /\ written'[c] = written[c]
  BY DEF Unmoved
<1> QED
  BY <1>1 DEF Load

LEMMA UnmovedStays ==
    ASSUME NEW c, ConnOk(c), Unmoved(c), Buffered(c)' = Buffered(c)
    PROVE  ConnOk(c)'
<1> DEFINE e == events[fd[c]]
           s == sock[fd[c]]
<1>1. /\ events'[fd'[c]] = e /\ sock'[fd'[c]] = s /\ timers'[c] = timers[c]
      /\ fd'[c] = fd[c]
      /\ fd'[c] \in fresh' => fd[c] \in fresh
  BY DEF Unmoved
<1>2. Connects(c)' <=> Connects(c)
  BY <1>1 DEF Connects
<1>3. ASSUME Speaks(c) PROVE Speaks(c)'
  <2>1. IsSpeaking(e, s, Buffered(c), timers[c], written[c], parser[c], pending[c],
                   has_pending[c], stop)
    BY <1>3 DEF Speaks
  <2>2. IsSpeaking(e, s, Buffered(c), timers[c], written[c], parser[c], pending[c],
                   has_pending[c], stop')
    <3> HIDE DEF e, s
    <3> QED
      BY <2>1 DEF IsSpeaking, IsInBatch, Unmoved
  <2>3. IsSpeaking(events'[fd'[c]], sock'[fd'[c]], Buffered(c)', timers'[c], written'[c],
                   parser'[c], pending'[c], has_pending'[c], stop')
    <3> HIDE DEF e, s
    <3> QED
      BY <1>1, <2>2 DEF Unmoved
  <2> QED
    BY <2>3 DEF Speaks
<1>4. fd[c] \in Fd /\ e.data = c /\ (Connects(c) \/ Speaks(c)) /\ (fd[c] \in fresh => Connects(c))
  BY DEF ConnOk
<1> HIDE DEF e
<1> QED
  BY <1>1, <1>2, <1>3, <1>4 DEF ConnOk

\* Two connections have two descriptors, and no socket of theirs is closed.
LEMMA Apart ==
    ASSUME ConnInv
    PROVE  /\ \A c, d \in Conn \ unborn : fd[c] = fd[d] => c = d
           /\ \A c \in Conn \ unborn : fd[c] \in Fd /\ sock[fd[c]] # Closed
<1>1. \A c, d \in Conn \ unborn : fd[c] = fd[d] => c = d
  BY DEF ConnInv, ConnOk
<1>2. ASSUME NEW c \in Conn \ unborn PROVE fd[c] \in Fd /\ sock[fd[c]] # Closed
  <2> DEFINE s == sock[fd[c]]
  <2>1. ConnOk(c)
    BY DEF ConnInv
  <2>2. \/ s \in {Socket("connecting"), Socket("open"), Socket("failed")}
        \/ Aligned(s, written[c])
    BY <2>1 DEF ConnOk, Connects, Speaks, IsConnecting, IsSpeaking, IsQuiet, IsInBatch
  <2> HIDE DEF s
  <2>3. s.state # "closed"
    BY <2>2 DEF Aligned, Socket
  <2>4. s # Closed
    BY <2>3 DEF Closed, Socket
  <2> QED
    BY <2>1, <2>4 DEF ConnOk, s
<1> QED
  BY <1>1, <1>2

-----------------------------------------------------------------------------
(* A connection is opened, or opened again.                                 *)

\* What connect_socket and reconnect_socket do when socket() does not fail.
Opened(c) ==
    /\ fd'[c] \in Fd /\ fresh' = fresh \cup {fd'[c]}
    /\ events'[fd'[c]].mask = RW /\ events'[fd'[c]].rproc = "socket_connected"
    /\ events'[fd'[c]].wproc = "socket_connected" /\ events'[fd'[c]].data = c
    /\ sock'[fd'[c]] = Socket("connecting")
    /\ fd'[c] = fd[c] \/ sock[fd'[c]] = Closed
    /\ \A d \in Conn \ {c} : fd'[d] = fd[d]
    /\ \A g \in Fd : g # fd[c] /\ g # fd'[c] => events'[g] = events[g] /\ sock'[g] = sock[g]
    /\ fd[c] # fd'[c] /\ fd[c] \in Fd => sock'[fd[c]] = Closed

LEMMA ConnectOpens ==
    ASSUME TypeOK, Orderly, NEW c \in Conn, NEW err, connect_socket(c, events, sock, err),
           fd[c] \notin Fd
    PROVE  Opened(c)
<1>1. PICK f \in Fd : /\ sock[f] = Closed
                      /\ sock' = [sock EXCEPT ![f] = Socket("connecting")]
                      /\ fd' = [fd EXCEPT ![c] = f]
                      /\ events' = aeCreateFileEvent(events, f, RW, "socket_connected", c)
                      /\ fresh' = fresh \cup {f}
  BY DEF connect_socket, Orderly
<1>2. /\ fd \in [Conn -> Fd \cup {NoFd}] /\ events \in [Fd -> Entries] /\ sock \in [Fd -> Sockets]
  BY DEF TypeOK, SocketTypes
<1>3. fd'[c] = f /\ \A d \in Conn \ {c} : fd'[d] = fd[d]
  BY <1>1, <1>2
<1>4. sock'[f] = Socket("connecting") /\ \A g \in Fd : g # f => sock'[g] = sock[g]
  BY <1>1, <1>2
<1>5. /\ events'[f].mask = RW /\ events'[f].rproc = "socket_connected"
      /\ events'[f].wproc = "socket_connected" /\ events'[f].data = c
      /\ \A g \in Fd : g # f => events'[g] = events[g]
  BY <1>1, <1>2 DEF aeCreateFileEvent, RW, Entries
<1> QED
  BY <1>1, <1>3, <1>4, <1>5 DEF Opened

LEMMA ReconnectOpens ==
    ASSUME TypeOK, Orderly, NEW c \in Conn, NEW err, reconnect_socket(c, err), fd[c] \in Fd
    PROVE  Opened(c)
<1> DEFINE table == aeDeleteFileEvent(events, fd[c], RW)
           sk == [sock EXCEPT ![fd[c]] = Closed]
<1>1. PICK f \in Fd : /\ sk[f] = Closed
                      /\ sock' = [sk EXCEPT ![f] = Socket("connecting")]
                      /\ fd' = [fd EXCEPT ![c] = f]
                      /\ events' = aeCreateFileEvent(table, f, RW, "socket_connected", c)
                      /\ fresh' = fresh \cup {f}
  BY DEF reconnect_socket, connect_socket, Orderly
<1>2. /\ fd \in [Conn -> Fd \cup {NoFd}] /\ events \in [Fd -> Entries] /\ sock \in [Fd -> Sockets]
  BY DEF TypeOK, SocketTypes
<1>3. /\ table \in [Fd -> Entries]
      /\ \A g \in Fd : g # fd[c] => table[g] = events[g] /\ sk[g] = sock[g]
      /\ sk[fd[c]] = Closed /\ sk = [g \in Fd |-> sk[g]]
  <2>1. table \in [Fd -> Entries]
    BY <1>2, EventTypes DEF Handlers
  <2> QED
    BY <1>2, <2>1 DEF aeDeleteFileEvent
<1> HIDE DEF table, sk
<1>4. fd'[c] = f /\ \A d \in Conn \ {c} : fd'[d] = fd[d]
  BY <1>1, <1>2
<1>5. sock'[f] = Socket("connecting") /\ \A g \in Fd : g # f => sock'[g] = sk[g]
  BY <1>1, <1>3
<1>6. /\ events'[f].mask = RW /\ events'[f].rproc = "socket_connected"
      /\ events'[f].wproc = "socket_connected" /\ events'[f].data = c
      /\ \A g \in Fd : g # f => events'[g] = table[g]
  BY <1>1, <1>3 DEF aeCreateFileEvent, RW, Entries
<1>7. f = fd[c] \/ sock[f] = Closed
  BY <1>1, <1>3
<1> QED
  BY <1>1, <1>3, <1>4, <1>5, <1>6, <1>7 DEF Opened

\* What the handler of one connection owes the invariant: here is the
\* descriptor that is being dispatched.
Kept(here, c) ==
    /\ ConnOk(c)'
    /\ \A d \in Conn \ unborn : d # c => ConnOk(d)' /\ Load(d)' = Load(d)
    /\ \A d \in Conn \ {c} : complete'[d] = complete[d]
    /\ IF c \in unborn THEN Load(c)' = 0 /\ complete'[c] = complete[c] ELSE TurnOf(c)
    /\ SocketsInv'
    /\ \A d \in Conn \ {c} : timers'[d] = timers[d]
    /\ \A d \in Conn : parser'[d] = parser[d] \/ parser'[d] # "untilEof"
    /\ \A f \in Fd \ fresh' : /\ f \notin fresh
                              /\ \/ sock'[f] = sock[f]
                                 \/ f = here /\ sock'[f].state # "connecting"

\* The handler touches the entry and the socket of c->fd alone.
Local(c) ==
    /\ UNCHANGED <<fd, fresh>>
    /\ \A g \in Fd : g # fd[c] => events'[g] = events[g] /\ sock'[g] = sock[g]
    /\ \A d \in Conn \ {c} :
         /\ timers'[d] = timers[d] /\ written'[d] = written[d] /\ parser'[d] = parser[d]
         /\ pending'[d] = pending[d] /\ has_pending'[d] = has_pending[d]
         /\ complete'[d] = complete[d]
    /\ stop => stop'
    /\ \A d \in Conn \ {c} : Buffered(d)' = Buffered(d)

LEMMA LocalKeeps ==
    ASSUME ConnInv, SocketsInv, NEW c \in Conn \ unborn, Local(c), ConnOk(c)', SocketOk(sock'[fd[c]]),
           sock'[fd[c]] = sock[fd[c]] \/ sock'[fd[c]].state # "connecting",
           parser'[c] = parser[c] \/ parser'[c] # "untilEof", TurnOf(c)
    PROVE  Kept(fd[c], c)
<1>1. ASSUME NEW d \in Conn \ unborn, d # c PROVE ConnOk(d)' /\ Load(d)' = Load(d)
  <2>1. ConnOk(d) /\ fd[d] # fd[c] /\ fd[d] \in Fd
    BY <1>1, Apart DEF ConnInv
  <2>2. Unmoved(d)
    BY <1>1, <2>1 DEF Local, Unmoved
  <2> QED
    BY <1>1, <2>1, <2>2, UnmovedStays, UnmovedLoad DEF Local
<1>2. SocketsInv'
  BY DEF Local, SocketsInv
<1> QED
  BY <1>1, <1>2 DEF Local, Kept

\* A socket in a batch is not being connected.
LEMMA AlignedState ==
    ASSUME NEW s, NEW w, Aligned(s, w)
    PROVE  s.state # "connecting" /\ s.state # "closed"
BY DEF Aligned, Socket

LEMMA QuietSocket ==
    /\ Socket("open").state = "open" /\ Socket("open").inbox = <<>>
    /\ Socket("open").fin = FALSE /\ Socket("open").said = FALSE
    /\ Socket("open").owed = 0 /\ Socket("open").rx = 0 /\ Socket("open").garbled = FALSE
BY DEF Socket

\* What is in flight is a number.
LEMMA QuietLoad == Out(Socket("open"), <<>>, 0) = 0
<1>1. Len(<<>>) = 0
  OBVIOUS
<1> QED
  BY <1>1, QuietSocket DEF Out, ToCome, Unwritten

LEMMA LoadIsNat ==
    ASSUME TypeOK, SocketsInv, buf \in Seq(Tokens), NEW c \in Conn, ConnOk(c)
    PROVE  Load(c) \in Nat /\ (Connects(c) => Load(c) = 0)
<1> DEFINE s == sock[fd[c]]
           b == Buffered(c)
           w == written[c]
<1>1. s \in Sockets /\ SocketOk(s) /\ w \in 0..Length - 1 /\ b \in Seq(Tokens)
  BY DEF ConnOk, TypeOK, SocketTypes, BatchTypes, SocketsInv, Buffered
<1>2. Wire(s, b, w)
  BY <1>1 DEF Wire, SocketOk
<1>3. CASE Connects(c)
  BY <1>3 DEF Connects, IsConnecting, Load
<1>4. CASE Speaks(c)
  <2>1. Load(c) = s.owed + ToCome(s, b) + Unwritten(s, w)
    BY <1>4 DEF Speaks, IsSpeaking, Load, Out
  <2>2. s = Socket("open") \/ Aligned(s, w)
    BY <1>4 DEF Speaks, IsSpeaking, IsQuiet, IsInBatch
  <2>3. s.owed \in Nat
    BY <2>2, QuietSocket DEF Aligned
  <2>4. ToCome(s, b) \in Nat /\ Unwritten(s, w) \in Nat
    BY <1>2, WireNumbers
  <2>5. ~Connects(c)
    BY <1>4 DEF Connects, IsConnecting, Speaks, IsSpeaking
  <2> HIDE DEF s, b, w
  <2> QED
    BY <2>1, <2>3, <2>4, <2>5
<1> QED
  BY <1>3, <1>4 DEF ConnOk

LEMMA OpenedKeeps ==
    ASSUME TypeOK, ConnInv, SocketsInv, buf \in Seq(Tokens), NEW c \in Conn, Opened(c), timers'[c] = 0,
           c \in unborn => fd[c] \notin Fd,
           NEW here, fd[c] \in Fd => fd[c] = here \/ fd[c] \in fresh,
           \A d \in Conn \ {c} :
             /\ timers'[d] = timers[d] /\ written'[d] = written[d] /\ parser'[d] = parser[d]
             /\ pending'[d] = pending[d] /\ has_pending'[d] = has_pending[d]
             /\ complete'[d] = complete[d],
           \/ complete'[c] = complete[c]
           \/ c \notin unborn /\ Load(c) > 0 /\ complete'[c] = complete[c] + 1,
           stop => stop', \A d \in Conn \ {c} : Buffered(d)' = Buffered(d),
           parser'[c] = parser[c] \/ parser'[c] # "untilEof"
    PROVE  Kept(here, c)
<1>1. ASSUME NEW d \in Conn \ unborn, d # c
      PROVE  ConnOk(d)' /\ Load(d)' = Load(d)
  <2>1. ConnOk(d) /\ fd[d] \in Fd /\ sock[fd[d]] # Closed
    BY <1>1, Apart DEF ConnInv
  <2>2. fd[d] # fd[c]
    BY <1>1, <2>1, Apart
  <2>3. fd[d] # fd'[c]
    BY <2>1, <2>2 DEF Opened
  <2>4. Unmoved(d)
    BY <1>1, <2>1, <2>2, <2>3 DEF Opened, Unmoved
  <2> QED
    BY <1>1, <2>1, <2>4, UnmovedStays, UnmovedLoad
<1>2. Connects(c)'
  BY DEF Opened, Connects, IsConnecting
<1>3. ConnOk(c)'
  BY <1>2 DEF ConnOk, Opened
<1>4. ~Socket("connecting").garbled /\ Socket("connecting").inbox \in Seq(Tokens)
      /\ ~Closed.garbled /\ Closed.inbox \in Seq(Tokens) /\ Closed.state = "closed"
  BY NewSocket DEF SocketStates, Closed
<1>5. SocketsInv'
  BY <1>4 DEF SocketsInv, SocketOk, Opened
<1>6. ASSUME NEW f \in Fd \ fresh'
      PROVE  f \notin fresh /\ (sock'[f] = sock[f] \/ (f = here /\ sock'[f].state # "connecting"))
  <2>1. f \notin fresh /\ f # fd'[c]
    BY DEF Opened
  <2>2. CASE f = fd[c]
    BY <1>4, <2>1, <2>2 DEF Opened
  <2>3. CASE f # fd[c]
    BY <2>1, <2>3 DEF Opened
  <2> QED
    BY <2>1, <2>2, <2>3
<1>7. Load(c)' = 0
  BY DEF Opened, Load
<1>8. ASSUME c \notin unborn PROVE TurnOf(c)
  <2>1. Load(c) \in Nat
    BY <1>8, LoadIsNat DEF ConnInv
  <2>2. TakesTurn(Load(c), 0, complete[c], complete'[c])
    BY <2>1 DEF TakesTurn
  <2> QED
    BY <1>7, <2>2 DEF TurnOf
<1>9. c \in unborn => complete'[c] = complete[c]
  OBVIOUS
<1> QED
  BY <1>1, <1>3, <1>5, <1>6, <1>7, <1>8, <1>9 DEF Kept

-----------------------------------------------------------------------------
(* socket_connected and socket_writeable.                                   *)

\* Outside socket_readable no connection has a buffer.
LEMMA Unread ==
    ASSUME reader = NoConn, reader' = NoConn
    PROVE  \A d \in Conn : Buffered(d) = <<>> /\ Buffered(d)' = <<>>
BY ConnectionAssumption DEF Buffered

LEMMA SocketTypesHere ==
    ASSUME TypeOK, SocketsInv, NEW c \in Conn, fd[c] \in Fd
    PROVE  /\ sock[fd[c]] \in Sockets /\ SocketOk(sock[fd[c]])
           /\ events[fd[c]] \in Entries /\ written[c] \in 0..Length - 1
           /\ pending[c] \in 0..Word - 1 /\ has_pending[c] \in BOOLEAN
           /\ timers[c] \in Nat
BY DEF TypeOK, SocketTypes, BatchTypes, SocketsInv

LEMMA ConnectedKeeps ==
    ASSUME TypeOK, Orderly, ConnInv, SocketsInv, buf \in Seq(Tokens), NEW here \in Fd \ fresh,
           sock[here].state # "connecting", NEW c \in Conn \ unborn, fd[c] = here, Connects(c),
           reader = NoConn, reader' = NoConn, UNCHANGED stop, socket_connected(here, c)
    PROVE  Kept(here, c)
<1>1. \A d \in Conn : Buffered(d) = <<>> /\ Buffered(d)' = <<>>
  BY Unread
<1>2. /\ sock[here] \in Sockets /\ SocketOk(sock[here]) /\ events[here] \in Entries
      /\ timers[c] = 0 /\ timers \in [Conn -> Nat] /\ written \in [Conn -> 0..Length - 1]
      /\ parser \in [Conn -> {"start", "untilEof", "dead"}] /\ events \in [Fd -> Entries]
  BY SocketTypesHere DEF Connects, IsConnecting, TypeOK, BatchTypes, SocketTypes
<1>3. CASE HandshakeDone(here, c)
  <2>1. sock[here] = Socket("open")
    <3>1. sock[here] \in {Socket("connecting"), Socket("open")} \/ (Tls /\ sock[here] = Socket("failed"))
      BY DEF Connects, IsConnecting
    <3>2. \A st : Socket(st).state = st
      BY DEF Socket
    <3> QED
      BY <1>3, <3>1, <3>2 DEF HandshakeDone, Live
  <2>2. sock[here] # Closed
    BY <2>1, SocketNotClosed
  <2>3. /\ UNCHANGED <<fd, sock, fresh, timers, pending, has_pending, complete>>
        /\ parser'[c] = "start" /\ written'[c] = 0
        /\ \A d \in Conn \ {c} : parser'[d] = parser[d] /\ written'[d] = written[d]
    BY <1>2, <1>3 DEF HandshakeDone, WriteFromStart
  <2>4. /\ R \in events'[here].mask /\ W \in events'[here].mask
        /\ events'[here].rproc = "socket_readable" /\ events'[here].wproc = "socket_writeable"
        /\ events'[here].data = c
        /\ \A g \in Fd : g # here => events'[g] = events[g]
    <3> DEFINE first == Register(events, sock, here, {R}, "socket_readable", c)
    <3>1. /\ first \in [Fd -> Entries] /\ R \in first[here].mask
          /\ first[here].rproc = "socket_readable"
          /\ \A g \in Fd : g # here => first[g] = events[g]
      <4>1. first \in [Fd -> Entries]
        BY <1>2, EventTypes DEF RW, Handlers
      <4> QED
        BY <1>2, <2>2, <4>1 DEF Register, aeCreateFileEvent
    <3>2. events' = Register(first, sock, here, {W}, "socket_writeable", c)
      BY <1>3 DEF HandshakeDone
    <3> HIDE DEF first
    <3> QED
      BY <2>2, <3>1, <3>2 DEF Register, aeCreateFileEvent, R, W
  <2>5. IsSpeaking(events'[here], sock'[here], Buffered(c)', timers'[c], written'[c],
                   parser'[c], pending'[c], has_pending'[c], stop')
    BY <1>1, <1>2, <2>1, <2>3, <2>4 DEF IsSpeaking, IsQuiet
  <2>6. ConnOk(c)'
    BY <2>3, <2>4, <2>5 DEF ConnOk, Speaks
  <2>7. Local(c)
    BY <1>1, <2>3, <2>4 DEF Local
  <2>8. TurnOf(c)
    <3>1. Load(c) = 0
      BY DEF Connects, IsConnecting, Load
    <3>2. Load(c)' = 0
      BY <1>1, <2>1, <2>3, QuietLoad DEF Load
    <3> QED
      BY <2>3, <3>1, <3>2 DEF TurnOf, TakesTurn
  <2> QED
    BY <1>2, <2>3, <2>6, <2>7, <2>8, LocalKeeps
<1>4. CASE HandshakeRetry(here, c)
  <2>1. /\ UNCHANGED <<fd, sock, fresh, timers, pending, has_pending, parser, written, events,
                       complete>>
    BY <1>4 DEF HandshakeRetry, connVars
  <2>2. ConnOk(c)' /\ TurnOf(c)
    <3>1. ConnOk(c) /\ Unmoved(c)
      BY <2>1 DEF ConnInv, Unmoved
    <3>2. ConnOk(c)' /\ Load(c)' = Load(c)
      BY <1>1, <3>1, UnmovedStays, UnmovedLoad
    <3> QED
      BY <2>1, <3>2 DEF TurnOf, TakesTurn
  <2>3. Local(c)
    BY <1>1, <2>1 DEF Local
  <2> QED
    BY <1>2, <2>1, <2>2, <2>3, LocalKeeps
<1>5. CASE HandshakeError(here, c)
  <2>1. /\ reconnect_socket(c, CountError(errors, "connect"))
        /\ UNCHANGED <<written, pending, has_pending, parser, timers, complete>>
    BY <1>5 DEF HandshakeError
  <2>2. Opened(c)
    BY <2>1, ReconnectOpens
  <2> QED
    BY <1>1, <1>2, <2>1, <2>2, OpenedKeeps
<1> QED
  BY <1>3, <1>4, <1>5 DEF socket_connected

\* The first write of a batch, or the next one.
LEMMA WriteStations ==
    ASSUME NEW s, NEW b, NEW w, NEW p, NEW m, NEW h, NEW over, Wire(s, b, w), SocketOk(s),
           m \in Nat, s.state = "open", NEW n \in 1..Length - w,
           IsQuiet(s, b, w, p) \/ (w > 0 /\ IsInBatch(s, b, w, p, m, h, over))
    PROVE  LET t == Receive(s, w, n)  v == WrittenAfter(w, n) IN
           /\ SocketOk(t) /\ v \in 0..Length - 1
           /\ IsInBatch(t, b, v, p, IF w = 0 THEN Pipeline ELSE m, w = 0 \/ h, over)
           /\ \A k : TakesTurn(Out(s, b, w), Out(t, b, v), k, k)
<1> DEFINE t == Receive(s, w, n)
           v == WrittenAfter(w, n)
<1>1. CASE IsQuiet(s, b, w, p)
  <2>1. s = Socket("open") /\ b = <<>> /\ w = 0 /\ p = "start"
    BY <1>1 DEF IsQuiet
  <2>2. n \in 1..Length
    BY <2>1, Lengths
  <2>3. /\ Wire(t, <<>>, v) /\ Aligned(t, v) /\ ~t.garbled
        /\ Counted(t, <<>>, v, Pipeline) /\ Out(t, <<>>, v) = Pipeline
    BY <2>1, <2>2, FirstWrite
  <2> HIDE DEF t, v
  <2>4. SocketOk(t) /\ v \in 0..Length - 1
    BY <2>3 DEF SocketOk, Wire
  <2>5. IsInBatch(t, <<>>, v, p, Pipeline, TRUE, over)
    BY <2>1, <2>3 DEF IsInBatch
  <2>6. IsInBatch(t, b, v, p, IF w = 0 THEN Pipeline ELSE m, w = 0 \/ h, over)
    BY <2>1, <2>5
  <2>7. \A k : TakesTurn(Out(s, b, w), Out(t, b, v), k, k)
    <3>1. Out(s, b, w) = 0 /\ Out(t, b, v) = Pipeline /\ Pipeline \in 1..Pipeline
      BY <2>1, <2>3, QuietLoad, Lengths
    <3> QED
      BY <3>1 DEF TakesTurn
  <2> QED
    BY <2>4, <2>6, <2>7 DEF t, v
<1>2. CASE w > 0 /\ IsInBatch(s, b, w, p, m, h, over)
  <2>1. Aligned(s, w) /\ h /\ (over \/ (p = "start" /\ Counted(s, b, w, m)))
    BY <1>2 DEF IsInBatch
  <2>2. WriteKeeps(s, t, b, w, v)
    BY <1>2, <2>1, NextWrite
  <2>3. w # 0
    BY <1>2, Lengths DEF Wire
  <2> HIDE DEF t, v
  <2>4. SocketOk(t) /\ v \in 0..Length - 1
    BY <2>2 DEF SocketOk, Wire, WriteKeeps
  <2>5. IsInBatch(t, b, v, p, m, w = 0 \/ h, over)
    BY <2>1, <2>2 DEF IsInBatch, WriteKeeps
  <2>6. IsInBatch(t, b, v, p, IF w = 0 THEN Pipeline ELSE m, w = 0 \/ h, over)
    BY <2>3, <2>5
  <2>7. \A k : TakesTurn(Out(s, b, w), Out(t, b, v), k, k)
    <3>1. Out(s, b, w) \in Int
      <4>1. s.owed \in Int /\ ToCome(s, b) \in Nat /\ Unwritten(s, w) \in Nat
        BY WireNumbers
      <4> QED
        BY <4>1 DEF Out
    <3>2. Out(t, b, v) <= Out(s, b, w) /\ Out(t, b, v) \in Nat
      BY <2>2 DEF WriteKeeps
    <3> DEFINE x == Out(s, b, w)
               y == Out(t, b, v)
    <3> HIDE DEF x, y
    <3>3. y = x \/ y \in 0..x - 1
      BY <3>1, <3>2 DEF x, y
    <3> QED
      BY <3>3 DEF TakesTurn, x, y
  <2> QED
    BY <2>4, <2>6, <2>7 DEF t, v
<1> QED
  BY <1>1, <1>2

LEMMA WriteableKeeps ==
    ASSUME TypeOK, Orderly, ConnInv, SocketsInv, TlsInv, buf \in Seq(Tokens), NEW here \in Fd \ fresh,
           NEW c \in Conn \ unborn, fd[c] = here, Speaks(c), W \in events[here].mask,
           reader = NoConn, reader' = NoConn, UNCHANGED stop, socket_writeable(here, c)
    PROVE  Kept(here, c)
<1> DEFINE e == events[here]
           s == sock[here]
           w == written[c]
<1>1. \A d \in Conn : Buffered(d) = <<>> /\ Buffered(d)' = <<>>
  BY Unread
<1>2. /\ s \in Sockets /\ SocketOk(s) /\ e \in Entries /\ w \in 0..Length - 1
      /\ pending[c] \in 0..Word - 1 /\ has_pending[c] \in BOOLEAN /\ timers[c] \in Nat
      /\ timers \in [Conn -> Nat] /\ written \in [Conn -> 0..Length - 1]
      /\ pending \in [Conn -> 0..Word - 1] /\ has_pending \in [Conn -> BOOLEAN]
      /\ events \in [Fd -> Entries] /\ sock \in [Fd -> Sockets]
  BY SocketTypesHere DEF TypeOK, BatchTypes, SocketTypes
<1>3. ConnOk(c) /\ e.data = c
  BY DEF ConnInv, ConnOk
<1>4. /\ R \in e.mask /\ e.rproc = "socket_readable" /\ e.wproc = "socket_writeable"
      /\ timers[c] = 0
      /\ \/ IsQuiet(s, <<>>, w, parser[c])
         \/ w > 0 /\ IsInBatch(s, <<>>, w, parser[c], pending[c], has_pending[c], stop)
  BY <1>1 DEF Speaks, IsSpeaking
<1>5. Wire(s, <<>>, w)
  BY <1>2 DEF Wire, SocketOk
<1>6. pending[c] \in Nat /\ w \in Nat
  BY <1>2, ConnectionAssumption, Lengths
<1>0. AtStart(c) /\ w # 0 => pending[c] = Pipeline /\ has_pending[c] /\ due[c]
  <2>1. w # 0 => has_pending[c]
    BY <1>4 DEF IsQuiet, IsInBatch
  <2> QED
    BY <1>6, <2>1 DEF AtStart, TlsInv, TlsAt
<1>7. CASE DelayBatch(here, c)
  <2>1. /\ w = 0 /\ events' = aeDeleteFileEvent(events, here, {W})
        /\ timers' = [timers EXCEPT ![c] = @ + 1]
        /\ UNCHANGED <<fd, sock, fresh, pending, has_pending, parser, written, complete>>
    BY <1>0, <1>7 DEF DelayBatch, connVars
  <2>2. /\ R \in events'[here].mask /\ W \notin events'[here].mask
        /\ events'[here].rproc = e.rproc /\ events'[here].wproc = e.wproc
        /\ events'[here].data = c
        /\ \A g \in Fd : g # here => events'[g] = events[g]
    BY <1>2, <1>3, <1>4, <2>1 DEF aeDeleteFileEvent, R, W, Entries
  <2>3. timers'[c] = 1 /\ \A d \in Conn \ {c} : timers'[d] = timers[d]
    BY <1>2, <1>4, <2>1
  <2>4. IsQuiet(s, <<>>, w, parser[c])
    BY <1>4, <2>1
  <2>5. IsSpeaking(events'[here], s, <<>>, timers'[c], w,
                   parser[c], pending[c], has_pending[c], stop)
    BY <1>4, <2>2, <2>3, <2>4 DEF IsSpeaking
  <2>6. ConnOk(c)'
    BY <1>1, <2>1, <2>2, <2>5 DEF ConnOk, Speaks
  <2>7. Local(c)
    BY <1>1, <2>1, <2>2, <2>3 DEF Local
  <2>8. TurnOf(c)
    <3>1. Load(c)' = Load(c)
      BY <1>1, <2>1, <2>2 DEF Load
    <3> QED
      BY <2>1, <3>1 DEF TurnOf, TakesTurn
  <2> QED
    BY <1>2, <2>1, <2>6, <2>7, <2>8, LocalKeeps
<1>8. ASSUME NEW n \in 1..(Length - w), BeginBatch(c), s.state = "open",
             sock' = [sock EXCEPT ![here] = Receive(@, w, n)],
             written' = [written EXCEPT ![c] = WrittenAfter(w, n)],
             WrittenAfter(w, n) = 0 => events' = aeDeleteFileEvent(events, here, {W}),
             WrittenAfter(w, n) # 0 => UNCHANGED events,
             UNCHANGED <<fd, parser, timers, fresh, complete>>
      PROVE  Kept(here, c)
  <2> DEFINE u == Receive(s, w, n)
             v == WrittenAfter(w, n)
             m == IF w = 0 THEN Pipeline ELSE pending[c]
             h == w = 0 \/ has_pending[c]
  <2>1. written' = [written EXCEPT ![c] = v] /\ sock' = [sock EXCEPT ![here] = u]
    BY <1>8
  <2>2. /\ BeginBatch(c) /\ s.state = "open"
        /\ UNCHANGED <<fd, parser, timers, fresh, complete>>
    BY <1>8
  <2>3. /\ SocketOk(u) /\ v \in 0..Length - 1 /\ IsInBatch(u, <<>>, v, parser[c], m, h, stop)
        /\ TakesTurn(Out(s, <<>>, w), Out(u, <<>>, v), complete[c], complete[c])
    BY <1>2, <1>4, <1>5, <1>6, <2>2, WriteStations
  <2>4. sock'[here] = u /\ \A g \in Fd : g # here => sock'[g] = sock[g]
    BY <1>2, <2>1
  <2>5. /\ pending'[c] = m /\ has_pending'[c] = h
        /\ \A d \in Conn \ {c} : pending'[d] = pending[d] /\ has_pending'[d] = has_pending[d]
    <3>1. CASE AtStart(c)
      BY <1>0, <1>2, <2>2, <3>1 DEF BeginBatch
    <3>2. CASE ~AtStart(c)
      BY <1>2, <2>2, <3>2 DEF BeginBatch, AtStart
    <3> QED
      BY <3>1, <3>2
  <2>6. /\ written'[c] = v
        /\ \A d \in Conn \ {c} : written'[d] = written[d]
        /\ v = 0 => events' = aeDeleteFileEvent(events, here, {W})
        /\ v # 0 => UNCHANGED events
    BY <1>2, <1>8, <2>1
  <2> HIDE DEF u, v, m, h
  <2>7. /\ R \in events'[here].mask /\ (W \in events'[here].mask <=> v # 0)
        /\ events'[here].rproc = e.rproc /\ events'[here].wproc = e.wproc
        /\ events'[here].data = c
        /\ \A g \in Fd : g # here => events'[g] = events[g]
    BY <1>2, <1>3, <1>4, <2>6 DEF aeDeleteFileEvent, R, W, Entries
  <2>8. v = 0 \/ v > 0
    BY <2>3, Lengths
  <2>9. IsSpeaking(events'[here], u, <<>>, timers[c], v, parser[c], m, h, stop)
    BY <1>4, <2>3, <2>7, <2>8 DEF IsSpeaking
  <2>10. ConnOk(c)'
    BY <1>1, <2>2, <2>4, <2>5, <2>6, <2>7, <2>9 DEF ConnOk, Speaks
  <2>11. Local(c)
    BY <1>1, <2>2, <2>4, <2>5, <2>6, <2>7 DEF Local
  <2>12. u.state # "connecting"
    BY <2>3, AlignedState DEF IsInBatch
  <2>13. TurnOf(c)
    <3>1. Load(c) = Out(s, <<>>, w)
      BY <1>1, <1>4 DEF Load
    <3>2. Load(c)' = Out(u, <<>>, v)
      BY <1>1, <1>4, <2>2, <2>4, <2>6, <2>7 DEF Load
    <3> QED
      BY <2>2, <2>3, <3>1, <3>2 DEF TurnOf
  <2> QED
    BY <2>2, <2>3, <2>4, <2>10, <2>11, <2>12, <2>13, LocalKeeps
<1>9. CASE WriteSome(here, c)
  <2>1. PICK n \in 1..(Length - w) :
          /\ sock' = [sock EXCEPT ![here] = Receive(@, w, n)]
          /\ IF BatchWritten(c, n)
             THEN /\ written' = [written EXCEPT ![c] = 0]
                  /\ events' = aeDeleteFileEvent(events, here, {W})
             ELSE /\ written' = [written EXCEPT ![c] = @ + n]
                  /\ UNCHANGED events
    BY <1>9 DEF WriteSome
  <2>2. BeginBatch(c) /\ s.state = "open" /\ UNCHANGED <<fd, parser, timers, fresh, complete>>
    BY <1>9 DEF WriteSome, Live
  <2>3. /\ written' = [written EXCEPT ![c] = WrittenAfter(w, n)]
        /\ WrittenAfter(w, n) = 0 => events' = aeDeleteFileEvent(events, here, {W})
        /\ WrittenAfter(w, n) # 0 => UNCHANGED events
    BY <1>2, <1>6, <2>1 DEF BatchWritten, WrittenAfter
  <2> QED
    BY <1>8, <2>1, <2>2, <2>3
<1>11. CASE WriteRetry(here, c) /\ ~UNCHANGED <<written, sock>>
  <2>1. PICK n \in 1..(Length - w - 1) :
          /\ sock' = [sock EXCEPT ![here] = Receive(@, w, n)]
          /\ written' = [written EXCEPT ![c] = @ + n]
    BY <1>11 DEF WriteRetry
  <2>2. /\ BeginBatch(c) /\ s.state = "open"
        /\ UNCHANGED <<fd, parser, timers, fresh, complete, events>>
    BY <1>11 DEF WriteRetry, Live
  <2>3. n \in 1..(Length - w) /\ WrittenAfter(w, n) = w + n /\ w + n # 0
    BY <1>2, <1>6, <2>1, Lengths DEF WrittenAfter
  <2>4. written' = [written EXCEPT ![c] = WrittenAfter(w, n)]
    BY <2>1, <2>3
  <2> QED
    BY <1>8, <2>1, <2>2, <2>3, <2>4
<1>12. CASE WriteRetry(here, c) /\ UNCHANGED <<written, sock>>
  <2>1. BeginBatch(c) /\ UNCHANGED <<fd, written, parser, timers, events, sock, fresh, complete>>
    BY <1>12 DEF WriteRetry
  <2>2. \A d \in Conn \ {c} : pending'[d] = pending[d] /\ has_pending'[d] = has_pending[d]
    BY <1>2, <2>1 DEF BeginBatch
  <2>3. w # 0 => pending'[c] = pending[c] /\ has_pending'[c] = has_pending[c]
    <3>1. CASE AtStart(c)
      BY <1>0, <1>2, <2>1, <3>1 DEF BeginBatch
    <3>2. CASE ~AtStart(c)
      BY <2>1, <3>2 DEF BeginBatch
    <3> QED
      BY <3>1, <3>2
  <2>4. IsSpeaking(e, s, <<>>, timers[c], w, parser[c], pending'[c], has_pending'[c], stop)
    <3>1. CASE IsQuiet(s, <<>>, w, parser[c])
      BY <1>4, <3>1 DEF IsSpeaking
    <3>2. CASE w > 0 /\ IsInBatch(s, <<>>, w, parser[c], pending[c], has_pending[c], stop)
      <4>1. w # 0
        BY <1>6, <3>2
      <4> QED
        BY <1>4, <2>3, <3>2, <4>1 DEF IsSpeaking
    <3> QED
      BY <1>4, <3>1, <3>2
  <2>5. ConnOk(c)'
    BY <1>1, <1>3, <2>1, <2>4 DEF ConnOk, Speaks
  <2>6. Local(c)
    BY <1>1, <2>1, <2>2 DEF Local
  <2>7. TurnOf(c)
    <3>1. Load(c)' = Load(c)
      BY <1>1, <2>1 DEF Load
    <3> QED
      BY <2>1, <3>1 DEF TurnOf, TakesTurn
  <2> QED
    BY <1>2, <2>1, <2>5, <2>6, <2>7, LocalKeeps
<1>10. CASE WriteError(here, c)
  <2>1. /\ reconnect_socket(c, CountError(errors, "write")) /\ s.state # "open"
        /\ UNCHANGED <<written, parser, timers, complete>>
    BY <1>10 DEF WriteError, Live
  <2>2. Opened(c)
    BY <2>1, ReconnectOpens
  <2>3. \A d \in Conn \ {c} : pending'[d] = pending[d] /\ has_pending'[d] = has_pending[d]
    BY <1>2, <1>10 DEF WriteError, BeginBatch
  <2> QED
    BY <1>1, <1>4, <2>1, <2>2, <2>3, OpenedKeeps
<1> QED
  BY <1>7, <1>9, <1>10, <1>11, <1>12 DEF socket_writeable

-----------------------------------------------------------------------------
(* The steps of socket_readable.                                            *)

\* A batch that is being sent, or awaits its responses.
IsSending(e, s, b, t, w, p, n, h, over) ==
    /\ R \in e.mask /\ e.rproc = "socket_readable" /\ e.wproc = "socket_writeable"
    /\ t = 0 /\ (W \in e.mask <=> w > 0)
    /\ IsInBatch(s, b, w, p, n, h, over)

Sends(c) == IsSending(events[fd[c]], sock[fd[c]], Buffered(c), timers[c], written[c],
                      parser[c], pending[c], has_pending[c], stop)

LEMMA SendingSpeaks ==
    ASSUME NEW e, NEW s, NEW b, NEW t, NEW w \in Nat, NEW p, NEW n, NEW h, NEW over,
           IsSending(e, s, b, t, w, p, n, h, over)
    PROVE  IsSpeaking(e, s, b, t, w, p, n, h, over)
<1>1. w = 0 \/ w > 0
  OBVIOUS
<1> QED
  BY <1>1 DEF IsSending, IsSpeaking

LEMMA SpeakingSends ==
    ASSUME NEW e, NEW s, NEW b, NEW t, NEW w \in Nat, NEW p, NEW n, NEW h, NEW over,
           IsSpeaking(e, s, b, t, w, p, n, h, over), HasInput(s) \/ b # <<>>
    PROVE  IsSending(e, s, b, t, w, p, n, h, over)
<1>1. ~IsQuiet(s, b, w, p)
  BY QuietSocket DEF IsQuiet, HasInput
<1>2. w = 0 => ~(w > 0)
  OBVIOUS
<1> QED
  BY <1>1, <1>2 DEF IsSending, IsSpeaking

\* The connection whose responses are being read is in a batch, unless it
\* has just been opened again.
LEMMA ReaderStation ==
    ASSUME IInv, WireInv, pc \in {"read", "parse"}
    PROVE  /\ reader \in Conn \ unborn /\ fd[reader] \in Fd /\ ConnOk(reader)
           /\ fd[reader] = cur \/ fd[reader] \in fresh
           /\ fd[reader] \in fresh => Connects(reader) /\ parser[reader] = "dead" /\ pc = "parse"
           /\ fd[reader] \notin fresh => Speaks(reader) /\ fd[reader] = cur /\ Buffered(reader) = buf
<1>1. /\ reader \in Conn /\ fd[reader] \in Fd
      /\ fd[reader] = cur \/ fd[reader] \in fresh
      /\ fd[reader] \in fresh => parser[reader] = "dead" \/ pc = "eof"
  BY DEF IInv, DescriptorInv, ReaderInv, InRead
<1>2. reader \notin unborn
  BY <1>1, ConnectionAssumption DEF IInv, DescriptorInv, UnbornUnopened
<1>3. ConnOk(reader)
  BY <1>1, <1>2 DEF WireInv, ConnInv
<1>4. pc = "read" => fd[reader] = cur /\ cur \notin fresh
  BY DEF WireInv, ReadInv
<1>5. ASSUME fd[reader] \notin fresh
      PROVE  Speaks(reader) /\ fd[reader] = cur /\ Buffered(reader) = buf
  <2>1. events[fd[reader]].rproc = "socket_readable" /\ fd[reader] = cur
    BY <1>1, <1>5 DEF WireInv, ReadInv
  <2>2. ~Connects(reader)
    BY <2>1 DEF Connects, IsConnecting
  <2> QED
    BY <1>3, <1>5, <2>1, <2>2 DEF ConnOk, Buffered
<1>6. fd[reader] \in fresh => Connects(reader)
  BY <1>3 DEF ConnOk
<1> QED
  BY <1>1, <1>2, <1>3, <1>4, <1>5, <1>6

LEMMA ReaderSends ==
    ASSUME IInv, WireInv, pc = "read" \/ (pc = "parse" /\ buf # <<>>)
    PROVE  /\ timers[reader] = 0
           /\ fd[reader] \notin fresh => Sends(reader)
<1>1. fd[reader] \in fresh => timers[reader] = 0
  BY ReaderStation DEF Connects, IsConnecting
<1>2. ASSUME fd[reader] \notin fresh
      PROVE  Sends(reader) /\ timers[reader] = 0
  <2>1. Speaks(reader) /\ fd[reader] = cur /\ Buffered(reader) = buf /\ reader \in Conn
    BY <1>2, ReaderStation
  <2>2. HasInput(sock[fd[reader]]) \/ Buffered(reader) # <<>>
    BY <2>1 DEF WireInv, ReadInv
  <2>3. written[reader] \in Nat
    BY <2>1, Lengths DEF IInv, TypeOK, BatchTypes
  <2>4. Sends(reader)
    BY <2>1, <2>2, <2>3, SpeakingSends DEF Speaks, Sends
  <2> QED
    BY <2>4 DEF Sends, IsSending
<1> QED
  BY <1>1, <1>2

\* The buffer is the reader's.
LEMMA OthersUnread ==
    ASSUME reader' \in {reader, NoConn}
    PROVE  \A d \in Conn \ {reader} : Buffered(d)' = Buffered(d)
BY ConnectionAssumption DEF Buffered

\* socket_readable opens its connection again.
LEMMA ReadReopens ==
    ASSUME IInv, WireInv, Orderly, pc = "read" \/ (pc = "parse" /\ buf # <<>>),
           NEW c, c = reader, NEW here, here = cur,
           NEW err, reconnect_socket(c, err), reader' \in {reader, NoConn},
           UNCHANGED <<timers, written, stop>>,
           \A d \in Conn \ {c} :
             /\ parser'[d] = parser[d] /\ pending'[d] = pending[d]
             /\ has_pending'[d] = has_pending[d] /\ complete'[d] = complete[d],
           \/ complete'[c] = complete[c]
           \/ Load(c) > 0 /\ complete'[c] = complete[c] + 1,
           parser'[c] = parser[c] \/ parser'[c] # "untilEof"
    PROVE  Kept(here, c)
<1>1. /\ c \in Conn \ unborn /\ fd[c] \in Fd
      /\ fd[c] = here \/ fd[c] \in fresh
  BY ReaderStation
<1>2. timers'[c] = 0
  BY ReaderSends
<1>3. TypeOK /\ ConnInv /\ SocketsInv /\ buf \in Seq(Tokens)
  BY DEF IInv, WireInv, ReadInv
<1>4. Opened(c)
  BY <1>1, <1>3, ReconnectOpens
<1>5. \A d \in Conn \ {c} : Buffered(d)' = Buffered(d)
  BY OthersUnread
<1> QED
  BY <1>1, <1>2, <1>3, <1>4, <1>5, OpenedKeeps

LEMMA KeptInv ==
    ASSUME ConnInv, unborn \subseteq Conn, NEW here, NEW c \in Conn, Kept(here, c),
           unborn' = unborn \ {c}
    PROVE  ConnInv' /\ SocketsInv' /\ Turned
<1>1. ASSUME NEW d \in unborn' PROVE timers'[d] = 0
  <2>1. d \in unborn /\ d \in Conn \ {c}
    OBVIOUS
  <2> QED
    BY <2>1 DEF Kept, ConnInv
<1>2. ASSUME NEW d \in Conn \ unborn' PROVE ConnOk(d)'
  BY DEF Kept
<1>3. SocketsInv'
  BY DEF Kept
<1>4. \A d \in Conn \ {c} : Still(d)
  BY DEF Kept, Still, Open
<1>5. TakesTurn(Open(c), Open(c)', complete[c], complete'[c])
  <2>1. CASE c \in unborn
    <3>1. Open(c) = 0 /\ Open(c)' = 0 /\ complete'[c] = complete[c]
      BY <2>1 DEF Kept, Open
    <3> QED
      BY <3>1 DEF TakesTurn
  <2>2. CASE c \notin unborn
    <3>1. Open(c) = Load(c) /\ Open(c)' = Load(c)' /\ TurnOf(c)
      BY <2>2 DEF Kept, Open
    <3> QED
      BY <3>1 DEF TurnOf
  <2> QED
    BY <2>1, <2>2
<1>6. Turned
  BY <1>4, <1>5 DEF Turned
<1> QED
  BY <1>1, <1>2, <1>3, <1>6 DEF ConnInv

LEMMA FiredStays ==
    ASSUME FiredInput, NEW c, NEW here, here = cur, Kept(here, c), UNCHANGED <<fired, cur>>
    PROVE  FiredInput'
BY DEF FiredInput, Kept

\* Every step of socket_readable leaves the invariant.
LEMMA ReadDataKeeps ==
    ASSUME IInv, WireInv, ReadData, NEW c, c = reader, NEW here, here = cur
    PROVE  Kept(here, c) /\ ReadInv'
<1> DEFINE s == sock[here]
           in == s.inbox
           n == IF Len(in) < RecvBuf THEN Len(in) ELSE RecvBuf
           u == [s EXCEPT !.inbox = SubSeq(in, n + 1, Len(in))]
           a == SubSeq(in, 1, n)
<1>1. /\ pc = "read" /\ pc' = "parse" /\ s.state = "open" /\ in # <<>> /\ buf = <<>>
      /\ fd[c] = here /\ here \notin fresh /\ here \in Fd /\ c \in Conn \ unborn /\ ConnOk(c)
  BY ReaderStation DEF ReadData, Live, WireInv, ReadInv
<1>2. /\ UNCHANGED <<fd, written, pending, has_pending, parser, timers, events, fired, cur,
                     reader, stop, fresh, complete>>
      /\ buf' = a
      /\ sock' = [sock EXCEPT ![here].inbox = SubSeq(in, n + 1, Len(in))]
  BY <1>1 DEF ReadData, connVars
<1>3. /\ sock \in [Fd -> Sockets] /\ s \in Sockets /\ SocketOk(s) /\ written[c] \in 0..Length - 1
      /\ pending[c] \in Nat
  <2>1. sock \in [Fd -> Sockets] /\ SocketsInv
    BY DEF IInv, WireInv, TypeOK, SocketTypes
  <2>2. s \in Sockets /\ SocketOk(s)
    BY <1>1, <2>1 DEF SocketsInv
  <2>3. written \in [Conn -> 0..Length - 1] /\ pending \in [Conn -> 0..Word - 1]
    BY DEF IInv, TypeOK, BatchTypes
  <2>4. written[c] \in 0..Length - 1 /\ pending[c] \in Nat
    BY <1>1, <2>3, ConnectionAssumption
  <2> QED
    BY <2>1, <2>2, <2>4
<1>4. sock'[here] = u /\ \A g \in Fd : g # here => sock'[g] = sock[g]
  BY <1>1, <1>2, <1>3
<1>5. Sends(c) /\ Buffered(c) = <<>> /\ timers[c] = 0
  BY <1>1, ReaderStation, ReaderSends
<1>6. Buffered(c)' = a
  BY <1>1, <1>2 DEF Buffered
<1>7. in \in Seq(Tokens) /\ n \in 1..Len(in)
  <2>1. in \in Seq(Tokens) /\ Len(in) \in Nat \ {0}
    BY <1>1, <1>3 DEF SocketOk
  <2> QED
    BY <2>1, ConnectionAssumption
<1>8. ReadMoves(s, u, a)
  BY <1>7 DEF ReadMoves
<1>9. IsSending(events[here], s, <<>>, timers[c], written[c], parser[c], pending[c],
                has_pending[c], stop)
  BY <1>1, <1>5 DEF Sends
<1>10. Aligned(s, written[c]) /\ Wire(s, <<>>, written[c])
  BY <1>3, <1>9 DEF IsSending, IsInBatch, Wire, SocketOk
<1> HIDE DEF s, u, a, n
<1>11. /\ Wire(u, a, written[c]) /\ Aligned(u, written[c]) /\ u.garbled = s.garbled
       /\ u.state = "open" /\ Out(u, a, written[c]) = Out(s, <<>>, written[c])
       /\ Counted(s, <<>>, written[c], pending[c]) => Counted(u, a, written[c], pending[c])
  <2> DEFINE w == written[c]
             k == pending[c]
  <2>1. Wire(s, <<>>, w) /\ Aligned(s, w) /\ s.state = "open" /\ ReadMoves(s, u, a) /\ k \in Nat
    BY <1>1, <1>3, <1>8, <1>10 DEF s
  <2> HIDE DEF w, k, in
  <2>2. ReadKept(s, u, a, w)
    BY <2>1, ReadKeeps
  <2>3. Counted(s, <<>>, w, k) => Counted(u, a, w, k)
    BY <2>1, <2>2 DEF ReadKept
  <2> QED
    BY <2>2, <2>3 DEF w, k, ReadKept
<1>12. IsSending(events[here], u, a, timers[c], written[c], parser[c], pending[c],
                 has_pending[c], stop)
  BY <1>9, <1>11 DEF IsSending, IsInBatch
<1>13. written[c] \in Nat
  BY <1>3, Lengths
<1>14. IsSpeaking(events[here], u, a, timers[c], written[c], parser[c], pending[c],
                  has_pending[c], stop)
  BY <1>12, <1>13, SendingSpeaks
<1>15. Speaks(c)'
  BY <1>1, <1>2, <1>4, <1>6, <1>14 DEF Speaks
<1>16. ConnOk(c)'
  BY <1>1, <1>2, <1>15 DEF ConnOk
<1>17. SocketOk(u)
  BY <1>3, <1>11 DEF SocketOk, Wire
<1>18. \A d \in Conn \ {c} : Buffered(d)' = Buffered(d)
  BY <1>2, OthersUnread
<1>19. Local(c)
  BY <1>1, <1>2, <1>4, <1>18 DEF Local
<1>20. Kept(here, c)
  <2>1. ConnInv /\ SocketsInv
    BY DEF WireInv
  <2>2. c \in Conn \ unborn /\ sock'[fd[c]] = u /\ u.state # "connecting" /\ fd[c] = here
        /\ parser'[c] = parser[c]
    BY <1>1, <1>2, <1>4, <1>11
  <2>3. TurnOf(c)
    <3>1. Load(c) = Out(s, <<>>, written[c])
      BY <1>1, <1>5, <1>9 DEF Load, IsSending, s
    <3>2. Load(c)' = Out(u, a, written[c])
      BY <1>1, <1>2, <1>4, <1>6, <1>9 DEF Load, IsSending
    <3> QED
      BY <1>2, <1>11, <3>1, <3>2 DEF TurnOf, TakesTurn
  <2>4. Kept(fd[c], c)
    BY <1>16, <1>17, <1>19, <2>1, <2>2, <2>3, LocalKeeps
  <2> QED
    BY <2>2, <2>4
<1>21. ReadInv'
  BY <1>1, <1>2, <1>11 DEF WireInv, ReadInv, Wire
<1> QED
  BY <1>20, <1>21

\* The error exit of socket_readable.
LEMMA ReadFailsKeeps ==
    ASSUME IInv, WireInv, Orderly, pc = "read" \/ (pc = "parse" /\ buf # <<>>), ReadFails,
           NEW c, c = reader, NEW here, here = cur,
           parser' = parser \/ parser' = [parser EXCEPT ![c] = "dead"]
    PROVE  Kept(here, c) /\ ReadInv'
<1>1. /\ reconnect_socket(c, CountError(errors, "read"))
      /\ pc' = "writable" /\ buf' = <<>> /\ reader' = NoConn
      /\ UNCHANGED <<written, pending, has_pending, timers, stop, complete>>
  BY DEF ReadFails, ReturnFromRead
<1>2. c \in Conn /\ parser \in [Conn -> {"start", "untilEof", "dead"}]
  BY ReaderStation DEF IInv, TypeOK, BatchTypes
<1>3. /\ \A d \in Conn \ {c} : parser'[d] = parser[d]
      /\ parser'[c] = parser[c] \/ parser'[c] = "dead"
  BY <1>2
<1>4. Kept(here, c)
  BY <1>1, <1>3, ReadReopens
<1>5. <<>> \in Seq(Tokens) /\ \A d \in Conn : parser'[d] # "untilEof"
  BY <1>2, <1>3 DEF WireInv, ReadInv
<1>6. ReadInv'
  BY <1>1, <1>5 DEF ReadInv
<1> QED
  BY <1>4, <1>6

\* socket_readable returns, or goes on reading.
LEMMA ReadEndKeeps ==
    ASSUME IInv, WireInv, pc \in {"read", "parse"}, buf = <<>>,
           NEW c, c = reader, NEW here, here = cur,
           UNCHANGED <<fd, written, pending, has_pending, parser, timers, events, fired, cur,
                       sock, stop, fresh, buf, complete>>,
           \/ pc' = "writable" /\ reader' = NoConn
           \/ pc' = "read" /\ reader' = c /\ Live(fd[c]) /\ sock[fd[c]].inbox # <<>>
    PROVE  Kept(here, c) /\ ReadInv'
<1>1. c \in Conn \ unborn /\ fd[c] \in Fd /\ ConnOk(c)
  BY ReaderStation
<1>2. \A d \in Conn : Buffered(d) = <<>> /\ Buffered(d)' = <<>>
  BY DEF Buffered
<1>3. Unmoved(c) /\ Local(c)
  BY <1>2 DEF Unmoved, Local
<1>4. ConnOk(c)' /\ TurnOf(c)
  <2>1. ConnOk(c)' /\ Load(c)' = Load(c)
    BY <1>1, <1>2, <1>3, UnmovedStays, UnmovedLoad
  <2> QED
    BY <2>1 DEF TurnOf, TakesTurn
<1>5. ConnInv /\ SocketsInv /\ SocketOk(sock'[fd[c]])
  BY <1>1 DEF WireInv, SocketsInv
<1>6. Kept(fd[c], c)
  BY <1>1, <1>3, <1>4, <1>5, LocalKeeps
<1>7. Kept(here, c)
  BY <1>6 DEF Kept
<1>8. ASSUME pc' = "writable", reader' = NoConn
      PROVE  ReadInv'
  BY <1>8 DEF WireInv, ReadInv
<1>9. ASSUME pc' = "read", reader' = c, Live(fd[c]), sock[fd[c]].inbox # <<>>
      PROVE  ReadInv'
  <2>1. fd[c] \notin fresh
    <3>1. Connects(c) => sock[fd[c]].inbox = <<>>
      BY NewSocket DEF Connects, IsConnecting, SocketStates
    <3> QED
      BY <1>9, <3>1, ReaderStation
  <2>2. fd[c] = cur /\ cur \notin fresh /\ HasInput(sock[cur])
    BY <1>9, <2>1, ReaderStation DEF HasInput
  <2>3. events[cur].rproc = "socket_readable"
    BY <2>1, <2>2, ReaderStation DEF Speaks, IsSpeaking
  <2>4. fd'[reader'] = cur' /\ cur' \notin fresh' /\ HasInput(sock'[cur'])
        /\ events'[cur'].rproc = "socket_readable"
    BY <1>9, <2>2, <2>3
  <2> QED
    BY <1>9, <2>4 DEF WireInv, ReadInv
<1> QED
  BY <1>7, <1>8, <1>9

\* What a response that is counted finds: the batch it belongs to.
LEMMA ResponseFinds ==
    ASSUME IInv, WireInv, ParseResponse, NEW c, c = reader, NEW here, here = cur
    PROVE  /\ c \in Conn \ unborn /\ here \in Fd \ fresh /\ fd[c] = here /\ ConnOk(c)
           /\ Buffered(c) = buf /\ buf \in Seq(Tokens) /\ buf # <<>>
           /\ IsSending(events[here], sock[here], buf, timers[c], written[c], parser[c],
                        pending[c], has_pending[c], stop)
           /\ Wire(sock[here], buf, written[c]) /\ Aligned(sock[here], written[c])
           /\ ~sock[here].garbled
           /\ pending[c] \in 0..Word - 1
           /\ Load(c) = Out(sock[here], buf, written[c]) /\ Load(c) \in Nat /\ Load(c) > 0
           /\ Out(sock[here], Tail(buf), written[c]) = Load(c) - 1
<1>1. pc = "parse" /\ buf # <<>> /\ parser[c] = "start"
  BY DEF ParseResponse
<1>2. /\ c \in Conn \ unborn /\ fd[c] \in Fd \ fresh /\ ConnOk(c) /\ fd[c] = here
      /\ Buffered(c) = buf
  BY <1>1, ReaderStation
<1>3. Sends(c)
  BY <1>1, <1>2, ReaderSends
<1>4. buf \in Seq(Tokens)
  BY DEF WireInv, ReadInv
<1>5. /\ sock[here] \in Sockets /\ SocketOk(sock[here]) /\ written[c] \in 0..Length - 1
      /\ pending[c] \in 0..Word - 1
  BY <1>2, SocketTypesHere DEF IInv, WireInv
<1>6. IsSending(events[here], sock[here], buf, timers[c], written[c], parser[c],
                pending[c], has_pending[c], stop)
  BY <1>2, <1>3 DEF Sends
<1>7. Aligned(sock[here], written[c])
  BY <1>6 DEF IsSending, IsInBatch
<1>8. Wire(sock[here], buf, written[c])
  BY <1>4, <1>5 DEF Wire, SocketOk
<1>9. Load(c) = Out(sock[here], buf, written[c])
  BY <1>2, <1>6 DEF Load, IsSending
<1>10. /\ Load(c) \in Nat /\ Load(c) > 0
       /\ Out(sock[here], Tail(buf), written[c]) = Load(c) - 1
  BY <1>1, <1>7, <1>8, <1>9, ParseLess
<1> QED
  BY <1>1, <1>2, <1>4, <1>5, <1>6, <1>7, <1>8, <1>9, <1>10 DEF SocketOk

\* What is left when one more response is counted.
LEMMA OneLess ==
    ASSUME NEW m \in 1..Word - 1
    PROVE  (m + Word - 1) % Word = m - 1 /\ m - 1 \in 0..Word - 1
<1>1. Word \in Nat \ {0} /\ m \in Int /\ m - 1 \in Int
  BY ConnectionAssumption
<1>2. m + Word - 1 = (m - 1) + Word * 1
  BY <1>1
<1>3. ((m - 1) + Word * 1) % Word = (m - 1) % Word
  <2> DEFINE x == m - 1
             y == (m - 1) + Word * 1
  <2>1. x \in Int /\ 1 \in Int /\ y = x + Word * 1
    BY <1>1
  <2> HIDE DEF x, y
  <2>2. y % Word = x % Word
    BY <1>1, <2>1, DivisionSplit
  <2> QED
    BY <2>2 DEF x, y
<1>4. (m - 1) % Word = m - 1
  BY <1>1
<1> QED
  BY <1>1, <1>2, <1>3, <1>4

LEMMA LastResponseKeeps ==
    ASSUME IInv, WireInv, ParseResponse, NEW c, c = reader, NEW here, here = cur,
           LastResponse(c, "start") \/ LastResponse(c, "dead")
    PROVE  Kept(here, c)
<1> DEFINE s == sock[here]
<1>1. /\ c \in Conn \ unborn /\ here \in Fd \ fresh /\ fd[c] = here /\ ConnOk(c)
      /\ buf \in Seq(Tokens) /\ buf # <<>> /\ ~s.garbled
      /\ IsSending(events[here], s, buf, timers[c], written[c], parser[c],
                   pending[c], has_pending[c], stop)
      /\ Wire(s, buf, written[c])
      /\ Load(c) \in Nat /\ Load(c) > 0 /\ Out(s, Tail(buf), written[c]) = Load(c) - 1
  BY ResponseFinds
<1>2. /\ UNCHANGED <<fd, written, pending, has_pending, timers, events, sock, cur, reader, fresh,
                     complete>>
      /\ stop' = TRUE /\ buf' = Tail(buf)
      /\ parser' = [parser EXCEPT ![c] = "start"] \/ parser' = [parser EXCEPT ![c] = "dead"]
  BY DEF ParseResponse, LastResponse
<1>3. /\ \A d \in Conn \ {c} : parser'[d] = parser[d]
      /\ parser'[c] # "untilEof"
      /\ written[c] \in 0..Length - 1
  BY <1>1, <1>2 DEF IInv, TypeOK, BatchTypes
<1>4. written[c] \in Nat
  BY <1>3, Lengths
<1>5. IsSending(events[here], s, Tail(buf), timers[c], written[c], parser'[c],
                pending[c], has_pending[c], TRUE)
  BY <1>1 DEF IsSending, IsInBatch
<1>6. IsSpeaking(events[here], s, Tail(buf), timers[c], written[c], parser'[c],
                 pending[c], has_pending[c], TRUE)
  BY <1>4, <1>5, SendingSpeaks
<1>7. Buffered(c)' = Tail(buf)
  BY <1>1, <1>2 DEF Buffered
<1>8. Speaks(c)'
  BY <1>1, <1>2, <1>6, <1>7 DEF Speaks
<1>9. ConnOk(c)'
  BY <1>1, <1>2, <1>8 DEF ConnOk
<1>10. Local(c)
  <2>1. \A d \in Conn \ {c} : Buffered(d)' = Buffered(d)
    BY <1>2, OthersUnread
  <2> QED
    BY <1>2, <1>3, <2>1 DEF Local
<1>11. ConnInv /\ SocketsInv /\ SocketOk(sock'[fd[c]])
  BY <1>1, <1>2 DEF WireInv, SocketsInv
<1>12. TurnOf(c)
  <2>1. Load(c)' = Load(c) - 1
    BY <1>1, <1>2, <1>7 DEF Load, IsSending
  <2>2. Load(c) - 1 \in 0..Load(c) - 1
    BY <1>1
  <2> QED
    BY <1>2, <2>1, <2>2 DEF TurnOf, TakesTurn
<1>13. Kept(fd[c], c)
  BY <1>1, <1>2, <1>3, <1>9, <1>10, <1>11, <1>12, LocalKeeps
<1> QED
  BY <1>1, <1>13

LEMMA KeepAliveKeeps ==
    ASSUME IInv, WireInv, ParseResponse, NEW c, c = reader, NEW here, here = cur,
           Head(buf) # "close", NextResponse(c, "start", TRUE)
    PROVE  Kept(here, c) /\ pending'[c] = pending[c] - 1
<1> DEFINE s == sock[here]
           w == written[c]
           n == pending[c]
           a == Tail(buf)
<1>1. /\ c \in Conn \ unborn /\ here \in Fd \ fresh /\ fd[c] = here /\ ConnOk(c)
      /\ buf \in Seq(Tokens) /\ buf # <<>> /\ ~s.garbled
      /\ IsSending(events[here], s, buf, timers[c], w, parser[c],
                   n, has_pending[c], stop)
      /\ Wire(s, buf, w) /\ Aligned(s, w) /\ n \in 0..Word - 1
      /\ Load(c) \in Nat /\ Load(c) > 0 /\ Out(s, a, w) = Load(c) - 1
  BY ResponseFinds
<1>2. ~stop
  BY DEF NextResponse, WireInv, StopInv
<1>3. Counted(s, buf, w, n) /\ n \in Nat
  BY <1>1, <1>2, ConnectionAssumption DEF IsSending, IsInBatch
<1>4. /\ n >= 1
      /\ n = 1 => s = Socket("open") /\ w = 0 /\ a = <<>>
      /\ n > 1 => Counted(s, a, w, n - 1)
  BY <1>1, <1>3, ParseKeeps
<1>5. (n + Word - 1) % Word = n - 1 /\ (n - 1 = 0 <=> n = 1) /\ (n - 1 # 0 => n > 1)
  <2>1. n \in 1..Word - 1
    BY <1>1, <1>4
  <2> QED
    BY <2>1, OneLess
<1>6. /\ events \in [Fd -> Entries] /\ parser \in [Conn -> {"start", "untilEof", "dead"}]
      /\ pending \in [Conn -> 0..Word - 1] /\ has_pending \in [Conn -> BOOLEAN]
      /\ w \in 0..Length - 1 /\ complete \in [Conn -> Nat]
  BY <1>1 DEF IInv, TypeOK, BatchTypes, SocketTypes
<1>7. /\ UNCHANGED <<fd, written, timers, sock, cur, reader, fresh, stop>>
      /\ buf' = a
      /\ parser' = [parser EXCEPT ![c] = "start"]
      /\ complete' = [complete EXCEPT ![c] = @ + 1]
      /\ pending' = [pending EXCEPT ![c] = n - 1]
      /\ has_pending' = PendingAfter(c, n - 1)
      /\ events' = EventsAfter(c, n - 1)
  BY <1>5 DEF ParseResponse, NextResponse
<1> HIDE DEF n, a
<1>8. /\ parser'[c] = "start" /\ pending'[c] = n - 1 /\ complete'[c] = complete[c] + 1
      /\ \A d \in Conn \ {c} : /\ parser'[d] = parser[d] /\ pending'[d] = pending[d]
                               /\ has_pending'[d] = has_pending[d] /\ complete'[d] = complete[d]
  BY <1>1, <1>6, <1>7 DEF PendingAfter
<1>9. Buffered(c)' = a
  BY <1>1, <1>7 DEF Buffered
<1>10. s # Closed
  BY <1>1, AlignedState, SocketNotClosed DEF Wire
<1>11. ASSUME n = 1 PROVE ConnOk(c)'
  <2>1. s = Socket("open") /\ w = 0 /\ a = <<>>
    BY <1>4, <1>11
  <2>2. events' = aeCreateFileEvent(events, here, {W}, "socket_writeable", c)
    BY <1>1, <1>5, <1>7, <1>10, <1>11 DEF EventsAfter, Register
  <2>3. /\ R \in events'[here].mask /\ W \in events'[here].mask
        /\ events'[here].rproc = "socket_readable" /\ events'[here].wproc = "socket_writeable"
        /\ events'[here].data = c
        /\ \A g \in Fd : g # here => events'[g] = events[g]
    BY <1>1, <1>6, <2>2 DEF aeCreateFileEvent, R, W, IsSending
  <2>4. timers[c] = 0
    BY <1>1 DEF IsSending
  <2>5. IsQuiet(s, a, w, parser'[c])
    BY <1>8, <2>1 DEF IsQuiet
  <2>6. IsSpeaking(events'[here], s, a, timers[c], w, parser'[c], pending'[c], has_pending'[c],
                   stop)
    BY <2>3, <2>4, <2>5 DEF IsSpeaking
  <2>7. Speaks(c)'
    BY <1>1, <1>7, <1>9, <2>6 DEF Speaks
  <2> QED
    BY <1>1, <1>7, <2>3, <2>7 DEF ConnOk
<1>12. ASSUME n # 1 PROVE ConnOk(c)'
  <2>1. events' = events /\ has_pending' = has_pending /\ n > 1
    BY <1>5, <1>7, <1>12 DEF EventsAfter, PendingAfter
  <2>2. IsSending(events[here], s, a, timers[c], w, parser'[c], pending'[c], has_pending[c], stop)
    BY <1>1, <1>4, <1>8, <2>1 DEF IsSending, IsInBatch
  <2>3. w \in Nat
    BY <1>6, Lengths
  <2>4. IsSpeaking(events[here], s, a, timers[c], w, parser'[c], pending'[c], has_pending[c], stop)
    BY <2>2, <2>3, SendingSpeaks
  <2>5. Speaks(c)'
    BY <1>1, <1>7, <1>9, <2>1, <2>4 DEF Speaks
  <2>6. events[here].data = c
    BY <1>1 DEF ConnOk
  <2> QED
    BY <1>1, <1>7, <2>1, <2>5, <2>6 DEF ConnOk
<1>13. ConnOk(c)'
  BY <1>11, <1>12
<1>14. \A g \in Fd : g # here => events'[g] = events[g]
  BY <1>1, <1>6, <1>7 DEF EventsAfter, Register, aeCreateFileEvent
<1>15. Local(c)
  <2>1. \A d \in Conn \ {c} : Buffered(d)' = Buffered(d)
    BY <1>7, OthersUnread
  <2> QED
    BY <1>1, <1>7, <1>8, <1>14, <2>1 DEF Local
<1>16. ConnInv /\ SocketsInv /\ SocketOk(sock'[fd[c]])
  BY <1>1, <1>7 DEF WireInv, SocketsInv
<1>17. TurnOf(c)
  <2>1. events'[here].rproc = "socket_readable"
    BY <1>1, <1>6, <1>7 DEF EventsAfter, Register, aeCreateFileEvent, IsSending, R, W
  <2>2. Load(c)' = Load(c) - 1
    BY <1>1, <1>7, <1>9, <2>1 DEF Load
  <2> QED
    BY <1>1, <1>8, <2>2 DEF TurnOf, TakesTurn
<1>18. Kept(fd[c], c)
  BY <1>1, <1>7, <1>8, <1>13, <1>15, <1>16, <1>17, LocalKeeps
<1> QED
  BY <1>1, <1>8, <1>18 DEF n

LEMMA ResponseKeeps ==
    ASSUME IInv, WireInv, Orderly, ParseResponse, NEW c, c = reader, NEW here, here = cur
    PROVE  Kept(here, c) /\ ReadInv'
<1>1. /\ c \in Conn \ unborn /\ here \in Fd \ fresh /\ fd[c] = here
      /\ buf \in Seq(Tokens) /\ buf # <<>>
      /\ events[here].rproc = "socket_readable"
  BY ResponseFinds DEF IsSending
<1>2. /\ pc = "parse" /\ pc' = "parse" /\ buf' = Tail(buf)
      /\ UNCHANGED <<timers, cur, reader>>
  BY DEF ParseResponse
<1>3. Tail(buf) \in Seq(Tokens)
  BY <1>1, TailFacts
<1>4. events \in [Fd -> Entries] /\ parser \in [Conn -> {"start", "untilEof", "dead"}]
      /\ pending \in [Conn -> 0..Word - 1] /\ has_pending \in [Conn -> BOOLEAN]
      /\ complete \in [Conn -> Nat]
  BY DEF IInv, TypeOK, SocketTypes, BatchTypes
<1>5. CASE LastResponse(c, "start") \/ LastResponse(c, "dead")
  <2>1. Kept(here, c)
    BY <1>5, LastResponseKeeps
  <2>2. UNCHANGED <<events, fd, fresh>>
    BY <1>5 DEF LastResponse
  <2>3. \A d \in Conn : parser'[d] # "untilEof"
    BY <2>1 DEF Kept, WireInv, ReadInv
  <2> QED
    BY <1>1, <1>2, <1>3, <2>1, <2>2, <2>3 DEF ReadInv
<1>6. CASE NextResponse(c, "start", TRUE) /\ KeepAlive(Head(buf))
  <2>1. Kept(here, c)
    BY <1>6, KeepAliveKeeps DEF KeepAlive
  <2>2. \E n : events' = EventsAfter(c, n)
    BY <1>6 DEF NextResponse
  <2>3. events'[here].rproc = "socket_readable"
    BY <1>1, <1>4, <2>2 DEF EventsAfter, Register, aeCreateFileEvent, R, W
  <2>4. \A d \in Conn : parser'[d] # "untilEof"
    BY <2>1 DEF Kept, WireInv, ReadInv
  <2> QED
    BY <1>1, <1>2, <1>3, <2>1, <2>3, <2>4 DEF ReadInv
<1>7. CASE NextResponse(c, "dead", FALSE)
  <2>1. /\ reconnect_socket(c, errors) /\ UNCHANGED <<written, stop>>
        /\ parser' = [parser EXCEPT ![c] = "dead"]
        /\ complete' = [complete EXCEPT ![c] = @ + 1]
        /\ \E n : pending' = [pending EXCEPT ![c] = n] /\ has_pending' = PendingAfter(c, n)
    BY <1>7 DEF NextResponse
  <2>2. /\ parser'[c] = "dead" /\ complete'[c] = complete[c] + 1 /\ Load(c) > 0
        /\ \A d \in Conn \ {c} : /\ parser'[d] = parser[d] /\ pending'[d] = pending[d]
                                 /\ has_pending'[d] = has_pending[d] /\ complete'[d] = complete[d]
    BY <1>1, <1>4, <2>1, ResponseFinds DEF PendingAfter
  <2>3. Kept(here, c)
    BY <1>1, <1>2, <2>1, <2>2, ReadReopens
  <2>4. Opened(c)
    BY <1>1, <2>1, ReconnectOpens DEF IInv
  <2>5. \A d \in Conn : parser'[d] # "untilEof"
    BY <2>3 DEF Kept, WireInv, ReadInv
  <2> QED
    BY <1>2, <1>3, <2>3, <2>4, <2>5 DEF ReadInv, Opened
<1>8. \/ LastResponse(c, "start") \/ LastResponse(c, "dead")
      \/ NextResponse(c, "start", TRUE) /\ KeepAlive(Head(buf))
      \/ NextResponse(c, "dead", FALSE)
  BY DEF ParseResponse, response_complete
<1> QED
  BY <1>5, <1>6, <1>7, <1>8

\* Every step of socket_readable.
LEMMA HandlerWire ==
    ASSUME IInv, WireInv, Orderly, Handler
    PROVE  WireInv' /\ Turned
<1> SUFFICES ASSUME NEW c, c = reader, NEW here, here = cur
             PROVE  WireInv' /\ Turned
  OBVIOUS
<1>1. TypeOK /\ ConnInv /\ FiredInput /\ ReadInv /\ StopInv /\ SocketsInv
  BY DEF IInv, WireInv
<1>2. /\ UNCHANGED <<unborn, fired, cur, expired>> /\ pc' # "poll"
      /\ stop' => stop \/ expired
      /\ pc \in {"read", "parse"}
      /\ Kept(here, c) /\ ReadInv'
  <2>1. pc # "eof" /\ \A d \in Conn : parser[d] # "untilEof"
    BY <1>1 DEF ReadInv
  <2>2. pc = "parse" /\ buf # <<>> => Head(buf) \in Tokens
    BY <1>1, TailFacts DEF ReadInv
  <2>3. pc \in {"read", "parse"} => reader \in Conn
    BY ReaderStation
  <2>4. CASE ReadData
    BY <2>4, ReadDataKeeps DEF ReadData, pace
  <2>5. CASE ReadEofOfBody
    BY <2>1, <2>3, <2>5 DEF ReadEofOfBody
  <2>6. CASE ReadError
    <3>1. pc = "read" /\ ReadFails /\ parser' = parser
      BY <2>1, <2>6 DEF ReadError
    <3>2. Kept(here, c) /\ ReadInv'
      BY <3>1, ReadFailsKeeps
    <3> QED
      BY <3>1, <3>2 DEF ReadFails, ReturnFromRead, pace
  <2>7. CASE ReadRetry
    <3>1. /\ pc = "read" /\ pc' = "writable" /\ reader' = NoConn /\ buf = <<>> /\ buf' = <<>>
          /\ UNCHANGED <<fd, written, pending, has_pending, parser, timers, events, fired, cur,
                         sock, stop, fresh, complete, unborn, expired>>
      BY <1>1, <2>7 DEF ReadRetry, ReturnFromRead, connVars, pace, ReadInv
    <3>2. Kept(here, c) /\ ReadInv'
      BY <3>1, ReadEndKeeps
    <3> QED
      BY <3>1, <3>2
  <2>8. CASE ParseResponse
    <3>1. Kept(here, c) /\ ReadInv'
      BY <2>8, ResponseKeeps
    <3> QED
      BY <2>8, <3>1 DEF ParseResponse, response_complete, LastResponse, NextResponse
  <2>9. CASE ParseOpenBody
    BY <2>1, <2>2, <2>3, <2>9 DEF ParseOpenBody, Tokens
  <2>10. CASE ParseError
    <3>1. pc = "parse" /\ buf # <<>> /\ ReadFails /\ parser' = [parser EXCEPT ![c] = "dead"]
      BY <2>10 DEF ParseError
    <3>2. Kept(here, c) /\ ReadInv'
      BY <3>1, ReadFailsKeeps
    <3> QED
      BY <3>1, <3>2 DEF ReadFails, ReturnFromRead, pace
  <2>11. CASE ParseEnd
    <3>1. /\ pc = "parse" /\ buf = <<>>
          /\ UNCHANGED <<fd, written, pending, has_pending, parser, timers, events, fired, cur,
                         sock, stop, fresh, complete, unborn, expired, buf>>
          /\ \/ pc' = "writable" /\ reader' = NoConn
             \/ pc' = "read" /\ reader' = c /\ Live(fd[c]) /\ sock[fd[c]].inbox # <<>>
      BY <2>11 DEF ParseEnd, ReturnFromRead, connVars, pace
    <3>2. Kept(here, c) /\ ReadInv'
      BY <3>1, ReadEndKeeps
    <3> QED
      BY <3>1, <3>2
  <2> QED
    BY <2>4, <2>5, <2>6, <2>7, <2>8, <2>9, <2>10, <2>11 DEF Handler
<1>3. c \in Conn \ unborn /\ unborn \subseteq Conn /\ unborn' = unborn \ {c}
  BY <1>1, <1>2, ReaderStation DEF TypeOK, LoopTypes
<1>4. ConnInv' /\ SocketsInv' /\ Turned
  BY <1>1, <1>2, <1>3, KeptInv
<1>5. FiredInput'
  BY <1>1, <1>2, FiredStays
<1>6. StopInv'
  BY <1>1, <1>2 DEF StopInv
<1> QED
  BY <1>2, <1>4, <1>5, <1>6 DEF WireInv

-----------------------------------------------------------------------------
(* The steps of the event loop.                                             *)

LEMMA AllStay ==
    ASSUME ConnInv, SocketsInv, UNCHANGED <<fd, written, pending, has_pending, complete, parser,
                                            timers, events, sock, unborn>>,
           fresh' \subseteq fresh, stop => stop',
           \A d \in Conn : Buffered(d)' = Buffered(d)
    PROVE  ConnInv' /\ SocketsInv' /\ Turned
<1>1. ASSUME NEW d \in Conn \ unborn PROVE ConnOk(d)' /\ Load(d)' = Load(d)
  <2>1. ConnOk(d) /\ Unmoved(d)
    BY DEF ConnInv, Unmoved
  <2> QED
    BY <2>1, UnmovedStays, UnmovedLoad
<1>2. ConnInv'
  BY <1>1 DEF ConnInv
<1>3. \A d \in Conn : Still(d)
  BY <1>1 DEF Still, Open
<1> QED
  BY <1>2, <1>3 DEF SocketsInv, Turned

\* A descriptor that is watched is that of a connection.
LEMMA WatchedOwner ==
    ASSUME IInv, WireInv, NEW f \in Fd, events[f].mask # {}, NEW c, c = events[f].data
    PROVE  /\ c \in Conn \ unborn /\ fd[c] = f /\ ConnOk(c)
           /\ events[f].rproc = "socket_connected" \/ events[f].wproc = "socket_connected"
                => Connects(c)
           /\ ~(events[f].rproc = "socket_connected" \/ events[f].wproc = "socket_connected")
                => Speaks(c)
<1>1. c \in Conn /\ fd[c] = f
  BY DEF IInv, DescriptorInv, OwnDescriptor
<1>2. c \notin unborn
  BY <1>1, ConnectionAssumption DEF IInv, DescriptorInv, UnbornUnopened
<1>3. ConnOk(c)
  BY <1>1, <1>2 DEF WireInv, ConnInv
<1> QED
  BY <1>1, <1>2, <1>3 DEF ConnOk, Connects, IsConnecting, Speaks, IsSpeaking

LEMMA DispatchReadableWire ==
    ASSUME IInv, WireInv, Orderly, NEW f \in Fd, DispatchReadable(f)
    PROVE  WireInv' /\ Turned
<1> SUFFICES ASSUME NEW c, c = events[f].data
             PROVE  WireInv' /\ Turned
  OBVIOUS
<1>1. /\ TypeOK /\ ConnInv /\ FiredInput /\ ReadInv /\ StopInv /\ SocketsInv
      /\ unborn \subseteq Conn
  BY DEF IInv, WireInv, TypeOK, LoopTypes
<1>2. /\ pc = "dispatch" /\ fired[f] # {} /\ R \in fired[f] /\ events[f].mask # {}
      /\ cur' = f
      /\ UNCHANGED <<unborn, fired, buf, stop, expired>>
  BY DEF DispatchReadable, RunsRead, pace
<1>3. cur \notin Fd /\ f \notin fresh /\ reader = NoConn /\ buf = <<>>
  BY <1>1, <1>2 DEF IInv, DescriptorInv, CurInv, InDispatch, FiredInv, ReadInv
<1>4. sock[f].state # "connecting" /\ HasInput(sock[f])
  BY <1>1, <1>2, <1>3 DEF FiredInput
<1>5. c \in Conn \ unborn /\ fd[c] = f /\ ConnOk(c)
  BY <1>2, WatchedOwner
<1>6. CASE events[f].rproc = "socket_connected"
  <2>1. socket_connected(f, c) /\ pc' = "writable" /\ reader' = reader
    BY <1>6 DEF DispatchReadable
  <2>2. Connects(c)
    BY <1>2, <1>6, WatchedOwner
  <2>3. Kept(f, c)
    BY <1>1, <1>2, <1>3, <1>4, <1>5, <2>1, <2>2, ConnectedKeeps
  <2>4. ConnInv' /\ SocketsInv' /\ Turned
    BY <1>1, <1>2, <1>5, <2>3, KeptInv
  <2>5. FiredInput'
    BY <1>1, <1>2, <1>3, <2>3 DEF FiredInput, Kept
  <2>6. \A d \in Conn : parser'[d] # "untilEof"
    BY <1>1, <2>3 DEF ReadInv, Kept
  <2>7. ReadInv'
    BY <1>1, <1>2, <1>3, <2>1, <2>6 DEF ReadInv
  <2>8. StopInv'
    BY <1>1, <1>2, <2>1 DEF StopInv
  <2> QED
    BY <2>4, <2>5, <2>7, <2>8 DEF WireInv
<1>7. CASE events[f].rproc # "socket_connected"
  <2>1. /\ pc' = "read" /\ reader' = c
        /\ UNCHANGED <<fd, written, pending, has_pending, complete, parser, timers, events, sock,
                       fresh>>
    BY <1>7 DEF DispatchReadable, connVars
  <2>2. \A d \in Conn : Buffered(d)' = Buffered(d)
    BY <1>2, <1>3 DEF Buffered
  <2>3. ConnInv' /\ SocketsInv' /\ Turned
    BY <1>1, <1>2, <2>1, <2>2, AllStay
  <2>4. FiredInput'
    BY <1>1, <1>2, <1>3, <2>1 DEF FiredInput
  <2>5. events[f].rproc = "socket_readable"
    BY <1>5, <1>7 DEF ConnOk, Connects, IsConnecting, Speaks, IsSpeaking
  <2>6. ReadInv'
    BY <1>1, <1>2, <1>3, <1>4, <1>5, <2>1, <2>5 DEF ReadInv
  <2>7. StopInv'
    BY <1>1, <1>2, <2>1 DEF StopInv
  <2> QED
    BY <2>3, <2>4, <2>6, <2>7 DEF WireInv
<1> QED
  BY <1>6, <1>7

LEMMA DispatchWritableWire ==
    ASSUME IInv, WireInv, TlsInv, Orderly, DispatchWritable
    PROVE  WireInv' /\ Turned
<1> SUFFICES ASSUME NEW f, f = cur, NEW c, c = events[f].data
             PROVE  WireInv' /\ Turned
  OBVIOUS
<1>1. /\ TypeOK /\ ConnInv /\ FiredInput /\ ReadInv /\ StopInv /\ SocketsInv
      /\ unborn \subseteq Conn
  BY DEF IInv, WireInv, TypeOK, LoopTypes
<1>2. /\ pc = "writable" /\ RunsWrite(events[f], fired[f], rfired)
      /\ W \in events[f].mask /\ events[f].mask # {} /\ fired[f] # {}
      /\ pc' = "dispatch" /\ cur' = NoFd /\ fired' = [fired EXCEPT ![f] = {}]
      /\ UNCHANGED <<unborn, buf, reader, stop, expired>>
  BY DEF DispatchWritable, RunsWrite, pace
<1>3. f \in Fd /\ f \notin fresh /\ reader = NoConn /\ buf = <<>>
  <2>1. NoStaleReadiness
    BY ReadinessIsCurrent
  <2> QED
    BY <1>1, <1>2, <2>1 DEF IInv, DescriptorInv, CurInv, InDispatch, NoStaleReadiness, ReadInv
<1>4. sock[f].state # "connecting"
  BY <1>1, <1>2, <1>3 DEF FiredInput
<1>5. c \in Conn \ unborn /\ fd[c] = f
  BY <1>2, <1>3, WatchedOwner
<1>6. Kept(f, c)
  <2>1. CASE events[f].wproc = "socket_connected"
    <3>1. socket_connected(f, c) /\ Connects(c)
      BY <1>2, <1>3, <2>1, WatchedOwner DEF DispatchWritable
    <3> QED
      BY <1>1, <1>2, <1>3, <1>4, <1>5, <3>1, ConnectedKeeps
  <2>2. CASE events[f].wproc # "socket_connected"
    <3>1. socket_writeable(f, c)
      BY <2>2 DEF DispatchWritable
    <3>2. Speaks(c)
      BY <1>2, <1>3, <2>2, WatchedOwner DEF Connects, IsConnecting
    <3> QED
      BY <1>1, <1>2, <1>3, <1>5, <3>1, <3>2, WriteableKeeps
  <2> QED
    BY <2>1, <2>2
<1>7. ConnInv' /\ SocketsInv' /\ Turned
  BY <1>1, <1>2, <1>5, <1>6, KeptInv
<1>8. FiredInput'
  <2>1. fired \in [Fd -> SUBSET RW]
    BY <1>1 DEF TypeOK, LoopTypes
  <2>2. fired'[f] = {} /\ \A g \in Fd : g # f => fired'[g] = fired[g]
    BY <1>2, <1>3, <2>1
  <2> QED
    BY <1>1, <1>6, <2>2 DEF FiredInput, Kept
<1>9. \A d \in Conn : parser'[d] # "untilEof"
  BY <1>1, <1>6 DEF ReadInv, Kept
<1>10. ReadInv'
  BY <1>1, <1>2, <1>3, <1>9 DEF ReadInv
<1>11. StopInv'
  BY <1>1, <1>2 DEF StopInv
<1> QED
  BY <1>7, <1>8, <1>10, <1>11 DEF WireInv

\* The steps that touch no connection.
LEMMA IdleStepWire ==
    ASSUME IInv, WireInv,
           Poll \/ EndDispatch \/ EndTimers \/ check_timeouts \/ DispatchNotWritable
             \/ \E f \in Fd : DispatchNotReadable(f)
    PROVE  WireInv' /\ Turned
<1>1. /\ TypeOK /\ ConnInv /\ FiredInput /\ ReadInv /\ StopInv /\ SocketsInv
      /\ sock \in [Fd -> Sockets] /\ fired \in [Fd -> SUBSET RW]
  BY DEF IInv, WireInv, TypeOK, SocketTypes, LoopTypes
<1>2. /\ UNCHANGED <<fd, written, pending, has_pending, complete, parser, timers, events, sock,
                     unborn, reader, buf, expired>>
      /\ fresh' \subseteq fresh
      /\ pc \in {"poll", "dispatch", "timers", "writable"}
      /\ pc' \in {"dispatch", "timers", "poll", "done", "writable"}
  BY DEF Poll, EndDispatch, EndTimers, check_timeouts, DispatchNotWritable, DispatchNotReadable,
         connVars, pace
<1>3. /\ stop => stop'
      /\ stop' => stop \/ expired
      /\ pc' = "poll" => ~stop'
  BY <1>1, <1>2 DEF StopInv, Poll, EndDispatch, EndTimers, check_timeouts, DispatchNotWritable,
         DispatchNotReadable
<1>4. reader = NoConn /\ buf = <<>> /\ reader' = NoConn
  BY <1>1, <1>2 DEF ReadInv
<1>5. \A d \in Conn : Buffered(d)' = Buffered(d)
  BY <1>4, Unread
<1>6. ConnInv' /\ SocketsInv' /\ Turned
  BY <1>1, <1>2, <1>3, <1>5, AllStay
<1>7. ReadInv'
  BY <1>1, <1>2, <1>4 DEF ReadInv
<1>8. StopInv'
  BY <1>1, <1>2, <1>3 DEF StopInv
<1>9. FiredInput'
  <2>1. CASE Poll
    <3>1. ASSUME NEW f \in Fd, fired'[f] # {}
          PROVE  sock[f].state # "connecting" /\ (R \in fired'[f] => HasInput(sock[f]))
      <4>1. fired'[f] = Reported(f)
        BY <2>1, <3>1 DEF Poll
      <4>2. /\ sock[f].state = "failed" \/ Ready(f) # {}
            /\ R \in fired'[f] => R \in Ready(f)
        BY <3>1, <4>1 DEF Reported, R, W
      <4> QED
        BY <4>2 DEF Ready, Live, HasInput, RW, R, W
    <3> QED
      BY <1>2, <3>1 DEF FiredInput
  <2>2. CASE EndDispatch \/ EndTimers \/ check_timeouts
    <3>1. UNCHANGED <<fired, cur, fresh>>
      BY <2>2 DEF EndDispatch, EndTimers, check_timeouts
    <3> QED
      BY <1>1, <1>2, <3>1 DEF FiredInput
  <2>3. CASE DispatchNotWritable
    <3>1. fired' = [fired EXCEPT ![cur] = {}] /\ UNCHANGED fresh /\ cur \in Fd
      BY <2>3 DEF DispatchNotWritable, IInv, DescriptorInv, CurInv, InDispatch
    <3>2. fired'[cur] = {} /\ \A g \in Fd : g # cur => fired'[g] = fired[g]
      BY <1>1, <3>1
    <3> QED
      BY <1>1, <1>2, <3>1, <3>2 DEF FiredInput
  <2>4. CASE \E f \in Fd : DispatchNotReadable(f)
    <3>1. UNCHANGED <<fired, fresh>> /\ pc = "dispatch"
      BY <2>4 DEF DispatchNotReadable
    <3>2. cur \notin Fd
      BY <3>1 DEF IInv, DescriptorInv, CurInv, InDispatch
    <3> QED
      BY <1>1, <1>2, <3>1, <3>2 DEF FiredInput
  <2> QED
    BY <2>1, <2>2, <2>3, <2>4
<1> QED
  BY <1>6, <1>7, <1>8, <1>9 DEF WireInv

\* The timers run when nothing that was reported is left.
LEMMA TimerStepWire ==
    ASSUME IInv, WireInv, NEW c \in Conn, pc = "timers", Kept(fd[c], c), unborn' = unborn \ {c},
           UNCHANGED <<fired, cur, pc, reader, buf, stop, expired, parser>>
    PROVE  WireInv' /\ Turned
<1>1. /\ ConnInv /\ FiredInput /\ ReadInv /\ StopInv /\ unborn \subseteq Conn
  BY DEF IInv, WireInv, TypeOK, LoopTypes
<1>2. \A f \in Fd : fired[f] = {}
  BY DEF IInv, DescriptorInv, CurInv
<1>3. ConnInv' /\ SocketsInv' /\ Turned
  BY <1>1, KeptInv
<1>4. FiredInput' /\ ReadInv' /\ StopInv'
  BY <1>1, <1>2 DEF FiredInput, ReadInv, StopInv
<1> QED
  BY <1>3, <1>4 DEF WireInv

LEMMA InitialConnectWire ==
    ASSUME IInv, WireInv, Orderly, NEW c \in Conn, delayed_initial_connect(c)
    PROVE  WireInv' /\ Turned
<1>1. /\ TypeOK /\ ConnInv /\ SocketsInv /\ ReadInv
  BY DEF IInv, WireInv
<1>2. /\ pc = "timers" /\ c \in unborn /\ unborn' = unborn \ {c}
      /\ connect_socket(c, events, sock, errors)
      /\ UNCHANGED <<written, pending, has_pending, complete, parser, timers, fired, cur, pc,
                     reader, buf, stop, expired>>
  BY DEF delayed_initial_connect, loopVars, pace
<1>3. fd[c] \notin Fd
  BY <1>2, ConnectionAssumption DEF IInv, DescriptorInv, UnbornUnopened
<1>4. Opened(c)
  BY <1>1, <1>2, <1>3, ConnectOpens
<1>5. reader = NoConn /\ reader' = NoConn
  BY <1>1, <1>2 DEF ReadInv
<1>6. \A d \in Conn : Buffered(d)' = Buffered(d)
  BY <1>5, Unread
<1>7. timers'[c] = 0
  BY <1>1, <1>2 DEF ConnInv
<1>8. Kept(fd[c], c)
  <2>1. buf \in Seq(Tokens)
    BY <1>1 DEF ReadInv
  <2> QED
    BY <1>1, <1>2, <1>3, <1>4, <1>6, <1>7, <2>1, OpenedKeeps
<1> QED
  BY <1>2, <1>8, TimerStepWire

LEMMA DelayWire ==
    ASSUME IInv, WireInv, NEW c \in Conn, delay_request(c)
    PROVE  WireInv' /\ Turned
<1> DEFINE f == fd[c]
<1>1. /\ TypeOK /\ ConnInv /\ SocketsInv /\ ReadInv /\ events \in [Fd -> Entries]
      /\ timers \in [Conn -> Nat]
  BY DEF IInv, WireInv, TypeOK, SocketTypes, BatchTypes
<1>2. /\ pc = "timers" /\ timers[c] > 0
      /\ timers' = [timers EXCEPT ![c] = @ - 1]
      /\ events' = Register(events, sock, f, {W}, "socket_writeable", c)
      /\ UNCHANGED <<fd, sock, fresh, unborn, written, pending, has_pending, complete, parser,
                     fired, cur, pc, reader, buf, stop, expired>>
  BY DEF delay_request, loopVars, pace, connVars, bounds
<1>3. c \notin unborn
  BY <1>1, <1>2 DEF ConnInv
<1>4. ConnOk(c) /\ f \in Fd /\ events[f].data = c
  BY <1>1, <1>3 DEF ConnInv, ConnOk
<1>5. reader = NoConn /\ reader' = NoConn
  BY <1>1, <1>2 DEF ReadInv
<1>6. \A d \in Conn : Buffered(d) = <<>> /\ Buffered(d)' = <<>>
  BY <1>5, Unread
<1>7. /\ R \in events[f].mask /\ events[f].rproc = "socket_readable"
      /\ timers[c] = 1 /\ IsQuiet(sock[f], <<>>, written[c], parser[c])
  <2>1. ~Connects(c)
    BY <1>2 DEF Connects, IsConnecting
  <2>2. timers[c] # 0
    BY <1>1, <1>2
  <2> QED
    BY <1>4, <1>6, <2>1, <2>2 DEF ConnOk, Speaks, IsSpeaking
<1>8. sock[f] # Closed
  BY <1>7, SocketNotClosed DEF IsQuiet
<1>9. events' = aeCreateFileEvent(events, f, {W}, "socket_writeable", c)
  BY <1>2, <1>4, <1>8 DEF Register
<1>10. /\ R \in events'[f].mask /\ W \in events'[f].mask
       /\ events'[f].rproc = "socket_readable" /\ events'[f].wproc = "socket_writeable"
       /\ events'[f].data = c
       /\ \A g \in Fd : g # f => events'[g] = events[g]
  BY <1>1, <1>4, <1>7, <1>9 DEF aeCreateFileEvent, R, W
<1>11. timers'[c] = 0 /\ \A d \in Conn \ {c} : timers'[d] = timers[d]
  BY <1>1, <1>2, <1>7
<1> HIDE DEF f
<1>12. IsSpeaking(events'[f], sock[f], <<>>, timers'[c], written[c], parser[c], pending[c],
                  has_pending[c], stop)
  BY <1>7, <1>10, <1>11 DEF IsSpeaking
<1>13. f = fd[c] /\ fd'[c] = f
  BY <1>2 DEF f
<1>14. Speaks(c)'
  BY <1>2, <1>6, <1>12, <1>13 DEF Speaks
<1>15. f \notin fresh
  BY <1>4, <1>7, <1>13 DEF ConnOk, Connects, IsConnecting
<1>16. ConnOk(c)'
  BY <1>2, <1>4, <1>10, <1>13, <1>14, <1>15 DEF ConnOk
<1>17. Local(c)
  BY <1>2, <1>6, <1>10, <1>11, <1>13 DEF Local
<1>18. SocketOk(sock'[fd[c]]) /\ sock'[fd[c]] = sock[fd[c]] /\ parser'[c] = parser[c]
  BY <1>1, <1>2, <1>4, <1>13 DEF SocketsInv
<1>19. Kept(fd[c], c)
  <2>1. Load(c)' = Load(c)
    BY <1>2, <1>6, <1>7, <1>10, <1>13 DEF Load
  <2>2. TurnOf(c)
    BY <1>2, <2>1 DEF TurnOf, TakesTurn
  <2> QED
    BY <1>1, <1>3, <1>16, <1>17, <1>18, <2>2, LocalKeeps
<1>20. unborn' = unborn \ {c}
  BY <1>2, <1>3
<1> QED
  BY <1>2, <1>19, <1>20, TimerStepWire

LEMMA LoopWire ==
    ASSUME IInv, WireInv, TlsInv, Orderly, Loop
    PROVE  WireInv' /\ Turned
BY IdleStepWire, DispatchWritableWire, DispatchReadableWire, InitialConnectWire, DelayWire
   DEF Loop

-----------------------------------------------------------------------------
(* The network and the server.                                              *)

\* A response of such a peer.
Answered(s, kind) == [s EXCEPT !.inbox = Append(@, kind), !.owed = @ - 1,
                               !.said = @ \/ kind = "close"]

LEMMA PeersAnswer ==
    ASSUME TypeOK, Orderly, NEW f \in Fd, NEW kind \in ReplyKinds, Reply(f, kind)
    PROVE  /\ kind \in Tokens /\ sock[f].state = "open" /\ ~sock[f].fin /\ sock[f].owed > 0
           /\ ServerStep(f, Answered(sock[f], kind))
<1> DEFINE s == sock[f]
<1>1. s \in Sockets
  BY DEF TypeOK, SocketTypes
<1>2. kind \in Tokens /\ s.state = "open" /\ ~s.fin /\ s.owed > 0
  BY DEF Reply, Live, Fault, Orderly
<1>3. kind # "interim" /\ (kind \in {"close", "untilEof"} <=> kind = "close")
  BY <1>2 DEF Tokens
<1>4. ServerStep(f, [s EXCEPT !.inbox = Append(@, kind),
                              !.owed = IF kind = "interim" THEN @ ELSE @ - 1,
                              !.said = @ \/ kind \in {"close", "untilEof"}])
  BY DEF Reply
<1>5. [s EXCEPT !.inbox = Append(@, kind),
                !.owed = IF kind = "interim" THEN @ ELSE @ - 1,
                !.said = @ \/ kind \in {"close", "untilEof"}] = Answered(s, kind)
  <2>1. (IF kind = "interim" THEN s.owed ELSE s.owed - 1) = s.owed - 1
    BY <1>3
  <2>2. (s.said \/ kind \in {"close", "untilEof"}) = (s.said \/ kind = "close")
    BY <1>3
  <2> QED
    BY <1>1, <2>1, <2>2 DEF Sockets, Answered
<1> QED
  BY <1>2, <1>4, <1>5

\* What the peers of Orderly do to a socket they have accepted.
LEMMA PeersMove ==
    ASSUME TypeOK, Orderly, NEW f \in Fd,
           Close(f) \/ Reset(f) \/ \E kind \in ReplyKinds : Reply(f, kind)
    PROVE  \E u : ServerMoves(sock[f], u) /\ ServerStep(f, u)
<1> DEFINE s == sock[f]
<1>1. s \in Sockets /\ s.owed \in Int /\ s.rx \in 0..ReqLen - 1 /\ s.said \in BOOLEAN
  BY DEF TypeOK, SocketTypes, Sockets
<1>2. s.rx \in Nat
  BY <1>1, Lengths
<1>3. ~Idle(f) => s.owed > 0 \/ s.rx > 0
  BY <1>1, <1>2 DEF Idle
<1>4. CASE Close(f)
  <2> DEFINE u == [s EXCEPT !.fin = TRUE]
  <2>1. s.state = "open" /\ ~s.fin /\ ServerStep(f, u)
    BY <1>4 DEF Close, Live
  <2>2. s.said \/ s.owed > 0 \/ s.rx > 0
    BY <1>3, <1>4 DEF Close, Fault, Orderly
  <2> QED
    BY <2>1, <2>2 DEF ServerMoves
<1>5. CASE Reset(f)
  <2> DEFINE u == Socket("failed")
  <2>1. s.state = "open" /\ ServerStep(f, u)
    BY <1>5 DEF Reset, Live
  <2>2. s.said \/ s.owed > 0 \/ s.rx > 0
    BY <1>3, <1>5 DEF Reset, Fault, Orderly
  <2> QED
    BY <2>1, <2>2 DEF ServerMoves
<1>6. ASSUME NEW kind \in ReplyKinds, Reply(f, kind)
      PROVE  \E u : ServerMoves(s, u) /\ ServerStep(f, u)
  <2> DEFINE u == Answered(s, kind)
  <2>1. /\ kind \in Tokens /\ s.state = "open" /\ ~s.fin /\ s.owed > 0
        /\ ServerStep(f, u)
    BY <1>6, PeersAnswer
  <2>2. ServerMoves(s, u)
    BY <2>1 DEF ServerMoves, Answered
  <2> QED
    BY <2>1, <2>2
<1> QED
  BY <1>4, <1>5, <1>6

\* What such a move leaves true of any socket.
LEMMA MovesKeep ==
    ASSUME NEW s \in Sockets, SocketOk(s), NEW u, ServerMoves(s, u)
    PROVE  /\ SocketOk(u) /\ u.state # "connecting" /\ s.state # "connecting"
           /\ HasInput(s) => HasInput(u)
<1>1. CASE u = Socket("failed") /\ s.state = "open"
  BY <1>1, NewSocket DEF SocketStates, SocketOk, HasInput
<1>2. CASE u = [s EXCEPT !.fin = TRUE] /\ s.state = "open"
  BY <1>2 DEF Sockets, SocketOk, HasInput
<1>3. ASSUME NEW kind \in Tokens, s.state = "open",
             u = [s EXCEPT !.inbox = Append(@, kind), !.owed = @ - 1,
                           !.said = @ \/ kind = "close"]
      PROVE  SocketOk(u) /\ u.state # "connecting" /\ HasInput(u)
  <2>1. u.inbox = Append(s.inbox, kind) /\ u.garbled = s.garbled /\ u.state = s.state
    BY <1>3 DEF Sockets
  <2>2. Append(s.inbox, kind) \in Seq(Tokens) /\ Append(s.inbox, kind) # <<>>
    BY <1>3, AppendFacts DEF SocketOk
  <2> QED
    BY <1>3, <2>1, <2>2 DEF SocketOk, HasInput
<1> QED
  BY <1>1, <1>2, <1>3 DEF ServerMoves

\* A connection on the socket that moved stays at its station, and nothing in
\* flight there comes to more than it was.
LEMMA MovedStation ==
    ASSUME TypeOK, ConnInv, SocketsInv, buf \in Seq(Tokens), NEW c \in Conn \ unborn,
           NEW u, ServerMoves(sock[fd[c]], u)
    PROVE  /\ IsSending(events[fd[c]], sock[fd[c]], Buffered(c), timers[c], written[c],
                        parser[c], pending[c], has_pending[c], stop)
           /\ ServerKeeps(sock[fd[c]], u, Buffered(c), written[c])
           /\ pending[c] \in Nat /\ written[c] \in Nat
<1> DEFINE s == sock[fd[c]]
           b == Buffered(c)
           w == written[c]
<1>1. ConnOk(c) /\ fd[c] \in Fd
  BY DEF ConnInv, ConnOk
<1>2. /\ s \in Sockets /\ SocketOk(s) /\ w \in 0..Length - 1 /\ pending[c] \in 0..Word - 1
  BY <1>1, SocketTypesHere
<1>3. b \in Seq(Tokens) /\ w \in Nat /\ pending[c] \in Nat
  BY <1>2, Lengths, ConnectionAssumption DEF Buffered
<1> HIDE DEF b, w
<1>4. s.state = "open" /\ (s.said \/ s.owed > 0 \/ s.rx > 0)
  BY DEF ServerMoves
<1>5. s # Socket("open")
  BY <1>4, QuietSocket
<1>6. ~Connects(c)
  <2>1. \A st : Socket(st).state = st
    BY DEF Socket
  <2> QED
    BY <1>4, <1>5, <2>1 DEF Connects, IsConnecting
<1>7. IsSpeaking(events[fd[c]], s, b, timers[c], w, parser[c], pending[c], has_pending[c], stop)
  BY <1>1, <1>6 DEF ConnOk, Speaks, b, w
<1>8. w = 0 => ~(w > 0)
  BY <1>3
<1>9. IsSending(events[fd[c]], s, b, timers[c], w, parser[c], pending[c], has_pending[c], stop)
  BY <1>5, <1>7, <1>8 DEF IsSpeaking, IsSending, IsQuiet
<1>10. Wire(s, b, w) /\ Aligned(s, w)
  BY <1>2, <1>3, <1>9 DEF IsSending, IsInBatch, Wire, SocketOk, w
<1>11. ServerKeeps(s, u, b, w)
  BY <1>10, ServerMovesKeep
<1> QED
  BY <1>3, <1>9, <1>11 DEF b, w

LEMMA ServerStepWire ==
    ASSUME IInv, WireInv, NEW f \in Fd, NEW u, ServerStep(f, u),
           \/ ServerMoves(sock[f], u)
           \/ sock[f].state = "connecting" /\ (u = Socket("open") \/ (Tls /\ u = Socket("failed")))
    PROVE  WireInv' /\ Turned
<1> DEFINE s == sock[f]
<1>1. /\ TypeOK /\ ConnInv /\ FiredInput /\ ReadInv /\ StopInv /\ SocketsInv
      /\ sock \in [Fd -> Sockets] /\ buf \in Seq(Tokens)
  BY DEF IInv, WireInv, TypeOK, SocketTypes, ReadInv
<1>2. /\ UNCHANGED <<fd, written, pending, has_pending, complete, parser, expired, unborn, timers,
                     events, fired, pc, cur, reader, buf, stop, fresh>>
      /\ sock' = [sock EXCEPT ![f] = u]
  BY DEF ServerStep, connVars, pace, loopVars
<1>3. sock'[f] = u /\ \A g \in Fd : g # f => sock'[g] = sock[g]
  BY <1>1, <1>2
<1>4. s \in Sockets /\ SocketOk(s)
  BY <1>1 DEF SocketsInv
<1>5. \A d \in Conn : Buffered(d)' = Buffered(d)
  BY <1>2 DEF Buffered
<1>6. ASSUME NEW d \in Conn \ unborn, fd[d] # f
      PROVE  ConnOk(d)' /\ Load(d)' = Load(d)
  <2>1. ConnOk(d) /\ fd[d] \in Fd
    BY <1>1 DEF ConnInv, ConnOk
  <2>2. Unmoved(d)
    BY <1>2, <1>3, <1>6, <2>1 DEF Unmoved
  <2> QED
    BY <1>5, <2>1, <2>2, UnmovedStays, UnmovedLoad
<1>7. ASSUME NEW d \in Conn \ unborn, fd[d] = f
      PROVE  ConnOk(d)' /\ TurnOf(d)
  <2>1. ConnOk(d)
    BY <1>1 DEF ConnInv
  <2>2. CASE ServerMoves(s, u)
    <3>1. /\ IsSending(events[f], s, Buffered(d), timers[d], written[d], parser[d],
                       pending[d], has_pending[d], stop)
          /\ ServerKeeps(s, u, Buffered(d), written[d])
          /\ pending[d] \in Nat /\ written[d] \in Nat
      BY <1>1, <1>7, <2>2, MovedStation
    <3>2. IsSending(events[f], u, Buffered(d), timers[d], written[d], parser[d],
                    pending[d], has_pending[d], stop)
      BY <3>1 DEF IsSending, IsInBatch, ServerKeeps
    <3>3. IsSpeaking(events[f], u, Buffered(d), timers[d], written[d], parser[d],
                     pending[d], has_pending[d], stop)
      BY <3>1, <3>2, SendingSpeaks
    <3>4. Speaks(d)'
      BY <1>2, <1>3, <1>5, <1>7, <3>3 DEF Speaks
    <3>5. ~Connects(d)
      BY <1>7, <3>1 DEF Connects, IsConnecting, IsSending
    <3>6. ConnOk(d)'
      BY <1>2, <1>7, <2>1, <3>4, <3>5 DEF ConnOk
    <3>7. TurnOf(d)
      <4>1. Load(d) = Out(s, Buffered(d), written[d])
        BY <1>7, <3>1 DEF Load, IsSending
      <4>2. Load(d)' = Out(u, Buffered(d), written[d])
        BY <1>2, <1>3, <1>5, <1>7, <3>1 DEF Load, IsSending
      <4>3. Load(d) \in Nat
        BY <1>1, <2>1, LoadIsNat
      <4>4. Load(d)' \in Nat /\ Load(d)' <= Load(d)
        BY <3>1, <4>1, <4>2 DEF ServerKeeps
      <4>5. Load(d)' = Load(d) \/ Load(d)' \in 0..Load(d) - 1
        BY <4>3, <4>4
      <4> QED
        BY <1>2, <4>5 DEF TurnOf, TakesTurn
    <3> QED
      BY <3>6, <3>7
  <2>3. CASE /\ s.state = "connecting"
             /\ u = Socket("open") \/ (Tls /\ u = Socket("failed"))
    <3>1. Connects(d)
      <4>1. ~Speaks(d)
        BY <1>7, <2>3, AlignedState, QuietSocket DEF Speaks, IsSpeaking, IsQuiet, IsInBatch
      <4> QED
        BY <2>1, <4>1 DEF ConnOk
    <3>2. Connects(d)'
      BY <1>2, <1>3, <1>7, <2>3, <3>1 DEF Connects, IsConnecting
    <3>3. ConnOk(d)'
      BY <1>2, <2>1, <3>2 DEF ConnOk
    <3>4. Load(d) = 0 /\ Load(d)' = 0
      BY <3>1, <3>2 DEF Connects, IsConnecting, Load
    <3> QED
      BY <1>2, <3>3, <3>4 DEF TurnOf, TakesTurn
  <2> QED
    BY <2>2, <2>3
<1>8. ConnInv'
  BY <1>1, <1>2, <1>6, <1>7 DEF ConnInv
<1>9. SocketOk(u) /\ u.state # "connecting" /\ (s.state = "connecting" \/ (HasInput(s) => HasInput(u)))
  <2>1. CASE ServerMoves(s, u)
    BY <1>4, <2>1, MovesKeep
  <2>2. CASE s.state = "connecting" /\ (u = Socket("open") \/ u = Socket("failed"))
    BY <2>2, NewSocket DEF SocketStates, SocketOk
  <2> QED
    BY <2>1, <2>2
<1>10. SocketsInv'
  BY <1>1, <1>3, <1>9 DEF SocketsInv
<1>11. FiredInput'
  BY <1>1, <1>2, <1>3, <1>9 DEF FiredInput
<1>12. ReadInv'
  <2>1. ASSUME pc = "read" PROVE HasInput(sock'[cur])
    <3>1. Speaks(reader) /\ fd[reader] = cur /\ fd[reader] \in Fd /\ HasInput(sock[cur])
      BY <1>1, <2>1, ReaderStation DEF ReadInv
    <3>2. sock[cur].state # "connecting"
      BY <3>1, AlignedState, QuietSocket DEF Speaks, IsSpeaking, IsQuiet, IsInBatch
    <3> QED
      BY <1>3, <1>9, <3>1, <3>2
  <2> QED
    BY <1>1, <1>2, <2>1 DEF ReadInv
<1>13. StopInv'
  BY <1>1, <1>2 DEF StopInv
<1>14. \A d \in Conn : d \in unborn \/ fd[d] # f => Still(d)
  BY <1>2, <1>6 DEF Still, Open
<1>15. Turned
  <2>1. ASSUME NEW c \in Conn \ unborn, fd[c] = f
        PROVE  Turned
    <3>1. \A d \in Conn \ {c} : Still(d)
      BY <1>1, <1>14, <2>1, Apart
    <3>2. TakesTurn(Open(c), Open(c)', complete[c], complete'[c])
      BY <1>2, <1>7, <2>1 DEF TurnOf, Open
    <3> QED
      BY <3>1, <3>2 DEF Turned
  <2>2. CASE \A d \in Conn \ unborn : fd[d] # f
    BY <1>14, <2>2 DEF Turned
  <2> QED
    BY <2>1, <2>2
<1> QED
  BY <1>8, <1>10, <1>11, <1>12, <1>13, <1>15 DEF WireInv

LEMMA EnvironmentWire ==
    ASSUME IInv, WireInv, Orderly, Environment
    PROVE  WireInv' /\ Turned
<1>1. TypeOK /\ ConnInv /\ SocketsInv /\ FiredInput /\ ReadInv /\ StopInv
  BY DEF IInv, WireInv
<1>2. ASSUME NEW f \in Fd, Accept(f) \/ Refuse(f)
      PROVE  WireInv' /\ Turned
  <2>1. /\ sock[f].state = "connecting"
        /\ \/ ServerStep(f, Socket("open"))
           \/ Tls /\ ServerStep(f, Socket("failed"))
    BY <1>2 DEF Accept, Refuse, Fault, Orderly
  <2> QED
    BY <2>1, ServerStepWire
<1>3. ASSUME NEW f \in Fd, Close(f) \/ Reset(f) \/ \E kind \in ReplyKinds : Reply(f, kind)
      PROVE  WireInv' /\ Turned
  <2>1. \E u : ServerMoves(sock[f], u) /\ ServerStep(f, u)
    BY <1>1, <1>3, PeersMove
  <2> QED
    BY <2>1, ServerStepWire
<1>4. CASE (\E c \in Conn : BecomeDue(c)) \/ Expire
  <2>1. /\ UNCHANGED <<fd, written, pending, has_pending, complete, parser, timers, events, sock,
                       unborn, fired, pc, cur, reader, buf, stop, fresh>>
        /\ expired => expired'
    BY <1>4 DEF BecomeDue, Expire, connVars, loopVars
  <2>2. \A d \in Conn : Buffered(d)' = Buffered(d)
    BY <2>1 DEF Buffered
  <2>3. ConnInv' /\ SocketsInv' /\ Turned
    BY <1>1, <2>1, <2>2, AllStay
  <2>4. FiredInput' /\ ReadInv' /\ StopInv'
    BY <1>1, <2>1 DEF FiredInput, ReadInv, StopInv
  <2> QED
    BY <2>3, <2>4 DEF WireInv
<1> QED
  BY <1>2, <1>3, <1>4 DEF Environment

-----------------------------------------------------------------------------
(* A batch of which a part is sent, over TLS.                               *)

LEMMA InitTls == Init => TlsInv
BY DEF Init, TlsInv, TlsAt

\* What such a connection depends on, in a step that sends no part of its batch.
TlsKept(d) ==
    /\ written'[d] > 0 =>
         /\ written'[d] = written[d]
         /\ pending'[d] \in {pending[d], Pipeline}
         /\ due[d] => due'[d]
    /\ d \in unborn' => d \in unborn
    /\ buf' # <<>> /\ reader' = d => buf # <<>> /\ reader = d

LEMMA TlsStays ==
    ASSUME NEW d, TlsAt(d), TlsKept(d),
           d \notin unborn /\ sock[fd[d]].inbox = <<>> /\ sock[fd[d]].owed = 0 =>
             sock'[fd'[d]].inbox = <<>> /\ sock'[fd'[d]].owed = 0
    PROVE  TlsAt(d)'
BY DEF TlsAt, TlsKept

LEMMA TlsStill ==
    ASSUME TlsInv, \A d \in Conn : TlsKept(d), UNCHANGED <<fd, sock>>
    PROVE  TlsInv'
<1>1. ASSUME Tls, NEW d \in Conn PROVE TlsAt(d)'
  <2>1. TlsAt(d) /\ TlsKept(d)
    BY <1>1 DEF TlsInv
  <2> QED
    BY <2>1, TlsStays
<1> QED
  BY <1>1 DEF TlsInv

\* Nothing has come back on a new socket.
LEMMA TlsOpened ==
    ASSUME ConnInv, TlsInv, NEW c \in Conn, Opened(c), c \in unborn => fd[c] \notin Fd,
           \A d \in Conn : TlsKept(d)
    PROVE  TlsInv'
<1>1. Socket("connecting").inbox = <<>> /\ Socket("connecting").owed = 0
  BY DEF Socket
<1>2. ASSUME Tls, NEW d \in Conn PROVE TlsAt(d)'
  <2>1. TlsAt(d) /\ TlsKept(d)
    BY <1>2 DEF TlsInv
  <2>2. CASE d = c
    <3>1. sock'[fd'[d]].inbox = <<>> /\ sock'[fd'[d]].owed = 0
      BY <1>1, <2>2 DEF Opened
    <3> QED
      BY <2>1, <3>1, TlsStays
  <2>3. ASSUME d # c, d \notin unborn PROVE sock'[fd'[d]] = sock[fd[d]]
    <3>1. fd[d] \in Fd /\ sock[fd[d]] # Closed /\ fd'[d] = fd[d]
      BY <2>3, Apart DEF Opened
    <3>2. fd[d] # fd[c]
      BY <2>3, <3>1, Apart
    <3>3. fd[d] # fd'[c]
      BY <3>1, <3>2 DEF Opened
    <3> QED
      BY <3>1, <3>2, <3>3 DEF Opened
  <2> QED
    BY <2>1, <2>2, <2>3, TlsStays
<1> QED
  BY <1>2 DEF TlsInv

LEMMA ConnectedTls ==
    ASSUME TypeOK, Orderly, ConnInv, TlsInv, NEW c \in Conn \ unborn, NEW here, fd[c] = here,
           here \in Fd, socket_connected(here, c), UNCHANGED <<unborn, due, buf, reader>>
    PROVE  TlsInv'
<1>1. CASE HandshakeDone(here, c)
  <2>1. written \in [Conn -> 0..Length - 1]
    BY DEF TypeOK, BatchTypes
  <2>2. /\ \A d \in Conn : written'[d] = written[d] \/ ~(written'[d] > 0)
        /\ UNCHANGED <<fd, sock, pending>>
    BY <1>1, <2>1 DEF HandshakeDone, WriteFromStart
  <2> QED
    BY <2>2, TlsStill DEF TlsKept
<1>2. CASE HandshakeRetry(here, c)
  <2>1. UNCHANGED <<fd, sock, pending, written>>
    BY <1>2 DEF HandshakeRetry, connVars
  <2> QED
    BY <2>1, TlsStill DEF TlsKept
<1>3. CASE HandshakeError(here, c)
  <2>1. reconnect_socket(c, CountError(errors, "connect")) /\ UNCHANGED <<written, pending>>
    BY <1>3 DEF HandshakeError
  <2>2. Opened(c)
    BY <2>1, ReconnectOpens
  <2> QED
    BY <2>1, <2>2, TlsOpened DEF TlsKept
<1> QED
  BY <1>1, <1>2, <1>3 DEF socket_connected

\* A part of a batch that fits in a record is never sent, and a part of the
\* only request of a batch is answered by nobody.
LEMMA PartUnanswered ==
    ASSUME Orderly, Tls, NEW s \in Sockets, NEW w \in 0..Length - 1, NEW n \in 1..(Length - w - 1),
           (w + n) % Record = 0, w = 0 => s = Socket("open"),
           Aligned(s, w), s.state = "open", s.inbox = <<>>, s.owed = 0
    PROVE  Pipeline = 1 /\ Receive(s, w, n).inbox = <<>> /\ Receive(s, w, n).owed = 0
<1>1. /\ Pipeline \in Nat \ {0} /\ ReqLen \in Nat \ {0} /\ Record \in Nat \ {0}
      /\ Length \in Nat \ {0} /\ w \in Nat /\ n \in Nat /\ w + n < Length /\ w + n > 0
  BY ConnectionAssumption, LengthPositive
<1>2. ~(Length <= Record)
  <2>1. ASSUME Length <= Record PROVE FALSE
    <3>1. PICK k : k = w + n
      OBVIOUS
    <3>2. k \in 1..Record - 1
      BY <1>1, <2>1, <3>1
    <3>3. k % Record = k
      BY <1>1, <3>2, SMTT(30)
    <3> QED
      BY <3>1, <3>2, <3>3
  <2> QED
    BY <2>1
<1>3. Pipeline = 1
  BY <1>2 DEF Orderly
<1>4. Length = ReqLen
  BY <1>1, <1>3 DEF Length
<1>5. CASE s.fin
  BY <1>3, <1>5 DEF Receive
<1>6. CASE ~s.fin
  <2>1. s.rx = w % ReqLen
    BY <1>6 DEF Aligned
  <2>2. w \in 0..ReqLen - 1
    BY <1>4
  <2>3. w % ReqLen = w
    BY <1>1, <2>2, SMTT(30)
  <2>4. PICK k : k = w + n
    OBVIOUS
  <2>5. k \in 0..ReqLen - 1
    BY <1>1, <1>4, <2>4
  <2>6. k \div ReqLen = 0
    BY <1>1, <2>5, SMTT(30)
  <2>7. Received(s, n) = 0
    BY <2>1, <2>3, <2>4, <2>6 DEF Received
  <2>8. Receive(s, w, n).inbox = s.inbox /\ Receive(s, w, n).owed = s.owed + 0
    BY <1>6, <2>7 DEF Receive, Sockets
  <2> QED
    BY <1>3, <2>8
<1> QED
  BY <1>5, <1>6

LEMMA WriteableTls ==
    ASSUME TypeOK, Orderly, ConnInv, TlsInv, NEW c \in Conn \ unborn, NEW here, fd[c] = here,
           here \in Fd, Speaks(c), W \in events[here].mask, reader = NoConn, buf = <<>>,
           socket_writeable(here, c), UNCHANGED <<unborn, due, buf, reader>>
    PROVE  TlsInv'
<1> DEFINE s == sock[here]
           w == written[c]
<1>1. CASE ~Tls
  BY <1>1 DEF TlsInv
<1>2. /\ pending \in [Conn -> 0..Word - 1] /\ written \in [Conn -> 0..Length - 1]
      /\ sock \in [Fd -> Sockets] /\ s \in Sockets /\ w \in 0..Length - 1
  BY DEF TypeOK, BatchTypes, SocketTypes
<1>3. CASE Tls /\ DelayBatch(here, c)
  <2>1. UNCHANGED <<fd, sock, written, pending>>
    BY <1>3 DEF DelayBatch, connVars
  <2> QED
    BY <2>1, TlsStill DEF TlsKept
<1>4. \A d \in Conn : BeginBatch(c) => pending'[d] \in {pending[d], Pipeline}
  BY <1>2 DEF BeginBatch
<1>5. \A d \in Conn \ {c} : fd[d] # here \/ d \in unborn
  BY Apart
<1>6. ASSUME Tls, BeginBatch(c), UNCHANGED fd,
             \A d \in Conn \ {c} : written'[d] = written[d],
             \A g \in Fd \ {here} : sock'[g] = sock[g], TlsAt(c)'
      PROVE  TlsInv'
  <2>1. ASSUME NEW d \in Conn \ {c} PROVE TlsAt(d)'
    <3>1. TlsAt(d) /\ TlsKept(d)
      BY <1>4, <1>6, <2>1 DEF TlsInv, TlsKept
    <3>2. d \notin unborn => sock'[fd'[d]] = sock[fd[d]]
      BY <1>5, <1>6, <2>1, Apart
    <3> QED
      BY <3>1, <3>2, TlsStays
  <2> QED
    BY <1>6, <2>1 DEF TlsInv
<1>7. CASE Tls /\ WriteSome(here, c)
  <2>1. PICK n \in 1..(Length - w) :
          /\ n = Length - w
          /\ sock' = [sock EXCEPT ![here] = Receive(@, w, n)]
          /\ IF BatchWritten(c, n) THEN written' = [written EXCEPT ![c] = 0]
                                   ELSE written' = [written EXCEPT ![c] = @ + n]
    BY <1>7 DEF WriteSome
  <2>2. w + (Length - w) = Length
    BY <1>2, LengthPositive
  <2>3. written' = [written EXCEPT ![c] = 0]
    BY <2>1, <2>2 DEF BatchWritten
  <2>4. written'[c] = 0 /\ \A d \in Conn \ {c} : written'[d] = written[d]
    BY <1>2, <2>3
  <2>5. TlsAt(c)'
    BY <2>4 DEF TlsAt
  <2>6. BeginBatch(c) /\ UNCHANGED fd
    BY <1>7 DEF WriteSome
  <2>7. \A g \in Fd \ {here} : sock'[g] = sock[g]
    BY <1>2, <2>1
  <2> QED
    BY <1>6, <1>7, <2>4, <2>5, <2>6, <2>7
<1>8. CASE Tls /\ WriteRetry(here, c) /\ UNCHANGED <<written, sock>>
  <2>1. BeginBatch(c) /\ UNCHANGED fd
    BY <1>8 DEF WriteRetry
  <2> QED
    BY <1>4, <1>8, <2>1, TlsStill DEF TlsKept
<1>9. CASE Tls /\ WriteRetry(here, c) /\ ~UNCHANGED <<written, sock>>
  <2>1. PICK n \in 1..(Length - w - 1) :
          /\ (w + n) % Record = 0
          /\ sock' = [sock EXCEPT ![here] = Receive(@, w, n)]
          /\ written' = [written EXCEPT ![c] = @ + n]
    BY <1>9 DEF WriteRetry
  <2>2. BeginBatch(c) /\ UNCHANGED fd /\ s.state = "open" /\ Send(c) /\ AtStart(c)
    BY <1>9 DEF WriteRetry, Live, AtStart
  <2>3. /\ \A d \in Conn \ {c} : written'[d] = written[d]
        /\ sock'[here] = Receive(s, w, n) /\ \A g \in Fd \ {here} : sock'[g] = sock[g]
    BY <1>2, <2>1
  <2>4. Aligned(s, w) /\ s.inbox = <<>> /\ s.owed = 0 /\ (w = 0 => s = Socket("open"))
    <3>1. \/ IsQuiet(s, Buffered(c), w, parser[c])
          \/ w > 0 /\ IsInBatch(s, Buffered(c), w, parser[c], pending[c], has_pending[c], stop)
      BY DEF Speaks, IsSpeaking
    <3>2. CASE IsQuiet(s, Buffered(c), w, parser[c])
      <4>1. 0 % ReqLen = 0
        BY ConnectionAssumption
      <4> QED
        BY <3>2, <4>1, QuietSocket DEF IsQuiet, Aligned
    <3>3. CASE w > 0 /\ IsInBatch(s, Buffered(c), w, parser[c], pending[c], has_pending[c], stop)
      <4>1. s.inbox = <<>> /\ s.owed = 0
        BY <1>9, <3>3 DEF TlsInv, TlsAt
      <4>2. w # 0
        BY <1>2, <3>3, LengthPositive
      <4> QED
        BY <3>3, <4>1, <4>2 DEF IsInBatch
    <3> QED
      BY <3>1, <3>2, <3>3
  <2>5. Pipeline = 1 /\ Receive(s, w, n).inbox = <<>> /\ Receive(s, w, n).owed = 0
    BY <1>2, <1>9, <2>1, <2>2, <2>4, PartUnanswered
  <2>6. pending'[c] = Pipeline
    BY <1>2, <2>2 DEF BeginBatch
  <2>7. due'[c]
    BY <2>2 DEF Send
  <2>8. TlsAt(c)'
    BY <2>2, <2>3, <2>5, <2>6, <2>7 DEF TlsAt
  <2> QED
    BY <1>6, <1>9, <2>2, <2>3, <2>8
<1>10. CASE Tls /\ WriteError(here, c)
  <2>1. /\ reconnect_socket(c, CountError(errors, "write")) /\ BeginBatch(c)
        /\ UNCHANGED written
    BY <1>10 DEF WriteError
  <2>2. Opened(c)
    BY <2>1, ReconnectOpens
  <2> QED
    BY <1>4, <2>1, <2>2, TlsOpened DEF TlsKept
<1> QED
  BY <1>1, <1>3, <1>7, <1>8, <1>9, <1>10 DEF socket_writeable

LEMMA LoopTls ==
    ASSUME IInv, WireInv, TlsInv, Orderly, Loop
    PROVE  TlsInv'
<1>1. TypeOK /\ ConnInv /\ ReadInv
  BY DEF IInv, WireInv
<1>2. CASE \/ Poll \/ EndDispatch \/ EndTimers \/ check_timeouts \/ DispatchNotWritable
           \/ \E f \in Fd : DispatchNotReadable(f)
           \/ \E c \in Conn : delay_request(c)
  <2>1. UNCHANGED <<fd, sock, written, pending, due, unborn, buf, reader>>
    BY <1>2 DEF Poll, EndDispatch, EndTimers, check_timeouts, DispatchNotWritable,
                DispatchNotReadable, delay_request, connVars, pace, loopVars
  <2> QED
    BY <2>1, TlsStill DEF TlsKept
<1>3. ASSUME NEW f \in Fd, DispatchReadable(f)
      PROVE  TlsInv'
  <2>1. PICK c : c = events[f].data
    OBVIOUS
  <2>2. /\ pc = "dispatch" /\ events[f].mask # {} /\ UNCHANGED <<unborn, due, buf>>
    BY <1>3 DEF DispatchReadable, RunsRead, pace
  <2>3. c \in Conn \ unborn /\ fd[c] = f
    BY <2>1, <2>2, WatchedOwner
  <2>4. CASE events[f].rproc = "socket_connected"
    <3>1. socket_connected(f, c) /\ UNCHANGED reader
      BY <1>3, <2>1, <2>4 DEF DispatchReadable
    <3> QED
      BY <1>1, <2>2, <2>3, <3>1, ConnectedTls
  <2>5. CASE events[f].rproc # "socket_connected"
    <3>1. UNCHANGED <<fd, sock, written, pending>>
      BY <1>3, <2>5 DEF DispatchReadable, connVars
    <3>2. buf = <<>>
      BY <1>1, <2>2 DEF ReadInv
    <3> QED
      BY <2>2, <3>1, <3>2, TlsStill DEF TlsKept
  <2> QED
    BY <2>4, <2>5
<1>4. CASE DispatchWritable
  <2>1. PICK f, c : f = cur /\ c = events[f].data
    OBVIOUS
  <2>2. /\ pc = "writable" /\ RunsWrite(events[f], fired[f], rfired)
        /\ W \in events[f].mask /\ events[f].mask # {}
        /\ UNCHANGED <<unborn, due, buf, reader>>
    BY <1>4, <2>1 DEF DispatchWritable, RunsWrite, pace
  <2>3. f \in Fd /\ reader = NoConn /\ buf = <<>>
    BY <1>1, <2>1, <2>2 DEF IInv, DescriptorInv, CurInv, InDispatch, ReadInv
  <2>4. c \in Conn \ unborn /\ fd[c] = f
    BY <2>1, <2>2, <2>3, WatchedOwner
  <2>5. CASE events[f].wproc = "socket_connected"
    <3>1. socket_connected(f, c)
      BY <1>4, <2>1, <2>5 DEF DispatchWritable
    <3> QED
      BY <1>1, <2>2, <2>3, <2>4, <3>1, ConnectedTls
  <2>6. CASE events[f].wproc # "socket_connected"
    <3>1. socket_writeable(f, c)
      BY <1>4, <2>1, <2>6 DEF DispatchWritable
    <3>2. Speaks(c)
      BY <2>1, <2>2, <2>3, <2>6, WatchedOwner DEF Connects, IsConnecting
    <3> QED
      BY <1>1, <2>2, <2>3, <2>4, <3>1, <3>2, WriteableTls
  <2> QED
    BY <2>5, <2>6
<1>5. ASSUME NEW c \in Conn, delayed_initial_connect(c)
      PROVE  TlsInv'
  <2>1. /\ c \in unborn /\ unborn' = unborn \ {c} /\ connect_socket(c, events, sock, errors)
        /\ UNCHANGED <<written, pending, due, buf, reader>>
    BY <1>5 DEF delayed_initial_connect, pace, loopVars
  <2>2. fd[c] \notin Fd
    BY <2>1, ConnectionAssumption DEF IInv, DescriptorInv, UnbornUnopened
  <2>3. Opened(c)
    BY <1>1, <2>1, <2>2, ConnectOpens
  <2> QED
    BY <1>1, <2>1, <2>2, <2>3, TlsOpened DEF TlsKept
<1> QED
  BY <1>2, <1>3, <1>4, <1>5 DEF Loop

\* Nothing is read, or left to be parsed, for a part of a batch.
LEMMA HandlerTls ==
    ASSUME IInv, WireInv, TlsInv, Orderly, Handler
    PROVE  TlsInv'
<1>1. CASE ~Tls
  BY <1>1 DEF TlsInv
<1>2. CASE Tls
  <2> PICK c : c = reader
    OBVIOUS
  <2>1. TypeOK /\ ConnInv /\ ReadInv
    BY DEF IInv, WireInv
  <2>2. pc \in {"read", "parse"}
    BY <2>1 DEF Handler, ReadData, ReadEofOfBody, ReadError, ReadRetry, ParseResponse,
                ParseOpenBody, ParseError, ParseEnd, ReadInv
  <2>3. c \in Conn \ unborn /\ fd[c] \in Fd
    BY <2>2, ReaderStation
  <2>4. TlsAt(c)
    BY <1>2, <2>3 DEF TlsInv
  <2>5. CASE ReadData
    <3>1. /\ UNCHANGED <<fd, written, pending, due, unborn, reader>>
          /\ ~(written[c] > 0)
          /\ \A g \in Fd \ {fd[c]} : sock'[g] = sock[g]
      BY <2>1, <2>3, <2>4, <2>5 DEF ReadData, connVars, pace, TlsAt, TypeOK, SocketTypes
    <3>2. ASSUME NEW d \in Conn PROVE TlsAt(d)'
      <4>1. CASE d = c
        BY <3>1, <4>1 DEF TlsAt
      <4>2. CASE d # c
        <5>1. TlsAt(d) /\ TlsKept(d)
          BY <1>2, <3>1, <4>2 DEF TlsInv, TlsKept
        <5>2. d \notin unborn => sock'[fd'[d]] = sock[fd[d]]
          BY <2>1, <2>3, <3>1, <4>2, Apart
        <5> QED
          BY <5>1, <5>2, TlsStays
      <4> QED
        BY <4>1, <4>2
    <3> QED
      BY <3>2 DEF TlsInv
  <2>6. CASE ReadError \/ ParseError
    <3>1. /\ reconnect_socket(c, CountError(errors, "read")) /\ buf' = <<>>
          /\ UNCHANGED <<written, pending, due, unborn>>
      BY <2>6 DEF ReadError, ParseError, ReadFails, ReturnFromRead, pace
    <3>2. Opened(c)
      BY <2>1, <2>3, <3>1, ReconnectOpens
    <3> QED
      BY <2>1, <2>3, <3>1, <3>2, TlsOpened DEF TlsKept
  <2>7. CASE ReadRetry \/ ParseEnd \/ ParseOpenBody
    <3>1. /\ UNCHANGED <<fd, sock, written, pending, due, unborn>>
          /\ buf' # <<>> => buf # <<>> /\ reader' = reader
      BY <2>7 DEF ReadRetry, ParseEnd, ParseOpenBody, ReturnFromRead, connVars, pace
    <3> QED
      BY <3>1, TlsStill DEF TlsKept
  <2>8. CASE ParseResponse
    <3>1. buf # <<>> /\ ~(written[c] > 0)
      BY <2>4, <2>8 DEF ParseResponse, TlsAt
    <3>2. /\ response_complete(c, "start", TRUE) \/ response_complete(c, "dead", FALSE)
          /\ UNCHANGED <<unborn, reader>>
      BY <2>8 DEF ParseResponse
    <3>3. /\ UNCHANGED written
          /\ \A d \in Conn \ {c} : pending'[d] = pending[d] /\ due'[d] = due[d]
          /\ UNCHANGED <<fd, sock>> \/ reconnect_socket(c, errors)
      BY <2>1, <3>2 DEF response_complete, LastResponse, NextResponse, TypeOK, BatchTypes, LoopTypes
    <3>4. \A d \in Conn : TlsKept(d)
      BY <3>1, <3>2, <3>3 DEF TlsKept
    <3>5. CASE reconnect_socket(c, errors)
      <4>1. Opened(c)
        BY <2>1, <2>3, <3>5, ReconnectOpens
      <4> QED
        BY <2>1, <2>3, <3>4, <4>1, TlsOpened
    <3> QED
      BY <3>3, <3>4, <3>5, TlsStill
  <2>9. ~ReadEofOfBody
    BY <1>2 DEF ReadEofOfBody
  <2> QED
    BY <2>5, <2>6, <2>7, <2>8, <2>9 DEF Handler
<1> QED
  BY <1>1, <1>2

\* No peer of Orderly answers what it has not received as a whole.
LEMMA EnvironmentTls ==
    ASSUME IInv, WireInv, TlsInv, Orderly, Environment
    PROVE  TlsInv'
<1>1. TypeOK /\ sock \in [Fd -> Sockets]
  BY DEF IInv, TypeOK, SocketTypes
<1>2. ASSUME NEW f \in Fd, NEW u, ServerStep(f, u),
             sock[f].inbox = <<>> /\ sock[f].owed = 0 => u.inbox = <<>> /\ u.owed = 0
      PROVE  TlsInv'
  <2>1. /\ sock' = [sock EXCEPT ![f] = u]
        /\ UNCHANGED <<fd, written, pending, due, unborn, buf, reader>>
    BY <1>2 DEF ServerStep, connVars, pace, loopVars
  <2>2. sock'[f] = u /\ \A g \in Fd : g # f => sock'[g] = sock[g]
    BY <1>1, <2>1
  <2>3. ASSUME Tls, NEW d \in Conn PROVE TlsAt(d)'
    <3>1. TlsAt(d) /\ TlsKept(d)
      BY <2>1, <2>3 DEF TlsInv, TlsKept
    <3>2. d \notin unborn /\ sock[fd[d]].inbox = <<>> /\ sock[fd[d]].owed = 0 =>
            sock'[fd'[d]].inbox = <<>> /\ sock'[fd'[d]].owed = 0
      <4>1. fd'[d] = fd[d] /\ (d \notin unborn => fd[d] \in Fd)
        BY <2>1, <2>3, Apart DEF WireInv
      <4> QED
        BY <1>2, <2>2, <4>1
    <3> QED
      BY <3>1, <3>2, TlsStays
  <2> QED
    BY <2>3 DEF TlsInv
<1>3. \A st : Socket(st).inbox = <<>> /\ Socket(st).owed = 0
  BY DEF Socket
<1>4. ASSUME NEW f \in Fd, Accept(f) \/ Refuse(f) \/ Reset(f)
      PROVE  TlsInv'
  <2>1. PICK st : ServerStep(f, Socket(st))
    BY <1>4 DEF Accept, Refuse, Reset
  <2> QED
    BY <1>2, <1>3, <2>1
<1>5. ASSUME NEW f \in Fd, Close(f)
      PROVE  TlsInv'
  <2>1. ServerStep(f, [sock[f] EXCEPT !.fin = TRUE])
    BY <1>5 DEF Close
  <2>2. /\ [sock[f] EXCEPT !.fin = TRUE].inbox = sock[f].inbox
        /\ [sock[f] EXCEPT !.fin = TRUE].owed = sock[f].owed
    BY <1>1 DEF Sockets
  <2> QED
    BY <1>2, <2>1, <2>2
<1>6. ASSUME NEW f \in Fd, NEW kind \in ReplyKinds, Reply(f, kind)
      PROVE  TlsInv'
  <2>1. sock[f].owed > 0 /\ ServerStep(f, Answered(sock[f], kind))
    BY <1>1, <1>6, PeersAnswer
  <2>2. sock[f].owed # 0
    BY <2>1
  <2> QED
    BY <1>2, <2>1, <2>2
<1>7. CASE (\E c \in Conn : BecomeDue(c)) \/ Expire
  <2>1. /\ UNCHANGED <<fd, sock, written, pending, unborn, buf, reader>>
        /\ \A d \in Conn : due[d] => due'[d]
    <3>1. due \in [Conn -> BOOLEAN]
      BY <1>1 DEF TypeOK, LoopTypes
    <3>2. due' = due \/ \E c \in Conn : due' = [due EXCEPT ![c] = TRUE]
      BY <1>7 DEF BecomeDue, Expire
    <3>3. \A d \in Conn : due[d] => due'[d]
      BY <3>1, <3>2
    <3> QED
      BY <1>7, <3>3 DEF BecomeDue, Expire, connVars, loopVars
  <2> QED
    BY <2>1, TlsStill DEF TlsKept
<1> QED
  BY <1>4, <1>5, <1>6, <1>7 DEF Environment

LEMMA TlsStep ==
    ASSUME Orderly, IInv, WireInv, TlsInv, [Next]_vars
    PROVE  TlsInv'
<1>1. CASE UNCHANGED vars
  <2>1. UNCHANGED <<fd, sock, written, pending, due, unborn, buf, reader>>
    BY <1>1 DEF vars, connVars, pace, loopVars
  <2> QED
    BY <2>1, TlsStill DEF TlsKept
<1> QED
  BY <1>1, HandlerTls, LoopTls, EnvironmentTls DEF Next, Done

-----------------------------------------------------------------------------
(* Both, in every state.                                                    *)

LEMMA InitWire == Init => WireInv
<1> SUFFICES ASSUME Init PROVE WireInv
  OBVIOUS
<1>1. ConnInv
  BY DEF Init, ConnInv
<1>2. SocketsInv
  BY NewSocket DEF Init, SocketsInv, SocketOk, Closed, SocketStates
<1>3. FiredInput /\ StopInv
  BY DEF Init, FiredInput, StopInv
<1>4. ReadInv
  <2>1. <<>> \in Seq(Tokens)
    OBVIOUS
  <2> QED
    BY <2>1 DEF Init, ReadInv
<1> QED
  BY <1>1, <1>2, <1>3, <1>4 DEF WireInv

LEMMA WireStep ==
    ASSUME Orderly, IInv, WireInv, TlsInv, [Next]_vars
    PROVE  WireInv' /\ Turned
<1>1. CASE Handler
  BY <1>1, HandlerWire
<1>2. CASE Loop
  BY <1>2, LoopWire
<1>3. CASE Environment
  BY <1>3, EnvironmentWire
<1>4. CASE UNCHANGED vars
  <2>1. /\ UNCHANGED <<fd, written, pending, has_pending, complete, parser, timers, events, sock,
                       unborn, fired, pc, cur, reader, buf, stop, fresh, expired>>
    BY <1>4 DEF vars, connVars, loopVars, pace
  <2>2. \A d \in Conn : Buffered(d)' = Buffered(d)
    BY <2>1 DEF Buffered
  <2>3. ConnInv' /\ SocketsInv' /\ Turned
    BY <2>1, <2>2, AllStay DEF WireInv
  <2>4. FiredInput' /\ ReadInv' /\ StopInv'
    BY <2>1 DEF WireInv, FiredInput, ReadInv, StopInv
  <2> QED
    BY <2>3, <2>4 DEF WireInv
<1> QED
  BY <1>1, <1>2, <1>3, <1>4 DEF Next, Done

\* Between the program and orderly peers every connection is at one of its
\* stations (socket_connected, socket_writeable and response_complete of wrk.c),
\* and c->pending is what the socket, the buffer and the rest of the batch hold.
THEOREM Stations ==
    ASSUME Orderly
    PROVE  Spec => [](WireInv /\ TlsInv)
<1>1. Init => WireInv /\ TlsInv
  BY InitWire, InitTls
<1>2. IInv /\ WireInv /\ TlsInv /\ [Next]_vars => WireInv' /\ TlsInv'
  BY WireStep, TlsStep
<1>3. Spec => []IInv
  BY Invariant
<1> QED
  BY <1>1, <1>2, <1>3, PTL DEF Spec

-----------------------------------------------------------------------------
(* The properties of Connection.                                            *)

\* What is in flight, in the words of Connection.
LEMMA LoadSum ==
    ASSUME IInv, WireInv, NEW c \in Conn, fd[c] \in Fd
    PROVE  /\ c \notin unborn /\ ConnOk(c) /\ sock[fd[c]] # Closed
           /\ events[fd[c]].rproc = "socket_readable" => Load(c) = InFlight(c) + Unsent(c)
<1> DEFINE s == sock[fd[c]]
           b == Buffered(c)
<1>1. c \notin unborn
  BY ConnectionAssumption DEF IInv, DescriptorInv, UnbornUnopened
<1>2. ConnOk(c) /\ sock[fd[c]] # Closed
  BY <1>1, Apart DEF WireInv, ConnInv
<1>3. ASSUME events[fd[c]].rproc = "socket_readable"
      PROVE  Load(c) = InFlight(c) + Unsent(c)
  <2>1. s \in Sockets /\ SocketOk(s) /\ written[c] \in 0..Length - 1 /\ b \in Seq(Tokens)
    BY SocketTypesHere DEF IInv, WireInv, ReadInv, Buffered
  <2>2. /\ s.owed \in Int /\ Len(s.inbox) \in Nat /\ Len(b) \in Nat
        /\ Unwritten(s, written[c]) \in Nat
    BY <2>1, WireNumbers DEF Wire, SocketOk
  <2>3. Len(b) = IF reader = c /\ cur \notin fresh THEN Len(buf) ELSE 0
    BY DEF Buffered
  <2>4. InFlight(c) = s.owed + Len(s.inbox) + Len(b)
    BY <2>3 DEF InFlight
  <2>5. Unsent(c) = Unwritten(s, written[c])
    BY DEF Unsent, Unwritten
  <2>6. Load(c) = s.owed + (Len(s.inbox) + Len(b)) + Unwritten(s, written[c])
    BY <1>3 DEF Load, Out, ToCome
  <2> HIDE DEF s, b
  <2> QED
    BY <2>2, <2>4, <2>5, <2>6
<1> QED
  BY <1>1, <1>2, <1>3

\* What a socket in a batch that is written has to give: a response, one to
\* come, or its end.
LEMMA BatchAwaits ==
    ASSUME NEW s \in Sockets, SocketOk(s), NEW n, Aligned(s, 0), Counted(s, <<>>, 0, n)
    PROVE  s.owed > 0 \/ HasInput(s)
<1>1. Wire(s, <<>>, 0)
  <2>1. 0 \in 0..Length - 1 /\ <<>> \in Seq(Tokens)
    BY Lengths
  <2> QED
    BY <2>1 DEF Wire, SocketOk
<1>2. s.owed \in Int /\ Len(s.inbox) \in Nat /\ s.inbox \in Seq(Tokens)
  BY <1>1, WireNumbers DEF SocketOk
<1>3. Len(<<>>) = 0
  OBVIOUS
<1>4. s.state = "open" \/ s.state = "failed"
  BY NewSocket DEF Aligned, SocketStates
<1>5. ASSUME s.state = "open", ~s.fin, s.inbox = <<>>
      PROVE  s.owed > 0
  <2>1. Out(s, <<>>, 0) = s.owed + (0 + 0) + 0 /\ Out(s, <<>>, 0) > 0
    BY <1>3, <1>5 DEF Counted, Out, ToCome, Unwritten
  <2> QED
    BY <1>2, <2>1
<1> QED
  BY <1>4, <1>5 DEF HasInput

LEMMA StationsImply ==
    ASSUME IInv, WireInv
    PROVE  RequestsWellFormed /\ PendingMatchesWire /\ OneWakeup
<1>1. RequestsWellFormed
  BY DEF WireInv, SocketsInv, SocketOk, RequestsWellFormed
<1>2. ASSUME NEW c \in Conn, Established(c), ~stop, InFlight(c) + Unsent(c) > 0
      PROVE  pending[c] = InFlight(c) + Unsent(c)
  <2> DEFINE s == sock[fd[c]]
  <2>1. /\ fd[c] \in Fd /\ s.state = "open" /\ ~s.fin
        /\ events[fd[c]].rproc = "socket_readable"
    BY <1>2 DEF Established, Live
  <2>2. ConnOk(c) /\ Load(c) = InFlight(c) + Unsent(c)
    BY <2>1, LoadSum
  <2>3. Speaks(c) /\ Load(c) = Out(s, Buffered(c), written[c])
    BY <2>1, <2>2 DEF ConnOk, Connects, IsConnecting, Load
  <2>4. ~IsQuiet(s, Buffered(c), written[c], parser[c])
    <3>1. Out(s, Buffered(c), written[c]) > 0 /\ ~(0 > 0)
      BY <1>2, <2>2, <2>3
    <3> QED
      BY <3>1, QuietLoad DEF IsQuiet
  <2>5. Counted(s, Buffered(c), written[c], pending[c])
    BY <1>2, <2>3, <2>4 DEF Speaks, IsSpeaking, IsInBatch
  <2> QED
    BY <2>1, <2>2, <2>3, <2>5 DEF Counted
<1>3. ASSUME pc = "poll", NEW c \in Conn \ unborn
      PROVE  LET fe == events[fd[c]] IN
             /\ fe.data = c /\ R \in fe.mask
             /\ IF fe.rproc = "socket_connected"
                THEN W \in fe.mask /\ timers[c] = 0
                ELSE \/ W \in fe.mask /\ timers[c] = 0
                     \/ W \notin fe.mask /\ timers[c] = 1 /\ written[c] = 0
                     \/ W \notin fe.mask /\ timers[c] = 0 /\ Awaiting(c)
  <2> DEFINE s == sock[fd[c]]
             e == events[fd[c]]
  <2>1. ConnOk(c) /\ fd[c] \in Fd /\ e.data = c
    BY DEF WireInv, ConnInv, ConnOk
  <2>2. ~stop /\ Buffered(c) = <<>>
    BY <1>3 DEF WireInv, StopInv, ReadInv, Buffered
  <2>3. CASE Connects(c)
    BY <2>1, <2>3 DEF Connects, IsConnecting, RW, R, W
  <2>4. CASE Speaks(c)
    <3>1. R \in e.mask /\ e.rproc = "socket_readable"
      BY <2>4 DEF Speaks, IsSpeaking
    <3>2. ASSUME W \notin e.mask, timers[c] = 0, written[c] = 0,
                 IsInBatch(s, <<>>, written[c], parser[c], pending[c], has_pending[c], stop)
          PROVE  Awaiting(c)
      <4>1. Aligned(s, 0) /\ Counted(s, <<>>, 0, pending[c]) /\ has_pending[c]
        BY <2>2, <3>2 DEF IsInBatch
      <4>2. s \in Sockets /\ SocketOk(s)
        BY <2>1, SocketTypesHere DEF IInv, WireInv
      <4>3. s.owed > 0 \/ HasInput(s)
        BY <4>1, <4>2, BatchAwaits
      <4>4. s.state = "open" \/ s.state = "failed"
        BY <4>1, NewSocket DEF Aligned, SocketStates
      <4>5. HasInput(s) => R \in Ready(fd[c])
        BY <4>4 DEF HasInput, Ready, Live, RW, R, W
      <4> QED
        BY <3>2, <4>1, <4>3, <4>5 DEF Awaiting
    <3>3. \/ W \in e.mask /\ timers[c] = 0
          \/ W \notin e.mask /\ timers[c] = 1 /\ written[c] = 0
          \/ W \notin e.mask /\ timers[c] = 0 /\ Awaiting(c)
      BY <2>2, <2>4, <3>2 DEF Speaks, IsSpeaking, IsQuiet
    <3> QED
      BY <2>1, <3>1, <3>3
  <2> QED
    BY <2>1, <2>3, <2>4 DEF ConnOk
<1>4. PendingMatchesWire
  BY <1>2 DEF PendingMatchesWire
<1>5. OneWakeup
  BY <1>3 DEF OneWakeup
<1> QED
  BY <1>1, <1>4, <1>5

\* The server finds a request at every place it expects one to start: each new
\* socket gets a batch from its first byte (socket_connected of wrk.c), and
\* what follows are the bytes after those that were taken (socket_writeable).
THEOREM Requests ==
    ASSUME Orderly
    PROVE  Spec => []RequestsWellFormed
<1>1. IInv /\ WireInv => RequestsWellFormed
  BY StationsImply
<1> QED
  BY <1>1, Invariant, Stations, PTL

\* While a batch is in progress c->pending (wrk.c) is the number of responses
\* still to come: in the request not yet written, at the server, in the socket
\* and in the buffer.
THEOREM Pending ==
    ASSUME Orderly
    PROVE  Spec => []PendingMatchesWire
<1>1. IInv /\ WireInv => PendingMatchesWire
  BY StationsImply
<1> QED
  BY <1>1, Invariant, Stations, PTL

\* When the loop goes to epoll_wait every connection has exactly one thing that
\* will wake it up: its connect, its interest in writing, the delay_request
\* timer, or its socket.
THEOREM Wakeups ==
    ASSUME Orderly
    PROVE  Spec => []OneWakeup
<1>1. IInv /\ WireInv => OneWakeup
  BY StationsImply
<1> QED
  BY <1>1, Invariant, Stations, PTL

-----------------------------------------------------------------------------
(* The refinement of Turns.                                                 *)

LEMMA OutstandingIsOpen ==
    IInv /\ WireInv => Outstanding = [c \in Conn |-> Open(c)]
<1> SUFFICES ASSUME IInv, WireInv, NEW c \in Conn
             PROVE  (IF Speaking(c) THEN InFlight(c) + Unsent(c) + OpenBody(c) ELSE 0) = Open(c)
  BY DEF Outstanding
<1>1. CASE fd[c] \in Fd
  <2>1. /\ c \notin unborn /\ ConnOk(c) /\ sock[fd[c]] # Closed
        /\ events[fd[c]].rproc = "socket_readable" => Load(c) = InFlight(c) + Unsent(c)
    BY <1>1, LoadSum
  <2>2. Speaking(c) <=> events[fd[c]].rproc = "socket_readable"
    BY <1>1, <2>1 DEF Speaking, ConnOk
  <2>3. events[fd[c]].rproc # "socket_readable" => Load(c) = 0
    BY DEF Load
  <2>4. OpenBody(c) = 0
    BY DEF OpenBody, WireInv, ReadInv
  <2>5. Load(c) \in Nat
    BY <2>1, LoadIsNat DEF IInv, WireInv, ReadInv
  <2>6. Load(c) + 0 = Load(c)
    BY <2>5
  <2> QED
    BY <2>1, <2>2, <2>3, <2>4, <2>6 DEF Open
<1>2. CASE fd[c] \notin Fd
  <2>1. c \in unborn
    BY <1>2 DEF WireInv, ConnInv, ConnOk
  <2> QED
    BY <1>2, <2>1 DEF Speaking, Open
<1> QED
  BY <1>1, <1>2

\* One connection takes its turn, or none does.
LEMMA TurnStep ==
    ASSUME Outstanding = [c \in Conn |-> Open(c)], (Outstanding = [c \in Conn |-> Open(c)])',
           complete \in [Conn -> Nat], (complete \in [Conn -> Nat])', Turned
    PROVE  [Turn!Next]_<<Outstanding, complete>>
<1>1. CASE \A d \in Conn : Still(d)
  <2>1. Outstanding' = Outstanding /\ complete' = complete
    BY <1>1 DEF Still
  <2> QED
    BY <2>1
<1>2. ASSUME NEW c \in Conn, \A d \in Conn \ {c} : Still(d),
             TakesTurn(Open(c), Open(c)', complete[c], complete'[c])
      PROVE  [Turn!Next]_<<Outstanding, complete>>
  <2> DEFINE o == Open(c)
             p == Open(c)'
             n == complete[c]
             m == complete'[c]
  <2>1. /\ Outstanding' = [Outstanding EXCEPT ![c] = p] /\ Outstanding[c] = o
        /\ complete' = [complete EXCEPT ![c] = m]
    BY <1>2 DEF Still
  <2>2. p = o /\ m = n => Outstanding' = Outstanding /\ complete' = complete
    BY <2>1
  <2>3. m = n => complete' = complete
    BY <2>1
  <2>4. m = n + 1 => complete' = [complete EXCEPT ![c] = @ + 1]
    BY <2>1
  <2>5. TakesTurn(o, p, n, m)
    BY <1>2
  <2> HIDE DEF o, p, n, m
  <2>6. CASE o = 0 /\ p \in 1..Pipeline /\ m = n
    <3>1. p \in Turn!Batch \ {0}
      BY <2>6, ConnectionAssumption DEF Turn!Batch
    <3>2. Turn!Begin(c)
      BY <2>1, <2>3, <2>6, <3>1 DEF Turn!Begin
    <3> QED
      BY <3>2 DEF Turn!Next
  <2>7. CASE o > 0 /\ p \in {0, o - 1} /\ m = n + 1
    <3>1. Turn!Answer(c)
      BY <2>1, <2>4, <2>7 DEF Turn!Answer
    <3> QED
      BY <3>1 DEF Turn!Next
  <2>8. CASE p \in 0..o - 1 /\ m = n
    <3>1. Turn!Lose(c)
      BY <2>1, <2>3, <2>8 DEF Turn!Lose
    <3> QED
      BY <3>1 DEF Turn!Next
  <2> QED
    BY <2>2, <2>5, <2>6, <2>7, <2>8 DEF TakesTurn
<1> QED
  BY <1>1, <1>2 DEF Turned

\* The connections of wrk.c take turns with their peers as Turns says: a batch
\* is begun only when nothing of the last one is in flight, and every response
\* that is counted is one of the batch that was sent.
THEOREM Refinement ==
    ASSUME Orderly
    PROVE  Spec => TakesTurns
<1>1. Init => Turn!Init
  <2> SUFFICES ASSUME Init PROVE Turn!Init
    OBVIOUS
  <2>1. \A c \in Conn : ~Speaking(c)
    BY ConnectionAssumption DEF Init, Speaking
  <2>2. Outstanding = [c \in Conn |-> 0]
    BY <2>1 DEF Outstanding
  <2> QED
    BY <2>2 DEF Init, Turn!Init
<1>2. (IInv /\ WireInv)' => (Outstanding = [c \in Conn |-> Open(c)])'
  BY OutstandingIsOpen, PTL
<1>3. IInv /\ IInv' /\ WireInv /\ TlsInv /\ [Next]_vars
        => [Turn!Next]_<<Outstanding, complete>>
  <2> SUFFICES ASSUME IInv, IInv', WireInv, TlsInv, [Next]_vars
               PROVE  [Turn!Next]_<<Outstanding, complete>>
    OBVIOUS
  <2>1. WireInv' /\ Turned
    BY WireStep
  <2>2. Outstanding = [c \in Conn |-> Open(c)]
    BY OutstandingIsOpen
  <2>3. (Outstanding = [c \in Conn |-> Open(c)])'
    BY <1>2, <2>1
  <2>4. complete \in [Conn -> Nat] /\ (complete \in [Conn -> Nat])'
    BY DEF IInv, TypeOK, BatchTypes
  <2> QED
    BY <2>1, <2>2, <2>3, <2>4, TurnStep
<1> QED
  BY <1>1, <1>3, Invariant, Stations, PTL DEF Spec, TakesTurns, Turn!Spec

-----------------------------------------------------------------------------
(* What on a socket s, in the responses b read from it and not parsed, and  *)
(* in a parser p will be counted as an error, if it is seen at all.         *)

\* A response that announced the end is not the last one.
EndsEarly(s, b) ==
    \/ \E i \in DOMAIN b : b[i] = "close" /\ (i < Len(b) \/ s.inbox # <<>>)
    \/ \E i \in DOMAIN s.inbox : s.inbox[i] = "close" /\ i < Len(s.inbox)

Fails(s, b, p) ==
    \/ s.fin /\ ~s.said
    \/ Has(s.inbox, "bad") \/ Has(b, "bad")
    \/ EndsEarly(s, b)
    \/ p = "dead" /\ (b # <<>> \/ s.inbox # <<>>)

\* A connection on whose socket there is such a thing.
Talks(c) == events[fd[c]].rproc = "socket_readable"
CauseOf(c) ==
    \/ sock[fd[c]].state = "failed"
    \/ Talks(c) /\ Fails(sock[fd[c]], Buffered(c), parser[c])

\* Responses that are parsed although the socket they came from is gone.
Stray == reader # NoConn /\ buf # <<>> /\ ~Talks(reader)

\* Each of these stands for a fault that no error was counted for: NoConn for
\* the one that the stray responses are.
CauseSet == {c \in Conn \ unborn : CauseOf(c)} \cup (IF Stray THEN {NoConn} ELSE {})

Balanced ==
    /\ IsFiniteSet(CauseSet)
    /\ errors.connect + errors.read + errors.write + Cardinality(CauseSet) <= faults

\* What the end of a connection that is still open was announced by.
Announces(c) ==
    sock[fd[c]].state = "open" /\ Talks(c)
        /\ (parser[c] = "dead" \/ EndComes(sock[fd[c]], Buffered(c)))
    => sock[fd[c]].said

\* While the response that announced the end is not read it is there to be read.
FiredSaid ==
    \A f \in Fd \ fresh :
        f # cur /\ R \in fired[f] /\ sock[f].said => sock[f].inbox # <<>>
ReadSaid == pc = "read" /\ sock[cur].said => sock[cur].inbox # <<>>

CauseInv ==
    /\ \A c \in Conn \ unborn : Announces(c)
    /\ FiredSaid /\ ReadSaid
    /\ Balanced

-----------------------------------------------------------------------------
(* The account of faults and errors.                                        *)

Kinds == {"connect", "read", "write"}

\* A step adds no cause without a fault, and counts no error without a cause
\* that it takes away.
Accounts ==
    \/ CauseSet' \subseteq CauseSet /\ errors' = errors /\ faults' \in {faults, faults + 1}
    \/ \E x : CauseSet' \subseteq CauseSet \cup {x} /\ errors' = errors /\ faults' = faults + 1
    \/ \E x \in CauseSet, kind \in Kinds : /\ CauseSet' \subseteq CauseSet \ {x}
                                           /\ errors' = CountError(errors, kind)
                                           /\ faults' = faults
    \/ \E x \in CauseSet : /\ CauseSet' \subseteq (CauseSet \ {x}) \cup {NoConn}
                           /\ errors' = errors /\ faults' = faults

Fewer(E, n) == IsFiniteSet(E) /\ Cardinality(E) \in Nat /\ Cardinality(E) <= n

LEMMA SetsCount ==
    ASSUME NEW D, IsFiniteSet(D), NEW E, NEW x, NEW y
    PROVE  /\ Cardinality(D) \in Nat
           /\ E \subseteq D => Fewer(E, Cardinality(D))
           /\ E \subseteq D \cup {x} => Fewer(E, Cardinality(D) + 1)
           /\ x \in D /\ E \subseteq D \ {x} => Fewer(E, Cardinality(D) - 1)
           /\ x \in D /\ E \subseteq (D \ {x}) \cup {y} => Fewer(E, Cardinality(D))
<1>1. \A S : E \subseteq S /\ IsFiniteSet(S) => Fewer(E, Cardinality(S)) /\ Cardinality(S) \in Nat
  BY FS_Subset, FS_CardinalityType DEF Fewer
<1>2. Cardinality(D) \in Nat
  BY FS_CardinalityType
<1>3. /\ IsFiniteSet(D \cup {x})
      /\ Cardinality(D \cup {x}) = IF x \in D THEN Cardinality(D) ELSE Cardinality(D) + 1
  BY FS_AddElement
<1>4. /\ IsFiniteSet(D \ {x})
      /\ Cardinality(D \ {x}) = IF x \in D THEN Cardinality(D) - 1 ELSE Cardinality(D)
  BY FS_RemoveElement
<1> DEFINE A == D \cup {x}
           B == D \ {x}
           C == B \cup {y}
<1>5. /\ IsFiniteSet(C)
      /\ Cardinality(C) = IF y \in B THEN Cardinality(B) ELSE Cardinality(B) + 1
  BY <1>4, FS_AddElement
<1> HIDE DEF A, B, C
<1>6. /\ IsFiniteSet(A) /\ (Cardinality(A) = Cardinality(D) \/ Cardinality(A) = Cardinality(D) + 1)
      /\ IsFiniteSet(B) /\ (x \in D => Cardinality(B) = Cardinality(D) - 1)
      /\ IsFiniteSet(C) /\ (Cardinality(C) = Cardinality(B) \/ Cardinality(C) = Cardinality(B) + 1)
  BY <1>3, <1>4, <1>5 DEF A, B, C
<1>7. E \subseteq D => Fewer(E, Cardinality(D))
  BY <1>1
<1>8. E \subseteq A => Fewer(E, Cardinality(D) + 1)
  BY <1>1, <1>2, <1>6 DEF Fewer
<1>9. x \in D /\ E \subseteq B => Fewer(E, Cardinality(D) - 1)
  BY <1>1, <1>6
<1>10. x \in D /\ E \subseteq C => Fewer(E, Cardinality(D))
  BY <1>1, <1>2, <1>6 DEF Fewer
<1> QED
  BY <1>2, <1>7, <1>8, <1>9, <1>10 DEF A, B, C

LEMMA AccountsBalance ==
    ASSUME TypeOK, Balanced, Accounts
    PROVE  Balanced'
<1> DEFINE D == CauseSet
           E == CauseSet'
           n == Cardinality(D)
           total == errors.connect + errors.read + errors.write
           after == errors'.connect + errors'.read + errors'.write
<1>1. errors \in Errors
  BY DEF TypeOK, SocketTypes, Errors
<1>2. /\ IsFiniteSet(D) /\ total + n <= faults /\ faults \in Nat /\ total \in Nat
  BY <1>1 DEF Balanced, TypeOK, SocketTypes, Errors
<1> HIDE DEF D, E
<1>3. n \in Nat
  BY <1>2, SetsCount
<1> HIDE DEF n
<1>4. CASE E \subseteq D /\ errors' = errors /\ faults' \in {faults, faults + 1}
  <2>1. Fewer(E, n)
    BY <1>2, <1>4, SetsCount DEF n
  <2> QED
    BY <1>2, <1>3, <1>4, <2>1 DEF Balanced, E, Fewer
<1>5. ASSUME NEW x, E \subseteq D \cup {x}, errors' = errors, faults' = faults + 1
      PROVE  Balanced'
  <2>1. Fewer(E, n + 1)
    BY <1>2, <1>5, SetsCount DEF n
  <2> QED
    BY <1>2, <1>3, <1>5, <2>1 DEF Balanced, E, Fewer
<1>6. ASSUME NEW x \in D, NEW kind \in Kinds, E \subseteq D \ {x},
             errors' = CountError(errors, kind), faults' = faults
      PROVE  Balanced'
  <2>1. Fewer(E, n - 1)
    BY <1>2, <1>6, SetsCount DEF n
  <2>2. after = total + 1
    <3>1. CASE kind = "connect"
      BY <1>1, <1>6, <3>1 DEF CountError, Errors
    <3>2. CASE kind = "read"
      BY <1>1, <1>6, <3>2 DEF CountError, Errors
    <3>3. CASE kind = "write"
      BY <1>1, <1>6, <3>3 DEF CountError, Errors
    <3> QED
      BY <3>1, <3>2, <3>3 DEF Kinds
  <2> HIDE DEF after, total
  <2>3. after + Cardinality(E) <= faults
    BY <1>2, <1>3, <2>1, <2>2 DEF Fewer
  <2> QED
    BY <1>6, <2>1, <2>3 DEF Balanced, E, after, Fewer
<1>7. ASSUME NEW x \in D, E \subseteq (D \ {x}) \cup {NoConn}, errors' = errors, faults' = faults
      PROVE  Balanced'
  <2>1. Fewer(E, n)
    BY <1>2, <1>7, SetsCount DEF n
  <2> QED
    BY <1>2, <1>3, <1>7, <2>1 DEF Balanced, E, Fewer
<1> QED
  BY <1>4, <1>5, <1>6, <1>7 DEF Accounts, D, E

-----------------------------------------------------------------------------
(* Responses that are read, parsed and sent.                                *)

LEMMA TailHas ==
    ASSUME NEW b \in Seq(Tokens), b # <<>>
    PROVE  /\ Tail(b) \in Seq(Tokens) /\ Len(b) = Len(Tail(b)) + 1 /\ Len(Tail(b)) \in Nat
           /\ \A i \in DOMAIN Tail(b) : i \in Nat /\ i + 1 \in DOMAIN b /\ Tail(b)[i] = b[i + 1]
           /\ 1 \in DOMAIN b /\ b[1] = Head(b)
           /\ Tail(b) # <<>> => 1 < Len(b)
<1>1. /\ Tail(b) \in Seq(Tokens) /\ Len(b) = Len(Tail(b)) + 1 /\ Len(Tail(b)) \in Nat
      /\ \A i \in 1..Len(Tail(b)) : Tail(b)[i] = b[i + 1]
      /\ Head(b) = b[1] /\ DOMAIN b = 1..Len(b) /\ DOMAIN Tail(b) = 1..Len(Tail(b))
  OBVIOUS
<1> DEFINE r == Tail(b)
<1> HIDE DEF r
<1>2. /\ r \in Seq(Tokens) /\ Len(b) = Len(r) + 1 /\ Len(r) \in Nat
      /\ \A i \in 1..Len(r) : r[i] = b[i + 1]
      /\ Head(b) = b[1] /\ DOMAIN b = 1..Len(b) /\ DOMAIN r = 1..Len(r)
  BY <1>1 DEF r
<1>3. r # <<>> => Len(r) # 0
  BY <1>2
<1>4. /\ \A i \in DOMAIN r : i \in Nat /\ i + 1 \in DOMAIN b /\ r[i] = b[i + 1]
      /\ 1 \in DOMAIN b
      /\ r # <<>> => 1 < Len(b)
  BY <1>2, <1>3
<1> QED
  BY <1>2, <1>4 DEF r

\* Parsing a response adds nothing that fails; when it announced the end, what
\* is left after it was an end too early.
LEMMA ParseFails ==
    ASSUME NEW s, NEW b \in Seq(Tokens), b # <<>>, NEW p
    PROVE  /\ Fails(s, Tail(b), p) => Fails(s, b, p)
           /\ Head(b) = "close" /\ (Fails(s, Tail(b), "dead") \/ Tail(b) # <<>>) => Fails(s, b, p)
<1> DEFINE r == Tail(b)
<1>1. /\ Len(b) = Len(r) + 1 /\ Len(r) \in Nat
      /\ \A i \in DOMAIN r : i \in Nat /\ i + 1 \in DOMAIN b /\ r[i] = b[i + 1]
      /\ 1 \in DOMAIN b /\ b[1] = Head(b)
      /\ r # <<>> => 1 < Len(b)
  BY TailHas
<1> HIDE DEF r
<1>2. Has(r, "bad") => Has(b, "bad")
  BY <1>1 DEF Has
<1>3. EndsEarly(s, r) => EndsEarly(s, b)
  BY <1>1 DEF EndsEarly
<1>4. Head(b) = "close" /\ (r # <<>> \/ s.inbox # <<>>) => EndsEarly(s, b)
  BY <1>1 DEF EndsEarly
<1> QED
  BY <1>2, <1>3, <1>4 DEF Fails, r

\* Reading some of the responses that have come moves them, no more.
LEMMA ReadFailsSame ==
    ASSUME NEW s \in Sockets, s.inbox \in Seq(Tokens), NEW t, NEW a, NEW p, ReadMoves(s, t, a)
    PROVE  /\ t.state = s.state /\ t.said = s.said
           /\ Fails(t, a, p) => Fails(s, <<>>, p)
           /\ EndComes(t, a) => EndComes(s, <<>>)
<1> DEFINE q == s.inbox
<1>1. PICK k \in 1..Len(q) :
        t = [s EXCEPT !.inbox = SubSeq(q, k + 1, Len(q))] /\ a = SubSeq(q, 1, k)
  BY DEF ReadMoves
<1> DEFINE r == SubSeq(q, k + 1, Len(q))
<1>2. /\ q \in Seq(Tokens) /\ Len(q) \in Nat /\ k \in Nat /\ k >= 1 /\ k <= Len(q)
      /\ DOMAIN q = 1..Len(q) /\ k \in 0..Len(q)
  OBVIOUS
<1>3. a \in Seq(Tokens) /\ Len(a) = k /\ DOMAIN a = 1..k /\ \A i \in 1..k : a[i] = q[i]
  BY <1>1, <1>2, SplitFacts
<1>4. /\ r \in Seq(Tokens) /\ Len(r) = Len(q) - k /\ DOMAIN r = 1..Len(q) - k
      /\ \A i \in 1..Len(q) - k : r[i] = q[k + i]
  BY <1>1, <1>2, SplitFacts
<1>5. /\ t.state = s.state /\ t.said = s.said /\ t.fin = s.fin /\ t.inbox = r
  BY <1>1 DEF Sockets
<1> HIDE DEF r, q
<1>6. \A x : Has(a, x) \/ Has(r, x) => Has(q, x)
  <2>1. \A i \in DOMAIN a : i \in DOMAIN q /\ a[i] = q[i]
    BY <1>2, <1>3
  <2>2. \A i \in DOMAIN r : k + i \in DOMAIN q /\ r[i] = q[k + i]
    BY <1>2, <1>4
  <2> QED
    BY <2>1, <2>2 DEF Has
<1>7. r # <<>> => Len(r) # 0
  BY <1>4
<1>8. EndsEarly(t, a) => EndsEarly(s, <<>>)
  <2>1. ASSUME NEW i \in DOMAIN a, a[i] = "close", i < Len(a) \/ r # <<>>
        PROVE  EndsEarly(s, <<>>)
    <3>1. i \in 1..k /\ q[i] = "close"
      BY <1>3, <2>1
    <3>2. i < Len(q)
      <4>1. i \in Nat /\ i <= k /\ (i < k \/ r # <<>>)
        BY <1>2, <1>3, <2>1
      <4>2. r # <<>> => k < Len(q)
        <5>1. /\ r # <<>> => Len(q) - k # 0
              /\ Len(q) \in Nat /\ k \in Nat /\ k <= Len(q)
          BY <1>2, <1>4, <1>7
        <5> QED
          BY <5>1
      <4> QED
        BY <1>2, <4>1, <4>2
    <3>3. i \in DOMAIN q
      BY <1>2, <3>1
    <3> QED
      BY <3>1, <3>2, <3>3 DEF EndsEarly, q
  <2>2. ASSUME NEW i \in DOMAIN r, r[i] = "close", i < Len(r)
        PROVE  EndsEarly(s, <<>>)
    <3>1. k + i \in DOMAIN q /\ q[k + i] = "close" /\ k + i < Len(q)
      BY <1>2, <1>4, <2>2
    <3> QED
      BY <3>1 DEF EndsEarly, q
  <2> QED
    BY <1>5, <2>1, <2>2 DEF EndsEarly
<1>9. q # <<>>
  BY <1>2
<1>10. Fails(t, a, p) => Fails(s, <<>>, p)
  BY <1>5, <1>6, <1>8, <1>9 DEF Fails, q
<1>11. EndComes(t, a) => EndComes(s, <<>>)
  BY <1>5, <1>6 DEF EndComes, q
<1> QED
  BY <1>5, <1>10, <1>11

\* A response to a request, sent where the end was not announced.
LEMMA ReplyFails ==
    ASSUME NEW s \in Sockets, s.inbox \in Seq(Tokens), NEW b, NEW p, NEW kind \in Tokens,
           NEW u, u = Answered(s, kind),
           p = "dead" \/ EndComes(s, b) => s.said
    PROVE  /\ p = "dead" \/ EndComes(u, b) => u.said
           /\ u.inbox # <<>> /\ u.state = s.state
           /\ ~s.said /\ kind # "bad" /\ ~s.fin => (Fails(u, b, p) => Fails(s, b, p))
<1> DEFINE q == s.inbox
           r == Append(q, kind)
<1>1. /\ u.inbox = r /\ u.said = (s.said \/ kind = "close") /\ u.fin = s.fin
      /\ u.state = s.state
  BY DEF Sockets, Answered
<1>2. /\ q \in Seq(Tokens) /\ Len(q) \in Nat /\ DOMAIN q = 1..Len(q)
      /\ Len(r) = Len(q) + 1 /\ DOMAIN r = 1..Len(q) + 1
      /\ \A i \in 1..Len(q) : r[i] = q[i]
      /\ r[Len(q) + 1] = kind
  OBVIOUS
<1> HIDE DEF r, q
<1>3. \A x : Has(r, x) => Has(q, x) \/ x = kind
  BY <1>2 DEF Has
<1>4. r # <<>>
  BY <1>2
<1>5. p = "dead" \/ EndComes(u, b) => u.said
  BY <1>1, <1>3 DEF EndComes, q
<1>6. ASSUME ~s.said, EndsEarly(u, b) PROVE FALSE
  <2>1. ~Has(q, "close") /\ ~Has(b, "close")
    BY <1>6 DEF EndComes, q
  <2>2. \A i \in DOMAIN b : b[i] # "close"
    BY <2>1 DEF Has
  <2>3. \A i \in DOMAIN r : r[i] = "close" => ~(i < Len(r))
    BY <1>2, <2>1 DEF Has
  <2> QED
    BY <1>1, <1>6, <2>2, <2>3 DEF EndsEarly
<1>7. ~s.said /\ kind # "bad" /\ ~s.fin => (Fails(u, b, p) => Fails(s, b, p))
  BY <1>1, <1>3, <1>6 DEF Fails, q
<1> QED
  BY <1>1, <1>4, <1>5, <1>7

-----------------------------------------------------------------------------
(* What a step does to the connections it does not touch, and to the one    *)
(* that it opens.                                                           *)

\* Of a socket, but for what the server has received.
SameSocket(s, t) ==
    t.state = s.state /\ t.fin = s.fin /\ t.said = s.said /\ t.inbox = s.inbox

LEMMA SameCause ==
    ASSUME NEW c, fd'[c] = fd[c], events'[fd[c]].rproc = events[fd[c]].rproc,
           SameSocket(sock[fd[c]], sock'[fd[c]]), parser'[c] = parser[c],
           Buffered(c)' = Buffered(c)
    PROVE  (CauseOf(c)' <=> CauseOf(c)) /\ (Announces(c)' <=> Announces(c))
<1>1. /\ Talks(c)' <=> Talks(c)
      /\ SameSocket(sock[fd[c]], sock'[fd'[c]])
  BY DEF Talks
<1>2. Fails(sock[fd[c]], Buffered(c), parser[c])' <=> Fails(sock[fd[c]], Buffered(c), parser[c])
  BY <1>1 DEF SameSocket, Fails, EndsEarly, Has
<1>3. EndComes(sock[fd[c]], Buffered(c))' <=> EndComes(sock[fd[c]], Buffered(c))
  BY <1>1 DEF SameSocket, EndComes, Has
<1> QED
  BY <1>1, <1>2, <1>3 DEF CauseOf, Announces, SameSocket

Elsewhere(c) ==
    \A d \in Conn \ unborn : d # c =>
        (CauseOf(d)' <=> CauseOf(d)) /\ (Announces(d)' <=> Announces(d))

LEMMA LocalElsewhere ==
    ASSUME ConnInv, NEW c \in Conn \ unborn, UNCHANGED fd,
           \A g \in Fd : g # fd[c] => events'[g] = events[g] /\ sock'[g] = sock[g],
           \A d \in Conn \ {c} : parser'[d] = parser[d] /\ Buffered(d)' = Buffered(d)
    PROVE  Elsewhere(c)
<1>1. ASSUME NEW d \in Conn \ unborn, d # c
      PROVE  (CauseOf(d)' <=> CauseOf(d)) /\ (Announces(d)' <=> Announces(d))
  <2>1. fd[d] \in Fd /\ fd[d] # fd[c]
    BY <1>1, Apart
  <2> QED
    BY <1>1, <2>1, SameCause DEF SameSocket
<1> QED
  BY <1>1 DEF Elsewhere

LEMMA OpenedElsewhere ==
    ASSUME ConnInv, NEW c \in Conn, Opened(c), c \in unborn => fd[c] \notin Fd,
           \A d \in Conn \ {c} : parser'[d] = parser[d] /\ Buffered(d)' = Buffered(d)
    PROVE  Elsewhere(c) /\ ~CauseOf(c)' /\ Announces(c)' /\ ~Talks(c)'
<1>1. ASSUME NEW d \in Conn \ unborn, d # c
      PROVE  (CauseOf(d)' <=> CauseOf(d)) /\ (Announces(d)' <=> Announces(d))
  <2>1. ConnOk(d) /\ fd[d] \in Fd /\ sock[fd[d]] # Closed
    BY <1>1, Apart DEF ConnInv
  <2>2. fd[d] # fd[c]
    BY <1>1, <2>1, Apart
  <2>3. fd[d] # fd'[c]
    BY <2>1, <2>2 DEF Opened
  <2> QED
    BY <1>1, <2>1, <2>2, <2>3, SameCause DEF Opened, SameSocket
<1>2. sock'[fd'[c]].state = "connecting" /\ ~Talks(c)'
  BY DEF Opened, Talks, Socket
<1>3. ~CauseOf(c)' /\ Announces(c)'
  BY <1>2 DEF CauseOf, Announces
<1> QED
  BY <1>1, <1>2, <1>3 DEF Elsewhere

\* Under Orderly socket() does not fail: only the error of the caller is counted.
LEMMA ConnectCounts ==
    ASSUME Orderly, NEW c, NEW table, NEW sk, NEW err, connect_socket(c, table, sk, err)
    PROVE  errors' = err /\ faults' = faults
BY DEF Orderly, connect_socket

\* What the handler of one connection does to the account.
Settles(c) ==
    /\ Elsewhere(c) /\ Announces(c)' /\ faults' = faults
    /\ \/ (CauseOf(c)' => CauseOf(c)) /\ errors' = errors
       \/ /\ CauseOf(c) /\ ~CauseOf(c)'
          /\ \E kind \in Kinds : errors' = CountError(errors, kind)

LEMMA SettlesAccounts ==
    ASSUME \A d \in Conn \ unborn : Announces(d), NEW c \in Conn \ unborn, Settles(c),
           unborn' = unborn, ~Stray, ~Stray'
    PROVE  Accounts /\ \A d \in Conn \ unborn' : Announces(d)'
<1>1. \A d \in Conn \ unborn' : Announces(d)'
  BY DEF Settles, Elsewhere
<1>2. CauseSet = {d \in Conn \ unborn : CauseOf(d)} /\ CauseSet' = {d \in Conn \ unborn : CauseOf(d)'}
  BY DEF CauseSet
<1>3. ASSUME CauseOf(c)' => CauseOf(c), errors' = errors
      PROVE  Accounts
  <2>1. CauseSet' \subseteq CauseSet
    BY <1>2, <1>3 DEF Settles, Elsewhere
  <2> QED
    BY <1>3, <2>1 DEF Accounts, Settles
<1>4. ASSUME CauseOf(c), ~CauseOf(c)', NEW kind \in Kinds, errors' = CountError(errors, kind)
      PROVE  Accounts
  <2>1. c \in CauseSet /\ CauseSet' \subseteq CauseSet \ {c}
    BY <1>2, <1>4 DEF Settles, Elsewhere
  <2> QED
    BY <1>4, <2>1 DEF Accounts, Settles
<1> QED
  BY <1>1, <1>3, <1>4 DEF Settles

-----------------------------------------------------------------------------
(* socket_connected and socket_writeable.                                   *)

LEMMA ConnectedSettles ==
    ASSUME TypeOK, Orderly, ConnInv, SocketsInv, NEW here \in Fd \ fresh,
           sock[here].state # "connecting", NEW c \in Conn \ unborn, fd[c] = here, Connects(c),
           reader = NoConn, reader' = NoConn, socket_connected(here, c)
    PROVE  Settles(c)
<1>1. \A d \in Conn : Buffered(d) = <<>> /\ Buffered(d)' = <<>>
  BY Unread
<1>2. /\ parser \in [Conn -> {"start", "untilEof", "dead"}] /\ events \in [Fd -> Entries]
      /\ ~Talks(c)
  BY DEF TypeOK, BatchTypes, SocketTypes, Connects, IsConnecting, Talks
<1>3. sock[here] = Socket("open") \/ sock[here].state = "failed"
  <2>1. \A st : Socket(st).state = st
    BY DEF Socket
  <2> QED
    BY <2>1 DEF Connects, IsConnecting
<1>4. CASE HandshakeDone(here, c)
  <2>1. /\ UNCHANGED <<fd, sock, faults, errors>> /\ parser' = [parser EXCEPT ![c] = "start"]
        /\ events' = Register(Register(events, sock, here, {R}, "socket_readable", c),
                              sock, here, {W}, "socket_writeable", c)
    BY <1>4 DEF HandshakeDone
  <2>2. /\ \A g \in Fd : g # here => events'[g] = events[g]
    <3> DEFINE first == Register(events, sock, here, {R}, "socket_readable", c)
    <3>1. /\ first \in [Fd -> Entries]
          /\ \A g \in Fd : g # here => first[g] = events[g]
      <4>1. first \in [Fd -> Entries]
        BY <1>2, EventTypes DEF RW, Handlers
      <4> QED
        BY <1>2, <4>1 DEF Register, aeCreateFileEvent
    <3>2. events' = Register(first, sock, here, {W}, "socket_writeable", c)
      BY <2>1
    <3> HIDE DEF first
    <3> QED
      BY <3>1, <3>2 DEF Register, aeCreateFileEvent
  <2>3. parser'[c] = "start" /\ \A d \in Conn \ {c} : parser'[d] = parser[d]
    BY <1>2, <2>1
  <2>4. Elsewhere(c)
    BY <1>1, <2>1, <2>2, <2>3, LocalElsewhere
  <2>5. CASE sock[here] = Socket("open")
    <3>1. /\ Socket("open").state = "open" /\ Socket("open").inbox = <<>>
          /\ Socket("open").fin = FALSE /\ DOMAIN Socket("open").inbox = {}
      BY DEF Socket
    <3>2. /\ sock'[fd'[c]].state = "open" /\ sock'[fd'[c]].inbox = <<>>
          /\ sock'[fd'[c]].fin = FALSE /\ DOMAIN sock'[fd'[c]].inbox = {}
          /\ Buffered(c)' = <<>> /\ DOMAIN Buffered(c)' = {} /\ parser'[c] = "start"
      BY <1>1, <2>1, <2>3, <2>5, <3>1
    <3>3. ~CauseOf(c)'
      BY <3>2 DEF CauseOf, Fails, Has, EndsEarly
    <3>4. Announces(c)'
      BY <3>2 DEF Announces, EndComes, Has
    <3> QED
      BY <2>1, <2>4, <3>3, <3>4 DEF Settles
  <2>6. CASE sock[here].state = "failed"
    <3>1. CauseOf(c) /\ Announces(c)'
      BY <2>1, <2>6 DEF CauseOf, Announces
    <3> QED
      BY <2>1, <2>4, <3>1 DEF Settles
  <2> QED
    BY <1>3, <2>5, <2>6
<1>5. CASE HandshakeRetry(here, c)
  <2>1. UNCHANGED <<fd, sock, parser, events, faults, errors>>
    BY <1>5 DEF HandshakeRetry, connVars
  <2>2. Elsewhere(c)
    BY <1>1, <2>1, LocalElsewhere
  <2>3. /\ CauseOf(c)' => CauseOf(c)
        /\ Announces(c)'
    <3>1. CauseOf(c)' <=> CauseOf(c)
      BY <1>1, <2>1, SameCause DEF SameSocket
    <3>2. ~Talks(c)'
      BY <1>2, <2>1 DEF Talks
    <3> QED
      BY <3>1, <3>2 DEF Announces
  <2> QED
    BY <2>1, <2>2, <2>3 DEF Settles
<1>6. CASE HandshakeError(here, c)
  <2>1. /\ reconnect_socket(c, CountError(errors, "connect")) /\ UNCHANGED parser
        /\ ~Live(here) \/ sock[here].fin
    BY <1>6 DEF HandshakeError
  <2>2. Opened(c)
    BY <2>1, ReconnectOpens
  <2>3. errors' = CountError(errors, "connect") /\ faults' = faults
    BY <2>1, ConnectCounts DEF reconnect_socket
  <2>4. sock[here].state = "failed"
    <3>1. Socket("open").state = "open" /\ Socket("open").fin = FALSE
      BY DEF Socket
    <3> QED
      BY <1>3, <2>1, <3>1 DEF Live
  <2>5. Elsewhere(c) /\ ~CauseOf(c)' /\ Announces(c)'
    BY <1>1, <2>1, <2>2, OpenedElsewhere
  <2>6. CauseOf(c)
    BY <2>4 DEF CauseOf
  <2> QED
    BY <2>3, <2>5, <2>6 DEF Settles, Kinds
<1> QED
  BY <1>4, <1>5, <1>6 DEF socket_connected

LEMMA WriteableSettles ==
    ASSUME TypeOK, Orderly, ConnInv, SocketsInv, NEW here \in Fd \ fresh,
           NEW c \in Conn \ unborn, fd[c] = here, Speaks(c), Announces(c),
           reader = NoConn, reader' = NoConn, socket_writeable(here, c)
    PROVE  Settles(c)
<1>1. \A d \in Conn : Buffered(d) = <<>> /\ Buffered(d)' = <<>>
  BY Unread
<1>2. events \in [Fd -> Entries] /\ sock \in [Fd -> Sockets] /\ events[here] \in Entries
  BY DEF TypeOK, SocketTypes
<1>3. ASSUME UNCHANGED <<fd, parser, errors, faults>>, SameSocket(sock[here], sock'[here]),
             events'[here].rproc = events[here].rproc,
             \A g \in Fd : g # here => events'[g] = events[g] /\ sock'[g] = sock[g]
      PROVE  Settles(c)
  <2>1. Elsewhere(c)
    BY <1>1, <1>3, LocalElsewhere
  <2>2. (CauseOf(c)' <=> CauseOf(c)) /\ (Announces(c)' <=> Announces(c))
    BY <1>1, <1>3, SameCause
  <2> QED
    BY <1>3, <2>1, <2>2 DEF Settles
<1>4. /\ \A g \in Fd : g # here => aeDeleteFileEvent(events, here, {W})[g] = events[g]
      /\ aeDeleteFileEvent(events, here, {W})[here].rproc = events[here].rproc
  BY <1>2 DEF aeDeleteFileEvent, Entries
<1>5. CASE DelayBatch(here, c)
  <2>1. /\ UNCHANGED <<fd, parser, errors, faults, sock>>
        /\ events' = aeDeleteFileEvent(events, here, {W})
    BY <1>5 DEF DelayBatch, connVars
  <2> QED
    BY <1>3, <1>4, <2>1 DEF SameSocket
<1>6. CASE WriteSome(here, c) \/ (WriteRetry(here, c) /\ ~UNCHANGED sock)
  <2>1. PICK n :
          /\ sock' = [sock EXCEPT ![here] = Receive(@, written[c], n)]
          /\ events' = aeDeleteFileEvent(events, here, {W}) \/ UNCHANGED events
    BY <1>6 DEF WriteSome, WriteRetry
  <2>2. UNCHANGED <<fd, parser, errors, faults>>
    BY <1>6 DEF WriteSome, WriteRetry
  <2>3. sock'[here] = Receive(sock[here], written[c], n)
        /\ \A g \in Fd : g # here => sock'[g] = sock[g]
    BY <1>2, <2>1
  <2>4. SameSocket(sock[here], Receive(sock[here], written[c], n))
    BY <1>2 DEF SameSocket, Receive, Sockets
  <2> QED
    BY <1>3, <1>4, <2>1, <2>2, <2>3, <2>4
<1>7. CASE WriteRetry(here, c) /\ UNCHANGED sock
  <2>1. UNCHANGED <<fd, parser, errors, faults, sock, events>>
    BY <1>7 DEF WriteRetry
  <2> QED
    BY <1>3, <2>1 DEF SameSocket
<1>8. CASE WriteError(here, c)
  <2>1. /\ reconnect_socket(c, CountError(errors, "write")) /\ UNCHANGED parser
        /\ ~Live(here)
    BY <1>8 DEF WriteError
  <2>2. Opened(c)
    BY <2>1, ReconnectOpens
  <2>3. errors' = CountError(errors, "write") /\ faults' = faults
    BY <2>1, ConnectCounts DEF reconnect_socket
  <2>4. sock[here].state = "failed"
    <3>1. sock[here] = Socket("open") \/ Aligned(sock[here], written[c])
      BY DEF Speaks, IsSpeaking, IsQuiet, IsInBatch
    <3>2. Socket("open").state = "open" /\ Socket("failed").state = "failed"
      BY DEF Socket
    <3> QED
      BY <2>1, <3>1, <3>2 DEF Live, Aligned
  <2>5. Elsewhere(c) /\ ~CauseOf(c)' /\ Announces(c)'
    BY <1>1, <2>1, <2>2, OpenedElsewhere
  <2>6. CauseOf(c)
    BY <2>4 DEF CauseOf
  <2> QED
    BY <2>3, <2>5, <2>6 DEF Settles, Kinds
<1> QED
  BY <1>5, <1>6, <1>7, <1>8 DEF socket_writeable

-----------------------------------------------------------------------------
(* The steps of the event loop.                                             *)

\* Outside socket_readable nothing is stray.
LEMMA NotStray == ASSUME reader = NoConn PROVE ~Stray
BY DEF Stray

\* A handler leaves what was reported and is not read yet to be read.
LEMMA SaidStays ==
    ASSUME FiredSaid, NEW here, NEW c, Kept(here, c),
           \A f \in Fd \ fresh' : fired'[f] = fired[f] \/ fired'[f] = {},
           here = cur' \/ (here \in Fd /\ fired'[here] = {}),
           \A f \in Fd : f # cur' /\ fired'[f] # {} => f # cur
    PROVE  FiredSaid'
<1>1. ASSUME NEW f \in Fd \ fresh', f # cur', R \in fired'[f], sock'[f].said
      PROVE  sock'[f].inbox # <<>>
  <2>1. f \notin fresh /\ fired'[f] = fired[f] /\ f # here /\ f # cur
    BY <1>1 DEF Kept
  <2>2. sock'[f] = sock[f]
    BY <1>1, <2>1 DEF Kept
  <2> QED
    BY <1>1, <2>1, <2>2 DEF FiredSaid
<1> QED
  BY <1>1 DEF FiredSaid

LEMMA DispatchReadableCauses ==
    ASSUME IInv, WireInv, CauseInv, Orderly, NEW f \in Fd, DispatchReadable(f)
    PROVE  CauseInv'
<1> SUFFICES ASSUME NEW c, c = events[f].data
             PROVE  CauseInv'
  OBVIOUS
<1>1. /\ TypeOK /\ ConnInv /\ FiredInput /\ ReadInv /\ SocketsInv
      /\ \A d \in Conn \ unborn : Announces(d)
      /\ FiredSaid /\ ReadSaid /\ Balanced
  BY DEF IInv, WireInv, CauseInv
<1>2. /\ pc = "dispatch" /\ fired[f] # {} /\ R \in fired[f] /\ events[f].mask # {}
      /\ cur' = f /\ UNCHANGED <<unborn, fired, buf, stop>>
  BY DEF DispatchReadable, RunsRead, pace
<1>3. cur \notin Fd /\ f \notin fresh /\ reader = NoConn /\ buf = <<>>
  BY <1>1, <1>2 DEF IInv, DescriptorInv, CurInv, InDispatch, FiredInv, ReadInv
<1>4. sock[f].state # "connecting" /\ HasInput(sock[f])
  BY <1>1, <1>2, <1>3 DEF FiredInput
<1>5. c \in Conn \ unborn /\ fd[c] = f /\ ConnOk(c)
  BY <1>2, WatchedOwner
<1>6. ~Stray
  BY <1>3, NotStray
<1>7. CASE events[f].rproc = "socket_connected"
  <2>1. socket_connected(f, c) /\ pc' = "writable" /\ reader' = reader
    BY <1>7 DEF DispatchReadable
  <2>2. Connects(c)
    BY <1>2, <1>7, WatchedOwner
  <2>3. Kept(f, c)
    BY <1>1, <1>2, <1>3, <1>4, <1>5, <2>1, <2>2, ConnectedKeeps DEF ReadInv
  <2>4. Settles(c)
    BY <1>1, <1>3, <1>4, <1>5, <2>1, <2>2, ConnectedSettles
  <2>5. ~Stray'
    BY <1>3, <2>1 DEF Stray
  <2>6. Accounts /\ \A d \in Conn \ unborn' : Announces(d)'
    BY <1>1, <1>2, <1>5, <1>6, <2>4, <2>5, SettlesAccounts
  <2>7. FiredSaid'
    BY <1>1, <1>2, <1>3, <2>3, SaidStays
  <2>8. ReadSaid'
    BY <2>1 DEF ReadSaid
  <2>9. Balanced'
    BY <1>1, <2>6, AccountsBalance
  <2> QED
    BY <2>6, <2>7, <2>8, <2>9 DEF CauseInv
<1>8. CASE events[f].rproc # "socket_connected"
  <2>1. /\ pc' = "read" /\ reader' = c
        /\ UNCHANGED <<fd, parser, events, sock, fresh, errors, faults>>
    BY <1>8 DEF DispatchReadable, connVars
  <2>2. \A d \in Conn : Buffered(d)' = Buffered(d)
    BY <1>2, <1>3 DEF Buffered
  <2>3. \A d \in Conn : (CauseOf(d)' <=> CauseOf(d)) /\ (Announces(d)' <=> Announces(d))
    BY <2>1, <2>2, SameCause DEF SameSocket
  <2>4. ~Stray'
    BY <1>2, <1>3 DEF Stray
  <2>5. CauseSet' \subseteq CauseSet
    BY <1>2, <1>6, <2>3, <2>4 DEF CauseSet
  <2>6. Accounts
    BY <2>1, <2>5 DEF Accounts
  <2>7. Balanced'
    BY <1>1, <2>6, AccountsBalance
  <2>8. FiredSaid'
    BY <1>1, <1>2, <1>3, <2>1 DEF FiredSaid
  <2>9. ReadSaid'
    BY <1>1, <1>2, <1>3, <2>1 DEF ReadSaid, FiredSaid
  <2> QED
    BY <1>1, <1>2, <2>3, <2>7, <2>8, <2>9 DEF CauseInv
<1> QED
  BY <1>7, <1>8

LEMMA DispatchWritableCauses ==
    ASSUME IInv, WireInv, TlsInv, CauseInv, Orderly, DispatchWritable
    PROVE  CauseInv'
<1> SUFFICES ASSUME NEW f, f = cur, NEW c, c = events[f].data
             PROVE  CauseInv'
  OBVIOUS
<1>1. /\ TypeOK /\ ConnInv /\ FiredInput /\ ReadInv /\ SocketsInv
      /\ \A d \in Conn \ unborn : Announces(d)
      /\ FiredSaid /\ ReadSaid /\ Balanced
  BY DEF IInv, WireInv, CauseInv
<1>2. /\ pc = "writable" /\ RunsWrite(events[f], fired[f], rfired)
      /\ W \in events[f].mask /\ events[f].mask # {} /\ fired[f] # {}
      /\ pc' = "dispatch" /\ cur' = NoFd /\ fired' = [fired EXCEPT ![f] = {}]
      /\ UNCHANGED <<unborn, buf, reader, stop>>
  BY DEF DispatchWritable, RunsWrite, pace
<1>3. f \in Fd /\ f \notin fresh /\ reader = NoConn /\ buf = <<>>
  <2>1. NoStaleReadiness
    BY ReadinessIsCurrent
  <2> QED
    BY <1>1, <1>2, <2>1 DEF IInv, DescriptorInv, CurInv, InDispatch, NoStaleReadiness, ReadInv
<1>4. sock[f].state # "connecting"
  BY <1>1, <1>2, <1>3 DEF FiredInput
<1>5. c \in Conn \ unborn /\ fd[c] = f
  BY <1>2, <1>3, WatchedOwner
<1>6. ~Stray /\ ~Stray'
  BY <1>2, <1>3 DEF Stray
<1>7. Kept(f, c) /\ Settles(c)
  <2>1. CASE events[f].wproc = "socket_connected"
    <3>1. socket_connected(f, c) /\ Connects(c)
      BY <1>2, <1>3, <2>1, WatchedOwner DEF DispatchWritable
    <3>2. Kept(f, c)
      BY <1>1, <1>2, <1>3, <1>4, <1>5, <3>1, ConnectedKeeps DEF ReadInv
    <3>3. Settles(c)
      BY <1>1, <1>2, <1>3, <1>4, <1>5, <3>1, ConnectedSettles
    <3> QED
      BY <3>2, <3>3
  <2>2. CASE events[f].wproc # "socket_connected"
    <3>1. socket_writeable(f, c)
      BY <2>2 DEF DispatchWritable
    <3>2. Speaks(c)
      BY <1>2, <1>3, <2>2, WatchedOwner DEF Connects, IsConnecting
    <3>3. Kept(f, c)
      BY <1>1, <1>2, <1>3, <1>5, <3>1, <3>2, WriteableKeeps DEF ReadInv
    <3>4. Settles(c)
      BY <1>1, <1>2, <1>3, <1>5, <3>1, <3>2, WriteableSettles
    <3> QED
      BY <3>3, <3>4
  <2> QED
    BY <2>1, <2>2
<1>8. Accounts /\ \A d \in Conn \ unborn' : Announces(d)'
  BY <1>1, <1>2, <1>5, <1>6, <1>7, SettlesAccounts
<1>9. Balanced'
  BY <1>1, <1>8, AccountsBalance
<1>10. FiredSaid'
  <2>1. fired \in [Fd -> SUBSET RW]
    BY <1>1 DEF TypeOK, LoopTypes
  <2>2. fired'[f] = {} /\ \A g \in Fd : g # f => fired'[g] = fired[g]
    BY <1>2, <1>3, <2>1
  <2> QED
    BY <1>1, <1>3, <1>7, <2>2, SaidStays
<1>11. ReadSaid'
  BY <1>2 DEF ReadSaid
<1> QED
  BY <1>8, <1>9, <1>10, <1>11 DEF CauseInv

\* A step that leaves every connection what it was.
LEMMA NothingSettles ==
    ASSUME TypeOK, CauseInv, UNCHANGED <<fd, parser, unborn, errors, faults, sock>>,
           \A d \in Conn \ unborn : events'[fd[d]].rproc = events[fd[d]].rproc,
           \A d \in Conn : Buffered(d)' = Buffered(d), Stray' => Stray
    PROVE  Balanced' /\ \A d \in Conn \ unborn' : Announces(d)'
<1>1. \A d \in Conn \ unborn : (CauseOf(d)' <=> CauseOf(d)) /\ (Announces(d)' <=> Announces(d))
  BY SameCause DEF SameSocket
<1>2. CauseSet' \subseteq CauseSet
  BY <1>1 DEF CauseSet
<1>3. Accounts
  BY <1>2 DEF Accounts
<1>4. Balanced'
  BY <1>3, AccountsBalance DEF CauseInv
<1> QED
  BY <1>1, <1>4 DEF CauseInv

\* Between two passes of the loop a server that said the end is near has said
\* it in a response that is still to be read.
LEMMA SaidIsToRead ==
    ASSUME IInv, WireInv, pc = "poll", NEW f \in Fd, events[f].mask # {}, sock[f].said
    PROVE  sock[f].inbox # <<>>
<1> SUFFICES ASSUME NEW c, c = events[f].data
             PROVE  sock[f].inbox # <<>>
  OBVIOUS
<1>1. c \in Conn \ unborn /\ fd[c] = f /\ ConnOk(c)
  BY WatchedOwner
<1>2. \A st : Socket(st).said = FALSE
  BY DEF Socket
<1>3. ~Connects(c)
  BY <1>1, <1>2 DEF Connects, IsConnecting
<1>4. ~stop /\ Buffered(c) = <<>>
  BY DEF WireInv, StopInv, ReadInv, Buffered
<1>5. Counted(sock[f], <<>>, written[c], pending[c])
  BY <1>1, <1>2, <1>3, <1>4 DEF ConnOk, Speaks, IsSpeaking, IsQuiet, IsInBatch
<1>6. EndComes(sock[f], <<>>) /\ DOMAIN <<>> = {}
  BY <1>5 DEF Counted
<1> QED
  BY <1>6 DEF EndComes, Has

LEMMA IdleStepCauses ==
    ASSUME IInv, WireInv, CauseInv,
           Poll \/ EndDispatch \/ EndTimers \/ check_timeouts \/ DispatchNotWritable
             \/ \E f \in Fd : DispatchNotReadable(f)
    PROVE  CauseInv'
<1>1. /\ TypeOK /\ ReadInv /\ FiredSaid /\ fired \in [Fd -> SUBSET RW]
  BY DEF IInv, WireInv, CauseInv, TypeOK, LoopTypes
<1>2. /\ UNCHANGED <<fd, parser, unborn, errors, faults, sock, events, reader>>
      /\ pc \in {"poll", "dispatch", "timers", "writable"} /\ pc' # "read"
  BY DEF Poll, EndDispatch, EndTimers, check_timeouts, DispatchNotWritable, DispatchNotReadable,
         connVars, bounds
<1>3. reader = NoConn /\ reader' = NoConn
  BY <1>1, <1>2 DEF ReadInv
<1>4. Balanced' /\ \A d \in Conn \ unborn' : Announces(d)'
  <2>1. \A d \in Conn : Buffered(d)' = Buffered(d)
    BY <1>3, Unread
  <2>2. ~Stray'
    BY <1>3 DEF Stray
  <2> QED
    BY <1>1, <1>2, <2>1, <2>2, NothingSettles
<1>5. ReadSaid'
  BY <1>2 DEF ReadSaid
<1>6. FiredSaid'
  <2>1. CASE Poll
    <3>1. ASSUME NEW f \in Fd, R \in fired'[f], sock[f].said
          PROVE  sock[f].inbox # <<>>
      <4>1. pc = "poll" /\ events[f].mask # {}
        BY <2>1, <3>1 DEF Poll, Reported
      <4> QED
        BY <3>1, <4>1, SaidIsToRead
    <3> QED
      BY <1>2, <3>1 DEF FiredSaid
  <2>2. CASE EndDispatch \/ EndTimers \/ check_timeouts
    <3>1. UNCHANGED <<fired, cur, fresh>>
      BY <2>2 DEF EndDispatch, EndTimers, check_timeouts
    <3> QED
      BY <1>1, <1>2, <3>1 DEF FiredSaid
  <2>3. CASE DispatchNotWritable
    <3>1. fired' = [fired EXCEPT ![cur] = {}] /\ UNCHANGED fresh /\ cur \in Fd
      BY <2>3 DEF DispatchNotWritable, IInv, DescriptorInv, CurInv, InDispatch
    <3>2. fired'[cur] = {} /\ \A g \in Fd : g # cur => fired'[g] = fired[g]
      BY <1>1, <3>1
    <3> QED
      BY <1>1, <1>2, <3>1, <3>2 DEF FiredSaid
  <2>4. CASE \E f \in Fd : DispatchNotReadable(f)
    <3>1. UNCHANGED <<fired, fresh>> /\ pc = "dispatch"
      BY <2>4 DEF DispatchNotReadable
    <3>2. cur \notin Fd
      BY <3>1 DEF IInv, DescriptorInv, CurInv, InDispatch
    <3> QED
      BY <1>1, <1>2, <3>1, <3>2 DEF FiredSaid
  <2> QED
    BY <2>1, <2>2, <2>3, <2>4
<1> QED
  BY <1>4, <1>5, <1>6 DEF CauseInv

LEMMA InitialConnectCauses ==
    ASSUME IInv, WireInv, CauseInv, Orderly, NEW c \in Conn, delayed_initial_connect(c)
    PROVE  CauseInv'
<1>1. TypeOK /\ ConnInv /\ ReadInv
  BY DEF IInv, WireInv
<1>2. /\ pc = "timers" /\ c \in unborn /\ unborn' = unborn \ {c}
      /\ connect_socket(c, events, sock, errors)
      /\ UNCHANGED <<parser, fired, cur, pc, reader, buf>>
  BY DEF delayed_initial_connect, loopVars
<1>3. fd[c] \notin Fd
  BY <1>2, ConnectionAssumption DEF IInv, DescriptorInv, UnbornUnopened
<1>4. Opened(c)
  BY <1>1, <1>2, <1>3, ConnectOpens
<1>5. reader = NoConn /\ reader' = NoConn
  BY <1>1, <1>2 DEF ReadInv
<1>6. errors' = errors /\ faults' = faults
  BY <1>2, ConnectCounts
<1>7. Elsewhere(c) /\ ~CauseOf(c)' /\ Announces(c)'
  <2>1. \A d \in Conn : Buffered(d)' = Buffered(d)
    BY <1>5, Unread
  <2> QED
    BY <1>1, <1>2, <1>3, <1>4, <2>1, OpenedElsewhere
<1>8. CauseSet' \subseteq CauseSet
  <2>1. ~Stray'
    BY <1>5 DEF Stray
  <2> QED
    BY <1>2, <1>7, <2>1 DEF CauseSet, Elsewhere
<1>9. Balanced'
  <2>1. Accounts
    BY <1>6, <1>8 DEF Accounts
  <2> QED
    BY <1>1, <2>1, AccountsBalance DEF CauseInv
<1>10. \A d \in Conn \ unborn' : Announces(d)'
  BY <1>2, <1>7 DEF Elsewhere, CauseInv
<1>11. FiredSaid' /\ ReadSaid'
  BY <1>2 DEF IInv, DescriptorInv, CurInv, FiredSaid, ReadSaid
<1> QED
  BY <1>9, <1>10, <1>11 DEF CauseInv

LEMMA DelayCauses ==
    ASSUME IInv, WireInv, CauseInv, NEW c \in Conn, delay_request(c)
    PROVE  CauseInv'
<1>1. TypeOK /\ ConnInv /\ ReadInv /\ events \in [Fd -> Entries]
  BY DEF IInv, WireInv, TypeOK, SocketTypes
<1>2. /\ pc = "timers"
      /\ events' = Register(events, sock, fd[c], {W}, "socket_writeable", c)
      /\ UNCHANGED <<fd, parser, unborn, errors, faults, sock, reader, fired, pc>>
  BY DEF delay_request, loopVars, connVars, bounds
<1>3. \A d \in Conn \ unborn : events'[fd[d]].rproc = events[fd[d]].rproc
  <2>1. \A g \in Fd : events'[g].rproc = events[g].rproc
    BY <1>1, <1>2 DEF Register, aeCreateFileEvent, R, W
  <2> QED
    BY <1>1, <2>1, Apart
<1>4. reader = NoConn /\ reader' = NoConn
  BY <1>1, <1>2 DEF ReadInv
<1>5. Balanced' /\ \A d \in Conn \ unborn' : Announces(d)'
  <2>1. \A d \in Conn : Buffered(d)' = Buffered(d)
    BY <1>4, Unread
  <2>2. ~Stray'
    BY <1>4 DEF Stray
  <2> QED
    BY <1>1, <1>2, <1>3, <2>1, <2>2, NothingSettles
<1>6. FiredSaid' /\ ReadSaid'
  BY <1>2 DEF IInv, DescriptorInv, CurInv, FiredSaid, ReadSaid
<1> QED
  BY <1>5, <1>6 DEF CauseInv

LEMMA LoopCauses ==
    ASSUME IInv, WireInv, TlsInv, CauseInv, Orderly, Loop
    PROVE  CauseInv'
BY IdleStepCauses, DispatchWritableCauses, DispatchReadableCauses, InitialConnectCauses, DelayCauses
   DEF Loop

-----------------------------------------------------------------------------
(* The steps of socket_readable.                                            *)

\* What they have in common.
LEMMA ReaderFiredSaid ==
    ASSUME CauseInv, NEW c, NEW here, here = cur, Kept(here, c), UNCHANGED <<fired, cur>>
    PROVE  FiredSaid'
<1>1. FiredSaid
  BY DEF CauseInv
<1>2. \A f \in Fd \ fresh' : fired'[f] = fired[f] \/ fired'[f] = {}
  OBVIOUS
<1>3. here = cur' /\ \A f \in Fd : f # cur' /\ fired'[f] # {} => f # cur
  OBVIOUS
<1> QED
  BY <1>1, <1>2, <1>3, SaidStays

LEMMA ReadDataCauses ==
    ASSUME IInv, WireInv, CauseInv, ReadData
    PROVE  CauseInv'
<1> SUFFICES ASSUME NEW c, c = reader, NEW here, here = cur
             PROVE  CauseInv'
  OBVIOUS
<1> DEFINE s == sock[here]
           in == s.inbox
           n == IF Len(in) < RecvBuf THEN Len(in) ELSE RecvBuf
           u == [s EXCEPT !.inbox = SubSeq(in, n + 1, Len(in))]
           a == SubSeq(in, 1, n)
<1>1. /\ pc = "read" /\ pc' = "parse" /\ in # <<>> /\ buf = <<>>
      /\ fd[c] = here /\ here \notin fresh /\ here \in Fd /\ c \in Conn \ unborn /\ Speaks(c)
  BY ReaderStation DEF ReadData, Live, WireInv, ReadInv
<1>2. /\ UNCHANGED <<fd, parser, events, fired, cur, reader, fresh, unborn, errors, faults>>
      /\ buf' = a
      /\ sock' = [sock EXCEPT ![here].inbox = SubSeq(in, n + 1, Len(in))]
  BY <1>1 DEF ReadData, connVars, bounds
<1>3. sock \in [Fd -> Sockets] /\ s \in Sockets /\ in \in Seq(Tokens) /\ TypeOK /\ ConnInv
  BY <1>1, SocketTypesHere DEF IInv, WireInv, TypeOK, SocketTypes, SocketOk
<1>4. sock'[here] = u /\ \A g \in Fd : g # here => sock'[g] = sock[g]
  BY <1>1, <1>2, <1>3
<1>5. n \in 1..Len(in)
  <2>1. Len(in) \in Nat \ {0}
    BY <1>1, <1>3
  <2> QED
    BY <2>1, ConnectionAssumption
<1>6. ReadMoves(s, u, a)
  BY <1>5 DEF ReadMoves
<1>7. Buffered(c) = <<>> /\ Buffered(c)' = a /\ \A d \in Conn \ {c} : Buffered(d)' = Buffered(d)
  BY <1>1, <1>2, OthersUnread DEF Buffered
<1>8. /\ u.state = s.state /\ u.said = s.said
      /\ Fails(u, a, parser[c]) => Fails(s, <<>>, parser[c])
      /\ EndComes(u, a) => EndComes(s, <<>>)
  <2> DEFINE p == parser[c]
  <2> HIDE DEF p, u, a, n
  <2>1. s.inbox \in Seq(Tokens)
    BY <1>3
  <2> HIDE DEF s, in
  <2>2. /\ u.state = s.state /\ u.said = s.said
        /\ Fails(u, a, p) => Fails(s, <<>>, p)
        /\ EndComes(u, a) => EndComes(s, <<>>)
    BY <1>3, <1>6, <2>1, ReadFailsSame
  <2> QED
    BY <2>2 DEF p
<1> HIDE DEF u, a, n
<1>9. Talks(c) /\ Talks(c)'
  BY <1>1, <1>2 DEF Talks, Speaks, IsSpeaking
<1>10. CauseOf(c)' => CauseOf(c)
  <2>1. sock[fd[c]] = s /\ sock'[fd'[c]] = u /\ parser'[c] = parser[c]
    BY <1>1, <1>2, <1>4
  <2> QED
    BY <1>7, <1>8, <1>9, <2>1 DEF CauseOf
<1>11. Announces(c)'
  <2>1. sock[fd[c]] = s /\ sock'[fd'[c]] = u /\ parser'[c] = parser[c]
    BY <1>1, <1>2, <1>4
  <2>2. Announces(c)
    BY <1>1 DEF CauseInv
  <2> QED
    BY <1>7, <1>8, <1>9, <2>1, <2>2 DEF Announces
<1>12. Elsewhere(c)
  <2>1. \A g \in Fd : g # fd[c] => events'[g] = events[g] /\ sock'[g] = sock[g]
    BY <1>1, <1>2, <1>4
  <2> QED
    BY <1>1, <1>2, <1>3, <1>7, <2>1, LocalElsewhere
<1>13. Settles(c)
  BY <1>2, <1>10, <1>11, <1>12 DEF Settles
<1>14. ~Stray /\ ~Stray'
  BY <1>1, <1>2, <1>9 DEF Stray
<1>15. Accounts /\ \A d \in Conn \ unborn' : Announces(d)'
  BY <1>1, <1>2, <1>13, <1>14, SettlesAccounts DEF CauseInv
<1>16. Balanced'
  BY <1>3, <1>15, AccountsBalance DEF CauseInv
<1>17. FiredSaid'
  BY <1>2, ReadDataKeeps, ReaderFiredSaid
<1>18. ReadSaid'
  BY <1>1 DEF ReadSaid
<1> QED
  BY <1>15, <1>16, <1>17, <1>18 DEF CauseInv

\* The connection is closed and opened again: what was on its socket, or the
\* responses that had outlived theirs, are done with.
LEMMA ReadFailsCauses ==
    ASSUME IInv, WireInv, CauseInv, Orderly, pc = "read" \/ (pc = "parse" /\ buf # <<>>), ReadFails,
           NEW c, c = reader,
           parser' = parser \/ parser' = [parser EXCEPT ![c] = "dead"],
           Stray \/ CauseOf(c)
    PROVE  CauseInv'
<1> SUFFICES ASSUME NEW here, here = cur
             PROVE  CauseInv'
  OBVIOUS
<1>1. /\ reconnect_socket(c, CountError(errors, "read"))
      /\ pc' = "writable" /\ reader' = NoConn
      /\ UNCHANGED <<fired, cur, unborn>>
  BY DEF ReadFails, ReturnFromRead
<1>2. /\ c \in Conn \ unborn /\ fd[c] \in Fd /\ TypeOK /\ ConnInv
      /\ parser \in [Conn -> {"start", "untilEof", "dead"}]
  BY ReaderStation DEF IInv, WireInv, TypeOK, BatchTypes
<1>3. Opened(c)
  BY <1>1, <1>2, ReconnectOpens
<1>4. errors' = CountError(errors, "read") /\ faults' = faults
  BY <1>1, ConnectCounts DEF reconnect_socket
<1>5. Elsewhere(c) /\ ~CauseOf(c)' /\ Announces(c)'
  <2>1. \A d \in Conn \ {c} : parser'[d] = parser[d] /\ Buffered(d)' = Buffered(d)
    BY <1>1, <1>2, OthersUnread
  <2> QED
    BY <1>2, <1>3, <2>1, OpenedElsewhere
<1>6. \A d \in Conn \ unborn' : Announces(d)'
  BY <1>1, <1>5 DEF Elsewhere, CauseInv
<1>7. CauseSet' = {d \in Conn \ unborn : CauseOf(d)'}
  BY <1>1 DEF CauseSet, Stray
<1>8. ASSUME CauseOf(c) PROVE Accounts
  <2>1. c \in CauseSet /\ CauseSet' \subseteq CauseSet \ {c}
    BY <1>2, <1>5, <1>7, <1>8 DEF CauseSet, Elsewhere
  <2>2. Accounts
    BY <1>4, <2>1 DEF Accounts, Kinds
  <2> QED
    BY <2>2
<1>9. ASSUME Stray PROVE Accounts
  <2>1. NoConn \in CauseSet /\ CauseSet' \subseteq CauseSet \ {NoConn}
    BY <1>2, <1>5, <1>7, <1>9, ConnectionAssumption DEF CauseSet, Elsewhere
  <2>2. Accounts
    BY <1>4, <2>1 DEF Accounts, Kinds
  <2> QED
    BY <2>2
<1>10. Accounts
  BY <1>8, <1>9
<1>11. Balanced'
  BY <1>2, <1>10, AccountsBalance DEF CauseInv
<1>12. Kept(here, c)
  BY ReadFailsKeeps
<1>13. FiredSaid'
  BY <1>1, <1>12, ReaderFiredSaid
<1>14. ReadSaid'
  BY <1>1 DEF ReadSaid
<1> QED
  BY <1>6, <1>11, <1>13, <1>14 DEF CauseInv

LEMMA ReadErrorCauses ==
    ASSUME IInv, WireInv, CauseInv, Orderly, ReadError
    PROVE  CauseInv'
<1> SUFFICES ASSUME NEW c, c = reader
             PROVE  CauseInv'
  OBVIOUS
<1>1. pc = "read" /\ ReadFails /\ parser' = parser
  BY DEF ReadError, WireInv, ReadInv
<1>2. /\ fd[c] = cur /\ Speaks(c) /\ HasInput(sock[cur])
      /\ sock[cur].said => sock[cur].inbox # <<>>
  BY <1>1, ReaderStation DEF WireInv, ReadInv, CauseInv, ReadSaid
<1>3. Talks(c)
  BY <1>2 DEF Talks, Speaks, IsSpeaking
<1>4. sock[cur].state = "failed" \/ (Live(cur) /\ sock[cur].fin /\ sock[cur].inbox = <<>>)
  <2>1. sock[cur] = Socket("open") \/ Aligned(sock[cur], written[c])
    BY <1>2 DEF Speaks, IsSpeaking, IsQuiet, IsInBatch
  <2>2. sock[cur].state = "open" \/ sock[cur].state = "failed"
    BY <2>1 DEF Aligned, Socket
  <2> QED
    BY <1>1, <1>2, <2>2 DEF ReadError, Live, ReadAtEof, HasInput
<1>5. CauseOf(c)
  BY <1>2, <1>3, <1>4 DEF CauseOf, Fails
<1> QED
  BY <1>1, <1>5, ReadFailsCauses

LEMMA ParseErrorCauses ==
    ASSUME IInv, WireInv, CauseInv, Orderly, ParseError
    PROVE  CauseInv'
<1> SUFFICES ASSUME NEW c, c = reader
             PROVE  CauseInv'
  OBVIOUS
<1>1. /\ pc = "parse" /\ buf # <<>> /\ ReadFails /\ parser' = [parser EXCEPT ![c] = "dead"]
      /\ parser[c] = "dead" \/ Head(buf) = "bad"
      /\ buf \in Seq(Tokens)
  BY DEF ParseError, WireInv, ReadInv
<1>2. /\ c \in Conn \ unborn
      /\ fd[c] \in fresh => Connects(c)
      /\ fd[c] \notin fresh => Speaks(c) /\ Buffered(c) = buf
  BY <1>1, ReaderStation
<1>3. CASE fd[c] \in fresh
  <2>1. ~Talks(c)
    BY <1>2, <1>3 DEF Talks, Connects, IsConnecting
  <2>2. Stray
    BY <1>1, <1>2, <2>1, ConnectionAssumption DEF Stray
  <2> QED
    BY <1>1, <2>2, ReadFailsCauses
<1>4. CASE fd[c] \notin fresh
  <2>1. Talks(c)
    BY <1>2, <1>4 DEF Talks, Speaks, IsSpeaking
  <2>2. Head(buf) = "bad" => Has(buf, "bad")
    BY <1>1, TailHas DEF Has
  <2>3. CauseOf(c)
    BY <1>1, <1>2, <1>4, <2>1, <2>2 DEF CauseOf, Fails
  <2> QED
    BY <1>1, <2>3, ReadFailsCauses
<1> QED
  BY <1>3, <1>4

LEMMA ReadEndCauses ==
    ASSUME IInv, WireInv, CauseInv, ReadRetry \/ ParseEnd
    PROVE  CauseInv'
<1> SUFFICES ASSUME NEW c, c = reader, NEW here, here = cur
             PROVE  CauseInv'
  OBVIOUS
<1>1. /\ pc \in {"read", "parse"} /\ buf = <<>> /\ buf' = <<>>
      /\ UNCHANGED <<fd, written, pending, has_pending, parser, timers, events, fired, cur,
                     sock, stop, fresh, buf, complete, unborn, errors, faults>>
      /\ \/ pc' = "writable" /\ reader' = NoConn
         \/ pc' = "read" /\ reader' = c /\ Live(fd[c]) /\ sock[fd[c]].inbox # <<>>
  BY DEF ReadRetry, ParseEnd, ReturnFromRead, connVars, bounds, WireInv, ReadInv
<1>2. Kept(here, c) /\ ReadInv'
  BY <1>1, ReadEndKeeps
<1>3. Balanced' /\ \A d \in Conn \ unborn' : Announces(d)'
  <2>1. \A d \in Conn : Buffered(d)' = Buffered(d)
    BY <1>1 DEF Buffered
  <2>2. ~Stray'
    BY <1>1 DEF Stray
  <2> QED
    BY <1>1, <2>1, <2>2, NothingSettles DEF IInv
<1>4. FiredSaid'
  BY <1>1, <1>2, ReaderFiredSaid
<1>5. ReadSaid'
  <2>1. ASSUME pc' = "read" PROVE sock'[cur'].inbox # <<>>
    <3>1. reader' = c /\ sock[fd[c]].inbox # <<>> /\ fd'[reader'] = cur'
      BY <1>1, <1>2, <2>1 DEF ReadInv
    <3> QED
      BY <1>1, <3>1
  <2> QED
    BY <2>1 DEF ReadSaid
<1> QED
  BY <1>3, <1>4, <1>5 DEF CauseInv

\* A response is parsed and its socket stays: nothing fails that did not.
LEMMA ParsedSettles ==
    ASSUME IInv, WireInv, CauseInv, ParseResponse, NEW c, c = reader, NEW here, here = cur,
           NEW state, parser' = [parser EXCEPT ![c] = state],
           \/ state = "start" /\ Head(buf) # "close"
           \/ state = "dead" /\ Head(buf) = "close",
           UNCHANGED <<fd, sock, errors, faults, fresh>>,
           \A g \in Fd : g # here => events'[g] = events[g],
           events'[here].rproc = events[here].rproc
    PROVE  Settles(c) /\ ~Stray /\ ~Stray'
<1> DEFINE s == sock[here]
<1>1. /\ c \in Conn \ unborn /\ here \in Fd \ fresh /\ fd[c] = here
      /\ Buffered(c) = buf /\ buf \in Seq(Tokens) /\ buf # <<>>
      /\ events[here].rproc = "socket_readable" /\ parser[c] = "start"
  BY ResponseFinds DEF IsSending, ParseResponse
<1>2. UNCHANGED <<reader, cur, unborn>> /\ buf' = Tail(buf)
  BY DEF ParseResponse
<1>3. ConnInv /\ parser \in [Conn -> {"start", "untilEof", "dead"}] /\ Announces(c)
  BY <1>1 DEF IInv, WireInv, CauseInv, TypeOK, BatchTypes
<1>4. parser'[c] = state /\ \A d \in Conn \ {c} : parser'[d] = parser[d]
  BY <1>1, <1>3
<1>5. Buffered(c)' = Tail(buf) /\ \A d \in Conn \ {c} : Buffered(d)' = Buffered(d)
  BY <1>1, <1>2, OthersUnread DEF Buffered
<1>6. Elsewhere(c)
  <2>1. \A g \in Fd : g # fd[c] => events'[g] = events[g] /\ sock'[g] = sock[g]
    BY <1>1
  <2> QED
    BY <1>1, <1>3, <1>4, <1>5, <2>1, LocalElsewhere
<1>7. Talks(c) /\ Talks(c)'
  BY <1>1 DEF Talks
<1>8. /\ Fails(s, Tail(buf), state) => Fails(s, buf, "start")
      /\ EndComes(s, Tail(buf)) => EndComes(s, buf)
      /\ Head(buf) = "close" => EndComes(s, buf)
  <2> DEFINE b == buf
  <2>1. b \in Seq(Tokens) /\ b # <<>>
    BY <1>1
  <2> HIDE DEF b, s
  <2>2. /\ Fails(s, Tail(b), "start") => Fails(s, b, "start")
        /\ Head(b) = "close" /\ Fails(s, Tail(b), "dead") => Fails(s, b, "start")
    BY <2>1, ParseFails
  <2>3. /\ Has(Tail(b), "close") => Has(b, "close")
        /\ Head(b) = "close" => Has(b, "close")
    BY <2>1, TailHas DEF Has
  <2> QED
    BY <2>2, <2>3 DEF EndComes, b
<1> HIDE DEF s
<1>9. sock[fd[c]] = s /\ sock'[fd'[c]] = s
  BY <1>1 DEF s
<1>10. CauseOf(c)' => CauseOf(c)
  BY <1>1, <1>4, <1>5, <1>7, <1>8, <1>9 DEF CauseOf
<1>11. Announces(c)'
  BY <1>1, <1>3, <1>4, <1>5, <1>7, <1>8, <1>9 DEF Announces
<1>12. ~Stray /\ ~Stray'
  BY <1>2, <1>7 DEF Stray
<1> QED
  BY <1>6, <1>10, <1>11, <1>12 DEF Settles

\* The response that announced the end: what comes after it, and is left in the
\* buffer without a socket, stands for the end that came too early.
LEMMA ClosedAccounts ==
    ASSUME IInv, WireInv, CauseInv, Orderly, ParseResponse, NEW c, c = reader,
           Head(buf) = "close", reconnect_socket(c, errors),
           parser' = [parser EXCEPT ![c] = "dead"]
    PROVE  Accounts /\ \A d \in Conn \ unborn' : Announces(d)'
<1>1. /\ c \in Conn \ unborn /\ fd[c] \in Fd /\ Buffered(c) = buf /\ buf \in Seq(Tokens)
      /\ buf # <<>> /\ events[fd[c]].rproc = "socket_readable" /\ parser[c] = "start"
  BY ResponseFinds DEF IsSending, ParseResponse
<1>2. UNCHANGED <<reader, unborn>> /\ buf' = Tail(buf)
  BY DEF ParseResponse
<1>3. ConnInv /\ TypeOK /\ parser \in [Conn -> {"start", "untilEof", "dead"}]
  BY DEF IInv, WireInv, TypeOK, BatchTypes
<1>4. Opened(c)
  BY <1>1, <1>3, ReconnectOpens
<1>5. errors' = errors /\ faults' = faults
  BY ConnectCounts DEF reconnect_socket
<1>6. Elsewhere(c) /\ ~CauseOf(c)' /\ Announces(c)'
  <2>1. \A d \in Conn \ {c} : parser'[d] = parser[d] /\ Buffered(d)' = Buffered(d)
    BY <1>1, <1>2, <1>3, OthersUnread
  <2> QED
    BY <1>1, <1>3, <1>4, <2>1, OpenedElsewhere
<1>7. Talks(c) /\ ~Stray
  BY <1>1 DEF Talks, Stray
<1>8. Tail(buf) # <<>> => CauseOf(c)
  <2> DEFINE s == sock[fd[c]]
             b == buf
  <2>1. b \in Seq(Tokens) /\ b # <<>>
    BY <1>1
  <2> HIDE DEF b, s
  <2>2. Head(b) = "close" /\ Tail(b) # <<>> => Fails(s, b, "start")
    BY <2>1, ParseFails
  <2> QED
    BY <1>1, <1>7, <2>2 DEF CauseOf, b, s
<1>9. {d \in Conn \ unborn' : CauseOf(d)'} = {d \in Conn \ unborn : CauseOf(d)} \ {c}
  BY <1>1, <1>2, <1>6 DEF Elsewhere
<1>10. Accounts
  <2>1. ASSUME Tail(buf) # <<>> PROVE Accounts
    <3>1. c \in CauseSet /\ CauseSet' \subseteq (CauseSet \ {c}) \cup {NoConn}
      BY <1>1, <1>7, <1>8, <1>9, <2>1 DEF CauseSet
    <3> QED
      BY <1>5, <3>1 DEF Accounts
  <2>2. ASSUME Tail(buf) = <<>> PROVE Accounts
    <3>1. ~Stray'
      BY <1>2, <2>2 DEF Stray
    <3>2. CauseSet' \subseteq CauseSet
      BY <1>9, <3>1 DEF CauseSet
    <3> QED
      BY <1>5, <3>2 DEF Accounts
  <2> QED
    BY <2>1, <2>2
<1>11. \A d \in Conn \ unborn' : Announces(d)'
  BY <1>2, <1>6 DEF Elsewhere, CauseInv
<1> QED
  BY <1>10, <1>11

LEMMA ResponseCauses ==
    ASSUME IInv, WireInv, CauseInv, Orderly, ParseResponse
    PROVE  CauseInv'
<1> SUFFICES ASSUME NEW c, c = reader, NEW here, here = cur
             PROVE  CauseInv'
  OBVIOUS
<1>1. /\ c \in Conn \ unborn /\ here \in Fd /\ fd[c] = here
      /\ TypeOK /\ events \in [Fd -> Entries]
      /\ \A d \in Conn \ unborn : Announces(d)
  BY ResponseFinds DEF IInv, TypeOK, SocketTypes, CauseInv
<1>2. unborn' = unborn /\ pc' = "parse" /\ UNCHANGED <<fired, cur>>
  BY DEF ParseResponse
<1>3. ASSUME NEW state, LastResponse(c, state) \/ NextResponse(c, state, TRUE),
             LastResponse(c, state) => parser' = [parser EXCEPT ![c] = state],
             \/ state = "start" /\ Head(buf) # "close"
             \/ state = "dead" /\ Head(buf) = "close" /\ LastResponse(c, state)
      PROVE  Accounts /\ \A d \in Conn \ unborn' : Announces(d)'
  <2>1. /\ parser' = [parser EXCEPT ![c] = state]
        /\ UNCHANGED <<fd, sock, errors, faults, fresh>>
        /\ events' = events \/ \E n : events' = EventsAfter(c, n)
    BY <1>3 DEF LastResponse, NextResponse
  <2>2. /\ \A g \in Fd : g # here => events'[g] = events[g]
        /\ events'[here].rproc = events[here].rproc
    BY <1>1, <2>1 DEF EventsAfter, Register, aeCreateFileEvent, R, W
  <2>3. Settles(c) /\ ~Stray /\ ~Stray'
    BY <1>3, <2>1, <2>2, ParsedSettles
  <2> QED
    BY <1>1, <1>2, <2>3, SettlesAccounts
<1>4. ASSUME NextResponse(c, "dead", FALSE), Head(buf) = "close"
      PROVE  Accounts /\ \A d \in Conn \ unborn' : Announces(d)'
  <2>1. reconnect_socket(c, errors) /\ parser' = [parser EXCEPT ![c] = "dead"]
    BY <1>4 DEF NextResponse
  <2> QED
    BY <1>4, <2>1, ClosedAccounts
<1>5. Accounts /\ \A d \in Conn \ unborn' : Announces(d)'
  <2>1. \/ Head(buf) # "close" /\ (LastResponse(c, "start") \/ NextResponse(c, "start", TRUE))
        \/ Head(buf) = "close" /\ (LastResponse(c, "dead") \/ NextResponse(c, "dead", FALSE))
    BY DEF ParseResponse, response_complete, KeepAlive
  <2>2. \A state : LastResponse(c, state) => parser' = [parser EXCEPT ![c] = state]
    BY DEF LastResponse
  <2> QED
    BY <1>3, <1>4, <2>1, <2>2
<1>6. Balanced'
  BY <1>1, <1>5, AccountsBalance DEF CauseInv
<1>7. FiredSaid'
  BY <1>2, ResponseKeeps, ReaderFiredSaid
<1>8. ReadSaid'
  BY <1>2 DEF ReadSaid
<1> QED
  BY <1>5, <1>6, <1>7, <1>8 DEF CauseInv

LEMMA HandlerCauses ==
    ASSUME IInv, WireInv, CauseInv, Orderly, Handler
    PROVE  CauseInv'
<1>1. ~ReadEofOfBody /\ ~ParseOpenBody
  <2>1. ReadInv
    BY DEF WireInv
  <2>2. pc \in {"read", "parse"} => reader \in Conn
    BY ReaderStation
  <2>3. pc = "parse" /\ buf # <<>> => Head(buf) \in Tokens
    BY <2>1, TailFacts DEF ReadInv
  <2> QED
    BY <2>1, <2>2, <2>3 DEF ReadEofOfBody, ParseOpenBody, ReadInv, Tokens
<1> QED
  BY <1>1, ReadDataCauses, ReadErrorCauses, ReadEndCauses, ResponseCauses, ParseErrorCauses
     DEF Handler

-----------------------------------------------------------------------------
(* The network and the server.                                              *)

\* What they do to the socket of one connection.
LEMMA MovedCauses ==
    ASSUME IInv, WireInv, CauseInv, NEW f \in Fd, NEW u, ServerStep(f, u),
           \A d \in Conn \ unborn : fd[d] = f =>
               Announces(d)' /\ (CauseOf(d)' => CauseOf(d) \/ faults' # faults),
           faults' \in {faults, faults + 1},
           u.said /\ u.inbox = <<>> => sock[f].said /\ sock[f].inbox = <<>>
    PROVE  CauseInv'
<1>1. TypeOK /\ ConnInv /\ sock \in [Fd -> Sockets] /\ FiredSaid /\ ReadSaid
  BY DEF IInv, WireInv, CauseInv, TypeOK, SocketTypes
<1>2. /\ UNCHANGED <<fd, parser, unborn, events, fired, pc, cur, reader, buf, errors, fresh>>
      /\ sock'[f] = u /\ \A g \in Fd : g # f => sock'[g] = sock[g]
  BY <1>1 DEF ServerStep, connVars, loopVars
<1>3. \A d \in Conn : Buffered(d)' = Buffered(d)
  BY <1>2 DEF Buffered
<1>4. \A d \in Conn \ unborn : fd[d] # f =>
          (CauseOf(d)' <=> CauseOf(d)) /\ (Announces(d)' <=> Announces(d))
  <2>1. \A d \in Conn \ unborn : fd[d] \in Fd
    BY <1>1, Apart
  <2> QED
    BY <1>2, <1>3, <2>1, SameCause DEF SameSocket
<1>5. \A d \in Conn \ unborn' : Announces(d)'
  BY <1>2, <1>4 DEF CauseInv
<1>6. Stray' <=> Stray
  BY <1>2 DEF Stray, Talks
<1>7. Accounts
  <2>1. ASSUME NEW d \in Conn \ unborn, fd[d] = f PROVE Accounts
    <3>1. \A e \in Conn \ unborn : e # d => (CauseOf(e)' <=> CauseOf(e))
      BY <1>1, <1>4, <2>1, Apart
    <3>2. /\ CauseSet' \subseteq CauseSet \cup {d}
          /\ faults' = faults => CauseSet' \subseteq CauseSet
      BY <1>2, <1>6, <2>1, <3>1 DEF CauseSet
    <3> QED
      BY <1>2, <3>2 DEF Accounts
  <2>2. ASSUME \A d \in Conn \ unborn : fd[d] # f PROVE Accounts
    <3>1. CauseSet' \subseteq CauseSet
      BY <1>2, <1>4, <1>6, <2>2 DEF CauseSet
    <3> QED
      BY <1>2, <3>1 DEF Accounts
  <2> QED
    BY <2>1, <2>2
<1>8. Balanced'
  BY <1>1, <1>7, AccountsBalance DEF CauseInv
<1>9. FiredSaid'
  BY <1>1, <1>2 DEF FiredSaid
<1>10. ReadSaid'
  <2>1. pc = "read" => cur \in Fd
    BY ReaderStation DEF WireInv, ReadInv
  <2> QED
    BY <1>1, <1>2, <2>1 DEF ReadSaid
<1> QED
  BY <1>5, <1>8, <1>9, <1>10 DEF CauseInv

LEMMA AcceptCauses ==
    ASSUME IInv, WireInv, CauseInv, NEW f \in Fd, Accept(f) \/ Refuse(f)
    PROVE  CauseInv'
<1>1. PICK u : /\ ServerStep(f, u) /\ sock[f].state = "connecting"
               /\ \/ u = Socket("open") /\ faults' = faults
                  \/ u = Socket("failed") /\ faults' = faults + 1
  BY DEF Accept, Refuse, Fault, bounds
<1>2. faults \in Nat /\ ConnInv /\ sock'[f] = u /\ UNCHANGED <<fd, events>>
  BY <1>1 DEF ServerStep, connVars, IInv, WireInv, TypeOK, SocketTypes
<1>3. faults' = faults + 1 => faults' # faults
  BY <1>2
<1>4. u.said = FALSE /\ (u.state = "failed" => faults' # faults)
  BY <1>1, <1>3 DEF Socket
<1>5. ASSUME NEW d \in Conn \ unborn, fd[d] = f
      PROVE  Announces(d)' /\ (CauseOf(d)' => CauseOf(d) \/ faults' # faults)
  <2>1. ConnOk(d) /\ ~Speaks(d)
    BY <1>1, <1>2, <1>5, AlignedState, QuietSocket
       DEF ConnInv, Speaks, IsSpeaking, IsQuiet, IsInBatch
  <2>2. ~Talks(d)'
    BY <1>2, <2>1 DEF ConnOk, Connects, IsConnecting, Talks
  <2> QED
    BY <1>2, <1>4, <1>5, <2>2 DEF Announces, CauseOf
<1> QED
  BY <1>1, <1>4, <1>5, MovedCauses

LEMMA CloseCauses ==
    ASSUME IInv, WireInv, CauseInv, Orderly, NEW f \in Fd, Close(f)
    PROVE  CauseInv'
<1> DEFINE u == [sock[f] EXCEPT !.fin = TRUE]
<1>1. /\ ServerStep(f, u)
      /\ \/ sock[f].said /\ faults' = faults
         \/ faults' = faults + 1
  BY DEF Close, Fault, Orderly
<1>2. /\ faults \in Nat /\ sock[f] \in Sockets /\ sock'[f] = u
      /\ UNCHANGED <<fd, events, parser, reader, buf, cur, fresh>>
  BY <1>1 DEF ServerStep, connVars, loopVars, IInv, TypeOK, SocketTypes
<1>3. faults' = faults + 1 => faults' # faults
  BY <1>2
<1>4. u.state = sock[f].state /\ u.said = sock[f].said /\ u.inbox = sock[f].inbox
  BY <1>2 DEF Sockets
<1> HIDE DEF u
<1>5. ASSUME NEW d \in Conn \ unborn, fd[d] = f
      PROVE  Announces(d)' /\ (CauseOf(d)' => CauseOf(d) \/ faults' # faults)
  <2>1. Buffered(d)' = Buffered(d) /\ (Talks(d)' <=> Talks(d)) /\ parser'[d] = parser[d]
        /\ sock'[fd'[d]] = u
    BY <1>2, <1>5 DEF Buffered, Talks
  <2>2. Announces(d)'
    BY <1>4, <1>5, <2>1 DEF CauseInv, Announces, EndComes, Has
  <2>3. CauseOf(d)' => CauseOf(d) \/ faults' # faults
    <3>1. sock[f].said /\ Fails(u, Buffered(d), parser[d]) =>
            Fails(sock[f], Buffered(d), parser[d])
      BY <1>4 DEF Fails, EndsEarly, Has
    <3> QED
      BY <1>1, <1>3, <1>4, <1>5, <2>1, <3>1 DEF CauseOf
  <2> QED
    BY <2>2, <2>3
<1> QED
  BY <1>1, <1>4, <1>5, MovedCauses

LEMMA ResetCauses ==
    ASSUME IInv, WireInv, CauseInv, NEW f \in Fd, Reset(f)
    PROVE  CauseInv'
<1>1. /\ ServerStep(f, Socket("failed")) /\ faults' = faults + 1
  BY DEF Reset, Fault
<1>2. /\ faults \in Nat /\ sock'[f] = Socket("failed") /\ UNCHANGED fd
  BY <1>1 DEF ServerStep, connVars, IInv, TypeOK, SocketTypes
<1>3. faults' # faults
  BY <1>1, <1>2
<1>4. Socket("failed").state = "failed" /\ Socket("failed").said = FALSE
  BY DEF Socket
<1>5. ASSUME NEW d \in Conn \ unborn, fd[d] = f
      PROVE  Announces(d)'
  BY <1>2, <1>4, <1>5 DEF Announces
<1> QED
  BY <1>1, <1>3, <1>4, <1>5, MovedCauses

LEMMA AnswerCauses ==
    ASSUME IInv, WireInv, CauseInv, Orderly, NEW f \in Fd, NEW kind \in ReplyKinds, Reply(f, kind)
    PROVE  CauseInv'
<1> DEFINE s == sock[f]
           u == Answered(s, kind)
<1>1. /\ kind \in Tokens /\ s.state = "open" /\ ~s.fin /\ s.owed > 0
      /\ ServerStep(f, u)
  BY PeersAnswer DEF IInv
<1>2. \/ faults' = faults + 1
      \/ faults' = faults /\ ~s.said /\ kind # "bad"
  BY DEF Reply, Fault, Orderly
<1>3. /\ faults \in Nat /\ s \in Sockets /\ SocketOk(s) /\ sock'[f] = u
      /\ UNCHANGED <<fd, events, parser, reader, buf, cur, fresh>>
      /\ TypeOK /\ ConnInv /\ SocketsInv /\ buf \in Seq(Tokens)
  BY <1>1 DEF ServerStep, connVars, loopVars, IInv, WireInv, SocketsInv, ReadInv, TypeOK, SocketTypes
<1>4. faults' = faults + 1 => faults' # faults
  BY <1>3
<1>5. ServerMoves(s, u)
  BY <1>1 DEF ServerMoves, Answered
<1>6. u = Answered(s, kind)
  OBVIOUS
<1> HIDE DEF u
<1>7. u.inbox # <<>> /\ u.state = s.state
  <2>1. u.inbox = Append(s.inbox, kind) /\ u.state = s.state
    BY <1>3, <1>6 DEF Sockets, Answered
  <2> QED
    BY <1>1, <1>3, <2>1, AppendFacts DEF SocketOk
<1>8. ASSUME NEW d \in Conn \ unborn, fd[d] = f
      PROVE  Announces(d)' /\ (CauseOf(d)' => CauseOf(d) \/ faults' # faults)
  <2> DEFINE b == Buffered(d)
             p == parser[d]
  <2>1. Talks(d)
    BY <1>3, <1>5, <1>8, MovedStation DEF IsSending, Talks
  <2>2. Buffered(d)' = b /\ Talks(d)' /\ parser'[d] = p /\ sock'[fd'[d]] = u
    BY <1>3, <1>8, <2>1 DEF Buffered, Talks
  <2>3. p = "dead" \/ EndComes(s, b) => s.said
    BY <1>1, <1>8, <2>1 DEF CauseInv, Announces
  <2>4. /\ p = "dead" \/ EndComes(u, b) => u.said
        /\ ~s.said /\ kind # "bad" /\ ~s.fin => (Fails(u, b, p) => Fails(s, b, p))
    <3>1. s \in Sockets /\ s.inbox \in Seq(Tokens) /\ kind \in Tokens
      BY <1>1, <1>3 DEF SocketOk
    <3> HIDE DEF b, p, s
    <3>2. /\ p = "dead" \/ EndComes(u, b) => u.said
          /\ u.inbox # <<>> /\ u.state = s.state
          /\ ~s.said /\ kind # "bad" /\ ~s.fin => (Fails(u, b, p) => Fails(s, b, p))
      BY <1>6, <2>3, <3>1, ReplyFails
    <3> QED
      BY <3>2
  <2> HIDE DEF b, p
  <2>5. Announces(d)'
    BY <2>2, <2>4 DEF Announces
  <2>6. CauseOf(d)' => CauseOf(d) \/ faults' # faults
    BY <1>1, <1>2, <1>4, <1>7, <1>8, <2>1, <2>2, <2>4 DEF CauseOf, b, p
  <2> QED
    BY <2>5, <2>6
<1> QED
  BY <1>1, <1>2, <1>7, <1>8, MovedCauses

\* A step of the clock, or none.
LEMMA ClockCauses ==
    ASSUME IInv, WireInv, CauseInv, UNCHANGED vars \/ Expire \/ \E c \in Conn : BecomeDue(c)
    PROVE  CauseInv'
<1>1. UNCHANGED <<fd, parser, unborn, errors, faults, sock, events, fired, cur, fresh, pc, reader, buf>>
  BY DEF vars, Expire, BecomeDue, connVars, loopVars, bounds
<1>2. Balanced' /\ \A d \in Conn \ unborn' : Announces(d)'
  <2>1. \A d \in Conn : Buffered(d)' = Buffered(d)
    BY <1>1 DEF Buffered
  <2>2. Stray' => Stray
    BY <1>1 DEF Stray, Talks
  <2> QED
    BY <1>1, <2>1, <2>2, NothingSettles DEF IInv
<1>3. FiredSaid' /\ ReadSaid'
  BY <1>1 DEF CauseInv, FiredSaid, ReadSaid
<1> QED
  BY <1>2, <1>3 DEF CauseInv

LEMMA EnvironmentCauses ==
    ASSUME IInv, WireInv, CauseInv, Orderly, Environment
    PROVE  CauseInv'
BY AcceptCauses, CloseCauses, ResetCauses, AnswerCauses, ClockCauses DEF Environment

-----------------------------------------------------------------------------
(* The account is always balanced.                                          *)

LEMMA InitCauses == Init => CauseInv
<1> SUFFICES ASSUME Init PROVE CauseInv
  OBVIOUS
<1>1. FiredSaid /\ ReadSaid /\ \A c \in Conn \ unborn : Announces(c)
  BY DEF Init, FiredSaid, ReadSaid
<1>2. CauseSet = {}
  BY DEF Init, CauseSet, Stray
<1>3. Balanced
  <2>1. IsFiniteSet({}) /\ Cardinality({}) = 0
    BY FS_EmptySet
  <2>2. errors.connect = 0 /\ errors.read = 0 /\ errors.write = 0 /\ faults = 0
    BY DEF Init
  <2> QED
    BY <1>2, <2>1, <2>2 DEF Balanced
<1> QED
  BY <1>1, <1>3 DEF CauseInv

LEMMA CauseStep ==
    ASSUME Orderly, IInv, WireInv, TlsInv, CauseInv, [Next]_vars
    PROVE  CauseInv'
BY HandlerCauses, LoopCauses, EnvironmentCauses, ClockCauses DEF Next, Done

\* Every error that wrk.c counts (errors.connect, .read and .write) stands for a
\* fault of the network or the server that no other error was counted for.
THEOREM Causes ==
    ASSUME Orderly
    PROVE  Spec => []ErrorsHaveCauses
<1>1. Init => CauseInv
  BY InitCauses
<1>2. IInv /\ WireInv /\ TlsInv /\ CauseInv /\ [Next]_vars => CauseInv'
  BY CauseStep
<1>3. IInv /\ CauseInv => ErrorsHaveCauses
  <2> SUFFICES ASSUME IInv, CauseInv PROVE ErrorsHaveCauses
    OBVIOUS
  <2> DEFINE total == errors.connect + errors.read + errors.write
             n == Cardinality(CauseSet)
  <2>1. total \in Nat /\ faults \in Nat
    BY DEF IInv, TypeOK, SocketTypes
  <2>2. n \in Nat /\ total + n <= faults
    BY FS_CardinalityType DEF CauseInv, Balanced
  <2> HIDE DEF n, total
  <2>3. total <= faults
    BY <2>1, <2>2
  <2> QED
    BY <2>3 DEF ErrorsHaveCauses, total
<1> QED
  BY <1>1, <1>2, <1>3, Invariant, Stations, PTL DEF Spec
=============================================================================
