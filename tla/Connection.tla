----------------------------- MODULE Connection -----------------------------
(***************************************************************************)
(* One worker thread of wrk: its connections, its event loop and the peer  *)
(* they talk to (src/src/wrk.c, src/src/net.c, src/src/ssl.c, the dispatch *)
(* of src/src/ae.c).  Handlers run one at a time on the thread; the server *)
(* and the clock move between any two of their steps.                      *)
(*                                                                         *)
(* A request is ReqLen chunks, a batch is Pipeline requests.  A response   *)
(* is a single token that names how it ends; a socket carries a sequence   *)
(* of them.  Time is reduced to due[c]: whether usec_to_next_send(c) would *)
(* return 0 now (module Pacing models the computation).                    *)
(***************************************************************************)
EXTENDS Integers, Sequences, FiniteSets, AeEvents

CONSTANTS
    Conn,         \* the connections of the thread
    Fd,           \* descriptor numbers socket() may return
    NoFd, NoConn, \* c->fd before the first successful connect; no connection
    Pipeline,     \* cfg.pipeline: requests in a batch
    ReqLen,       \* chunks of one request; write() may take any number of them
    RecvBuf,      \* RECVBUF, in responses
    Word,         \* 2^64: c->pending is a uint64_t
    Tls,          \* cfg.ctx # NULL: the sock functions are those of ssl.c
    Record,       \* chunks in a TLS record of full size
    Replies,      \* kinds of response the server gives
    Faults,       \* what may go wrong outside the program
    MaxReplies,   \* bound: responses the server sends in a behaviour
    MaxFaults     \* bound: faults in a behaviour

ReplyKinds == {"keep", "close", "untilEof", "interim", "bad"}
FaultKinds == {"refuse", "noSocket", "idleClose", "drop", "talkOn", "garbage", "early",
              "noLength"}

ASSUME ConnectionAssumption ==
    /\ Pipeline \in Nat \ {0} /\ ReqLen \in Nat \ {0} /\ RecvBuf \in Nat \ {0}
    /\ Record \in Nat \ {0}
    /\ Word \in Nat /\ Pipeline < Word
    /\ Tls \in BOOLEAN
    /\ Replies \subseteq ReplyKinds /\ Faults \subseteq FaultKinds
    /\ MaxReplies \in Nat /\ MaxFaults \in Nat
    /\ NoFd \notin Fd /\ NoConn \notin Conn

Length == Pipeline * ReqLen      \* c->length: the batch is one buffer

VARIABLES
    fd,             \* c->fd; keeps the old number when a reconnect fails
    written,        \* chunks of the batch sent: c->written, except over TLS (see AtStart)
    pending,        \* c->pending
    has_pending,    \* c->has_pending
    complete,       \* c->complete
    batchStart,     \* c->complete_at_last_batch_start
    parser,         \* state of c->parser between two messages
    due,            \* usec_to_next_send(c) = 0
    unborn,         \* connections whose delayed_initial_connect timer is set
    timers,         \* delay_request timers outstanding for each connection
    events,         \* loop->events
    fired,          \* directions epoll_wait reported, not yet dispatched
    pc,             \* where the loop is
    cur, rfired,    \* descriptor being dispatched; did its readable handler run
    reader,         \* connection inside socket_readable, or NoConn
    buf, again,     \* responses read, not yet parsed; n == RECVBUF
    stop,           \* loop->stop
    expired,        \* now >= thread->stop_at
    errors,         \* thread->errors
    sock,           \* the kernel's sockets and the server behind each of them
    replies, faults,  \* how much of the two bounds is used
    fresh,          \* history: descriptors opened since the last poll
    lastBatch       \* history: c->complete when the latest batch began

connVars == <<fd, written, pending, has_pending, complete, batchStart, parser>>
pace == <<due, expired>>
loopVars == <<fired, pc, cur, rfired, reader, buf, again, stop>>
bounds == <<replies, faults>>
vars == <<connVars, pace, unborn, timers, events, loopVars, errors, sock, bounds,
          fresh, lastBatch>>

-----------------------------------------------------------------------------
(* Sockets.  owed: complete requests not answered; rx: chunks of the next   *)
(* request received; said: the server announced the end of the connection; *)
(* garbled: a request arrived that does not start where one should.  owed is *)
(* -1 while the request being received has been answered already.           *)
Socket(state) == [state |-> state, inbox |-> <<>>, owed |-> 0, rx |-> 0, fin |-> FALSE,
                  said |-> FALSE, garbled |-> FALSE]
Closed == Socket("closed")
Live(f) == sock[f].state = "open"
Idle(f) == sock[f].owed <= 0 /\ sock[f].rx = 0

\* What a descriptor is ready for.
Ready(f) ==
    CASE sock[f].state = "failed" -> RW
      [] Live(f) -> {W} \cup (IF sock[f].inbox # <<>> \/ sock[f].fin THEN {R} ELSE {})
      [] OTHER -> {}

\* What epoll_wait reports of it: what the loop has asked for, and errors
\* (EPOLLERR and EPOLLHUP) as writability, asked for or not.
Reported(f) ==
    IF events[f].mask = {} THEN {}
    ELSE (Ready(f) \cap events[f].mask) \cup (IF sock[f].state = "failed" THEN {W} ELSE {})

\* aeCreateFileEvent: epoll_ctl refuses a descriptor that is not open.
Register(table, sk, f, mask, proc, c) ==
    IF f \in Fd /\ sk[f] # Closed THEN aeCreateFileEvent(table, f, mask, proc, c)
                                  ELSE table

CountError(err, kind) == [err EXCEPT ![kind] = @ + 1]

\* connect_socket: a new socket on some free descriptor, watched in both
\* directions; or a failure, which is counted and leaves c->fd as it was.
connect_socket(c, table, sk, err) ==
    \/ \E f \in Fd :
         /\ sk[f] = Closed
         /\ sock' = [sk EXCEPT ![f] = Socket("connecting")]
         /\ fd' = [fd EXCEPT ![c] = f]
         /\ events' = aeCreateFileEvent(table, f, RW, "socket_connected", c)
         /\ fresh' = fresh \cup {f}
         /\ errors' = err
         /\ UNCHANGED faults
    \/ /\ "noSocket" \in Faults /\ faults < MaxFaults
       /\ faults' = faults + 1
       /\ errors' = CountError(err, "connect")
       /\ sock' = sk /\ events' = table
       /\ UNCHANGED <<fd, fresh>>

\* Mutant: the registration survives the close.
reconnect_socket_KeepsEvents(c, err) ==
    connect_socket(c, events, [sock EXCEPT ![fd[c]] = Closed], err)

\* reconnect_socket: forget the events of c->fd, close it, connect again.
\* Timers set for c stay.
reconnect_socket(c, err) ==
    connect_socket(c, aeDeleteFileEvent(events, fd[c], RW),
                   [sock EXCEPT ![fd[c]] = Closed], err)

-----------------------------------------------------------------------------
(* The handlers.  Each leaves pc, cur and fired to the dispatcher.          *)

\* A new socket starts with the first byte of a batch.  Mutant: it continues
\* where the last one stopped.
WriteFromStart_Continued(c) == written
WriteFromStart(c) == [written EXCEPT ![c] = 0]

\* socket_connected.  Plain connect always succeeds here, even on a socket
\* that was refused; SSL_connect may want more or fail.
HandshakeDone(f, c) ==
    /\ Tls => Live(f)
    /\ parser' = [parser EXCEPT ![c] = "start"]
    /\ written' = WriteFromStart(c)
    /\ events' = Register(Register(events, sock, f, {R}, "socket_readable", c),
                          sock, f, {W}, "socket_writeable", c)
    /\ UNCHANGED <<fd, pending, has_pending, complete, batchStart, timers, errors,
                   sock, faults, fresh, lastBatch>>

HandshakeRetry(f, c) ==
    /\ Tls /\ Live(f) /\ ~sock[f].fin
    /\ UNCHANGED <<connVars, timers, events, errors, sock, faults, fresh, lastBatch>>

HandshakeError(f, c) ==
    /\ Tls /\ (~Live(f) \/ sock[f].fin)
    /\ reconnect_socket(c, CountError(errors, "connect"))
    /\ UNCHANGED <<written, pending, has_pending, complete, batchStart, parser, timers,
                   lastBatch>>

socket_connected(f, c) == HandshakeDone(f, c) \/ HandshakeRetry(f, c) \/ HandshakeError(f, c)

\* c->written = 0.  SSL_write reports success for the whole buffer only: until
\* then c->written stays 0, whatever records of the batch are sent already.
AtStart(c) == Tls \/ written[c] = 0

\* Mutant: the timer is set and writability is watched as well.
DelayBatch_KeepsWatching(f, c) ==
    /\ AtStart(c) /\ ~due[c]
    /\ timers' = [timers EXCEPT ![c] = @ + 1]
    /\ UNCHANGED <<connVars, events, errors, sock, faults, fresh, lastBatch>>

\* socket_writeable at the start of a batch that is not due yet: stop watching
\* for writability and set a timer instead.
DelayBatch(f, c) ==
    /\ AtStart(c) /\ ~due[c]
    /\ events' = aeDeleteFileEvent(events, f, {W})
    /\ timers' = [timers EXCEPT ![c] = @ + 1]
    /\ UNCHANGED <<connVars, errors, sock, faults, fresh, lastBatch>>

\* Mutant: done at every write of the batch.
BeginBatch_EveryWrite(c) ==
    /\ pending' = [pending EXCEPT ![c] = Pipeline]
    /\ has_pending' = [has_pending EXCEPT ![c] = TRUE]
    /\ batchStart' = IF has_pending[c] THEN batchStart
                     ELSE [batchStart EXCEPT ![c] = complete[c]]
    /\ lastBatch' = [lastBatch EXCEPT ![c] = complete[c]]

\* The bookkeeping at the start of a batch, done before write() is tried, and
\* again at every retry of SSL_write.
BeginBatch(c) ==
    IF AtStart(c)
    THEN /\ pending' = [pending EXCEPT ![c] = Pipeline]
         /\ has_pending' = [has_pending EXCEPT ![c] = TRUE]
         /\ batchStart' = IF has_pending[c] THEN batchStart
                          ELSE [batchStart EXCEPT ![c] = complete[c]]
         /\ lastBatch' = [lastBatch EXCEPT ![c] = complete[c]]
    ELSE UNCHANGED <<pending, has_pending, batchStart, lastBatch>>

\* The server's end after n chunks that started at offset `from` of the batch.
Received(s, n) == (s.rx + n) \div ReqLen
Receive(s, from, n) ==
    IF s.fin THEN s
    ELSE [s EXCEPT !.rx = (s.rx + n) % ReqLen,
                   !.owed = @ + Received(s, n),
                   !.garbled = @ \/ from % ReqLen # s.rx]

\* Is the batch written when n more chunks are?  Mutant: one too far.
BatchWritten_OneTooFar(c, n) == written[c] + n > Length
BatchWritten(c, n) == written[c] + n = Length

Send(c) == ~AtStart(c) \/ due[c]

WriteSome(f, c) ==
    /\ Send(c) /\ Live(fd[c])
    /\ BeginBatch(c)
    /\ \E n \in 1..(Length - written[c]) :
         /\ Tls => n = Length - written[c]
         /\ sock' = [sock EXCEPT ![fd[c]] = Receive(@, written[c], n)]
         /\ IF BatchWritten(c, n)
            THEN /\ written' = [written EXCEPT ![c] = 0]
                 /\ events' = aeDeleteFileEvent(events, f, {W})
            ELSE /\ written' = [written EXCEPT ![c] = @ + n]
                 /\ UNCHANGED events
    /\ UNCHANGED <<fd, complete, parser, timers, errors, faults, fresh>>

\* SSL_write wants more.  It may have sent some whole records of the batch and
\* keeps the rest.  (A plain socket reported writable does not block.)
WriteRetry(f, c) ==
    /\ Tls /\ Send(c) /\ Live(fd[c])
    /\ BeginBatch(c)
    /\ \/ UNCHANGED <<written, sock>>
       \/ \E n \in 1..(Length - written[c] - 1) :
            /\ (written[c] + n) % Record = 0
            /\ sock' = [sock EXCEPT ![fd[c]] = Receive(@, written[c], n)]
            /\ written' = [written EXCEPT ![c] = @ + n]
    /\ UNCHANGED <<fd, complete, parser, timers, events, errors, faults, fresh>>

WriteError(f, c) ==
    /\ Send(c) /\ ~Live(fd[c])
    /\ BeginBatch(c)
    /\ reconnect_socket(c, CountError(errors, "write"))
    /\ UNCHANGED <<written, complete, parser, timers>>

socket_writeable(f, c) ==
    DelayBatch(f, c) \/ WriteSome(f, c) \/ WriteRetry(f, c) \/ WriteError(f, c)

\* response_complete, after the deadline: only the loop is told to stop.
LastResponse(c, state) ==
    /\ expired
    /\ stop' = TRUE
    /\ parser' = [parser EXCEPT ![c] = state]
    /\ UNCHANGED <<fd, written, pending, has_pending, complete, batchStart, due, events,
                   errors, sock, faults, fresh>>

\* When no response of the batch is left, has_pending is cleared and the
\* connection watches for writability.  Mutants: it does not.
PendingAfter_NeverCleared(c, left) == has_pending
PendingAfter(c, left) == IF left = 0 THEN [has_pending EXCEPT ![c] = FALSE] ELSE has_pending

EventsAfter_Unchanged(c, left) == events
EventsAfter(c, left) ==
    IF left = 0 THEN Register(events, sock, fd[c], {W}, "socket_writeable", c) ELSE events

\* response_complete before the deadline: count the response and reconnect if
\* it ends the connection.  Whether the next batch is due is decided afresh.
NextResponse(c, state, keepAlive) ==
    LET left == (pending[c] + Word - 1) % Word IN
    /\ ~expired
    /\ complete' = [complete EXCEPT ![c] = @ + 1]
    /\ due' = [due EXCEPT ![c] = FALSE]
    /\ pending' = [pending EXCEPT ![c] = left]
    /\ has_pending' = PendingAfter(c, left)
    /\ IF keepAlive
       THEN /\ parser' = [parser EXCEPT ![c] = "start"]
            /\ events' = EventsAfter(c, left)
            /\ UNCHANGED <<fd, errors, sock, faults, fresh>>
       ELSE /\ parser' = [parser EXCEPT ![c] = state]
            /\ reconnect_socket(c, errors)
    /\ UNCHANGED <<written, batchStart, stop>>

response_complete(c, state, keepAlive) ==
    LastResponse(c, state) \/ NextResponse(c, state, keepAlive)

-----------------------------------------------------------------------------
(* socket_readable is a loop of read() and http_parser_execute().           *)

\* Leaving socket_readable, by return or by its error exit.
ReturnFromRead ==
    /\ pc' = "writable" /\ buf' = <<>> /\ again' = FALSE
    /\ reader' = NoConn
    /\ UNCHANGED <<fired, cur, rfired, stop>>

ReadFails ==
    /\ ReturnFromRead
    /\ reconnect_socket(reader, CountError(errors, "read"))
    /\ UNCHANGED <<written, pending, has_pending, complete, batchStart, pace, unborn, timers,
                   replies, lastBatch>>

ReadAtEof == sock[fd[reader]].fin /\ sock[fd[reader]].inbox = <<>>

\* read() returned bytes.
ReadData ==
    /\ pc = "read" /\ Live(fd[reader]) /\ sock[fd[reader]].inbox # <<>>
    /\ LET in == sock[fd[reader]].inbox
           n  == IF Len(in) < RecvBuf THEN Len(in) ELSE RecvBuf
       IN /\ buf' = SubSeq(in, 1, n)
          /\ again' = (n = RecvBuf)
          /\ sock' = [sock EXCEPT ![fd[reader]].inbox = SubSeq(in, n + 1, Len(in))]
    /\ pc' = "parse"
    /\ UNCHANGED <<connVars, pace, unborn, timers, events, fired, cur, rfired, reader, stop,
                   errors, bounds, fresh, lastBatch>>

\* read() returned 0 in the middle of a body that ends with the stream: the
\* response is complete, and response_complete reconnects.
ReadEofOfBody ==
    /\ pc = "read" /\ Live(fd[reader]) /\ ReadAtEof /\ ~Tls
    /\ parser[reader] = "untilEof"
    /\ pc' = "eof"
    /\ response_complete(reader, "untilEof", FALSE)
    /\ UNCHANGED <<expired, unborn, timers, fired, cur, rfired, reader, buf, again, replies,
                   lastBatch>>

\* Every other outcome of read(): end of stream, a socket error, EAGAIN on a
\* plain socket, an SSL error; and the READ_EOF that follows ReadEofOfBody.
ReadError ==
    /\ \/ pc = "eof"
       \/ /\ pc = "read"
          /\ \/ ~Live(fd[reader])
             \/ sock[fd[reader]].inbox = <<>> /\ ~sock[fd[reader]].fin /\ ~Tls
             \/ ReadAtEof /\ (Tls \/ parser[reader] # "untilEof")
    /\ ReadFails
    /\ UNCHANGED parser

\* SSL_read wants more: a record is not complete.
ReadRetry ==
    /\ pc = "read" /\ Tls /\ Live(fd[reader]) /\ ~ReadAtEof
    /\ ReturnFromRead
    /\ UNCHANGED <<connVars, pace, unborn, timers, events, errors, sock, bounds, fresh, lastBatch>>

\* http_should_keep_alive, for a response that is complete in the buffer.
\* Mutant: the answer is always yes.
KeepAlive_Always(kind) == TRUE
KeepAlive(kind) == kind # "close"

\* http_parser_execute reaches the end of a response in the buffer.
ParseResponse ==
    /\ pc = "parse" /\ buf # <<>>
    /\ Head(buf) \in {"keep", "interim", "close"}
    /\ parser[reader] = "start"
    /\ buf' = Tail(buf)
    /\ IF KeepAlive(Head(buf)) THEN response_complete(reader, "start", TRUE)
                               ELSE response_complete(reader, "dead", FALSE)
    /\ UNCHANGED <<expired, unborn, timers, fired, pc, cur, rfired, reader, again, replies,
                   lastBatch>>

\* A body without a length: everything up to the end of stream belongs to it.
ParseOpenBody ==
    /\ pc = "parse" /\ buf # <<>>
    /\ parser[reader] = "untilEof" \/ (parser[reader] = "start" /\ Head(buf) = "untilEof")
    /\ parser' = [parser EXCEPT ![reader] = "untilEof"]
    /\ buf' = Tail(buf)
    /\ UNCHANGED <<fd, written, pending, has_pending, complete, batchStart, pace, unborn,
                   timers, events, fired, pc, cur, rfired, reader, again, stop, errors,
                   sock, bounds, fresh, lastBatch>>

\* Not HTTP, or bytes after a response that closed the connection.
ParseError ==
    /\ pc = "parse" /\ buf # <<>>
    /\ parser[reader] = "dead" \/ (parser[reader] = "start" /\ Head(buf) = "bad")
    /\ ReadFails
    /\ parser' = [parser EXCEPT ![reader] = "dead"]

\* The buffer is parsed: read again if it was full and more is waiting.
ParseEnd ==
    /\ pc = "parse" /\ buf = <<>>
    /\ IF again /\ Live(fd[reader]) /\ sock[fd[reader]].inbox # <<>>
       THEN /\ pc' = "read" /\ again' = FALSE
            /\ UNCHANGED <<fired, cur, rfired, reader, buf, stop>>
       ELSE ReturnFromRead
    /\ UNCHANGED <<connVars, pace, unborn, timers, events, errors, sock, bounds, fresh, lastBatch>>

-----------------------------------------------------------------------------
(* aeMain and aeProcessEvents.                                              *)

Poll ==
    /\ pc = "poll"
    /\ fired' = [f \in Fd |-> Reported(f)]
    /\ fresh' = {}
    /\ pc' = "dispatch"
    /\ UNCHANGED <<connVars, pace, unborn, timers, events, cur, rfired, reader, buf, again,
                   stop, errors, sock, bounds, lastBatch>>

\* A fired descriptor whose readable handler is to run.
DispatchReadable(f) ==
    /\ pc = "dispatch" /\ fired[f] # {}
    /\ RunsRead(events[f], fired[f])
    /\ cur' = f /\ rfired' = TRUE
    /\ IF events[f].rproc = "socket_connected"
       THEN /\ socket_connected(f, events[f].data)
            /\ pc' = "writable"
            /\ UNCHANGED reader
       ELSE /\ reader' = events[f].data
            /\ pc' = "read"
            /\ UNCHANGED <<connVars, timers, events, errors, sock, faults, fresh, lastBatch>>
    /\ UNCHANGED <<pace, unborn, fired, buf, again, stop, replies>>

DispatchNotReadable(f) ==
    /\ pc = "dispatch" /\ fired[f] # {}
    /\ ~RunsRead(events[f], fired[f])
    /\ cur' = f /\ rfired' = FALSE /\ pc' = "writable"
    /\ UNCHANGED <<connVars, pace, unborn, timers, events, fired, reader, buf, again, stop,
                   errors, sock, bounds, fresh, lastBatch>>

DispatchWritable ==
    /\ pc = "writable"
    /\ RunsWrite(events[cur], fired[cur], rfired)
    /\ IF events[cur].wproc = "socket_connected"
       THEN socket_connected(cur, events[cur].data)
       ELSE socket_writeable(cur, events[cur].data)
    /\ fired' = [fired EXCEPT ![cur] = {}]
    /\ pc' = "dispatch" /\ cur' = NoFd /\ rfired' = FALSE
    /\ UNCHANGED <<pace, unborn, reader, buf, again, stop, replies>>

DispatchNotWritable ==
    /\ pc = "writable"
    /\ ~RunsWrite(events[cur], fired[cur], rfired)
    /\ fired' = [fired EXCEPT ![cur] = {}]
    /\ pc' = "dispatch" /\ cur' = NoFd /\ rfired' = FALSE
    /\ UNCHANGED <<connVars, pace, unborn, timers, events, reader, buf, again, stop, errors,
                   sock, bounds, fresh, lastBatch>>

EndDispatch ==
    /\ pc = "dispatch" /\ \A f \in Fd : fired[f] = {}
    /\ pc' = "timers"
    /\ UNCHANGED <<connVars, pace, unborn, timers, events, fired, cur, rfired, reader, buf,
                   again, stop, errors, sock, bounds, fresh, lastBatch>>

\* processTimeEvents runs any of the timers: which of them have expired is
\* not tracked, and a backward clock step makes all of them run.
delayed_initial_connect(c) ==
    /\ pc = "timers" /\ c \in unborn
    /\ unborn' = unborn \ {c}
    /\ connect_socket(c, events, sock, errors)
    /\ UNCHANGED <<written, pending, has_pending, complete, batchStart, parser, pace, timers,
                   loopVars, replies, lastBatch>>

\* Mutant: the timer ends without watching for writability.
delay_request_Forgets(c) ==
    /\ pc = "timers" /\ timers[c] > 0 /\ due[c]
    /\ timers' = [timers EXCEPT ![c] = @ - 1]
    /\ UNCHANGED <<connVars, pace, unborn, events, loopVars, errors, sock, bounds, fresh,
                   lastBatch>>

\* Still not time: the timer is set again, which changes nothing here.
delay_request(c) ==
    /\ pc = "timers" /\ timers[c] > 0 /\ due[c]
    /\ timers' = [timers EXCEPT ![c] = @ - 1]
    /\ events' = Register(events, sock, fd[c], {W}, "socket_writeable", c)
    /\ UNCHANGED <<connVars, pace, unborn, loopVars, errors, sock, bounds, fresh, lastBatch>>

\* check_timeouts stops the loop after the deadline.
check_timeouts ==
    /\ pc = "timers" /\ expired /\ ~stop
    /\ stop' = TRUE
    /\ UNCHANGED <<connVars, pace, unborn, timers, events, fired, pc, cur, rfired, reader, buf,
                   again, errors, sock, bounds, fresh, lastBatch>>

\* Mutant: aeMain clears loop->stop at every pass.
EndTimers_ClearsStop ==
    /\ pc = "timers"
    /\ pc' = "poll" /\ stop' = FALSE
    /\ UNCHANGED <<connVars, pace, unborn, timers, events, fired, cur, rfired, reader, buf,
                   again, errors, sock, bounds, fresh, lastBatch>>

\* aeMain looks at loop->stop between two passes.
EndTimers ==
    /\ pc = "timers"
    /\ pc' = IF stop THEN "done" ELSE "poll"
    /\ UNCHANGED <<connVars, pace, unborn, timers, events, fired, cur, rfired, reader, buf,
                   again, stop, errors, sock, bounds, fresh, lastBatch>>

-----------------------------------------------------------------------------
(* Outside the program: the clock, the network and the server.              *)

ServerStep(f, s) ==
    /\ sock' = [sock EXCEPT ![f] = s]
    /\ UNCHANGED <<connVars, pace, unborn, timers, events, loopVars, errors, fresh, lastBatch>>

Fault(kind) == kind \in Faults /\ faults < MaxFaults /\ faults' = faults + 1

Accept(f) ==
    /\ sock[f].state = "connecting"
    /\ ServerStep(f, Socket("open"))
    /\ UNCHANGED bounds

Refuse(f) ==
    /\ sock[f].state = "connecting" /\ Fault("refuse")
    /\ ServerStep(f, Socket("failed"))
    /\ UNCHANGED replies

Reply(f, kind) ==
    /\ Live(f) /\ ~sock[f].fin /\ replies < MaxReplies
    /\ kind \in Replies
    /\ \/ sock[f].owed > 0 /\ sock[f].said /\ Fault("talkOn")
       \/ sock[f].owed > 0 /\ ~sock[f].said /\ kind = "bad" /\ Fault("garbage")
       \/ sock[f].owed > 0 /\ ~sock[f].said /\ kind = "untilEof" /\ Fault("noLength")
       \/ sock[f].owed > 0 /\ ~sock[f].said /\ kind \notin {"bad", "untilEof"} /\ UNCHANGED faults
       \/ sock[f].owed = 0 /\ sock[f].rx > 0 /\ kind = "keep" /\ Fault("early")
    /\ replies' = replies + 1
    /\ ServerStep(f, [sock[f] EXCEPT
                        !.inbox = Append(@, kind),
                        !.owed = IF kind = "interim" THEN @ ELSE @ - 1,
                        !.said = @ \/ kind \in {"close", "untilEof"}])

\* The server closes its end, after having said so or at a time of its own.
Close(f) ==
    /\ Live(f) /\ ~sock[f].fin
    /\ \/ sock[f].said /\ UNCHANGED faults
       \/ Idle(f) /\ ~sock[f].said /\ Fault("idleClose")
       \/ ~Idle(f) /\ ~sock[f].said /\ Fault("drop")
    /\ ServerStep(f, [sock[f] EXCEPT !.fin = TRUE])
    /\ UNCHANGED replies

\* The connection is reset: what was not read yet is lost.
Reset(f) ==
    /\ Live(f)
    /\ \/ Idle(f) /\ ~sock[f].said /\ Fault("idleClose")
       \/ (~Idle(f) \/ sock[f].said) /\ Fault("drop")
    /\ ServerStep(f, Socket("failed"))
    /\ UNCHANGED replies

BecomeDue(c) ==
    /\ ~due[c]
    /\ due' = [due EXCEPT ![c] = TRUE]
    /\ UNCHANGED <<connVars, expired, unborn, timers, events, loopVars, errors, sock, bounds,
                   fresh, lastBatch>>

Expire ==
    /\ ~expired
    /\ expired' = TRUE
    /\ UNCHANGED <<connVars, due, unborn, timers, events, loopVars, errors, sock, bounds,
                   fresh, lastBatch>>

-----------------------------------------------------------------------------
Init ==
    /\ fd = [c \in Conn |-> NoFd]
    /\ written = [c \in Conn |-> 0]
    /\ pending = [c \in Conn |-> 0]
    /\ has_pending = [c \in Conn |-> FALSE]
    /\ complete = [c \in Conn |-> 0]
    /\ batchStart = [c \in Conn |-> 0]
    /\ parser = [c \in Conn |-> "start"]
    /\ due = [c \in Conn |-> TRUE]
    /\ unborn = Conn
    /\ timers = [c \in Conn |-> 0]
    /\ events = [f \in Fd |-> NoEvent("socket_connected", NoConn)]
    /\ fired = [f \in Fd |-> {}]
    /\ pc = "poll"
    /\ cur = NoFd /\ rfired = FALSE
    /\ reader = NoConn /\ buf = <<>> /\ again = FALSE
    /\ stop = FALSE /\ expired = FALSE
    /\ errors = [connect |-> 0, read |-> 0, write |-> 0]
    /\ sock = [f \in Fd |-> Closed]
    /\ replies = 0 /\ faults = 0
    /\ fresh = {}
    /\ lastBatch = [c \in Conn |-> 0]

Handler ==
    \/ ReadData \/ ReadEofOfBody \/ ReadError \/ ReadRetry
    \/ ParseResponse \/ ParseOpenBody \/ ParseError \/ ParseEnd

Loop ==
    \/ Poll \/ EndDispatch \/ EndTimers \/ check_timeouts
    \/ DispatchWritable \/ DispatchNotWritable
    \/ \E f \in Fd : DispatchReadable(f) \/ DispatchNotReadable(f)
    \/ \E c \in Conn : delayed_initial_connect(c) \/ delay_request(c)

Environment ==
    \/ \E f \in Fd : Accept(f) \/ Refuse(f) \/ Close(f) \/ Reset(f)
    \/ \E f \in Fd, kind \in ReplyKinds : Reply(f, kind)
    \/ \E c \in Conn : BecomeDue(c)
    \/ Expire

\* aeMain has returned.
Done == pc = "done" /\ UNCHANGED vars

Next == Handler \/ Loop \/ Environment \/ Done

Spec == Init /\ [][Next]_vars

-----------------------------------------------------------------------------
(* Properties.                                                              *)

SocketStates == {"closed", "connecting", "open", "failed"}
Handlers == {"socket_connected", "socket_readable", "socket_writeable"}
Entries == [mask : SUBSET RW, rproc : Handlers, wproc : Handlers, data : Conn \cup {NoConn}]
Sockets == [state : SocketStates, inbox : Seq(ReplyKinds), owed : Int, rx : 0..ReqLen - 1,
            fin : BOOLEAN, said : BOOLEAN, garbled : BOOLEAN]

\* What socket_connected, socket_writeable and response_complete write.
BatchTypes ==
    /\ written \in [Conn -> 0..Length - 1]
    /\ pending \in [Conn -> 0..Word - 1]
    /\ has_pending \in [Conn -> BOOLEAN]
    /\ complete \in [Conn -> Nat]
    /\ batchStart \in [Conn -> Nat]
    /\ lastBatch \in [Conn -> Nat]
    /\ parser \in [Conn -> {"start", "untilEof", "dead"}]
    /\ timers \in [Conn -> Nat]

\* What connect_socket writes.
SocketTypes ==
    /\ fd \in [Conn -> Fd \cup {NoFd}]
    /\ events \in [Fd -> Entries]
    /\ errors \in [connect : Nat, read : Nat, write : Nat]
    /\ sock \in [Fd -> Sockets]
    /\ faults \in Nat
    /\ fresh \subseteq Fd

\* What the loop and the clock write.
LoopTypes ==
    /\ due \in [Conn -> BOOLEAN] /\ expired \in BOOLEAN
    /\ unborn \subseteq Conn
    /\ fired \in [Fd -> SUBSET RW]
    /\ pc \in {"poll", "dispatch", "writable", "read", "parse", "eof", "timers", "done"}
    /\ cur \in Fd \cup {NoFd} /\ rfired \in BOOLEAN
    /\ reader \in Conn \cup {NoConn} /\ buf \in Seq(ReplyKinds) /\ again \in BOOLEAN
    /\ stop \in BOOLEAN
    /\ replies \in Nat

\* Every variable has its type; in particular a partial write never reaches
\* past the request buffer.
TypeOK == BatchTypes /\ SocketTypes /\ LoopTypes

\* A descriptor the loop watches is open and is the descriptor of the
\* connection its handlers will be given: closing a socket always takes its
\* registration with it, even when the number is reused at once.
OwnDescriptor ==
    \A f \in Fd : events[f].mask # {} =>
        /\ sock[f] # Closed
        /\ events[f].data \in Conn
        /\ fd[events[f].data] = f

\* Readiness reported for a socket that was closed during the dispatch is
\* never handed to the socket opened in its place: neither to a later entry
\* of the fired array nor to the writable half of the same entry.
NoStaleReadiness ==
    /\ pc = "dispatch" => \A f \in fresh : ~RunsRead(events[f], fired[f])
                                        /\ ~RunsWrite(events[f], fired[f], FALSE)
    /\ pc = "writable" /\ cur \in fresh => ~RunsWrite(events[cur], fired[cur], rfired)

\* The server finds a request at every place it expects one to start: a
\* batch is neither cut short nor continued on another socket.
RequestsWellFormed == \A f \in Fd : ~sock[f].garbled

\* The responses of c's current socket that have not been counted yet, and
\* the requests of its batch that have not reached the server as a whole.
InFlight(c) == sock[fd[c]].owed + Len(sock[fd[c]].inbox)
               + (IF reader = c /\ cur \notin fresh THEN Len(buf) ELSE 0)
Unsent(c) == IF written[c] = 0 THEN 0
             ELSE (Length - written[c] + sock[fd[c]].rx) \div ReqLen

\* What follows a body without a length is swallowed by it.
Established(c) == /\ fd[c] \in Fd /\ Live(fd[c]) /\ events[fd[c]].data = c
                  /\ events[fd[c]].rproc = "socket_readable"
                  /\ ~sock[fd[c]].fin /\ parser[c] # "untilEof"

\* While a batch is in progress c->pending is the number of its responses
\* still to come, so one batch at a time is in flight on a connection.
PendingMatchesWire ==
    \A c \in Conn : Established(c) /\ ~stop /\ InFlight(c) + Unsent(c) > 0 =>
        pending[c] = InFlight(c) + Unsent(c)

\* Between two passes of the loop every connection has exactly one thing that
\* will wake it up: its connect, its interest in writing, its timer, or a
\* response (or the end) of its socket.  None would be a connection lost for
\* the rest of the run, two would send a batch twice.
Awaiting(c) == has_pending[c] /\ written[c] = 0
               /\ (sock[fd[c]].owed > 0 \/ R \in Ready(fd[c]) \/ parser[c] = "untilEof")
OneWakeup ==
    pc = "poll" =>
      \A c \in Conn \ unborn :
        LET fe == events[fd[c]] IN
        /\ fe.data = c /\ R \in fe.mask
        /\ IF fe.rproc = "socket_connected"
           THEN W \in fe.mask /\ timers[c] = 0
           ELSE \/ W \in fe.mask /\ timers[c] = 0
                \/ W \notin fe.mask /\ timers[c] = 1 /\ written[c] = 0
                \/ W \notin fe.mask /\ timers[c] = 0 /\ Awaiting(c)

\* Every error counted has a cause of its own outside the program: a fault of
\* the network or the server.  A response that ends with its stream is one, for
\* socket_readable counts its end as a read error.
ErrorsHaveCauses == errors.connect + errors.read + errors.write <= faults

\* The start of the latency of a response is computed from the completed
\* count seen at the beginning of the last batch sent.
LatencyFromLastBatch ==
    \A c \in Conn : has_pending[c] => batchStart[c] = lastBatch[c]

\* Fairness: the thread runs, a timer that has expired is run by the pass of
\* processTimeEvents that finds it, and so is the periodic check_timeouts.
Fairness ==
    /\ WF_vars(Handler \/ Loop)
    /\ SF_vars(check_timeouts)
    /\ \A c \in Conn : SF_vars(delayed_initial_connect(c)) /\ SF_vars(delay_request(c))

FairSpec == Spec /\ Fairness

\* A batch whose time has come while the connection waits for it is sent,
\* unless the run ends: the timer, the registration, epoll and the write are
\* a chain with no link missing.
DueBatchIsSent ==
    \A c \in Conn : (timers[c] = 1 /\ due[c]) ~> (has_pending[c] \/ stop)

\* After the deadline the thread leaves its loop.
DeadlineEndsLoop == expired ~> (pc = "done")
=============================================================================
