----------------------------- MODULE FileEvents -----------------------------
(***************************************************************************)
(* The event tables of all threads, the epoll set behind each of them and  *)
(* the descriptors that the process shares (src/src/ae.c,                  *)
(* src/src/ae_epoll.c, and the calls src/src/wrk.c makes).  The kernel     *)
(* gives out the lowest free descriptor and forgets a closed one in every  *)
(* epoll set; a table learns of neither.  Threads interleave between the   *)
(* system calls of a reconnect, and main opens descriptors of its own      *)
(* while the first threads run.                                            *)
(*                                                                         *)
(* What a handler sends, receives or counts is left to Connection: here it *)
(* is what it opens, closes and registers.                                 *)
(***************************************************************************)
EXTENDS Integers, FiniteSets, AeEvents

CONSTANTS
    Threads,        \* cfg.threads
    Connections,    \* cfg.connections
    Inherited,      \* descriptors open when main begins
    Spare,          \* the 10 of aeCreateEventLoop(10 + cfg.connections * 3)
    Limits,         \* how many descriptors the process may have
    MaxFailures,    \* bound: connect() fails at once that often
    MaxTimers       \* bound: delay_request timers of one connection

ASSUME FileEventsAssumption ==
    /\ Threads \in Nat \ {0} /\ Connections \in Nat /\ Threads <= Connections
    /\ Inherited \in Nat /\ Spare \in Nat /\ Inherited <= Spare
    /\ Limits \subseteq Nat /\ Limits # {} /\ IsFiniteSet(Limits)
    /\ MaxFailures \in Nat /\ MaxTimers \in Nat

Thread == 1..Threads
Share == Connections \div Threads
Conn == Thread \X (1..Share)
Desc == UNION {0..n - 1 : n \in Limits}

\* Mutant: room for the connections of one thread.
SetSize_Share == Spare + Share
SetSize == Spare + Connections * 3
Slots == 0..SetSize - 1

Free == <<>>                    \* what a descriptor refers to: nothing,
Other == <<"other">>            \* a file of main or of the parent, or none may be had,
Epoll == <<"epoll">>            \* an epoll set, or the socket of a connection

NoConn == <<0, 0>>
NoFd == -1
NoLoop == [events |-> [f \in Slots |-> NoEvent("socket_connected", NoConn)],
           epoll  |-> [f \in Desc |-> {}]]

VARIABLES
    file,           \* what each descriptor refers to
    creating, step, \* the thread main is creating, and how far it is
    script,         \* the descriptor of the script file while it is read
    epfd,           \* the epoll descriptor of each thread
    loop,           \* the event table and the epoll set of each thread
    pc,             \* where each thread is
    cur, opened,    \* the connection a thread connects, and its new socket
    fd,             \* c->fd
    unborn, timers, \* as in Connection
    failures        \* how often connect() failed

vars == <<file, creating, step, script, epfd, loop, pc, cur, opened, fd, unborn, timers, failures>>
mainVars == <<creating, step, script, epfd>>

-----------------------------------------------------------------------------
(* The kernel.                                                              *)

FreeDesc == {f \in Desc : file[f] = Free}
Lowest == CHOOSE f \in FreeDesc : \A g \in FreeDesc : f <= g

\* close(f): every epoll set forgets it.
Forget(loops, f) == [t \in Thread |-> [loops[t] EXCEPT !.epoll[f] = {}]]

\* epoll_ctl takes sockets and epoll sets, not files; ADD what it does not
\* have, MOD and DEL what it has.
CanControl(l, f, op) ==
    /\ f \in Desc /\ file[f] \notin {Free, Other}
    /\ op = "ADD" <=> l.epoll[f] = {}

-----------------------------------------------------------------------------
(* The event table of a loop.                                               *)

AddOp(mask) == IF mask = {} THEN "ADD" ELSE "MOD"

\* aeCreateFileEvent succeeds.
CanCreate(l, f) == f < SetSize /\ CanControl(l, f, AddOp(l.events[f].mask))

CreateFileEvent(l, f, mask, proc, c) ==
    IF CanCreate(l, f)
    THEN LET table == aeCreateFileEvent(l.events, f, mask, proc, c)
         IN [events |-> table, epoll |-> [l.epoll EXCEPT ![f] = table[f].mask]]
    ELSE l

\* Mutant: the mask that is removed is what is kept.
LeftMask_Removed(mask, removed) == mask \cap removed
LeftMask(mask, removed) == mask \ removed

\* aeDeleteFileEvent.  aeApiDelEvent computes what is left a second time;
\* epoll_ctl may know nothing of the descriptor.
DeleteFileEvent(l, f, mask) ==
    IF f >= SetSize \/ l.events[f].mask = {} THEN l
    ELSE LET left == LeftMask(l.events[f].mask, mask)
         IN [events |-> aeDeleteFileEvent(l.events, f, mask),
             epoll  |-> IF CanControl(l, f, IF left = {} THEN "DEL" ELSE "MOD")
                        THEN [l.epoll EXCEPT ![f] = left] ELSE l.epoll]

-----------------------------------------------------------------------------
(* main, thread by thread.                                                  *)

aeCreateEventLoop ==
    /\ step = "loop" /\ FreeDesc # {}
    /\ file' = [file EXCEPT ![Lowest] = Epoll]
    /\ epfd' = [epfd EXCEPT ![creating] = Lowest]
    /\ step' = "open"
    /\ UNCHANGED <<creating, script, loop, pc, cur, opened, fd, unborn, timers, failures>>

\* No descriptor is left for the epoll set.
NoEventLoop ==
    /\ step = "loop" /\ FreeDesc = {} /\ step' = "open"
    /\ UNCHANGED <<file, creating, script, epfd, loop, pc, cur, opened, fd, unborn, timers, failures>>

\* luaL_dofile of the script.
OpenScript ==
    /\ step = "open" /\ FreeDesc # {}
    /\ file' = [file EXCEPT ![Lowest] = Other] /\ script' = Lowest
    /\ step' = "start"
    /\ UNCHANGED <<creating, epfd, loop, pc, cur, opened, fd, unborn, timers, failures>>

\* There is no script, or no descriptor to read it.
NoFile ==
    /\ step = "open" /\ step' = "start"
    /\ UNCHANGED <<file, creating, script, epfd, loop, pc, cur, opened, fd, unborn, timers, failures>>

\* The file has been read and is closed.
CloseScript ==
    /\ IF script = NoFd THEN UNCHANGED <<file, loop>>
       ELSE file' = [file EXCEPT ![script] = Free] /\ loop' = Forget(loop, script)
    /\ script' = NoFd

\* pthread_create, of a thread that has a loop.
StartThread ==
    /\ step = "start" /\ epfd[creating] # NoFd
    /\ CloseScript
    /\ pc' = [pc EXCEPT ![creating] = "idle"]
    /\ IF creating < Threads THEN creating' = creating + 1 /\ step' = "loop"
                             ELSE step' = "done" /\ UNCHANGED creating
    /\ UNCHANGED <<epfd, cur, opened, fd, unborn, timers, failures>>

\* A thread that has no loop ends the program, after its script has been read.
NoThread ==
    /\ step = "start" /\ epfd[creating] = NoFd
    /\ CloseScript
    /\ step' = "exit"
    /\ UNCHANGED <<creating, epfd, pc, cur, opened, fd, unborn, timers, failures>>

-----------------------------------------------------------------------------
(* The threads.                                                             *)

Runs(t) == pc[t] = "idle" /\ step # "exit"

delayed_initial_connect(c) ==
    /\ Runs(c[1]) /\ c \in unborn
    /\ unborn' = unborn \ {c}
    /\ pc' = [pc EXCEPT ![c[1]] = "socket"] /\ cur' = [cur EXCEPT ![c[1]] = c]
    /\ UNCHANGED <<file, mainVars, loop, opened, fd, timers, failures>>

\* An entry that epoll reports, and whose handler therefore runs.
Reported(t, f) == Runs(t) /\ f \in Slots /\ f \in Desc /\ loop[t].events[f].mask \cap loop[t].epoll[f] # {}

\* reconnect_socket up to close(): the end of the connection was read, or a
\* read, a write or the handshake failed.
reconnect_socket(t, f) ==
    /\ Reported(t, f)
    /\ LET c    == loop[t].events[f].data
           left == [loop EXCEPT ![t] = DeleteFileEvent(@, fd[c], RW)]
       IN /\ loop' = Forget(left, fd[c])
          /\ file' = [file EXCEPT ![fd[c]] = Free]
          /\ cur' = [cur EXCEPT ![t] = c]
    /\ pc' = [pc EXCEPT ![t] = "socket"]
    /\ UNCHANGED <<mainVars, opened, fd, unborn, timers, failures>>

\* The handler that connects returns.
BackToLoop(t) ==
    /\ pc' = [pc EXCEPT ![t] = "idle"]
    /\ cur' = [cur EXCEPT ![t] = NoConn] /\ opened' = [opened EXCEPT ![t] = 0]

\* connect_socket, in two steps: socket() ...
OpenSocket(t) ==
    /\ pc[t] = "socket" /\ FreeDesc # {}
    /\ file' = [file EXCEPT ![Lowest] = cur[t]]
    /\ opened' = [opened EXCEPT ![t] = Lowest]
    /\ pc' = [pc EXCEPT ![t] = "connect"]
    /\ UNCHANGED <<mainVars, loop, cur, fd, unborn, timers, failures>>

\* (there is no descriptor: connect() fails, and c->fd stays)
NoSocket(t) ==
    /\ pc[t] = "socket" /\ FreeDesc = {}
    /\ BackToLoop(t)
    /\ UNCHANGED <<file, mainVars, loop, fd, unborn, timers, failures>>

\* ... and connect(), after which the socket is registered, ...
connect_socket(t) ==
    /\ pc[t] = "connect" /\ CanCreate(loop[t], opened[t])
    /\ loop' = [loop EXCEPT ![t] = CreateFileEvent(@, opened[t], RW, "socket_connected", cur[t])]
    /\ fd' = [fd EXCEPT ![cur[t]] = opened[t]]
    /\ BackToLoop(t)
    /\ UNCHANGED <<file, mainVars, unborn, timers, failures>>

\* ... or connect() or the registration fails, and the socket is closed.
ConnectError(t) ==
    /\ pc[t] = "connect"
    /\ \/ failures < MaxFailures /\ failures' = failures + 1
       \/ ~CanCreate(loop[t], opened[t]) /\ UNCHANGED failures
    /\ file' = [file EXCEPT ![opened[t]] = Free]
    /\ loop' = Forget(loop, opened[t])
    /\ BackToLoop(t)
    /\ UNCHANGED <<mainVars, fd, unborn, timers>>

Updates(t, l) ==
    /\ loop' = [loop EXCEPT ![t] = l]
    /\ UNCHANGED <<file, mainVars, pc, cur, opened, fd, unborn, failures>>

socket_connected(t, f) ==
    /\ Reported(t, f) /\ loop[t].events[f].rproc = "socket_connected"
    /\ LET c == loop[t].events[f].data
           reads == CreateFileEvent(loop[t], f, {R}, "socket_readable", c)
       IN Updates(t, CreateFileEvent(reads, f, {W}, "socket_writeable", c))
    /\ UNCHANGED timers

Writable(t, f) ==
    /\ Reported(t, f) /\ W \in loop[t].events[f].mask
    /\ loop[t].events[f].wproc = "socket_writeable"

\* socket_writeable: too soon, or the batch is written.
Delay(t, f) ==
    LET c == loop[t].events[f].data IN
    /\ Writable(t, f) /\ timers[c] < MaxTimers
    /\ timers' = [timers EXCEPT ![c] = @ + 1]
    /\ Updates(t, DeleteFileEvent(loop[t], f, {W}))

Written(t, f) ==
    /\ Writable(t, f)
    /\ Updates(t, DeleteFileEvent(loop[t], f, {W}))
    /\ UNCHANGED timers

\* delay_request, and response_complete after the last response of a batch:
\* c->fd is watched for writability, whatever it is by now.
Watch(c) == CreateFileEvent(loop[c[1]], fd[c], {W}, "socket_writeable", c)

delay_request(c) ==
    /\ Runs(c[1]) /\ timers[c] > 0
    /\ timers' = [timers EXCEPT ![c] = @ - 1]
    /\ Updates(c[1], Watch(c))

response_complete(t, f) ==
    /\ Reported(t, f) /\ loop[t].events[f].rproc = "socket_readable"
    /\ R \in loop[t].events[f].mask
    /\ Updates(t, Watch(loop[t].events[f].data))
    /\ UNCHANGED timers

\* aeMain returns and the loop is deleted; the sockets stay open.
aeDeleteEventLoop(t) ==
    /\ Runs(t)
    /\ file' = [file EXCEPT ![epfd[t]] = Free]
    /\ loop' = [Forget(loop, epfd[t]) EXCEPT ![t] = NoLoop]
    /\ pc' = [pc EXCEPT ![t] = "ended"]
    /\ UNCHANGED <<mainVars, cur, opened, fd, unborn, timers, failures>>

-----------------------------------------------------------------------------
Init ==
    /\ \E n \in Limits :
         file = [f \in Desc |-> IF f < Inherited \/ f >= n THEN Other ELSE Free]
    /\ creating = 1 /\ step = "loop" /\ script = NoFd
    /\ epfd = [t \in Thread |-> NoFd]
    /\ loop = [t \in Thread |-> NoLoop]
    /\ pc = [t \in Thread |-> "none"]
    /\ cur = [t \in Thread |-> NoConn] /\ opened = [t \in Thread |-> 0]
    /\ fd = [c \in Conn |-> 0]
    /\ unborn = Conn
    /\ timers = [c \in Conn |-> 0] /\ failures = 0

Main == aeCreateEventLoop \/ NoEventLoop \/ OpenScript \/ NoFile \/ StartThread \/ NoThread

Handler(t, f) ==
    \/ reconnect_socket(t, f) \/ socket_connected(t, f) \/ Delay(t, f) \/ Written(t, f)
    \/ response_complete(t, f)

Next ==
    \/ Main
    \/ \E c \in Conn : delayed_initial_connect(c) \/ delay_request(c)
    \/ \E t \in Thread, f \in Desc : Handler(t, f)
    \/ \E t \in Thread :
         OpenSocket(t) \/ NoSocket(t) \/ connect_socket(t) \/ ConnectError(t) \/ aeDeleteEventLoop(t)

Spec == Init /\ [][Next]_vars

-----------------------------------------------------------------------------
(* Properties.                                                              *)

\* The directions of a descriptor that a thread has registered are those its
\* epoll set watches: aeApiAddEvent takes the one for the other when it chooses
\* between EPOLL_CTL_ADD and EPOLL_CTL_MOD.
EpollAgrees ==
    \A t \in Thread, f \in Desc \cap Slots :
        pc[t] # "ended" => loop[t].epoll[f] = loop[t].events[f].mask

\* Whatever fails: epoll watches nothing that the table does not know, and a
\* connection that is registered with the socket it has is watched in the
\* directions it asked for.  Otherwise it would never wake up.
OwnSocketWatched ==
    \A t \in Thread, f \in Desc \cap Slots :
        LET l == loop[t]
            c == l.events[f].data
        IN /\ l.epoll[f] \subseteq l.events[f].mask
           /\ l.events[f].mask # {} /\ fd[c] = f /\ file[f] = c => l.epoll[f] = l.events[f].mask

\* The table has a slot for every socket a thread may get: descriptors are
\* those of the process, and the other threads, main and the parent take the
\* low ones.
EverySocketFits == \A t \in Thread : pc[t] = "connect" => opened[t] < SetSize
=============================================================================
