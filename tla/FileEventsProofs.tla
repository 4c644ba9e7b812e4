-------------------------- MODULE FileEventsProofs -------------------------
(***************************************************************************)
(* A connection that is registered with the socket it has is watched by    *)
(* epoll in the directions it asked for, whatever fails and whatever the   *)
(* other threads and main do with the numbers meanwhile; and the table has *)
(* a slot for every socket a thread may get.                               *)
(***************************************************************************)
EXTENDS FileEvents, Sequences, TLAPS, FiniteSetTheorems

Table == [Slots -> [mask  : SUBSET RW, rproc : {"socket_connected", "socket_readable"},
                    wproc : {"socket_connected", "socket_writeable"}, data : Conn \cup {NoConn}]]
Loop == [events : Table, epoll : [Desc -> SUBSET RW]]

TypeInv ==
    /\ file \in [Desc -> {Free, Other, Epoll} \cup Conn]
    /\ loop \in [Thread -> Loop]
    /\ pc \in [Thread -> {"none", "idle", "socket", "connect", "ended"}]
    /\ cur \in [Thread -> Conn \cup {NoConn}]
    /\ fd \in [Conn -> Slots]
    /\ unborn \subseteq Conn
    /\ timers \in [Conn -> Nat]

Connecting(t) == pc[t] \in {"socket", "connect"}

\* What is known of a table entry that has a mask: its connection is one of the
\* thread, has been started, is not being connected, and its descriptor is the
\* one the entry is for.
EntryOf(t, f, c) ==
    /\ c \in Conn /\ c[1] = t /\ c \notin unborn
    /\ fd[c] = f
    /\ Connecting(t) => c # cur[t]

EntriesInv ==
    \A t \in Thread, f \in Slots :
        loop[t].events[f].mask # {} => EntryOf(t, f, loop[t].events[f].data)

\* A thread connects a connection of its own that has been started.
ConnectingInv ==
    \A t \in Thread : Connecting(t) => cur[t] \in Conn /\ cur[t][1] = t /\ cur[t] \notin unborn

TimersInv == \A c \in Conn : timers[c] > 0 => c \notin unborn

\* What epoll watches is in the table, is something epoll can watch, and is all
\* that was asked for where it is the connection's own socket.
Agrees(l, f, kind) ==
    /\ l.epoll[f] # {} => f \in Slots /\ kind \notin {Free, Other}
    /\ f \in Slots =>
         /\ l.epoll[f] \subseteq l.events[f].mask
         /\ l.events[f].mask # {} /\ kind = l.events[f].data => l.epoll[f] = l.events[f].mask

AgreesInv == \A t \in Thread, f \in Desc : Agrees(loop[t], f, file[f])

IInv == TypeInv /\ EntriesInv /\ ConnectingInv /\ TimersInv /\ AgreesInv

-----------------------------------------------------------------------------
(* Descriptors and sizes.                                                   *)

LEMMA NatMin ==
    ASSUME NEW S, S \subseteq Nat, S # {}
    PROVE  \E x \in S : \A y \in S : x <= y
<1>1. PICK x \in S : \A y \in S : ~(<<y, x>> \in OpToRel(<, Nat))
  BY NatLessThanWellFounded, WFMin DEF OpToRel
<1>2. ASSUME NEW y \in S PROVE x <= y
  <2>1. x \in Nat /\ y \in Nat
    BY <1>1
  <2>2. ~(y < x)
    BY <1>1, <2>1 DEF OpToRel
  <2> QED
    BY <2>1, <2>2
<1> QED
  BY <1>1, <1>2

\* The descriptor that the kernel gives out is the lowest that is free.
LEMMA LowestFree ==
    ASSUME FreeDesc # {}
    PROVE  Lowest \in FreeDesc /\ \A g \in FreeDesc : Lowest <= g
<1>1. FreeDesc \subseteq Nat
  BY FileEventsAssumption DEF FreeDesc, Desc
<1>2. \E f \in FreeDesc : \A g \in FreeDesc : f <= g
  BY <1>1, NatMin
<1> QED
  BY <1>2 DEF Lowest

LEMMA Kinds ==
    /\ \A c \in Conn : c \notin {Free, Other, Epoll, NoConn}
    /\ Epoll \notin {Free, Other} /\ Free # Other
<1>1. ASSUME NEW c \in Conn
      PROVE  c \notin {Free, Other, Epoll, NoConn}
  <2>1. PICK t \in Thread, s \in 1..Share : c = <<t, s>>
    BY DEF Conn
  <2>2. Len(c) = 2 /\ Len(Free) = 0 /\ Len(Other) = 1 /\ Len(Epoll) = 1
    BY <2>1 DEF Free, Other, Epoll
  <2>3. t # 0
    BY DEF Thread
  <2> QED
    BY <2>1, <2>2, <2>3 DEF NoConn
<1> QED
  BY <1>1 DEF Free, Other, Epoll

LEMMA SlotsNat == SetSize \in Nat /\ Slots \subseteq Nat /\ 0 \in Slots /\ Slots = {f \in Nat : f < SetSize}
BY FileEventsAssumption DEF SetSize, Slots

LEMMA ConnThread == \A c \in Conn : c[1] \in Thread
BY DEF Conn

LEMMA DescNat == Desc \subseteq Nat
BY FileEventsAssumption DEF Desc

LEMMA NoLoopType == NoLoop \in Loop /\ \A f \in Slots : NoLoop.events[f].mask = {}
BY DEF NoLoop, Loop, Table, NoEvent, RW

-----------------------------------------------------------------------------
(* The loop of one thread.                                                  *)

\* r is loop l after descriptor f has been registered for connection c.
Registration(l, f, c, r) ==
    /\ r \in Loop /\ f \in Slots /\ f \in Desc /\ file[f] \notin {Free, Other}
    /\ r.events[f].data = c /\ r.epoll[f] = r.events[f].mask
    /\ \A g \in Slots : g # f => r.events[g] = l.events[g]
    /\ \A g \in Desc : g # f => r.epoll[g] = l.epoll[g]

\* What aeCreateFileEvent does to a loop when it succeeds.
LEMMA Created ==
    ASSUME NEW l \in Loop, NEW f \in Nat, NEW mask \in SUBSET RW, NEW c \in Conn,
           NEW proc \in {"socket_connected", "socket_readable", "socket_writeable"},
           R \in mask => proc # "socket_writeable",
           W \in mask => proc # "socket_readable",
           CanCreate(l, f)
    PROVE  Registration(l, f, c, CreateFileEvent(l, f, mask, proc, c))
<1> DEFINE r == CreateFileEvent(l, f, mask, proc, c)
           e == [mask  |-> l.events[f].mask \cup mask,
                 rproc |-> IF R \in mask THEN proc ELSE l.events[f].rproc,
                 wproc |-> IF W \in mask THEN proc ELSE l.events[f].wproc,
                 data  |-> c]
<1>1. f \in Slots /\ f \in Desc /\ file[f] \notin {Free, Other}
  BY SlotsNat DEF CanCreate, CanControl
<1>2. l.events \in Table /\ l.epoll \in [Desc -> SUBSET RW]
  BY DEF Loop
<1>3. r = [events |-> aeCreateFileEvent(l.events, f, mask, proc, c),
           epoll |-> [l.epoll EXCEPT ![f] = aeCreateFileEvent(l.events, f, mask, proc, c)[f].mask]]
  BY DEF CreateFileEvent
<1>4. aeCreateFileEvent(l.events, f, mask, proc, c) = [l.events EXCEPT ![f] = e]
  BY <1>1, <1>2 DEF aeCreateFileEvent, Table
<1>5. /\ e.mask \in SUBSET RW /\ e.data = c /\ e.data \in Conn \cup {NoConn}
      /\ e.rproc \in {"socket_connected", "socket_readable"}
      /\ e.wproc \in {"socket_connected", "socket_writeable"}
  BY <1>1, <1>2 DEF Table
<1>6. [l.events EXCEPT ![f] = e] \in Table
  BY <1>1, <1>2, <1>5 DEF Table
<1>7. [l.events EXCEPT ![f] = e][f] = e
  BY <1>1, <1>2 DEF Table
<1>8. r = [events |-> [l.events EXCEPT ![f] = e], epoll |-> [l.epoll EXCEPT ![f] = e.mask]]
  BY <1>3, <1>4, <1>7
<1>9. r \in Loop
  <2>1. [l.epoll EXCEPT ![f] = e.mask] \in [Desc -> SUBSET RW]
    BY <1>2, <1>5
  <2> HIDE DEF e
  <2> QED
    BY <1>6, <1>8, <2>1 DEF Loop
<1> QED
  BY <1>1, <1>2, <1>5, <1>7, <1>8, <1>9 DEF Registration, Table

\* What aeDeleteFileEvent does to a loop: the table and epoll go on agreeing.
LEMMA DeleteFacts ==
    ASSUME NEW l \in Loop, NEW f \in Slots, NEW mask \in SUBSET RW
    PROVE  LET r == DeleteFileEvent(l, f, mask) IN
           /\ r \in Loop
           /\ r.events[f].mask = l.events[f].mask \ mask
           /\ \A g \in Slots : r.events[g].data = l.events[g].data
           /\ \A g \in Slots : g # f => r.events[g] = l.events[g]
           /\ \A g \in Desc : g # f => r.epoll[g] = l.epoll[g]
           /\ f \in Desc /\ Agrees(l, f, file[f]) => Agrees(r, f, file[f])
<1> DEFINE r == DeleteFileEvent(l, f, mask)
           left == l.events[f].mask \ mask
<1>1. l.events \in Table /\ l.epoll \in [Desc -> SUBSET RW]
  BY DEF Loop
<1>2. ~(f >= SetSize)
  BY SlotsNat
<1>3. CASE l.events[f].mask = {}
  BY <1>1, <1>3 DEF DeleteFileEvent
<1>4. CASE l.events[f].mask # {}
  <2> DEFINE op == IF left = {} THEN "DEL" ELSE "MOD"
             table == [l.events EXCEPT ![f].mask = @ \ mask]
             epoll == IF CanControl(l, f, op) THEN [l.epoll EXCEPT ![f] = left] ELSE l.epoll
  <2>1. r = [events |-> table, epoll |-> epoll]
    BY <1>2, <1>4 DEF DeleteFileEvent, LeftMask, aeDeleteFileEvent
  <2>2. table \in Table
    BY <1>1 DEF Table
  <2>3. epoll \in [Desc -> SUBSET RW]
    BY <1>1 DEF Table
  <2>4. /\ table[f].mask = left /\ \A g \in Slots : table[g].data = l.events[g].data
        /\ \A g \in Slots : g # f => table[g] = l.events[g]
    BY <1>1 DEF Table
  <2>5. \A g \in Desc : g # f => epoll[g] = l.epoll[g]
    BY <1>1
  <2>6. ASSUME f \in Desc, Agrees(l, f, file[f])
        PROVE  Agrees(r, f, file[f])
    <3>1. CanControl(l, f, op) <=> file[f] \notin {Free, Other} /\ l.epoll[f] # {}
      BY <2>6 DEF CanControl
    <3>2. CASE CanControl(l, f, op)
      <4>1. r.epoll[f] = left
        BY <1>1, <2>1, <2>6, <3>2
      <4>2. r.events[f].mask = left
        BY <2>1, <2>4
      <4> QED
        BY <3>1, <3>2, <4>1, <4>2 DEF Agrees
    <3>3. CASE ~CanControl(l, f, op)
      <4>1. l.epoll[f] = {}
        BY <2>6, <3>1, <3>3 DEF Agrees
      <4>2. file[f] # l.events[f].data
        BY <1>4, <2>6, <4>1 DEF Agrees
      <4>3. r.epoll[f] = {}
        BY <2>1, <3>3, <4>1
      <4>4. r.events[f].data = l.events[f].data
        BY <2>1, <2>4
      <4> QED
        BY <4>2, <4>3, <4>4 DEF Agrees
    <3> QED
      BY <3>2, <3>3
  <2>7. r \in Loop
    BY <2>1, <2>2, <2>3 DEF Loop
  <2> QED
    BY <1>4, <2>1, <2>4, <2>5, <2>6, <2>7
<1> QED
  BY <1>3, <1>4

-----------------------------------------------------------------------------
(* The steps.                                                               *)

\* A loop of thread t that satisfies what IInv says of it.
Sound(t, l) ==
    /\ l \in Loop
    /\ \A f \in Slots : l.events[f].mask # {} => EntryOf(t, f, l.events[f].data)
    /\ \A f \in Desc : Agrees(l, f, file[f])

LEMMA LoopSound == ASSUME IInv, NEW t \in Thread PROVE Sound(t, loop[t])
BY DEF IInv, TypeInv, EntriesInv, AgreesInv, Sound

LEMMA Registered ==
    ASSUME NEW t \in Thread, NEW l, Sound(t, l), NEW f \in Nat, NEW c, EntryOf(t, f, c),
           NEW mask \in SUBSET RW,
           NEW proc \in {"socket_connected", "socket_readable", "socket_writeable"},
           R \in mask => proc # "socket_writeable",
           W \in mask => proc # "socket_readable"
    PROVE  Sound(t, CreateFileEvent(l, f, mask, proc, c))
<1> DEFINE r == CreateFileEvent(l, f, mask, proc, c)
<1>1. l \in Loop /\ c \in Conn
  BY DEF Sound, EntryOf
<1>2. CASE ~CanCreate(l, f)
  BY <1>2 DEF CreateFileEvent
<1>3. CASE CanCreate(l, f)
  <2>1. Registration(l, f, c, r)
    BY <1>1, <1>3, Created
  <2> HIDE DEF r
  <2>2. \A g \in Slots : r.events[g].mask # {} => EntryOf(t, g, r.events[g].data)
    BY <2>1 DEF Registration, Sound
  <2>3. ASSUME NEW g \in Desc PROVE Agrees(r, g, file[g])
    BY <2>1 DEF Registration, Sound, Agrees
  <2>4. Sound(t, r)
    BY <2>1, <2>2, <2>3 DEF Registration, Sound
  <2> QED
    BY <2>4 DEF r
<1> QED
  BY <1>2, <1>3

LEMMA Unregistered ==
    ASSUME NEW t \in Thread, NEW l, Sound(t, l), NEW f \in Slots, NEW mask \in SUBSET RW
    PROVE  Sound(t, DeleteFileEvent(l, f, mask))
<1> DEFINE r == DeleteFileEvent(l, f, mask)
<1>1. l \in Loop
  BY DEF Sound
<1>2. /\ r \in Loop
      /\ r.events[f].mask = l.events[f].mask \ mask
      /\ \A g \in Slots : r.events[g].data = l.events[g].data
      /\ \A g \in Slots : g # f => r.events[g] = l.events[g]
      /\ \A g \in Desc : g # f => r.epoll[g] = l.epoll[g]
      /\ f \in Desc /\ Agrees(l, f, file[f]) => Agrees(r, f, file[f])
  BY <1>1, DeleteFacts
<1> HIDE DEF r
<1>3. ASSUME NEW g \in Slots, r.events[g].mask # {}
      PROVE  EntryOf(t, g, r.events[g].data)
  <2>1. l.events[g].mask # {}
    BY <1>2, <1>3
  <2> QED
    BY <1>2, <2>1 DEF Sound
<1>4. ASSUME NEW g \in Desc PROVE Agrees(r, g, file[g])
  <2>1. CASE g = f
    BY <1>2, <2>1 DEF Sound
  <2>2. CASE g # f
    BY <1>2, <2>2 DEF Sound, Agrees
  <2> QED
    BY <2>1, <2>2
<1>5. Sound(t, r)
  BY <1>2, <1>3, <1>4 DEF Sound
<1> QED
  BY <1>5 DEF r

LEMMA TypeFacts ==
    ASSUME TypeInv, NEW t \in Thread
    PROVE  /\ loop[t] \in Loop
           /\ \A f \in Slots : /\ loop[t].events[f].mask \in SUBSET RW
                               /\ loop[t].events[f].data \in Conn \cup {NoConn}
           /\ \A f \in Desc : loop[t].epoll[f] \in SUBSET RW
BY DEF TypeInv, Loop, Table

\* A handler of thread t that changes its loop only.
LEMMA LoopUpdated ==
    ASSUME IInv, NEW t \in Thread, NEW l, Sound(t, l), loop' = [loop EXCEPT ![t] = l],
           UNCHANGED <<file, pc, cur, fd, unborn>>,
           timers' \in [Conn -> Nat], TimersInv'
    PROVE  IInv'
<1> USE DEF Sound
<1>1. TypeInv'
  BY DEF IInv, TypeInv
<1>2. loop'[t] = l /\ \A u \in Thread \ {t} : loop'[u] = loop[u]
  BY DEF IInv, TypeInv
<1>3. EntriesInv'
  BY <1>2 DEF IInv, EntriesInv, EntryOf, Connecting
<1>4. ConnectingInv'
  BY DEF IInv, ConnectingInv, Connecting
<1>5. AgreesInv'
  BY <1>2 DEF IInv, AgreesInv
<1> QED
  BY <1>1, <1>3, <1>4, <1>5 DEF IInv

\* A descriptor that was free refers to something new: no table has an entry
\* for it whose connection is what it refers to now.
LEMMA FileOpened ==
    ASSUME IInv, NEW f \in FreeDesc, NEW k \in {Other, Epoll} \cup Conn,
           file' = [file EXCEPT ![f] = k], UNCHANGED loop,
           \A t \in Thread : f \in Slots /\ loop[t].events[f].mask # {} => loop[t].events[f].data # k
    PROVE  AgreesInv' /\ file' \in [Desc -> {Free, Other, Epoll} \cup Conn]
<1>1. file' \in [Desc -> {Free, Other, Epoll} \cup Conn]
  BY DEF IInv, TypeInv, FreeDesc
<1>2. f \in Desc /\ file[f] = Free /\ file'[f] = k
  BY DEF FreeDesc, IInv, TypeInv
<1>3. ASSUME NEW t \in Thread, NEW g \in Desc
      PROVE  Agrees(loop[t], g, file'[g])
  <2>1. CASE g = f
    <3>1. loop[t].epoll[f] = {}
      BY <1>2 DEF IInv, AgreesInv, Agrees
    <3> QED
      BY <1>2, <2>1, <3>1 DEF Agrees
  <2>2. CASE g # f
    <3>1. file'[g] = file[g]
      BY <2>2 DEF IInv, TypeInv
    <3> QED
      BY <3>1 DEF IInv, AgreesInv
  <2> QED
    BY <2>1, <2>2
<1> QED
  BY <1>1, <1>3 DEF AgreesInv

\* A descriptor is closed, and every epoll set forgets it; ls are the loops
\* before.
LEMMA FileClosed ==
    ASSUME TypeInv, NEW ls \in [Thread -> Loop], NEW f,
           \A t \in Thread, g \in Desc : g # f => Agrees(ls[t], g, file[g]),
           \A t \in Thread, g \in Slots : ls[t].events[g].mask # {} => ls[t].events[g].data \in Conn,
           file' = [file EXCEPT ![f] = Free]
    PROVE  /\ file' \in [Desc -> {Free, Other, Epoll} \cup Conn]
           /\ Forget(ls, f) \in [Thread -> Loop]
           /\ \A t \in Thread : Forget(ls, f)[t].events = ls[t].events
           /\ \A t \in Thread, g \in Desc : Agrees(Forget(ls, f)[t], g, file'[g])
<1>1. file' \in [Desc -> {Free, Other, Epoll} \cup Conn]
  BY DEF TypeInv
<1>2. ASSUME NEW t \in Thread
      PROVE  /\ Forget(ls, f)[t] \in Loop
             /\ Forget(ls, f)[t].events = ls[t].events
             /\ \A g \in Desc : Forget(ls, f)[t].epoll[g] = IF g = f THEN {} ELSE ls[t].epoll[g]
  <2>1. ls[t] \in Loop
    OBVIOUS
  <2>2. Forget(ls, f)[t] = [events |-> ls[t].events, epoll |-> [ls[t].epoll EXCEPT ![f] = {}]]
    BY <2>1 DEF Forget, Loop
  <2>3. [ls[t].epoll EXCEPT ![f] = {}] \in [Desc -> SUBSET RW]
    BY <2>1 DEF Loop
  <2> QED
    BY <2>1, <2>2, <2>3 DEF Loop
<1>3. Forget(ls, f) \in [Thread -> Loop]
  BY <1>2 DEF Forget
<1>4. ASSUME NEW t \in Thread, NEW g \in Desc
      PROVE  Agrees(Forget(ls, f)[t], g, file'[g])
  <2>1. CASE g = f
    <3>1. file'[g] = Free
      BY <2>1 DEF TypeInv
    <3> QED
      BY <1>2, <2>1, <3>1, Kinds DEF Agrees
  <2>2. CASE g # f
    <3>1. file'[g] = file[g]
      BY <2>2 DEF TypeInv
    <3> QED
      BY <1>2, <2>2, <3>1 DEF Agrees
  <2> QED
    BY <2>1, <2>2
<1> QED
  BY <1>1, <1>2, <1>3, <1>4

LEMMA InitInv == Init => IInv
<1> SUFFICES ASSUME Init
             PROVE  IInv
  OBVIOUS
<1>1. TypeInv
  BY NoLoopType, SlotsNat DEF Init, TypeInv
<1>2. \A t \in Thread : loop[t] = NoLoop
  BY DEF Init
<1>3. EntriesInv
  BY <1>2, NoLoopType DEF EntriesInv
<1>4. ConnectingInv /\ TimersInv
  BY DEF Init, ConnectingInv, Connecting, TimersInv
<1>5. AgreesInv
  BY <1>2, NoLoopType DEF AgreesInv, Agrees, NoLoop
<1> QED
  BY <1>1, <1>3, <1>4, <1>5 DEF IInv

\* The entries of the tables and the connections being connected stay.
LEMMA EntriesKept ==
    ASSUME IInv, \A t \in Thread : loop'[t].events = loop[t].events, UNCHANGED <<fd, unborn>>,
           \A t \in Thread : Connecting(t)' => Connecting(t) /\ cur'[t] = cur[t]
    PROVE  EntriesInv' /\ ConnectingInv'
<1>1. EntriesInv'
  BY DEF IInv, EntriesInv, EntryOf
<1>2. ConnectingInv'
  BY DEF IInv, ConnectingInv
<1> QED
  BY <1>1, <1>2

\* What FileClosed asks of the loops, when they are the ones there are.
LEMMA LoopsClosable ==
    ASSUME IInv
    PROVE  /\ \A t \in Thread, g \in Desc : Agrees(loop[t], g, file[g])
           /\ \A t \in Thread, g \in Slots : loop[t].events[g].mask # {} => loop[t].events[g].data \in Conn
BY DEF IInv, AgreesInv, EntriesInv, EntryOf

LEMMA ScriptClosed ==
    ASSUME IInv, CloseScript
    PROVE  /\ file' \in [Desc -> {Free, Other, Epoll} \cup Conn]
           /\ loop' \in [Thread -> Loop]
           /\ \A t \in Thread : loop'[t].events = loop[t].events
           /\ AgreesInv'
<1>1. CASE script = NoFd
  BY <1>1 DEF CloseScript, IInv, TypeInv, AgreesInv
<1>2. CASE script # NoFd
  <2>1. file' = [file EXCEPT ![script] = Free] /\ loop' = Forget(loop, script)
    BY <1>2 DEF CloseScript
  <2>2. TypeInv /\ loop \in [Thread -> Loop]
    BY DEF IInv, TypeInv
  <2> QED
    BY <2>1, <2>2, LoopsClosable, FileClosed DEF AgreesInv
<1> QED
  BY <1>1, <1>2

LEMMA MainInv == IInv /\ Main => IInv'
<1> SUFFICES ASSUME IInv, Main
             PROVE  IInv'
  OBVIOUS
<1>1. ASSUME NEW k \in {Epoll, Other}, FreeDesc # {}, file' = [file EXCEPT ![Lowest] = k],
             UNCHANGED <<loop, pc, cur, fd, unborn, timers>>
      PROVE  IInv'
  <2>1. \A t \in Thread, f \in Slots : loop[t].events[f].mask # {} => loop[t].events[f].data # k
    BY Kinds, LoopsClosable
  <2>2. AgreesInv' /\ file' \in [Desc -> {Free, Other, Epoll} \cup Conn]
    <3>1. Lowest \in FreeDesc
      BY <1>1, LowestFree
    <3>2. \A t \in Thread : Lowest \in Slots /\ loop[t].events[Lowest].mask # {}
                            => loop[t].events[Lowest].data # k
      BY <2>1
    <3>3. k \in {Other, Epoll} \cup Conn
      OBVIOUS
    <3> QED
      BY <1>1, <3>1, <3>2, <3>3, FileOpened
  <2>3. EntriesInv' /\ ConnectingInv'
    BY <1>1, EntriesKept DEF Connecting
  <2> QED
    BY <1>1, <2>2, <2>3 DEF IInv, TypeInv, TimersInv
<1>2. ASSUME CloseScript, UNCHANGED <<cur, fd, unborn, timers>>,
             \/ UNCHANGED pc
             \/ pc' = [pc EXCEPT ![creating] = "idle"]
      PROVE  IInv'
  <2>1. /\ file' \in [Desc -> {Free, Other, Epoll} \cup Conn] /\ loop' \in [Thread -> Loop]
        /\ \A t \in Thread : loop'[t].events = loop[t].events
        /\ AgreesInv'
    BY <1>2, ScriptClosed
  <2>2. pc' \in [Thread -> {"none", "idle", "socket", "connect", "ended"}]
    BY <1>2 DEF IInv, TypeInv
  <2>3. \A t \in Thread : Connecting(t)' => Connecting(t) /\ cur'[t] = cur[t]
    BY <1>2 DEF Connecting, IInv, TypeInv
  <2>4. EntriesInv' /\ ConnectingInv'
    BY <1>2, <2>1, <2>3, EntriesKept
  <2> QED
    BY <1>2, <2>1, <2>2, <2>4 DEF IInv, TypeInv, TimersInv
<1>3. CASE aeCreateEventLoop
  BY <1>1, <1>3 DEF aeCreateEventLoop
<1>4. CASE OpenScript
  BY <1>1, <1>4 DEF OpenScript
<1>5. CASE NoEventLoop \/ NoFile
  <2>1. UNCHANGED <<file, loop, pc, cur, fd, unborn, timers>>
    BY <1>5 DEF NoEventLoop, NoFile
  <2> QED
    BY <2>1 DEF IInv, TypeInv, EntriesInv, EntryOf, Connecting, ConnectingInv, TimersInv, AgreesInv
<1>6. CASE StartThread
  BY <1>2, <1>6 DEF StartThread
<1>7. CASE NoThread
  BY <1>2, <1>7 DEF NoThread
<1> QED
  BY <1>3, <1>4, <1>5, <1>6, <1>7 DEF Main

LEMMA InitialConnect ==
    ASSUME IInv, NEW c \in Conn, delayed_initial_connect(c)
    PROVE  IInv'
<1> DEFINE t == c[1]
<1>1. t \in Thread /\ c \in unborn /\ pc[t] = "idle"
  BY ConnThread DEF delayed_initial_connect, Runs
<1>2. /\ pc'[t] = "socket" /\ cur'[t] = c /\ unborn' = unborn \ {c}
      /\ \A u \in Thread \ {t} : pc'[u] = pc[u] /\ cur'[u] = cur[u]
      /\ UNCHANGED <<file, loop, fd, timers>>
  BY <1>1 DEF delayed_initial_connect, IInv, TypeInv
<1>3. TypeInv'
  BY <1>1 DEF delayed_initial_connect, IInv, TypeInv
<1>4. ASSUME NEW u \in Thread, NEW f \in Slots, loop[u].events[f].mask # {}
      PROVE  EntryOf(u, f, loop[u].events[f].data)'
  <2>1. EntryOf(u, f, loop[u].events[f].data)
    BY <1>4 DEF IInv, EntriesInv
  <2>2. loop[u].events[f].data # c
    BY <1>1, <2>1 DEF EntryOf
  <2> QED
    BY <1>1, <1>2, <2>1, <2>2 DEF EntryOf, Connecting
<1>5. EntriesInv'
  BY <1>2, <1>4 DEF EntriesInv
<1>6. ConnectingInv'
  BY <1>1, <1>2 DEF IInv, ConnectingInv, Connecting
<1>7. TimersInv' /\ AgreesInv'
  BY <1>2 DEF IInv, TimersInv, AgreesInv
<1> QED
  BY <1>3, <1>5, <1>6, <1>7 DEF IInv

\* The entry that runs: its connection has the descriptor it is dispatched for.
LEMMA ReportedEntry ==
    ASSUME IInv, NEW t \in Thread, NEW f \in Desc, Reported(t, f)
    PROVE  /\ f \in Slots /\ loop[t].events[f].mask # {}
           /\ EntryOf(t, f, loop[t].events[f].data) /\ ~Connecting(t)
BY DEF Reported, Runs, Connecting, IInv, EntriesInv

LEMMA Reconnects ==
    ASSUME IInv, NEW t \in Thread, NEW f \in Desc, reconnect_socket(t, f)
    PROVE  IInv'
<1> DEFINE c == loop[t].events[f].data
           l == DeleteFileEvent(loop[t], f, RW)
           ls == [loop EXCEPT ![t] = l]
<1>1. /\ f \in Slots /\ EntryOf(t, f, c) /\ ~Connecting(t)
  BY ReportedEntry DEF reconnect_socket
<1>2. c \in Conn /\ fd[c] = f /\ c[1] = t /\ c \notin unborn
  BY <1>1 DEF EntryOf
<1>3. /\ file' = [file EXCEPT ![f] = Free] /\ loop' = Forget(ls, f)
      /\ cur' = [cur EXCEPT ![t] = c] /\ pc' = [pc EXCEPT ![t] = "socket"]
      /\ UNCHANGED <<fd, unborn, timers>>
  BY <1>2 DEF reconnect_socket
<1>4. loop[t] \in Loop /\ loop \in [Thread -> Loop] /\ Sound(t, loop[t]) /\ TypeInv
  BY LoopSound DEF IInv, TypeInv
<1>5. Sound(t, l)
  BY <1>1, <1>4, Unregistered
<1>6. /\ l.events[f].mask = {}
      /\ \A g \in Slots : g # f => l.events[g] = loop[t].events[g]
  BY <1>1, <1>4, DeleteFacts, TypeFacts
<1> HIDE DEF l
<1>7. /\ ls \in [Thread -> Loop] /\ ls[t] = l /\ \A u \in Thread \ {t} : ls[u] = loop[u]
  BY <1>4, <1>5 DEF Sound
<1> HIDE DEF ls
<1>8. \A u \in Thread, g \in Desc : Agrees(ls[u], g, file[g])
  BY <1>5, <1>7, LoopsClosable DEF Sound
<1>9. \A u \in Thread, g \in Slots : ls[u].events[g].mask # {} => ls[u].events[g].data \in Conn
  BY <1>5, <1>7, LoopsClosable DEF Sound, EntryOf
<1>10. /\ file' \in [Desc -> {Free, Other, Epoll} \cup Conn]
       /\ loop' \in [Thread -> Loop]
       /\ \A u \in Thread : loop'[u].events = ls[u].events
       /\ AgreesInv'
  <2>1. /\ file' \in [Desc -> {Free, Other, Epoll} \cup Conn]
        /\ Forget(ls, f) \in [Thread -> Loop]
        /\ \A u \in Thread : Forget(ls, f)[u].events = ls[u].events
        /\ \A u \in Thread, g \in Desc : Agrees(Forget(ls, f)[u], g, file'[g])
    <3> HIDE DEF c
    <3> QED
      BY <1>3, <1>4, <1>7, <1>8, <1>9, FileClosed
  <2> QED
    BY <1>3, <2>1 DEF AgreesInv
<1>11. TypeInv'
  BY <1>2, <1>3, <1>10 DEF IInv, TypeInv
<1>12. /\ cur'[t] = c /\ pc'[t] = "socket"
       /\ \A u \in Thread \ {t} : cur'[u] = cur[u] /\ pc'[u] = pc[u]
  BY <1>3, <1>4 DEF TypeInv
<1>13. ASSUME NEW u \in Thread, NEW g \in Slots, loop'[u].events[g].mask # {}
       PROVE  EntryOf(u, g, loop[u].events[g].data)'
  <2>1. CASE u = t
    <3>1. g # f /\ loop'[u].events[g] = loop[t].events[g]
      BY <1>6, <1>7, <1>10, <1>13, <2>1
    <3>2. EntryOf(t, g, loop[t].events[g].data)
      BY <1>13, <3>1 DEF IInv, EntriesInv
    <3>3. loop[t].events[g].data # c
      BY <1>2, <3>1, <3>2 DEF EntryOf
    <3> QED
      BY <1>3, <1>12, <2>1, <3>1, <3>2, <3>3 DEF EntryOf
  <2>2. CASE u # t
    <3>1. loop'[u].events = loop[u].events
      BY <1>7, <1>10, <2>2
    <3>2. EntryOf(u, g, loop[u].events[g].data)
      BY <1>13, <3>1 DEF IInv, EntriesInv
    <3> QED
      BY <1>3, <1>12, <2>2, <3>1, <3>2 DEF EntryOf, Connecting
  <2> QED
    BY <2>1, <2>2
<1>14. EntriesInv'
  BY <1>13 DEF EntriesInv
<1>15. ConnectingInv'
  BY <1>2, <1>3, <1>12 DEF IInv, ConnectingInv, Connecting
<1> QED
  BY <1>3, <1>10, <1>11, <1>14, <1>15 DEF IInv, TimersInv

LEMMA SocketOpened ==
    ASSUME IInv, NEW t \in Thread, OpenSocket(t)
    PROVE  IInv'
<1> DEFINE c == cur[t]
<1>1. /\ pc[t] = "socket" /\ FreeDesc # {} /\ file' = [file EXCEPT ![Lowest] = c]
      /\ pc' = [pc EXCEPT ![t] = "connect"]
      /\ UNCHANGED <<loop, cur, fd, unborn, timers>>
  BY DEF OpenSocket
<1>2. Connecting(t) /\ c \in Conn /\ c[1] = t
  BY <1>1 DEF IInv, ConnectingInv, Connecting
<1>3. ASSUME NEW u \in Thread, NEW f \in Slots, loop[u].events[f].mask # {}
      PROVE  loop[u].events[f].data # c
  <2>1. EntryOf(u, f, loop[u].events[f].data)
    BY <1>3 DEF IInv, EntriesInv
  <2> QED
    BY <1>2, <2>1 DEF EntryOf
<1>4. AgreesInv' /\ file' \in [Desc -> {Free, Other, Epoll} \cup Conn]
  <2>1. Lowest \in FreeDesc
    BY <1>1, LowestFree
  <2>2. \A u \in Thread : Lowest \in Slots /\ loop[u].events[Lowest].mask # {}
                          => loop[u].events[Lowest].data # c
    BY <1>3
  <2>3. c \in {Other, Epoll} \cup Conn
    BY <1>2
  <2> QED
    BY <1>1, <2>1, <2>2, <2>3, FileOpened
<1>5. \A u \in Thread : Connecting(u)' => Connecting(u) /\ cur'[u] = cur[u]
  BY <1>1, <1>2 DEF IInv, TypeInv, Connecting
<1>6. EntriesInv' /\ ConnectingInv'
  BY <1>1, <1>5, EntriesKept
<1> QED
  BY <1>1, <1>4, <1>6 DEF IInv, TypeInv, TimersInv

LEMMA NothingOpened ==
    ASSUME IInv, NEW t \in Thread, NoSocket(t)
    PROVE  IInv'
<1>1. /\ pc' = [pc EXCEPT ![t] = "idle"] /\ cur' = [cur EXCEPT ![t] = NoConn]
      /\ UNCHANGED <<file, loop, fd, unborn, timers>>
  BY DEF NoSocket, BackToLoop
<1>2. \A u \in Thread : Connecting(u)' => Connecting(u) /\ cur'[u] = cur[u]
  BY <1>1 DEF IInv, TypeInv, Connecting
<1>3. EntriesInv' /\ ConnectingInv'
  BY <1>1, <1>2, EntriesKept
<1> QED
  BY <1>1, <1>3 DEF IInv, TypeInv, TimersInv, AgreesInv

\* connect() failed, or the table or epoll refused the socket.
LEMMA ConnectFailed ==
    ASSUME IInv, NEW t \in Thread, ConnectError(t)
    PROVE  IInv'
<1>1. /\ file' = [file EXCEPT ![opened[t]] = Free] /\ loop' = Forget(loop, opened[t])
      /\ pc' = [pc EXCEPT ![t] = "idle"] /\ cur' = [cur EXCEPT ![t] = NoConn]
      /\ UNCHANGED <<fd, unborn, timers>>
  BY DEF ConnectError, BackToLoop
<1>2. TypeInv /\ loop \in [Thread -> Loop]
  BY DEF IInv, TypeInv
<1>3. /\ file' \in [Desc -> {Free, Other, Epoll} \cup Conn]
      /\ loop' \in [Thread -> Loop]
      /\ \A u \in Thread : loop'[u].events = loop[u].events
      /\ AgreesInv'
  <2> DEFINE f == opened[t]
             ls == Forget(loop, f)
  <2>1. file' = [file EXCEPT ![f] = Free] /\ loop' = ls
    BY <1>1
  <2>2. /\ \A u \in Thread, g \in Desc : g # f => Agrees(loop[u], g, file[g])
        /\ \A u \in Thread, g \in Slots : loop[u].events[g].mask # {} => loop[u].events[g].data \in Conn
    BY LoopsClosable
  <2> HIDE DEF f
  <2>3. /\ file' \in [Desc -> {Free, Other, Epoll} \cup Conn] /\ ls \in [Thread -> Loop]
        /\ \A u \in Thread : ls[u].events = loop[u].events
        /\ \A u \in Thread, g \in Desc : Agrees(ls[u], g, file'[g])
    BY <1>2, <2>1, <2>2, FileClosed
  <2> HIDE DEF ls
  <2>4. AgreesInv'
    BY <2>1, <2>3 DEF AgreesInv
  <2> QED
    BY <2>1, <2>3, <2>4
<1>4. \A u \in Thread : Connecting(u)' => Connecting(u) /\ cur'[u] = cur[u]
  BY <1>1 DEF IInv, TypeInv, Connecting
<1>5. EntriesInv' /\ ConnectingInv'
  BY <1>1, <1>3, <1>4, EntriesKept
<1> QED
  BY <1>1, <1>3, <1>5 DEF IInv, TypeInv, TimersInv

\* The new socket is registered: no other entry was the connection's.
LEMMA Connects ==
    ASSUME IInv, NEW t \in Thread, connect_socket(t)
    PROVE  IInv'
<1> DEFINE f == opened[t]
           c == cur[t]
           l == CreateFileEvent(loop[t], f, RW, "socket_connected", c)
<1>1. /\ Connecting(t) /\ CanCreate(loop[t], f)
      /\ loop' = [loop EXCEPT ![t] = l] /\ fd' = [fd EXCEPT ![c] = f]
      /\ pc' = [pc EXCEPT ![t] = "idle"] /\ cur' = [cur EXCEPT ![t] = NoConn]
      /\ UNCHANGED <<file, unborn, timers>>
  BY DEF connect_socket, BackToLoop, Connecting
<1>2. c \in Conn /\ c[1] = t /\ c \notin unborn
  BY <1>1 DEF IInv, ConnectingInv
<1>3. f \in Nat /\ loop[t] \in Loop
  BY <1>1, DescNat DEF CanCreate, CanControl, IInv, TypeInv
<1>4. Registration(loop[t], f, c, l)
  <2> DEFINE m == RW
             k == "socket_connected"
  <2>1. /\ m \in SUBSET RW
        /\ k \in {"socket_connected", "socket_readable", "socket_writeable"}
        /\ R \in m => k # "socket_writeable"
        /\ W \in m => k # "socket_readable"
    OBVIOUS
  <2>2. l = CreateFileEvent(loop[t], f, m, k, c)
    OBVIOUS
  <2> HIDE DEF m, k, l, f, c
  <2> QED
    BY <1>1, <1>2, <1>3, <2>1, <2>2, Created
<1> HIDE DEF l, f, c
<1>5. /\ l \in Loop /\ f \in Slots /\ f \in Desc /\ file[f] \notin {Free, Other}
      /\ l.events[f].data = c /\ l.epoll[f] = l.events[f].mask
      /\ \A g \in Slots : g # f => l.events[g] = loop[t].events[g]
      /\ \A g \in Desc : g # f => l.epoll[g] = loop[t].epoll[g]
  BY <1>4 DEF Registration
<1>7. TypeInv'
  BY <1>1, <1>2, <1>5 DEF IInv, TypeInv
<1>6. /\ loop'[t] = l /\ pc'[t] = "idle"
      /\ \A u \in Thread \ {t} : loop'[u] = loop[u] /\ pc'[u] = pc[u] /\ cur'[u] = cur[u]
      /\ fd'[c] = f /\ \A d \in Conn \ {c} : fd'[d] = fd[d]
  BY <1>1, <1>2 DEF IInv, TypeInv
<1>8. ASSUME NEW u \in Thread, NEW g \in Slots, loop'[u].events[g].mask # {}
      PROVE  EntryOf(u, g, loop[u].events[g].data)'
  <2>1. CASE u = t /\ g = f
    BY <1>1, <1>2, <1>5, <1>6, <2>1 DEF EntryOf, Connecting
  <2>2. CASE u = t /\ g # f
    <3>1. loop'[u].events[g] = loop[t].events[g]
      BY <1>5, <1>6, <2>2
    <3>2. EntryOf(t, g, loop[t].events[g].data)
      BY <1>8, <3>1 DEF IInv, EntriesInv
    <3>3. loop[t].events[g].data # c
      BY <1>1, <3>2 DEF EntryOf, c
    <3> QED
      BY <1>1, <1>6, <2>2, <3>1, <3>2, <3>3 DEF EntryOf, Connecting
  <2>3. CASE u # t
    <3>1. loop'[u] = loop[u]
      BY <1>6, <2>3
    <3>2. EntryOf(u, g, loop[u].events[g].data)
      BY <1>8, <3>1 DEF IInv, EntriesInv
    <3>3. loop[u].events[g].data # c
      BY <1>2, <2>3, <3>2 DEF EntryOf
    <3> QED
      BY <1>1, <1>6, <2>3, <3>1, <3>2, <3>3 DEF EntryOf, Connecting
  <2> QED
    BY <2>1, <2>2, <2>3
<1>9. EntriesInv'
  BY <1>8 DEF EntriesInv
<1>10. ConnectingInv'
  BY <1>1, <1>6 DEF IInv, ConnectingInv, Connecting
<1>11. ASSUME NEW u \in Thread, NEW g \in Desc
       PROVE  Agrees(loop'[u], g, file[g])
  <2>1. CASE u = t /\ g = f
    BY <1>5, <1>6, <2>1 DEF Agrees
  <2>2. CASE u = t /\ g # f
    <3>1. Agrees(loop[t], g, file[g])
      BY DEF IInv, AgreesInv
    <3> QED
      BY <1>5, <1>6, <2>2, <3>1 DEF Agrees
  <2>3. CASE u # t
    BY <1>6, <2>3 DEF IInv, AgreesInv
  <2> QED
    BY <2>1, <2>2, <2>3
<1>12. AgreesInv'
  BY <1>1, <1>11 DEF AgreesInv
<1> QED
  BY <1>1, <1>7, <1>9, <1>10, <1>12 DEF IInv, TimersInv

\* The handlers that change what the connection is watched for.
LEMMA HandlerInv ==
    ASSUME IInv, NEW t \in Thread, NEW f \in Desc,
           socket_connected(t, f) \/ Delay(t, f) \/ Written(t, f) \/ response_complete(t, f)
    PROVE  IInv'
<1> DEFINE c == loop[t].events[f].data
<1>1. /\ Sound(t, loop[t]) /\ f \in Slots /\ f \in Nat /\ EntryOf(t, f, c) /\ c \in Conn /\ c \notin unborn
  <2>1. Reported(t, f)
    BY DEF socket_connected, Delay, Written, Writable, response_complete
  <2> QED
    BY <2>1, ReportedEntry, LoopSound, DescNat DEF EntryOf
<1>2. fd[c] = f /\ c[1] = t
  BY <1>1 DEF EntryOf
<1>3. ASSUME NEW l, Sound(t, l), Updates(t, l), timers' \in [Conn -> Nat], TimersInv'
      PROVE  IInv'
  BY <1>3, LoopUpdated DEF Updates
<1>4. UNCHANGED timers /\ UNCHANGED unborn => timers' \in [Conn -> Nat] /\ TimersInv'
  BY DEF IInv, TypeInv, TimersInv
<1>5. {R} \in SUBSET RW /\ {W} \in SUBSET RW /\ R # W
  BY DEF RW, R, W
<1>6. CASE socket_connected(t, f)
  <2> DEFINE reads == CreateFileEvent(loop[t], f, {R}, "socket_readable", c)
             both == CreateFileEvent(reads, f, {W}, "socket_writeable", c)
  <2>1. Sound(t, reads)
    BY <1>1, <1>5, Registered
  <2>2. Sound(t, both)
    <3> HIDE DEF reads
    <3> QED
      BY <1>1, <1>5, <2>1, Registered
  <2>3. Updates(t, both) /\ UNCHANGED <<timers, unborn>>
    BY <1>6 DEF socket_connected, Updates
  <2> HIDE DEF both
  <2> QED
    BY <1>3, <1>4, <2>2, <2>3
<1>7. CASE Delay(t, f) \/ Written(t, f)
  <2> DEFINE l == DeleteFileEvent(loop[t], f, {W})
  <2>1. Sound(t, l)
    BY <1>1, <1>5, Unregistered
  <2>2. Updates(t, l) /\ UNCHANGED unborn
    BY <1>7 DEF Delay, Written, Updates
  <2>3. UNCHANGED timers \/ timers' = [timers EXCEPT ![c] = @ + 1]
    BY <1>7 DEF Delay, Written
  <2>4. timers' \in [Conn -> Nat] /\ TimersInv'
    BY <1>1, <2>2, <2>3 DEF IInv, TypeInv, TimersInv
  <2> HIDE DEF l
  <2> QED
    BY <1>3, <2>1, <2>2, <2>4
<1>8. CASE response_complete(t, f)
  <2> DEFINE l == CreateFileEvent(loop[t], f, {W}, "socket_writeable", c)
  <2>1. Sound(t, l)
    BY <1>1, <1>5, Registered
  <2>2. Updates(t, l) /\ UNCHANGED <<timers, unborn>>
    BY <1>2, <1>8 DEF response_complete, Watch, Updates
  <2> HIDE DEF l
  <2> QED
    BY <1>3, <1>4, <2>1, <2>2
<1> QED
  BY <1>6, <1>7, <1>8

LEMMA DelayRequest ==
    ASSUME IInv, NEW c \in Conn, delay_request(c)
    PROVE  IInv'
<1> DEFINE t == c[1]
           l == CreateFileEvent(loop[t], fd[c], {W}, "socket_writeable", c)
<1>1. t \in Thread /\ ~Connecting(t) /\ timers[c] > 0
  BY ConnThread DEF delay_request, Runs, Connecting
<1>2. EntryOf(t, fd[c], c) /\ fd[c] \in Nat /\ Sound(t, loop[t])
  BY <1>1, LoopSound, SlotsNat DEF EntryOf, IInv, TypeInv, TimersInv
<1>3. {W} \in SUBSET RW /\ R \notin {W}
  BY DEF RW, R, W
<1>4. Sound(t, l)
  BY <1>1, <1>2, <1>3, Registered
<1>5. Updates(t, l) /\ timers' = [timers EXCEPT ![c] = @ - 1]
  BY DEF delay_request, Watch
<1>6. timers' \in [Conn -> Nat] /\ TimersInv'
  BY <1>1, <1>5 DEF IInv, TypeInv, TimersInv, Updates
<1> HIDE DEF l
<1> QED
  BY <1>1, <1>4, <1>5, <1>6, LoopUpdated DEF Updates

LEMMA LoopDeleted ==
    ASSUME IInv, NEW t \in Thread, aeDeleteEventLoop(t)
    PROVE  IInv'
<1> DEFINE ls == Forget(loop, epfd[t])
<1>1. /\ file' = [file EXCEPT ![epfd[t]] = Free] /\ loop' = [ls EXCEPT ![t] = NoLoop]
      /\ pc' = [pc EXCEPT ![t] = "ended"]
      /\ UNCHANGED <<cur, fd, unborn, timers>>
  BY DEF aeDeleteEventLoop
<1>2. TypeInv /\ loop \in [Thread -> Loop]
  BY DEF IInv, TypeInv
<1>3. /\ file' \in [Desc -> {Free, Other, Epoll} \cup Conn]
      /\ ls \in [Thread -> Loop]
      /\ \A u \in Thread : ls[u].events = loop[u].events
      /\ \A u \in Thread, g \in Desc : Agrees(ls[u], g, file'[g])
  BY <1>1, <1>2, LoopsClosable, FileClosed
<1> HIDE DEF ls
<1>4. loop'[t] = NoLoop /\ \A u \in Thread \ {t} : loop'[u] = ls[u]
  BY <1>1, <1>3
<1>5. TypeInv'
  BY <1>1, <1>3, NoLoopType DEF IInv, TypeInv
<1>6. \A u \in Thread : Connecting(u)' => Connecting(u) /\ cur'[u] = cur[u]
  BY <1>1, <1>2 DEF TypeInv, Connecting
<1>7. ASSUME NEW u \in Thread, NEW g \in Slots, loop'[u].events[g].mask # {}
      PROVE  EntryOf(u, g, loop[u].events[g].data)'
  <2>1. u # t
    BY <1>4, <1>7, NoLoopType
  <2>2. loop'[u].events = loop[u].events
    BY <1>3, <1>4, <2>1
  <2>3. EntryOf(u, g, loop[u].events[g].data)
    BY <1>7, <2>2 DEF IInv, EntriesInv
  <2> QED
    BY <1>1, <1>6, <2>2, <2>3 DEF EntryOf
<1>8. EntriesInv'
  BY <1>7 DEF EntriesInv
<1>9. ConnectingInv'
  BY <1>1, <1>6 DEF IInv, ConnectingInv
<1>10. ASSUME NEW u \in Thread, NEW g \in Desc
       PROVE  Agrees(loop'[u], g, file'[g])
  BY <1>3, <1>4, NoLoopType DEF Agrees, NoLoop
<1>11. AgreesInv'
  BY <1>10 DEF AgreesInv
<1> QED
  BY <1>1, <1>5, <1>8, <1>9, <1>11 DEF IInv, TimersInv

LEMMA InductiveStep == IInv /\ [Next]_vars => IInv'
<1> SUFFICES ASSUME IInv, [Next]_vars
             PROVE  IInv'
  OBVIOUS
<1>1. CASE Main
  BY <1>1, MainInv
<1>2. ASSUME NEW c \in Conn, delayed_initial_connect(c) \/ delay_request(c)
      PROVE  IInv'
  BY <1>2, InitialConnect, DelayRequest
<1>3. ASSUME NEW t \in Thread, NEW f \in Desc, Handler(t, f)
      PROVE  IInv'
  BY <1>3, Reconnects, HandlerInv DEF Handler
<1>4. ASSUME NEW t \in Thread,
             \/ OpenSocket(t) \/ NoSocket(t) \/ connect_socket(t) \/ ConnectError(t)
             \/ aeDeleteEventLoop(t)
      PROVE  IInv'
  BY <1>4, SocketOpened, NothingOpened, Connects, ConnectFailed, LoopDeleted
<1>5. CASE UNCHANGED vars
  BY <1>5 DEF vars, IInv, TypeInv, EntriesInv, EntryOf, Connecting, ConnectingInv, TimersInv, AgreesInv
<1> QED
  BY <1>1, <1>2, <1>3, <1>4, <1>5 DEF Next

THEOREM Invariant == Spec => []IInv
  BY InitInv, InductiveStep, PTL DEF Spec

\* A connection registered with the socket it has is watched in the directions
\* it asked for (aeApiAddEvent, ae_epoll.c:66), for every number of threads,
\* connections and descriptors, whatever fails and whoever takes its numbers.
THEOREM OwnSocketIsWatched == Spec => []OwnSocketWatched
<1>1. IInv => OwnSocketWatched
  BY DEF IInv, AgreesInv, Agrees, OwnSocketWatched
<1> QED
  BY <1>1, Invariant, PTL

-----------------------------------------------------------------------------
(* The descriptors in use, for a soft limit of n.                           *)

\* The descriptor f is the socket of connection c: the one it has or the one
\* that is being connected.
IsSocketOf(c, f) ==
    /\ c \notin unborn
    /\ IF Connecting(c[1]) /\ cur[c[1]] = c
       THEN pc[c[1]] = "connect" /\ opened[c[1]] = f
       ELSE fd[c] = f

\* Every descriptor is in use by somebody, and each by at most one.
Accounted(f, n) ==
    /\ file[f] = Other => f < Inherited \/ f >= n \/ f = script
    /\ file[f] = Epoll => \E t \in Thread : epfd[t] = f
    /\ \A c \in Conn : file[f] = c => IsSocketOf(c, f)
    /\ f >= n => file[f] = Other

\* Threads that main has not come to have neither a loop nor begun; the script
\* is open only while it is read.
MainInOrder ==
    /\ creating \in Thread
    /\ step \in {"loop", "open", "start"} => \A t \in Thread : t >= creating => pc[t] = "none"
    /\ \A t \in Thread : t > creating \/ (t = creating /\ step = "loop") => epfd[t] = NoFd
    /\ step # "start" => script = NoFd

Below(n) ==
    /\ script \in Int /\ script < n
    /\ epfd \in [Thread -> Int] /\ \A t \in Thread : epfd[t] < n
    /\ opened \in [Thread -> Int] /\ \A t \in Thread : pc[t] = "connect" => opened[t] < n

CountInv(n) ==
    /\ \A f \in Desc : Accounted(f, n)
    /\ MainInOrder /\ Below(n)
    /\ EverySocketFits

\* The connections that the threads share out between them.
LEMMA SharesFit ==
    IsFiniteSet(Conn) /\ Cardinality(Conn) \in Nat /\ Cardinality(Conn) <= Connections
<1>1. /\ Threads \in Nat \ {0} /\ Connections \in Nat
      /\ Share \in Nat /\ Share * Threads <= Connections
  BY FileEventsAssumption DEF Share
<1>2. /\ IsFiniteSet(1..Threads) /\ Cardinality(1..Threads) = Threads
      /\ IsFiniteSet(1..Share) /\ Cardinality(1..Share) = Share
  BY <1>1, FS_Interval
<1> DEFINE A == 1..Threads
           B == 1..Share
<1>5. Conn = A \X B
  BY DEF Conn, Thread
<1>3. IsFiniteSet(Conn) /\ Cardinality(Conn) = Threads * Share
  <2> HIDE DEF A, B
  <2>1. IsFiniteSet(A \X B) /\ Cardinality(A \X B) = Cardinality(A) * Cardinality(B)
    BY <1>2, FS_Product DEF A, B
  <2> QED
    BY <1>2, <1>5, <2>1 DEF A, B
<1>4. Threads * Share = Share * Threads /\ Threads * Share \in Nat
  BY <1>1
<1> QED
  BY <1>1, <1>3, <1>4

\* The sockets of all connections but one, and the loops.
LEMMA FewSockets ==
    ASSUME NEW L, NEW t \in Thread, cur[t] \in Conn, cur[t][1] = t, Connecting(t), pc[t] # "connect",
           \A f \in L : \A c \in Conn : file[f] = c => IsSocketOf(c, f)
    PROVE  LET S == {f \in L : file[f] \in Conn} IN
           IsFiniteSet(S) /\ Cardinality(S) \in Nat /\ Cardinality(S) <= Connections - 1
<1> DEFINE S == {f \in L : file[f] \in Conn}
           C == Conn \ {cur[t]}
           owner == [f \in S |-> file[f]]
<1>1. IsFiniteSet(C) /\ Cardinality(C) = Cardinality(Conn) - 1
  BY SharesFit, FS_RemoveElement
<1>2. ASSUME NEW f \in S PROVE file[f] \in C /\ IsSocketOf(file[f], f)
  BY DEF IsSocketOf
<1>3. ASSUME NEW f \in S, NEW g \in S, file[f] = file[g] PROVE f = g
  <2>1. IsSocketOf(file[f], f) /\ IsSocketOf(file[f], g)
    BY <1>2, <1>3
  <2> QED
    BY <2>1 DEF IsSocketOf
<1>4. owner \in Injection(S, C)
  BY <1>2, <1>3 DEF Injection, IsInjective
<1>5. IsFiniteSet(S) /\ Cardinality(S) <= Cardinality(C)
  <2> HIDE DEF S, C, owner
  <2> QED
    BY <1>1, <1>4, FS_Injection
<1>6. Cardinality(S) \in Nat
  BY <1>5, FS_CardinalityType
<1> HIDE DEF S, C
<1>7. Cardinality(S) <= Connections - 1
  BY <1>1, <1>5, <1>6, SharesFit, FileEventsAssumption
<1> QED
  BY <1>5, <1>6, <1>7 DEF S

LEMMA FewLoops ==
    ASSUME NEW E, E = {epfd[t] : t \in Thread}
    PROVE  IsFiniteSet(E) /\ Cardinality(E) \in Nat /\ Cardinality(E) <= Threads
<1> DEFINE own == [t \in Thread |-> epfd[t]]
<1>1. own \in Surjection(Thread, E)
  BY DEF Surjection
<1>2. IsFiniteSet(Thread) /\ Cardinality(Thread) = Threads
  BY FS_Interval, FileEventsAssumption DEF Thread
<1> HIDE DEF own
<1>3. IsFiniteSet(E) /\ Cardinality(E) <= Threads
  BY <1>1, <1>2, FS_Surjection
<1> QED
  BY <1>3, FS_CardinalityType

LEMMA UnionBound ==
    ASSUME NEW A, NEW B, NEW a \in Int, NEW b \in Int,
           IsFiniteSet(A), Cardinality(A) <= a, IsFiniteSet(B), Cardinality(B) <= b
    PROVE  /\ IsFiniteSet(A \cup B) /\ Cardinality(A \cup B) <= a + b
           /\ a + b \in Int
<1>1. /\ IsFiniteSet(A \cup B)
      /\ Cardinality(A \cup B) = Cardinality(A) + Cardinality(B) - Cardinality(A \cap B)
  BY FS_Union
<1>2. IsFiniteSet(A \cap B)
  BY FS_Intersection
<1>3. Cardinality(A) \in Nat /\ Cardinality(B) \in Nat /\ Cardinality(A \cap B) \in Nat
  BY <1>2, FS_CardinalityType
<1> QED
  BY <1>1, <1>3

\* The kernel gives out the lowest descriptor, and those below it are what the
\* parent left open, the loops, the script and the sockets of the others.
LEMMA NextSocketFits ==
    ASSUME IInv, NEW n \in Nat, CountInv(n), NEW t \in Thread, pc[t] = "socket", FreeDesc # {}
    PROVE  Lowest < SetSize
<1> DEFINE L == 0..Lowest - 1
           A == 0..Inherited - 1
           B == {script}
           E == {epfd[u] : u \in Thread}
           S == {f \in L : file[f] \in Conn}
<1>1. Lowest \in Desc /\ Lowest \in Nat /\ \A g \in FreeDesc : Lowest <= g
  BY LowestFree, DescNat DEF FreeDesc
<1>2. L \subseteq Desc /\ \A f \in L : file[f] # Free
  <2>1. L \subseteq Desc
    <3>1. PICK m \in Limits : Lowest \in 0..m - 1
      BY <1>1 DEF Desc
    <3>2. m \in Nat
      BY FileEventsAssumption
    <3>3. L \subseteq 0..m - 1
      BY <1>1, <3>1, <3>2
    <3> QED
      BY <3>3 DEF Desc
  <2> QED
    BY <1>1, <2>1 DEF FreeDesc
<1>3. file[Lowest] = Free /\ Accounted(Lowest, n)
  BY <1>1, LowestFree DEF FreeDesc, CountInv
<1>4. Lowest < n
  BY <1>1, <1>3, Kinds DEF Accounted
<1>5. ASSUME NEW f \in L PROVE f \in A \cup B \cup E \cup S
  <2>1. f < n /\ f \in Nat /\ Accounted(f, n)
    BY <1>1, <1>2, <1>4 DEF CountInv
  <2>2. file[f] \in {Other, Epoll} \cup Conn
    BY <1>2 DEF IInv, TypeInv
  <2>3. Inherited \in Nat
    BY FileEventsAssumption
  <2> QED
    BY <2>1, <2>2, <2>3 DEF Accounted
<1>6. IsFiniteSet(L) /\ Cardinality(L) = Lowest
  BY <1>1, FS_Interval
<1>7. IsFiniteSet(A) /\ Cardinality(A) = Inherited
  BY FS_Interval, FileEventsAssumption
<1>8. IsFiniteSet(B) /\ Cardinality(B) = 1
  BY FS_Singleton
<1>9. IsFiniteSet(E) /\ Cardinality(E) \in Nat /\ Cardinality(E) <= Threads
  BY FewLoops
<1>10. IsFiniteSet(S) /\ Cardinality(S) \in Nat /\ Cardinality(S) <= Connections - 1
  <2>1. \A f \in L : \A c \in Conn : file[f] = c => IsSocketOf(c, f)
    BY <1>2 DEF CountInv, Accounted
  <2>2. cur[t] \in Conn /\ cur[t][1] = t /\ Connecting(t) /\ pc[t] # "connect"
    BY DEF IInv, ConnectingInv, Connecting
  <2> HIDE DEF L
  <2> QED
    BY <2>1, <2>2, FewSockets
<1>11. /\ Inherited \in Nat /\ Threads \in Nat /\ Connections \in Nat /\ Threads >= 1
       /\ Inherited <= Spare /\ Threads <= Connections /\ Spare \in Nat
  BY FileEventsAssumption
<1> HIDE DEF A, B, E, S, L
<1> DEFINE one == 1
           i1 == Inherited + one
           i2 == i1 + Threads
           i3 == Connections - 1
<1>a. one \in Int /\ i1 \in Int /\ i2 \in Int /\ i3 \in Int /\ Threads \in Int /\ Inherited \in Int
  BY <1>11
<1>b. Cardinality(A) <= Inherited /\ Cardinality(B) <= one /\ Cardinality(S) <= i3
  BY <1>7, <1>8, <1>10, <1>11
<1>12. IsFiniteSet(A \cup B) /\ Cardinality(A \cup B) <= i1
  <2> HIDE DEF one
  <2> QED
    BY <1>7, <1>8, <1>a, <1>b, UnionBound
<1>13. IsFiniteSet(A \cup B \cup E) /\ Cardinality(A \cup B \cup E) <= i2
  <2> HIDE DEF i1
  <2> QED
    BY <1>9, <1>a, <1>12, UnionBound
<1>14. IsFiniteSet(A \cup B \cup E \cup S) /\ Cardinality(A \cup B \cup E \cup S) <= i2 + i3
  <2> HIDE DEF i2, i3
  <2> QED
    BY <1>10, <1>a, <1>b, <1>13, UnionBound
<1>15. Lowest <= Cardinality(A \cup B \cup E \cup S)
  BY <1>5, <1>6, <1>14, FS_Subset
<1>16. Cardinality(A \cup B \cup E \cup S) \in Nat
  BY <1>14, FS_CardinalityType
<1> QED
  BY <1>1, <1>11, <1>14, <1>15, <1>16 DEF SetSize

-----------------------------------------------------------------------------
(* The account is kept.                                                     *)

LEMMA InitCount == ASSUME Init, IInv PROVE \E n \in Limits : CountInv(n)
<1>1. PICK n \in Limits : file = [f \in Desc |-> IF f < Inherited \/ f >= n THEN Other ELSE Free]
  BY DEF Init
<1>2. n \in Nat
  BY FileEventsAssumption
<1>3. ASSUME NEW f \in Desc PROVE Accounted(f, n)
  BY <1>1, Kinds DEF Accounted
<1>4. MainInOrder
  BY FileEventsAssumption DEF Init, MainInOrder, Thread
<1>5. Below(n)
  BY <1>2 DEF Init, Below, NoFd
<1>6. EverySocketFits
  BY DEF Init, EverySocketFits
<1> QED
  BY <1>3, <1>4, <1>5, <1>6 DEF CountInv

\* Nothing is opened, or somebody closes a descriptor.
LEMMA AccountKept ==
    ASSUME NEW n \in Nat, CountInv(n), UNCHANGED <<script, epfd>>,
           \A f \in Desc : file'[f] = file[f] \/ (file'[f] = Free /\ f < n),
           \A f \in Desc, c \in Conn :
               file'[f] = c /\ file[f] = c /\ IsSocketOf(c, f) => IsSocketOf(c, f)'
    PROVE  \A f \in Desc : Accounted(f, n)'
<1> SUFFICES ASSUME NEW f \in Desc PROVE Accounted(f, n)'
  OBVIOUS
<1>1. Accounted(f, n) /\ (file'[f] = file[f] \/ (file'[f] = Free /\ f < n))
  BY DEF CountInv
<1>2. CASE file'[f] = file[f]
  BY <1>1, <1>2 DEF Accounted
<1>3. CASE file'[f] = Free /\ f < n
  BY <1>3, Kinds, DescNat DEF Accounted
<1> QED
  BY <1>1, <1>2, <1>3

\* Nothing is opened or closed.
LEMMA CountUnmoved ==
    ASSUME NEW n \in Nat, CountInv(n),
           UNCHANGED <<file, creating, step, script, epfd, pc, cur, opened, fd, unborn>>
    PROVE  CountInv(n)'
<1>1. \A f \in Desc, c \in Conn : IsSocketOf(c, f) => IsSocketOf(c, f)'
  BY DEF IsSocketOf, Connecting
<1>2. \A f \in Desc : Accounted(f, n)'
  BY <1>1, AccountKept
<1>3. MainInOrder' /\ Below(n)' /\ EverySocketFits'
  BY DEF CountInv, MainInOrder, Below, EverySocketFits
<1> QED
  BY <1>2, <1>3 DEF CountInv

LEMMA InitialConnectCount ==
    ASSUME IInv, NEW n \in Nat, CountInv(n), NEW c \in Conn, delayed_initial_connect(c)
    PROVE  CountInv(n)'
<1> DEFINE t == c[1]
<1>1. t \in Thread /\ c \in unborn /\ pc[t] = "idle"
  BY ConnThread DEF delayed_initial_connect, Runs
<1>2. /\ pc' = [pc EXCEPT ![t] = "socket"] /\ cur' = [cur EXCEPT ![t] = c]
      /\ unborn' = unborn \ {c}
      /\ UNCHANGED <<file, creating, step, script, epfd, opened, fd>>
  BY DEF delayed_initial_connect, mainVars
<1>3. pc \in [Thread -> {"none", "idle", "socket", "connect", "ended"}] /\ cur \in [Thread -> Conn \cup {NoConn}]
  BY DEF IInv, TypeInv
<1> HIDE DEF t
<1>4. ASSUME NEW f \in Desc, NEW d \in Conn, IsSocketOf(d, f)
      PROVE  IsSocketOf(d, f)'
  <2>1. d \notin unborn /\ d # c /\ d \notin unborn'
    BY <1>1, <1>2, <1>4 DEF IsSocketOf
  <2>2. CASE d[1] = t
    BY <1>1, <1>2, <1>3, <1>4, <2>1, <2>2 DEF IsSocketOf, Connecting
  <2>3. CASE d[1] # t
    BY <1>1, <1>2, <1>3, <1>4, <2>1, <2>3, ConnThread DEF IsSocketOf, Connecting
  <2> QED
    BY <2>2, <2>3
<1>5. \A f \in Desc : Accounted(f, n)'
  BY <1>2, <1>4, AccountKept
<1>6. MainInOrder' /\ Below(n)' /\ EverySocketFits'
  BY <1>1, <1>2, <1>3 DEF CountInv, MainInOrder, Below, EverySocketFits
<1> QED
  BY <1>5, <1>6 DEF CountInv

\* A descriptor that is closed for another connection is the only one of it.
LEMMA ReconnectCount ==
    ASSUME IInv, NEW n \in Nat, CountInv(n), NEW t \in Thread, NEW f \in Desc, reconnect_socket(t, f)
    PROVE  CountInv(n)'
<1> DEFINE c == loop[t].events[f].data
<1>1. /\ Reported(t, f) /\ pc[t] = "idle"
      /\ file' = [file EXCEPT ![fd[c]] = Free] /\ cur' = [cur EXCEPT ![t] = c]
      /\ pc' = [pc EXCEPT ![t] = "socket"]
      /\ UNCHANGED <<creating, step, script, epfd, opened, fd, unborn>>
  BY DEF reconnect_socket, Reported, Runs, mainVars
<1>2. EntryOf(t, f, c) /\ f \in Slots /\ loop[t].events[f].mask # {}
  BY <1>1, ReportedEntry
<1> HIDE DEF c
<1>3. c \in Conn /\ c[1] = t /\ c \notin unborn /\ fd[c] = f
  BY <1>2 DEF EntryOf
<1>4. /\ file \in [Desc -> {Free, Other, Epoll} \cup Conn]
      /\ pc \in [Thread -> {"none", "idle", "socket", "connect", "ended"}]
      /\ cur \in [Thread -> Conn \cup {NoConn}]
  BY DEF IInv, TypeInv
<1>5. f < n
  <2>1. Agrees(loop[t], f, file[f])
    BY DEF IInv, AgreesInv
  <2>2. loop[t].epoll[f] # {}
    BY <1>1 DEF Reported
  <2>3. file[f] # Other /\ Accounted(f, n)
    BY <2>1, <2>2 DEF Agrees, CountInv
  <2> QED
    BY <2>3, DescNat DEF Accounted
<1>6. ASSUME NEW g \in Desc, NEW d \in Conn, IsSocketOf(d, g), file'[g] = d
      PROVE  IsSocketOf(d, g)'
  <2>1. g # f /\ d \notin unborn'
    BY <1>1, <1>3, <1>4, <1>6, Kinds DEF IsSocketOf
  <2>2. CASE d[1] = t
    <3>1. ~Connecting(t) /\ fd[d] = g
      BY <1>1, <1>6, <2>2 DEF IsSocketOf, Connecting
    <3>2. d # c
      BY <1>3, <2>1, <3>1
    <3> QED
      BY <1>1, <1>4, <2>1, <2>2, <3>1, <3>2 DEF IsSocketOf, Connecting
  <2>3. CASE d[1] # t
    BY <1>1, <1>4, <1>6, <2>1, <2>3, ConnThread DEF IsSocketOf, Connecting
  <2> QED
    BY <2>2, <2>3
<1>7. \A g \in Desc : file'[g] = file[g] \/ (file'[g] = Free /\ g < n)
  BY <1>1, <1>3, <1>4, <1>5
<1>8. \A g \in Desc : Accounted(g, n)'
  BY <1>1, <1>6, <1>7, AccountKept
<1>9. MainInOrder' /\ Below(n)' /\ EverySocketFits'
  BY <1>1, <1>4 DEF CountInv, MainInOrder, Below, EverySocketFits
<1> QED
  BY <1>8, <1>9 DEF CountInv

LEMMA OpenSocketCount ==
    ASSUME IInv, NEW n \in Nat, CountInv(n), NEW t \in Thread, OpenSocket(t)
    PROVE  CountInv(n)'
<1> DEFINE c == cur[t]
<1>1. /\ pc[t] = "socket" /\ FreeDesc # {} /\ file' = [file EXCEPT ![Lowest] = c]
      /\ opened' = [opened EXCEPT ![t] = Lowest] /\ pc' = [pc EXCEPT ![t] = "connect"]
      /\ UNCHANGED <<creating, step, script, epfd, cur, fd, unborn>>
  BY DEF OpenSocket, mainVars
<1>2. c \in Conn /\ c[1] = t /\ c \notin unborn
  BY <1>1 DEF IInv, ConnectingInv, Connecting
<1>3. Lowest < SetSize
  BY <1>1, NextSocketFits
<1>4. /\ file \in [Desc -> {Free, Other, Epoll} \cup Conn]
      /\ pc \in [Thread -> {"none", "idle", "socket", "connect", "ended"}]
      /\ opened \in [Thread -> Int]
  BY DEF IInv, TypeInv, CountInv, Below
<1>5. Lowest \in Desc /\ Lowest \in Nat /\ file[Lowest] = Free /\ Lowest < n
  <2>1. Lowest \in Desc /\ file[Lowest] = Free
    BY <1>1, LowestFree DEF FreeDesc
  <2>2. Accounted(Lowest, n) /\ Lowest \in Nat
    BY <2>1, DescNat DEF CountInv
  <2> QED
    BY <2>1, <2>2, Kinds DEF Accounted
<1> DEFINE low == Lowest
<1>6. /\ file'[low] = c /\ \A g \in Desc : g # low => file'[g] = file[g]
      /\ opened'[t] = low /\ pc'[t] = "connect"
      /\ \A u \in Thread : u # t => pc'[u] = pc[u] /\ opened'[u] = opened[u]
      /\ low < n /\ low \in Nat /\ low < SetSize /\ low \in Desc
      /\ opened' \in [Thread -> Int]
  BY <1>1, <1>3, <1>4, <1>5
<1> HIDE DEF c, low
<1>7. ASSUME NEW g \in Desc, NEW d \in Conn, file'[g] = d
      PROVE  IsSocketOf(d, g)'
  <2>1. CASE g = low
    BY <1>1, <1>2, <1>6, <1>7, <2>1 DEF IsSocketOf, Connecting, c
  <2>2. CASE g # low
    <3>1. IsSocketOf(d, g)
      BY <1>6, <1>7, <2>2 DEF CountInv, Accounted
    <3>2. CASE d[1] = t
      <4>1. d # c
        BY <1>1, <1>2, <3>1 DEF IsSocketOf, Connecting, c
      <4> QED
        BY <1>1, <1>6, <3>1, <3>2, <4>1 DEF IsSocketOf, Connecting, c
    <3>3. CASE d[1] # t
      BY <1>1, <1>6, <3>1, <3>3, ConnThread DEF IsSocketOf, Connecting
    <3> QED
      BY <3>2, <3>3
  <2> QED
    BY <2>1, <2>2
<1>8. ASSUME NEW g \in Desc PROVE Accounted(g, n)'
  <2>1. CASE g = low
    BY <1>2, <1>6, <1>7, <2>1, Kinds DEF Accounted
  <2>2. CASE g # low
    <3>1. Accounted(g, n)
      BY DEF CountInv
    <3> QED
      BY <1>1, <1>6, <1>7, <2>2, <3>1 DEF Accounted
  <2> QED
    BY <2>1, <2>2
<1>9. MainInOrder'
  BY <1>1, <1>4 DEF CountInv, MainInOrder
<1>10. Below(n)' /\ EverySocketFits'
  BY <1>1, <1>6 DEF CountInv, Below, EverySocketFits
<1> QED
  BY <1>8, <1>9, <1>10 DEF CountInv

\* A handler that connected returns: the other connections keep their sockets.
LEMMA OthersKeep ==
    ASSUME IInv, NEW t \in Thread, Connecting(t), BackToLoop(t), UNCHANGED unborn,
           NEW g \in Desc, NEW d \in Conn, d # cur[t], fd'[d] = fd[d], IsSocketOf(d, g)
    PROVE  IsSocketOf(d, g)'
<1>1. /\ pc \in [Thread -> {"none", "idle", "socket", "connect", "ended"}]
      /\ cur \in [Thread -> Conn \cup {NoConn}]
  BY DEF IInv, TypeInv
<1>2. /\ pc'[t] = "idle"
      /\ \A u \in Thread : u # t => pc'[u] = pc[u] /\ cur'[u] = cur[u] /\ opened'[u] = opened[u]
  BY <1>1 DEF BackToLoop
<1> QED
  BY <1>1, <1>2, ConnThread DEF IsSocketOf, Connecting

LEMMA BackBelow ==
    ASSUME NEW n \in Nat, CountInv(n), IInv, NEW t \in Thread, Connecting(t), BackToLoop(t),
           UNCHANGED mainVars
    PROVE  MainInOrder' /\ Below(n)' /\ EverySocketFits'
<1>1. pc \in [Thread -> {"none", "idle", "socket", "connect", "ended"}] /\ opened \in [Thread -> Int]
  BY DEF IInv, TypeInv, CountInv, Below
<1>2. /\ pc'[t] = "idle" /\ opened' \in [Thread -> Int] /\ pc[t] # "none"
      /\ \A u \in Thread : u # t => pc'[u] = pc[u] /\ opened'[u] = opened[u]
  BY <1>1 DEF BackToLoop, Connecting
<1>3. MainInOrder'
  BY <1>2 DEF CountInv, MainInOrder, mainVars
<1>4. Below(n)' /\ EverySocketFits'
  BY <1>2 DEF CountInv, Below, EverySocketFits, mainVars
<1> QED
  BY <1>3, <1>4

LEMMA NoSocketCount ==
    ASSUME IInv, NEW n \in Nat, CountInv(n), NEW t \in Thread, NoSocket(t)
    PROVE  CountInv(n)'
<1>1. /\ pc[t] = "socket" /\ Connecting(t) /\ BackToLoop(t) /\ UNCHANGED mainVars
      /\ UNCHANGED <<file, fd, unborn>> /\ UNCHANGED <<script, epfd>>
  BY DEF NoSocket, Connecting, mainVars
<1>2. cur[t] \in Conn /\ cur[t][1] = t
  BY <1>1 DEF IInv, ConnectingInv
<1>3. ASSUME NEW g \in Desc, NEW d \in Conn, IsSocketOf(d, g)
      PROVE  IsSocketOf(d, g)'
  <2>1. d # cur[t]
    BY <1>1, <1>2, <1>3 DEF IsSocketOf
  <2> QED
    BY <1>1, <1>3, <2>1, OthersKeep
<1>4. \A g \in Desc : Accounted(g, n)'
  BY <1>1, <1>3, AccountKept
<1> QED
  BY <1>1, <1>4, BackBelow DEF CountInv

LEMMA ConnectCount ==
    ASSUME IInv, NEW n \in Nat, CountInv(n), NEW t \in Thread, connect_socket(t)
    PROVE  CountInv(n)'
<1>1. /\ pc[t] = "connect" /\ Connecting(t) /\ BackToLoop(t) /\ UNCHANGED mainVars
      /\ fd' = [fd EXCEPT ![cur[t]] = opened[t]]
      /\ UNCHANGED <<file, unborn>> /\ UNCHANGED <<script, epfd>>
  BY DEF connect_socket, Connecting, mainVars
<1>2. cur[t] \in Conn /\ cur[t][1] = t
  BY <1>1 DEF IInv, ConnectingInv
<1>3. /\ fd \in [Conn -> Slots] /\ pc'[t] = "idle"
  BY <1>1 DEF IInv, TypeInv, BackToLoop
<1>4. ASSUME NEW g \in Desc, NEW d \in Conn, IsSocketOf(d, g)
      PROVE  IsSocketOf(d, g)'
  <2>1. CASE d = cur[t]
    <3>1. opened[t] = g /\ d \notin unborn'
      BY <1>1, <1>2, <1>4, <2>1 DEF IsSocketOf
    <3>2. fd'[d] = g /\ ~Connecting(d[1])'
      BY <1>1, <1>2, <1>3, <2>1, <3>1 DEF Connecting
    <3> QED
      BY <3>1, <3>2 DEF IsSocketOf
  <2>2. CASE d # cur[t]
    <3>1. fd'[d] = fd[d]
      BY <1>1, <1>3, <2>2
    <3> QED
      BY <1>1, <1>4, <2>2, <3>1, OthersKeep
  <2> QED
    BY <2>1, <2>2
<1>5. \A g \in Desc : Accounted(g, n)'
  BY <1>1, <1>4, AccountKept
<1> QED
  BY <1>1, <1>5, BackBelow DEF CountInv

LEMMA ConnectErrorCount ==
    ASSUME IInv, NEW n \in Nat, CountInv(n), NEW t \in Thread, ConnectError(t)
    PROVE  CountInv(n)'
<1>1. /\ pc[t] = "connect" /\ Connecting(t) /\ BackToLoop(t) /\ UNCHANGED mainVars
      /\ file' = [file EXCEPT ![opened[t]] = Free]
      /\ UNCHANGED <<fd, unborn>> /\ UNCHANGED <<script, epfd>>
  BY DEF ConnectError, Connecting, mainVars
<1>2. cur[t] \in Conn /\ cur[t][1] = t
  BY <1>1 DEF IInv, ConnectingInv
<1>3. file \in [Desc -> {Free, Other, Epoll} \cup Conn] /\ opened[t] < n
  BY <1>1 DEF IInv, TypeInv, CountInv, Below
<1>4. ASSUME NEW g \in Desc, NEW d \in Conn, IsSocketOf(d, g), file'[g] = d
      PROVE  IsSocketOf(d, g)'
  <2>1. d # cur[t]
    <3>1. SUFFICES ASSUME d = cur[t] PROVE FALSE
      OBVIOUS
    <3>2. opened[t] = g
      BY <1>1, <1>2, <1>4, <3>1 DEF IsSocketOf
    <3> QED
      BY <1>1, <1>3, <1>4, <3>2, Kinds
  <2> QED
    BY <1>1, <1>4, <2>1, OthersKeep
<1>5. \A g \in Desc : file'[g] = file[g] \/ (file'[g] = Free /\ g < n)
  BY <1>1, <1>3
<1>6. \A g \in Desc : Accounted(g, n)'
  BY <1>1, <1>4, <1>5, AccountKept
<1> QED
  BY <1>1, <1>6, BackBelow DEF CountInv

LEMMA LoopDeletedCount ==
    ASSUME IInv, NEW n \in Nat, CountInv(n), NEW t \in Thread, aeDeleteEventLoop(t)
    PROVE  CountInv(n)'
<1>1. /\ pc[t] = "idle" /\ pc' = [pc EXCEPT ![t] = "ended"]
      /\ file' = [file EXCEPT ![epfd[t]] = Free]
      /\ UNCHANGED <<creating, step, script, epfd, cur, opened, fd, unborn>>
  BY DEF aeDeleteEventLoop, Runs, mainVars
<1>2. /\ file \in [Desc -> {Free, Other, Epoll} \cup Conn] /\ epfd[t] < n
      /\ pc \in [Thread -> {"none", "idle", "socket", "connect", "ended"}]
  BY DEF IInv, TypeInv, CountInv, Below
<1>3. pc'[t] = "ended" /\ \A u \in Thread : u # t => pc'[u] = pc[u]
  BY <1>1, <1>2
<1>4. \A g \in Desc, d \in Conn : IsSocketOf(d, g) => IsSocketOf(d, g)'
  BY <1>1, <1>3, ConnThread DEF IsSocketOf, Connecting
<1>5. \A g \in Desc : file'[g] = file[g] \/ (file'[g] = Free /\ g < n)
  BY <1>1, <1>2
<1>6. \A g \in Desc : Accounted(g, n)'
  BY <1>1, <1>4, <1>5, AccountKept
<1>7. MainInOrder' /\ Below(n)' /\ EverySocketFits'
  BY <1>1, <1>3 DEF CountInv, MainInOrder, Below, EverySocketFits
<1> QED
  BY <1>6, <1>7 DEF CountInv

\* The descriptor that main is given.
LEMMA MainLowest ==
    ASSUME IInv, NEW n \in Nat, CountInv(n), FreeDesc # {},
           NEW k \in {Epoll, Other}, file' = [file EXCEPT ![Lowest] = k]
    PROVE  /\ Lowest \in Nat /\ Lowest \in Desc /\ Lowest < n
           /\ file'[Lowest] = k /\ \A g \in Desc : g # Lowest => file'[g] = file[g]
<1>1. Lowest \in Desc /\ file[Lowest] = Free
  BY LowestFree DEF FreeDesc
<1>2. Accounted(Lowest, n) /\ Lowest \in Nat /\ file \in [Desc -> {Free, Other, Epoll} \cup Conn]
  BY <1>1, DescNat DEF CountInv, IInv, TypeInv
<1> QED
  BY <1>1, <1>2, Kinds DEF Accounted

LEMMA LoopCreatedCount ==
    ASSUME IInv, NEW n \in Nat, CountInv(n), aeCreateEventLoop
    PROVE  CountInv(n)'
<1> DEFINE low == Lowest
<1>1. /\ step = "loop" /\ FreeDesc # {} /\ file' = [file EXCEPT ![Lowest] = Epoll]
      /\ epfd' = [epfd EXCEPT ![creating] = low] /\ step' = "open"
      /\ UNCHANGED <<creating, script, pc, cur, opened, fd, unborn>>
  BY DEF aeCreateEventLoop
<1>2. /\ low \in Nat /\ low \in Desc /\ low < n
      /\ file'[low] = Epoll /\ \A g \in Desc : g # low => file'[g] = file[g]
  BY <1>1, MainLowest
<1> HIDE DEF low
<1>3. /\ epfd \in [Thread -> Int] /\ creating \in Thread /\ epfd[creating] = NoFd
      /\ \A t \in Thread : t > creating => epfd[t] = NoFd
  BY <1>1 DEF CountInv, Below, MainInOrder
<1>4. /\ epfd'[creating] = low /\ \A t \in Thread : t # creating => epfd'[t] = epfd[t]
      /\ epfd' \in [Thread -> Int]
  BY <1>1, <1>2, <1>3
<1>5. \A g \in Desc, d \in Conn : IsSocketOf(d, g) => IsSocketOf(d, g)'
  BY <1>1 DEF IsSocketOf, Connecting
<1>6. ASSUME NEW g \in Desc PROVE Accounted(g, n)'
  <2>1. CASE g = low
    BY <1>2, <1>3, <1>4, <2>1, Kinds DEF Accounted
  <2>2. CASE g # low
    <3>1. Accounted(g, n) /\ file'[g] = file[g]
      BY <1>2, <2>2 DEF CountInv
    <3>2. file[g] = Epoll => \E t \in Thread : epfd'[t] = g
      <4>1. SUFFICES ASSUME file[g] = Epoll PROVE \E t \in Thread : epfd'[t] = g
        OBVIOUS
      <4>2. PICK t \in Thread : epfd[t] = g
        BY <3>1, <4>1 DEF Accounted
      <4>3. t # creating
        BY <1>3, <4>2, DescNat DEF NoFd
      <4> QED
        BY <1>4, <4>2, <4>3
    <3> QED
      BY <1>1, <1>5, <3>1, <3>2 DEF Accounted
  <2> QED
    BY <2>1, <2>2
<1>7. MainInOrder'
  <2>1. \A t \in Thread : t > creating => t # creating
    BY <1>3 DEF Thread
  <2> QED
    BY <1>1, <1>3, <1>4, <2>1 DEF CountInv, MainInOrder
<1>8. Below(n)' /\ EverySocketFits'
  BY <1>1, <1>2, <1>4 DEF CountInv, Below, EverySocketFits
<1> QED
  BY <1>6, <1>7, <1>8 DEF CountInv

LEMMA OpenScriptCount ==
    ASSUME IInv, NEW n \in Nat, CountInv(n), OpenScript
    PROVE  CountInv(n)'
<1> DEFINE low == Lowest
<1>1. /\ step = "open" /\ FreeDesc # {} /\ file' = [file EXCEPT ![Lowest] = Other]
      /\ script' = low /\ step' = "start"
      /\ UNCHANGED <<creating, epfd, pc, cur, opened, fd, unborn>>
  BY DEF OpenScript
<1>2. /\ low \in Nat /\ low \in Desc /\ low < n
      /\ file'[low] = Other /\ \A g \in Desc : g # low => file'[g] = file[g]
  BY <1>1, MainLowest
<1> HIDE DEF low
<1>3. script = NoFd
  BY <1>1 DEF CountInv, MainInOrder
<1>4. \A g \in Desc, d \in Conn : IsSocketOf(d, g) => IsSocketOf(d, g)'
  BY <1>1 DEF IsSocketOf, Connecting
<1>5. ASSUME NEW g \in Desc PROVE Accounted(g, n)'
  <2>1. CASE g = low
    BY <1>1, <1>2, <2>1, Kinds DEF Accounted
  <2>2. CASE g # low
    <3>1. Accounted(g, n) /\ file'[g] = file[g] /\ g # NoFd
      BY <1>2, <2>2, DescNat DEF CountInv, NoFd
    <3> QED
      BY <1>1, <1>3, <1>4, <3>1 DEF Accounted
  <2> QED
    BY <2>1, <2>2
<1>6. MainInOrder'
  BY <1>1 DEF CountInv, MainInOrder
<1>7. Below(n)' /\ EverySocketFits'
  BY <1>1, <1>2 DEF CountInv, Below, EverySocketFits
<1> QED
  BY <1>5, <1>6, <1>7 DEF CountInv

\* The script is closed, and the first thread that has not begun may begin.
LEMMA ScriptClosedCount ==
    ASSUME IInv, NEW n \in Nat, CountInv(n), CloseScript, step = "start",
           UNCHANGED <<epfd, cur, opened, fd, unborn>>,
           pc' = [pc EXCEPT ![creating] = "idle"] \/ UNCHANGED pc
    PROVE  /\ \A g \in Desc : Accounted(g, n)'
           /\ Below(n)' /\ EverySocketFits' /\ script' = NoFd
           /\ \A t \in Thread : pc'[t] = pc[t] \/ (t = creating /\ pc'[t] = "idle")
<1>1. /\ creating \in Thread /\ pc[creating] = "none" /\ script \in Int /\ script < n
      /\ pc \in [Thread -> {"none", "idle", "socket", "connect", "ended"}]
      /\ file \in [Desc -> {Free, Other, Epoll} \cup Conn]
  BY DEF CountInv, MainInOrder, Below, IInv, TypeInv, Thread
<1>2. \A t \in Thread : pc'[t] = pc[t] \/ (t = creating /\ pc'[t] = "idle")
  BY <1>1
<1>3. \A g \in Desc, d \in Conn : IsSocketOf(d, g) => IsSocketOf(d, g)'
  BY <1>1, <1>2, ConnThread DEF IsSocketOf, Connecting
<1>4. script' = NoFd
  BY DEF CloseScript
<1>5. ASSUME NEW g \in Desc PROVE Accounted(g, n)'
  <2>1. Accounted(g, n) /\ g # NoFd
    BY DescNat DEF CountInv, NoFd
  <2>2. CASE script = NoFd
    <3>1. file' = file
      BY <2>2 DEF CloseScript
    <3> QED
      BY <1>3, <1>4, <2>1, <2>2, <3>1 DEF Accounted
  <2>3. CASE script # NoFd
    <3>1. file' = [file EXCEPT ![script] = Free]
      BY <2>3 DEF CloseScript
    <3>2. CASE g = script
      BY <1>1, <3>1, <3>2, DescNat, Kinds DEF Accounted
    <3>3. CASE g # script
      <4>1. file'[g] = file[g]
        BY <3>1, <3>3, <1>1
      <4> QED
        BY <1>3, <2>1, <3>3, <4>1 DEF Accounted
    <3> QED
      BY <3>2, <3>3
  <2> QED
    BY <2>2, <2>3
<1>6. Below(n)' /\ EverySocketFits'
  BY <1>2, <1>4 DEF CountInv, Below, EverySocketFits, NoFd
<1> QED
  BY <1>2, <1>4, <1>5, <1>6

LEMMA StartThreadCount ==
    ASSUME IInv, NEW n \in Nat, CountInv(n), StartThread
    PROVE  CountInv(n)'
<1>1. /\ CloseScript /\ step = "start" /\ UNCHANGED <<epfd, cur, opened, fd, unborn>>
      /\ pc' = [pc EXCEPT ![creating] = "idle"]
      /\ \/ creating < Threads /\ creating' = creating + 1 /\ step' = "loop"
         \/ creating' = creating /\ step' = "done"
  BY DEF StartThread
<1>2. /\ \A g \in Desc : Accounted(g, n)'
      /\ Below(n)' /\ EverySocketFits' /\ script' = NoFd
      /\ \A t \in Thread : pc'[t] = pc[t] \/ (t = creating /\ pc'[t] = "idle")
  BY <1>1, ScriptClosedCount
<1>3. /\ creating \in Thread /\ Threads \in Nat /\ Thread = 1..Threads
      /\ \A t \in Thread : t >= creating => pc[t] = "none"
      /\ \A t \in Thread : t > creating => epfd[t] = NoFd
  BY <1>1, FileEventsAssumption DEF CountInv, MainInOrder, Thread
<1>4. ASSUME creating' = creating, step' = "done" PROVE MainInOrder'
  BY <1>1, <1>2, <1>3, <1>4 DEF MainInOrder
<1>5. ASSUME creating < Threads, creating' = creating + 1, step' = "loop" PROVE MainInOrder'
  <2>1. creating' \in Thread /\ \A t \in Thread : t >= creating' => t > creating /\ t >= creating /\ t # creating
    BY <1>3, <1>5
  <2>2. \A t \in Thread : t > creating' \/ t = creating' => t >= creating'
    BY <2>1, <1>3
  <2> QED
    BY <1>1, <1>2, <1>3, <1>5, <2>1, <2>2 DEF MainInOrder
<1>6. MainInOrder'
  BY <1>1, <1>4, <1>5 DEF MainInOrder
<1> QED
  BY <1>2, <1>6 DEF CountInv

LEMMA NoThreadCount ==
    ASSUME IInv, NEW n \in Nat, CountInv(n), NoThread
    PROVE  CountInv(n)'
<1>1. /\ CloseScript /\ step = "start" /\ UNCHANGED <<epfd, cur, opened, fd, unborn>>
      /\ UNCHANGED pc /\ creating' = creating /\ step' = "exit"
  BY DEF NoThread
<1>2. /\ \A g \in Desc : Accounted(g, n)'
      /\ Below(n)' /\ EverySocketFits' /\ script' = NoFd
  BY <1>1, ScriptClosedCount
<1>3. MainInOrder'
  BY <1>1, <1>2 DEF CountInv, MainInOrder
<1> QED
  BY <1>2, <1>3 DEF CountInv

\* main goes on without the descriptor.
LEMMA MainWithoutCount ==
    ASSUME NEW n \in Nat, CountInv(n), NoEventLoop \/ NoFile
    PROVE  CountInv(n)'
<1>1. /\ (step = "loop" /\ step' = "open") \/ (step = "open" /\ step' = "start")
      /\ UNCHANGED <<file, creating, script, epfd, pc, cur, opened, fd, unborn>>
  BY DEF NoEventLoop, NoFile
<1>2. \A g \in Desc, d \in Conn : IsSocketOf(d, g) => IsSocketOf(d, g)'
  BY <1>1 DEF IsSocketOf, Connecting
<1>3. \A g \in Desc : Accounted(g, n)'
  BY <1>1, <1>2, AccountKept
<1>4. MainInOrder' /\ Below(n)' /\ EverySocketFits'
  BY <1>1 DEF CountInv, MainInOrder, Below, EverySocketFits
<1> QED
  BY <1>3, <1>4 DEF CountInv

LEMMA CountStep ==
    ASSUME IInv, NEW n \in Nat, CountInv(n), [Next]_vars
    PROVE  CountInv(n)'
<1>1. CASE Main
  BY <1>1, LoopCreatedCount, OpenScriptCount, StartThreadCount, NoThreadCount, MainWithoutCount DEF Main
<1>2. ASSUME NEW c \in Conn, delayed_initial_connect(c)
      PROVE  CountInv(n)'
  BY <1>2, InitialConnectCount
<1>3. ASSUME NEW t \in Thread,
             OpenSocket(t) \/ NoSocket(t) \/ connect_socket(t) \/ ConnectError(t) \/ aeDeleteEventLoop(t)
      PROVE  CountInv(n)'
  BY <1>3, OpenSocketCount, NoSocketCount, ConnectCount, ConnectErrorCount, LoopDeletedCount
<1>4. ASSUME NEW t \in Thread, NEW f \in Desc, reconnect_socket(t, f)
      PROVE  CountInv(n)'
  BY <1>4, ReconnectCount
<1>5. CASE UNCHANGED <<file, creating, step, script, epfd, pc, cur, opened, fd, unborn>>
  BY <1>5, CountUnmoved
<1>6. ASSUME NEW c \in Conn, delay_request(c)
      PROVE  CountInv(n)'
  BY <1>5, <1>6 DEF delay_request, Updates, mainVars
<1>7. ASSUME NEW t \in Thread, NEW f \in Desc,
             socket_connected(t, f) \/ Delay(t, f) \/ Written(t, f) \/ response_complete(t, f)
      PROVE  CountInv(n)'
  BY <1>5, <1>7 DEF socket_connected, Delay, Written, response_complete, Updates, mainVars
<1>8. CASE UNCHANGED vars
  BY <1>5, <1>8 DEF vars
<1> QED
  BY <1>1, <1>2, <1>3, <1>4, <1>6, <1>7, <1>8 DEF Next, Handler

\* The table has a slot for every socket a thread may get (wrk.c:138,
\* ae.c:108), for every number of threads and connections, any limit on the
\* descriptors of the process and whatever fails: the connections of all
\* threads, their loops, the script and what the parent left open are fewer.
THEOREM SocketsFit == Spec => []EverySocketFits
<1> DEFINE Counted == \E n \in Limits : CountInv(n)
<1>1. Init => Counted
  BY InitCount, InitInv
<1>2. IInv /\ Counted /\ [Next]_vars => Counted'
  <2>1. SUFFICES ASSUME IInv, Counted, [Next]_vars PROVE Counted'
    OBVIOUS
  <2>2. PICK n \in Limits : CountInv(n)
    BY <2>1
  <2>3. n \in Nat
    BY FileEventsAssumption
  <2>4. CountInv(n)'
    BY <2>1, <2>2, <2>3, CountStep
  <2> QED
    BY <2>4
<1>3. Counted => EverySocketFits
  BY DEF CountInv
<1> HIDE DEF Counted
<1> QED
  BY <1>1, <1>2, <1>3, Invariant, PTL DEF Spec
=============================================================================
