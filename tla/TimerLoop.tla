----------------------------- MODULE TimerLoop ------------------------------
(***************************************************************************)
(* The timers of an event loop (src/src/ae.c): the list of time events,    *)
(* how long aeProcessEvents sleeps, and the pass of processTimeEvents over *)
(* the list while handlers change it.  The handlers are those wrk sets     *)
(* timers for.  Times are milliseconds from now: a timer is due when its   *)
(* `left` is not positive.                                                 *)
(***************************************************************************)
EXTENDS Integers, Sequences, SequencesExt

CONSTANTS
    Period,       \* what check_timeouts and sample_rate return
    Delays,       \* what delay_request returns, and is first set with
    Second,       \* 1000: the timeout is made of seconds and a remainder
    MaxBack,      \* bound: how far the wall clock is set back in a behaviour
    MaxId         \* bound: timers created in a behaviour

ASSUME TimerLoopAssumption ==
    /\ Period \in Nat \ {0} /\ Second \in Nat \ {0}
    /\ Delays \subseteq Nat \ {0}
    /\ MaxBack \in Nat
    /\ MaxId \in Nat /\ MaxId >= 2     \* Init creates three

Forever == -1     \* tvp == NULL

VARIABLES
    timers,       \* from timeEventHead on: the latest timer is first
    nextId,       \* timeEventNextId
    pc,           \* "loop", "sleep", "files" or "timers"
    sleepLeft,    \* what is left of the timeout of epoll_wait
    maxId, te,    \* of the pass: newest timer it runs, position in the list
    skewed,       \* the second of the clock is before eventLoop->lastTime
    back,         \* how far the clock has been set back
    dueSince,     \* history: timers due when the pass began and ever since
    ran           \* history: timers the pass has run

vars == <<timers, nextId, pc, sleepLeft, maxId, te, skewed, back, dueSince, ran>>

-----------------------------------------------------------------------------
Due(t) == t.left <= 0
Positions == DOMAIN timers

\* A timer that is overdue by more than Floor stays so however far the clock may
\* still be set back; of its time only the part of a second matters.
Floor == Second + MaxBack
Longest(left) == ((left + Floor) % Second) - Floor
Forward(ts, n) == [i \in DOMAIN ts |-> [ts[i] EXCEPT !.left =
                      IF @ - n < -Floor THEN Longest(@ - n) ELSE @ - n]]

\* aeCreateTimeEvent: on the head of the list, with the next id.  Mutant: on
\* its tail.
aeCreateTimeEvent_AtTail(ts, id, kind, left) ==
    Append(ts, [id |-> id, kind |-> kind, left |-> left, retried |-> FALSE])
aeCreateTimeEvent(ts, id, kind, left) ==
    <<[id |-> id, kind |-> kind, left |-> left, retried |-> FALSE]>> \o ts

\* aeDeleteTimeEvent: the timer with that id, if there is one, is unlinked.
aeDeleteTimeEvent(ts, id) ==
    IF \E i \in DOMAIN ts : ts[i].id = id
    THEN RemoveAt(ts, CHOOSE i \in DOMAIN ts : ts[i].id = id)
    ELSE ts

\* A handler that does not return AE_NOMORE has its timer set again, from now
\* on.  Mutant: what it returned is forgotten.
Rearm_Forgotten(ts, id, ms) == ts
Rearm(ts, id, ms) ==
    [i \in DOMAIN ts |-> IF ts[i].id = id
                         THEN [ts[i] EXCEPT !.left = ms, !.retried = TRUE] ELSE ts[i]]

\* aeSearchNearestTimer, and the timeout made from it: seconds, which are cut to
\* 0 when they are negative, and the part of a second, which is kept when they
\* are.  Mutant: they are not cut, and a negative timeout has no end.
Nearest == CHOOSE i \in Positions : \A j \in Positions : timers[i].left <= timers[j].left

SleepTime_NotCut ==
    IF timers = <<>> \/ timers[Nearest].left < 0 THEN Forever ELSE timers[Nearest].left
SleepTime ==
    IF timers = <<>> THEN Forever
    ELSE LET left == timers[Nearest].left IN IF left < 0 THEN left % Second ELSE left

-----------------------------------------------------------------------------
Sleep ==
    /\ pc = "loop"
    /\ sleepLeft' = SleepTime
    /\ pc' = "sleep"
    /\ UNCHANGED <<timers, nextId, maxId, te, skewed, back, dueSince, ran>>

\* epoll_wait returns: the timeout is over or some descriptor is ready.
WakeTimeout ==
    /\ pc = "sleep" /\ sleepLeft = 0
    /\ pc' = "files"
    /\ UNCHANGED <<timers, nextId, sleepLeft, maxId, te, skewed, back,
                   dueSince, ran>>

WakeReady ==
    /\ pc = "sleep" /\ sleepLeft # 0
    /\ pc' = "files" /\ sleepLeft' = 0
    /\ UNCHANGED <<timers, nextId, maxId, te, skewed, back, dueSince, ran>>

\* A file handler (socket_writeable) delays its batch.
SetDelay(d) ==
    /\ pc = "files" /\ nextId <= MaxId
    /\ timers' = aeCreateTimeEvent(timers, nextId, "delay", d)
    /\ nextId' = nextId + 1
    /\ UNCHANGED <<pc, sleepLeft, maxId, te, skewed, back, dueSince, ran>>

\* processTimeEvents begins: after a step back of the clock that is noticed
\* (it is compared in seconds) every timer is made due.
Newest == nextId - 1

StartPass ==
    LET ts == IF skewed THEN [i \in Positions |-> [timers[i] EXCEPT !.left = Longest(@)]]
                        ELSE timers
    IN /\ pc = "files"
       /\ timers' = ts
       /\ skewed' = FALSE
       /\ maxId' = Newest /\ te' = 1
       /\ ran' = {}
       /\ dueSince' = {ts[i].id : i \in {j \in Positions : Due(ts[j])}}
       /\ pc' = "timers"
       /\ UNCHANGED <<nextId, sleepLeft, back>>

\* Is the pass to run this timer?  Mutant: it runs those created meanwhile.
Old_All(t) == TRUE
Old(t) == t.id <= maxId

PassOver ==
    /\ pc = "timers" /\ te \in Positions
    /\ ~Old(timers[te]) \/ ~Due(timers[te])
    /\ te' = te + 1
    /\ UNCHANGED <<timers, nextId, pc, sleepLeft, maxId, skewed, back,
                   dueSince, ran>>

\* After a handler the walk starts again.  Mutant: it goes on where it was,
\* one past the place of a timer that may be gone.
Restart_GoesOn == te + 1
Restart == 1

Runs(kind) == /\ pc = "timers" /\ te \in Positions
              /\ Old(timers[te]) /\ Due(timers[te]) /\ timers[te].kind = kind
              /\ ran' = ran \cup {timers[te].id}
              /\ te' = Restart
              /\ UNCHANGED <<pc, sleepLeft, maxId, skewed, back, dueSince>>

\* delayed_initial_connect, and delay_request when the batch is due: the timer
\* is deleted (AE_NOMORE).
RunOnce ==
    /\ \/ Runs("once") \/ Runs("delay")
    /\ timers' = aeDeleteTimeEvent(timers, timers[te].id)
    /\ UNCHANGED nextId

\* delay_request too early: once in a wait, and more often only after the clock
\* was set back (Pacing, EarlyAtMostOnce).
RunAgain(d) ==
    /\ Runs("delay") /\ (timers[te].retried => back > 0)
    /\ timers' = Rearm(timers, timers[te].id, d)
    /\ UNCHANGED nextId

\* check_timeouts and sample_rate.
RunPeriodic ==
    /\ Runs("periodic")
    /\ timers' = Rearm(timers, timers[te].id, Period)
    /\ UNCHANGED nextId

\* calibrate sets the timer of sample_rate and ends.
RunCalibrate ==
    /\ Runs("calibrate") /\ nextId <= MaxId
    /\ timers' = aeDeleteTimeEvent(aeCreateTimeEvent(timers, nextId, "periodic", Period),
                                   timers[te].id)
    /\ nextId' = nextId + 1

\* calibrate that finds a mean of zero tries again later.
RunCalibrateLater ==
    /\ Runs("calibrate")
    /\ timers' = Rearm(timers, timers[te].id, Period)
    /\ UNCHANGED nextId

EndPass ==
    /\ pc = "timers" /\ te \notin Positions
    /\ pc' = "loop"
    /\ UNCHANGED <<timers, nextId, sleepLeft, maxId, te, skewed, back,
                   dueSince, ran>>

-----------------------------------------------------------------------------
\* A millisecond passes, in a handler of the pass as well as anywhere else.
Tick ==
    /\ timers' = Forward(timers, 1)
    /\ sleepLeft' = IF pc = "sleep" /\ sleepLeft > 0 THEN sleepLeft - 1 ELSE sleepLeft
    /\ UNCHANGED <<nextId, pc, maxId, te, skewed, back, dueSince, ran>>

\* The wall clock is set back, which the timeout of epoll_wait does not see, and
\* a pass does at the next timer it looks at.
SetBack(n) ==
    LET ts == Forward(timers, -n) IN
    /\ back + n <= MaxBack
    /\ back' = back + n
    /\ timers' = ts
    /\ skewed' \in {skewed, TRUE}
    /\ dueSince' = {id \in dueSince : \/ pc # "timers" \/ id \in ran
                                      \/ \E i \in Positions : ts[i].id = id /\ Due(ts[i])}
    /\ UNCHANGED <<nextId, pc, sleepLeft, maxId, te, ran>>

Init ==
    /\ timers = aeCreateTimeEvent(aeCreateTimeEvent(aeCreateTimeEvent(<<>>,
                    0, "once", 0), 1, "calibrate", Period), 2, "periodic", Period)
    /\ nextId = 3
    /\ pc = "loop" /\ sleepLeft = 0
    /\ maxId = -1 /\ te = 1
    /\ skewed = FALSE /\ back = 0
    /\ dueSince = {} /\ ran = {}

\* What the thread does by itself, and what a ready descriptor makes it do.
RunTimer ==
    \/ RunOnce \/ RunPeriodic \/ RunCalibrate \/ RunCalibrateLater
    \/ \E d \in Delays : RunAgain(d)
Thread == Sleep \/ WakeTimeout \/ StartPass \/ PassOver \/ RunTimer \/ EndPass
Descriptors == WakeReady \/ \E d \in Delays : SetDelay(d)

Next == Thread \/ Descriptors \/ Tick \/ \E n \in 1..MaxBack : SetBack(n)

Spec == Init /\ [][Next]_vars

\* The thread runs; time may stand still, and descriptors owe nothing.
FairSpec == Spec /\ WF_vars(Thread)

-----------------------------------------------------------------------------
(* Properties.                                                              *)

Kinds == {"once", "delay", "periodic", "calibrate"}
Events == [id : 0..MaxId, kind : Kinds, left : Int, retried : BOOLEAN]

\* The list is in order of creation, latest first, without repetitions: the
\* comparison with maxId depends on it.
TypeOK ==
    /\ timers \in Seq(Events)
    /\ \A i, j \in Positions : i < j => timers[i].id > timers[j].id
    /\ nextId \in 0..MaxId + 1 /\ \A i \in Positions : timers[i].id < nextId
    /\ pc \in {"loop", "sleep", "files", "timers"}
    /\ sleepLeft \in Nat \cup {Forever}
    /\ maxId \in -1..MaxId /\ te \in 1..Len(timers) + 1
    /\ skewed \in BOOLEAN /\ back \in 0..MaxBack
    /\ dueSince \subseteq 0..MaxId /\ ran \subseteq 0..MaxId

\* A pass runs every timer that was due when it began, although the handlers
\* change the list it walks, unless the clock is set back to before its time
\* while the pass goes on.
EveryDueTimerRuns == pc = "loop" => dueSince \subseteq ran

\* A pass does not run the timers its own handlers create.
NewTimersWait == pc = "timers" => \A id \in ran : id <= maxId

\* Both: a pass of processTimeEvents runs each timer that is due and leaves the
\* new ones to the next, whatever its handlers create, delete and set again and
\* whenever the clock, which is read for each timer, is set back.
PassRunsOldTimers == EveryDueTimerRuns /\ NewTimersWait

\* aeProcessEvents sleeps past no timer by a second or more.  (Past one by less it
\* may: when the nearest is overdue already, what is left of its part of a
\* second is slept.)
SleepIsBounded ==
    pc = "sleep" => \A i \in Positions :
        sleepLeft # Forever /\ (sleepLeft < Second \/ sleepLeft <= timers[i].left)

\* What can keep processTimeEvents, and the sockets waiting, for ever is time
\* alone: handlers so slow that timers they set again in the pass are due again
\* before it ends.  A pass that never ends has both, over and over.
RunsAgain == RunTimer /\ timers[te].id \in ran
PassEndsUnlessSlow ==
    []<>(pc # "timers") \/ ([]<><<Tick>>_vars /\ []<><<RunsAgain>>_vars)
=============================================================================
