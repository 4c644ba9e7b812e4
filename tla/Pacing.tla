------------------------------- MODULE Pacing -------------------------------
(***************************************************************************)
(* The clock side of one connection (src/src/wrk.c): when its next batch   *)
(* is sent (usec_to_next_send, socket_writeable, delay_request) and which  *)
(* two latencies are recorded for a response (response_complete).          *)
(*                                                                         *)
(* Times are microseconds.  c->throughput is 1/Interval requests per       *)
(* microsecond, so c->complete / c->throughput is complete * Interval; the *)
(* catch-up throughput is twice that, rounded down when it is stored in a  *)
(* uint64_t.  Sockets, failures and the loop are those of Connection: here *)
(* a handler may run at any time after what it waits for.  A handler that  *)
(* reads the clock twice is two steps, and the clock moves between them.   *)
(***************************************************************************)
EXTENDS Integers

CONSTANTS
    Interval,     \* microseconds between two requests of the connection
    Ms,           \* microseconds in a tick of the loop's timers (1000)
    Pipeline,     \* cfg.pipeline
    RecordAll,    \* cfg.record_all_responses
    Timeout,      \* cfg.timeout * 1000
    Start,        \* time_us() when delayed_initial_connect runs
    BackStep,     \* how far the wall clock is set back
    MaxSetBacks,  \* bound: how often it is
    MaxTimeouts,  \* bound: timeouts counted
    MaxTime       \* bound: the clock stops there

ASSUME PacingAssumption ==
    /\ Interval \in Nat \ {0} /\ Ms \in Nat \ {0} /\ Pipeline \in Nat \ {0}
    /\ RecordAll \in BOOLEAN
    /\ Start \in Nat /\ BackStep \in 0..Start
    /\ Timeout \in Nat /\ Timeout < Start      \* the clock counts from 1970
    /\ MaxTime \in Nat /\ MaxSetBacks \in Nat /\ MaxTimeouts \in Nat

VARIABLES
    now,                   \* time_us()
    mode,                  \* what wakes the connection, or where its handler is
    wait,                  \* time_usec_to_wait, from usec_to_next_send to the timer
    timerAt,               \* when its delay_request timer expires
    pending, has_pending,
    complete,              \* c->complete
    batchStart,            \* c->complete_at_last_batch_start
    start, actualStart,    \* c->start and c->actual_latency_start
    caught_up, catchUpStart, completeAtCatchUp,
    recorded,              \* the two latencies of the latest response recorded
    timeouts,              \* thread->errors.timeout
    setBacks,              \* how often the clock was set back
    early,                 \* history: timers of this wait that expired too soon
    slip                   \* history: how far the clock was set back between
                           \* the decision to send a batch and its stamp

schedule == <<caught_up, catchUpStart, completeAtCatchUp>>
counters == <<timeouts, setBacks>>
batch == <<pending, has_pending, complete, batchStart, start, actualStart, recorded>>
vars == <<now, mode, wait, timerAt, batch, schedule, counters, early, slip>>

-----------------------------------------------------------------------------
(* usec_to_next_send, in two parts: the state it leaves, and its result.    *)

\* When the plan wants the request that follows the first n.
Planned(n) == Start + n * Interval

OnPace == Planned(complete) > now

\* The catch-up episode this call is in: a new one when it is the first call
\* to find the connection behind.
EpisodeStart == IF caught_up THEN now ELSE catchUpStart
EpisodeBase  == IF caught_up THEN complete ELSE completeAtCatchUp

\* Mutant: catching up as fast as the server answers.
CatchUpStart_Unlimited == EpisodeStart
CatchUpStart == EpisodeStart + ((complete - EpisodeBase) * Interval) \div 2

nextStart == IF OnPace THEN Planned(complete) ELSE CatchUpStart
SendNow == nextStart <= now
usecToWait == nextStart - now

NoteSchedule ==
    /\ caught_up' = OnPace
    /\ catchUpStart' = IF OnPace THEN catchUpStart ELSE EpisodeStart
    /\ completeAtCatchUp' = IF OnPace THEN completeAtCatchUp ELSE EpisodeBase

\* round(usec / 1000.0 + 0.5), counted from the clock cut to milliseconds
\* (aeAddMillisecondsToNow).  Mutant: rounded down.
TimerFor_Down(usec) == (now \div Ms) * Ms + (usec \div Ms) * Ms
TimerFor(usec) == (now \div Ms) * Ms + (usec \div Ms + 1) * Ms

-----------------------------------------------------------------------------
\* socket_writeable asks usec_to_next_send whether it is time.
socket_writeable ==
    /\ mode = "writable"
    /\ NoteSchedule
    /\ IF SendNow
       THEN mode' = "sending" /\ slip' = (IF has_pending THEN slip ELSE 0) /\ UNCHANGED <<wait, early>>
       ELSE mode' = "delaying" /\ wait' = usecToWait /\ early' = 0 /\ UNCHANGED slip
    /\ UNCHANGED <<now, timerAt, batch, counters>>

\* delay_request asks again, and watches for writability or waits on.
delay_request ==
    /\ mode = "timer" /\ now >= timerAt
    /\ NoteSchedule
    /\ IF SendNow
       THEN mode' = "writable" /\ UNCHANGED <<wait, early>>
       ELSE mode' = "delaying" /\ wait' = usecToWait /\ early' = early + 1
    /\ UNCHANGED <<now, timerAt, batch, counters, slip>>

\* Not yet time: the loop reads the clock and sets the timer, for the first time
\* or again.
SetTimer ==
    /\ mode = "delaying"
    /\ mode' = "timer" /\ timerAt' = TimerFor(wait)
    /\ wait' = 0
    /\ UNCHANGED <<now, batch, schedule, counters, early, slip>>

\* The latencies of a batch are counted from its first send.  Mutant: the plan
\* is that of the request after the batch.
Stamp_AfterBatch == IF has_pending THEN UNCHANGED <<actualStart, batchStart>>
                    ELSE actualStart' = now /\ batchStart' = complete + Pipeline

Stamp == IF has_pending THEN UNCHANGED <<actualStart, batchStart>>
                        ELSE actualStart' = now /\ batchStart' = complete

\* In time: the script has made its requests, socket_writeable reads the clock
\* again and the batch is written.
Send ==
    /\ mode = "sending"
    /\ start' = now /\ Stamp
    /\ has_pending' = TRUE /\ pending' = Pipeline
    /\ mode' = "response"
    /\ UNCHANGED <<now, wait, timerAt, complete, recorded, schedule, counters, early, slip>>

ExpectedStart == Planned(batchStart)

\* c->has_pending after a response.  Mutant: it is never cleared.
StillPending_Always == TRUE
StillPending == pending # 1

\* response_complete.  A response that ends the connection takes the rest of
\* its batch with it.
response_complete(ends) ==
    /\ mode = "response"
    /\ complete' = complete + 1
    /\ pending' = pending - 1
    /\ has_pending' = StillPending
    /\ recorded' = IF RecordAll \/ pending = 1
                   THEN [expected |-> now - ExpectedStart, actual |-> now - actualStart,
                         slip |-> slip]
                   ELSE recorded
    /\ mode' = IF ends \/ pending = 1 THEN "writable" ELSE "response"
    /\ UNCHANGED <<now, wait, timerAt, batchStart, start, actualStart, schedule, counters, early,
                   slip>>

\* The batch is lost with its connection; it will be sent again.
BatchLost ==
    /\ mode = "response"
    /\ mode' = "writable"
    /\ UNCHANGED <<now, wait, timerAt, batch, schedule, counters, early, slip>>

\* check_timeouts, between handlers, when it finds the connection's last batch
\* old: c->start is 0 before the first and stays when the batch is answered.
check_timeouts ==
    /\ mode \notin {"sending", "delaying"}
    /\ now - Timeout > start /\ timeouts < MaxTimeouts
    /\ timeouts' = timeouts + 1
    /\ UNCHANGED <<now, mode, wait, timerAt, batch, schedule, setBacks, early, slip>>

Tick ==
    /\ now < MaxTime
    /\ now' = now + 1
    /\ UNCHANGED <<mode, wait, timerAt, batch, schedule, counters, early, slip>>

\* time_us() is the wall clock: it may be set back, in the middle of a handler
\* too.
SetBack ==
    /\ setBacks < MaxSetBacks /\ now >= Start + BackStep
    /\ setBacks' = setBacks + 1
    /\ now' = now - BackStep
    /\ slip' = IF mode = "sending" /\ ~has_pending THEN slip + BackStep ELSE slip
    /\ UNCHANGED <<mode, wait, timerAt, batch, schedule, timeouts, early>>

Init ==
    /\ now = Start
    /\ mode = "writable" /\ wait = 0 /\ timerAt = Start
    /\ pending = 0 /\ has_pending = FALSE
    /\ complete = 0 /\ batchStart = 0 /\ start = 0 /\ actualStart = 0
    /\ caught_up = TRUE /\ catchUpStart = 0 /\ completeAtCatchUp = 0
    /\ recorded = [expected |-> 0, actual |-> 0, slip |-> 0]
    /\ timeouts = 0 /\ setBacks = 0 /\ early = 0 /\ slip = 0

Next ==
    \/ socket_writeable \/ delay_request \/ SetTimer \/ Send
    \/ \E ends \in BOOLEAN : response_complete(ends)
    \/ BatchLost \/ check_timeouts \/ Tick \/ SetBack

Spec == Init /\ [][Next]_vars

-----------------------------------------------------------------------------
(* Properties.                                                              *)

TypeOK ==
    /\ now \in Nat /\ timerAt \in Nat
    /\ mode \in {"writable", "sending", "delaying", "timer", "response"}
    /\ wait \in Nat /\ (wait > 0 <=> mode = "delaying")
    /\ pending \in 0..Pipeline /\ has_pending \in BOOLEAN /\ (has_pending <=> pending > 0)
    /\ complete \in Nat /\ batchStart \in Nat /\ start \in Nat /\ actualStart \in Nat
    /\ caught_up \in BOOLEAN /\ catchUpStart \in Nat /\ completeAtCatchUp \in Nat
    /\ recorded \in [expected : Int, actual : Int, slip : Nat]
    /\ timeouts \in Nat /\ setBacks \in 0..MaxSetBacks /\ early \in Nat /\ slip \in Nat

\* The latency of a response is counted from the time the plan asked for its
\* batch, which is never later than the time the batch was sent, however often
\* it had to be sent again: what keeps the corrected histogram free of
\* coordinated omission.  A clock that is set back does no harm to it but between
\* the decision to send a batch (wrk.c:460) and its stamp (wrk.c:650), and then
\* no more than it was set back there.
CorrectedCoversActual == recorded.actual <= recorded.expected + recorded.slip

\* A batch in flight was sent at a time the plan allows, and in a catch-up
\* episode no earlier than twice the throughput, counted from its start, allows
\* (as long as the clock was not set back in between).
SentAt == complete - (Pipeline - pending)
WithinPlan ==
    mode = "response" /\ setBacks = 0 =>
        /\ Planned(SentAt) <= now
        /\ ~caught_up =>
             catchUpStart + ((SentAt - completeAtCatchUp) * Interval) \div 2 <= now

\* What the connection waits for while its timer runs.
Target == IF caught_up THEN Planned(complete)
          ELSE catchUpStart + ((complete - completeAtCatchUp) * Interval) \div 2

\* The timer is set no more than a millisecond before the time it waits for,
\* although timers are cut to milliseconds and the clock is read again for it...
TimerNotTooSoon == mode = "timer" /\ setBacks = 0 => Target - Ms < timerAt

\* ... so it may expire too soon, but only once in a wait: the second timer is
\* never early, and one pass of the loop cannot run it for ever.
EarlyAtMostOnce == setBacks = 0 => early <= 1

\* No recorded latency is negative while the clock only moves forward.
LatencyNotNegative == setBacks = 0 => recorded.expected >= 0

\* Both hold of every latency recorded.
LatenciesSound == CorrectedCoversActual /\ LatencyNotNegative

\* A timeout is that of a request: when one is counted, a batch has been
\* waiting for its responses for longer than cfg.timeout.
TimeoutsCountRequests ==
    [][timeouts' > timeouts => mode = "response" /\ now - start > Timeout]_vars
=============================================================================
