---------------------------- MODULE PacingProofs ----------------------------
(***************************************************************************)
(* Proofs about Pacing.                                                    *)
(***************************************************************************)
EXTENDS Pacing, TLAPS

\* A connection that waits for responses has some to come; when their batch
\* was decided upon the plan had reached it, so its stamp is behind the plan by
\* no more than the clock was set back in between, and it lies in the past unless
\* the clock was set back.
BatchInv ==
    /\ mode = "response" => has_pending
    /\ mode = "sending" /\ ~has_pending => Planned(complete) <= now + slip
    /\ has_pending => Planned(batchStart) <= actualStart + slip
    /\ setBacks = 0 => slip = 0 /\ (has_pending => actualStart <= now)

\* A batch that is about to be sent is due, by the plan and by the catch-up
\* throughput.
SendInv ==
    mode = "sending" /\ setBacks = 0 =>
        /\ ~caught_up
        /\ Planned(complete) <= now
        /\ catchUpStart + ((complete - completeAtCatchUp) * Interval) \div 2 <= now

\* A timer expires on a millisecond, less than one too early; the second timer
\* of a wait is late enough, because it lies a millisecond after the first.
TimerInv ==
    /\ TimerNotTooSoon
    /\ EarlyAtMostOnce
    /\ mode = "timer" => \E k \in Nat : timerAt = k * Ms
    /\ mode \in {"timer", "delaying"} /\ setBacks = 0 /\ ~caught_up => Planned(complete) <= now
    /\ mode = "timer" /\ setBacks = 0 /\ early > 0 => Target <= timerAt
    /\ mode = "delaying" /\ setBacks = 0 => Target <= now + wait
    /\ mode = "delaying" /\ setBacks = 0 /\ early > 0 =>
         \E k \in Nat : k * Ms <= now /\ Target < k * Ms + Ms

IInv == TypeOK /\ BatchInv /\ SendInv /\ LatenciesSound /\ WithinPlan /\ TimerInv

-----------------------------------------------------------------------------
(* Arithmetic.                                                              *)

\* The plan is in whole microseconds.
LEMMA PlannedType == \A n \in Nat : Planned(n) \in Nat
BY PacingAssumption DEF Planned

\* The start of an episode and the time it allows are in whole microseconds.
LEMMA EpisodeTypes ==
    ASSUME TypeOK
    PROVE  EpisodeStart \in Nat /\ EpisodeBase \in Nat /\ CatchUpStart \in Int /\ nextStart \in Int
<1>1. EpisodeStart \in Nat /\ EpisodeBase \in Nat /\ complete \in Nat /\ Interval \in Nat
  BY PacingAssumption DEF TypeOK, EpisodeStart, EpisodeBase
<1>2. complete - EpisodeBase \in Int
  BY <1>1
<1>3. (complete - EpisodeBase) * Interval \in Int
  BY <1>1, <1>2
<1>4. CatchUpStart \in Int
  BY <1>1, <1>3 DEF CatchUpStart
<1> QED
  BY <1>1, <1>4, PlannedType DEF nextStart, TypeOK

\* A batch is sent only when the plan has reached it and when catching up
\* allows it.
LEMMA SendNotEarly ==
    ASSUME TypeOK, SendNow
    PROVE  ~OnPace /\ Planned(complete) <= now /\ CatchUpStart <= now
BY PlannedType, EpisodeTypes DEF SendNow, nextStart, OnPace, TypeOK

\* The multiple of d at or below a is the largest one.
LEMMA DivMod ==
    ASSUME NEW a \in Nat, NEW d \in Nat \ {0}
    PROVE  /\ a \div d \in Nat
           /\ (a \div d) * d <= a
           /\ a < (a \div d) * d + d
OBVIOUS

\* ... so any multiple at or below a is at or below that one.
LEMMA MultipleBelow ==
    ASSUME NEW a \in Nat, NEW d \in Nat \ {0}, NEW k \in Nat, k * d <= a
    PROVE  k * d <= (a \div d) * d
<1> DEFINE q == a \div d
<1>1. q \in Nat /\ a < q * d + d
  BY DivMod
<1>2. (q + 1) * d = q * d + d
  BY <1>1
<1> HIDE DEF q
<1>3. k < q + 1
  <2>1. SUFFICES ASSUME q + 1 <= k PROVE FALSE
    BY <1>1
  <2>2. (q + 1) * d <= k * d
    BY <2>1, <1>1
  <2> QED
    BY <1>1, <1>2, <2>2
<1>4. k <= q
  BY <1>1, <1>3
<1>5. k * d <= q * d
  BY <1>1, <1>4
<1> QED
  BY <1>5 DEF q

\* A timer is set within a tick of the time it is set for, on a millisecond.
LEMMA TimerForBounds ==
    ASSUME now \in Nat, NEW usec \in Nat \ {0}
    PROVE  /\ TimerFor(usec) \in Nat
           /\ now + usec - Ms < TimerFor(usec)
           /\ \E k \in Nat : TimerFor(usec) = k * Ms
<1>1. Ms \in Nat \ {0}
  BY PacingAssumption
<1> DEFINE p == now \div Ms
           q == usec \div Ms
<1>2. p \in Nat /\ p * Ms <= now /\ now < p * Ms + Ms
  BY <1>1, DivMod
<1>3. q \in Nat /\ q * Ms <= usec /\ usec < q * Ms + Ms
  BY <1>1, DivMod
<1>4. (q + 1) * Ms = q * Ms + Ms
  BY <1>1, <1>3
<1>5. TimerFor(usec) = p * Ms + (q * Ms + Ms)
  BY <1>4 DEF TimerFor
<1>6. p * Ms \in Nat /\ q * Ms \in Nat
  BY <1>1, <1>2, <1>3
<1>7. p + q + 1 \in Nat /\ (p + q + 1) * Ms = p * Ms + (q * Ms + Ms)
  BY <1>1, <1>2, <1>3
<1>8. \E k \in Nat : TimerFor(usec) = k * Ms
  BY <1>5, <1>7
<1> DEFINE P == p * Ms
           Q == q * Ms
<1>9. P \in Nat /\ Q \in Nat /\ P <= now /\ now < P + Ms /\ Q <= usec /\ usec < Q + Ms
  BY <1>2, <1>3, <1>6
<1>10. TimerFor(usec) = P + (Q + Ms)
  BY <1>5
<1> HIDE DEF P, Q
<1> QED
  BY <1>1, <1>8, <1>9, <1>10

\* A timer that is set at or after millisecond k expires at a later one.
LEMMA LaterTick ==
    ASSUME now \in Nat, NEW usec \in Nat \ {0}, NEW k \in Nat, k * Ms <= now
    PROVE  k * Ms + Ms <= TimerFor(usec)
<1>1. Ms \in Nat \ {0}
  BY PacingAssumption
<1> DEFINE p == (now \div Ms) * Ms
           q == usec \div Ms
<1>2. q \in Nat /\ q * Ms <= usec
  BY <1>1, DivMod
<1>3. (q + 1) * Ms = q * Ms + Ms
  BY <1>1, <1>2
<1>4. q * Ms \in Nat /\ k * Ms \in Nat /\ p \in Int
  BY <1>1, <1>2, DivMod
<1>5. k * Ms <= p
  BY <1>1, MultipleBelow
<1>6. TimerFor(usec) = p + (q * Ms + Ms)
  BY <1>3 DEF TimerFor
<1> HIDE DEF p, q
<1> QED
  BY <1>1, <1>4, <1>5, <1>6

-----------------------------------------------------------------------------
(* Types.                                                                   *)

\* What usec_to_next_send leaves behind is typed.
LEMMA ScheduleTypes ==
    ASSUME TypeOK, NoteSchedule
    PROVE  caught_up' \in BOOLEAN /\ catchUpStart' \in Nat /\ completeAtCatchUp' \in Nat
<1>1. caught_up' \in BOOLEAN
  BY DEF NoteSchedule, OnPace
<1>2. catchUpStart' \in Nat /\ completeAtCatchUp' \in Nat
  BY EpisodeTypes DEF NoteSchedule, TypeOK
<1> QED
  BY <1>1, <1>2

\* A wait is positive when the batch is not sent at once.
LEMMA WaitPositive ==
    ASSUME TypeOK, ~SendNow
    PROVE  usecToWait \in Nat \ {0} /\ now + usecToWait = nextStart
BY EpisodeTypes DEF SendNow, usecToWait, TypeOK

\* Every step keeps the types; response_complete needs that a response is pending.
LEMMA TypeStep == TypeOK /\ BatchInv /\ [Next]_vars => TypeOK'
<1> SUFFICES ASSUME TypeOK, BatchInv, [Next]_vars PROVE TypeOK'
  OBVIOUS
<1>1. CASE socket_writeable
  <2>1. slip' \in Nat /\ early' \in Nat /\ mode' \in {"sending", "delaying"}
    BY <1>1 DEF socket_writeable, TypeOK
  <2>2. wait' \in Nat /\ (wait' > 0 <=> mode' = "delaying")
    BY <1>1, WaitPositive DEF socket_writeable, TypeOK
  <2> QED
    BY <1>1, <2>1, <2>2, ScheduleTypes DEF socket_writeable, TypeOK, batch, counters
<1>2. CASE Send
  <2>1. actualStart' \in Nat /\ batchStart' \in Nat
    BY <1>2 DEF Send, Stamp, TypeOK
  <2>2. pending' \in 0..Pipeline /\ has_pending' \in BOOLEAN /\ (has_pending' <=> pending' > 0)
    BY <1>2, PacingAssumption DEF Send
  <2> QED
    BY <1>2, <2>1, <2>2 DEF Send, TypeOK, schedule, counters
<1>3. CASE delay_request
  <2>1. early' \in Nat /\ mode' \in {"writable", "delaying"}
    BY <1>3 DEF delay_request, TypeOK
  <2>2. wait' \in Nat /\ (wait' > 0 <=> mode' = "delaying")
    BY <1>3, WaitPositive DEF delay_request, TypeOK
  <2> QED
    BY <1>3, <2>1, <2>2, ScheduleTypes DEF delay_request, TypeOK, batch, counters
<1>10. CASE SetTimer
  <2>1. now \in Nat /\ wait \in Nat \ {0}
    BY <1>10 DEF SetTimer, TypeOK
  <2>2. timerAt' \in Nat /\ mode' = "timer" /\ wait' = 0
    BY <1>10, <2>1, TimerForBounds DEF SetTimer
  <2> QED
    BY <1>10, <2>2 DEF SetTimer, TypeOK, batch, schedule, counters
<1>4. ASSUME NEW ends \in BOOLEAN, response_complete(ends) PROVE TypeOK'
  <2>1. pending > 0 /\ pending \in Nat /\ now \in Nat /\ actualStart \in Nat
    BY <1>4 DEF response_complete, BatchInv, TypeOK
  <2>2. recorded' \in [expected : Int, actual : Int, slip : Nat]
    <3>1. ExpectedStart \in Nat
      BY PlannedType DEF ExpectedStart, TypeOK
    <3> QED
      BY <1>4, <2>1, <3>1 DEF response_complete, TypeOK
  <2>3. pending' \in 0..Pipeline /\ has_pending' \in BOOLEAN /\ (has_pending' <=> pending' > 0)
    <3>1. pending' = pending - 1 /\ has_pending' = (pending # 1) /\ pending \in 1..Pipeline
      BY <1>4, <2>1 DEF response_complete, StillPending, TypeOK
    <3>2. pending' \in 0..Pipeline /\ (pending' > 0 <=> pending # 1)
      BY <3>1, PacingAssumption
    <3>3. has_pending' \in BOOLEAN /\ (has_pending' <=> pending # 1)
      BY <3>1, Zenon
    <3> QED
      BY <3>2, <3>3
  <2> QED
    BY <1>4, <2>2, <2>3 DEF response_complete, TypeOK, schedule, counters
<1>5. CASE BatchLost
  BY <1>5 DEF BatchLost, TypeOK, batch, schedule, counters
<1>6. CASE Tick
  BY <1>6 DEF Tick, TypeOK, batch, schedule, counters
<1>7. CASE SetBack
  BY <1>7, PacingAssumption DEF SetBack, TypeOK, batch, schedule
<1>8. CASE check_timeouts
  BY <1>8 DEF check_timeouts, TypeOK, batch, schedule
<1>9. CASE UNCHANGED vars
  BY <1>9 DEF vars, batch, counters, schedule, TypeOK
<1> QED
  BY <1>1, <1>2, <1>3, <1>4, <1>5, <1>6, <1>7, <1>8, <1>9, <1>10 DEF Next

-----------------------------------------------------------------------------
(* The batch in flight and the latencies.                                   *)

\* Only socket_writeable stamps a batch, at a time the plan had reached.
LEMMA BatchStep == TypeOK /\ BatchInv /\ TypeOK' /\ [Next]_vars => BatchInv'
<1> SUFFICES ASSUME TypeOK, BatchInv, TypeOK', [Next]_vars PROVE BatchInv'
  OBVIOUS
<1>1. CASE socket_writeable
  <2>1. mode' = "sending" => Planned(complete) <= now
    BY <1>1, SendNotEarly DEF socket_writeable
  <2>2. Planned(complete) \in Nat /\ Planned(batchStart) \in Nat
    BY PlannedType DEF TypeOK
  <2>3. /\ UNCHANGED <<now, has_pending, complete, batchStart, actualStart, setBacks>>
        /\ mode' # "response" /\ (has_pending => slip' = slip) /\ slip' \in {0, slip}
    BY <1>1 DEF socket_writeable, batch, counters
  <2> QED
    BY <2>1, <2>2, <2>3 DEF BatchInv, Planned, TypeOK
<1>2. CASE Send
  <2>1. CASE has_pending
    BY <1>2, <2>1 DEF Send, Stamp, BatchInv, Planned, counters
  <2>2. CASE ~has_pending
    BY <1>2, <2>2 DEF Send, Stamp, BatchInv, Planned, counters, TypeOK
  <2> QED
    BY <2>1, <2>2
<1>3. CASE delay_request
  BY <1>3 DEF delay_request, BatchInv, Planned, batch, counters
<1>10. CASE SetTimer
  BY <1>10 DEF SetTimer, BatchInv, Planned, batch, counters
<1>4. ASSUME NEW ends \in BOOLEAN, response_complete(ends) PROVE BatchInv'
  <2>1. /\ has_pending /\ has_pending' = (pending # 1)
        /\ UNCHANGED <<actualStart, batchStart, now, setBacks, slip>>
    BY <1>4 DEF response_complete, StillPending, BatchInv, counters
  <2>2. mode' # "sending" /\ (mode' = "response" => pending # 1)
    BY <1>4 DEF response_complete
  <2> QED
    BY <2>1, <2>2 DEF BatchInv, Planned
<1>5. CASE BatchLost
  BY <1>5 DEF BatchLost, BatchInv, Planned, batch, counters
<1>6. CASE Tick
  <2>1. Planned(complete) \in Nat /\ Planned(batchStart) \in Nat
    BY PlannedType DEF TypeOK
  <2>2. Planned(complete)' = Planned(complete) /\ Planned(batchStart)' = Planned(batchStart)
    BY <1>6 DEF Tick, Planned, batch
  <2> QED
    BY <1>6, <2>1, <2>2 DEF Tick, BatchInv, TypeOK, batch, counters
<1>7. CASE SetBack
  <2>1. Planned(complete) \in Nat /\ Planned(batchStart) \in Nat /\ BackStep \in Nat
    BY PlannedType, PacingAssumption DEF TypeOK
  <2>2. Planned(complete)' = Planned(complete) /\ Planned(batchStart)' = Planned(batchStart)
    BY <1>7 DEF SetBack, Planned, batch
  <2>3. setBacks' # 0
    BY <1>7 DEF SetBack, TypeOK
  <2> QED
    BY <1>7, <2>1, <2>2, <2>3 DEF SetBack, BatchInv, TypeOK, batch
<1>8. CASE check_timeouts
  BY <1>8 DEF check_timeouts, BatchInv, Planned, batch
<1>9. CASE UNCHANGED vars
  BY <1>9 DEF vars, batch, counters, BatchInv, Planned
<1> QED
  BY <1>1, <1>2, <1>3, <1>4, <1>5, <1>6, <1>7, <1>8, <1>9, <1>10 DEF Next

\* Only response_complete records latencies, those of the batch in flight.
LEMMA LatencyStep == TypeOK /\ BatchInv /\ LatenciesSound /\ [Next]_vars => LatenciesSound'
<1> SUFFICES ASSUME TypeOK, BatchInv, LatenciesSound, [Next]_vars PROVE LatenciesSound'
  OBVIOUS
<1>1. ASSUME NEW ends \in BOOLEAN, response_complete(ends) PROVE LatenciesSound'
  <2>1. /\ has_pending /\ Planned(batchStart) <= actualStart + slip
        /\ setBacks = 0 => slip = 0 /\ actualStart <= now
    BY <1>1 DEF response_complete, BatchInv
  <2>2. Planned(batchStart) \in Nat /\ actualStart \in Nat /\ now \in Nat /\ slip \in Nat
    BY PlannedType DEF TypeOK
  <2>3. CASE recorded' = recorded
    BY <1>1, <2>3 DEF response_complete, counters, LatenciesSound, CorrectedCoversActual, LatencyNotNegative
  <2>4. CASE recorded' = [expected |-> now - ExpectedStart, actual |-> now - actualStart,
                          slip |-> slip]
    <3>1. /\ recorded'.expected = now - Planned(batchStart)
          /\ recorded'.actual = now - actualStart
          /\ recorded'.slip = slip
      BY <2>4 DEF ExpectedStart
    <3> QED
      BY <1>1, <2>1, <2>2, <3>1
      DEF response_complete, counters, LatenciesSound, CorrectedCoversActual, LatencyNotNegative
  <2> QED
    BY <1>1, <2>3, <2>4 DEF response_complete
<1>2. CASE SetBack
  BY <1>2 DEF SetBack, TypeOK, batch, LatenciesSound, CorrectedCoversActual, LatencyNotNegative
<1>3. ASSUME UNCHANGED <<recorded, setBacks>> PROVE LatenciesSound'
  BY <1>3 DEF LatenciesSound, CorrectedCoversActual, LatencyNotNegative
<1> QED
  BY <1>1, <1>2, <1>3
  DEF Next, socket_writeable, Send, SetTimer, delay_request, BatchLost, check_timeouts, Tick, vars,
      batch, counters

-----------------------------------------------------------------------------
(* The schedule.                                                            *)

\* Only socket_writeable decides to send, and time passes before it does.
LEMMA SendStep == TypeOK /\ SendInv /\ TypeOK' /\ [Next]_vars => SendInv'
<1> SUFFICES ASSUME TypeOK, SendInv, TypeOK', [Next]_vars, mode' = "sending", setBacks' = 0
             PROVE  /\ ~caught_up'
                    /\ Planned(complete)' <= now'
                    /\ catchUpStart' + ((complete' - completeAtCatchUp') * Interval) \div 2 <= now'
  BY DEF SendInv
<1>1. CASE socket_writeable
  <2>1. SendNow /\ NoteSchedule /\ UNCHANGED <<complete, now>>
    BY <1>1 DEF socket_writeable, batch
  <2>2. Planned(complete) <= now /\ ~OnPace /\ CatchUpStart <= now
    BY <2>1, SendNotEarly
  <2>3. catchUpStart' = EpisodeStart /\ completeAtCatchUp' = EpisodeBase /\ ~caught_up'
    BY <2>1, <2>2 DEF NoteSchedule
  <2> QED
    BY <2>1, <2>2, <2>3 DEF CatchUpStart, Planned
<1>2. CASE Tick
  <2>1. /\ UNCHANGED <<caught_up, catchUpStart, completeAtCatchUp, complete, mode, setBacks>>
        /\ now' = now + 1
    BY <1>2 DEF Tick, batch, schedule, counters
  <2> DEFINE late == catchUpStart + ((complete - completeAtCatchUp) * Interval) \div 2
  <2>2. ~caught_up /\ Planned(complete) <= now /\ late <= now
    BY <2>1 DEF SendInv
  <2>3. Planned(complete) \in Int /\ now \in Nat /\ late \in Int
    <3>1. complete \in Nat /\ Interval \in Int /\ catchUpStart \in Nat /\ completeAtCatchUp \in Nat
      BY PacingAssumption DEF TypeOK
    <3>2. (complete - completeAtCatchUp) * Interval \in Int
      BY <3>1
    <3> QED
      BY <3>1, <3>2, PlannedType DEF TypeOK
  <2>4. Planned(complete)' = Planned(complete) /\ late' = late
    BY <2>1 DEF Planned
  <2> HIDE DEF late
  <2> QED
    BY <2>1, <2>2, <2>3, <2>4 DEF late
<1>3. CASE SetBack
  BY <1>3 DEF SetBack, TypeOK
<1>4. CASE UNCHANGED vars
  BY <1>4 DEF vars, batch, counters, schedule, SendInv, Planned
<1>5. ASSUME NEW ends \in BOOLEAN, response_complete(ends) PROVE FALSE
  BY <1>5 DEF response_complete
<1> QED
  BY <1>1, <1>2, <1>3, <1>4, <1>5 DEF Next, Send, SetTimer, delay_request, BatchLost, check_timeouts

\* SentAt is what c->complete was when the batch in flight was sent.
LEMMA WithinPlanStep == TypeOK /\ BatchInv /\ SendInv /\ WithinPlan /\ TypeOK' /\ [Next]_vars => WithinPlan'
<1> SUFFICES ASSUME TypeOK, BatchInv, SendInv, WithinPlan, TypeOK', [Next]_vars,
                    mode' = "response", setBacks' = 0
             PROVE  /\ Planned(SentAt)' <= now'
                    /\ ~caught_up' =>
                         catchUpStart' + ((SentAt' - completeAtCatchUp') * Interval) \div 2 <= now'
  BY DEF WithinPlan
<1>1. CASE Send
  <2>1. mode = "sending" /\ UNCHANGED <<now, complete, setBacks, catchUpStart, completeAtCatchUp>>
    BY <1>1 DEF Send, schedule, counters
  <2>2. SentAt' = complete
    BY <1>1, PacingAssumption DEF Send, SentAt, TypeOK
  <2> QED
    BY <2>1, <2>2 DEF SendInv, Planned
<1>2. ASSUME NEW ends \in BOOLEAN, response_complete(ends)
      PROVE  /\ Planned(SentAt)' <= now'
             /\ ~caught_up' =>
                  catchUpStart' + ((SentAt' - completeAtCatchUp') * Interval) \div 2 <= now'
  <2>1. SentAt' = SentAt
    BY <1>2, PacingAssumption DEF response_complete, SentAt, TypeOK
  <2>2. UNCHANGED <<now, caught_up, catchUpStart, completeAtCatchUp, setBacks>> /\ mode = "response"
    BY <1>2 DEF response_complete, schedule, counters
  <2> QED
    BY <2>1, <2>2 DEF WithinPlan, Planned
<1>3. CASE Tick
  <2>1. /\ SentAt' = SentAt
        /\ UNCHANGED <<caught_up, catchUpStart, completeAtCatchUp, mode, setBacks>>
        /\ now' = now + 1
    BY <1>3 DEF Tick, SentAt, batch, schedule, counters
  <2>2. /\ Planned(SentAt) <= now
        /\ ~caught_up => catchUpStart + ((SentAt - completeAtCatchUp) * Interval) \div 2 <= now
    BY <2>1 DEF WithinPlan
  <2>3. /\ Planned(SentAt) \in Int /\ now \in Nat
        /\ catchUpStart + ((SentAt - completeAtCatchUp) * Interval) \div 2 \in Int
    <3>1. SentAt \in Int /\ Interval \in Int /\ catchUpStart \in Nat /\ completeAtCatchUp \in Nat
      BY PacingAssumption DEF SentAt, TypeOK
    <3>2. SentAt - completeAtCatchUp \in Int
      BY <3>1
    <3>3. (SentAt - completeAtCatchUp) * Interval \in Int /\ SentAt * Interval \in Int
      BY <3>1, <3>2
    <3> QED
      BY <3>1, <3>3, PacingAssumption DEF Planned, TypeOK
  <2>4. Planned(SentAt)' = Planned(SentAt)
    BY <2>1 DEF Planned
  <2> DEFINE late == catchUpStart + ((SentAt - completeAtCatchUp) * Interval) \div 2
  <2>5. late' = late
    BY <2>1
  <2> HIDE DEF late
  <2> QED
    BY <2>1, <2>2, <2>3, <2>4, <2>5 DEF late
<1>4. CASE SetBack
  BY <1>4 DEF SetBack, TypeOK
<1>5. CASE check_timeouts
  BY <1>5 DEF check_timeouts, batch, schedule, WithinPlan, Planned, SentAt
<1>6. CASE UNCHANGED vars
  BY <1>6 DEF vars, batch, counters, schedule, WithinPlan, Planned, SentAt
<1> QED
  BY <1>1, <1>2, <1>3, <1>4, <1>5, <1>6 DEF Next, socket_writeable, SetTimer, delay_request, BatchLost
-----------------------------------------------------------------------------
(* The timer.                                                               *)

\* When the connection has to wait, what it waits for is the time
\* usec_to_next_send found, and unless the clock was set back it is what it was waiting for.
LEMMA TargetKept ==
    ASSUME TypeOK, ~SendNow, NoteSchedule, UNCHANGED complete
    PROVE  /\ Target' = nextStart
           /\ ~caught_up' => Planned(complete) <= now
           /\ (~caught_up => Planned(complete) <= now) => Target = nextStart
<1>1. Target' = nextStart
  BY DEF Target, nextStart, NoteSchedule, CatchUpStart, Planned
<1>2. now \in Nat /\ Planned(complete) \in Nat
  BY PlannedType DEF TypeOK
<1>3. ~caught_up' => Planned(complete) <= now
  <2>1. caught_up' = OnPace
    BY DEF NoteSchedule
  <2>2. ~caught_up' => ~OnPace
    BY <2>1, Zenon
  <2> QED
    BY <1>2, <2>2 DEF OnPace
<1>4. ASSUME ~caught_up => Planned(complete) <= now PROVE Target = nextStart
  <2>1. CASE OnPace
    <3>1. caught_up
      BY <1>2, <1>4, <2>1 DEF OnPace
    <3> QED
      BY <2>1, <3>1 DEF Target, nextStart
  <2>2. CASE ~OnPace /\ caught_up
    <3>1. EpisodeStart = now /\ EpisodeBase = complete /\ complete \in Nat /\ Interval \in Nat
      BY <2>2, PacingAssumption DEF EpisodeStart, EpisodeBase, TypeOK
    <3>2. (complete - EpisodeBase) * Interval = 0
      BY <3>1
    <3>3. CatchUpStart = now
      BY <1>2, <3>1, <3>2 DEF CatchUpStart
    <3> QED
      BY <1>2, <2>2, <3>3 DEF nextStart, SendNow
  <2>3. CASE ~OnPace /\ ~caught_up
    BY <2>3 DEF Target, nextStart, CatchUpStart, EpisodeStart, EpisodeBase
  <2> QED
    BY <2>1, <2>2, <2>3
<1> QED
  BY <1>1, <1>3, <1>4

\* A wait that begins, for the first time or again, ends when the target comes.
LEMMA WaitBegun ==
    ASSUME TypeOK, ~SendNow, NoteSchedule, UNCHANGED <<complete, now>>, wait' = usecToWait
    PROVE  /\ Target' <= now' + wait'
           /\ ~caught_up' => Planned(complete') <= now'
<1>1. now \in Nat /\ usecToWait \in Nat \ {0} /\ now + usecToWait = nextStart
  BY WaitPositive DEF TypeOK
<1>2. Target' = nextStart /\ (~caught_up' => Planned(complete) <= now)
  BY TargetKept
<1> QED
  BY <1>1, <1>2

\* The first timer of a wait lies within a millisecond of its target, so the wait
\* that follows it is the last.
LEMMA SecondWait ==
    ASSUME TypeOK, TimerInv, setBacks = 0, delay_request, ~SendNow
    PROVE  early = 0 /\ \E k \in Nat : k * Ms <= now /\ Target' < k * Ms + Ms
<1>1. mode = "timer" /\ now >= timerAt /\ NoteSchedule /\ UNCHANGED complete
  BY DEF delay_request, batch
<1>2. Target' = nextStart /\ Target = nextStart
  BY <1>1, TargetKept DEF TimerInv
<1>3. /\ now \in Nat /\ timerAt \in Nat /\ early \in Nat /\ nextStart \in Int /\ Ms \in Nat
      /\ usecToWait \in Nat \ {0} /\ now + usecToWait = nextStart
  BY WaitPositive, EpisodeTypes, PacingAssumption DEF TypeOK
<1>4. early = 0
  <2>1. early > 0 => nextStart <= timerAt
    BY <1>1, <1>2 DEF TimerInv
  <2> QED
    BY <1>1, <1>3, <2>1
<1>5. PICK k \in Nat : timerAt = k * Ms
  BY <1>1 DEF TimerInv
<1>6. nextStart - Ms < timerAt
  BY <1>1, <1>2 DEF TimerInv, TimerNotTooSoon
<1>7. k * Ms <= now /\ Target' < k * Ms + Ms
  BY <1>1, <1>2, <1>3, <1>5, <1>6
<1> QED
  BY <1>4, <1>7

\* The timer that SetTimer sets: within a millisecond of the target, or behind it
\* when it is the second.
LEMMA TimerSet == TypeOK /\ TimerInv /\ SetTimer => TimerInv'
<1> SUFFICES ASSUME TypeOK, TimerInv, SetTimer PROVE TimerInv'
  OBVIOUS
<1>1. /\ mode = "delaying" /\ mode' = "timer" /\ timerAt' = TimerFor(wait)
      /\ UNCHANGED <<now, complete, caught_up, setBacks, early>> /\ Target' = Target
  BY DEF SetTimer, batch, schedule, counters, Target, Planned
<1>2. now \in Nat /\ wait \in Nat \ {0} /\ Ms \in Nat \ {0}
  BY <1>1, PacingAssumption DEF TypeOK
<1>3. /\ timerAt' \in Nat /\ now + wait - Ms < timerAt'
      /\ \E k \in Nat : timerAt' = k * Ms
  BY <1>1, <1>2, TimerForBounds
<1>4. Target \in Int
  <2>1. /\ complete \in Nat /\ completeAtCatchUp \in Nat /\ catchUpStart \in Nat
        /\ Interval \in Nat
    BY PacingAssumption DEF TypeOK
  <2>2. (complete - completeAtCatchUp) * Interval \in Int
    BY <2>1
  <2> QED
    BY <2>1, <2>2, PlannedType DEF Target
<1>5. TimerNotTooSoon'
  <2>1. setBacks = 0 => Target <= now + wait
    BY <1>1 DEF TimerInv
  <2>2. setBacks' = 0 => Target' - Ms < timerAt'
    BY <1>1, <1>2, <1>3, <1>4, <2>1
  <2> QED
    BY <2>2 DEF TimerNotTooSoon
<1>6. setBacks' = 0 /\ early' > 0 => Target' <= timerAt'
  <2>1. SUFFICES ASSUME setBacks = 0, early > 0 PROVE Target <= timerAt'
    BY <1>1
  <2>2. PICK k \in Nat : k * Ms <= now /\ Target < k * Ms + Ms
    BY <1>1, <2>1 DEF TimerInv
  <2>3. k * Ms + Ms <= timerAt'
    BY <1>1, <1>2, <2>2, LaterTick
  <2>4. k * Ms \in Nat
    BY <1>2
  <2> QED
    BY <1>2, <1>3, <1>4, <2>2, <2>3, <2>4
<1>7. setBacks' = 0 /\ ~caught_up' => Planned(complete') <= now'
  BY <1>1 DEF TimerInv
<1>8. EarlyAtMostOnce'
  BY <1>1 DEF TimerInv, EarlyAtMostOnce
<1> QED
  BY <1>1, <1>3, <1>5, <1>6, <1>7, <1>8 DEF TimerInv, Planned

\* Only socket_writeable and delay_request begin a wait.
LEMMA TimerStep == TypeOK /\ TimerInv /\ TypeOK' /\ [Next]_vars => TimerInv'
<1> SUFFICES ASSUME TypeOK, TimerInv, TypeOK', [Next]_vars PROVE TimerInv'
  OBVIOUS
<1>1. CASE socket_writeable /\ ~SendNow
  <2>1. /\ NoteSchedule /\ UNCHANGED <<complete, now>> /\ early' = 0
        /\ wait' = usecToWait /\ mode' = "delaying"
    BY <1>1 DEF socket_writeable, batch
  <2>2. Target' <= now' + wait' /\ (~caught_up' => Planned(complete') <= now')
    BY <1>1, <2>1, WaitBegun
  <2> QED
    BY <2>1, <2>2 DEF TimerInv, TimerNotTooSoon, EarlyAtMostOnce, Planned
<1>2. CASE delay_request /\ ~SendNow
  <2>1. /\ NoteSchedule /\ UNCHANGED <<complete, now, setBacks>> /\ early' = early + 1
        /\ wait' = usecToWait /\ mode' = "delaying"
    BY <1>2 DEF delay_request, batch, counters
  <2>2. Target' <= now' + wait' /\ (~caught_up' => Planned(complete') <= now')
    BY <1>2, <2>1, WaitBegun
  <2>3. setBacks' = 0 => early = 0 /\ \E k \in Nat : k * Ms <= now' /\ Target' < k * Ms + Ms
    BY <1>2, <2>1, SecondWait
  <2>4. EarlyAtMostOnce'
    BY <2>1, <2>3 DEF EarlyAtMostOnce
  <2> QED
    BY <2>1, <2>2, <2>3, <2>4 DEF TimerInv, TimerNotTooSoon, Planned
<1>3. ASSUME mode' \notin {"timer", "delaying"}, UNCHANGED <<early, setBacks>> PROVE TimerInv'
  BY <1>3 DEF TimerInv, TimerNotTooSoon, EarlyAtMostOnce
<1>4. ASSUME NEW ends \in BOOLEAN, response_complete(ends) PROVE TimerInv'
  BY <1>3, <1>4 DEF response_complete, counters
<1>5. CASE Tick
  <2>1. /\ UNCHANGED <<mode, wait, timerAt, complete, caught_up, catchUpStart, completeAtCatchUp,
                       setBacks, early>>
        /\ now' = now + 1 /\ Target' = Target /\ Planned(complete)' = Planned(complete)
    BY <1>5 DEF Tick, batch, schedule, counters, Target, Planned
  <2>2. Planned(complete) \in Nat /\ now \in Nat /\ wait \in Nat /\ Target \in Int
    <3>1. /\ complete \in Nat /\ completeAtCatchUp \in Nat /\ catchUpStart \in Nat
          /\ Interval \in Nat
      BY PacingAssumption DEF TypeOK
    <3>2. (complete - completeAtCatchUp) * Interval \in Int
      BY <3>1
    <3> QED
      BY <3>1, <3>2, PlannedType DEF Target, TypeOK
  <2>3. Planned(complete) <= now => Planned(complete) <= now + 1
    BY <2>2
  <2>4. Target <= now + wait => Target <= now + 1 + wait
    BY <2>2
  <2>5. \A k \in Nat : k * Ms <= now => k * Ms <= now + 1
    <3>1. Ms \in Nat
      BY PacingAssumption
    <3>2. \A k \in Nat : k * Ms \in Nat
      BY <3>1
    <3> QED
      BY <2>2, <3>2
  <2>6. TimerNotTooSoon' /\ EarlyAtMostOnce'
    BY <2>1 DEF TimerInv, TimerNotTooSoon, EarlyAtMostOnce
  <2> QED
    BY <2>1, <2>3, <2>4, <2>5, <2>6 DEF TimerInv
<1>6. CASE SetBack
  <2>1. setBacks' # 0
    BY <1>6 DEF SetBack, TypeOK
  <2>2. UNCHANGED <<mode, timerAt>>
    BY <1>6 DEF SetBack
  <2> QED
    BY <2>1, <2>2 DEF TimerInv, TimerNotTooSoon, EarlyAtMostOnce
<1>7. CASE check_timeouts
  BY <1>7 DEF check_timeouts, batch, schedule, TimerInv, TimerNotTooSoon, EarlyAtMostOnce, Target, Planned
<1>8. CASE UNCHANGED vars
  BY <1>8 DEF vars, batch, counters, schedule, TimerInv, TimerNotTooSoon, EarlyAtMostOnce, Target, Planned
<1>9. CASE SetTimer
  BY <1>9, TimerSet
<1> QED
  BY <1>1, <1>2, <1>3, <1>4, <1>5, <1>6, <1>7, <1>8, <1>9
  DEF Next, Send, socket_writeable, delay_request, BatchLost, counters

-----------------------------------------------------------------------------
(* The theorems.                                                            *)

\* The connection starts on the plan, with nothing in flight.
LEMMA InitInv == Init => IInv
<1> SUFFICES ASSUME Init PROVE IInv
  OBVIOUS
<1>1. TypeOK
  <2>1. has_pending \in BOOLEAN /\ (has_pending <=> pending > 0)
    <3>1. has_pending = FALSE /\ pending = 0
      BY DEF Init
    <3>2. ~(pending > 0)
      BY <3>1
    <3> QED
      BY <3>1, <3>2, Zenon
  <2>2. recorded \in [expected : Int, actual : Int, slip : Nat] /\ caught_up \in BOOLEAN
    BY DEF Init
  <2> QED
    BY <2>1, <2>2, PacingAssumption DEF Init, TypeOK
<1>2. BatchInv /\ SendInv /\ LatenciesSound /\ WithinPlan /\ TimerInv
  BY DEF Init, BatchInv, SendInv, LatenciesSound, CorrectedCoversActual, LatencyNotNegative,
     WithinPlan, TimerInv, TimerNotTooSoon, EarlyAtMostOnce
<1> QED
  BY <1>1, <1>2 DEF IInv

\* The conjunction is inductive.
THEOREM Invariant == Spec => []IInv
<1>1. IInv /\ [Next]_vars => IInv'
  BY TypeStep, BatchStep, SendStep, LatencyStep, WithinPlanStep, TimerStep DEF IInv
<1> QED
  BY <1>1, InitInv, PTL DEF Spec

\* Every variable keeps its type for every rate, tick and pipeline depth.
THEOREM TypeCorrect == Spec => []TypeOK
<1>1. IInv => TypeOK
  BY DEF IInv
<1> QED
  BY <1>1, Invariant, PTL

\* The corrected latency is never less than the actual one (no coordinated
\* omission), whatever happens to the batches, less only by what the clock was set
\* back between the decision to send the batch and its stamp; and
\* response_complete computes no negative latency on a clock that only moves
\* forward.
THEOREM LatenciesAreSound == Spec => []LatenciesSound
<1>1. IInv => LatenciesSound
  BY DEF IInv
<1> QED
  BY <1>1, Invariant, PTL

\* Batches are sent no earlier than planned, nor faster than twice the rate
\* when catching up, until the clock is set back.
THEOREM SendsWithinPlan == Spec => []WithinPlan
<1>1. IInv => WithinPlan
  BY DEF IInv
<1> QED
  BY <1>1, Invariant, PTL

\* Until the clock is set back a timer is set less than a millisecond before the
\* time it waits for, however long after the decision the loop reads its own
\* clock, and expires too soon at most once in a wait.
THEOREM TimersOnTime == Spec => [](TimerNotTooSoon /\ EarlyAtMostOnce)
<1>1. IInv => TimerNotTooSoon /\ EarlyAtMostOnce
  BY DEF IInv, TimerInv
<1> QED
  BY <1>1, Invariant, PTL
=============================================================================
