----------------------------- MODULE Statistics -----------------------------
(***************************************************************************)
(* What a run measures and how it comes to the report: the threads record  *)
(* two latencies per response (response_complete), start afresh when they  *)
(* are calibrated (calibrate), add a rate per interval to statistics that  *)
(* they share under a mutex (sample_rate, stats_record), and end; main     *)
(* joins them, adds up and reports (src/src/wrk.c, stats.c).               *)
(*                                                                         *)
(* The corrected latency is never below the actual one: Pacing shows it.   *)
(* Bytes and errors are summed as `complete' is, and left out.  A thread   *)
(* stands for its loop: a handler may run whenever it runs no other one.   *)
(***************************************************************************)
EXTENDS HdrHistogram

CONSTANTS
    Threads,        \* cfg.threads
    RecordAll,      \* cfg.record_all_responses
    Latencies,      \* the latencies that responses may have
    Bounds,         \* what mean - stdev and mean + stdev may be
    MaxResponses,   \* bound: responses of all threads
    MaxSamples      \* bound: samples of all threads

ASSUME StatisticsAssumption ==
    /\ Threads \in Nat \ {0} /\ RecordAll \in BOOLEAN
    /\ IsFiniteSet(Latencies) /\ Latencies \subseteq Int /\ Bounds \subseteq Nat
    /\ MaxResponses \in Nat /\ MaxSamples \in Nat

\* A rate is a count of responses in an interval, far below the highest
\* trackable value, a day in microseconds: it never fails an assertion.
ASSUME RatesAssumption == \A r \in 0..MaxResponses : AssertionsHold(r)

VARIABLES
    ending,         \* "no", "interrupt" (stop is set) or "deadline" (stop_at has passed)
    loop,           \* of a thread: "running", "stopping" (aeStop was called) or "over"
    complete, requests, calibrated,
    latency_histogram, u_latency_histogram,
    sampling,       \* where a thread is in sample_rate: "no", "lock", "load" or "store"
    rate,           \* its local `requests'
    loaded,         \* the statistics as it has read them
    mutex,          \* the thread that holds statistics.mutex, 0 for none
    statistics,     \* statistics.requests
    main,           \* what main is at: "join", "sum" or "report"
    at,             \* its loop variable i
    report,         \* its sums
    aborted,        \* an assertion has failed
    seen, u_seen,   \* history: the latencies recorded by a thread since its calibration
    sampled         \* history: the rates recorded

ofThread == <<complete, requests, calibrated, latency_histogram, u_latency_histogram, seen, u_seen>>
ofSampling == <<sampling, rate, loaded, mutex, statistics, sampled>>
ofMain == <<main, at, report>>
vars == <<ending, loop, ofThread, ofSampling, ofMain, aborted>>

Thread == 1..Threads

-----------------------------------------------------------------------------
(* stats.c, for statistics that have a histogram.                           *)

NoMin == MaxResponses + 1     \* UINT64_MAX

stats_alloc == [min |-> NoMin, max |-> 0, histogram |-> hdr_init]

stats_record(stats, x) ==
    [min |-> Min({x, stats.min}), max |-> Max({x, stats.max}),
     histogram |-> hdr_record_value(stats.histogram, x)]

\* The responses that stats_within_stdev counts between two values.
stats_within(h, lower, upper) ==
    LET past  == {n \in Visited(h) : upper < place[n].highest}
        last  == IF past = {} THEN counts_len ELSE Min(past)
        below == {n \in Visited(h) \cap 1..last : place[n].value < lower}
        lower_count == IF below = {} THEN 0 ELSE CountTo(h, Max(below))
        upper_count == IF past = {} THEN h.total_count ELSE CountTo(h, last)
    IN  upper_count - lower_count

-----------------------------------------------------------------------------
Nothing == [v \in Latencies |-> 0]
NoRates == [r \in 0..MaxResponses |-> 0]

Init ==
    /\ ending = "no"
    /\ loop = [t \in Thread |-> "running"]
    /\ complete = [t \in Thread |-> 0] /\ requests = [t \in Thread |-> 0]
    /\ calibrated = [t \in Thread |-> FALSE]
    /\ latency_histogram = [t \in Thread |-> hdr_init]
    /\ u_latency_histogram = [t \in Thread |-> hdr_init]
    /\ sampling = [t \in Thread |-> "no"] /\ rate = [t \in Thread |-> 0]
    /\ loaded = [t \in Thread |-> stats_alloc]
    /\ mutex = 0 /\ statistics = stats_alloc
    /\ main = "join" /\ at = 1
    /\ report = [complete |-> 0, latency |-> hdr_init, u_latency |-> hdr_init]
    /\ aborted = FALSE
    /\ seen = [t \in Thread |-> Nothing] /\ u_seen = [t \in Thread |-> Nothing]
    /\ sampled = NoRates

\* t may run a handler.
Runs(t) == ~aborted /\ loop[t] # "over" /\ sampling[t] = "no"

\* SIGINT, and the passing of time.
Interrupt == /\ ~aborted /\ ending = "no" /\ main = "join"
             /\ ending' = "interrupt"
             /\ UNCHANGED <<loop, ofThread, ofSampling, ofMain, aborted>>

Deadline == /\ ~aborted /\ ending # "deadline" /\ main = "join"
            /\ ending' = "deadline"
            /\ UNCHANGED <<loop, ofThread, ofSampling, ofMain, aborted>>

-----------------------------------------------------------------------------
(* Handlers of a thread.                                                    *)

\* response_complete counts the response; after the deadline it stops the
\* loop, else it records both latencies when it must record every response
\* or the batch is done.
Count(t) == /\ SumFunction(complete) < MaxResponses
            /\ complete' = [complete EXCEPT ![t] = @ + 1]
            /\ requests' = [requests EXCEPT ![t] = @ + 1]
            /\ UNCHANGED <<calibrated, ofSampling, ofMain, ending>>

LateResponse(t) ==
    /\ Runs(t) /\ ending = "deadline"
    /\ Count(t)
    /\ loop' = [loop EXCEPT ![t] = "stopping"]
    /\ UNCHANGED <<latency_histogram, u_latency_histogram, seen, u_seen, aborted>>

\* The order in which the two are recorded does not show: an abort ends all.
RecordBoth(t, timing, actual) ==
    IF AssertionsHold(timing) /\ AssertionsHold(actual)
    THEN /\ latency_histogram' = [latency_histogram EXCEPT ![t] = hdr_record_value(@, timing)]
         /\ u_latency_histogram' = [u_latency_histogram EXCEPT ![t] = hdr_record_value(@, actual)]
         /\ seen' = [seen EXCEPT ![t][timing] = @ + 1]
         /\ u_seen' = [u_seen EXCEPT ![t][actual] = @ + 1]
         /\ UNCHANGED aborted
    ELSE /\ aborted' = TRUE
         /\ UNCHANGED <<latency_histogram, u_latency_histogram, seen, u_seen>>

response_complete(t) ==
    /\ Runs(t) /\ ending # "deadline"
    /\ Count(t)
    /\ \/ \E timing, actual \in Latencies : actual <= timing /\ RecordBoth(t, timing, actual)
       \/ /\ ~RecordAll
          /\ UNCHANGED <<latency_histogram, u_latency_histogram, seen, u_seen, aborted>>
    /\ UNCHANGED loop

\* Mutant of Restarted: the same histogram is reset twice.
Restarted_OnlyCorrected(t) ==
    /\ latency_histogram' = [latency_histogram EXCEPT ![t] = hdr_reset(@)]
    /\ UNCHANGED u_latency_histogram

Restarted(t) ==
    /\ latency_histogram' = [latency_histogram EXCEPT ![t] = hdr_reset(@)]
    /\ u_latency_histogram' = [u_latency_histogram EXCEPT ![t] = hdr_reset(@)]

\* calibrate.  It waits longer when the mean is 0, but not when there is no
\* latency at all: 0.0 / 0 is not equal to 0.
calibrate(t) ==
    /\ Runs(t) /\ ~calibrated[t]
    /\ ~MeanIsZero(latency_histogram[t])
    /\ Restarted(t)
    /\ seen' = [seen EXCEPT ![t] = Nothing] /\ u_seen' = [u_seen EXCEPT ![t] = Nothing]
    /\ requests' = [requests EXCEPT ![t] = 0]
    /\ calibrated' = [calibrated EXCEPT ![t] = TRUE]
    /\ UNCHANGED <<ending, loop, complete, ofSampling, ofMain, aborted>>

check_timeouts(t) ==
    /\ Runs(t) /\ ending # "no" /\ loop[t] = "running"
    /\ loop' = [loop EXCEPT ![t] = "stopping"]
    /\ UNCHANGED <<ending, ofThread, ofSampling, ofMain, aborted>>

\* The iteration is over and aeMain returns.
\* Mutant: stop is cleared by every iteration.
aeMain_ClearsStop(t) ==
    /\ Runs(t) /\ loop[t] = "stopping"
    /\ loop' = [loop EXCEPT ![t] = "running"]
    /\ UNCHANGED <<ending, ofThread, ofSampling, ofMain, aborted>>

aeMain(t) ==
    /\ Runs(t) /\ loop[t] = "stopping"
    /\ loop' = [loop EXCEPT ![t] = "over"]
    /\ UNCHANGED <<ending, ofThread, ofSampling, ofMain, aborted>>

-----------------------------------------------------------------------------
(* sample_rate: the rate, the mutex, stats_record read and written, and the *)
(* end of the interval.  The timer is taken to be on time, so that a rate   *)
(* is the number of responses in an interval; rates are always trackable.   *)

InSampling == Cardinality({t \in Thread : sampling[t] # "no"})

sample_rate(t) ==
    /\ Runs(t) /\ calibrated[t]
    /\ SumFunction(sampled) + InSampling < MaxSamples
    /\ rate' = [rate EXCEPT ![t] = requests[t]]
    /\ sampling' = [sampling EXCEPT ![t] = "lock"]
    /\ UNCHANGED <<ending, loop, ofThread, loaded, mutex, statistics, sampled, ofMain, aborted>>

\* pthread_mutex_lock.  Mutant: it does not wait.
Locked_Always(t) == mutex' = t
Locked(t) == mutex = 0 /\ mutex' = t

Lock(t) == /\ ~aborted /\ sampling[t] = "lock"
           /\ Locked(t)
           /\ sampling' = [sampling EXCEPT ![t] = "load"]
           /\ UNCHANGED <<ending, loop, ofThread, rate, loaded, statistics, sampled, ofMain, aborted>>

Load(t) == /\ ~aborted /\ sampling[t] = "load"
           /\ loaded' = [loaded EXCEPT ![t] = statistics]
           /\ sampling' = [sampling EXCEPT ![t] = "store"]
           /\ UNCHANGED <<ending, loop, ofThread, rate, mutex, statistics, sampled, ofMain, aborted>>

Store(t) ==
    /\ ~aborted /\ sampling[t] = "store"
    /\ UNCHANGED <<ending, loop, complete, calibrated, latency_histogram, u_latency_histogram,
                   seen, u_seen, rate, ofMain, aborted>>
    /\ statistics' = stats_record(loaded[t], rate[t])
    /\ loaded' = [loaded EXCEPT ![t] = stats_alloc]
    /\ mutex' = 0
    /\ requests' = [requests EXCEPT ![t] = 0]
    /\ sampling' = [sampling EXCEPT ![t] = "no"]
    /\ sampled' = [sampled EXCEPT ![rate[t]] = @ + 1]

-----------------------------------------------------------------------------
(* main.                                                                    *)

NextThread(then) == IF at < Threads THEN at' = at + 1 /\ UNCHANGED main
                                    ELSE at' = 1 /\ main' = then

\* Mutant of Joined: main does not wait.
Joined_Always(t) == TRUE

\* pthread_join returns when the thread has ended.
Joined(t) == loop[t] = "over"

Join == /\ ~aborted /\ main = "join"
        /\ Joined(at)
        /\ NextThread("sum")
        /\ UNCHANGED <<ending, loop, ofThread, ofSampling, report, aborted>>

Sum == /\ ~aborted /\ main = "sum"
       /\ report' = [complete  |-> report.complete + complete[at],
                     latency   |-> hdr_add(report.latency, latency_histogram[at]),
                     u_latency |-> hdr_add(report.u_latency, u_latency_histogram[at])]
       /\ NextThread("report")
       /\ UNCHANGED <<ending, loop, ofThread, ofSampling, aborted>>

\* The process has ended.
Done == (main = "report" \/ aborted) /\ UNCHANGED vars

Handlers(t) == \/ LateResponse(t) \/ response_complete(t) \/ calibrate(t)
               \/ check_timeouts(t) \/ aeMain(t)
               \/ sample_rate(t) \/ Lock(t) \/ Load(t) \/ Store(t)

Next == \/ Interrupt \/ Deadline
        \/ \E t \in Thread : Handlers(t)
        \/ Join \/ Sum \/ Done

Spec == Init /\ [][Next]_vars

(***************************************************************************)
(* Time passes, main and the threads are scheduled: a handler goes on with *)
(* what it has begun.  check_timeouts is on a timer that recurs and an     *)
(* iteration of the loop ends, whatever samples are taken in between:      *)
(* TimerLoop shows that no timer keeps another one from running.           *)
(***************************************************************************)
FairSpec ==
    /\ Spec
    /\ WF_vars(Deadline) /\ WF_vars(Join \/ Sum)
    /\ \A t \in Thread : /\ WF_vars(Lock(t) \/ Load(t) \/ Store(t))
                         /\ SF_vars(check_timeouts(t) \/ aeMain(t))

-----------------------------------------------------------------------------
(* Properties.                                                              *)

Stats == [min : 0..NoMin, max : 0..MaxResponses, histogram : Histogram]

\* The state is well formed, and only a thread that holds the mutex is
\* between Lock and Store (sample_rate).
TypeOK ==
    /\ ending \in {"no", "interrupt", "deadline"}
    /\ loop \in [Thread -> {"running", "stopping", "over"}]
    /\ complete \in [Thread -> 0..MaxResponses] /\ requests \in [Thread -> 0..MaxResponses]
    /\ calibrated \in [Thread -> BOOLEAN] /\ aborted \in BOOLEAN
    /\ latency_histogram \in [Thread -> Histogram] /\ u_latency_histogram \in [Thread -> Histogram]
    /\ sampling \in [Thread -> {"no", "lock", "load", "store"}]
    /\ rate \in [Thread -> 0..MaxResponses] /\ loaded \in [Thread -> Stats]
    /\ mutex \in 0..Threads /\ statistics \in Stats
    /\ \A t \in Thread : sampling[t] \in {"load", "store"} => mutex = t
    /\ main \in {"join", "sum", "report"} /\ at \in Thread
    /\ report.complete \in Nat /\ report.latency \in Histogram /\ report.u_latency \in Histogram

\* The counts of every histogram make up its total.  The loops over a
\* histogram end on nothing else: hdr_iter_next goes on beyond the last
\* bucket while the total is not reached.
Consistent(h) == h.total_count = SumFunction(h.counts)
IteratorsEnd ==
    /\ \A t \in Thread : Consistent(latency_histogram[t]) /\ Consistent(u_latency_histogram[t])
    /\ Consistent(statistics.histogram)
    /\ Consistent(report.latency) /\ Consistent(report.u_latency)

\* The histogram holds these values: the count at every place is that of
\* the values from its own up to the next one's.
Holds(h, values) ==
    \A n \in 1..counts_len : CountAt(h, n) =
        SumFunctionOnSet(values, {v \in DOMAIN values :
            /\ values[v] > 0 /\ v >= place[n].value
            /\ n < counts_len => v < place[n + 1].value})

\* A thread's histograms hold every latency it recorded since it was
\* calibrated, at its place; none is left out and none is from before
\* (hdr_record_value, calibrate).
CountedWhereItBelongs ==
    \A t \in Thread : Holds(latency_histogram[t], seen[t]) /\ Holds(u_latency_histogram[t], u_seen[t])

\* Between two samples the shared statistics hold every rate that any
\* thread has recorded, and their extremes (stats_record under the mutex).
EverySampleCounted ==
    LET rates == {r \in DOMAIN sampled : sampled[r] > 0}
    IN  mutex = 0 /\ ~aborted =>
            /\ Holds(statistics.histogram, sampled)
            /\ rates # {} => statistics.min = Min(rates) /\ statistics.max = Max(rates)

\* What all threads have seen.
AllOf(values) == [v \in Latencies |-> SumFunction([t \in Thread |-> values[t][v]])]

\* The report is of all the threads did and of nothing they still do: the
\* responses completed and every latency (the join, the sums and hdr_add).
ReportIsSum ==
    main = "report" =>
        /\ report.complete = SumFunction(complete)
        /\ Holds(report.latency, AllOf(seen)) /\ Holds(report.u_latency, AllOf(u_seen))

Percentiles == {50, 75, 90, 99, 100}

\* A percentile that is reported is a latency that was seen, within the
\* precision of the histogram, and it is the one of that rank, to the nearest
\* (hdr_value_at_percentile; significant_figures in hdr_histogram.h).
PercentilesOfTheSeen ==
    LET all == AllOf(seen)
        Upto(v)  == SumFunctionOnSet(all, {w \in Latencies : w <= v})
        Below(v) == SumFunctionOnSet(all, {w \in Latencies : w < v})
        total    == report.latency.total_count
    IN  main = "report" /\ total > 0 => \A p \in Percentiles :
            LET value == hdr_value_at_percentile(report.latency, p)
            IN  \E v \in Latencies :
                    /\ all[v] > 0
                    /\ v <= value /\ (value - v) * Radix ^ significant_figures <= v
                    /\ 100 * Upto(v) + 50 >= p * total
                    /\ Below(v) > 0 => 100 * Below(v) < p * total + 50

\* The extremes that are reported are the least values of the places of the
\* least and the greatest latency seen (hdr_min, hdr_max).
ExtremesOfTheSeen ==
    LET all == {v \in Latencies : AllOf(seen)[v] > 0}
        PlaceOf(v) == Max({place[n].value : n \in 1..counts_len} \cap 0..v)
    IN  main = "report" /\ all # {} =>
            /\ hdr_min(report.latency) = PlaceOf(Min(all))
            /\ hdr_max(report.latency) = PlaceOf(Max(all))

\* No percentile of the actual latencies is above that of the corrected
\* ones: both are of the same responses (response_complete, calibrate).
CorrectedDominates ==
    main = "report" => \A p \in Percentiles :
        hdr_value_at_percentile(report.u_latency, p) <= hdr_value_at_percentile(report.latency, p)

\* The share between mean - stdev and mean + stdev counts every latency
\* whose place lies between them, and is a share (stats_within_stdev).
WithinCountsTheInside ==
    main = "report" => \A lower, upper \in Bounds : lower <= upper =>
        LET h == report.latency
            inside == {n \in 1..counts_len : lower <= place[n].value /\ place[n].highest <= upper}
        IN  /\ stats_within(h, lower, upper) <= h.total_count
            /\ SumFunctionOnSet([n \in 1..counts_len |-> CountAt(h, n)], inside)
                 <= stats_within(h, lower, upper)

\* The report describes the latencies that were seen: every figure main
\* derives from the histogram is right for them within its precision.
ReportDescribesTheSeen == PercentilesOfTheSeen /\ ExtremesOfTheSeen /\ WithinCountsTheInside

\* Nothing keeps the report from coming, unless an assertion ends the
\* process: no thread waits for the mutex or main for a thread in vain.
ReportComes == <>(main = "report" \/ aborted)
=============================================================================
