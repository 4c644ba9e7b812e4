# TLA+ models of wrkx

wrkx is wrk2 with extensions: a constant-throughput HTTP load generator.  A few
threads each drive a share of the connections from a single-threaded event loop,
send batches of requests on a schedule, and record how late each response is
with respect to that schedule.  This directory holds TLA+ modules translated from
`src/src/`, the TLC runs that check them on small instances, and proofs that
TLAPS checks for every value of the constants.  `PROJECT.json` maps every
definition to the lines it models.

All paths below are under `src/src/` unless they say otherwise.

## 1. The system

| component | state it keeps | operations | talks to |
|---|---|---|---|
| worker connections (`wrk.c`) | per `connection`: `fd`, `written`, `pending`, `has_pending`, `complete`, `complete_at_last_batch_start`, the parser; `thread->errors` | `connect_socket`, `reconnect_socket`, `delayed_initial_connect`, `socket_connected`, `socket_writeable`, `socket_readable`, `response_complete`, `delay_request`, `check_timeouts` | called back by the event loop; calls the socket functions, the parser, the pacing, the script |
| pacing and latency (`wrk.c`) | `thread_start`, `throughput`, `caught_up`, the catch-up start, `actual_latency_start` | `usec_to_next_send`, the stamps in `socket_writeable`, the arithmetic of `response_complete` | reads the wall clock, feeds the histograms, sets timers |
| timers of the loop (`ae.c`) | `timeEventHead`, `timeEventNextId`, `lastTime` | `aeCreateTimeEvent`, `aeDeleteTimeEvent`, `aeSearchNearestTimer`, `processTimeEvents` | runs handlers that change the list it walks |
| file events of the loop (`ae.c`, `ae_epoll.c`) | `events`, `fired`, `maxfd`, `setsize`, `stop`, the epoll set | `aeCreateEventLoop`, `aeCreateFileEvent`, `aeDeleteFileEvent`, `aeProcessEvents`, `aeMain`, `aeStop` | epoll, whose descriptors all threads share; runs handlers that change the table it consults |
| socket functions (`net.c`, `ssl.c`) | the OpenSSL session | `connect`, `close`, `read`, `write`, `readable`, plain and TLS | the kernel |
| HTTP parser (`http_parser.c`) | `state`, `nread`, `content_length`, flags | `http_parser_execute`, `http_should_keep_alive`, `http_parser_parse_url` | calls `header_field`, `header_value`, `response_body`, `response_complete` back; `script_parse_url` asks it for the parts of a URL |
| calibration, sampling, timeouts (`wrk.c`) | `thread->interval`, `requests`, `start`; `statistics.requests` | `calibrate`, `sample_rate`, `check_timeouts` | timers of the loop; the shared statistics |
| start-up, aggregation, report (`wrk.c`) | `cfg`, `parser_settings`, `statistics`, `threads` | `main`, `parse_args`, the join and the sums | creates the threads one by one while the first already run, calls the script's setup, init and done |
| histogram (`hdr_histogram.c`) | counts by bucket and sub-bucket, `total_count` | record, add, reset, extremes, mean, value at percentile, iterators | two per thread, written by `response_complete`, reset by `calibrate`, summed by `main`; one of rates |
| statistics (`stats.c`) | `min`, `max`, a histogram; a ring of samples that is used only without one, hence never | `stats_record`, `stats_within_stdev`, `stats_percentile` | the rates are written by every thread under a mutex; read by `main` and the script |
| units (`units.c`) | none | `scan_metric`, `scan_time`, the formatters | the command line and the report |
| scripting (`script.c`, `wrk.lua`) | a Lua state per thread | `script_setup`, `script_init`, `script_request`, `script_response`, `script_verify_request`, `script_done` | `main` and the handlers |

Left aside: `zmalloc.c` (a wrapper of malloc whose counter nothing reads),
`tinymt64.c` (a third-party generator), the polling backends a Linux build does not
compile, and LuaJIT, which is vendored.

What is hard about it:

* **Handlers of one thread interleave with everything else.**  No two handlers of
  a thread run at once, but the peer and the clock move between any two of their
  steps, and one handler closes and opens descriptors that later entries of the
  `fired` array, timers or the rest of `socket_readable` still refer to.
* **Every failure ends in `reconnect_socket`,** which runs in the middle of another
  handler, reuses descriptor numbers at once, and leaves the timers of the
  connection alone.
* **A connection is woken up by exactly one thing at a time** (its connect, its
  interest in writing, a timer, a response).  None means that it is silent for the rest of the
  run; two mean that it sends a batch twice.
* **Time is the wall clock,** cut to milliseconds in the timers.  It is read several times in a handler and once
  for each timer of a pass, and may be set back between any two reads.
* **Over TLS a write is retried as a whole,** although records of it may have been sent, and each retry looks
  like the first write of a batch.
* **Timers change the list that `processTimeEvents` is walking.**
* **Threads share more than they seem to:** the configuration and the callbacks, which `main` still writes after
  `init()` of the first thread; the descriptors, of which the kernel gives out the lowest, so that a number closed by
  one thread is the next one of another; and one mutex.

PROJECT.json "hazards" lists these and the others at their lines, with the
properties that cover each.

### What makes each component correct

* connections: one open socket and one wake-up each; `pending` is what the server still
  owes, and no batch is begun before the last one is answered or lost; the server sees whole requests; errors have causes; the registration in
  the event table is the connection's own; stale readiness is never acted on; a
  delayed batch is sent in the end, and the deadline ends the loop.
* pacing: no batch before its time, nor faster than twice the rate when catching
  up; the corrected latency is at least the actual one, but for a clock that is set back
  within the handler that sends; timers are set within a tick of their target.
* timers: all timers due run in a pass, the ones created meanwhile wait, the loop
  does not sleep past a timer by a second or more, and passes end unless handlers are too slow.
* parser: one completion per response, whatever the split of the bytes into reads.
* histogram: a value is counted in the bucket whose range holds it; percentiles are
  of values that were recorded, within the precision; adding histograms adds their counts.
* statistics: no sample lost or torn under concurrent recording; the report is of what
  all threads did and nothing they still do.
* file events: epoll watches what the table says, at least for a socket that is the connection's own; every
  socket a thread may get has a slot in its table.
* start-up: threads see a configuration that no longer changes; what the command line is accepted for has work for every thread;
  the parts of a URL are the ones between its delimiters; a thread that is told to stop leaves its loop.

## 2. The modules

| module | models | composed with |
|---|---|---|
| `AeEvents` | the file-event table as pure operators, and which handlers the dispatcher runs for an entry | extended by `Connection` |
| `Connection` | one worker thread: its connections, `aeMain`, the dispatch, the socket functions, and the peer of every socket | extends `AeEvents` |
| `ConnectionProofs` | the inductive invariant of `Connection` and its theorems; what is in flight on a socket and what each operation does to it; the stations of a connection, and the account of errors and faults; the theorems about requests, `pending`, wake-ups, turns and errors | extends `ConnectionTurns` |
| `Turns` | what a connection promises: it takes turns with the server | stands alone |
| `ConnectionTurns` | the mapping under which `Connection` implements `Turns` | extends `Connection`, instantiates `Turns` |
| `FileEvents` | the event table and the epoll set of every thread, on the descriptors of the process | extends `AeEvents` |
| `Pacing` | the schedule and the latencies of one connection on a clock, and the timeouts counted for it | stands alone |
| `PacingProofs` | the inductive invariant of `Pacing` and its theorems | extends `Pacing` |
| `TimerLoop` | the list of timers and the pass over it | stands alone |
| `TimerLoopProofs` | the inductive invariant of `TimerLoop` and its theorems | extends `TimerLoop` |
| `HttpParser` | the parser within a response and across reads, and the buffers of the script's `response()` | extends `HttpHeaders` |
| `HttpParserProofs` | the inductive invariant of `HttpParser` and its theorems; the machine that takes one symbol at a time, and that the parser follows it | extends `HttpParser` |
| `HttpStreamProofs` | the machine run over what `HttpResponses` builds; the theorems about what is completed, closed and accepted | extends `HttpParserProofs` |
| `HttpHeaders` | how names, values and numbers are recognised, as pure operators | extends `HttpResponses` |
| `HttpResponses` | the reference: what a response is, its bytes, its text, whether the connection ends with it | stands alone |
| `HdrHistogram` | the histogram, as pure operators on a record of its counts | stands alone |
| `Statistics` | what the threads record, how they are calibrated, sample and end, and what `main` reports | extends `HdrHistogram` |
| `StatisticsProofs` | sums, shifts and the places of a histogram, the inductive invariant of `Statistics` and its theorems | extends `Statistics` |
| `Urls` | the two automata that take a URL apart, and the reference that splits it at its delimiters | stands alone |
| `Settings` | numbers with units, and what `parse_args` accepts, as pure operators | extends `Urls` |
| `Startup` | `main` up to the join, thread by thread, the phases of the script, and how a loop is stopped | extends `Settings` |
| `FileEventsProofs` | the two inductive invariants of `FileEvents` and their theorems | extends `FileEvents` |
| `StartupProofs` | the inductive invariants of `Startup` and their theorems | extends `Startup` |
| `MC*` | command lines, streams, symmetry sets and model values for TLC | |

`Connection`, `Pacing`, `TimerLoop`, `FileEvents`, `Statistics` and `Startup` are six views of the same program, cut
where the code has a narrow interface:

* `Connection` keeps all of the control and reduces time to `due[c]`, whether
  `usec_to_next_send(c)` would return 0 now.  It may become true at any time and
  is decided afresh after each response.  `Pacing` is where that number is computed.
* `Pacing` keeps time and reduces sockets and the loop to `mode`: what the
  connection waits for.  Its `response_complete(ends)` and `BatchLost` stand for what
  `Connection` does in detail.
* In both, a timer that is due is run some time later.  `TimerLoop` is where the
  pass that runs it is modelled; it takes from `Pacing` that `delay_request` asks for
  another delay at most once (`EarlyAtMostOnce`) unless the clock is set back.
* `Connection` has one thread, and takes its epoll set to be what its table says.  `FileEvents` has all the threads
  and keeps the two apart; of a handler it keeps what it opens, closes and registers.  Where a connection has the socket
  it is registered with, the assumption holds (`OwnSocketWatched`); where it is not, it does not (`EpollAgrees`, violated).
* `Statistics` has all the threads and `main`, and reduces a thread's loop to "a handler may run
  when no other one does".  That the corrected latency is not below the actual one, but for a clock set back within
  a handler, it takes from `Pacing` (`LatenciesSound`), that timers recur from `TimerLoop`, and that the loop ends after
  `aeStop` from `Connection` (`DeadlineEndsLoop`).
* `Startup` has what comes before: `Connection` and `Statistics` begin with a configuration and callbacks
  that no longer change (`ConfigStable`), at least one connection for each thread (`WorkForEveryThread`), and
  batches of `cfg.pipeline` requests.

### Connection, Turns and ConnectionTurns

One variable per field the control reads.  `pc` is where the thread is:

    poll -> dispatch -> (read <-> parse | eof) -> writable -> dispatch -> timers -> poll | done

`dispatch` picks an entry of the fired array in any order (the kernel's); the
readable half runs first, `RunsWrite` decides about the writable half on the
table *as it is then*.  `socket_readable` is not one step: each `read()`, each message
the parser completes and the way out are actions, so the peer moves between them.
The other handlers are one action per outcome of the system call they make
(`HandshakeDone`, `HandshakeRetry`, `HandshakeError`; `DelayBatch`, `WriteSome`, `WriteRetry`,
`WriteError`), each with everything the handler does, `reconnect_socket` included.
`connect_socket` takes any descriptor that is closed, which includes the one that
`reconnect_socket` closed just before.

`Reported` is what epoll_wait says of a socket: the directions that were asked for, and errors.

A plain write sends any number of chunks and `c->written` counts them.  `SSL_write` reports success for the whole buffer only,
since wrk does not allow it partial writes (ssl.c:85-96): until then it may have sent any number of whole records (`Record` chunks each),
and `c->written` is 0.  `written` counts what was sent in both cases; `AtStart` is whether the program takes the next write for the
first of its batch, which over TLS it always does: `WriteRetry` sends records, and every retry asks the schedule and does the
bookkeeping of the batch (`BeginBatch`) again.

`sock[f]` is the kernel's socket and the server behind it: a response is one token
that names how it ends (`keep`, `close`, `untilEof`, `interim`, `bad`), a request is `ReqLen`
chunks, and `owed`, `rx` count what the server has received and not yet answered.
`garbled` is set when a request begins where the server does not expect one.
What may go wrong is a set, `Faults`, that each run chooses from:
`refuse` and `noSocket` (connect fails late, or at once), `idleClose` and `drop` (the server closes
or resets, between batches or in the middle of one), `talkOn` (a response after
one that announced the end), `garbage` (not HTTP), `early` (a response before the request is complete),
`noLength` (a response whose body ends with the stream, `untilEof`).

Counters that no guard reads (`thread->requests`, `bytes`, the status
and timeout errors), the histograms and the calls of the script's `response` are
left out: no property of this module depends on them.  `script_request` is taken to
return requests of one length.

`Turns` is what all this is for: a connection begins a batch only when nothing of the last one is outstanding; every
response it counts is one of that batch; a batch may be lost with its socket, and is then begun again or given up.
The mapping reads the batch in flight off the wire, the buffer that is being parsed, the body that is still open in the parser and the part
of the request not yet written (`Outstanding`), not off `pending`, so that `pending` may not be wrong in a way the mapping repeats.

### FileEvents

`file[f]` is what a descriptor refers to: nothing, a file of somebody else, an epoll set, or the socket of a
connection.  A thread has the table of `AeEvents` and, beside it, the events its epoll set watches per descriptor;
`close()` in any thread removes the descriptor from every set (`Forget`) and from no table.  `CanControl` is when
`epoll_ctl` accepts an operation, `AddOp` which one the code asks for.
A reconnect is cut where another thread can take the number: `reconnect_socket` up to `close()`, `OpenSocket`, then `connect_socket`
or `ConnectError`.  `main` creates the loops, and opens and closes the file of the script, between the steps of the threads that run.
The process has a limit on descriptors, which is how `socket()` fails (`NoSocket`).

### Pacing

`Interval` is 1/`throughput`; `Planned(n)` is when the plan wants the request that
follows the first `n`.  `usec_to_next_send` is split into the state it leaves
(`NoteSchedule`: the catch-up episode) and its result (`SendNow`, `usecToWait`).
`TimerFor` is the rounding of the wait to milliseconds added to a clock that
`aeAddMillisecondsToNow` has cut to milliseconds.
Each read of the clock is a step of its own, and the clock moves between them, forward or back: `socket_writeable` decides (mode
"sending" or "delaying"), `Send` stamps the batch after the script has made its requests, `SetTimer` adds the wait that was computed
before to the clock as it is then.  `slip` remembers how far the clock was set back between decision and stamp.
`check_timeouts` counts the connection when the time it noted for its last batch (`start`) is older than `Timeout`.

### TimerLoop

The list, head first, with the time each timer has left.  `StartPass`, `PassOver`,
`RunOnce`, `RunAgain`, ... are the iterations of the loop of `processTimeEvents`; a handler may
create timers (`SetDelay`, between passes: only file handlers do), be deleted, or
be set again, after which the walk restarts at the head.

`Tick` and `SetBack` may come anywhere, between two timers of a pass as well, so a handler takes any time.  `SleepTime` is the timeout as the code computes it, of seconds
and a remainder (`Second`): negative seconds are cut to 0, and the part of a second is kept.  `dueSince` are the timers that were due when the
pass began, less those that a step back has made not due since.  `Floor` and `Longest` keep the time left of an overdue timer finite: all that
matters beyond `Floor` is the part of a second.

### HttpParser

`http_parser_execute` is one action per `case` of its switch; `data` and `p` are the buffer
and the position in it, the marks are 0 for NULL.  `Read` cuts the stream anywhere, and at
the end of a buffer `Flush` hands over what is marked.  The callbacks and the part of
`response_complete` that resets or closes are written out in the step that calls them.

Bytes are cut into symbols, as coarse as the control allows: a start line is one, since nothing
in it decides more than the version and the status; a name or value that the parser knows is two pieces
(`conn` `ection`), so a read may end within it and a longer or shorter name differs from it; digits are in base 2,
where the code has 10 for `Content-Length` and 16 for chunks, and `Largest` stands for ULLONG_MAX.
`HttpResponses` builds the bytes from a description of the response (headers with the lines
of their values, tokens of `Connection`, coding, parts of the body), and says independently of the
parser what its text is and whether the connection ends with it; the properties compare the
two.  The model is of a script that has a `response()`: without one only `on_message_complete` is
set and the rest of the model is the same.

Its view of a response is finer than `Connection`'s, where the parser makes one step of each: `CompletedOnTime`,
`ClosesWhenTold` and `WellFormedAccepted` are what `Connection` takes for granted of it.  `StreamsAssumption` is the grammar
that a server keeps to (`WellFormed` in `HttpResponses`): any number of headers and lines, any tokens in `Connection`, any body in any chunks,
lengths that the parser has room for, except for the one that a response may give out of range.
`cutShort` is a history: a connection was lost in the middle of a response and its text was left in the buffers.

Left out: requests, upgrades, `HTTP_MAX_HEADER_SIZE`, tabs, the deadline, and a server that
cuts off, with an orderly close, a body that ends with the connection (the parser cannot know).

### HdrHistogram and Statistics

`HdrHistogram` keeps the names of the code.  A histogram is a record of `counts` and `total_count`; the fields that
`hdr_init` computes once depend on the parameters alone and are operators.  `walk` is what the iterator comes to,
place by place; `Visited(h)` is where `hdr_iter_next` stops going on, so a loop over a histogram is a set
or a fold over `Visited(h)` or `Recorded(h)`.  `AssertionsHold` is what the build asserts of a value that is recorded.
Figures are in base `Radix` and values have `WordLength` bits, 10 and 64 in the code.

`Statistics` has a step per handler: `response_complete` counts and, when it must (`RecordAll`, or the last response of a
batch), records both latencies; `calibrate` resets; `check_timeouts` and `LateResponse` stop the loop.
`sample_rate` is cut where another thread may come between: `Lock`, `Load`, `Store` are the mutex and the reads and
writes of `stats_record` in between.  `Join` and `Sum` are the iterations of the two loops of `main`.  `seen`, `u_seen` and
`sampled` are histories for the properties: how often each value was recorded.

Left out: bytes and errors, which are summed as `complete` is; `hdr_stddev` (any `Bounds` may be mean minus and plus
the deviation); the length of an interval (a rate is the number of responses in one); the iterators that only print.

### Urls, Settings and Startup

`Urls` has the two automata of `http_parser_parse_url` as sets of edges, on an alphabet with one character, or two, of each class the
code distinguishes.  `UrlScan` and `http_parse_host` carry offset and length of each part along, `script_parse_url` adds
what wrk asks of a URL.  `Split` says the same without automata: where the delimiters are and what stands between them.

`Settings` has a text as what `sscanf` makes of it: digits or none, a sign, two letters.  `scan_units` multiplies in
words of `Word`.  `Config` and `Accepts` are the options and the checks of `parse_args`.

`Startup` goes through `main` step by step: a `Command` is a command line, a script is what its environments are like
after `init()`.  From `StartThread` on a thread moves by itself: `thread_main`, `aeMain`, then what can stop the loop.  A script may stop
its own thread whenever it is called (`MayStop`), and in `setup` any thread it has been given.
`asked` remembers that a stop was asked for while the loop was running.

## 3. The runs

| run | checks | instance | expected |
|---|---|---|---|
| `MCConnection` | `RequestsWellFormed`, `PendingMatchesWire`, `OneWakeup`, `ErrorsHaveCauses`, `TakesTurns`, `DueBatchIsSent`, `DeadlineEndsLoop` | 1 plain connection on 1 descriptor, 2 pipelined requests of 2 chunks, reads of 1 response, 4 responses (`keep`, `close`, `untilEof`, `bad`), 2 faults of `drop`, `garbage`, `talkOn`, `noLength`, fairness | pass |
| `MCConnectionAny` | `TypeOK`, `OwnDescriptor`, `NoStaleReadiness`, `LatencyFromLastBatch` | 2 TLS connections, 2 descriptors, 1 request of 2 records, 1 response of any kind with an end of its own, 2 faults, any but `noLength` | pass |
| `MCConnectionIdleClose` | `PendingMatchesWire` | 1 connection, one `idleClose` | violation |
| `MCFileEvents` | `OwnSocketWatched`, `EverySocketFits` | 2 threads of 1 connection, 2, 3 or 7 descriptors, 1 failing `connect()` | pass |
| `MCFileEventsStale` | `EpollAgrees` | the same with 6 descriptors, one of them inherited | violation |
| `MCPacing` | `TypeOK`, `LatenciesSound`, `WithinPlan`, `EarlyAtMostOnce` | interval 5, tick 3, 2 pipelined requests, from 3 to 17 microseconds, one step back of 2 at any time | pass |
| `MCPacingTimeouts` | `TimeoutsCountRequests` | interval 5, tick 3, 16 microseconds, a clock that only moves forward, 1 timeout counted | violation |
| `MCTimerLoop` | `TypeOK`, `PassRunsOldTimers`, `SleepIsBounded`, `PassEndsUnlessSlow` | 4 timers, period 2, delays 1 and 2, a second of 2, steps back of 2 in all at any time, handlers of any length, fairness of the thread alone | pass |
| `MCHttpParser` | `TypeOK`, `AssertionsHold`, `CompletedOnTime`, `ReportsTheResponse`, `ClosesWhenTold`, `WellFormedAccepted`, `BufferParsed` | 7 streams of up to 3 responses, reads of 1 to 4 symbols, 2 connections of which one may be cut off anywhere | pass |
| `MCHttpParserOwnText` | `ReportsOwnText` | the same | violation |
| `MCStatistics` | `TypeOK`, `IteratorsEnd`, `CountedWhereItBelongs`, `EverySampleCounted`, `ReportIsSum`, `ReportDescribesTheSeen`, `CorrectedDominates`, `ReportComes` | 2 threads, 4 sub-buckets and 3 buckets, latencies 0, 14 and 16, 3 responses, 2 samples, fairness | pass |
| `MCStartup` | `UrlPartsMatch`, `WorkForEveryThread`, `ConfigStable`, `StopIsHeeded` | several thousand command lines, 2 and 3 threads, 3 scripts, fairness | pass |

Every property of a passing run has a mutant in PROJECT.json: a change of one
mapped definition, written beside it in the module, that breaks the property; properties with two
halves have one for each.

**Bounds.**  Two connections and as many descriptors are enough for
every way two connections can get in each other's way: a number that passes from one to the other, two
entries of one fired array.  One connection on one descriptor gets its number back at every reconnect, which is what
the kernel does unless another connection comes between, and what leaves the most room for mistaking one socket for the other.  Two chunks of a request make a partial write possible,
two pipelined requests make a batch that can be cut in the middle, between
requests and inside one; a read of one response makes `socket_readable` loop.  Over TLS two records of
a request, `Record` = 1, are the least that a retry may follow after something was sent.
`Word` = 16 stands for 2^64: what matters is that `0 - 1` is not small.  The number of
responses and faults bounds the length of a behaviour, not the timers or the
handlers, and two batches per connection pass through every state again.

In `MCFileEvents` 7 descriptors are what two threads use at most, with the script's file (2 sets, 2 sockets, one that is being
opened each, the file), and with 2 or 3 every `socket()`, and `main` itself, may find none.  `Spare` and `Inherited` are 0, where
the code has 10 and usually 3: the table is as small as `EverySocketFits` allows.  In
`Pacing` the interval is not a multiple of the tick, so timers fall on every
remainder; 14 microseconds are almost three intervals and five ticks.  In `HttpParser` four symbols are
a name, its colon, a space and the first of the value, so two kinds of text can be open in one buffer, and
reads of every length up to that put a cut between any two symbols.  The streams hold every state
of the parser and every header it knows, whole, as a prefix and as part of a longer name; a second
connection sees every content the buffers can be left with.
In `MCStatistics` 14 is above `highest_trackable_value` but in the last place of the histogram, which the code
records, and 16 is beyond it; 0 and 14 are in the first and the last place and so between them every loop
over the places is walked from end to end.  Three responses make medians that are and are not between two values;
two samples are what a lost update takes.

In `MCStartup` the URLs are a schema followed by every server of up to three characters, or five after user info, every path, query and fragment of up to
four, and every beginning of up to four characters; with numbers of 2^12 every unit but the first overflows, `5000` is cut to the largest and a
sign wraps.  A run that goes on has two or three threads: the second and the third differ in whether anybody runs beside `setup()` of the
first, and whether two do.  Its fairness is that of a pass of the loop: it ends.

**What defeats which property.**  `MCConnectionAny` takes every fault but `noLength`, which
`MCConnection` takes; the other runs leave out those that break their properties.

* `idleClose` multiplies wake-ups (`MCConnectionIdleClose`), and so turns; so does `refuse` on a plain
  socket when the batch is not due: `socket_connected` reports success, `DelayBatch` sets a
  timer, the error event reconnects.
* `noSocket` loses the connection (nothing calls `connect_socket` again) and leaves a stale `c->fd`, whose
  consequences are in `MCFileEvents` and `MCFileEventsStale`.
* `untilEof` counts an error: the end of the stream completes the response, `response_complete` reconnects, and `socket_readable` goes on to
  its error exit (wrk.c:696), reconnects again and counts a read error.  So such a response is a fault of the server (`noLength`), the cause of that one error.
* `interim`: a 1xx response is counted as the response of its request, so `pending` runs
  ahead and, at zero, wraps.
* `talkOn` defeats none: bytes after a response that closes may belong to a socket that is gone by
  then, and are counted as an error of the new one, but each such error has the server's fault for a cause.
* over TLS a batch of several requests and more than a record: requests that are answered before `SSL_write` has taken the whole batch
  are counted down from `pending`, which the retry sets to `cfg.pipeline` again (wrk.c:649-662).  With `Tls`, `Pipeline` and `ReqLen` 2, `Record` 1,
  `Replies` {"keep"} and no fault TLC finds `PendingMatchesWire` violated; with `Record` 4, where the batch fits in a record, it holds.
* `early`: a response that is complete before its request has been written sets the interest in
  writability that the last write of the batch removes, and nothing wakes the
  connection again.
* a batch of several requests that is cut off: `LatencyFromLastBatch` is checked without pipelining (see the observations).

**Fairness.**  `Handler \/ Loop` is weakly fair: the thread is scheduled and no handler
blocks.  `check_timeouts` and the timers of each connection are strongly fair: they are
enabled only while the loop is in its timer pass, which recurs, and `TimerLoop` shows that a
pass runs every timer that is due (`PassRunsOldTimers`) and ends unless handlers are slower than the timers they set (`PassEndsUnlessSlow`).
Nothing is assumed of the server or of the time at which a batch becomes due.
In `TimerLoop` the thread goes on; the clock may stand still and descriptors owe nothing.  In `HttpParser` the parser
goes on within a buffer, which is a loop without a system call.
In `Statistics` time passes, `main` and a thread that is in `sample_rate` are scheduled; `check_timeouts` and the end of an
iteration (`aeMain`) are strongly fair, since other handlers of the thread come between them and the timer
recurs all the same (`TimerLoop`).  In `Startup` the end of a pass is weakly fair (`EndPass`); nothing is assumed of the deadline.

**Deadlock** is checked everywhere but in `Pacing`, whose clock stops at its bound, and in `FileEvents`, where all threads may have ended.
`Done` in `Connection` is the thread after `aeMain`, which really stops.

## 4. Findings

Four places where the code differs from what a comment or
`src/SCRIPTING` says of it, each a run that TLC ends with a counterexample
(PROJECT.json "findings" quotes both sides):

1. a server that closes an idle connection makes wrk send two batches at a time on the
   next one (`MCConnectionIdleClose`);
2. timeouts are counted for connections that wait for nothing (`MCPacingTimeouts`);
3. a timer of a connection whose reconnect failed registers a number that may belong to another thread; the table and epoll part, and
   the next socket with that number is refused (`MCFileEventsStale`);
4. headers and body that a lost connection has left in the buffers of `c` are given to `response()` with
   the next response, although `src/SCRIPTING:81` says that it is called with the headers and body of a response
   (`MCHttpParserOwnText`).  `ReportsTheResponse`, which passes, says that nothing else is wrong with the text: a report is the response's own
   unless a connection was cut off in the middle of a response before (`cutShort`).

Observations that the modules describe but no run shows as a violation:

* after a pipelined batch that was cut off `has_pending` stays set, so the next batch is timed from the start of the one before (wrk.c:651, against the
  comment at wrk.c:537);
* a response that ends with its connection is also counted as a read error (wrk.c:696; `src/SCRIPTING:107`);
* a latency is negative when the clock is set back between a send and its response, which wrk.c:552 calls impossible: `LatenciesSound` says so
  only while it is not.  Such a latency, or one too large for the histogram, does not make `hdr_record_value` return false as
  hdr_histogram.h:97 says: an assertion of `counts_index` fails first, and `wrk` aborts (`aborted` in `Statistics`);
* the lone NUL of a response without headers becomes a header in `script_response` (script.c:165), whose value it reads beyond the cursor;
* over TLS a retried write of several requests and more than a record sets `pending` back to `cfg.pipeline` although some of them have been answered
  (wrk.c:649-662; Section 3), so the connection waits for more responses than will come;
* when the nearest timer is overdue, the loop sleeps for up to 999 ms although `aeSearchNearestTimer` is to tell how long it can "be put in sleep without to delay any
  event" (ae.c:215): `aeProcessEvents` cuts negative seconds to 0 and keeps the milliseconds, which the borrow has made a number from 0 to 999 (ae.c:341-356);
* a pass ends only if its handlers are faster than the timers they set: the walk restarts at the head after every handler (ae.c:285-287 leaves out only the timers that
  handlers create), so timers that are set again and due again keep the sockets waiting;
* a clock set back between the decision to send (wrk.c:460) and the stamp (wrk.c:650) makes the corrected latency less than the actual one, by what it was set back;
* `cfg.duration * 1000000` (wrk.c:130) wraps for a duration of more than 584 thousand years;
* `on_headers_complete` is not set, so the body announced by an answer to HEAD, or by a 304, is waited for;
* a connection whose socket cannot be created is never opened again, though `-c` is described as the connections to keep open;
* the mean of an empty histogram is not a number, so `calibrate` does not wait for a first response;
* "+/- Stdev" counts a place only when it lies within the bounds as a whole, so it is 0 % when all values share a wide place;
* a stop that is asked for before the thread has come to `aeMain`, in `setup()` or `init()` in particular, is lost, since `aeMain` clears
  the flag (ae.c:421): `src/SCRIPTING:61` forbids the call then, nothing rejects it;
* the setup phase is said to begin once all threads have been initialised but not yet started (`src/SCRIPTING:49`); `main` starts each
  thread before it creates the next one, so `setup()` of a later thread runs beside the first;
* whether there is a `response()` is decided in the environment of the first thread; in another whose `init()` has removed it, the call
  aborts the process (`NoResponse`);
* the schema is compared with its case (wrk.c:97), so `HTTPS://` is a plain connection to a service of that name;
* a URL without a path loses its query, since `wrk.path` is the text from the path on or "/" (script.c:62);
* verifying the first request calls `request()` of the first thread once more than it sends requests, and accepts what follows the last
  complete request as long as it begins another one (script.c:273).

## 5. What is proved

`ConnectionProofs` proves for all constants that satisfy `ConnectionAssumption`, hence for any number of
connections and descriptors, any pipeline depth and every fault:

* `TypeCorrect`: `Spec => []TypeOK`;
* `Descriptors`: `Spec => []OwnDescriptor`;
* `NoStale`: `Spec => []NoStaleReadiness`;
* `LatencyBase`: `Spec => []LatencyFromLastBatch` when `Pipeline = 1`.  With 2 TLC violates it (see the observations), so the depth is
  a hypothesis and no convenience.

`OwnDescriptor` is not inductive alone.  The argument needs to know, at the moment a
handler calls `reconnect_socket`, that `c->fd` is the descriptor being dispatched or
one opened since the poll, and this depends on the dispatcher.  The inductive
invariant `IInv` adds to `TypeOK` and `OwnDescriptor`:

* `UnbornUnopened`: a connection whose first connect is still to come has no descriptor,
  so the registration `connect_socket` makes is its only one;
* `CurInv`: `cur` is a descriptor exactly while an entry is being dispatched, and no
  readiness is left outside the dispatch;
* `FiredInv`: readiness still in the fired array belongs to sockets that are older
  than the poll and open, but for the entry that is being dispatched;
* `CurFreshInv`: and that one, when it was opened again, has the one handler
  `socket_connected` in both directions and its readable half has run, so that
  `RunsWrite` is false;
* `ReaderInv`: `socket_readable` works on the descriptor that fired, and once its connection
  was opened again the parser is dead or the end of stream was seen, so it can
  only fail.

`InductiveStep` follows the disjuncts of `Next`.  The types are proved first, handler by
handler; `Reopen` is what every failure path shares, `HereInv` and `HereLeft` are the
contract between the dispatcher and the handlers of one descriptor.

Its second part proves what the wire and the program think of each other, again for every number of connections and
descriptors, every `ReqLen`, `Pipeline` and `Word`, plain and TLS:

* `Requests`: `Spec => []RequestsWellFormed`;
* `Pending`: `Spec => []PendingMatchesWire`;
* `Wakeups`: `Spec => []OneWakeup`;
* `Refinement`: `Spec => TakesTurns`, so `Connection` implements `Turns`;
* `Causes`: `Spec => []ErrorsHaveCauses`.

All five assume `Orderly`: the replies are `keep`, `close` and `bad`, the faults are not `idleClose`, `noSocket` or `early`, a plain
connect is not refused, and over TLS a batch is one request or fits in a record.  Each of these is excluded because the code does not have the properties
without it (Section 3 says how each defeats them), but for `untilEof`: TLC checks it (`MCConnection`), and the proofs leave it out.
`drop`, `garbage`, `talkOn` and, with TLS, `refuse` remain.  `MCConnection` has a plain instance of them.

`Stations` is the inductive invariant `WireInv`, proved on top of `IInv`:

* `ConnInv`: every connection that was started is at one station.  Either `socket_connected` is to run (`IsConnecting`), or the connection
  speaks (`IsSpeaking`): it is about to begin a batch, in the middle of writing one, delayed with one timer, or waiting for responses.
  The station fixes its entry in the table, its timers, what is on its socket, the offset it has written to and `pending`.  That there is one
  wake-up is then read off the station, and that it is the right one is not lost in any handler;
* `Counted`, within a batch: while the socket is whole `pending` is what the wire, the server and the buffer owe together; when the rest of
  the batch is lost with the socket, the loss is found before the count is down to zero.  Without the second half `pending` could reach
  zero, or wrap, on a socket that is about to be closed;
* `SocketsInv`: no socket has seen the beginning of a request where it did not expect one;
* `FiredInput`: readiness that was reported and not yet used is still there, so no handler reads from a socket that has nothing;
* `ReadInv`: `socket_readable` is where its program counter says, on the socket that fired unless that one was opened again;
* `StopInv`: the loop stops after the deadline, which is when `response_complete` leaves a batch unfinished.

Beside it, `Stations` proves `TlsInv`, which is what makes a retry over TLS harmless under `Orderly`: a request of which a part is sent is the only one of its
batch, since of a batch that fits in a record no part is sent; it is due; and nothing has come back, since a server that is not `early`
does not answer the part of a request (`PartUnanswered`).  So the bookkeeping that is done again finds `pending` at 1, and no retry
turns into a delay.

`Unmoved` and `Kept` are the contract between a handler and the connections it is not about: a connection whose socket, entry, timers and offset a
step leaves alone stays at its station.  The refinement then follows action by action: the mapped batch is the station's, so a step either begins,
answers, loses or gives up one, or stutters.

For `Causes` a sum has to be carried over: `CauseSet` holds the connections on whose socket there is something that will be counted as an
error if it is seen, and `NoConn` for responses that are parsed after their socket is gone.  `Balanced` says that errors and
`Cardinality(CauseSet)` together are at most `faults`; `Accounts` says that a step adds a cause only with a fault, and an error
only when it takes a cause away.  `Announces`, `FiredSaid` and `ReadSaid` are needed because an end of stream is no error after a
response that announced it, and they say that such a response is read before the end is.

`PacingProofs` proves for every rate, tick, pipeline depth and step back of the clock
(`PacingAssumption`): `TypeCorrect` (`TypeOK`), `LatenciesAreSound` (`LatenciesSound`: the corrected latency is at least the actual one,
less what the clock was set back between the decision to send the batch and its stamp),
`SendsWithinPlan` (`WithinPlan`), and `TimersOnTime` (`EarlyAtMostOnce`, with the `TimerNotTooSoon` it rests on).
The invariant that carries them:

* `BatchInv`: a connection that waits for responses has `has_pending` set, and the batch was
  stamped when the plan had reached it, or at most `slip` before.  A batch sent again keeps its stamp, and its `slip`;
* `SendInv`: between the decision to send and the stamp the plan and the catch-up rate still allow the batch, as long as the clock only moves forward;
* `TimerInv`: a timer lies on a millisecond, within a tick of what the connection
  waits for, and when it is the second of its wait it is not before it.  A timer that
  expires early leaves less than a tick, and whatever time passes before the timer is set again, it is then set on a later millisecond
  (`SecondWait`, `LaterTick`).

Arithmetic with a symbolic tick is kept in the lemmas `DivMod` to `LaterTick`; everything
else is linear.  `MaxTime` is not used by any proof.

`TimerLoopProofs` proves, for any number of timers, any periods and delays, handlers of any length and any steps back of the clock, in the middle of a pass as well,
`TypesHold` (`TypeOK`), `PassesAreComplete` (`PassRunsOldTimers`) and `SleepsAreBounded` (`SleepIsBounded`).  Its invariant `IInv`:

* `TimerList`: the list is ordered by id, newest first, with ids that have been given out, and `left` is not below `-Floor`.
  The walk compares ids with `maxId` to leave new timers alone, which is right only in an ordered list;
* `PassInv`: a timer that was due when the pass began and has not run is still in the list, due, and ahead of the walk.  A handler that
  creates a timer puts it in front of the list, behind the walk, and moves every other one by a place; a deletion moves those after it.  A
  timer that is set again makes the walk restart at the head, which puts everything ahead of it;
* `EveryDueTimerRuns`, `NewTimersWait`: the two halves of the property, and `SleepIsBounded`.

`StartupProofs` proves `ConfigurationIsStable` (`ConfigStable`) for every number of threads, every script and every set of command
lines.  Its invariant says where `main` can be while nothing runs: it verifies a request for the first thread only, and until it
has created that one no thread is past `created`, where `OnlyStartedWork` shows that none takes a step.

It also proves `EveryThreadHasWork` (`WorkForEveryThread`), of every command line whose numbers are natural numbers, with `Word` any positive number.  `AcceptedIsWorkable`
is what `parse_args` gives: the fields are natural numbers, because they are taken modulo `Word` wherever they may overflow, and what was compared with zero is not zero.
`WorkInv` carries this through `main`, which writes other fields of the configuration later and the same ones never.  `Scale`, the product of the loop of
`scan_units`, is a recursive function: that it exists (`PowersExist`) and that its values are natural numbers (`ScaleNat`) is shown by a least
counterexample (`NatMin`), since the prover has no induction rule to apply.

And it proves `UrlsAreTakenApart` (`UrlPartsMatch`), of every URL of up to `MaxUrl` characters, any ones at all: `UrlMatches` says that `script_parse_url` and the reference `Split`
agree on every text.  The two have nothing in common but the text, so the proof puts the positions of the delimiters between them:

* `Follow` picks an edge; `Url_...` and `Host_...` tabulate both automata, one lemma for each state;
* `StateAt` and `Conforms` say which state the first automaton is in after a position and what may stand there, in terms of the delimiters (`Delimiters`).  `StepUrl` is
  that the automaton follows `StateAt` while the characters conform and finds the first that does not;
* `GoodScan` is the invariant of the scan: every field has the part of its range (`UrlFirst` to `UrlLast`) that was read, and user info is known of once its mark was.  After a wrong
  character the scan is lost for good (`LostScan`): it is dead, or it began with a path and no schema is found any more;
* `HostStateAt`, `HostConforms` and `GoodHost` are the same for the server, which `http_parse_host` scans again (`HostParsed`).  `ServerAccepted` is that the states it may end in
  are those of a server that `SplitServer` takes;
* `GoodParts` and `OtherParts` read the seven parts off these invariants, and `PortNumberIs` the number of the port.

Both scans are functions of the position, so each invariant is carried to the end by `UpTo`, a least counterexample, once it is shown that there is such a function (`Iterates`).
The characters are those of `Urls`, one for each set that the edges tell apart, and any other string: one without an edge.
`MaxUrl` is 65535 because `http_parser_url` keeps offsets and lengths in 16 bits and nothing checks that they fit: the parts of a longer URL are cut out at the wrong place, and
`Urls`, whose numbers do not wrap, does not model it.

`HttpParserProofs` proves `ParserTypes` (`TypeOK`) and `NoAssertionFails` (`AssertionsHold`) for any streams, well formed or not, cut into reads of any length, any base from 2 to 4
(the numerals that are written down) and any `Largest`.  `WireAssumption` says that a stream is a sequence of symbols; the reads are all that is used of it.  `CaseStep` goes
through the cases of `http_parser_execute`, and its invariant is the reason the parser has one state for each of them:

* `MarkInv`: a mark is set only in the state in which the text it begins goes on.  The marks for names and values are set again by a read that begins within
  one, so the state must still be that one, and the mark of a body must have been handed over before;
* `LengthInv`: the value that means "no length" never becomes the length of a body or chunk: a number that has room for another digit stays below it (`DigitFits`), and
  after the headers it leads to `s_body_identity_eof`.  A body or chunk that goes on has something left, and a chunk that ends has nothing;
* `ChunkInv`: chunks are read only where the header said so; nothing but a new message clears the flag.

`AfterValue`, a recursive function of the position, has its values' types (`ValueTypes`) by a least counterexample, once that it exists is shown.

The same module goes on with what the parser reports, and `HttpStreamProofs` ends it.  `CompletedOnTime`, `ClosesWhenTold` and `WellFormedAccepted` compare the state of a parser that is
given reads with the whole text that `HttpResponses` builds, so the argument has two halves that meet in a machine:

* the *machine* (`Step`, `After`, `Run`) takes one symbol at a time and keeps what decides the control: the state, `header_state`, the flags, the length, the start line, and how many
  responses it has completed.  Text and marks are left out.  A fold over a sequence is a function that satisfies its equations; that there is one and one only is proved
  by least counterexamples (`FoldExists`, `FoldUnique`), since the library's induction cannot be used;
* `Follows` is the inductive invariant: **wherever the stream is cut into reads, the parser is where the machine is after the symbols that were parsed** (`Synced`), or it has failed
  where the machine fails, or was cut off, or was told of the end of the connection that ends a body.  The parser takes a name, a value or a body in one
  step up to the end of the buffer, which the machine takes symbol by symbol (`PieceRun`); it looks at some symbols twice, after which the machine's step is the
  same (`LooksAgain`).  There is one lemma for each `case` of `http_parser_execute`;
* `HttpStreamProofs` runs the machine over the grammar: numbers and their digits (`NumeralRun`), names that are known and that are not, values over
  several lines (`DullLines`), the tokens of `Connection` (`TokensRun`), the headers of a response (`HeadersRun`), bodies, chunks and trailers (`ChunkedResult`), and so
  a response (`ResponseRun`): it is completed by its last symbol and not before, and the machine is then closed if the response ends the connection and otherwise ready for the next
  one.  What comes before a response in the stream leaves the machine ready as long as none of it ends the connection (`LiveReady`);
* `DoneAtMost`, `ClosedIs`, `FailedIs` and `EofIs` say what the machine has completed, and whether it is closed or failed, after any number of symbols; the theorems
  `ResponsesCompleteOnTime`, `ConnectionsCloseWhenTold` and `WellFormedIsAccepted` read that off for the parser.

They hold for every set of streams that satisfies `StreamsAssumption`, of any number of responses of any length.  The two theorems of the first part use nothing of that assumption.

`FileEventsProofs` proves `OwnSocketIsWatched` (`OwnSocketWatched`) and `SocketsFit` (`EverySocketFits`) for every number of threads, connections and descriptors, every
soft limit and any number of failures.  The first is about one entry, but what another thread does with a descriptor number
reaches it, so the invariant says who can own a number:

* `EntriesInv`: an entry with a mask belongs to a connection of the same thread that has been started, stands at `fd[c]`, and does not belong
  to the connection that is being connected; hence a connection has one entry at most, and the socket it opens next has none;
* `ConnectingInv`, `TimersInv`: a thread connects one of its own connections, and it and those with a timer have been started;
* `AgreesInv`: epoll watches only what is open and asked for in the table, and all of it wherever the descriptor is the entry's own socket.
  The condition is what makes it inductive: `aeDeleteFileEvent` on a number that is somebody else's leaves the two different.

The second is a matter of counting, with an invariant `CountInv` beside the first: every descriptor in use belongs to the parent of the process, to the
script that is being read, to one loop or to one connection (`Accounted`), and a connection has one socket at most (`IsSocketOf`: the one it has or the one
that is being connected).  So when `socket()` or `aeCreateEventLoop` takes the lowest free number, all numbers below it are in use by different owners, and
it is at most `Inherited` + 1 + `Threads` + `Connections` - 1, which is what the table is made for.

`StatisticsProofs` proves, for every range, precision, radix and word width of a histogram (`HdrAssumption`, and `MaskAssumption`: what one bucket covers fits a word), any number
of threads, any finite set of latencies, in range or not, and any number of responses and samples: `StatisticsTypes` (`TypeOK`), `HistogramsAddUp` (`IteratorsEnd`),
`LatenciesAreCounted` (`CountedWhereItBelongs`), `SamplesAreCounted` (`EverySampleCounted`), `ReportAddsUp` (`ReportIsSum`), `CorrectedIsGreater` (`CorrectedDominates`) and `ReportIsOfTheSeen` (`ReportDescribesTheSeen`).  `RatesAssumption` says that a rate is trackable: it is a
count of responses in an interval, and the highest trackable value is a day in microseconds.  Of latencies nothing of the kind is assumed; one that fails an assertion aborts the process.

What has to be shown of the operators is an agreement of two computations.  A value is put at an index found by shifts and a count of leading zeros (`counts_index_for`), and read at a place
found by stepping through buckets and sub-buckets (`place`).  `Slots` says which place the iterator has reached at an index, `FoundAgain` and `BucketOf` that any value within the range of
that place is given the same index, and `HoldsCounts` that `Holds`, which speaks of the values of places, therefore counts by indices.  All three
are recursive (shifts, the walk and the sums of the community modules), and the prover has no induction rule for them:
`Recursion` constructs a recursive function from approximations on values of bounded rank, and its uniqueness is shown by a least counterexample.
`SumStep`, `SumSame` and `SumExchange` (a sum of sums in either order) follow from it.

The invariant `Inv` of the state:

* `Base`, `MainInv`: the types of the control; a thread that is over takes no sample, and `main` has passed only threads that are over, so nothing that was added changes later;
* `CountInv`: the responses counted sum to `MaxResponses` at most, and no thread's `requests` is above its `complete`;
* `LatencyInv`: each histogram keeps (`Keeps`) the latencies in its thread's history: the count at an index is the number of values with that index, and the total is consistent;
* `SampleInv`: the shared statistics keep all samples and their extremes, and what a thread is about to write back was read from them as they still are, because it alone has the mutex;
* `ReportInv`: the report is what the threads added so far (`Added`) have (`Gathered`).  `hdr_add` records the value that stands for a place and not the values that were recorded,
  so this needs that a place's own value is found at that place again;
* `DominanceInv`: no place at which fewer actual than corrected latencies have been passed, and as many of both in all, in every thread and in
  the report.  `CorrectedIsGreater` (`CorrectedDominates`) follows: a percentile is found at the first place where enough have been passed.

`ReportIsOfTheSeen` follows from the same invariant and what the reading loops do.  The counts passed at a place are those of the latencies whose index comes
before it (`PassedAre`), so the loop of `hdr_value_at_percentile` stops at the place of the latency that has the rank (`PercentileOfPresent`), and the end of
that place is the latency within the precision asked for (`WithinPrecision`), since half of the sub-buckets are at least as many as the figures need (`Resolution`).
It has the hypothesis `lowest_trackable_value = 1`, which is what every `hdr_init` of the program passes (wrk.c:118, 187, 189, 282, 283): a greater one makes the unit coarser
and the least latencies lose their figures.

**Only model-checked**, and why:

* liveness: `DueBatchIsSent`, `DeadlineEndsLoop`, `PassEndsUnlessSlow`, `BufferParsed`, `ReportComes`, `StopIsHeeded`.  The provers do not reason about fairness and ENABLED;
* `ReportsTheResponse` of `HttpParser`: the machine that the other proofs about it use leaves out text and the marks.  It would have to keep the text of a name, a value
  and a body as well, and the parser's buffers would have to be shown to be that text up to the mark.

## 6. Not modelled, and the plan

The modules of the first plan are written, and every safety invariant and action property that the runs check is proved but one: `ReportsTheResponse` of
`HttpParser`.  `Follows` is where its proof begins: the machine with the text it has been given, and the parser's buffers as a part of it.

Parts that are modelled in part or not at all, and why:

* requests as the parser sees them: wrk parses one request, to count (`VerifyRequest` takes the count as given), and the answer decides nothing else;
* the ring of `stats.c`, `hdr_record_corrected_value` and the linear and logarithmic iterators: nothing calls them;
* the percentile iterator and `hdr_stddev`: they are floating-point arithmetic that only prints;
* printing and formatting (`units.c` but for the scanners, `aprintf.c`, the report of `main`), OpenSSL's set-up, the conversion
  of Lua values, the allocator, the random numbers, the backends other than epoll, LuaJIT.
