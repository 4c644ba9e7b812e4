------------------------------- MODULE Startup ------------------------------
(***************************************************************************)
(* From the command line to the threads' loops: main of src/src/wrk.c up   *)
(* to the join, the start of thread_main, the phases of a script           *)
(* (src/src/script.c, src/src/wrk.lua) and how a loop is told to stop      *)
(* (src/src/ae.c).  main sets the threads up one after the other, each     *)
(* runs as soon as it is created, and all of them share one configuration. *)
(*                                                                         *)
(* A script is what its environments are like after init(): whether the    *)
(* globals request and response are functions, and how many complete       *)
(* requests the first call of request() returns.  What it does is: stop    *)
(* some of the threads it can name.                                        *)
(***************************************************************************)
EXTENDS Settings, FiniteSets

CONSTANTS
    Commands,      \* the command lines, as parse_args takes them
    Scripts,       \* the scripts: an environment for each thread
    MaxThreads,    \* bound: threads of a run that goes on
    Known,         \* the hosts that can be resolved and connected to
    Https          \* "https": what the schema of a TLS run begins with

Thread == 0..MaxThreads - 1
Environment == [request : BOOLEAN, response : BOOLEAN, requests : Nat]

ASSUME StartupAssumption ==
    /\ MaxThreads \in Nat \ {0}
    /\ Scripts \subseteq [Thread -> Environment]
    /\ \A o \in Commands :
         /\ {o.t.n, o.c.n, o.d.n, o.T.n, o.R.n} \subseteq Nat /\ o.B \in BOOLEAN
         /\ o.url \in Seq(STRING) /\ Len(o.url) <= MaxUrl

VARIABLES
    command,       \* the arguments of the program
    script,        \* the script it is given
    main,          \* where main is, or how the program ended
    next,          \* the thread main is at
    cfg,           \* the configuration
    callbacks,     \* parser_settings has the callbacks of response()
    phase,         \* where each thread is
    stop,          \* loop->stop
    asked          \* history: a stop was asked for while the loop was running

vars == <<command, script, main, next, cfg, callbacks, phase, stop, asked>>
program == <<command, script>>
threadVars == <<phase, stop, asked>>

\* thread:stop() on each of the threads: aeStop, nothing else.
AskToStop(threads) ==
    /\ stop' = [i \in Thread |-> stop[i] \/ i \in threads]
    /\ asked' = [i \in Thread |-> asked[i] \/ (i \in threads /\ phase[i] = "loop")]

\* What the script may do whenever it is called in the environment of a thread.
MayStop(i) == AskToStop({}) \/ AskToStop({i})

Ends(how) == main' = how /\ UNCHANGED <<program, next, cfg, callbacks, threadVars>>
Goes(to) == main' = to /\ UNCHANGED <<program, next>>

-----------------------------------------------------------------------------
(* main.                                                                    *)

ReadArguments ==
    /\ main = "arguments" /\ parse_args(command)
    /\ cfg' = Config(command)
    /\ Goes("schema")
    /\ UNCHANGED <<callbacks, threadVars>>

Usage == main = "arguments" /\ ~parse_args(command) /\ Ends("usage")

UrlPart(f) == copy_url_part(command.url, script_parse_url(command.url).data, f)
BeginsWith(s, prefix) == Len(s) >= Len(prefix) /\ SubSeq(s, 1, Len(prefix)) = prefix

\* The socket functions are chosen by the schema.
ChooseSocket ==
    /\ main = "schema"
    /\ cfg' = [cfg EXCEPT !.tls = BeginsWith(UrlPart("schema"), Https)]
    /\ Goes("resolve")
    /\ UNCHANGED <<callbacks, threadVars>>

NoSsl == main = "schema" /\ BeginsWith(UrlPart("schema"), Https) /\ Ends("noSsl")

\* script_resolve: wrk.resolve keeps the addresses that accept a connection.
script_resolve ==
    /\ main = "resolve" /\ UrlPart("host") \in Known /\ cfg.threads <= MaxThreads
    /\ Goes("create")
    /\ UNCHANGED <<cfg, callbacks, threadVars>>

Unresolved == main = "resolve" /\ Ends("unresolved")

\* aeCreateEventLoop and script_create.
CreateLoop ==
    /\ main = "create"
    /\ phase' = [phase EXCEPT ![next] = "created"]
    /\ stop' = [stop EXCEPT ![next] = FALSE]
    /\ Goes("setup")
    /\ UNCHANGED <<cfg, callbacks, asked>>

\* wrk.setup, in the environment of main: the script has been given all the
\* threads so far.
setup ==
    /\ main = "setup"
    /\ \E threads \in SUBSET (0..next) : AskToStop(threads)
    /\ Goes("init")
    /\ UNCHANGED <<cfg, callbacks, phase>>

\* After init() the first thread decides for all of them; the others are
\* created at once.  Mutant: every thread decides.
AfterInit_Verify == "verify"
AfterInit == IF next = 0 THEN "verify" ELSE "start"

\* wrk.init, in the environment of the thread.
init ==
    /\ main = "init"
    /\ MayStop(next)
    /\ Goes(AfterInit)
    /\ UNCHANGED <<cfg, callbacks, phase>>

\* script_verify_request calls request() and counts what is complete.
VerifyRequest ==
    /\ main = "verify" /\ script[next].requests > 0
    /\ cfg' = [cfg EXCEPT !.pipeline = script[next].requests, !.dynamic = script[next].request]
    /\ callbacks' = script[next].response
    /\ MayStop(next)
    /\ Goes("start")
    /\ UNCHANGED phase

Malformed == main = "verify" /\ script[next].requests = 0 /\ Ends("malformed")

\* pthread_create: the thread runs from now on.
StartThread ==
    /\ main = "start"
    /\ phase' = [phase EXCEPT ![next] = "begin"]
    /\ IF next + 1 < cfg.threads THEN next' = next + 1 /\ main' = "create"
                                 ELSE main' = "join" /\ UNCHANGED next
    /\ UNCHANGED <<program, cfg, callbacks, stop, asked>>

NoThread == main = "start" /\ Ends("noThread")

\* All threads are joined.
Join ==
    /\ main = "join" /\ \A i \in 0..cfg.threads - 1 : phase[i] = "ended"
    /\ Ends("report")

Ended == main \in {"usage", "noSsl", "unresolved", "malformed", "noThread", "aborted", "report"}

-----------------------------------------------------------------------------
(* The threads.                                                             *)

Runs == ~Ended /\ UNCHANGED <<program, next, cfg, callbacks>>

\* thread_main up to aeMain: a static request is built once.
thread_main(i) ==
    /\ phase[i] = "begin"
    /\ phase' = [phase EXCEPT ![i] = "ready"]
    /\ IF cfg.dynamic THEN UNCHANGED <<stop, asked>> ELSE MayStop(i)
    /\ Runs /\ UNCHANGED main

\* aeMain clears loop->stop before it looks at it.
aeMain(i) ==
    /\ phase[i] = "ready"
    /\ phase' = [phase EXCEPT ![i] = "loop"]
    /\ stop' = [stop EXCEPT ![i] = FALSE]
    /\ Runs /\ UNCHANGED <<main, asked>>

\* A request or a response of the script, which may stop its thread.
request(i) ==
    /\ phase[i] = "loop" /\ cfg.dynamic
    /\ MayStop(i)
    /\ Runs /\ UNCHANGED <<main, phase>>

response(i) ==
    /\ phase[i] = "loop" /\ callbacks /\ script[i].response
    /\ MayStop(i)
    /\ Runs /\ UNCHANGED <<main, phase>>

\* script_response of an environment without the global: an error outside any
\* protected call, which ends the process.
NoResponse(i) ==
    /\ phase[i] = "loop" /\ callbacks /\ ~script[i].response
    /\ main' = "aborted"
    /\ Runs /\ UNCHANGED <<phase, stop, asked>>

\* check_timeouts or the last response, after the deadline or an interrupt.
Deadline(i) ==
    /\ phase[i] = "loop" /\ ~stop[i]
    /\ stop' = [stop EXCEPT ![i] = TRUE]
    /\ Runs /\ UNCHANGED <<main, phase, asked>>

\* Mutant: stop is cleared at every pass.
EndPass_ClearsStop(i) ==
    /\ phase[i] = "loop" /\ stop[i]
    /\ stop' = [stop EXCEPT ![i] = FALSE]
    /\ Runs /\ UNCHANGED <<main, phase, asked>>

\* A pass of the loop is over, and it looks at stop.
EndPass(i) ==
    /\ phase[i] = "loop" /\ stop[i]
    /\ phase' = [phase EXCEPT ![i] = "ended"]
    /\ Runs /\ UNCHANGED <<main, stop, asked>>

-----------------------------------------------------------------------------
NoConfig == [threads |-> 0, connections |-> 0, duration |-> 0, timeout |-> 0, rate |-> 0,
             record_all_responses |-> TRUE, pipeline |-> 0, dynamic |-> FALSE, tls |-> FALSE]

Init ==
    /\ command \in Commands /\ script \in Scripts
    /\ main = "arguments" /\ next = 0
    /\ cfg = NoConfig /\ callbacks = FALSE
    /\ phase = [i \in Thread |-> "none"]
    /\ stop = [i \in Thread |-> FALSE]
    /\ asked = [i \in Thread |-> FALSE]

Main ==
    \/ ReadArguments \/ Usage \/ ChooseSocket \/ NoSsl \/ script_resolve \/ Unresolved
    \/ CreateLoop \/ setup \/ init \/ VerifyRequest \/ Malformed \/ StartThread \/ NoThread
    \/ Join

Work(i) ==
    \/ thread_main(i) \/ aeMain(i) \/ request(i) \/ response(i) \/ NoResponse(i)
    \/ Deadline(i) \/ EndPass(i)

Next == Main \/ (\E i \in Thread : Work(i)) \/ (Ended /\ UNCHANGED vars)

Spec == Init /\ [][Next]_vars
-----------------------------------------------------------------------------
(* Properties.                                                              *)

\* A URL is taken apart at its delimiters, whatever user info, brackets, ports
\* and repeated marks it has: what the two automata accept is what has the
\* form of a URL, and the seven parts they copy are the ones between its
\* delimiters, no character lost or given to the wrong part.
UrlPartsMatch ==
    main = "arguments" /\ command.url # <<>> =>
        LET parsed == script_parse_url(command.url)
            split  == Split(command.url)
        IN /\ parsed.ok = split.ok
           /\ parsed.ok => \A f \in Fields :
                             copy_url_part(command.url, parsed.data, f) = split.part[f]

\* Whatever is written on the command line, numbers that wrap around and signs
\* included: a run that is accepted has a thread, a rate and a duration, every
\* thread gets a connection (it divides by their number) and fewer connections
\* than there are threads are left out by the division.
WorkForEveryThread ==
    main \notin {"arguments", "usage"} =>
        /\ cfg.threads > 0 /\ cfg.rate > 0 /\ cfg.duration > 0
        /\ ThreadConnections(cfg) > 0
        /\ cfg.connections - cfg.threads * ThreadConnections(cfg) \in 0..cfg.threads - 1

\* No thread ever sees the configuration or the callbacks change: they are
\* read without a lock, and main goes on setting threads up while others run.
ConfigStable ==
    [][(\E i \in Thread : phase[i] \notin {"none", "created"}) => UNCHANGED <<cfg, callbacks>>]_vars

\* The threads and main are scheduled; a pass of a loop ends.
FairSpec == Spec /\ \A i \in Thread : WF_vars(EndPass(i))

\* A thread that is told to stop while it runs, from its own script or from
\* the setup of another thread, leaves its loop.
StopIsHeeded == \A i \in Thread : asked[i] ~> (phase[i] = "ended" \/ Ended)
=============================================================================
