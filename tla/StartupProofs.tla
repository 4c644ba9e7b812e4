--------------------------- MODULE StartupProofs --------------------------
(***************************************************************************)
(* Threads never see the configuration change.  What main writes it writes *)
(* before it starts the first thread: while it reads the arguments, chooses *)
(* the socket functions, and after the init() of the first thread.         *)
(* Every command line that is accepted has work for every thread, however  *)
(* its numbers wrap around.                                                *)
(* And a URL, of any length up to MaxUrl and with any characters, is taken *)
(* apart at its delimiters: both scans keep an invariant that says where   *)
(* each field of the URL begins and ends, and the reference splits it there. *)
(***************************************************************************)
EXTENDS Startup, TLAPS, WellFoundedInduction, SequenceTheorems

NoneStarted == \A i \in Thread : phase[i] \in {"none", "created"}

\* What main still does for the first thread.
FirstThread == next = 0 /\ main \in {"create", "setup", "init", "verify", "start"}

\* main verifies a request for the first thread only, and until that one is
\* created no thread runs.
IInv ==
    /\ next \in Nat
    /\ main = "verify" => next = 0
    /\ main \in {"arguments", "schema", "resolve"} => next = 0
    /\ main \in {"arguments", "schema", "resolve"} \/ FirstThread => NoneStarted

\* A thread that has not been started does nothing.
LEMMA OnlyStartedWork ==
    ASSUME NEW i \in Thread, Work(i), NoneStarted
    PROVE  FALSE
  BY DEF Work, NoneStarted, thread_main, aeMain, request, response, NoResponse, Deadline, EndPass

LEMMA InitInv == Init => IInv
  BY DEF Init, IInv, NoneStarted

\* A step of a thread moves main nowhere but to the abort.
LEMMA WorkKeepsMain ==
    ASSUME NEW i \in Thread, Work(i)
    PROVE  next' = next /\ cfg' = cfg /\ callbacks' = callbacks /\ main' \in {main, "aborted"}
  BY DEF Work, Runs, thread_main, aeMain, request, response, NoResponse, Deadline, EndPass, AskToStop

LEMMA MainInv == IInv /\ Main => IInv'
<1> SUFFICES ASSUME IInv, Main
             PROVE  IInv'
  OBVIOUS
<1> USE DEF IInv, NoneStarted, FirstThread
<1>1. CASE ReadArguments
  BY <1>1 DEF ReadArguments, Goes, program, threadVars
<1>2. CASE Usage
  BY <1>2 DEF Usage, Ends, threadVars
<1>3. CASE ChooseSocket
  BY <1>3 DEF ChooseSocket, Goes, threadVars
<1>4. CASE NoSsl
  BY <1>4 DEF NoSsl, Ends, threadVars
<1>5. CASE script_resolve
  BY <1>5 DEF script_resolve, Goes, threadVars
<1>6. CASE Unresolved
  BY <1>6 DEF Unresolved, Ends, threadVars
<1>7. CASE CreateLoop
  BY <1>7 DEF CreateLoop, Goes
<1>8. CASE setup
  BY <1>8 DEF setup, Goes
<1>9. CASE init
  BY <1>9 DEF init, Goes, AfterInit
<1>10. CASE VerifyRequest
  BY <1>10 DEF VerifyRequest, Goes
<1>11. CASE Malformed
  BY <1>11 DEF Malformed, Ends, threadVars
<1>12. CASE StartThread
  BY <1>12 DEF StartThread, program
<1>13. CASE NoThread
  BY <1>13 DEF NoThread, Ends, threadVars
<1>14. CASE Join
  BY <1>14 DEF Join, Ends, threadVars
<1> QED
  BY <1>1, <1>2, <1>3, <1>4, <1>5, <1>6, <1>7, <1>8, <1>9, <1>10, <1>11, <1>12, <1>13, <1>14 DEF Main

LEMMA InductiveStep == IInv /\ [Next]_vars => IInv'
<1> SUFFICES ASSUME IInv, [Next]_vars
             PROVE  IInv'
  OBVIOUS
<1>1. CASE Main
  BY <1>1, MainInv
<1>2. ASSUME NEW i \in Thread, Work(i)
      PROVE  IInv'
  <2>1. ~NoneStarted
    BY <1>2, OnlyStartedWork
  <2>2. next' = next /\ main' \in {main, "aborted"}
    BY <1>2, WorkKeepsMain
  <2> QED
    BY <2>1, <2>2 DEF IInv, FirstThread
<1>3. CASE UNCHANGED vars
  BY <1>3 DEF vars, IInv, NoneStarted, FirstThread
<1> QED
  BY <1>1, <1>2, <1>3 DEF Next

THEOREM Invariant == Spec => []IInv
  BY InitInv, InductiveStep, PTL DEF Spec

\* main writes the configuration only before it has started a thread.
LEMMA MainWrites ==
    ASSUME IInv, Main, ~NoneStarted
    PROVE  UNCHANGED <<cfg, callbacks>>
<1> USE DEF IInv, FirstThread
<1>1. CASE ReadArguments
  BY <1>1 DEF ReadArguments
<1>2. CASE ChooseSocket
  BY <1>2 DEF ChooseSocket
<1>3. CASE VerifyRequest
  BY <1>3 DEF VerifyRequest
<1>4. CASE CreateLoop \/ setup \/ init \/ StartThread \/ script_resolve
  BY <1>4 DEF CreateLoop, setup, init, StartThread, script_resolve
<1>5. CASE Usage \/ NoSsl \/ Unresolved \/ Malformed \/ NoThread \/ Join
  BY <1>5 DEF Usage, NoSsl, Unresolved, Malformed, NoThread, Join, Ends
<1> QED
  BY <1>1, <1>2, <1>3, <1>4, <1>5 DEF Main

\* No thread ever sees the configuration or the callbacks change, for every
\* number of threads, every script and every command line (wrk.c:152-162).
THEOREM ConfigurationIsStable == Spec => ConfigStable
<1>1. ASSUME IInv, [Next]_vars, \E i \in Thread : phase[i] \notin {"none", "created"}
      PROVE  UNCHANGED <<cfg, callbacks>>
  <2>1. ~NoneStarted
    BY <1>1 DEF NoneStarted
  <2>2. CASE Main
    BY <1>1, <2>1, <2>2, MainWrites
  <2>3. ASSUME NEW i \in Thread, Work(i)
        PROVE  UNCHANGED <<cfg, callbacks>>
    BY <2>3, WorkKeepsMain
  <2>4. CASE UNCHANGED vars
    BY <2>4 DEF vars
  <2> QED
    BY <1>1, <2>2, <2>3, <2>4 DEF Next
<1> QED
  BY <1>1, Invariant, PTL DEF Spec, ConfigStable

-----------------------------------------------------------------------------
(* The numbers of the command line.                                         *)

LEMMA NatMin ==
    ASSUME NEW S, S \subseteq Nat, S # {}
    PROVE  \E x \in S : \A y \in S : x <= y
<1>1. PICK x \in S : \A y \in S : ~(<<y, x>> \in OpToRel(<, Nat))
  BY NatLessThanWellFounded, WFMin DEF OpToRel
<1>2. ASSUME NEW y \in S PROVE x <= y
  <2>1. x \in Nat /\ y \in Nat
    BY <1>1
  <2>2. ~(y < x)
    BY <1>1, <2>1 DEF OpToRel
  <2> QED
    BY <2>1, <2>2
<1> QED
  BY <1>1, <1>2


LEMMA Modulus == ASSUME NEW a \in Nat, NEW w \in Nat \ {0} PROVE a % w \in Nat /\ a % w < w
OBVIOUS

\* g holds the powers of a up to n, in words of w.
IsPowers(g, n, a, w) ==
    /\ g \in [0..n -> Nat]
    /\ g = [k \in 0..n |-> IF k = 0 THEN 1 ELSE (g[k - 1] * a) % w]

LEMMA PowersExist ==
    ASSUME NEW a \in Nat, NEW w \in Nat \ {0}, NEW n \in Nat
    PROVE  \E g : IsPowers(g, n, a, w)
<1> DEFINE Bad == {k \in Nat : ~ \E g : IsPowers(g, k, a, w)}
<1>1. SUFFICES ASSUME n \in Bad PROVE FALSE
  OBVIOUS
<1>2. PICK k \in Bad : \A j \in Bad : k <= j
  <2>1. Bad \subseteq Nat /\ Bad # {}
    BY <1>1
  <2> HIDE DEF Bad
  <2> QED
    BY <2>1, NatMin
<1>3. k # 0
  <2>1. IsPowers([i \in 0..0 |-> 1], 0, a, w)
    BY DEF IsPowers
  <2> QED
    BY <1>2, <2>1
<1>4. k \in Nat /\ k - 1 \in Nat /\ k - 1 \notin Bad
  BY <1>2, <1>3
<1>5. PICK g : IsPowers(g, k - 1, a, w)
  BY <1>4
<1> DEFINE x == (g[k - 1] * a) % w
           h == [i \in 0..k |-> IF i = k THEN x ELSE g[i]]
<1>6. g \in [0..k - 1 -> Nat] /\ \A i \in 0..k - 1 : g[i] = IF i = 0 THEN 1 ELSE (g[i - 1] * a) % w
  BY <1>5 DEF IsPowers
<1>7. x \in Nat
  <2>1. g[k - 1] * a \in Nat
    BY <1>4, <1>6
  <2> QED
    BY <2>1, Modulus
<1>8. h \in [0..k -> Nat]
  <2> HIDE DEF x
  <2> QED
    BY <1>4, <1>6, <1>7
<1>9. ASSUME NEW i \in 0..k PROVE h[i] = IF i = 0 THEN 1 ELSE (h[i - 1] * a) % w
  <2>1. CASE i = k
    <3>1. h[k] = x /\ h[k - 1] = g[k - 1]
      BY <1>4
    <3> QED
      BY <1>3, <2>1, <3>1
  <2>2. CASE i # k
    <3>1. i \in 0..k - 1 /\ h[i] = g[i] /\ (i # 0 => h[i - 1] = g[i - 1])
      BY <1>4, <2>2
    <3> QED
      BY <1>6, <3>1
  <2> QED
    BY <2>1, <2>2
<1> HIDE DEF h
<1>10. IsPowers(h, k, a, w)
  BY <1>8, <1>9 DEF IsPowers
<1> QED
  BY <1>2, <1>10

\* The scale of a unit is a number, whatever overflows on the way to it.
LEMMA ScaleNat ==
    ASSUME NEW m, m.scale \in Nat, NEW i \in Nat
    PROVE  Scale(m, i) \in Nat
<1> DEFINE IsScale(f) == f = [k \in 0..i |-> IF k = 0 THEN 1 ELSE (f[k - 1] * m.scale) % Word]
           scale == CHOOSE f : IsScale(f)
<1>1. Scale(m, i) = scale[i]
  BY DEF Scale
<1>2. PICK g : IsPowers(g, i, m.scale, Word)
  BY PowersExist, SettingsAssumption
<1>3. IsScale(g)
  BY <1>2 DEF IsPowers
<1>4. IsScale(scale)
  <2> HIDE DEF IsScale
  <2> QED
    BY <1>3
<1> DEFINE Bad == {k \in 0..i : scale[k] \notin Nat}
<1>5. \A k \in 0..i : scale[k] = IF k = 0 THEN 1 ELSE (scale[k - 1] * m.scale) % Word
  <2> HIDE DEF scale
  <2> QED
    BY <1>4
<1> HIDE DEF scale
<1>6. Bad = {}
  <2>1. SUFFICES ASSUME Bad # {} PROVE FALSE
    OBVIOUS
  <2>2. PICK k \in Bad : \A j \in Bad : k <= j
    <3>1. Bad \subseteq Nat
      OBVIOUS
    <3> HIDE DEF Bad
    <3> QED
      BY <2>1, <3>1, NatMin
  <2>3. k # 0 /\ k \in 0..i
    BY <1>5, <2>2
  <2>4. k - 1 \in 0..i /\ k - 1 \notin Bad
    BY <2>2, <2>3
  <2>5. scale[k - 1] * m.scale \in Nat
    BY <2>4
  <2>6. (scale[k - 1] * m.scale) % Word \in Nat
    BY <2>5, Modulus, SettingsAssumption
  <2> QED
    BY <1>5, <2>2, <2>3, <2>6
<1> QED
  BY <1>1, <1>6

LEMMA ScanNat ==
    ASSUME NEW s, s.n \in Nat, NEW m \in {metric_units, time_units_s}, CanScan(s, m)
    PROVE  scan_units(s, m) \in Nat
<1> DEFINE i == CHOOSE j \in Rounds(m, s.unit) : TRUE
<1>1. i \in Nat
  <2>1. Rounds(m, s.unit) \subseteq Nat
    <3>1. DOMAIN m.units \subseteq Nat
      <4>1. CASE m = metric_units
        <5>1. m.units = <<"k", "m", "g", "t", "p">>
          BY <4>1 DEF metric_units
        <5> QED
          BY <5>1
      <4>2. CASE m = time_units_s
        <5>1. m.units = <<"m", "h">>
          BY <4>2 DEF time_units_s
        <5> QED
          BY <5>1
      <4> QED
        BY <4>1, <4>2
    <3>2. DOMAIN m.units \cup {0} \subseteq Nat
      BY <3>1
    <3>3. Rounds(m, s.unit) \subseteq DOMAIN m.units \cup {0}
      BY DEF Rounds
    <3> QED
      BY <3>2, <3>3
  <2>2. i \in Rounds(m, s.unit)
    BY DEF CanScan
  <2> QED
    BY <2>1, <2>2
<1>2. m.scale \in Nat
  <2>1. metric_units.scale = MetricScale /\ time_units_s.scale = TimeScale
    BY DEF metric_units, time_units_s
  <2> QED
    BY <2>1, SettingsAssumption
<1> HIDE DEF i
<1>3. Scale(m, i) \in Nat
  BY <1>1, <1>2, ScaleNat
<1>4. ScanNumber(s) \in Nat
  <2>1. CASE s.n >= Word
    BY <2>1, SettingsAssumption DEF ScanNumber
  <2>2. CASE s.n < Word /\ s.negative
    <3>1. Word - s.n \in Nat
      BY <2>2, SettingsAssumption
    <3>2. (Word - s.n) % Word \in Nat
      BY <3>1, Modulus, SettingsAssumption
    <3> QED
      BY <2>2, <3>2 DEF ScanNumber
  <2>3. CASE s.n < Word /\ ~s.negative
    BY <2>3, SettingsAssumption DEF ScanNumber
  <2> QED
    BY <2>1, <2>2, <2>3, SettingsAssumption
<1>5. ScanNumber(s) * Scale(m, i) \in Nat
  BY <1>3, <1>4
<1> QED
  BY <1>5, Modulus, SettingsAssumption DEF scan_units, i

-----------------------------------------------------------------------------
(* What is accepted.                                                        *)

Configuration ==
    [threads : Nat, connections : Nat, duration : Nat, timeout : Nat, rate : Nat,
     record_all_responses : BOOLEAN, pipeline : Nat, dynamic : BOOLEAN, tls : BOOLEAN]

Workable(c) ==
    /\ c.threads > 0 /\ c.rate > 0 /\ c.duration > 0 /\ c.connections >= c.threads

WorkInv ==
    /\ command \in Commands /\ script \in Scripts
    /\ main \notin {"arguments", "usage"} => cfg \in Configuration /\ Workable(cfg)

LEMMA AcceptedIsWorkable ==
    ASSUME NEW o \in Commands, parse_args(o)
    PROVE  Config(o) \in Configuration /\ Workable(Config(o))
<1>1. o.t.n \in Nat /\ o.c.n \in Nat /\ o.d.n \in Nat /\ o.T.n \in Nat /\ o.R.n \in Nat /\ o.B \in BOOLEAN
  BY StartupAssumption
<1>2. /\ o.t.given => CanScan(o.t, metric_units)
      /\ o.c.given => CanScan(o.c, metric_units)
      /\ o.R.given => CanScan(o.R, metric_units)
      /\ o.d.given => CanScan(o.d, time_units_s)
      /\ o.T.given => CanScan(o.T, time_units_s)
  BY DEF parse_args, OptionsScan
<1>3. DefaultThreads \in Nat /\ DefaultConnections \in Nat /\ DefaultDuration \in Nat /\ SOCKET_TIMEOUT_MS \in Nat
  BY SettingsAssumption
<1> DEFINE threads == Option(o.t, metric_units, DefaultThreads)
           connections == Option(o.c, metric_units, DefaultConnections)
           duration == Option(o.d, time_units_s, DefaultDuration)
           timeout == IF o.T.given THEN (scan_units(o.T, time_units_s) * MsPerSecond) % Word
                      ELSE SOCKET_TIMEOUT_MS
           rate == Option(o.R, metric_units, 0)
<1>4. threads \in Nat /\ connections \in Nat /\ duration \in Nat /\ rate \in Nat
  BY <1>1, <1>2, <1>3, ScanNat DEF Option
<1>5. timeout \in Nat
  <2>1. CASE o.T.given
    <3>1. scan_units(o.T, time_units_s) \in Nat
      BY <1>1, <1>2, <2>1, ScanNat
    <3>2. scan_units(o.T, time_units_s) * MsPerSecond \in Nat
      BY <3>1, SettingsAssumption
    <3> QED
      BY <2>1, <3>2, Modulus, SettingsAssumption
  <2>2. CASE ~o.T.given
    BY <1>3, <2>2
  <2> QED
    BY <2>1, <2>2
<1>6. Config(o) = [threads |-> threads, connections |-> connections, duration |-> duration,
                   timeout |-> timeout, rate |-> rate, record_all_responses |-> ~o.B,
                   pipeline |-> 0, dynamic |-> FALSE, tls |-> FALSE]
  BY DEF Config
<1> HIDE DEF threads, connections, duration, timeout, rate
<1>7. Config(o) \in Configuration
  BY <1>1, <1>4, <1>5, <1>6 DEF Configuration
<1>8. threads # 0 /\ duration # 0 /\ rate # 0 /\ connections >= threads
  BY <1>6 DEF parse_args, Accepts, EnoughConnections
<1> QED
  BY <1>4, <1>6, <1>7, <1>8 DEF Workable

LEMMA WorkInit == Init => WorkInv
  BY DEF Init, WorkInv

\* main accepts a configuration once; what it writes into it later are not the
\* numbers of the command line.
LEMMA MainKeepsWork ==
    ASSUME IInv, WorkInv, Main
    PROVE  WorkInv'
<1> USE DEF WorkInv
<1>1. CASE ReadArguments
  BY <1>1, AcceptedIsWorkable DEF ReadArguments, Goes, program
<1>2. CASE ChooseSocket
  <2>1. (BeginsWith(UrlPart("schema"), Https)) \in BOOLEAN
    BY DEF BeginsWith
  <2>2. cfg \in Configuration /\ Workable(cfg)
    BY <1>2 DEF ChooseSocket
  <2>3. cfg' \in Configuration /\ Workable(cfg')
    BY <1>2, <2>1, <2>2 DEF ChooseSocket, Configuration, Workable
  <2> QED
    BY <1>2, <2>3 DEF ChooseSocket, Goes, program
<1>3. CASE VerifyRequest
  <2>1. script[next] \in Environment
    BY <1>3, StartupAssumption DEF VerifyRequest, IInv, Thread
  <2>2. cfg \in Configuration /\ Workable(cfg)
    BY <1>3 DEF VerifyRequest
  <2>3. cfg' \in Configuration /\ Workable(cfg')
    BY <1>3, <2>1, <2>2 DEF VerifyRequest, Configuration, Workable, Environment
  <2> QED
    BY <1>3, <2>3 DEF VerifyRequest, Goes, program
<1>4. CASE Usage
  BY <1>4 DEF Usage, Ends, program
<1>5. CASE NoSsl \/ Unresolved \/ Malformed \/ NoThread \/ Join
  BY <1>5 DEF NoSsl, Unresolved, Malformed, NoThread, Join, Ends, program
<1>6. CASE script_resolve \/ CreateLoop \/ setup \/ init
  BY <1>6 DEF script_resolve, CreateLoop, setup, init, Goes, program
<1>7. CASE StartThread
  BY <1>7 DEF StartThread, program
<1> QED
  BY <1>1, <1>2, <1>3, <1>4, <1>5, <1>6, <1>7 DEF Main

LEMMA ThreadKeepsWork ==
    ASSUME IInv, WorkInv, NEW i \in Thread, Work(i)
    PROVE  WorkInv'
<1>1. main \notin {"arguments", "usage"}
  <2>1. main # "arguments"
    BY OnlyStartedWork DEF IInv
  <2>2. main # "usage"
    BY DEF Work, Runs, Ended, thread_main, aeMain, request, response, NoResponse, Deadline, EndPass
  <2> QED
    BY <2>1, <2>2
<1>2. cfg' = cfg
  BY WorkKeepsMain
<1>3. command' = command /\ script' = script
  BY DEF Work, Runs, program, thread_main, aeMain, request, response, NoResponse, Deadline, EndPass
<1> QED
  BY <1>1, <1>2, <1>3 DEF WorkInv

LEMMA WorkStep == IInv /\ WorkInv /\ [Next]_vars => WorkInv'
<1>1. ASSUME WorkInv, UNCHANGED vars
      PROVE  WorkInv'
  BY <1>1 DEF vars, WorkInv
<1> QED
  BY <1>1, MainKeepsWork, ThreadKeepsWork DEF Next

\* A quotient and what is left.
LEMMA Quotient ==
    ASSUME NEW a \in Nat, NEW d \in Nat \ {0}, a >= d
    PROVE  a \div d > 0 /\ a - d * (a \div d) \in 0..d - 1
<1>1. a \div d \in Nat
  OBVIOUS
<1>2. a % d \in 0..d - 1 /\ a = d * (a \div d) + (a % d)
  OBVIOUS
<1> DEFINE q == a \div d
           r == a % d
<1> HIDE DEF q, r
<1>3. q \in Nat /\ r \in 0..d - 1 /\ a = d * q + r
  BY <1>1, <1>2 DEF q, r
<1>4. d * q \in Nat
  BY <1>3
<1>5. a - d * q = r
  BY <1>3, <1>4
<1>6. q # 0
  <2>1. ASSUME q = 0 PROVE FALSE
    <3>1. d * q = 0
      BY <2>1
    <3> QED
      BY <1>3, <3>1
  <2> QED
    BY <2>1
<1> QED
  BY <1>3, <1>5, <1>6 DEF q

LEMMA WorkImplies == WorkInv => WorkForEveryThread
<1> SUFFICES ASSUME WorkInv, main \notin {"arguments", "usage"}
             PROVE  /\ cfg.threads > 0 /\ cfg.rate > 0 /\ cfg.duration > 0
                    /\ ThreadConnections(cfg) > 0
                    /\ cfg.connections - cfg.threads * ThreadConnections(cfg) \in 0..cfg.threads - 1
  BY DEF WorkForEveryThread
<1>1. cfg \in Configuration /\ Workable(cfg)
  BY DEF WorkInv
<1>2. /\ cfg.threads \in Nat \ {0} /\ cfg.connections \in Nat /\ cfg.connections >= cfg.threads
      /\ cfg.rate > 0 /\ cfg.duration > 0
  BY <1>1 DEF Configuration, Workable
<1> DEFINE each == cfg.connections \div cfg.threads
<1>3. each > 0 /\ cfg.connections - cfg.threads * each \in 0..cfg.threads - 1
  BY <1>2, Quotient
<1>4. ThreadConnections(cfg) = each
  BY DEF ThreadConnections
<1> HIDE DEF each
<1> QED
  BY <1>2, <1>3, <1>4

\* Whatever numbers, units and signs a command line has, and whatever the
\* width of a word they wrap around at: a run that parse_args accepts has a
\* thread, a rate and a duration, and the division of the connections by the
\* threads (wrk.c:128) leaves every thread at least one and leaves out fewer
\* than there are threads.
THEOREM EveryThreadHasWork == Spec => []WorkForEveryThread
  BY InitInv, WorkInit, InductiveStep, WorkStep, WorkImplies, PTL DEF Spec

-----------------------------------------------------------------------------
(* Functions of a position, and first positions.                            *)

\* What holds at 0 and is handed on at every position holds up to n.
LEMMA UpTo ==
    ASSUME NEW n \in Nat, NEW S, 0 \in S, \A i \in 1..n : i - 1 \in S => i \in S
    PROVE  \A i \in 0..n : i \in S
<1> SUFFICES ASSUME {i \in 0..n : i \notin S} # {} PROVE FALSE
  OBVIOUS
<1>1. PICK i \in {i \in 0..n : i \notin S} : \A j \in {j \in 0..n : j \notin S} : i <= j
  <2>1. {i \in 0..n : i \notin S} \subseteq Nat
    OBVIOUS
  <2> QED
    BY <2>1, NatMin
<1>2. i \in 1..n /\ i - 1 \in 0..n
  BY <1>1
<1>3. i - 1 \in S
  BY <1>1, <1>2
<1> QED
  BY <1>1, <1>2, <1>3

\* f begins with first and goes on with what G makes of a value and a position.
IsRun(f, n, S, first, G) ==
    /\ f \in [0..n -> S]
    /\ \A i \in 0..n : f[i] = IF i = 0 THEN first ELSE G[<<f[i - 1], i>>]

\* There is such a function.
LEMMA Iterates ==
    ASSUME NEW n \in Nat, NEW S, NEW first \in S, NEW G \in [S \X (1..n) -> S]
    PROVE  \E f : IsRun(f, n, S, first, G)
<1> DEFINE Lengths == {k \in 0..n : \E f : IsRun(f, k, S, first, G)}
<1> USE DEF IsRun
<1>1. 0 \in Lengths
  <2> DEFINE g == [i \in 0..0 |-> first]
  <2>1. IsRun(g, 0, S, first, G)
    OBVIOUS
  <2> HIDE DEF g
  <2>2. 0 \in 0..n
    OBVIOUS
  <2> QED
    BY <2>1, <2>2
<1>2. ASSUME NEW k \in 1..n, k - 1 \in Lengths PROVE k \in Lengths
  <2>1. PICK g : IsRun(g, k - 1, S, first, G)
    BY <1>2
  <2> DEFINE x == G[<<g[k - 1], k>>]
             f == [i \in 0..k |-> IF i = k THEN x ELSE g[i]]
  <2>2. g \in [0..k - 1 -> S] /\ k - 1 \in 0..k - 1
    BY <2>1
  <2>3. <<g[k - 1], k>> \in S \X (1..n)
    BY <2>2
  <2>4. x \in S
    BY <2>3
  <2> HIDE DEF x
  <2>5. f \in [0..k -> S]
    BY <2>2, <2>4
  <2>6. ASSUME NEW i \in 0..k PROVE f[i] = IF i = 0 THEN first ELSE G[<<f[i - 1], i>>]
    <3>1. CASE i = k
      <4>1. f[i] = x /\ f[i - 1] = g[k - 1] /\ i # 0
        BY <2>6, <3>1
      <4> HIDE DEF f
      <4> QED
        BY <3>1, <4>1 DEF x
    <3>2. CASE i # k
      <4>1. i \in 0..k - 1 /\ f[i] = g[i] /\ (i # 0 => f[i - 1] = g[i - 1])
        BY <2>6, <3>2
      <4> QED
        BY <2>1, <4>1
    <3> QED
      BY <3>1, <3>2
  <2> HIDE DEF f
  <2>7. IsRun(f, k, S, first, G)
    BY <2>5, <2>6
  <2> QED
    BY <2>7
<1>3. \A i \in 0..n : i \in Lengths
  <2> HIDE DEF Lengths
  <2> QED
    BY <1>1, <1>2, UpTo
<1>4. n \in Lengths
  <2> HIDE DEF Lengths
  <2> QED
    BY <1>3
<1> QED
  BY <1>4

\* The first position with one of the characters.
LEMMA FirstIs ==
    ASSUME NEW t \in Seq(STRING), NEW i \in Nat \ {0}, NEW chars
    PROVE  /\ FirstOf(t, i, chars) \in 1..Len(t) + 1
           /\ FirstOf(t, i, chars) <= Len(t) => t[FirstOf(t, i, chars)] \in chars
           /\ FirstOf(t, i, chars) = Len(t) + 1 \/ FirstOf(t, i, chars) >= i
           /\ \A q \in i..FirstOf(t, i, chars) - 1 : t[q] \notin chars
<1> DEFINE n == Len(t)
           Stops == {q \in 1..n + 1 : q = n + 1 \/ (q >= i /\ t[q] \in chars)}
           IsFirst(p) == /\ p = n + 1 \/ (p >= i /\ t[p] \in chars)
                         /\ \A q \in i..p - 1 : t[q] \notin chars
<1>1. n \in Nat
  OBVIOUS
<1> HIDE DEF n
<1>2. PICK p \in Stops : \A q \in Stops : p <= q
  <2>1. n + 1 \in Stops /\ Stops \subseteq Nat
    BY <1>1
  <2> HIDE DEF Stops
  <2> QED
    BY <2>1, NatMin
<1>3. p \in 1..n + 1 /\ IsFirst(p)
  <2>1. ASSUME NEW q \in i..p - 1, t[q] \in chars PROVE FALSE
    <3>1. q \in Stops /\ q < p
      BY <1>1, <1>2, <2>1
    <3> QED
      BY <1>1, <1>2, <3>1
  <2> QED
    BY <1>2, <2>1
<1>4. FirstOf(t, i, chars) = CHOOSE q \in 1..n + 1 : IsFirst(q)
  BY DEF FirstOf, n
<1>5. FirstOf(t, i, chars) \in 1..n + 1 /\ IsFirst(FirstOf(t, i, chars))
  <2> HIDE DEF IsFirst
  <2> QED
    BY <1>3, <1>4
<1> QED
  BY <1>1, <1>5 DEF n

\* There is one such position only.
LEMMA FirstUnique ==
    ASSUME NEW t \in Seq(STRING), NEW i \in Nat \ {0}, NEW chars, NEW p \in 1..Len(t) + 1,
           p = Len(t) + 1 \/ (p >= i /\ t[p] \in chars),
           \A q \in i..p - 1 : t[q] \notin chars
    PROVE  p = FirstOf(t, i, chars)
<1> DEFINE f == FirstOf(t, i, chars)
<1>1. /\ f \in 1..Len(t) + 1
      /\ f <= Len(t) => t[f] \in chars
      /\ f = Len(t) + 1 \/ f >= i
      /\ \A q \in i..f - 1 : t[q] \notin chars
  BY FirstIs
<1> HIDE DEF f
<1>2. Len(t) \in Nat
  OBVIOUS
<1>3. ~(f < p)
  BY <1>1, <1>2
<1>4. ~(p < f)
  BY <1>1, <1>2
<1>5. p = f
  BY <1>1, <1>2, <1>3, <1>4
<1> QED
  BY <1>5 DEF f

\* In the rest of a text it is found as much earlier as was left out.
LEMMA FirstInRest ==
    ASSUME NEW t \in Seq(STRING), NEW b \in 1..Len(t) + 1, NEW chars
    PROVE  FirstOf(SubSeq(t, b, Len(t)), 1, chars) = FirstOf(t, b, chars) - (b - 1)
<1> DEFINE r == SubSeq(t, b, Len(t))
           f == FirstOf(t, b, chars)
           n == Len(t)
<1>0. n \in Nat /\ b \in 1..n + 1
  OBVIOUS
<1>1. /\ f \in 1..n + 1
      /\ f <= n => t[f] \in chars
      /\ f = n + 1 \/ f >= b
      /\ \A q \in b..f - 1 : t[q] \notin chars
  BY FirstIs
<1>2. /\ r \in Seq(STRING) /\ Len(r) = n - b + 1
      /\ \A k \in 1..n - b + 1 : r[k] = t[b + k - 1]
  <2>1. n - b + 1 = IF b <= n THEN n - b + 1 ELSE 0
    BY <1>0
  <2>2. \A k \in b..n : t[k] \in STRING
    BY <1>0
  <2> QED
    BY <1>0, <2>1, <2>2, SubSeqProperties
<1> HIDE DEF r, f, n
<1>3. f - (b - 1) \in 1..Len(r) + 1
  BY <1>0, <1>1, <1>2
<1>4. f - (b - 1) = Len(r) + 1 \/ (f - (b - 1) >= 1 /\ r[f - (b - 1)] \in chars)
  BY <1>0, <1>1, <1>2, SMTT(30)
<1>5. ASSUME NEW q \in 1..f - (b - 1) - 1 PROVE r[q] \notin chars
  <2>1. b + q - 1 \in b..f - 1 /\ q \in 1..n - b + 1
    BY <1>0, <1>1
  <2> QED
    BY <1>1, <1>2, <2>1
<1>6. f - (b - 1) = FirstOf(r, 1, chars)
  <2> DEFINE z == f - (b - 1)
  <2>1. /\ z \in 1..Len(r) + 1
        /\ z = Len(r) + 1 \/ (z >= 1 /\ r[z] \in chars)
        /\ \A q \in 1..z - 1 : r[q] \notin chars
    BY <1>3, <1>4, <1>5
  <2> HIDE DEF z
  <2>2. z = FirstOf(r, 1, chars)
    <3>0. 1 \in Nat \ {0}
      OBVIOUS
    <3>1. r \in Seq(STRING)
      BY <1>2
    <3>4. z \in 1..Len(r) + 1
      BY <2>1
    <3>2. z = Len(r) + 1 \/ (z >= 1 /\ r[z] \in chars)
      BY <2>1
    <3>3. \A q \in 1..z - 1 : r[q] \notin chars
      BY <2>1
    <3> QED
      BY <3>0, <3>1, <3>2, <3>3, <3>4, FirstUnique, Zenon
  <2> QED
    BY <2>2 DEF z
<1> QED
  BY <1>6 DEF f, r, n

-----------------------------------------------------------------------------
(* The two automata, state by state.                                        *)

\* An edge is taken, or there is none.
LEMMA FollowCases ==
    ASSUME NEW edges, NEW s, NEW ch, NEW dead
    PROVE  \/ \E e \in edges : s \in e.from /\ ch \in e.on /\ Follow(edges, s, ch, dead) = e.to
           \/ /\ \A e \in edges : ~(s \in e.from /\ ch \in e.on)
              /\ Follow(edges, s, ch, dead) = dead
<1> DEFINE taken == {e \in edges : s \in e.from /\ ch \in e.on}
<1>1. CASE taken = {}
  BY <1>1 DEF Follow
<1>2. CASE taken # {}
  <2>1. (CHOOSE e \in taken : TRUE) \in taken
    BY <1>2
  <2>2. Follow(edges, s, ch, dead) = (CHOOSE e \in taken : TRUE).to
    BY <1>2 DEF Follow
  <2> QED
    BY <2>1, <2>2
<1> QED
  BY <1>1, <1>2

Arrow(edges, s, ch, to) == \E e \in edges : s \in e.from /\ ch \in e.on /\ e.to = to

\* What the only arrow leads to.
LEMMA FollowTo ==
    ASSUME NEW edges, NEW s, NEW ch, NEW dead, NEW to, Arrow(edges, s, ch, to),
           \A other : Arrow(edges, s, ch, other) => other = to
    PROVE  Follow(edges, s, ch, dead) = to
  BY FollowCases DEF Arrow

LEMMA FollowNone ==
    ASSUME NEW edges, NEW s, NEW ch, NEW dead, \A other : ~Arrow(edges, s, ch, other)
    PROVE  Follow(edges, s, ch, dead) = dead
  BY FollowCases DEF Arrow

\* The edges of parse_url_char, listed.
LEMMA UrlArrows ==
    ASSUME NEW s, NEW ch, NEW to
    PROVE  Arrow(UrlEdges, s, ch, to) <=>
             \/ s \in {"spaces_before_url"} /\ ch \in {"/", "*"} /\ to = "path"
             \/ s \in {"spaces_before_url", "schema"} /\ ch \in Alpha /\ to = "schema"
             \/ s \in {"schema"} /\ ch = ":" /\ to = "schema_slash"
             \/ s \in {"schema_slash"} /\ ch = "/" /\ to = "schema_slash_slash"
             \/ s \in {"schema_slash_slash"} /\ ch = "/" /\ to = "server_start"
             \/ s \in Server /\ ch = "/" /\ to = "path"
             \/ s \in Server \cup {"path"} /\ ch = "?" /\ to = "query_string_start"
             \/ s \in Server \ {"server_with_at"} /\ ch = "@" /\ to = "server_with_at"
             \/ s \in Server /\ ch \in UserinfoChar \cup {"[", "]"} /\ to = "server"
             \/ s \in {"path"} /\ ch \in UrlChar /\ to = "path"
             \/ s \in {"path"} \cup Query /\ ch = "#" /\ to = "fragment_start"
             \/ s \in Query /\ ch \in UrlChar \cup {"?"} /\ to = "query_string"
             \/ s \in Fragment /\ ch \in UrlChar \cup {"?"} /\ to = "fragment"
             \/ s = "fragment_start" /\ ch = "#" /\ to = "fragment_start"
             \/ s = "fragment" /\ ch = "#" /\ to = "fragment"
  BY DEF Arrow, UrlEdges, Edge

ServerChar == UserinfoChar \cup {"[", "]", "@"}

\* What tells the characters of two edges from one state apart.
LEMMA CharSets ==
    /\ "/" \notin Alpha /\ "*" \notin Alpha /\ ":" \notin Alpha
    /\ "/" \notin UserinfoChar \cup {"[", "]"} /\ "?" \notin UserinfoChar \cup {"[", "]"}
    /\ "@" \notin UserinfoChar \cup {"[", "]"} /\ "@" \notin UserinfoChar
    /\ "?" \notin UrlChar /\ "#" \notin UrlChar \cup {"?"}
    /\ "[" \notin HostChar /\ ":" \notin HostChar /\ "]" \notin Hex \cup {":", "."}
  BY DEF Alpha, Num, Hex, HostChar, UserinfoChar, UrlChar

\* parse_url_char: where a character leads from each state.
LEMMA Url_spaces_before_url ==
    ASSUME NEW ch
    PROVE  parse_url_char("spaces_before_url", ch) =
                IF ch \in {"/", "*"} THEN "path"
                ELSE IF ch \in Alpha THEN "schema"
                ELSE "dead"
<1>1. \A to : Arrow(UrlEdges, "spaces_before_url", ch, to) <=>
       \/ ch \in {"/", "*"} /\ to = "path"
       \/ ch \in Alpha /\ to = "schema"
  BY UrlArrows DEF Server, Query, Fragment
<1> QED
  BY <1>1, CharSets, FollowTo, FollowNone DEF parse_url_char

LEMMA Url_schema ==
    ASSUME NEW ch
    PROVE  parse_url_char("schema", ch) =
                IF ch \in Alpha THEN "schema"
                ELSE IF ch = ":" THEN "schema_slash"
                ELSE "dead"
<1>1. \A to : Arrow(UrlEdges, "schema", ch, to) <=>
       \/ ch \in Alpha /\ to = "schema"
       \/ ch = ":" /\ to = "schema_slash"
  BY UrlArrows DEF Server, Query, Fragment
<1> QED
  BY <1>1, CharSets, FollowTo, FollowNone DEF parse_url_char

LEMMA Url_schema_slash ==
    ASSUME NEW ch
    PROVE  parse_url_char("schema_slash", ch) =
                IF ch = "/" THEN "schema_slash_slash"
                ELSE "dead"
<1>1. \A to : Arrow(UrlEdges, "schema_slash", ch, to) <=>
       \/ ch = "/" /\ to = "schema_slash_slash"
  BY UrlArrows DEF Server, Query, Fragment
<1> QED
  BY <1>1, CharSets, FollowTo, FollowNone DEF parse_url_char

LEMMA Url_schema_slash_slash ==
    ASSUME NEW ch
    PROVE  parse_url_char("schema_slash_slash", ch) =
                IF ch = "/" THEN "server_start"
                ELSE "dead"
<1>1. \A to : Arrow(UrlEdges, "schema_slash_slash", ch, to) <=>
       \/ ch = "/" /\ to = "server_start"
  BY UrlArrows DEF Server, Query, Fragment
<1> QED
  BY <1>1, CharSets, FollowTo, FollowNone DEF parse_url_char

LEMMA Url_server_start ==
    ASSUME NEW ch
    PROVE  parse_url_char("server_start", ch) =
                IF ch = "/" THEN "path"
                ELSE IF ch = "?" THEN "query_string_start"
                ELSE IF ch = "@" THEN "server_with_at"
                ELSE IF ch \in UserinfoChar \cup {"[", "]"} THEN "server"
                ELSE "dead"
<1>1. \A to : Arrow(UrlEdges, "server_start", ch, to) <=>
       \/ ch = "/" /\ to = "path"
       \/ ch = "?" /\ to = "query_string_start"
       \/ ch = "@" /\ to = "server_with_at"
       \/ ch \in UserinfoChar \cup {"[", "]"} /\ to = "server"
  BY UrlArrows DEF Server, Query, Fragment
<1> QED
  BY <1>1, CharSets, FollowTo, FollowNone DEF parse_url_char

LEMMA Url_server ==
    ASSUME NEW ch
    PROVE  parse_url_char("server", ch) =
                IF ch = "/" THEN "path"
                ELSE IF ch = "?" THEN "query_string_start"
                ELSE IF ch = "@" THEN "server_with_at"
                ELSE IF ch \in UserinfoChar \cup {"[", "]"} THEN "server"
                ELSE "dead"
<1>1. \A to : Arrow(UrlEdges, "server", ch, to) <=>
       \/ ch = "/" /\ to = "path"
       \/ ch = "?" /\ to = "query_string_start"
       \/ ch = "@" /\ to = "server_with_at"
       \/ ch \in UserinfoChar \cup {"[", "]"} /\ to = "server"
  BY UrlArrows DEF Server, Query, Fragment
<1> QED
  BY <1>1, CharSets, FollowTo, FollowNone DEF parse_url_char

LEMMA Url_server_with_at ==
    ASSUME NEW ch
    PROVE  parse_url_char("server_with_at", ch) =
                IF ch = "/" THEN "path"
                ELSE IF ch = "?" THEN "query_string_start"
                ELSE IF ch \in UserinfoChar \cup {"[", "]"} THEN "server"
                ELSE "dead"
<1>1. \A to : Arrow(UrlEdges, "server_with_at", ch, to) <=>
       \/ ch = "/" /\ to = "path"
       \/ ch = "?" /\ to = "query_string_start"
       \/ ch \in UserinfoChar \cup {"[", "]"} /\ to = "server"
  BY UrlArrows DEF Server, Query, Fragment
<1> QED
  BY <1>1, CharSets, FollowTo, FollowNone DEF parse_url_char

LEMMA Url_path ==
    ASSUME NEW ch
    PROVE  parse_url_char("path", ch) =
                IF ch = "?" THEN "query_string_start"
                ELSE IF ch = "#" THEN "fragment_start"
                ELSE IF ch \in UrlChar THEN "path"
                ELSE "dead"
<1>1. \A to : Arrow(UrlEdges, "path", ch, to) <=>
       \/ ch = "?" /\ to = "query_string_start"
       \/ ch = "#" /\ to = "fragment_start"
       \/ ch \in UrlChar /\ to = "path"
  BY UrlArrows DEF Server, Query, Fragment
<1> QED
  BY <1>1, CharSets, FollowTo, FollowNone DEF parse_url_char

LEMMA Url_query_string_start ==
    ASSUME NEW ch
    PROVE  parse_url_char("query_string_start", ch) =
                IF ch = "#" THEN "fragment_start"
                ELSE IF ch \in UrlChar \cup {"?"} THEN "query_string"
                ELSE "dead"
<1>1. \A to : Arrow(UrlEdges, "query_string_start", ch, to) <=>
       \/ ch = "#" /\ to = "fragment_start"
       \/ ch \in UrlChar \cup {"?"} /\ to = "query_string"
  BY UrlArrows DEF Server, Query, Fragment
<1> QED
  BY <1>1, CharSets, FollowTo, FollowNone DEF parse_url_char

LEMMA Url_query_string ==
    ASSUME NEW ch
    PROVE  parse_url_char("query_string", ch) =
                IF ch = "#" THEN "fragment_start"
                ELSE IF ch \in UrlChar \cup {"?"} THEN "query_string"
                ELSE "dead"
<1>1. \A to : Arrow(UrlEdges, "query_string", ch, to) <=>
       \/ ch = "#" /\ to = "fragment_start"
       \/ ch \in UrlChar \cup {"?"} /\ to = "query_string"
  BY UrlArrows DEF Server, Query, Fragment
<1> QED
  BY <1>1, CharSets, FollowTo, FollowNone DEF parse_url_char

LEMMA Url_fragment_start ==
    ASSUME NEW ch
    PROVE  parse_url_char("fragment_start", ch) =
                IF ch = "#" THEN "fragment_start"
                ELSE IF ch \in UrlChar \cup {"?"} THEN "fragment"
                ELSE "dead"
<1>1. \A to : Arrow(UrlEdges, "fragment_start", ch, to) <=>
       \/ ch = "#" /\ to = "fragment_start"
       \/ ch \in UrlChar \cup {"?"} /\ to = "fragment"
  BY UrlArrows DEF Server, Query, Fragment
<1> QED
  BY <1>1, CharSets, FollowTo, FollowNone DEF parse_url_char

LEMMA Url_fragment ==
    ASSUME NEW ch
    PROVE  parse_url_char("fragment", ch) =
                IF ch \in UrlChar \cup {"?", "#"} THEN "fragment"
                ELSE "dead"
<1>1. \A to : Arrow(UrlEdges, "fragment", ch, to) <=>
       \/ ch \in UrlChar \cup {"?", "#"} /\ to = "fragment"
  BY UrlArrows DEF Server, Query, Fragment
<1> QED
  BY <1>1, CharSets, FollowTo, FollowNone DEF parse_url_char

LEMMA Url_dead ==
    ASSUME NEW ch
    PROVE  parse_url_char("dead", ch) =
                "dead"
<1>1. \A to : ~Arrow(UrlEdges, "dead", ch, to)
  BY UrlArrows DEF Server, Query, Fragment
<1> QED
  BY <1>1, FollowNone DEF parse_url_char

\* The edges of http_parse_host_char, listed.
LEMMA HostArrows ==
    ASSUME NEW s, NEW ch, NEW to
    PROVE  Arrow(HostEdges, s, ch, to) <=>
             \/ s \in {"userinfo_start", "userinfo"} /\ ch = "@" /\ to = "host_start"
             \/ s \in {"userinfo_start", "userinfo"} /\ ch \in UserinfoChar /\ to = "userinfo"
             \/ s = "host_start" /\ ch = "[" /\ to = "v6_start"
             \/ s \in {"host_start", "host"} /\ ch \in HostChar /\ to = "host"
             \/ s \in {"host", "v6_end"} /\ ch = ":" /\ to = "port_start"
             \/ s = "v6" /\ ch = "]" /\ to = "v6_end"
             \/ s \in {"v6_start", "v6"} /\ ch \in Hex \cup {":", "."} /\ to = "v6"
             \/ s \in {"port_start", "port"} /\ ch \in Num /\ to = "port"
  BY DEF Arrow, HostEdges, Edge

\* http_parse_host_char: where a character leads from each state.
LEMMA Host_userinfo_start ==
    ASSUME NEW ch
    PROVE  http_parse_host_char("userinfo_start", ch) =
                IF ch = "@" THEN "host_start"
                ELSE IF ch \in UserinfoChar THEN "userinfo"
                ELSE "host_dead"
<1>1. \A to : Arrow(HostEdges, "userinfo_start", ch, to) <=>
       \/ ch = "@" /\ to = "host_start"
       \/ ch \in UserinfoChar /\ to = "userinfo"
  BY HostArrows DEF Server, Query, Fragment
<1> QED
  BY <1>1, CharSets, FollowTo, FollowNone DEF http_parse_host_char

LEMMA Host_userinfo ==
    ASSUME NEW ch
    PROVE  http_parse_host_char("userinfo", ch) =
                IF ch = "@" THEN "host_start"
                ELSE IF ch \in UserinfoChar THEN "userinfo"
                ELSE "host_dead"
<1>1. \A to : Arrow(HostEdges, "userinfo", ch, to) <=>
       \/ ch = "@" /\ to = "host_start"
       \/ ch \in UserinfoChar /\ to = "userinfo"
  BY HostArrows DEF Server, Query, Fragment
<1> QED
  BY <1>1, CharSets, FollowTo, FollowNone DEF http_parse_host_char

LEMMA Host_host_start ==
    ASSUME NEW ch
    PROVE  http_parse_host_char("host_start", ch) =
                IF ch = "[" THEN "v6_start"
                ELSE IF ch \in HostChar THEN "host"
                ELSE "host_dead"
<1>1. \A to : Arrow(HostEdges, "host_start", ch, to) <=>
       \/ ch = "[" /\ to = "v6_start"
       \/ ch \in HostChar /\ to = "host"
  BY HostArrows DEF Server, Query, Fragment
<1> QED
  BY <1>1, CharSets, FollowTo, FollowNone DEF http_parse_host_char

LEMMA Host_host ==
    ASSUME NEW ch
    PROVE  http_parse_host_char("host", ch) =
                IF ch = ":" THEN "port_start"
                ELSE IF ch \in HostChar THEN "host"
                ELSE "host_dead"
<1>1. \A to : Arrow(HostEdges, "host", ch, to) <=>
       \/ ch = ":" /\ to = "port_start"
       \/ ch \in HostChar /\ to = "host"
  BY HostArrows DEF Server, Query, Fragment
<1> QED
  BY <1>1, CharSets, FollowTo, FollowNone DEF http_parse_host_char

LEMMA Host_v6_start ==
    ASSUME NEW ch
    PROVE  http_parse_host_char("v6_start", ch) =
                IF ch \in Hex \cup {":", "."} THEN "v6"
                ELSE "host_dead"
<1>1. \A to : Arrow(HostEdges, "v6_start", ch, to) <=>
       \/ ch \in Hex \cup {":", "."} /\ to = "v6"
  BY HostArrows DEF Server, Query, Fragment
<1> QED
  BY <1>1, CharSets, FollowTo, FollowNone DEF http_parse_host_char

LEMMA Host_v6 ==
    ASSUME NEW ch
    PROVE  http_parse_host_char("v6", ch) =
                IF ch = "]" THEN "v6_end"
                ELSE IF ch \in Hex \cup {":", "."} THEN "v6"
                ELSE "host_dead"
<1>1. \A to : Arrow(HostEdges, "v6", ch, to) <=>
       \/ ch = "]" /\ to = "v6_end"
       \/ ch \in Hex \cup {":", "."} /\ to = "v6"
  BY HostArrows DEF Server, Query, Fragment
<1> QED
  BY <1>1, CharSets, FollowTo, FollowNone DEF http_parse_host_char

LEMMA Host_v6_end ==
    ASSUME NEW ch
    PROVE  http_parse_host_char("v6_end", ch) =
                IF ch = ":" THEN "port_start"
                ELSE "host_dead"
<1>1. \A to : Arrow(HostEdges, "v6_end", ch, to) <=>
       \/ ch = ":" /\ to = "port_start"
  BY HostArrows DEF Server, Query, Fragment
<1> QED
  BY <1>1, CharSets, FollowTo, FollowNone DEF http_parse_host_char

LEMMA Host_port_start ==
    ASSUME NEW ch
    PROVE  http_parse_host_char("port_start", ch) =
                IF ch \in Num THEN "port"
                ELSE "host_dead"
<1>1. \A to : Arrow(HostEdges, "port_start", ch, to) <=>
       \/ ch \in Num /\ to = "port"
  BY HostArrows DEF Server, Query, Fragment
<1> QED
  BY <1>1, CharSets, FollowTo, FollowNone DEF http_parse_host_char

LEMMA Host_port ==
    ASSUME NEW ch
    PROVE  http_parse_host_char("port", ch) =
                IF ch \in Num THEN "port"
                ELSE "host_dead"
<1>1. \A to : Arrow(HostEdges, "port", ch, to) <=>
       \/ ch \in Num /\ to = "port"
  BY HostArrows DEF Server, Query, Fragment
<1> QED
  BY <1>1, CharSets, FollowTo, FollowNone DEF http_parse_host_char

LEMMA Host_host_dead ==
    ASSUME NEW ch
    PROVE  http_parse_host_char("host_dead", ch) =
                "host_dead"
<1>1. \A to : ~Arrow(HostEdges, "host_dead", ch, to)
  BY HostArrows DEF Server, Query, Fragment
<1> QED
  BY <1>1, FollowNone DEF http_parse_host_char

-----------------------------------------------------------------------------
(* Both scans, position by position.                                        *)

Part == [off : Nat, len : Nat]

\* Only field f grows, and it stays a field.
LEMMA GrowType ==
    ASSUME NEW data \in [Fields -> Part], NEW f \in Fields, NEW previous, NEW i \in Nat
    PROVE  /\ Grow(data, f, previous, i) \in [Fields -> Part]
           /\ \A g \in Fields \ {f} : Grow(data, f, previous, i)[g] = data[g]
           /\ Grow(data, f, previous, i)[f] =
                IF f = previous THEN [off |-> data[f].off, len |-> data[f].len + 1]
                                ELSE [off |-> i, len |-> 1]
<1> HIDE DEF Fields
<1>1. data[f] \in Part
  OBVIOUS
<1>2. data[f].off \in Nat /\ data[f].len \in Nat /\ data[f].len + 1 \in Nat
  BY <1>1 DEF Part
<1>3. CASE f = previous
  <2>1. Grow(data, f, previous, i) = [data EXCEPT ![f].len = @ + 1]
    BY <1>3 DEF Grow
  <2> DEFINE r == [off |-> data[f].off, len |-> data[f].len + 1]
  <2>2. [data[f] EXCEPT !.len = @ + 1] = r
    BY <1>1 DEF Part
  <2>3. Grow(data, f, previous, i) = [data EXCEPT ![f] = r]
    BY <2>1, <2>2
  <2>4. r \in Part
    BY <1>2 DEF Part
  <2> HIDE DEF r
  <2>5. /\ Grow(data, f, previous, i) \in [Fields -> Part]
        /\ \A g \in Fields \ {f} : Grow(data, f, previous, i)[g] = data[g]
        /\ Grow(data, f, previous, i)[f] = r
    BY <2>3, <2>4
  <2> QED
    BY <1>3, <2>5 DEF r
<1>4. CASE f # previous
  <2> DEFINE r == [off |-> i, len |-> 1]
  <2>1. Grow(data, f, previous, i) = [data EXCEPT ![f] = r]
    BY <1>4 DEF Grow
  <2>2. r \in Part
    BY DEF Part
  <2> HIDE DEF r
  <2>3. /\ Grow(data, f, previous, i) \in [Fields -> Part]
        /\ \A g \in Fields \ {f} : Grow(data, f, previous, i)[g] = data[g]
        /\ Grow(data, f, previous, i)[f] = r
    BY <2>1, <2>2
  <2> QED
    BY <1>4, <2>3 DEF r
<1> QED
  BY <1>3, <1>4

\* The other fields are left alone.
LEMMA GrowOther ==
    ASSUME NEW data \in [Fields -> Part], NEW f \in Fields, NEW previous, NEW i \in Nat,
           NEW g \in Fields \ {f}
    PROVE  Grow(data, f, previous, i)[g] = data[g]
<1>1. Grow(data, f, previous, i) = IF f = previous THEN [data EXCEPT ![f].len = @ + 1]
                                   ELSE [data EXCEPT ![f] = [off |-> i, len |-> 1]]
  BY DEF Grow
<1>2. CASE f = previous
  BY <1>1, <1>2
<1>3. CASE f # previous
  BY <1>1, <1>3
<1> QED
  BY <1>2, <1>3

LEMMA FieldIs ==
    ASSUME NEW s
    PROVE  FieldOf(s) \in Fields \cup {"none"} /\ HostField(s) \in Fields \cup {"none"}
  BY DEF FieldOf, HostField, Fields

States == {"dead", "spaces_before_url", "schema", "schema_slash", "schema_slash_slash", "path"}
          \cup Server \cup Query \cup Fragment
HostStates == {"host_dead", "userinfo_start", "userinfo", "host_start", "host", "v6_start", "v6",
               "v6_end", "port_start", "port"}

LEMMA NextIs ==
    ASSUME NEW s, NEW ch
    PROVE  parse_url_char(s, ch) \in States /\ http_parse_host_char(s, ch) \in HostStates
<1>1. \A to : Arrow(UrlEdges, s, ch, to) => to \in States
  BY UrlArrows DEF States, Server, Query, Fragment
<1>2. \A to : Arrow(HostEdges, s, ch, to) => to \in HostStates
  BY HostArrows DEF HostStates
<1>3. Follow(UrlEdges, s, ch, "dead") \in States
  <2>1. "dead" \in States
    BY DEF States
  <2>2. CASE \E to : Arrow(UrlEdges, s, ch, to)
    <3>1. Arrow(UrlEdges, s, ch, Follow(UrlEdges, s, ch, "dead"))
      BY <2>2, FollowCases DEF Arrow
    <3> QED
      BY <1>1, <3>1
  <2>3. CASE ~ \E to : Arrow(UrlEdges, s, ch, to)
    BY <2>1, <2>3, FollowNone
  <2> QED
    BY <2>2, <2>3
<1>4. Follow(HostEdges, s, ch, "host_dead") \in HostStates
  <2>1. "host_dead" \in HostStates
    BY DEF HostStates
  <2>2. CASE \E to : Arrow(HostEdges, s, ch, to)
    <3>1. Arrow(HostEdges, s, ch, Follow(HostEdges, s, ch, "host_dead"))
      BY <2>2, FollowCases DEF Arrow
    <3> QED
      BY <1>2, <3>1
  <2>3. CASE ~ \E to : Arrow(HostEdges, s, ch, to)
    BY <2>1, <2>3, FollowNone
  <2> QED
    BY <2>2, <2>3
<1> QED
  BY <1>3, <1>4 DEF parse_url_char, http_parse_host_char

\* UrlScan.
Scans == [state : States, field : Fields \cup {"none"}, data : [Fields -> Part], at : BOOLEAN]
ScanFirst == [state |-> "spaces_before_url", field |-> "none", data |-> NoData, at |-> FALSE]
ScanNext(text, before, i) ==
    LET s == parse_url_char(before.state, text[i])
        f == FieldOf(s)
    IN [state |-> s,
        field |-> IF f = "none" THEN before.field ELSE f,
        data  |-> IF f = "none" THEN before.data ELSE Grow(before.data, f, before.field, i),
        at    |-> before.at \/ s = "server_with_at"]

\* The scan stays among its values.
LEMMA ScanTypes ==
    ASSUME NEW text, NEW before \in Scans, NEW i \in Nat
    PROVE  ScanNext(text, before, i) \in Scans
<1> DEFINE s == parse_url_char(before.state, text[i])
           f == FieldOf(s)
           d == IF f = "none" THEN before.data ELSE Grow(before.data, f, before.field, i)
           g == IF f = "none" THEN before.field ELSE f
           a == before.at \/ s = "server_with_at"
<1>1. /\ before.field \in Fields \cup {"none"} /\ before.data \in [Fields -> Part]
      /\ before.at \in BOOLEAN
  BY DEF Scans
<1>2. s \in States
  BY NextIs
<1>3. f \in Fields \cup {"none"}
  BY FieldIs
<1> HIDE DEF s, f
<1>4. d \in [Fields -> Part]
  BY <1>1, <1>3, GrowType
<1>5. g \in Fields \cup {"none"}
  BY <1>1, <1>3
<1>6. a \in BOOLEAN
  BY <1>1
<1>7. ScanNext(text, before, i) = [state |-> s, field |-> g, data |-> d, at |-> a]
  BY DEF ScanNext, s, f
<1> HIDE DEF d, g, a
<1> QED
  BY <1>2, <1>4, <1>5, <1>6, <1>7 DEF Scans

\* UrlScan is such a function of the position, from its first value on.
LEMMA ScanRuns ==
    ASSUME NEW text \in Seq(STRING)
    PROVE  \E at : /\ at \in [0..Len(text) -> Scans]
                   /\ at[0] = ScanFirst
                   /\ \A i \in 1..Len(text) : at[i] = ScanNext(text, at[i - 1], i)
                   /\ UrlScan(text) = at[Len(text)]
<1> DEFINE n == Len(text)
           G == [x \in Scans \X (1..n) |-> ScanNext(text, x[1], x[2])]
           IsFold(f) == f = [i \in 0..n |-> IF i = 0 THEN ScanFirst ELSE ScanNext(text, f[i - 1], i)]
<1>1. n \in Nat
  OBVIOUS
<1>2. UrlScan(text) = (CHOOSE f : IsFold(f))[n]
  BY DEF UrlScan, ScanFirst, ScanNext
<1> HIDE DEF n
<1>3. ScanFirst \in Scans
  <2>1. NoData \in [Fields -> Part]
    BY DEF NoData, Part
  <2>2. "spaces_before_url" \in States /\ "none" \in Fields \cup {"none"} /\ FALSE \in BOOLEAN
    BY DEF States
  <2> HIDE DEF Fields, NoData, Part
  <2> QED
    BY <2>1, <2>2 DEF ScanFirst, Scans
<1>4. G \in [Scans \X (1..n) -> Scans]
  <2>1. ASSUME NEW x \in Scans \X (1..n) PROVE ScanNext(text, x[1], x[2]) \in Scans
    <3>1. x[1] \in Scans /\ x[2] \in Nat
      BY <1>1
    <3> QED
      BY <3>1, ScanTypes
  <2> QED
    BY <2>1
<1>5. \A v \in Scans, i \in 1..n : G[<<v, i>>] = ScanNext(text, v, i)
  OBVIOUS
<1> HIDE DEF G
<1>6. PICK f : IsRun(f, n, Scans, ScanFirst, G)
  BY <1>1, <1>3, <1>4, Iterates
<1>7. IsFold(f)
  <2>1. ASSUME NEW i \in 0..n
        PROVE  f[i] = IF i = 0 THEN ScanFirst ELSE ScanNext(text, f[i - 1], i)
    <3>1. CASE i = 0
      BY <1>6, <3>1 DEF IsRun
    <3>2. CASE i # 0
      <4>1. i \in 1..n /\ f[i - 1] \in Scans
        BY <1>1, <1>6, <3>2 DEF IsRun
      <4>2. f[i] = G[<<f[i - 1], i>>]
        BY <1>6, <3>2 DEF IsRun
      <4> QED
        BY <1>5, <3>2, <4>1, <4>2
    <3> QED
      BY <3>1, <3>2
  <2> QED
    BY <1>6, <2>1 DEF IsRun
<1> DEFINE at == CHOOSE g : IsFold(g)
<1>8. IsFold(at)
  <2> HIDE DEF IsFold
  <2> QED
    BY <1>7
<1>9. \A i \in 0..n : at[i] = IF i = 0 THEN ScanFirst ELSE ScanNext(text, at[i - 1], i)
  <2> HIDE DEF at
  <2> QED
    BY <1>8
<1>10. UrlScan(text) = at[n]
  BY <1>2
<1>11. DOMAIN at = 0..n /\ at = [i \in 0..n |-> at[i]]
  <2> HIDE DEF at
  <2> QED
    BY <1>8
<1> HIDE DEF at
<1>12. \A i \in 0..n : at[i] \in Scans
  <2> DEFINE S == {i \in 0..n : at[i] \in Scans}
  <2>1. 0 \in S
    BY <1>1, <1>3, <1>9
  <2>2. ASSUME NEW i \in 1..n, i - 1 \in S PROVE i \in S
    <3>1. at[i] = ScanNext(text, at[i - 1], i) /\ at[i - 1] \in Scans
      BY <1>1, <1>9, <2>2
    <3> QED
      BY <3>1, ScanTypes
  <2>3. \A i \in 0..n : i \in S
    <3> HIDE DEF S
    <3> QED
      BY <1>1, <2>1, <2>2, UpTo
  <2> QED
    BY <2>3
<1>13. at \in [0..n -> Scans]
  BY <1>11, <1>12
<1>14. at[0] = ScanFirst /\ \A i \in 1..n : at[i] = ScanNext(text, at[i - 1], i)
  BY <1>1, <1>9
<1> QED
  BY <1>10, <1>13, <1>14 DEF n

-----------------------------------------------------------------------------
(* A URL: where its delimiters are, what may stand between them, and in     *)
(* which state the automaton is there.                                      *)

Colon(t) == FirstOf(t, 1, {":"})
ServerEnd(t) == FirstOf(t, Colon(t) + 3, {"/", "?"})
PathEnd(t) == FirstOf(t, ServerEnd(t), {"?", "#"})
QueryEnd(t) == FirstOf(t, PathEnd(t), {"#"})
Hashes(t) == FirstOf(t, QueryEnd(t), UrlChar \cup {"?"})

\* Each is where it is because of the characters there and before it.
LEMMA Delimiters ==
    ASSUME NEW t \in Seq(STRING)
    PROVE  /\ Len(t) \in Nat
           /\ Colon(t) \in 1..Len(t) + 1
           /\ Colon(t) <= Len(t) => t[Colon(t)] = ":"
           /\ \A j \in 1..Colon(t) - 1 : t[j] # ":"
           /\ ServerEnd(t) \in 1..Len(t) + 1
           /\ ServerEnd(t) = Len(t) + 1 \/ ServerEnd(t) >= Colon(t) + 3
           /\ ServerEnd(t) <= Len(t) => t[ServerEnd(t)] \in {"/", "?"}
           /\ \A j \in Colon(t) + 3..ServerEnd(t) - 1 : t[j] \notin {"/", "?"}
           /\ PathEnd(t) \in ServerEnd(t)..Len(t) + 1
           /\ PathEnd(t) <= Len(t) => t[PathEnd(t)] \in {"?", "#"}
           /\ \A j \in ServerEnd(t)..PathEnd(t) - 1 : t[j] \notin {"?", "#"}
           /\ QueryEnd(t) \in PathEnd(t)..Len(t) + 1
           /\ QueryEnd(t) <= Len(t) => t[QueryEnd(t)] = "#"
           /\ \A j \in PathEnd(t)..QueryEnd(t) - 1 : t[j] # "#"
           /\ Hashes(t) \in QueryEnd(t)..Len(t) + 1
           /\ Hashes(t) <= Len(t) => t[Hashes(t)] \in UrlChar \cup {"?"}
           /\ \A j \in QueryEnd(t)..Hashes(t) - 1 : t[j] \notin UrlChar \cup {"?"}
<1>0. Len(t) \in Nat
  OBVIOUS
<1>1. /\ Colon(t) \in 1..Len(t) + 1
      /\ Colon(t) <= Len(t) => t[Colon(t)] = ":"
      /\ \A j \in 1..Colon(t) - 1 : t[j] # ":"
  <2>1. 1 \in Nat \ {0}
    OBVIOUS
  <2> QED
    BY <2>1, FirstIs DEF Colon
<1>2. /\ ServerEnd(t) \in 1..Len(t) + 1
      /\ ServerEnd(t) = Len(t) + 1 \/ ServerEnd(t) >= Colon(t) + 3
      /\ ServerEnd(t) <= Len(t) => t[ServerEnd(t)] \in {"/", "?"}
      /\ \A j \in Colon(t) + 3..ServerEnd(t) - 1 : t[j] \notin {"/", "?"}
  <2>1. Colon(t) + 3 \in Nat \ {0}
    BY <1>0, <1>1
  <2> QED
    BY <2>1, FirstIs DEF ServerEnd
<1>3. /\ PathEnd(t) \in ServerEnd(t)..Len(t) + 1
      /\ PathEnd(t) <= Len(t) => t[PathEnd(t)] \in {"?", "#"}
      /\ \A j \in ServerEnd(t)..PathEnd(t) - 1 : t[j] \notin {"?", "#"}
  <2>1. ServerEnd(t) \in Nat \ {0} /\ ServerEnd(t) <= Len(t) + 1
    BY <1>0, <1>2
  <2>2. /\ PathEnd(t) \in 1..Len(t) + 1
        /\ PathEnd(t) <= Len(t) => t[PathEnd(t)] \in {"?", "#"}
        /\ PathEnd(t) = Len(t) + 1 \/ PathEnd(t) >= ServerEnd(t)
        /\ \A j \in ServerEnd(t)..PathEnd(t) - 1 : t[j] \notin {"?", "#"}
    BY <2>1, FirstIs DEF PathEnd
  <2> QED
    BY <1>0, <2>1, <2>2
<1>4. /\ QueryEnd(t) \in PathEnd(t)..Len(t) + 1
      /\ QueryEnd(t) <= Len(t) => t[QueryEnd(t)] = "#"
      /\ \A j \in PathEnd(t)..QueryEnd(t) - 1 : t[j] # "#"
  <2>1. PathEnd(t) \in Nat \ {0} /\ PathEnd(t) <= Len(t) + 1
    BY <1>0, <1>2, <1>3
  <2>2. /\ QueryEnd(t) \in 1..Len(t) + 1
        /\ QueryEnd(t) <= Len(t) => t[QueryEnd(t)] \in {"#"}
        /\ QueryEnd(t) = Len(t) + 1 \/ QueryEnd(t) >= PathEnd(t)
        /\ \A j \in PathEnd(t)..QueryEnd(t) - 1 : t[j] \notin {"#"}
    BY <2>1, FirstIs DEF QueryEnd
  <2> QED
    BY <1>0, <2>1, <2>2
<1>5. /\ Hashes(t) \in QueryEnd(t)..Len(t) + 1
      /\ Hashes(t) <= Len(t) => t[Hashes(t)] \in UrlChar \cup {"?"}
      /\ \A j \in QueryEnd(t)..Hashes(t) - 1 : t[j] \notin UrlChar \cup {"?"}
  <2>1. QueryEnd(t) \in Nat \ {0} /\ QueryEnd(t) <= Len(t) + 1
    BY <1>0, <1>2, <1>3, <1>4
  <2>2. /\ Hashes(t) \in 1..Len(t) + 1
        /\ Hashes(t) <= Len(t) => t[Hashes(t)] \in UrlChar \cup {"?"}
        /\ Hashes(t) = Len(t) + 1 \/ Hashes(t) >= QueryEnd(t)
        /\ \A j \in QueryEnd(t)..Hashes(t) - 1 : t[j] \notin UrlChar \cup {"?"}
    BY <2>1, FirstIs DEF Hashes
  <2> HIDE DEF UrlChar
  <2> QED
    BY <1>0, <2>1, <2>2
<1> QED
  BY <1>0, <1>1, <1>2, <1>3, <1>4, <1>5

\* What may stand at position j, if nothing before it was wrong.
Conforms(t, j) ==
    IF j < Colon(t) THEN t[j] \in Alpha
    ELSE IF j = Colon(t) THEN j > 1
    ELSE IF j < Colon(t) + 3 THEN t[j] = "/"
    ELSE IF j < ServerEnd(t) THEN t[j] \in ServerChar /\ (t[j] = "@" => t[j - 1] # "@")
    ELSE t[j] \in UrlChar \cup {"?", "#"}

\* The state after i characters of which none is wrong.
StateAt(t, i) ==
    IF i = 0 THEN "spaces_before_url"
    ELSE IF i < Colon(t) THEN "schema"
    ELSE IF i = Colon(t) THEN "schema_slash"
    ELSE IF i = Colon(t) + 1 THEN "schema_slash_slash"
    ELSE IF i = Colon(t) + 2 THEN "server_start"
    ELSE IF i < ServerEnd(t) THEN IF t[i] = "@" THEN "server_with_at" ELSE "server"
    ELSE IF i < PathEnd(t) THEN "path"
    ELSE IF i < QueryEnd(t) THEN IF i = PathEnd(t) THEN "query_string_start" ELSE "query_string"
    ELSE IF i < Hashes(t) THEN "fragment_start" ELSE "fragment"

\* The characters.
LEMMA Chars ==
    /\ Alpha \subseteq HostChar /\ Num \subseteq HostChar /\ HostChar \subseteq UserinfoChar
    /\ UserinfoChar \subseteq UrlChar /\ ServerChar \subseteq UrlChar
    /\ Num \subseteq UserinfoChar /\ Hex \subseteq HostChar
    /\ {":", "/", "?", "#", "@", "*"} \cap Alpha = {}
    /\ {"?", "#"} \cap UrlChar = {}
    /\ {"/", "?", "#", "@", "[", "]"} \cap UserinfoChar = {}
    /\ {"/", "?", "#"} \cap ServerChar = {}
    /\ {":", "@", "[", "]", "_"} \cap HostChar = {}
  BY DEF Alpha, Num, Hex, HostChar, UserinfoChar, UrlChar, ServerChar

\* One character of each part.
LEMMA StepSchema ==
    ASSUME NEW t \in Seq(STRING), NEW i \in 1..Len(t), i < Colon(t)
    PROVE  /\ Conforms(t, i) => parse_url_char(StateAt(t, i - 1), t[i]) = StateAt(t, i)
           /\ ~Conforms(t, i) => \/ parse_url_char(StateAt(t, i - 1), t[i]) = "dead"
                                 \/ i = 1 /\ parse_url_char(StateAt(t, i - 1), t[i]) = "path"
<1> DEFINE c == Colon(t)
           ch == t[i]
<1>1. c \in 1..Len(t) + 1 /\ \A j \in 1..c - 1 : t[j] # ":"
  BY Delimiters
<1>2. ch # ":" /\ StateAt(t, i) = "schema" /\ (Conforms(t, i) <=> ch \in Alpha)
  BY <1>1 DEF StateAt, Conforms
<1>3. StateAt(t, i - 1) = IF i = 1 THEN "spaces_before_url" ELSE "schema"
  BY <1>1 DEF StateAt
<1>4. \A x \in {"/", "*"} : x \notin Alpha
  BY DEF Alpha
<1> HIDE DEF c, ch
<1>5. parse_url_char("spaces_before_url", ch) =
        IF ch \in {"/", "*"} THEN "path" ELSE IF ch \in Alpha THEN "schema" ELSE "dead"
  BY Url_spaces_before_url
<1>6. parse_url_char("schema", ch) =
        IF ch \in Alpha THEN "schema" ELSE IF ch = ":" THEN "schema_slash" ELSE "dead"
  BY Url_schema
<1>7. CASE i = 1
  BY <1>2, <1>3, <1>4, <1>5, <1>7 DEF ch
<1>8. CASE i # 1
  BY <1>2, <1>3, <1>6, <1>8 DEF ch
<1> QED
  BY <1>7, <1>8

\* One character, up to the third of "://".
LEMMA StepColon ==
    ASSUME NEW t \in Seq(STRING), NEW i \in 1..Len(t), i \in Colon(t)..Colon(t) + 2
    PROVE  /\ Conforms(t, i) => parse_url_char(StateAt(t, i - 1), t[i]) = StateAt(t, i)
           /\ ~Conforms(t, i) => parse_url_char(StateAt(t, i - 1), t[i]) = "dead"
<1> DEFINE c == Colon(t)
           ch == t[i]
<1>1. c \in 1..Len(t) + 1 /\ (c <= Len(t) => t[c] = ":")
  BY Delimiters
<1>2. i \in {c, c + 1, c + 2} /\ c \in Nat \ {0}
  BY <1>1
<1>3. CASE i = c
  <2>1. ch = ":" /\ StateAt(t, i) = "schema_slash" /\ (Conforms(t, i) <=> i > 1)
    BY <1>1, <1>3 DEF StateAt, Conforms
  <2>2. StateAt(t, i - 1) = IF i = 1 THEN "spaces_before_url" ELSE "schema"
    BY <1>1, <1>3 DEF StateAt
  <2>3. ch \notin Alpha \cup {"/", "*"}
    BY <2>1 DEF Alpha
  <2> HIDE DEF ch
  <2>4. parse_url_char("spaces_before_url", ch) = "dead"
    BY <2>3, Url_spaces_before_url
  <2>5. parse_url_char("schema", ch) = "schema_slash"
    BY <2>1, <2>3, Url_schema
  <2> QED
    BY <2>1, <2>2, <2>4, <2>5 DEF ch
<1>4. CASE i = c + 1
  <2>1. /\ StateAt(t, i) = "schema_slash_slash" /\ StateAt(t, i - 1) = "schema_slash"
        /\ Conforms(t, i) <=> ch = "/"
    BY <1>1, <1>2, <1>4 DEF StateAt, Conforms
  <2> HIDE DEF ch
  <2>2. parse_url_char("schema_slash", ch) = IF ch = "/" THEN "schema_slash_slash" ELSE "dead"
    BY Url_schema_slash
  <2> QED
    BY <2>1, <2>2 DEF ch
<1>5. CASE i = c + 2
  <2>1. /\ StateAt(t, i) = "server_start" /\ StateAt(t, i - 1) = "schema_slash_slash"
        /\ Conforms(t, i) <=> ch = "/"
    BY <1>1, <1>2, <1>5 DEF StateAt, Conforms
  <2> HIDE DEF ch
  <2>2. parse_url_char("schema_slash_slash", ch) = IF ch = "/" THEN "server_start" ELSE "dead"
    BY Url_schema_slash_slash
  <2> QED
    BY <2>1, <2>2 DEF ch
<1> QED
  BY <1>2, <1>3, <1>4, <1>5

\* What comes before a character of the server, or its end.
LEMMA BeforeServer ==
    ASSUME NEW t \in Seq(STRING), NEW i \in 1..Len(t), i \in Colon(t) + 3..ServerEnd(t),
           Conforms(t, i - 1)
    PROVE  StateAt(t, i - 1) =
             IF i = Colon(t) + 3 THEN "server_start"
             ELSE IF t[i - 1] = "@" THEN "server_with_at" ELSE "server"
<1>1. Colon(t) \in Nat \ {0} /\ ServerEnd(t) \in Nat
  BY Delimiters
<1> QED
  BY <1>1 DEF StateAt

\* One character of the server.
LEMMA StepServer ==
    ASSUME NEW t \in Seq(STRING), NEW i \in 1..Len(t), i \in Colon(t) + 3..ServerEnd(t) - 1,
           Conforms(t, i - 1)
    PROVE  /\ Conforms(t, i) => parse_url_char(StateAt(t, i - 1), t[i]) = StateAt(t, i)
           /\ ~Conforms(t, i) => parse_url_char(StateAt(t, i - 1), t[i]) = "dead"
<1> DEFINE c == Colon(t)
           v == ServerEnd(t)
           ch == t[i]
           before == StateAt(t, i - 1)
           on == IF ch = "@" THEN "server_with_at"
                 ELSE IF ch \in UserinfoChar \cup {"[", "]"} THEN "server" ELSE "dead"
<1>1. /\ c \in Nat \ {0} /\ v \in Nat
      /\ \A j \in c + 3..v - 1 : t[j] \notin {"/", "?"}
  BY Delimiters
<1>2. /\ ch \notin {"/", "?"} /\ StateAt(t, i) = (IF ch = "@" THEN "server_with_at" ELSE "server")
      /\ Conforms(t, i) <=> ch \in ServerChar /\ (ch = "@" => t[i - 1] # "@")
  BY <1>1 DEF StateAt, Conforms
<1>3. ch \in ServerChar <=> ch = "@" \/ ch \in UserinfoChar \cup {"[", "]"}
  BY DEF ServerChar
<1>4. "@" \notin UserinfoChar \cup {"[", "]"}
  BY DEF UserinfoChar, HostChar, Num, Alpha
<1>5. before = IF i = c + 3 THEN "server_start"
               ELSE IF t[i - 1] = "@" THEN "server_with_at" ELSE "server"
  BY <1>1, BeforeServer
<1>6. i = c + 3 => t[i - 1] # "@"
  BY <1>1 DEF Conforms
<1> HIDE DEF before, ch, c, v
<1>7. parse_url_char("server_start", ch) = on /\ parse_url_char("server", ch) = on
  BY <1>2, Url_server_start, Url_server
<1>8. parse_url_char("server_with_at", ch) =
        IF ch \in UserinfoChar \cup {"[", "]"} THEN "server" ELSE "dead"
  BY <1>2, Url_server_with_at
<1>9. CASE ch = "@"
  BY <1>2, <1>3, <1>4, <1>5, <1>6, <1>7, <1>8, <1>9 DEF ch, before
<1>10. CASE ch # "@" /\ ch \in UserinfoChar \cup {"[", "]"}
  <2>1. parse_url_char(before, ch) = "server"
    BY <1>5, <1>7, <1>8, <1>10
  <2> QED
    BY <1>2, <1>3, <1>10, <2>1 DEF ch, before
<1>11. CASE ch # "@" /\ ch \notin UserinfoChar \cup {"[", "]"}
  <2>1. parse_url_char(before, ch) = "dead"
    BY <1>5, <1>7, <1>8, <1>11
  <2> QED
    BY <1>2, <1>3, <1>11, <2>1 DEF ch, before
<1> QED
  BY <1>9, <1>10, <1>11

\* The character the server ends at.
LEMMA StepServerEnd ==
    ASSUME NEW t \in Seq(STRING), NEW i \in 1..Len(t), i = ServerEnd(t), i > 1, Conforms(t, i - 1)
    PROVE  Conforms(t, i) /\ parse_url_char(StateAt(t, i - 1), t[i]) = StateAt(t, i)
<1> DEFINE c == Colon(t)
           v == ServerEnd(t)
           p == PathEnd(t)
           q == QueryEnd(t)
           ch == t[i]
           before == StateAt(t, i - 1)
<1>1. /\ c \in Nat \ {0} /\ v \in Nat /\ p \in Nat /\ q \in Nat /\ Len(t) \in Nat
      /\ v <= Len(t) => v >= c + 3 /\ t[v] \in {"/", "?"}
      /\ v <= p /\ p <= q /\ p <= Len(t) + 1
      /\ p <= Len(t) => t[p] \in {"?", "#"}
      /\ q <= Len(t) => t[q] = "#"
      /\ \A j \in v..p - 1 : t[j] \notin {"?", "#"}
  BY Delimiters, SMTT(30)
<1>2. i >= c + 3 /\ ch \in {"/", "?"}
  BY <1>1
<1>3. Conforms(t, i)
  <2>1. ch \in UrlChar \cup {"?", "#"}
    BY <1>2 DEF UrlChar
  <2> QED
    BY <1>1, <1>2, <2>1 DEF Conforms
<1>4. before = IF i = c + 3 THEN "server_start"
               ELSE IF t[i - 1] = "@" THEN "server_with_at" ELSE "server"
  BY <1>1, <1>2, BeforeServer
<1>5. StateAt(t, i) = IF ch = "/" THEN "path" ELSE "query_string_start"
  <2>1. CASE ch = "/"
    <3>1. v < p
      BY <1>1, <2>1
    <3> QED
      BY <1>1, <1>2, <2>1, <3>1 DEF StateAt
  <2>2. CASE ch = "?"
    <3>1. v = p /\ p < q
      BY <1>1, <2>2, SMTT(30)
    <3> QED
      BY <1>1, <1>2, <2>2, <3>1 DEF StateAt
  <2> QED
    BY <1>2, <2>1, <2>2
<1> HIDE DEF before, ch
<1>6. \A s \in {"server_start", "server", "server_with_at"} :
        parse_url_char(s, ch) = IF ch = "/" THEN "path" ELSE "query_string_start"
  BY <1>2, Url_server_start, Url_server, Url_server_with_at
<1>7. before \in {"server_start", "server", "server_with_at"}
  BY <1>4
<1> QED
  BY <1>3, <1>5, <1>6, <1>7 DEF ch, before

\* One character of the path, or its end.
LEMMA StepPath ==
    ASSUME NEW t \in Seq(STRING), NEW i \in 1..Len(t), i \in ServerEnd(t) + 1..PathEnd(t)
    PROVE  /\ Conforms(t, i) => parse_url_char(StateAt(t, i - 1), t[i]) = StateAt(t, i)
           /\ ~Conforms(t, i) => parse_url_char(StateAt(t, i - 1), t[i]) = "dead"
<1> DEFINE c == Colon(t)
           v == ServerEnd(t)
           p == PathEnd(t)
           q == QueryEnd(t)
           h == Hashes(t)
           ch == t[i]
<1>1. /\ c \in Nat \ {0} /\ v \in Nat /\ p \in Nat /\ q \in Nat /\ h \in Nat /\ Len(t) \in Nat
      /\ v <= Len(t) => v >= c + 3
      /\ v <= p /\ p <= q /\ p <= Len(t) + 1 /\ q <= h
      /\ p <= Len(t) => t[p] \in {"?", "#"}
      /\ q <= Len(t) => t[q] = "#"
      /\ \A j \in v..p - 1 : t[j] \notin {"?", "#"}
      /\ \A j \in p..q - 1 : t[j] # "#"
      /\ h <= Len(t) => t[h] \in UrlChar \cup {"?"}
  BY Delimiters, SMTT(30)
<1>2. i >= c + 3 /\ v < i /\ StateAt(t, i - 1) = "path" /\ (Conforms(t, i) <=> ch \in UrlChar \cup {"?", "#"})
  BY <1>1, SMTT(30) DEF StateAt, Conforms
<1>3. parse_url_char("path", ch) =
        IF ch = "?" THEN "query_string_start"
        ELSE IF ch = "#" THEN "fragment_start" ELSE IF ch \in UrlChar THEN "path" ELSE "dead"
  BY Url_path
<1>4. CASE i < p
  <2>1. StateAt(t, i) = "path"
    BY <1>1, <1>2, <1>4, SMTT(30) DEF StateAt
  <2>2. ch \notin {"?", "#"}
    BY <1>1, <1>2, <1>4, SMTT(30)
  <2> HIDE DEF ch
  <2> QED
    BY <1>2, <1>3, <2>1, <2>2 DEF ch
<1>5. CASE i = p /\ ch = "?"
  <2>1. p < q
    BY <1>1, <1>5
  <2>2. StateAt(t, i) = "query_string_start"
    BY <1>1, <1>2, <1>5, <2>1, SMTT(30) DEF StateAt
  <2> HIDE DEF ch
  <2> QED
    BY <1>2, <1>3, <1>5, <2>2 DEF ch
<1>6. CASE i = p /\ ch = "#"
  <2>1. p = q
    BY <1>1, <1>6
  <2>2. q < h
    <3>1. "#" \notin UrlChar \cup {"?"}
      BY Chars
    <3> HIDE DEF h
    <3> QED
      BY <1>1, <1>6, <2>1, <3>1
  <2>3. StateAt(t, i) = "fragment_start"
    BY <1>1, <1>2, <1>6, <2>1, <2>2 DEF StateAt
  <2> HIDE DEF ch
  <2> QED
    BY <1>2, <1>3, <1>6, <2>3 DEF ch
<1> QED
  BY <1>1, <1>4, <1>5, <1>6

\* One character of the query, or its end.
LEMMA StepQuery ==
    ASSUME NEW t \in Seq(STRING), NEW i \in 1..Len(t), i \in PathEnd(t) + 1..QueryEnd(t)
    PROVE  /\ Conforms(t, i) => parse_url_char(StateAt(t, i - 1), t[i]) = StateAt(t, i)
           /\ ~Conforms(t, i) => parse_url_char(StateAt(t, i - 1), t[i]) = "dead"
<1> DEFINE c == Colon(t)
           v == ServerEnd(t)
           p == PathEnd(t)
           q == QueryEnd(t)
           h == Hashes(t)
           ch == t[i]
           before == StateAt(t, i - 1)
<1>1. /\ c \in Nat \ {0} /\ v \in Nat /\ p \in Nat /\ q \in Nat /\ h \in Nat /\ Len(t) \in Nat
      /\ v <= Len(t) => v >= c + 3
      /\ v <= p /\ p <= q /\ p <= Len(t) + 1 /\ q <= h
      /\ q <= Len(t) => t[q] = "#"
      /\ \A j \in p..q - 1 : t[j] # "#"
      /\ h <= Len(t) => t[h] \in UrlChar \cup {"?"}
  BY Delimiters
<1>2. i >= c + 3 /\ v < i /\ p < i /\ (Conforms(t, i) <=> ch \in UrlChar \cup {"?", "#"})
  BY <1>1 DEF Conforms
<1>3. before \in {"query_string_start", "query_string"}
  BY <1>1, <1>2 DEF StateAt
<1>4. \A s \in {"query_string_start", "query_string"} : parse_url_char(s, ch) =
        IF ch = "#" THEN "fragment_start" ELSE IF ch \in UrlChar \cup {"?"} THEN "query_string" ELSE "dead"
  BY Url_query_string_start, Url_query_string
<1> HIDE DEF before
<1>5. CASE i < q
  <2>1. StateAt(t, i) = "query_string" /\ ch # "#"
    BY <1>1, <1>2, <1>5 DEF StateAt
  <2> HIDE DEF ch
  <2>2. parse_url_char(before, ch) = IF ch \in UrlChar \cup {"?"} THEN "query_string" ELSE "dead"
    BY <1>3, <1>4, <2>1
  <2> QED
    BY <1>2, <2>1, <2>2 DEF ch, before
<1>6. CASE i = q
  <2>1. q < h
    <3>1. "#" \notin UrlChar \cup {"?"}
      BY Chars
    <3> HIDE DEF h
    <3> QED
      BY <1>1, <1>6, <3>1
  <2>2. StateAt(t, i) = "fragment_start" /\ ch = "#"
    BY <1>1, <1>2, <1>6, <2>1, SMTT(30) DEF StateAt
  <2> HIDE DEF ch
  <2>3. parse_url_char(before, ch) = "fragment_start"
    BY <1>3, <1>4, <2>2
  <2> QED
    BY <1>2, <2>2, <2>3 DEF ch, before
<1> QED
  BY <1>1, <1>5, <1>6

\* One character of the fragment.
LEMMA StepFragment ==
    ASSUME NEW t \in Seq(STRING), NEW i \in 1..Len(t), i > QueryEnd(t)
    PROVE  /\ Conforms(t, i) => parse_url_char(StateAt(t, i - 1), t[i]) = StateAt(t, i)
           /\ ~Conforms(t, i) => parse_url_char(StateAt(t, i - 1), t[i]) = "dead"
<1> DEFINE c == Colon(t)
           v == ServerEnd(t)
           p == PathEnd(t)
           q == QueryEnd(t)
           h == Hashes(t)
           ch == t[i]
           before == StateAt(t, i - 1)
<1>1. /\ c \in Nat \ {0} /\ v \in Nat /\ p \in Nat /\ q \in Nat /\ h \in Nat /\ Len(t) \in Nat
      /\ v <= Len(t) => v >= c + 3
      /\ v <= p /\ p <= q /\ p <= Len(t) + 1 /\ q <= h
      /\ q <= Len(t) => t[q] = "#"
      /\ h <= Len(t) => t[h] \in UrlChar \cup {"?"}
      /\ \A j \in q..h - 1 : t[j] \notin UrlChar \cup {"?"}
  BY Delimiters
<1>2. i >= c + 3 /\ v < i /\ p < i /\ q < i /\ (Conforms(t, i) <=> ch \in UrlChar \cup {"?", "#"})
  BY <1>1 DEF Conforms
<1>3. before = IF i - 1 < h THEN "fragment_start" ELSE "fragment"
  BY <1>1, <1>2, SMTT(30) DEF StateAt
<1>4. StateAt(t, i) = IF i < h THEN "fragment_start" ELSE "fragment"
  BY <1>1, <1>2 DEF StateAt
<1>5. parse_url_char("fragment_start", ch) =
        IF ch = "#" THEN "fragment_start" ELSE IF ch \in UrlChar \cup {"?"} THEN "fragment" ELSE "dead"
  BY Url_fragment_start
<1>6. parse_url_char("fragment", ch) = IF ch \in UrlChar \cup {"?", "#"} THEN "fragment" ELSE "dead"
  BY Url_fragment
<1>7. "#" \notin UrlChar \cup {"?"}
  BY Chars
<1>8. (i < h => ch \notin UrlChar \cup {"?"}) /\ (i = h => ch \in UrlChar \cup {"?"})
  <2> HIDE DEF h
  <2> QED
    BY <1>1, <1>2
<1> HIDE DEF before, ch
<1>9. CASE i < h
  <2>1. before = "fragment_start"
    BY <1>1, <1>3, <1>9
  <2>2. StateAt(t, i) = "fragment_start"
    BY <1>4, <1>9
  <2> QED
    BY <1>2, <1>5, <1>7, <1>8, <1>9, <2>1, <2>2 DEF ch, before
<1>10. CASE i = h
  <2>1. before = "fragment_start"
    BY <1>1, <1>3, <1>10
  <2>2. StateAt(t, i) = "fragment"
    BY <1>1, <1>4, <1>10
  <2>3. ch \in UrlChar \cup {"?"} /\ ch # "#"
    BY <1>7, <1>8, <1>10
  <2> QED
    BY <1>2, <1>5, <2>1, <2>2, <2>3 DEF ch, before
<1>11. CASE i > h
  <2>1. before = "fragment"
    BY <1>1, <1>3, <1>11
  <2>2. StateAt(t, i) = "fragment"
    BY <1>1, <1>4, <1>11
  <2> QED
    BY <1>2, <1>6, <2>1, <2>2 DEF ch, before
<1> QED
  BY <1>1, <1>9, <1>10, <1>11

\* parse_url_char follows StateAt for as long as the characters conform, and
\* finds every wrong one but a path at the very start.
LEMMA StepUrl ==
    ASSUME NEW t \in Seq(STRING), NEW i \in 1..Len(t), i > 1 => Conforms(t, i - 1)
    PROVE  /\ Conforms(t, i) => parse_url_char(StateAt(t, i - 1), t[i]) = StateAt(t, i)
           /\ ~Conforms(t, i) => \/ parse_url_char(StateAt(t, i - 1), t[i]) = "dead"
                                 \/ i = 1 /\ parse_url_char(StateAt(t, i - 1), t[i]) = "path"
<1> DEFINE c == Colon(t)
           v == ServerEnd(t)
           p == PathEnd(t)
           q == QueryEnd(t)
<1>1. /\ c \in Nat \ {0} /\ v \in Nat /\ p \in Nat /\ q \in Nat /\ Len(t) \in Nat
      /\ v = Len(t) + 1 \/ v >= c + 3
  BY Delimiters
<1>2. CASE i < c
  BY <1>2, StepSchema
<1>3. CASE i \in c..c + 2
  BY <1>3, StepColon
<1>4. CASE i \in c + 3..v - 1
  BY <1>1, <1>4, StepServer
<1>5. CASE i = v
  <2>1. i > 1
    BY <1>1, <1>5
  <2> QED
    BY <1>5, <2>1, StepServerEnd
<1>6. CASE i \in v + 1..p
  BY <1>6, StepPath
<1>7. CASE i \in p + 1..q
  BY <1>7, StepQuery
<1>8. CASE i > q
  BY <1>8, StepFragment
<1>9. i < c \/ i \in c..c + 2 \/ i \in c + 3..v - 1 \/ i = v \/ i \in v + 1..p \/ i \in p + 1..q \/ i > q
  BY <1>1, SMTT(30)
<1> HIDE DEF c, v, p, q
<1> QED
  BY <1>2, <1>3, <1>4, <1>5, <1>6, <1>7, <1>8, <1>9

-----------------------------------------------------------------------------
(* Fields: where each begins and ends.                                      *)

\* A field that stands from a to b: nothing of it where a comes after b.
Holds(d, a, b) == IF a <= b THEN d = [off |-> a, len |-> b - a + 1] ELSE d.len = 0

\* What the fields hold after the characters up to position i.
Upto(i, last) == IF i < last THEN i ELSE last
Held(data, fields, First, Last, i) ==
    \A g \in fields : Holds(data[g], First[g], Upto(i, Last[g]))

\* One more character: a field that has begun grows, one that has not begins.
LEMMA HeldOn ==
    ASSUME NEW data \in [Fields -> Part], NEW fields \in SUBSET Fields, NEW f \in fields \cup {"none"},
           NEW previous, NEW i \in Nat \ {0},
           NEW First \in [Fields -> Nat], NEW Last \in [Fields -> Int],
           Held(data, fields, First, Last, i - 1),
           \A g \in fields : f = g <=> i \in First[g]..Last[g],
           f # "none" => (previous = f <=> i # First[f])
    PROVE  Held(IF f = "none" THEN data ELSE Grow(data, f, previous, i), fields, First, Last, i)
<1> DEFINE d == IF f = "none" THEN data ELSE Grow(data, f, previous, i)
<1>1. f # "none" => /\ f \in Fields
                    /\ \A g \in Fields \ {f} : d[g] = data[g]
                    /\ d[f] = IF f = previous THEN [off |-> data[f].off, len |-> data[f].len + 1]
                                              ELSE [off |-> i, len |-> 1]
  <2> SUFFICES ASSUME f # "none"
               PROVE  /\ f \in Fields
                      /\ \A g \in Fields \ {f} : Grow(data, f, previous, i)[g] = data[g]
                      /\ Grow(data, f, previous, i)[f] =
                           IF f = previous THEN [off |-> data[f].off, len |-> data[f].len + 1]
                                           ELSE [off |-> i, len |-> 1]
    OBVIOUS
  <2>1. f \in Fields
    OBVIOUS
  <2> QED
    BY <2>1, GrowType
<1>2. f = "none" => d = data
  OBVIOUS
<1> HIDE DEF d
<1>3. "none" \notin Fields
  BY DEF Fields
<1>4. ASSUME NEW g \in fields PROVE Holds(d[g], First[g], Upto(i, Last[g]))
  <2> DEFINE a == First[g]
             b == Last[g]
  <2>0. a \in Nat /\ b \in Int /\ g \in Fields
    OBVIOUS
  <2>1. Holds(data[g], a, Upto(i - 1, b))
    BY DEF Held
  <2>2. f = g <=> i \in a..b
    OBVIOUS
  <2> HIDE DEF a, b
  <2>3. CASE f # g
    <3>1. d[g] = data[g]
      BY <1>1, <1>2, <1>3, <2>0, <2>3
    <3>2. ~(a <= i /\ i <= b)
      BY <2>0, <2>2, <2>3
    <3>3. a <= Upto(i, b) <=> a <= Upto(i - 1, b)
      BY <2>0, <3>2 DEF Upto
    <3>4. a <= Upto(i, b) => Upto(i, b) = Upto(i - 1, b)
      BY <2>0, <3>2 DEF Upto
    <3> QED
      BY <2>1, <3>1, <3>3, <3>4 DEF Holds, a, b
  <2>4. CASE f = g
    <3>1. f # "none" /\ a <= i /\ i <= b
      BY <1>3, <2>0, <2>2, <2>4
    <3>2. Upto(i, b) = i /\ Upto(i - 1, b) = i - 1
      BY <2>0, <3>1 DEF Upto
    <3>3. previous = f <=> i # a
      BY <2>4, <3>1 DEF a
    <3>4. CASE i = a
      <4>1. d[g] = [off |-> a, len |-> 1]
        BY <1>1, <2>4, <3>1, <3>3, <3>4
      <4> QED
        BY <2>0, <3>1, <3>2, <3>4, <4>1 DEF Holds, a, b
    <3>5. CASE i # a
      <4>1. data[g] = [off |-> a, len |-> i - 1 - a + 1]
        BY <2>0, <2>1, <3>1, <3>2, <3>5 DEF Holds
      <4>2. d[g] = [off |-> a, len |-> i - 1 - a + 1 + 1]
        BY <1>1, <2>4, <3>1, <3>3, <3>5, <4>1
      <4>3. i - 1 - a + 1 + 1 = i - a + 1
        BY <2>0
      <4> QED
        BY <3>1, <3>2, <4>2, <4>3 DEF Holds, a, b
    <3> QED
      BY <3>4, <3>5
  <2> QED
    BY <2>3, <2>4
<1>5. Held(d, fields, First, Last, i)
  BY <1>4 DEF Held
<1> QED
  BY <1>5 DEF d

\* The fields of a URL.
UrlFirst(t) ==
    [g \in Fields |->
       CASE g = "host" -> Colon(t) + 3
         [] g = "path" -> ServerEnd(t)
         [] g = "query" -> PathEnd(t) + 1
         [] g = "fragment" -> Hashes(t)
         [] OTHER -> 1]
UrlLast(t) ==
    [g \in Fields |->
       CASE g = "schema" -> Colon(t) - 1
         [] g = "host" -> ServerEnd(t) - 1
         [] g = "path" -> PathEnd(t) - 1
         [] g = "query" -> QueryEnd(t) - 1
         [] g = "fragment" -> Len(t)
         [] OTHER -> 0]

\* Every field has its range.
LEMMA UrlRanges ==
    ASSUME NEW t \in Seq(STRING)
    PROVE  /\ UrlFirst(t) \in [Fields -> Nat] /\ UrlLast(t) \in [Fields -> Int]
           /\ \A g \in Fields : UrlFirst(t)[g] >= 1 /\ UrlLast(t)[g] <= Len(t)
           /\ UrlFirst(t)["schema"] = 1 /\ UrlLast(t)["schema"] = Colon(t) - 1
           /\ UrlFirst(t)["host"] = Colon(t) + 3 /\ UrlLast(t)["host"] = ServerEnd(t) - 1
           /\ UrlFirst(t)["path"] = ServerEnd(t) /\ UrlLast(t)["path"] = PathEnd(t) - 1
           /\ UrlFirst(t)["query"] = PathEnd(t) + 1 /\ UrlLast(t)["query"] = QueryEnd(t) - 1
           /\ UrlFirst(t)["fragment"] = Hashes(t) /\ UrlLast(t)["fragment"] = Len(t)
           /\ UrlFirst(t)["port"] = 1 /\ UrlLast(t)["port"] = 0
           /\ UrlFirst(t)["userinfo"] = 1 /\ UrlLast(t)["userinfo"] = 0
<1>1. /\ Colon(t) \in 1..Len(t) + 1 /\ ServerEnd(t) \in 1..Len(t) + 1
      /\ PathEnd(t) \in 1..Len(t) + 1 /\ QueryEnd(t) \in 1..Len(t) + 1
      /\ Hashes(t) \in 1..Len(t) + 1 /\ Len(t) \in Nat
  BY Delimiters
<1>2. /\ UrlFirst(t)["schema"] = 1 /\ UrlLast(t)["schema"] = Colon(t) - 1
      /\ UrlFirst(t)["host"] = Colon(t) + 3 /\ UrlLast(t)["host"] = ServerEnd(t) - 1
      /\ UrlFirst(t)["path"] = ServerEnd(t) /\ UrlLast(t)["path"] = PathEnd(t) - 1
  BY DEF Fields, UrlFirst, UrlLast
<1>3. /\ UrlFirst(t)["query"] = PathEnd(t) + 1 /\ UrlLast(t)["query"] = QueryEnd(t) - 1
      /\ UrlFirst(t)["fragment"] = Hashes(t) /\ UrlLast(t)["fragment"] = Len(t)
      /\ UrlFirst(t)["port"] = 1 /\ UrlLast(t)["port"] = 0
      /\ UrlFirst(t)["userinfo"] = 1 /\ UrlLast(t)["userinfo"] = 0
  BY DEF Fields, UrlFirst, UrlLast
<1>4. ASSUME NEW g \in Fields
      PROVE  /\ UrlFirst(t)[g] \in Nat /\ UrlLast(t)[g] \in Int
             /\ UrlFirst(t)[g] >= 1 /\ UrlLast(t)[g] <= Len(t)
  <2>1. CASE g = "schema"
    BY <1>1, <1>2, <2>1, SMTT(30)
  <2>2. CASE g = "host"
    BY <1>1, <1>2, <2>2
  <2>3. CASE g = "path"
    BY <1>1, <1>2, <2>3
  <2>4. CASE g = "query"
    BY <1>1, <1>3, <2>4
  <2>5. CASE g = "fragment"
    BY <1>1, <1>3, <2>5
  <2>6. CASE g = "port" \/ g = "userinfo"
    BY <1>1, <1>3, <2>6, SMTT(30)
  <2> QED
    BY <2>1, <2>2, <2>3, <2>4, <2>5, <2>6 DEF Fields
<1>5. UrlFirst(t) \in [Fields -> Nat] /\ UrlLast(t) \in [Fields -> Int]
  <2>1. DOMAIN UrlFirst(t) = Fields /\ DOMAIN UrlLast(t) = Fields
    BY DEF UrlFirst, UrlLast
  <2>2. UrlFirst(t) = [g \in Fields |-> UrlFirst(t)[g]] /\ UrlLast(t) = [g \in Fields |-> UrlLast(t)[g]]
    BY DEF UrlFirst, UrlLast
  <2> HIDE DEF Fields
  <2> QED
    BY <1>4, <2>2
<1> QED
  BY <1>2, <1>3, <1>4, <1>5

\* A character belongs to the field of its range.
LEMMA UrlFieldAt ==
    ASSUME NEW t \in Seq(STRING), NEW i \in 1..Len(t), NEW g \in Fields
    PROVE  FieldOf(StateAt(t, i)) = g <=> i \in UrlFirst(t)[g]..UrlLast(t)[g]
<1> DEFINE c == Colon(t)
           v == ServerEnd(t)
           p == PathEnd(t)
           q == QueryEnd(t)
           h == Hashes(t)
           n == Len(t)
           f == FieldOf(StateAt(t, i))
<1>1. /\ c \in Nat \ {0} /\ v \in Nat /\ p \in Nat /\ q \in Nat /\ h \in Nat /\ n \in Nat
      /\ v = n + 1 \/ v >= c + 3
      /\ v <= p /\ p <= q /\ q <= h /\ h <= n + 1 /\ c <= n + 1
  BY Delimiters
<1>0. q <= n => q < h
  <2>1. /\ h \in q..n + 1 /\ (q <= n => t[q] = "#") /\ (h <= n => t[h] \in UrlChar \cup {"?"})
        /\ q \in Nat
    BY Delimiters
  <2>2. "#" \notin UrlChar \cup {"?"}
    BY Chars
  <2> HIDE DEF h, q
  <2> QED
    BY <2>1, <2>2
<1>2. /\ i < c => f = "schema"
      /\ i \in c..c + 2 => f = "none"
      /\ i \in c + 3..v - 1 => f = "host"
  BY <1>1, SMTT(30) DEF StateAt, FieldOf
<1>3. /\ i \in v..p - 1 => f = "path"
      /\ i \in p + 1..q - 1 => f = "query"
  BY <1>1, SMTT(30) DEF StateAt, FieldOf
<1>4. /\ i = p => f = "none"
      /\ i \in q..h - 1 => f = "none"
      /\ i >= h => f = "fragment"
  BY <1>0, <1>1 DEF StateAt, FieldOf
<1>5. /\ UrlFirst(t)["schema"] = 1 /\ UrlLast(t)["schema"] = c - 1
      /\ UrlFirst(t)["host"] = c + 3 /\ UrlLast(t)["host"] = v - 1
      /\ UrlFirst(t)["path"] = v /\ UrlLast(t)["path"] = p - 1
      /\ UrlFirst(t)["query"] = p + 1 /\ UrlLast(t)["query"] = q - 1
      /\ UrlFirst(t)["fragment"] = h /\ UrlLast(t)["fragment"] = n
      /\ UrlFirst(t)["port"] = 1 /\ UrlLast(t)["port"] = 0
      /\ UrlFirst(t)["userinfo"] = 1 /\ UrlLast(t)["userinfo"] = 0
  BY UrlRanges
<1>6. \/ i < c \/ i \in c..c + 2 \/ i \in c + 3..v - 1 \/ i \in v..p - 1 \/ i = p
      \/ i \in p + 1..q - 1 \/ i \in q..h - 1 \/ i >= h
  BY <1>1, SMTT(30)
<1>7. i \in 1..n
  OBVIOUS
<1> HIDE DEF c, v, p, q, h, n, f
<1>8. CASE g = "schema"
  <2>1. f = "schema" <=> i < c
    BY <1>1, <1>2, <1>3, <1>4, <1>6, <1>7
  <2> QED
    BY <1>1, <1>5, <1>7, <1>8, <2>1 DEF f
<1>9. CASE g = "host"
  <2>1. f = "host" <=> i \in c + 3..v - 1
    BY <1>1, <1>2, <1>3, <1>4, <1>6, <1>7
  <2> QED
    BY <1>5, <1>9, <2>1 DEF f
<1>10. CASE g = "path"
  <2>1. f = "path" <=> i \in v..p - 1
    BY <1>1, <1>2, <1>3, <1>4, <1>6, <1>7
  <2> QED
    BY <1>5, <1>10, <2>1 DEF f
<1>11. CASE g = "query"
  <2>1. f = "query" <=> i \in p + 1..q - 1
    BY <1>1, <1>2, <1>3, <1>4, <1>6, <1>7
  <2> QED
    BY <1>5, <1>11, <2>1 DEF f
<1>12. CASE g = "fragment"
  <2>1. f = "fragment" <=> i \in h..n
    BY <1>1, <1>2, <1>3, <1>4, <1>6, <1>7
  <2> QED
    BY <1>5, <1>12, <2>1 DEF f
<1>13. CASE g \in {"port", "userinfo"}
  <2>1. f \notin {"port", "userinfo"}
    BY <1>2, <1>3, <1>4, <1>6
  <2> QED
    BY <1>5, <1>7, <1>13, <2>1 DEF f
<1> QED
  BY <1>8, <1>9, <1>10, <1>11, <1>12, <1>13 DEF Fields

-----------------------------------------------------------------------------
(* The scan of a URL.                                                       *)

HasAt(t, i) == \E j \in Colon(t) + 3..ServerEnd(t) - 1 : j <= i /\ t[j] = "@"

\* After i characters, none of them wrong.
GoodScan(t, s, i) ==
    /\ s.state = StateAt(t, i)
    /\ Held(s.data, Fields, UrlFirst(t), UrlLast(t), i)
    /\ s.field # "none" => UrlFirst(t)[s.field] <= i
    /\ \A g \in Fields : i \in UrlFirst(t)[g]..UrlLast(t)[g] => s.field = g
    /\ s.at <=> HasAt(t, i)

\* After a wrong one: no schema is found any more.
LostScan(s) ==
    \/ s.state = "dead"
    \/ s.data["schema"].len = 0 /\ s.state \in {"path"} \cup Query \cup Fragment

\* Before the first character.
LEMMA ScanStarts ==
    ASSUME NEW t \in Seq(STRING)
    PROVE  GoodScan(t, ScanFirst, 0)
<1>1. /\ UrlFirst(t) \in [Fields -> Nat] /\ UrlLast(t) \in [Fields -> Int]
      /\ \A g \in Fields : UrlFirst(t)[g] >= 1 /\ UrlLast(t)[g] <= Len(t)
  BY UrlRanges
<1>2. StateAt(t, 0) = "spaces_before_url"
  BY DEF StateAt
<1>3. Held(NoData, Fields, UrlFirst(t), UrlLast(t), 0)
  <2>1. ASSUME NEW g \in Fields
        PROVE  Holds(NoData[g], UrlFirst(t)[g], Upto(0, UrlLast(t)[g]))
    <3>1. NoData[g].len = 0
      BY DEF NoData
    <3>2. ~(UrlFirst(t)[g] <= Upto(0, UrlLast(t)[g]))
      BY <1>1 DEF Upto
    <3> QED
      BY <3>1, <3>2 DEF Holds
  <2> QED
    BY <2>1 DEF Held
<1>4. ~HasAt(t, 0)
  BY Delimiters DEF HasAt
<1> QED
  BY <1>1, <1>2, <1>3, <1>4 DEF GoodScan, ScanFirst

\* A character that conforms.
LEMMA ScanGoesOn ==
    ASSUME NEW t \in Seq(STRING), NEW i \in 1..Len(t), NEW s \in Scans, GoodScan(t, s, i - 1),
           i > 1 => Conforms(t, i - 1), Conforms(t, i)
    PROVE  GoodScan(t, ScanNext(t, s, i), i)
<1> DEFINE f == FieldOf(StateAt(t, i))
           First == UrlFirst(t)
           Last == UrlLast(t)
           d == IF f = "none" THEN s.data ELSE Grow(s.data, f, s.field, i)
           field == IF f = "none" THEN s.field ELSE f
           at == s.at \/ StateAt(t, i) = "server_with_at"
<1>1. /\ First \in [Fields -> Nat] /\ Last \in [Fields -> Int]
      /\ \A g \in Fields : First[g] >= 1 /\ Last[g] <= Len(t)
  BY UrlRanges
<1>2. parse_url_char(s.state, t[i]) = StateAt(t, i)
  BY StepUrl DEF GoodScan
<1>3. ScanNext(t, s, i) = [state |-> StateAt(t, i), field |-> field, data |-> d, at |-> at]
  BY <1>2 DEF ScanNext
<1>4. f \in Fields \cup {"none"} /\ \A g \in Fields : f = g <=> i \in First[g]..Last[g]
  BY FieldIs, UrlFieldAt
<1>5. s.data \in [Fields -> Part] /\ s.field \in Fields \cup {"none"} /\ s.at \in BOOLEAN
  BY DEF Scans
<1>6. /\ Held(s.data, Fields, First, Last, i - 1)
      /\ s.field # "none" => First[s.field] <= i - 1
      /\ \A g \in Fields : i - 1 \in First[g]..Last[g] => s.field = g
      /\ s.at <=> HasAt(t, i - 1)
  BY DEF GoodScan
<1>7. i \in Nat \ {0} /\ i <= Len(t) /\ Len(t) \in Nat
  OBVIOUS
<1>8. "none" \notin Fields
  BY DEF Fields
<1> HIDE DEF f, First, Last
<1>9. f # "none" => (s.field = f <=> i # First[f])
  <2> SUFFICES ASSUME f # "none" PROVE s.field = f <=> i # First[f]
    OBVIOUS
  <2>1. f \in Fields /\ i \in First[f]..Last[f]
    BY <1>4
  <2>2. First[f] \in Nat /\ Last[f] \in Int
    BY <1>1, <2>1
  <2>3. CASE i = First[f]
    <3>1. s.field # f
      BY <1>6, <1>7, <1>8, <2>1, <2>2, <2>3
    <3> QED
      BY <2>3, <3>1
  <2>4. CASE i # First[f]
    <3>1. i - 1 \in First[f]..Last[f]
      BY <1>7, <2>1, <2>2, <2>4
    <3> QED
      BY <1>6, <2>1, <2>4, <3>1
  <2> QED
    BY <2>3, <2>4
<1>10. Held(d, Fields, First, Last, i)
  <2>1. Fields \in SUBSET Fields
    OBVIOUS
  <2> QED
    BY <1>1, <1>4, <1>5, <1>6, <1>7, <1>9, <2>1, HeldOn
<1>11. field # "none" => First[field] <= i
  <2>1. CASE f = "none"
    <3>1. s.field # "none" => First[s.field] \in Nat
      BY <1>1, <1>5
    <3> QED
      BY <1>6, <1>7, <2>1, <3>1
  <2>2. CASE f # "none"
    <3>1. f \in Fields /\ i \in First[f]..Last[f]
      BY <1>4, <2>2
    <3>2. First[f] \in Nat /\ Last[f] \in Int
      BY <1>1, <3>1
    <3> QED
      BY <1>7, <2>2, <3>1, <3>2
  <2> QED
    BY <2>1, <2>2
<1>12. \A g \in Fields : i \in First[g]..Last[g] => field = g
  BY <1>4, <1>8
<1>13. at <=> HasAt(t, i)
  <2> DEFINE c == Colon(t)
             v == ServerEnd(t)
  <2>1. c \in Nat \ {0} /\ v \in Nat
    BY Delimiters
  <2>2. StateAt(t, i) = "server_with_at" <=> i \in c + 3..v - 1 /\ t[i] = "@"
    BY <1>7, <2>1 DEF StateAt
  <2>3. HasAt(t, i) <=> HasAt(t, i - 1) \/ (i \in c + 3..v - 1 /\ t[i] = "@")
    BY <1>7, <2>1 DEF HasAt
  <2> QED
    BY <1>6, <2>2, <2>3
<1> HIDE DEF d, field, at
<1> QED
  BY <1>3, <1>10, <1>11, <1>12, <1>13 DEF GoodScan, First, Last

\* The first that does not.
LEMMA ScanGetsLost ==
    ASSUME NEW t \in Seq(STRING), NEW i \in 1..Len(t), NEW s \in Scans, GoodScan(t, s, i - 1),
           i > 1 => Conforms(t, i - 1), ~Conforms(t, i)
    PROVE  LostScan(ScanNext(t, s, i))
<1> DEFINE reached == parse_url_char(s.state, t[i])
<1>1. reached = "dead" \/ (i = 1 /\ reached = "path")
  BY StepUrl DEF GoodScan
<1>2. ScanNext(t, s, i).state = reached
  BY DEF ScanNext
<1>3. CASE reached = "dead"
  BY <1>2, <1>3 DEF LostScan
<1>4. CASE i = 1 /\ reached = "path"
  <2>1. FieldOf(reached) = "path"
    BY <1>4 DEF FieldOf
  <2>2. ScanNext(t, s, i).data = Grow(s.data, "path", s.field, i)
    BY <2>1 DEF ScanNext
  <2>3. s.data \in [Fields -> Part] /\ i \in Nat
    BY DEF Scans
  <2>4. "path" \in Fields /\ "schema" \in Fields \ {"path"}
    BY DEF Fields
  <2>5. Grow(s.data, "path", s.field, i)["schema"] = s.data["schema"]
    BY <2>3, <2>4, GrowOther
  <2>6. s.data["schema"].len = 0
    <3>1. Holds(s.data["schema"], UrlFirst(t)["schema"], Upto(0, UrlLast(t)["schema"]))
      BY <1>4, <2>4 DEF GoodScan, Held
    <3>2. UrlFirst(t)["schema"] = 1 /\ UrlLast(t)["schema"] \in Int
      BY <2>4, UrlRanges
    <3>3. ~(1 <= Upto(0, UrlLast(t)["schema"]))
      BY <3>2 DEF Upto
    <3> QED
      BY <3>1, <3>2, <3>3 DEF Holds
  <2> QED
    BY <1>2, <1>4, <2>2, <2>5, <2>6 DEF LostScan
<1> QED
  BY <1>1, <1>3, <1>4

\* After it.
LEMMA ScanStaysLost ==
    ASSUME NEW t \in Seq(STRING), NEW i \in 1..Len(t), NEW s \in Scans, LostScan(s)
    PROVE  LostScan(ScanNext(t, s, i))
<1> DEFINE ch == t[i]
           reached == parse_url_char(s.state, ch)
           Lost == {"path"} \cup Query \cup Fragment
<1>1. ScanNext(t, s, i).state = reached
  BY DEF ScanNext
<1>2. CASE s.state = "dead"
  <2>1. reached = "dead"
    BY <1>2, Url_dead
  <2> QED
    BY <1>1, <2>1 DEF LostScan
<1>3. CASE s.state # "dead" /\ s.state \in Lost /\ s.data["schema"].len = 0
  <2> HIDE DEF ch
  <2>1. \A x \in Lost : parse_url_char(x, ch) \in Lost \cup {"dead"}
    BY Url_path, Url_query_string_start, Url_query_string, Url_fragment_start, Url_fragment
       DEF Query, Fragment
  <2>2. reached \in Lost \cup {"dead"}
    BY <1>3, <2>1
  <2>3. FieldOf(reached) # "schema" /\ FieldOf(reached) \in Fields \cup {"none"}
    BY <2>2, FieldIs DEF FieldOf, Query, Fragment
  <2>4. ScanNext(t, s, i).data =
          IF FieldOf(reached) = "none" THEN s.data ELSE Grow(s.data, FieldOf(reached), s.field, i)
    BY DEF ScanNext, ch
  <2>5. s.data \in [Fields -> Part] /\ i \in Nat
    BY DEF Scans
  <2>6. ScanNext(t, s, i).data["schema"] = s.data["schema"]
    <3>1. "schema" \in Fields
      BY DEF Fields
    <3>2. CASE FieldOf(reached) = "none"
      BY <2>4, <3>2
    <3>3. CASE FieldOf(reached) # "none"
      <4> DEFINE f == FieldOf(reached)
      <4>1. f \in Fields /\ "schema" \in Fields \ {f}
        BY <2>3, <3>1, <3>3
      <4> HIDE DEF f
      <4>3. Grow(s.data, f, s.field, i)["schema"] = s.data["schema"]
        BY <2>5, <4>1, GrowOther
      <4> QED
        BY <2>4, <3>3, <4>3 DEF f
    <3> QED
      BY <3>2, <3>3
  <2> QED
    BY <1>1, <1>3, <2>2, <2>6 DEF LostScan
<1> QED
  BY <1>2, <1>3 DEF LostScan

Conforming(t, i) == \A j \in 1..i : Conforms(t, j)

\* The whole scan: every field has its range, or no schema is found.
LEMMA UrlScanned ==
    ASSUME NEW t \in Seq(STRING)
    PROVE  /\ UrlScan(t) \in Scans
           /\ Conforming(t, Len(t)) => GoodScan(t, UrlScan(t), Len(t))
           /\ ~Conforming(t, Len(t)) => LostScan(UrlScan(t))
<1> DEFINE n == Len(t)
<1>1. n \in Nat
  OBVIOUS
<1>2. PICK at : /\ at \in [0..n -> Scans]
                /\ at[0] = ScanFirst
                /\ \A i \in 1..n : at[i] = ScanNext(t, at[i - 1], i)
                /\ UrlScan(t) = at[n]
  BY ScanRuns
<1> DEFINE S == {i \in 0..n : IF Conforming(t, i) THEN GoodScan(t, at[i], i) ELSE LostScan(at[i])}
<1>3. 0 \in S
  BY <1>1, <1>2, ScanStarts DEF Conforming
<1>4. ASSUME NEW i \in 1..n, i - 1 \in S PROVE i \in S
  <2>1. at[i] = ScanNext(t, at[i - 1], i) /\ at[i - 1] \in Scans
    BY <1>1, <1>2
  <2>2. Conforming(t, i) <=> Conforming(t, i - 1) /\ Conforms(t, i)
    BY DEF Conforming
  <2>3. CASE Conforming(t, i)
    <3>1. GoodScan(t, at[i - 1], i - 1) /\ Conforms(t, i) /\ (i > 1 => Conforms(t, i - 1))
      BY <1>4, <2>2, <2>3 DEF Conforming
    <3> QED
      BY <2>1, <2>3, <3>1, ScanGoesOn
  <2>4. CASE ~Conforming(t, i) /\ Conforming(t, i - 1)
    <3>1. GoodScan(t, at[i - 1], i - 1) /\ ~Conforms(t, i) /\ (i > 1 => Conforms(t, i - 1))
      BY <1>4, <2>2, <2>4 DEF Conforming
    <3>2. LostScan(ScanNext(t, at[i - 1], i))
      BY <2>1, <3>1, ScanGetsLost
    <3> QED
      BY <2>1, <2>4, <3>2
  <2>5. CASE ~Conforming(t, i - 1)
    <3>1. LostScan(ScanNext(t, at[i - 1], i))
      BY <1>4, <2>1, <2>5, ScanStaysLost
    <3> QED
      BY <2>1, <2>2, <2>5, <3>1
  <2> QED
    BY <2>3, <2>4, <2>5
<1>5. \A i \in 0..n : i \in S
  <2> HIDE DEF S, n
  <2> QED
    BY <1>1, <1>3, <1>4, UpTo
<1>6. n \in 0..n
  BY <1>1
<1>7. IF Conforming(t, n) THEN GoodScan(t, at[n], n) ELSE LostScan(at[n])
  BY <1>5, <1>6
<1> QED
  BY <1>2, <1>6, <1>7

-----------------------------------------------------------------------------
(* Parts of a text.                                                         *)

\* What a part of a text is.
LEMMA PartIs ==
    ASSUME NEW t \in Seq(STRING), NEW a \in Nat \ {0}, NEW b \in Int, b <= Len(t)
    PROVE  /\ SubSeq(t, a, b) \in Seq(STRING)
           /\ Len(SubSeq(t, a, b)) = IF a <= b THEN b - a + 1 ELSE 0
           /\ \A k \in 1..b - a + 1 : SubSeq(t, a, b)[k] = t[a + k - 1]
<1>1. \A i \in a..b : t[i] \in STRING
  OBVIOUS
<1>2. a \in Int
  OBVIOUS
<1> QED
  BY <1>1, <1>2, SubSeqProperties

LEMMA PartEmpty ==
    ASSUME NEW t \in Seq(STRING), NEW a \in Nat \ {0}, NEW b \in Int, b <= Len(t)
    PROVE  SubSeq(t, a, b) = <<>> <=> b < a
<1>1. CASE b < a
  BY <1>1, SubSeqEmpty
<1>2. CASE a <= b
  <2>1. Len(SubSeq(t, a, b)) = b - a + 1
    BY <1>2, PartIs
  <2>2. Len(<<>>) = 0
    OBVIOUS
  <2> QED
    BY <1>2, <2>1, <2>2
<1> QED
  BY <1>1, <1>2

LEMMA PartHead ==
    ASSUME NEW t \in Seq(STRING), NEW a \in Nat \ {0}, NEW b \in Int, b <= Len(t), a <= b
    PROVE  Head(SubSeq(t, a, b)) = t[a] /\ Tail(SubSeq(t, a, b)) = SubSeq(t, a + 1, b)
<1>1. a \in 1..Len(t) /\ b \in a..Len(t)
  OBVIOUS
<1> QED
  BY <1>1, HeadTailOfSubSeq

LEMMA PartAllIn ==
    ASSUME NEW t \in Seq(STRING), NEW a \in Nat \ {0}, NEW b \in Int, b <= Len(t), NEW chars
    PROVE  AllIn(SubSeq(t, a, b), chars) <=> \A n \in a..b : t[n] \in chars
<1> DEFINE r == SubSeq(t, a, b)
<1>1. /\ r \in Seq(STRING) /\ Len(r) = IF a <= b THEN b - a + 1 ELSE 0
      /\ \A k \in 1..b - a + 1 : r[k] = t[a + k - 1]
  BY PartIs
<1> HIDE DEF r
<1>2. DOMAIN r = 1..Len(r)
  BY <1>1
<1>3. ASSUME AllIn(r, chars), NEW n \in a..b PROVE t[n] \in chars
  <2>1. n - a + 1 \in 1..b - a + 1 /\ n - a + 1 \in DOMAIN r /\ a + (n - a + 1) - 1 = n
    BY <1>1, <1>2
  <2>2. r[n - a + 1] \in chars
    BY <1>3, <2>1 DEF AllIn
  <2> QED
    BY <1>1, <2>1, <2>2
<1>4. ASSUME \A n \in a..b : t[n] \in chars PROVE AllIn(r, chars)
  <2>1. ASSUME NEW k \in DOMAIN r PROVE r[k] \in chars
    <3>1. k \in 1..b - a + 1 /\ a + k - 1 \in a..b
      BY <1>1, <1>2
    <3> QED
      BY <1>1, <1>4, <3>1
  <2> QED
    BY <2>1 DEF AllIn
<1> QED
  BY <1>3, <1>4 DEF r

LEMMA PartOfPart ==
    ASSUME NEW t \in Seq(STRING), NEW i \in Nat \ {0}, NEW j \in Int, j <= Len(t),
           NEW x \in Nat \ {0}, NEW y \in Int, i - 1 <= j, y <= j - i + 1
    PROVE  SubSeq(SubSeq(t, i, j), x, y) = SubSeq(t, i + x - 1, i + y - 1)
<1> DEFINE r == SubSeq(t, i, j)
<1>1. r \in Seq(STRING) /\ Len(r) = j - i + 1
  BY PartIs
<1>2. i + x - 1 \in Nat \ {0} /\ i + y - 1 \in Int /\ i + y - 1 <= Len(t)
  OBVIOUS
<1>3. CASE y < x
  <2>1. i + y - 1 < i + x - 1
    BY <1>3
  <2>2. SubSeq(r, x, y) = <<>>
    BY <1>3, SubSeqEmpty
  <2>3. SubSeq(t, i + x - 1, i + y - 1) = <<>>
    BY <1>2, <2>1, SubSeqEmpty
  <2> QED
    BY <2>2, <2>3
<1>4. CASE x <= y
  <2>1. i \in 1..Len(t) /\ j \in 1..Len(t) /\ x \in 1..j - i + 1 /\ y \in 1..j - i + 1
    BY <1>4
  <2> QED
    BY <2>1, SubSeqOfSubSeq
<1> QED
  BY <1>3, <1>4

-----------------------------------------------------------------------------
(* A server: the user info ends at the first "@", the host at "]" or ":".   *)

AtSign(s) == FirstOf(s, 1, {"@"})
HasUser(s) == AtSign(s) <= Len(s)
HostOn(s) == IF HasUser(s) THEN AtSign(s) + 1 ELSE 1
V6(s) == HostOn(s) <= Len(s) /\ s[HostOn(s)] = "["
HostEnd(s) == FirstOf(s, HostOn(s), IF V6(s) THEN {"]"} ELSE {":"})
HostBegin(s) == IF V6(s) THEN HostOn(s) + 1 ELSE HostOn(s)
PortMark(s) == IF V6(s) THEN HostEnd(s) + 1 ELSE HostEnd(s)

\* Where the parts of a server end.
LEMMA ServerMarks ==
    ASSUME NEW s \in Seq(STRING)
    PROVE  /\ Len(s) \in Nat
           /\ AtSign(s) \in 1..Len(s) + 1
           /\ AtSign(s) <= Len(s) => s[AtSign(s)] = "@"
           /\ \A j \in 1..AtSign(s) - 1 : s[j] # "@"
           /\ HostOn(s) \in 1..Len(s) + 1
           /\ HasUser(s) => HostOn(s) = AtSign(s) + 1
           /\ ~HasUser(s) => HostOn(s) = 1
           /\ HostEnd(s) \in HostBegin(s)..Len(s) + 1
           /\ HostEnd(s) <= Len(s) => s[HostEnd(s)] = IF V6(s) THEN "]" ELSE ":"
           /\ \A j \in HostBegin(s)..HostEnd(s) - 1 : s[j] # IF V6(s) THEN "]" ELSE ":"
<1>0. Len(s) \in Nat /\ 1 \in Nat \ {0}
  OBVIOUS
<1>1. /\ AtSign(s) \in 1..Len(s) + 1
      /\ AtSign(s) <= Len(s) => s[AtSign(s)] \in {"@"}
      /\ \A j \in 1..AtSign(s) - 1 : s[j] \notin {"@"}
  BY <1>0, FirstIs DEF AtSign
<1>2. HostOn(s) \in 1..Len(s) + 1
  BY <1>0, <1>1 DEF HostOn, HasUser
<1> DEFINE b == HostOn(s)
           chars == IF V6(s) THEN {"]"} ELSE {":"}
           e == FirstOf(s, b, chars)
<1>3. HostEnd(s) = e
  BY DEF HostEnd
<1>4. /\ e \in 1..Len(s) + 1
      /\ e <= Len(s) => s[e] \in chars
      /\ e = Len(s) + 1 \/ e >= b
      /\ \A q \in b..e - 1 : s[q] \notin chars
  <2> HIDE DEF b, chars
  <2>1. b \in Nat \ {0}
    BY <1>0, <1>2 DEF b
  <2> QED
    BY <2>1, FirstIs
<1> HIDE DEF e
<1>5. CASE V6(s)
  <2>1. b <= Len(s) /\ s[b] = "[" /\ HostBegin(s) = b + 1 /\ chars = {"]"}
    BY <1>5 DEF V6, HostBegin
  <2>2. e # b
    BY <1>4, <2>1
  <2>3. e \in b + 1..Len(s) + 1
    BY <1>0, <1>2, <1>4, <2>1, <2>2
  <2>4. \A j \in b + 1..e - 1 : s[j] # "]"
    BY <1>2, <1>4, <2>1, SMTT(30)
  <2>5. e <= Len(s) => s[e] = "]"
    BY <1>4, <2>1
  <2> HIDE DEF b, chars
  <2> QED
    BY <1>0, <1>1, <1>2, <1>3, <1>5, <2>1, <2>3, <2>4, <2>5 DEF HostOn, HasUser
<1>6. CASE ~V6(s)
  <2>1. HostBegin(s) = b /\ chars = {":"}
    BY <1>6 DEF HostBegin
  <2>3. e \in b..Len(s) + 1
    BY <1>0, <1>2, <1>4
  <2>4. \A j \in b..e - 1 : s[j] # ":"
    BY <1>4, <2>1
  <2>5. e <= Len(s) => s[e] = ":"
    BY <1>4, <2>1
  <2> HIDE DEF b, chars
  <2> QED
    BY <1>0, <1>1, <1>2, <1>3, <1>6, <2>1, <2>3, <2>4, <2>5 DEF HostOn, HasUser
<1> QED
  BY <1>5, <1>6

ServerHostChar(s) == IF V6(s) THEN Hex \cup {":", "."} ELSE HostChar

\* The reference, in terms of these positions.
LEMMA SplitIs ==
    ASSUME NEW s \in Seq(STRING)
    PROVE  /\ SplitServer(s).userinfo = IF HasUser(s) THEN SubSeq(s, 1, AtSign(s) - 1) ELSE <<>>
           /\ SplitServer(s).host = SubSeq(s, HostBegin(s), HostEnd(s) - 1)
           /\ SplitServer(s).port = Without(SubSeq(s, PortMark(s), Len(s)), ":")
           /\ SplitServer(s).ok <=>
                /\ HostBegin(s) < HostEnd(s)
                /\ \A n \in HostBegin(s)..HostEnd(s) - 1 : s[n] \in ServerHostChar(s)
                /\ V6(s) => HostEnd(s) <= Len(s)
                /\ PortMark(s) <= Len(s) =>
                     /\ s[PortMark(s)] = ":" /\ PortMark(s) < Len(s)
                     /\ \A n \in PortMark(s) + 1..Len(s) : s[n] \in Num
<1> DEFINE m == Len(s)
           A == AtSign(s)
           B == HostOn(s)
           E == HostEnd(s)
           rest == IF FirstOf(s, 1, {"@"}) > Len(s) THEN s ELSE SubSeq(s, FirstOf(s, 1, {"@"}) + 1, Len(s))
           r == SubSeq(s, B, m)
<1>0. /\ m \in Nat /\ A \in 1..m + 1 /\ B \in 1..m + 1
      /\ HasUser(s) => B = A + 1
      /\ ~HasUser(s) => B = 1
      /\ E \in HostBegin(s)..m + 1
  BY ServerMarks
<1>1. rest = r
  <2>1. HasUser(s) <=> ~(FirstOf(s, 1, {"@"}) > Len(s))
    BY <1>0 DEF HasUser, AtSign
  <2>2. CASE HasUser(s)
    BY <1>0, <2>1, <2>2 DEF AtSign
  <2>3. CASE ~HasUser(s)
    <3>1. SubSeq(s, 1, Len(s)) = s
      BY SubSeqFull
    <3> QED
      BY <1>0, <2>1, <2>3, <3>1
  <2> QED
    BY <2>2, <2>3
<1>2. /\ r \in Seq(STRING) /\ Len(r) = m - B + 1
      /\ r # <<>> <=> B <= m
      /\ B <= m => Head(r) = s[B]
  <2>1. B \in Nat \ {0} /\ m \in Int /\ m <= Len(s) /\ B <= m + 1
    BY <1>0
  <2>2. r \in Seq(STRING) /\ Len(r) = m - B + 1
    BY <2>1, PartIs
  <2>3. r # <<>> <=> B <= m
    <3> HIDE DEF B, m
    <3>1. SubSeq(s, B, m) = <<>> <=> m < B
      BY <2>1, PartEmpty
    <3> QED
      BY <2>1, <3>1
  <2>4. B <= m => Head(r) = s[B]
    BY <2>1, PartHead
  <2> QED
    BY <2>2, <2>3, <2>4
<1>3. r # <<>> /\ Head(r) = "[" <=> V6(s)
  BY <1>2 DEF V6
<1>4. \A chars : FirstOf(r, 1, chars) = FirstOf(s, B, chars) - (B - 1)
  BY <1>0, FirstInRest
<1> DEFINE close == FirstOf(r, 1, {"]"})
           host == IF V6(s) THEN SubSeq(r, 2, close - 1) ELSE SubSeq(r, 1, FirstOf(r, 1, {":"}) - 1)
           after == SubSeq(r, Len(host) + (IF V6(s) THEN 3 ELSE 1), Len(r))
<1>5. SplitServer(s) =
        [userinfo |-> IF FirstOf(s, 1, {"@"}) > Len(s) THEN <<>> ELSE SubSeq(s, 1, FirstOf(s, 1, {"@"}) - 1),
         host |-> host,
         port |-> Without(after, ":"),
         ok   |-> /\ host # <<>> /\ AllIn(host, IF V6(s) THEN Hex \cup {":", "."} ELSE HostChar)
                  /\ V6(s) => close <= Len(r)
                  /\ after # <<>> => Head(after) = ":" /\ Len(after) > 1 /\ AllIn(Tail(after), Num)]
  <2> HIDE DEF r, rest
  <2>1. SplitServer(s) =
          LET v6 == rest # <<>> /\ Head(rest) = "["
              c2 == FirstOf(rest, 1, {"]"})
              h2 == IF v6 THEN SubSeq(rest, 2, c2 - 1) ELSE SubSeq(rest, 1, FirstOf(rest, 1, {":"}) - 1)
              a2 == SubSeq(rest, Len(h2) + (IF v6 THEN 3 ELSE 1), Len(rest))
          IN [userinfo |-> IF FirstOf(s, 1, {"@"}) > Len(s) THEN <<>> ELSE SubSeq(s, 1, FirstOf(s, 1, {"@"}) - 1),
              host |-> h2,
              port |-> Without(a2, ":"),
              ok   |-> /\ h2 # <<>> /\ AllIn(h2, IF v6 THEN Hex \cup {":", "."} ELSE HostChar)
                       /\ v6 => c2 <= Len(rest)
                       /\ a2 # <<>> => Head(a2) = ":" /\ Len(a2) > 1 /\ AllIn(Tail(a2), Num)]
    BY Zenon DEF SplitServer, rest
  <2> QED
    BY <1>1, <1>3, <2>1, Zenon
<1> HIDE DEF rest
<1>6. /\ V6(s) => close = E - (B - 1)
      /\ ~V6(s) => FirstOf(r, 1, {":"}) = E - (B - 1)
  BY <1>4 DEF HostEnd
<1>7. /\ host = SubSeq(s, HostBegin(s), E - 1)
      /\ Len(host) = E - HostBegin(s)
  <2> HIDE DEF A, B, E, m, close
  <2>1. B \in Nat \ {0} /\ m \in Int /\ m <= Len(s) /\ B - 1 <= m
    BY <1>0 DEF m
  <2>2. CASE V6(s)
    <3>1. E - (B - 1) - 1 \in Int /\ E - (B - 1) - 1 <= m - B + 1 /\ 2 \in Nat \ {0}
      BY <1>0, <2>1, <2>2 DEF HostBegin
    <3>2. SubSeq(SubSeq(s, B, m), 2, E - (B - 1) - 1) = SubSeq(s, B + 2 - 1, B + (E - (B - 1) - 1) - 1)
      BY <2>1, <3>1, PartOfPart, SMTT(30)
    <3>3. B + 2 - 1 = B + 1 /\ B + (E - (B - 1) - 1) - 1 = E - 1 /\ HostBegin(s) = B + 1
      BY <1>0, <2>1, <2>2 DEF HostBegin, B
    <3>4. host = SubSeq(s, B + 1, E - 1)
      BY <1>6, <2>2, <3>2, <3>3 DEF close
    <3>5. B + 1 \in Nat \ {0} /\ E - 1 \in Int /\ E - 1 <= Len(s) /\ E - 1 >= B
      BY <1>0, <2>1, <3>3 DEF m
    <3>6. Len(SubSeq(s, B + 1, E - 1)) = IF B + 1 <= E - 1 THEN E - 1 - (B + 1) + 1 ELSE 0
      BY <3>5, PartIs
    <3>7. Len(SubSeq(s, B + 1, E - 1)) = E - (B + 1)
      BY <1>0, <2>1, <3>3, <3>5, <3>6
    <3> QED
      BY <3>3, <3>4, <3>7
  <2>3. CASE ~V6(s)
    <3>1. E - (B - 1) - 1 \in Int /\ E - (B - 1) - 1 <= m - B + 1 /\ 1 \in Nat \ {0}
      BY <1>0, <2>1, <2>3 DEF HostBegin
    <3>2. SubSeq(SubSeq(s, B, m), 1, E - (B - 1) - 1) = SubSeq(s, B + 1 - 1, B + (E - (B - 1) - 1) - 1)
      BY <2>1, <3>1, PartOfPart
    <3>3. B + 1 - 1 = B /\ B + (E - (B - 1) - 1) - 1 = E - 1 /\ HostBegin(s) = B
      BY <1>0, <2>1, <2>3 DEF HostBegin, B
    <3>4. host = SubSeq(s, B, E - 1)
      BY <1>6, <2>3, <3>2, <3>3
    <3>5. E - 1 \in Int /\ E - 1 <= Len(s) /\ E >= B
      BY <1>0, <2>1, <3>3 DEF m
    <3>6. Len(SubSeq(s, B, E - 1)) = IF B <= E - 1 THEN E - 1 - B + 1 ELSE 0
      BY <2>1, <3>5, PartIs
    <3>7. Len(SubSeq(s, B, E - 1)) = E - B
      BY <1>0, <2>1, <3>3, <3>5, <3>6
    <3> QED
      BY <3>3, <3>4, <3>7
  <2> QED
    BY <2>2, <2>3
<1> HIDE DEF host
<1>8. after = SubSeq(s, PortMark(s), m)
  <2> DEFINE x == Len(host) + (IF V6(s) THEN 3 ELSE 1)
  <2>1. x = PortMark(s) - B + 1 /\ x \in Nat \ {0}
    BY <1>0, <1>7, SMTT(30) DEF PortMark, HostBegin
  <2>2. B \in Nat \ {0} /\ m \in Int /\ m <= Len(s) /\ B - 1 <= m /\ m - B + 1 \in Int
    BY <1>0
  <2>3. PortMark(s) \in Int
    BY <1>0 DEF PortMark, HostBegin
  <2> HIDE DEF x, B, m
  <2>4. SubSeq(SubSeq(s, B, m), x, m - B + 1) = SubSeq(s, B + x - 1, B + (m - B + 1) - 1)
    <3> DEFINE y == m - B + 1
    <3>1. y \in Int /\ y <= m - B + 1 /\ x \in Nat \ {0}
      BY <2>1, <2>2
    <3> HIDE DEF y
    <3>2. SubSeq(SubSeq(s, B, m), x, y) = SubSeq(s, B + x - 1, B + y - 1)
      BY <2>2, <3>1, PartOfPart
    <3> QED
      BY <3>2 DEF y
  <2>5. B + x - 1 = PortMark(s) /\ B + (m - B + 1) - 1 = m
    BY <2>1, <2>2, <2>3
  <2>6. after = SubSeq(r, x, m - B + 1)
    BY <1>2 DEF x
  <2> QED
    BY <2>4, <2>5, <2>6
<1> HIDE DEF after, r, close
<1>9. SplitServer(s).userinfo = IF HasUser(s) THEN SubSeq(s, 1, AtSign(s) - 1) ELSE <<>>
  BY <1>0, <1>5 DEF HasUser, AtSign
<1>10. SplitServer(s).host = SubSeq(s, HostBegin(s), HostEnd(s) - 1)
  <2>1. SplitServer(s).host = host
    BY <1>5
  <2> QED
    BY <1>7, <2>1
<1>11. SplitServer(s).port = Without(SubSeq(s, PortMark(s), Len(s)), ":")
  BY <1>5, <1>8
<1>12. SplitServer(s).ok <=> /\ host # <<>> /\ AllIn(host, ServerHostChar(s))
                             /\ V6(s) => close <= Len(r)
                             /\ after # <<>> => Head(after) = ":" /\ Len(after) > 1 /\ AllIn(Tail(after), Num)
  BY <1>5 DEF ServerHostChar
<1>13. HostBegin(s) \in Nat \ {0} /\ E - 1 \in Int /\ E - 1 <= Len(s) /\ E \in Int /\ HostBegin(s) <= E
  BY <1>0 DEF HostBegin
<1>14. host # <<>> <=> HostBegin(s) < E
  <2> HIDE DEF E
  <2>1. SubSeq(s, HostBegin(s), E - 1) = <<>> <=> E - 1 < HostBegin(s)
    BY <1>13, PartEmpty
  <2> QED
    BY <1>7, <1>13, <2>1
<1>15. AllIn(host, ServerHostChar(s)) <=> \A n \in HostBegin(s)..E - 1 : s[n] \in ServerHostChar(s)
  <2> HIDE DEF E
  <2> QED
    BY <1>7, <1>13, PartAllIn
<1>16. V6(s) => (close <= Len(r) <=> E <= m)
  <2> HIDE DEF A, B, E, m
  <2>1. B \in Int /\ m \in Int /\ E \in Int
    BY <1>0, <1>13
  <2> QED
    BY <1>2, <1>6, <2>1
<1>17. PortMark(s) \in Nat \ {0} /\ m \in Int /\ m <= Len(s)
  BY <1>0, <1>13 DEF PortMark
<1>18. after # <<>> <=> PortMark(s) <= m
  BY <1>8, <1>17, PartEmpty
<1>19. PortMark(s) <= m =>
         /\ Head(after) = s[PortMark(s)]
         /\ Len(after) > 1 <=> PortMark(s) < m
         /\ AllIn(Tail(after), Num) <=> \A n \in PortMark(s) + 1..m : s[n] \in Num
  <2> SUFFICES ASSUME PortMark(s) <= m
               PROVE  /\ Head(after) = s[PortMark(s)]
                      /\ Len(after) > 1 <=> PortMark(s) < m
                      /\ AllIn(Tail(after), Num) <=> \A n \in PortMark(s) + 1..m : s[n] \in Num
    OBVIOUS
  <2>1. Head(after) = s[PortMark(s)] /\ Tail(after) = SubSeq(s, PortMark(s) + 1, m)
    BY <1>8, <1>17, PartHead
  <2>2. Len(after) = m - PortMark(s) + 1
    BY <1>8, <1>17, PartIs
  <2>3. PortMark(s) + 1 \in Nat \ {0}
    BY <1>17
  <2>4. AllIn(SubSeq(s, PortMark(s) + 1, m), Num) <=> \A n \in PortMark(s) + 1..m : s[n] \in Num
    BY <1>17, <2>3, PartAllIn
  <2>5. AllIn(Tail(after), Num) <=> \A n \in PortMark(s) + 1..m : s[n] \in Num
    BY <2>1, <2>4
  <2>6. Len(after) > 1 <=> PortMark(s) < m
    BY <1>17, <2>2
  <2> QED
    BY <2>1, <2>5, <2>6
<1> QED
  BY <1>9, <1>10, <1>11, <1>12, <1>14, <1>15, <1>16, <1>18, <1>19

-----------------------------------------------------------------------------
(* The scan of the server.                                                  *)

HostScans == [state : HostStates, data : [Fields -> Part]]
HostScanFirst(data, foundAt) ==
    [state |-> IF foundAt THEN "userinfo_start" ELSE "host_start",
     data |-> [data EXCEPT !["host"].len = 0]]
HostScanNext(text, off, before, n) ==
    LET i == off + n - 1
        s == http_parse_host_char(before.state, text[i])
        f == HostField(s)
    IN [state |-> s,
        data |-> IF f = "none" THEN before.data
                 ELSE Grow(before.data, f, HostField(before.state), i)]

LEMMA HostScanFirstIs ==
    ASSUME NEW data \in [Fields -> Part], NEW foundAt \in BOOLEAN
    PROVE  /\ HostScanFirst(data, foundAt) \in HostScans
           /\ HostScanFirst(data, foundAt).state = IF foundAt THEN "userinfo_start" ELSE "host_start"
           /\ HostScanFirst(data, foundAt).data["host"].len = 0
           /\ \A g \in Fields \ {"host"} : HostScanFirst(data, foundAt).data[g] = data[g]
<1> DEFINE d == [data EXCEPT !["host"].len = 0]
           s == IF foundAt THEN "userinfo_start" ELSE "host_start"
<1>1. "host" \in Fields
  BY DEF Fields
<1> HIDE DEF Fields
<1>2. data["host"] \in Part
  BY <1>1
<1>3. [data["host"] EXCEPT !.len = 0] = [off |-> data["host"].off, len |-> 0]
  BY <1>2 DEF Part
<1>4. d = [data EXCEPT !["host"] = [off |-> data["host"].off, len |-> 0]]
  BY <1>3
<1>5. [off |-> data["host"].off, len |-> 0] \in Part
  BY <1>2 DEF Part
<1>6. /\ d \in [Fields -> Part] /\ d["host"].len = 0
      /\ \A g \in Fields \ {"host"} : d[g] = data[g]
  BY <1>1, <1>4, <1>5
<1>7. s \in HostStates
  BY DEF HostStates
<1>8. HostScanFirst(data, foundAt) = [state |-> s, data |-> d]
  BY DEF HostScanFirst
<1> HIDE DEF d, s
<1>9. HostScanFirst(data, foundAt) \in HostScans
  BY <1>6, <1>7, <1>8 DEF HostScans
<1> QED
  BY <1>6, <1>8, <1>9 DEF s

LEMMA HostScanTypes ==
    ASSUME NEW text, NEW off \in Nat \ {0}, NEW before \in HostScans, NEW n \in Nat \ {0}
    PROVE  HostScanNext(text, off, before, n) \in HostScans
<1> DEFINE i == off + n - 1
           s == http_parse_host_char(before.state, text[i])
           f == HostField(s)
           d == IF f = "none" THEN before.data ELSE Grow(before.data, f, HostField(before.state), i)
<1>1. before.data \in [Fields -> Part] /\ i \in Nat
  BY DEF HostScans
<1>2. s \in HostStates
  BY NextIs
<1>3. f \in Fields \cup {"none"}
  BY FieldIs
<1> HIDE DEF s, f, i
<1>4. d \in [Fields -> Part]
  BY <1>1, <1>3, GrowType
<1>5. HostScanNext(text, off, before, n) = [state |-> s, data |-> d]
  BY DEF HostScanNext, s, f, i
<1> HIDE DEF d
<1> QED
  BY <1>2, <1>4, <1>5 DEF HostScans

\* http_parse_host is such a function of the position.
LEMMA HostRuns ==
    ASSUME NEW text \in Seq(STRING), NEW data \in [Fields -> Part], data["host"].off # 0,
           NEW foundAt \in BOOLEAN
    PROVE  \E at : /\ at \in [0..data["host"].len -> HostScans]
                   /\ at[0] = HostScanFirst(data, foundAt)
                   /\ \A n \in 1..data["host"].len :
                         at[n] = HostScanNext(text, data["host"].off, at[n - 1], n)
                   /\ http_parse_host(text, data, foundAt) = at[data["host"].len]
<1> DEFINE m == data["host"].len
           off == data["host"].off
           first == HostScanFirst(data, foundAt)
           G == [x \in HostScans \X (1..m) |-> HostScanNext(text, off, x[1], x[2])]
           IsFold(f) == f = [n \in 0..m |-> IF n = 0 THEN first ELSE HostScanNext(text, off, f[n - 1], n)]
<1>1. m \in Nat /\ off \in Nat \ {0}
  <2>1. "host" \in Fields
    BY DEF Fields
  <2> HIDE DEF Fields
  <2>2. data["host"] \in Part
    BY <2>1
  <2> QED
    BY <2>2 DEF Part
<1>2. http_parse_host(text, data, foundAt) = (CHOOSE f : IsFold(f))[m]
  BY DEF http_parse_host, HostScanFirst, HostScanNext
<1>3. first \in HostScans
  BY HostScanFirstIs
<1> HIDE DEF m, off, first
<1>4. G \in [HostScans \X (1..m) -> HostScans]
  <2>1. ASSUME NEW x \in HostScans \X (1..m) PROVE HostScanNext(text, off, x[1], x[2]) \in HostScans
    <3>1. x[1] \in HostScans /\ x[2] \in Nat \ {0}
      BY <1>1
    <3> QED
      BY <1>1, <3>1, HostScanTypes
  <2> QED
    BY <2>1
<1>5. \A v \in HostScans, i \in 1..m : G[<<v, i>>] = HostScanNext(text, off, v, i)
  OBVIOUS
<1> HIDE DEF G
<1>6. PICK f : IsRun(f, m, HostScans, first, G)
  BY <1>1, <1>3, <1>4, Iterates
<1>7. IsFold(f)
  <2>1. ASSUME NEW n \in 0..m
        PROVE  f[n] = IF n = 0 THEN first ELSE HostScanNext(text, off, f[n - 1], n)
    <3>1. CASE n = 0
      BY <1>6, <3>1 DEF IsRun
    <3>2. CASE n # 0
      <4>1. n \in 1..m /\ f[n - 1] \in HostScans
        BY <1>1, <1>6, <3>2 DEF IsRun
      <4>2. f[n] = G[<<f[n - 1], n>>]
        BY <1>6, <3>2 DEF IsRun
      <4> QED
        BY <1>5, <3>2, <4>1, <4>2
    <3> QED
      BY <3>1, <3>2
  <2> QED
    BY <1>6, <2>1 DEF IsRun
<1> DEFINE at == CHOOSE g : IsFold(g)
<1>8. IsFold(at)
  <2> HIDE DEF IsFold
  <2> QED
    BY <1>7
<1>9. \A n \in 0..m : at[n] = IF n = 0 THEN first ELSE HostScanNext(text, off, at[n - 1], n)
  <2> HIDE DEF at
  <2> QED
    BY <1>8
<1>10. http_parse_host(text, data, foundAt) = at[m]
  BY <1>2
<1>11. DOMAIN at = 0..m /\ at = [n \in 0..m |-> at[n]]
  <2> HIDE DEF at
  <2> QED
    BY <1>8
<1> HIDE DEF at
<1>12. \A i \in 0..m : at[i] \in HostScans
  <2> DEFINE S == {i \in 0..m : at[i] \in HostScans}
  <2>1. 0 \in S
    BY <1>1, <1>3, <1>9
  <2>2. ASSUME NEW i \in 1..m, i - 1 \in S PROVE i \in S
    <3>1. at[i] = HostScanNext(text, off, at[i - 1], i) /\ at[i - 1] \in HostScans /\ i \in Nat \ {0}
      BY <1>1, <1>9, <2>2
    <3> QED
      BY <1>1, <3>1, HostScanTypes
  <2>3. \A i \in 0..m : i \in S
    <3> HIDE DEF S
    <3> QED
      BY <1>1, <2>1, <2>2, UpTo
  <2> QED
    BY <2>3
<1>13. at \in [0..m -> HostScans]
  BY <1>11, <1>12
<1>14. at[0] = first /\ \A n \in 1..m : at[n] = HostScanNext(text, off, at[n - 1], n)
  BY <1>1, <1>9
<1> QED
  BY <1>10, <1>13, <1>14 DEF m, off, first

\* What may stand at position n of a server, if nothing before it was wrong.
HostConforms(s, n) ==
    IF HasUser(s) /\ n < AtSign(s) THEN s[n] \in UserinfoChar
    ELSE IF n < HostBegin(s) THEN TRUE
    ELSE IF n < HostEnd(s) THEN s[n] \in ServerHostChar(s)
    ELSE IF n = HostEnd(s) THEN HostBegin(s) < n
    ELSE IF n = PortMark(s) THEN s[n] = ":"
    ELSE s[n] \in Num

\* The state after n characters of which none is wrong.
HostStateAt(s, n) ==
    IF HasUser(s) /\ n < AtSign(s) THEN IF n = 0 THEN "userinfo_start" ELSE "userinfo"
    ELSE IF n < HostOn(s) THEN "host_start"
    ELSE IF n < HostBegin(s) THEN "v6_start"
    ELSE IF n < HostEnd(s) THEN IF V6(s) THEN "v6" ELSE "host"
    ELSE IF n < PortMark(s) THEN "v6_end"
    ELSE IF n = PortMark(s) THEN "port_start" ELSE "port"

LEMMA HostChars ==
    /\ "@" \notin UserinfoChar /\ {":", "[", "]"} \cap HostChar = {}
    /\ "]" \notin Hex \cup {":", "."}
  BY DEF UserinfoChar, HostChar, Hex, Num, Alpha

LEMMA StepUser ==
    ASSUME NEW s \in Seq(STRING), NEW n \in 1..Len(s), HasUser(s), n <= AtSign(s)
    PROVE  IF HostConforms(s, n) THEN http_parse_host_char(HostStateAt(s, n - 1), s[n]) = HostStateAt(s, n)
                                 ELSE http_parse_host_char(HostStateAt(s, n - 1), s[n]) = "host_dead"
<1> DEFINE ch == s[n]
           before == HostStateAt(s, n - 1)
<1>1. /\ AtSign(s) \in Nat \ {0} /\ HostOn(s) = AtSign(s) + 1 /\ s[AtSign(s)] = "@"
      /\ \A j \in 1..AtSign(s) - 1 : s[j] # "@"
      /\ HostOn(s) <= HostBegin(s) /\ HostBegin(s) \in Nat
  BY ServerMarks DEF HostBegin, HasUser
<1>2. before \in {"userinfo_start", "userinfo"}
  BY <1>1 DEF HostStateAt
<1>3. \A x \in {"userinfo_start", "userinfo"} : http_parse_host_char(x, ch) =
        IF ch = "@" THEN "host_start" ELSE IF ch \in UserinfoChar THEN "userinfo" ELSE "host_dead"
  BY Host_userinfo_start, Host_userinfo
<1> HIDE DEF before
<1>4. http_parse_host_char(before, ch) =
        IF ch = "@" THEN "host_start" ELSE IF ch \in UserinfoChar THEN "userinfo" ELSE "host_dead"
  BY <1>2, <1>3
<1>5. CASE n < AtSign(s)
  <2>1. ch # "@" /\ HostStateAt(s, n) = "userinfo" /\ (HostConforms(s, n) <=> ch \in UserinfoChar)
    BY <1>1, <1>5 DEF HostStateAt, HostConforms
  <2> HIDE DEF ch
  <2> QED
    BY <1>4, <2>1 DEF ch, before
<1>6. CASE n = AtSign(s)
  <2>1. ch = "@" /\ HostStateAt(s, n) = "host_start" /\ HostConforms(s, n)
    BY <1>1, <1>6 DEF HostStateAt, HostConforms
  <2> HIDE DEF ch
  <2> QED
    BY <1>4, <2>1 DEF ch, before
<1> QED
  BY <1>1, <1>5, <1>6

LEMMA StepV6 ==
    ASSUME NEW s \in Seq(STRING), NEW n \in 1..Len(s), V6(s), n >= HostOn(s)
    PROVE  IF HostConforms(s, n) THEN http_parse_host_char(HostStateAt(s, n - 1), s[n]) = HostStateAt(s, n)
                                 ELSE http_parse_host_char(HostStateAt(s, n - 1), s[n]) = "host_dead"
<1> DEFINE ch == s[n]
           before == HostStateAt(s, n - 1)
           B == HostOn(s)
           K == HostEnd(s)
<1>1. /\ B \in Nat \ {0} /\ s[B] = "[" /\ HostBegin(s) = B + 1 /\ PortMark(s) = K + 1
      /\ K \in Nat /\ K >= B + 1
      /\ K <= Len(s) => s[K] = "]"
      /\ \A j \in B + 1..K - 1 : s[j] # "]"
      /\ HasUser(s) => AtSign(s) \in Nat /\ B = AtSign(s) + 1
      /\ ~HasUser(s) => B = 1
      /\ ServerHostChar(s) = Hex \cup {":", "."}
  BY ServerMarks DEF HostBegin, PortMark, V6, ServerHostChar
<1>2. n \in Nat /\ n >= B /\ ~(HasUser(s) /\ n < AtSign(s)) /\ n <= Len(s)
  BY <1>1
<1>3. CASE n = B
  <2>1. before = "host_start"
    BY <1>1, <1>3 DEF HostStateAt
  <2>2. ch = "[" /\ HostStateAt(s, n) = "v6_start" /\ HostConforms(s, n)
    BY <1>1, <1>2, <1>3 DEF HostStateAt, HostConforms
  <2> HIDE DEF ch
  <2>3. http_parse_host_char("host_start", ch) = "v6_start"
    BY <2>2, Host_host_start
  <2> QED
    BY <2>1, <2>2, <2>3 DEF ch
<1>4. ~(HasUser(s) /\ n - 1 < AtSign(s)) /\ (n > B => n - 1 >= B)
  BY <1>1, <1>2
<1>5. CASE B < n /\ n < K
  <2>1. before \in {"v6_start", "v6"}
    BY <1>1, <1>2, <1>4, <1>5 DEF HostStateAt
  <2>2. /\ ch # "]" /\ HostStateAt(s, n) = "v6"
        /\ HostConforms(s, n) <=> ch \in Hex \cup {":", "."}
    BY <1>1, <1>2, <1>5 DEF HostStateAt, HostConforms
  <2> HIDE DEF ch, before
  <2>3. \A x \in {"v6_start", "v6"} :
          http_parse_host_char(x, ch) = IF ch \in Hex \cup {":", "."} THEN "v6" ELSE "host_dead"
    BY <2>2, Host_v6_start, Host_v6
  <2>4. http_parse_host_char(before, ch) = IF ch \in Hex \cup {":", "."} THEN "v6" ELSE "host_dead"
    BY <2>1, <2>3
  <2> QED
    BY <2>2, <2>4 DEF ch, before
<1>6. CASE n = K
  <2>1. before = IF n = B + 1 THEN "v6_start" ELSE "v6"
    BY <1>1, <1>2, <1>4, <1>6 DEF HostStateAt
  <2>2. /\ ch = "]" /\ HostStateAt(s, n) = "v6_end"
        /\ HostConforms(s, n) <=> n # B + 1
    BY <1>1, <1>2, <1>6 DEF HostStateAt, HostConforms
  <2> HIDE DEF ch, before
  <2>3. http_parse_host_char("v6_start", ch) = "host_dead" /\ http_parse_host_char("v6", ch) = "v6_end"
    BY <2>2, HostChars, Host_v6_start, Host_v6
  <2> QED
    BY <2>1, <2>2, <2>3 DEF ch, before
<1>7. CASE n = K + 1
  <2>1. before = "v6_end"
    BY <1>1, <1>2, <1>4, <1>7 DEF HostStateAt
  <2>2. HostStateAt(s, n) = "port_start" /\ (HostConforms(s, n) <=> ch = ":")
    BY <1>1, <1>2, <1>7 DEF HostStateAt, HostConforms
  <2> HIDE DEF ch, before
  <2>3. http_parse_host_char("v6_end", ch) = IF ch = ":" THEN "port_start" ELSE "host_dead"
    BY Host_v6_end
  <2> QED
    BY <2>1, <2>2, <2>3 DEF ch, before
<1>8. CASE n > K + 1
  <2>1. before \in {"port_start", "port"}
    BY <1>1, <1>2, <1>4, <1>8 DEF HostStateAt
  <2>2. HostStateAt(s, n) = "port" /\ (HostConforms(s, n) <=> ch \in Num)
    BY <1>1, <1>2, <1>8 DEF HostStateAt, HostConforms
  <2> HIDE DEF ch, before
  <2>3. \A x \in {"port_start", "port"} :
          http_parse_host_char(x, ch) = IF ch \in Num THEN "port" ELSE "host_dead"
    BY Host_port_start, Host_port
  <2>4. http_parse_host_char(before, ch) = IF ch \in Num THEN "port" ELSE "host_dead"
    BY <2>1, <2>3
  <2> QED
    BY <2>2, <2>4 DEF ch, before
<1>9. n = B \/ (B < n /\ n < K) \/ n = K \/ n = K + 1 \/ n > K + 1
  <2>1. B \in Nat /\ K \in Nat /\ n \in Nat /\ n >= B
    BY <1>1, <1>2
  <2> HIDE DEF B, K
  <2> QED
    BY <2>1
<1> HIDE DEF B, K
<1> QED
  BY <1>3, <1>5, <1>6, <1>7, <1>8, <1>9

LEMMA StepName ==
    ASSUME NEW s \in Seq(STRING), NEW n \in 1..Len(s), ~V6(s), n >= HostOn(s)
    PROVE  IF HostConforms(s, n) THEN http_parse_host_char(HostStateAt(s, n - 1), s[n]) = HostStateAt(s, n)
                                 ELSE http_parse_host_char(HostStateAt(s, n - 1), s[n]) = "host_dead"
<1> DEFINE ch == s[n]
           before == HostStateAt(s, n - 1)
           B == HostOn(s)
           E == HostEnd(s)
<1>1. /\ B \in Nat \ {0} /\ (B <= Len(s) => s[B] # "[") /\ HostBegin(s) = B /\ PortMark(s) = E
      /\ E \in Nat /\ E >= B
      /\ E <= Len(s) => s[E] = ":"
      /\ \A j \in B..E - 1 : s[j] # ":"
      /\ HasUser(s) => AtSign(s) \in Nat /\ B = AtSign(s) + 1
      /\ ~HasUser(s) => B = 1
      /\ ServerHostChar(s) = HostChar
  BY ServerMarks DEF HostBegin, PortMark, V6, ServerHostChar
<1>2. n \in Nat /\ n >= B /\ ~(HasUser(s) /\ n < AtSign(s)) /\ n <= Len(s)
  BY <1>1
<1>4. ~(HasUser(s) /\ n - 1 < AtSign(s)) /\ (n > B => n - 1 >= B)
  BY <1>1, <1>2
<1>5. CASE n < E
  <2>1. before = IF n = B THEN "host_start" ELSE "host"
    BY <1>1, <1>2, <1>4, <1>5 DEF HostStateAt
  <2>2. /\ ch # ":" /\ HostStateAt(s, n) = "host"
        /\ HostConforms(s, n) <=> ch \in HostChar
    BY <1>1, <1>2, <1>5 DEF HostStateAt, HostConforms
  <2>3. n = B => ch # "["
    BY <1>1, <1>2
  <2> HIDE DEF ch, before
  <2>4. n = B => http_parse_host_char("host_start", ch) = IF ch \in HostChar THEN "host" ELSE "host_dead"
    BY <2>3, Host_host_start
  <2>5. http_parse_host_char("host", ch) = IF ch \in HostChar THEN "host" ELSE "host_dead"
    BY <2>2, Host_host
  <2>6. http_parse_host_char(before, ch) = IF ch \in HostChar THEN "host" ELSE "host_dead"
    BY <2>1, <2>4, <2>5
  <2> QED
    BY <2>2, <2>6 DEF ch, before
<1>6. CASE n = E
  <2>1. before = IF n = B THEN "host_start" ELSE "host"
    BY <1>1, <1>2, <1>4, <1>6 DEF HostStateAt
  <2>2. /\ ch = ":" /\ HostStateAt(s, n) = "port_start"
        /\ HostConforms(s, n) <=> n # B
    BY <1>1, <1>2, <1>6 DEF HostStateAt, HostConforms
  <2> HIDE DEF ch, before
  <2>3. http_parse_host_char("host_start", ch) = "host_dead" /\ http_parse_host_char("host", ch) = "port_start"
    BY <2>2, HostChars, Host_host_start, Host_host
  <2> QED
    BY <2>1, <2>2, <2>3 DEF ch, before
<1>7. CASE n > E
  <2>1. before \in {"port_start", "port"}
    BY <1>1, <1>2, <1>4, <1>7 DEF HostStateAt
  <2>2. HostStateAt(s, n) = "port" /\ (HostConforms(s, n) <=> ch \in Num)
    BY <1>1, <1>2, <1>7 DEF HostStateAt, HostConforms
  <2> HIDE DEF ch, before
  <2>3. \A x \in {"port_start", "port"} :
          http_parse_host_char(x, ch) = IF ch \in Num THEN "port" ELSE "host_dead"
    BY Host_port_start, Host_port
  <2>4. http_parse_host_char(before, ch) = IF ch \in Num THEN "port" ELSE "host_dead"
    BY <2>1, <2>3
  <2> QED
    BY <2>2, <2>4 DEF ch, before
<1> QED
  BY <1>1, <1>2, <1>5, <1>6, <1>7

\* http_parse_host_char follows HostStateAt for as long as the characters
\* conform, and finds every wrong one.
LEMMA StepHost ==
    ASSUME NEW s \in Seq(STRING), NEW n \in 1..Len(s)
    PROVE  IF HostConforms(s, n) THEN http_parse_host_char(HostStateAt(s, n - 1), s[n]) = HostStateAt(s, n)
                                 ELSE http_parse_host_char(HostStateAt(s, n - 1), s[n]) = "host_dead"
<1>1. /\ HasUser(s) => AtSign(s) \in Nat /\ HostOn(s) = AtSign(s) + 1
      /\ ~HasUser(s) => HostOn(s) = 1
  BY ServerMarks
<1>2. CASE HasUser(s) /\ n <= AtSign(s)
  BY <1>2, StepUser
<1>3. CASE n >= HostOn(s) /\ V6(s)
  BY <1>3, StepV6
<1>4. CASE n >= HostOn(s) /\ ~V6(s)
  BY <1>4, StepName
<1>5. (HasUser(s) /\ n <= AtSign(s)) \/ n >= HostOn(s)
  BY <1>1
<1> QED
  BY <1>2, <1>3, <1>4, <1>5

\* The fields of a server that begins at position b of the URL.
ServerFields == {"userinfo", "host", "port"}
HostFirst(b, s) ==
    [g \in Fields |->
       b - 1 + (CASE g = "host" -> HostBegin(s) [] g = "port" -> PortMark(s) + 1 [] OTHER -> 1)]
HostLast(b, s) ==
    [g \in Fields |->
       b - 1 + (CASE g = "host" -> HostEnd(s) - 1
                  [] g = "userinfo" -> IF HasUser(s) THEN AtSign(s) - 1 ELSE 0
                  [] OTHER -> Len(s))]

\* Every field of the server has its range.
LEMMA HostRanges ==
    ASSUME NEW s \in Seq(STRING), NEW b \in Nat \ {0}
    PROVE  /\ HostFirst(b, s) \in [Fields -> Nat] /\ HostLast(b, s) \in [Fields -> Int]
           /\ \A g \in ServerFields : HostFirst(b, s)[g] >= b /\ HostLast(b, s)[g] <= b - 1 + Len(s)
           /\ HostFirst(b, s)["host"] = b - 1 + HostBegin(s)
           /\ HostLast(b, s)["host"] = b - 1 + (HostEnd(s) - 1)
           /\ HostFirst(b, s)["port"] = b - 1 + (PortMark(s) + 1)
           /\ HostLast(b, s)["port"] = b - 1 + Len(s)
           /\ HostFirst(b, s)["userinfo"] = b - 1 + 1
           /\ HostLast(b, s)["userinfo"] = b - 1 + (IF HasUser(s) THEN AtSign(s) - 1 ELSE 0)
<1>1. /\ Len(s) \in Nat /\ AtSign(s) \in 1..Len(s) + 1 /\ HostEnd(s) \in HostBegin(s)..Len(s) + 1
      /\ HostBegin(s) \in Nat \ {0} /\ PortMark(s) \in Nat \ {0}
  BY ServerMarks DEF HostBegin, PortMark
<1>2. /\ HostFirst(b, s)["host"] = b - 1 + HostBegin(s)
      /\ HostLast(b, s)["host"] = b - 1 + (HostEnd(s) - 1)
      /\ HostFirst(b, s)["port"] = b - 1 + (PortMark(s) + 1)
      /\ HostLast(b, s)["port"] = b - 1 + Len(s)
      /\ HostFirst(b, s)["userinfo"] = b - 1 + 1
      /\ HostLast(b, s)["userinfo"] = b - 1 + (IF HasUser(s) THEN AtSign(s) - 1 ELSE 0)
  BY DEF HostFirst, HostLast, Fields
<1>3. /\ HostFirst(b, s)["host"] >= b /\ HostLast(b, s)["host"] <= b - 1 + Len(s)
      /\ HostFirst(b, s)["host"] \in Nat /\ HostLast(b, s)["host"] \in Int
  BY <1>1, <1>2, SMTT(30)
<1>4. /\ HostFirst(b, s)["port"] >= b /\ HostLast(b, s)["port"] <= b - 1 + Len(s)
      /\ HostFirst(b, s)["port"] \in Nat /\ HostLast(b, s)["port"] \in Int
  BY <1>1, <1>2, SMTT(30)
<1>5. /\ HostFirst(b, s)["userinfo"] >= b /\ HostLast(b, s)["userinfo"] <= b - 1 + Len(s)
      /\ HostFirst(b, s)["userinfo"] \in Nat /\ HostLast(b, s)["userinfo"] \in Int
  <2> DEFINE u == IF HasUser(s) THEN AtSign(s) - 1 ELSE 0
  <2>1. u \in Int /\ u <= Len(s)
    BY <1>1
  <2> HIDE DEF u
  <2>2. HostFirst(b, s)["userinfo"] = b - 1 + 1 /\ HostLast(b, s)["userinfo"] = b - 1 + u
    BY <1>2 DEF u
  <2> QED
    BY <1>1, <2>1, <2>2
<1>6. ASSUME NEW g \in ServerFields
      PROVE  HostFirst(b, s)[g] >= b /\ HostLast(b, s)[g] <= b - 1 + Len(s)
  <2>1. g = "host" \/ g = "port" \/ g = "userinfo"
    BY DEF ServerFields
  <2> QED
    BY <1>3, <1>4, <1>5, <2>1
<1>7. ASSUME NEW g \in Fields PROVE HostFirst(b, s)[g] \in Nat /\ HostLast(b, s)[g] \in Int
  <2>1. CASE g = "host" \/ g = "port" \/ g = "userinfo"
    BY <1>3, <1>4, <1>5, <2>1
  <2>2. CASE ~(g = "host" \/ g = "port" \/ g = "userinfo")
    <3>1. HostFirst(b, s)[g] = b - 1 + 1 /\ HostLast(b, s)[g] = b - 1 + Len(s)
      BY <2>2 DEF HostFirst, HostLast
    <3> QED
      BY <1>1, <3>1
  <2> QED
    BY <2>1, <2>2
<1>8. HostFirst(b, s) \in [Fields -> Nat] /\ HostLast(b, s) \in [Fields -> Int]
  <2>1. HostFirst(b, s) = [g \in Fields |-> HostFirst(b, s)[g]] /\ HostLast(b, s) = [g \in Fields |-> HostLast(b, s)[g]]
    BY DEF HostFirst, HostLast
  <2> HIDE DEF Fields
  <2> QED
    BY <1>7, <2>1
<1> QED
  BY <1>2, <1>6, <1>8

\* A character belongs to the field of its range.
LEMMA HostFieldAt ==
    ASSUME NEW s \in Seq(STRING), NEW b \in Nat \ {0}, NEW n \in 0..Len(s), NEW g \in ServerFields
    PROVE  HostField(HostStateAt(s, n)) = g <=> b + n - 1 \in HostFirst(b, s)[g]..HostLast(b, s)[g]
<1> DEFINE f == HostField(HostStateAt(s, n))
           A == AtSign(s)
           B == HostOn(s)
           F == HostBegin(s)
           E == HostEnd(s)
           P == PortMark(s)
<1>1. /\ A \in Nat \ {0} /\ B \in Nat \ {0} /\ F \in Nat /\ E \in Nat /\ P \in Nat
      /\ B <= F /\ F <= E /\ E <= P /\ (HasUser(s) => B = A + 1) /\ (~HasUser(s) => B = 1)
      /\ V6(s) <=> F = B + 1
      /\ V6(s) <=> P = E + 1
      /\ E <= Len(s) + 1
  BY ServerMarks DEF HostBegin, PortMark
<1>2. /\ HostFirst(b, s)["host"] = b - 1 + F
      /\ HostLast(b, s)["host"] = b - 1 + (E - 1)
      /\ HostFirst(b, s)["port"] = b - 1 + (P + 1)
      /\ HostLast(b, s)["port"] = b - 1 + Len(s)
      /\ HostFirst(b, s)["userinfo"] = b - 1 + 1
      /\ HostLast(b, s)["userinfo"] = b - 1 + (IF HasUser(s) THEN A - 1 ELSE 0)
  BY HostRanges
<1>3. /\ HasUser(s) /\ n < A => f = IF n = 0 THEN "none" ELSE "userinfo"
      /\ ~(HasUser(s) /\ n < A) /\ n < F => f = "none"
      /\ F <= n /\ n < E => f = "host"
  BY <1>1 DEF HostStateAt, HostField
<1>4. /\ E <= n /\ n <= P => f = "none"
      /\ P < n => f = "port"
  BY <1>1 DEF HostStateAt, HostField
<1>5. n \in Nat /\ n <= Len(s) /\ Len(s) \in Nat
  OBVIOUS
<1> HIDE DEF f, A, B, F, E, P
<1>6. CASE g = "host"
  <2>1. f = "host" <=> F <= n /\ n < E
    BY <1>1, <1>3, <1>4, <1>5
  <2>2. b + n - 1 \in HostFirst(b, s)["host"]..HostLast(b, s)["host"] <=> F <= n /\ n < E
    BY <1>1, <1>2, <1>5
  <2> QED
    BY <1>6, <2>1, <2>2 DEF f
<1>7. CASE g = "port"
  <2>1. f = "port" <=> P < n
    BY <1>1, <1>3, <1>4, <1>5
  <2>2. b + n - 1 \in HostFirst(b, s)["port"]..HostLast(b, s)["port"] <=> P < n
    BY <1>1, <1>2, <1>5
  <2> QED
    BY <1>7, <2>1, <2>2 DEF f
<1>8. CASE g = "userinfo"
  <2>1. f = "userinfo" <=> HasUser(s) /\ n < A /\ n # 0
    BY <1>1, <1>3, <1>4, <1>5
  <2>2. b + n - 1 \in HostFirst(b, s)["userinfo"]..HostLast(b, s)["userinfo"] <=> HasUser(s) /\ n < A /\ n # 0
    <3>1. CASE HasUser(s)
      BY <1>1, <1>2, <1>5, <3>1
    <3>2. CASE ~HasUser(s)
      BY <1>1, <1>2, <1>5, <3>2
    <3> QED
      BY <3>1, <3>2
  <2> QED
    BY <1>8, <2>1, <2>2 DEF f
<1> QED
  BY <1>6, <1>7, <1>8 DEF ServerFields

\* After n characters of the server, none of them wrong.
GoodHost(b, s, data, h, n) ==
    /\ h.state = HostStateAt(s, n)
    /\ Held(h.data, ServerFields, HostFirst(b, s), HostLast(b, s), b + n - 1)
    /\ \A g \in Fields \ ServerFields : h.data[g] = data[g]

\* Before the first character of the server.
LEMMA HostStarts ==
    ASSUME NEW s \in Seq(STRING), NEW b \in Nat \ {0}, NEW data \in [Fields -> Part],
           data["userinfo"].len = 0, data["port"].len = 0,
           NEW foundAt \in BOOLEAN, foundAt <=> HasUser(s)
    PROVE  GoodHost(b, s, data, HostScanFirst(data, foundAt), 0)
<1> DEFINE h == HostScanFirst(data, foundAt)
<1>1. /\ h \in HostScans
      /\ h.state = IF foundAt THEN "userinfo_start" ELSE "host_start"
      /\ h.data["host"].len = 0
      /\ \A g \in Fields \ {"host"} : h.data[g] = data[g]
  BY HostScanFirstIs
<1> HIDE DEF h
<1>2. h.state = HostStateAt(s, 0)
  <2>1. AtSign(s) \in Nat \ {0} /\ HostOn(s) \in Nat \ {0}
    BY ServerMarks
  <2> QED
    BY <1>1, <2>1 DEF HostStateAt
<1>3. \A g \in ServerFields : h.data[g].len = 0
  <2>1. "userinfo" \in Fields \ {"host"} /\ "port" \in Fields \ {"host"}
    BY DEF Fields
  <2>2. h.data["userinfo"] = data["userinfo"] /\ h.data["port"] = data["port"]
    BY <1>1, <2>1
  <2> QED
    BY <1>1, <2>2 DEF ServerFields
<1>4. Held(h.data, ServerFields, HostFirst(b, s), HostLast(b, s), b + 0 - 1)
  <2>1. ASSUME NEW g \in ServerFields
        PROVE  Holds(h.data[g], HostFirst(b, s)[g], Upto(b + 0 - 1, HostLast(b, s)[g]))
    <3>1. /\ HostFirst(b, s) \in [Fields -> Nat] /\ HostLast(b, s) \in [Fields -> Int]
          /\ HostFirst(b, s)[g] >= b
      BY HostRanges
    <3>2. g \in Fields
      BY DEF ServerFields, Fields
    <3>3. HostFirst(b, s)[g] \in Nat /\ HostLast(b, s)[g] \in Int
      BY <3>1, <3>2
    <3>4. ~(HostFirst(b, s)[g] <= Upto(b + 0 - 1, HostLast(b, s)[g]))
      BY <3>1, <3>3 DEF Upto
    <3> QED
      BY <1>3, <3>4 DEF Holds
  <2> QED
    BY <2>1 DEF Held
<1>5. \A g \in Fields \ ServerFields : h.data[g] = data[g]
  BY <1>1 DEF ServerFields
<1> QED
  BY <1>2, <1>4, <1>5 DEF GoodHost, h

\* A character that conforms.
LEMMA HostGoesOn ==
    ASSUME NEW text, NEW s \in Seq(STRING), NEW b \in Nat \ {0}, NEW data \in [Fields -> Part],
           NEW n \in 1..Len(s), text[b + n - 1] = s[n],
           NEW h \in HostScans, GoodHost(b, s, data, h, n - 1), HostConforms(s, n)
    PROVE  GoodHost(b, s, data, HostScanNext(text, b, h, n), n)
<1> DEFINE i == b + n - 1
           f == HostField(HostStateAt(s, n))
           previous == HostField(h.state)
           First == HostFirst(b, s)
           Last == HostLast(b, s)
           d == IF f = "none" THEN h.data ELSE Grow(h.data, f, previous, i)
<1>1. First \in [Fields -> Nat] /\ Last \in [Fields -> Int] /\ \A g \in ServerFields : First[g] >= b
  BY HostRanges
<1>2. http_parse_host_char(h.state, text[i]) = HostStateAt(s, n)
  BY StepHost DEF GoodHost
<1>3. HostScanNext(text, b, h, n) = [state |-> HostStateAt(s, n), data |-> d]
  BY <1>2 DEF HostScanNext
<1>4. f \in ServerFields \cup {"none"}
  BY DEF HostField, ServerFields
<1>5. \A g \in ServerFields : f = g <=> i \in First[g]..Last[g]
  BY HostFieldAt
<1>6. \A g \in ServerFields : previous = g <=> i - 1 \in First[g]..Last[g]
  <2>1. n - 1 \in 0..Len(s) /\ b + (n - 1) - 1 = i - 1
    OBVIOUS
  <2>2. previous = HostField(HostStateAt(s, n - 1))
    BY DEF GoodHost
  <2> HIDE DEF previous
  <2>3. ASSUME NEW g \in ServerFields
        PROVE  previous = g <=> b + (n - 1) - 1 \in First[g]..Last[g]
    BY <2>1, <2>2, HostFieldAt
  <2> HIDE DEF First, Last, i, ServerFields
  <2> QED
    BY <2>1, <2>3
<1>7. /\ Held(h.data, ServerFields, First, Last, i - 1)
      /\ \A g \in Fields \ ServerFields : h.data[g] = data[g]
  <2>1. b + (n - 1) - 1 = i - 1
    OBVIOUS
  <2> QED
    BY <2>1 DEF GoodHost
<1>8. i \in Nat \ {0} /\ i >= b /\ b \in Nat
  OBVIOUS
<1>9. h.data \in [Fields -> Part]
  BY DEF HostScans
<1>10. "none" \notin Fields /\ ServerFields \in SUBSET Fields
  BY DEF Fields, ServerFields
<1> HIDE DEF f, previous, First, Last, i, ServerFields
<1>11. f # "none" => (previous = f <=> i # First[f])
  <2> SUFFICES ASSUME f # "none" PROVE previous = f <=> i # First[f]
    OBVIOUS
  <2>1. f \in ServerFields /\ f \in Fields
    BY <1>4, <1>10
  <2>2. First[f] \in Nat /\ Last[f] \in Int /\ i \in First[f]..Last[f]
    BY <1>1, <1>5, <2>1
  <2>3. i - 1 \in First[f]..Last[f] <=> i # First[f]
    BY <1>8, <2>2
  <2> QED
    BY <1>6, <2>1, <2>3
<1>12. /\ Held(d, ServerFields, First, Last, i)
       /\ \A g \in Fields \ ServerFields : d[g] = h.data[g]
  <2> DEFINE e == h.data
  <2>1. e \in [Fields -> Part] /\ Held(e, ServerFields, First, Last, i - 1)
    BY <1>7, <1>9
  <2>2. d = IF f = "none" THEN e ELSE Grow(e, f, previous, i)
    OBVIOUS
  <2> HIDE DEF e, d
  <2>3. Held(IF f = "none" THEN e ELSE Grow(e, f, previous, i), ServerFields, First, Last, i)
    BY <1>1, <1>4, <1>5, <1>8, <1>10, <1>11, <2>1, HeldOn
  <2>4. ASSUME NEW g \in Fields \ ServerFields PROVE d[g] = e[g]
    <3>1. CASE f = "none"
      BY <2>2, <3>1
    <3>2. CASE f # "none"
      <4>1. f \in Fields /\ g \in Fields \ {f} /\ i \in Nat
        BY <1>4, <1>8, <1>10, <3>2
      <4>2. Grow(e, f, previous, i)[g] = e[g]
        BY <2>1, <4>1, GrowOther
      <4> QED
        BY <2>2, <3>2, <4>2
    <3> QED
      BY <3>1, <3>2
  <2> QED
    BY <2>2, <2>3, <2>4 DEF e
<1> HIDE DEF d
<1> QED
  BY <1>3, <1>7, <1>12 DEF GoodHost, First, Last, i

\* The whole server: every field has its range, or a wrong character is found.
LEMMA HostParsed ==
    ASSUME NEW text \in Seq(STRING), NEW data \in [Fields -> Part], NEW s \in Seq(STRING),
           data["host"].off # 0, data["host"].len = Len(s),
           \A n \in 1..Len(s) : text[data["host"].off + n - 1] = s[n],
           data["userinfo"].len = 0, data["port"].len = 0,
           NEW foundAt \in BOOLEAN, foundAt <=> HasUser(s)
    PROVE  IF \A n \in 1..Len(s) : HostConforms(s, n)
           THEN GoodHost(data["host"].off, s, data, http_parse_host(text, data, foundAt), Len(s))
           ELSE http_parse_host(text, data, foundAt).state = "host_dead"
<1> DEFINE m == Len(s)
           b == data["host"].off
           Fine(n) == \A j \in 1..n : HostConforms(s, j)
<1>1. m \in Nat /\ b \in Nat \ {0}
  <2>1. "host" \in Fields
    BY DEF Fields
  <2>2. data["host"] \in Part
    BY <2>1
  <2> QED
    BY <2>2 DEF Part
<1>2. PICK at : /\ at \in [0..m -> HostScans]
                /\ at[0] = HostScanFirst(data, foundAt)
                /\ \A n \in 1..m : at[n] = HostScanNext(text, b, at[n - 1], n)
                /\ http_parse_host(text, data, foundAt) = at[m]
  BY HostRuns
<1>3. \A n \in 1..m : text[b + n - 1] = s[n]
  OBVIOUS
<1> DEFINE S == {n \in 0..m : IF Fine(n) THEN GoodHost(b, s, data, at[n], n)
                              ELSE at[n].state = "host_dead"}
<1>4. 0 \in S
  <2>1. GoodHost(b, s, data, HostScanFirst(data, foundAt), 0)
    BY <1>1, HostStarts
  <2> QED
    BY <1>1, <1>2, <2>1
<1>5. ASSUME NEW n \in 1..m, n - 1 \in S PROVE n \in S
  <2>1. at[n] = HostScanNext(text, b, at[n - 1], n) /\ at[n - 1] \in HostScans /\ n - 1 \in 0..m
    <3> HIDE DEF b, m, HostScans
    <3>1. n \in 1..m /\ n - 1 \in 0..m
      BY <1>1
    <3>2. at[n - 1] \in HostScans
      BY <1>2, <3>1
    <3> QED
      BY <1>2, <3>1, <3>2
  <2>2. Fine(n) <=> Fine(n - 1) /\ HostConforms(s, n)
    <3>1. 1..n = 1..n - 1 \cup {n}
      BY <1>1
    <3> QED
      BY <3>1, Zenon
  <2>3. text[b + n - 1] = s[n] /\ n \in 1..Len(s)
    BY <1>3
  <2> HIDE DEF Fine, b, m
  <2>4. CASE Fine(n)
    <3>1. GoodHost(b, s, data, at[n - 1], n - 1) /\ HostConforms(s, n)
      BY <1>5, <2>2, <2>4
    <3>2. GoodHost(b, s, data, HostScanNext(text, b, at[n - 1], n), n)
      BY <1>1, <2>1, <2>3, <3>1, HostGoesOn
    <3> QED
      BY <2>1, <2>4, <3>2
  <2>5. CASE ~Fine(n) /\ Fine(n - 1)
    <3>1. at[n - 1].state = HostStateAt(s, n - 1) /\ ~HostConforms(s, n)
      BY <1>5, <2>2, <2>5 DEF GoodHost
    <3>2. http_parse_host_char(HostStateAt(s, n - 1), s[n]) = "host_dead"
      BY <2>3, <3>1, StepHost
    <3>3. at[n].state = "host_dead"
      BY <2>1, <2>3, <3>1, <3>2 DEF HostScanNext
    <3> QED
      BY <2>5, <3>3
  <2>6. CASE ~Fine(n) /\ ~Fine(n - 1)
    <3>1. at[n - 1].state = "host_dead"
      BY <1>5, <2>6
    <3>2. at[n].state = "host_dead"
      BY <2>1, <3>1, Host_host_dead DEF HostScanNext
    <3> QED
      BY <2>6, <3>2
  <2> QED
    BY <2>2, <2>4, <2>5, <2>6
<1>6. \A n \in 0..m : n \in S
  <2> HIDE DEF S, m
  <2> QED
    BY <1>1, <1>4, <1>5, UpTo
<1>7. m \in S
  <2> HIDE DEF S, m
  <2>1. m \in 0..m
    BY <1>1
  <2> QED
    BY <1>6, <2>1
<1> QED
  BY <1>2, <1>7

\* The server is one, user info included.
ServerOk(s) == SplitServer(s).ok /\ AllIn(SplitServer(s).userinfo, UserinfoChar)

\* The reference takes the servers that the scan takes.
LEMMA ServerAccepted ==
    ASSUME NEW s \in Seq(STRING)
    PROVE  ServerOk(s) <=> /\ \A n \in 1..Len(s) : HostConforms(s, n)
                           /\ HostStateAt(s, Len(s)) \notin Unfinished
<1> DEFINE m == Len(s)
           A == AtSign(s)
           B == HostOn(s)
           F == HostBegin(s)
           E == HostEnd(s)
           P == PortMark(s)
<1>1. /\ A \in Nat \ {0} /\ B \in Nat \ {0} /\ F \in Nat /\ E \in Nat /\ P \in Nat /\ m \in Nat
      /\ B <= F /\ F <= E /\ E <= P /\ (HasUser(s) => B = A + 1) /\ (~HasUser(s) => B = 1)
      /\ B <= m + 1 /\ E <= m + 1
      /\ V6(s) => F = B + 1
      /\ ~V6(s) => F = B
      /\ V6(s) => P = E + 1
      /\ ~V6(s) => P = E
  BY ServerMarks DEF HostBegin, PortMark
<1>2. ~V6(s) /\ P <= m => s[P] = ":"
  BY <1>1, ServerMarks
<1>3. AllIn(SplitServer(s).userinfo, UserinfoChar) <=>
        (HasUser(s) => \A n \in 1..A - 1 : s[n] \in UserinfoChar)
  <2>1. CASE HasUser(s)
    <3>1. 1 \in Nat \ {0} /\ A - 1 \in Int /\ A - 1 <= Len(s)
      BY <1>1, <2>1 DEF HasUser
    <3> HIDE DEF A
    <3>2. AllIn(SubSeq(s, 1, A - 1), UserinfoChar) <=> \A n \in 1..A - 1 : s[n] \in UserinfoChar
      BY <3>1, PartAllIn
    <3>3. SplitServer(s).userinfo = SubSeq(s, 1, A - 1)
      BY <2>1, SplitIs DEF A
    <3> QED
      BY <2>1, <3>2, <3>3
  <2>2. CASE ~HasUser(s)
    <3>1. SplitServer(s).userinfo = <<>>
      BY <2>2, SplitIs
    <3>2. AllIn(<<>>, UserinfoChar)
      BY DEF AllIn
    <3> QED
      BY <2>2, <3>1, <3>2
  <2> QED
    BY <2>1, <2>2
<1>4. SplitServer(s).ok <=>
        /\ F < E
        /\ \A n \in F..E - 1 : s[n] \in ServerHostChar(s)
        /\ V6(s) => E <= m
        /\ P <= m => s[P] = ":" /\ P < m /\ \A n \in P + 1..m : s[n] \in Num
  BY SplitIs
<1>5. HostStateAt(s, m) \notin Unfinished <=>
        /\ ~(HasUser(s) /\ m < A) /\ B <= m /\ F <= m
        /\ V6(s) => E <= m
        /\ m # P
  <2>1. HasUser(s) /\ m < A => HostStateAt(s, m) \in Unfinished
    BY DEF HostStateAt, Unfinished
  <2>2. ~(HasUser(s) /\ m < A) /\ m < F => HostStateAt(s, m) \in Unfinished
    BY <1>1 DEF HostStateAt, Unfinished
  <2>3. F <= m /\ m < E => HostStateAt(s, m) = IF V6(s) THEN "v6" ELSE "host"
    BY <1>1 DEF HostStateAt
  <2>4. E <= m /\ m < P => HostStateAt(s, m) = "v6_end"
    BY <1>1 DEF HostStateAt
  <2>5. m = P => HostStateAt(s, m) = "port_start"
    BY <1>1 DEF HostStateAt
  <2>6. P < m => HostStateAt(s, m) = "port"
    BY <1>1 DEF HostStateAt
  <2>7. "host" \notin Unfinished /\ "v6_end" \notin Unfinished /\ "port" \notin Unfinished
        /\ "v6" \in Unfinished /\ "port_start" \in Unfinished
    BY DEF Unfinished
  <2> HIDE DEF m, A, B, F, E, P, Unfinished
  <2>8. CASE HasUser(s) /\ m < A
    BY <2>1, <2>8
  <2>9. CASE ~(HasUser(s) /\ m < A) /\ m < F
    BY <1>1, <2>2, <2>9
  <2>10. CASE F <= m /\ m < E
    BY <1>1, <2>3, <2>7, <2>10
  <2>11. CASE E <= m /\ m < P
    BY <1>1, <2>4, <2>7, <2>11
  <2>12. CASE m = P
    BY <1>1, <2>5, <2>7, <2>12
  <2>13. CASE P < m
    BY <1>1, <2>6, <2>7, <2>13
  <2> QED
    BY <1>1, <2>8, <2>9, <2>10, <2>11, <2>12, <2>13
<1>6. ASSUME ServerOk(s)
      PROVE  (\A n \in 1..m : HostConforms(s, n)) /\ HostStateAt(s, m) \notin Unfinished
  <2>1. /\ F < E /\ (V6(s) => E <= m)
        /\ \A n \in F..E - 1 : s[n] \in ServerHostChar(s)
        /\ P <= m => s[P] = ":" /\ P < m /\ \A n \in P + 1..m : s[n] \in Num
        /\ HasUser(s) => \A n \in 1..A - 1 : s[n] \in UserinfoChar
    BY <1>3, <1>4, <1>6 DEF ServerOk
  <2>2. ASSUME NEW n \in 1..m PROVE HostConforms(s, n)
    <3>1. n \in Nat \ {0} /\ n <= m
      OBVIOUS
    <3>2. CASE n < F
      BY <1>1, <2>1, <3>1, <3>2 DEF HostConforms
    <3>3. CASE F <= n /\ n < E
      BY <1>1, <2>1, <3>1, <3>3 DEF HostConforms
    <3>4. CASE E <= n
      BY <1>1, <2>1, <3>1, <3>4 DEF HostConforms
    <3> QED
      BY <1>1, <3>1, <3>2, <3>3, <3>4
  <2>3. ~(HasUser(s) /\ m < A) /\ B <= m /\ F <= m /\ (V6(s) => E <= m) /\ m # P
    BY <1>1, <2>1
  <2> QED
    BY <1>5, <2>2, <2>3
<1>7. ASSUME \A n \in 1..m : HostConforms(s, n), HostStateAt(s, m) \notin Unfinished
      PROVE  ServerOk(s)
  <2>1. ~(HasUser(s) /\ m < A) /\ B <= m /\ F <= m /\ (V6(s) => E <= m) /\ m # P
    BY <1>5, <1>7
  <2>2. F < E
    <3>1. CASE E <= m
      <4>1. E \in 1..m
        BY <1>1, <3>1
      <4>2. HostConforms(s, E)
        BY <1>7, <4>1
      <4> QED
        BY <1>1, <4>2 DEF HostConforms
    <3>2. CASE m < E
      BY <1>1, <2>1, <3>2
    <3> QED
      BY <1>1, <3>1, <3>2
  <2>3. ASSUME NEW n \in F..E - 1 PROVE s[n] \in ServerHostChar(s)
    <3>1. n \in 1..m /\ n < E /\ F <= n
      BY <1>1
    <3>2. HostConforms(s, n)
      BY <1>7, <3>1
    <3> QED
      BY <1>1, <3>1, <3>2 DEF HostConforms
  <2>4. ASSUME P <= m PROVE s[P] = ":" /\ P < m
    <3>1. P \in 1..m /\ P < m
      BY <1>1, <2>1, <2>4
    <3>2. CASE V6(s)
      <4>1. HostConforms(s, P) /\ E < P /\ F <= P
        BY <1>1, <1>7, <3>1, <3>2
      <4> QED
        BY <1>1, <3>1, <4>1 DEF HostConforms
    <3>3. CASE ~V6(s)
      BY <1>2, <2>4, <3>1, <3>3
    <3> QED
      BY <3>2, <3>3
  <2>5. ASSUME NEW n \in P + 1..m PROVE s[n] \in Num
    <3>1. n \in 1..m /\ P < n
      BY <1>1
    <3>2. HostConforms(s, n)
      BY <1>7, <3>1
    <3> QED
      BY <1>1, <3>1, <3>2 DEF HostConforms
  <2>6. ASSUME HasUser(s), NEW n \in 1..A - 1 PROVE s[n] \in UserinfoChar
    <3>1. n \in 1..m /\ n < A
      BY <1>1, <2>1, <2>6
    <3>2. HostConforms(s, n)
      BY <1>7, <3>1
    <3> QED
      BY <2>6, <3>1, <3>2 DEF HostConforms
  <2>7. SplitServer(s).ok
    BY <1>4, <2>1, <2>2, <2>3, <2>4, <2>5
  <2>8. AllIn(SplitServer(s).userinfo, UserinfoChar)
    BY <1>3, <2>6
  <2> QED
    BY <2>7, <2>8 DEF ServerOk
<1> QED
  BY <1>6, <1>7

-----------------------------------------------------------------------------
(* The number of the port.                                                  *)

\* strtoul reads the digits of the field.
LEMMA PortNumberIs ==
    ASSUME NEW text, NEW field, NEW digits, field.len \in Nat, Len(digits) = field.len,
           \A n \in 1..field.len : text[field.off + n - 1] = digits[n]
    PROVE  PortNumber(text, field) = Value(digits)
<1> DEFINE m == field.len
           P(f) == [n \in 0..m |-> IF n = 0 THEN 0
                                   ELSE f[n - 1] * PortRadix + DigitValue[text[field.off + n - 1]]]
           V(f) == [n \in 0..m |-> IF n = 0 THEN 0
                                   ELSE f[n - 1] * PortRadix + DigitValue[digits[n]]]
<1>1. ASSUME NEW f PROVE P(f) = V(f)
  <2>1. \A n \in 0..m : n # 0 => text[field.off + n - 1] = digits[n]
    OBVIOUS
  <2> QED
    BY <2>1
<1>2. PortNumber(text, field) = (CHOOSE f : f = P(f))[m]
  BY DEF PortNumber
<1>3. Value(digits) = (CHOOSE f : f = V(f))[m]
  BY DEF Value
<1> HIDE DEF P, V, m
<1>4. (CHOOSE f : f = P(f)) = (CHOOSE f : f = V(f))
  BY <1>1, Zenon
<1> QED
  BY <1>2, <1>3, <1>4

\* And makes a number of them.
LEMMA ValueTypes ==
    ASSUME NEW digits \in Seq(Num)
    PROVE  Value(digits) \in Nat
<1> DEFINE m == Len(digits)
           G == [x \in Nat \X (1..m) |-> x[1] * PortRadix + DigitValue[digits[x[2]]]]
           V(f) == [n \in 0..m |-> IF n = 0 THEN 0 ELSE f[n - 1] * PortRadix + DigitValue[digits[n]]]
<1>1. m \in Nat /\ PortRadix \in Nat
  BY UrlsAssumption
<1>2. \A n \in 1..m : DigitValue[digits[n]] \in Nat
  BY DEF Num, DigitValue
<1>3. Value(digits) = (CHOOSE f : f = V(f))[m]
  BY DEF Value
<1> HIDE DEF m
<1>4. ASSUME NEW x \in Nat, NEW n \in 1..m PROVE x * PortRadix + DigitValue[digits[n]] \in Nat
  <2>1. DigitValue[digits[n]] \in Nat
    BY <1>2
  <2> HIDE DEF DigitValue
  <2>2. x * PortRadix \in Nat
    BY <1>1
  <2> QED
    BY <2>1, <2>2
<1>5. G \in [Nat \X (1..m) -> Nat] /\ \A x \in Nat : \A n \in 1..m : G[<<x, n>>] = x * PortRadix + DigitValue[digits[n]]
  BY <1>4
<1> HIDE DEF G
<1>6. PICK g : IsRun(g, m, Nat, 0, G)
  BY <1>1, <1>5, Iterates
<1>7. g = V(g)
  <2>1. ASSUME NEW n \in 0..m PROVE g[n] = IF n = 0 THEN 0 ELSE g[n - 1] * PortRadix + DigitValue[digits[n]]
    <3>1. CASE n = 0
      BY <1>6, <3>1 DEF IsRun
    <3>2. CASE n # 0
      <4>1. n \in 1..m /\ g[n - 1] \in Nat
        BY <1>1, <1>6, <3>2 DEF IsRun
      <4>2. g[n] = G[<<g[n - 1], n>>]
        BY <1>6, <3>2 DEF IsRun
      <4> QED
        BY <1>5, <3>2, <4>1, <4>2
    <3> QED
      BY <3>1, <3>2
  <2> QED
    BY <1>6, <2>1 DEF IsRun
<1> DEFINE value == CHOOSE f : f = V(f)
<1>8. value = V(value)
  <2> HIDE DEF V
  <2> QED
    BY <1>7
<1> HIDE DEF value
<1>9. \A n \in 0..m : value[n] = IF n = 0 THEN 0 ELSE value[n - 1] * PortRadix + DigitValue[digits[n]]
  BY <1>8
<1>10. \A n \in 0..m : value[n] \in Nat
  <2> DEFINE S == {n \in 0..m : value[n] \in Nat}
  <2>1. 0 \in S
    BY <1>1, <1>9
  <2>2. ASSUME NEW n \in 1..m, n - 1 \in S PROVE n \in S
    <3>1. value[n - 1] \in Nat /\ n \in 0..m /\ n # 0
      BY <1>1, <2>2
    <3>2. value[n] = value[n - 1] * PortRadix + DigitValue[digits[n]]
      BY <1>9, <3>1
    <3>3. value[n] \in Nat
      BY <1>4, <3>1, <3>2
    <3> QED
      BY <3>1, <3>3
  <2>3. \A n \in 0..m : n \in S
    <3> HIDE DEF S
    <3> QED
      BY <1>1, <2>1, <2>2, UpTo
  <2> QED
    BY <2>3
<1>11. Value(digits) = value[m]
  BY <1>3 DEF value
<1>12. m \in 0..m
  BY <1>1
<1> QED
  BY <1>10, <1>11, <1>12

-----------------------------------------------------------------------------
(* The two together.                                                        *)

ServerOf(t) == SubSeq(t, Colon(t) + 3, ServerEnd(t) - 1)

\* The server, character by character.
LEMMA ServerIs ==
    ASSUME NEW t \in Seq(STRING)
    PROVE  /\ ServerOf(t) \in Seq(STRING)
           /\ Len(ServerOf(t)) = IF Colon(t) + 3 <= ServerEnd(t) THEN ServerEnd(t) - (Colon(t) + 3) ELSE 0
           /\ \A n \in 1..Len(ServerOf(t)) : ServerOf(t)[n] = t[Colon(t) + 3 + n - 1]
<1> DEFINE b == Colon(t) + 3
           e == ServerEnd(t) - 1
<1>1. b \in Nat \ {0} /\ e \in Int /\ e <= Len(t)
  BY Delimiters
<1> HIDE DEF b, e
<1>2. /\ SubSeq(t, b, e) \in Seq(STRING)
      /\ Len(SubSeq(t, b, e)) = IF b <= e THEN e - b + 1 ELSE 0
      /\ \A k \in 1..e - b + 1 : SubSeq(t, b, e)[k] = t[b + k - 1]
  BY <1>1, PartIs
<1>3. ServerOf(t) = SubSeq(t, b, e) /\ ServerEnd(t) = e + 1 /\ Colon(t) + 3 = b
  BY Delimiters DEF ServerOf, b, e
<1>4. Len(SubSeq(t, b, e)) = IF b <= e + 1 THEN e + 1 - b ELSE 0
  BY <1>1, <1>2
<1>5. \A n \in 1..Len(SubSeq(t, b, e)) : SubSeq(t, b, e)[n] = t[b + n - 1]
  BY <1>1, <1>2
<1> QED
  BY <1>2, <1>3, <1>4, <1>5

\* What the server's own rules allow, the rules of the URL allow.
LEMMA ServerChars ==
    ASSUME NEW s \in Seq(STRING), \A n \in 1..Len(s) : HostConforms(s, n), NEW n \in 1..Len(s)
    PROVE  s[n] \in ServerChar /\ (s[n] = "@" => HasUser(s) /\ n = AtSign(s))
<1>1. /\ AtSign(s) \in Nat \ {0} /\ HostOn(s) \in Nat \ {0} /\ HostBegin(s) \in Nat
      /\ HostEnd(s) \in Nat /\ PortMark(s) \in Nat
      /\ HostOn(s) <= HostBegin(s) /\ HostBegin(s) <= HostEnd(s)
      /\ HasUser(s) => HostOn(s) = AtSign(s) + 1
      /\ ~HasUser(s) => HostOn(s) = 1
      /\ HasUser(s) => s[AtSign(s)] = "@"
      /\ V6(s) => HostBegin(s) = HostOn(s) + 1 /\ s[HostOn(s)] = "["
      /\ ~V6(s) => HostBegin(s) = HostOn(s)
      /\ n = HostEnd(s) => s[n] \in {":", "]"}
  BY ServerMarks DEF HostBegin, PortMark, V6, HasUser
<1>2. /\ UserinfoChar \subseteq ServerChar /\ {"@", "[", "]", ":"} \subseteq ServerChar
      /\ Hex \cup {":", "."} \subseteq UserinfoChar /\ HostChar \subseteq UserinfoChar
      /\ Num \subseteq UserinfoChar /\ "@" \notin UserinfoChar
  BY DEF ServerChar, UserinfoChar, HostChar, Hex, Num, Alpha
<1>3. HostConforms(s, n) /\ n \in Nat \ {0}
  OBVIOUS
<1>4. CASE HasUser(s) /\ n < AtSign(s)
  <2>1. s[n] \in UserinfoChar
    BY <1>3, <1>4 DEF HostConforms
  <2> QED
    BY <1>2, <2>1
<1>5. CASE HasUser(s) /\ n = AtSign(s)
  BY <1>1, <1>2, <1>5
<1>6. CASE n >= HostOn(s) /\ n < HostBegin(s)
  <2>1. s[n] = "["
    BY <1>1, <1>3, <1>6
  <2> QED
    BY <1>2, <2>1
<1>7. CASE HostBegin(s) <= n /\ n < HostEnd(s)
  <2>1. s[n] \in ServerHostChar(s)
    BY <1>1, <1>3, <1>7 DEF HostConforms
  <2>2. s[n] \in UserinfoChar
    BY <1>2, <2>1 DEF ServerHostChar
  <2> QED
    BY <1>2, <2>2
<1>8. CASE n = HostEnd(s)
  <2>1. s[n] \in {":", "]"}
    BY <1>1, <1>8
  <2> QED
    BY <1>2, <2>1
<1>9. CASE n > HostEnd(s)
  <2>1. s[n] = ":" \/ s[n] \in Num
    BY <1>1, <1>3, <1>9 DEF HostConforms
  <2>2. s[n] \in ServerChar /\ s[n] # "@"
    BY <1>2, <2>1
  <2> QED
    BY <2>2
<1>10. \/ HasUser(s) /\ n < AtSign(s)
       \/ HasUser(s) /\ n = AtSign(s)
       \/ n >= HostOn(s) /\ n < HostBegin(s)
       \/ HostBegin(s) <= n /\ n < HostEnd(s)
       \/ n = HostEnd(s)
       \/ n > HostEnd(s)
  BY <1>1, <1>3
<1> QED
  BY <1>4, <1>5, <1>6, <1>7, <1>8, <1>9, <1>10

\* The form of a URL, apart from its server.
FormOk(t) ==
    /\ Colon(t) > 1 /\ AllIn(SubSeq(t, 1, Colon(t) - 1), Alpha)
    /\ Colon(t) + 2 <= Len(t) /\ SubSeq(t, Colon(t), Colon(t) + 2) = <<":", "/", "/">>
    /\ AllIn(t, UrlChar \cup {"?", "#"})

\* What the reference asks of a URL.
LEMMA SplitOk ==
    ASSUME NEW t
    PROVE  Split(t).ok <=> /\ FormOk(t) /\ ServerOk(ServerOf(t))
                           /\ Value(SplitServer(ServerOf(t)).port) <= MaxPort
  BY Zenon DEF Split, FormOk, ServerOk, ServerOf, Colon, ServerEnd

\* The three characters after the schema.
LEMMA SlashesAre ==
    ASSUME NEW t \in Seq(STRING), NEW c \in Nat \ {0}, c + 2 <= Len(t)
    PROVE  SubSeq(t, c, c + 2) = <<":", "/", "/">> <=> t[c] = ":" /\ t[c + 1] = "/" /\ t[c + 2] = "/"
<1> DEFINE x == SubSeq(t, c, c + 2)
           y == <<":", "/", "/">>
<1>1. c + 2 \in Int /\ c <= c + 2 /\ c + 2 - c + 1 = 3
  OBVIOUS
<1>2. /\ x \in Seq(STRING) /\ Len(x) = 3
      /\ \A k \in 1..3 : x[k] = t[c + k - 1]
  BY <1>1, PartIs
<1>3. x[1] = t[c] /\ x[2] = t[c + 1] /\ x[3] = t[c + 2]
  <2>1. c + 1 - 1 = c /\ c + 2 - 1 = c + 1 /\ c + 3 - 1 = c + 2
    OBVIOUS
  <2> HIDE DEF x
  <2> QED
    BY <1>2, <2>1
<1>4. y[1] = ":" /\ y[2] = "/" /\ y[3] = "/"
  OBVIOUS
<1>5. ASSUME t[c] = ":", t[c + 1] = "/", t[c + 2] = "/" PROVE x = y
  <2>1. y \in Seq({":", "/"}) /\ Len(y) = 3
    OBVIOUS
  <2>2. x \in Seq({":", "/"})
    <3>1. \A i \in c..c + 2 : t[i] \in {":", "/"}
      BY <1>5
    <3> QED
      BY <1>1, <3>1, SubSeqProperties
  <2>3. \A k \in 1..3 : x[k] = y[k]
    <3> HIDE DEF x
    <3>1. ASSUME NEW k \in 1..3 PROVE x[k] = y[k]
      <4>1. k = 1 \/ k = 2 \/ k = 3
        OBVIOUS
      <4> QED
        BY <1>3, <1>4, <1>5, <4>1
    <3> QED
      BY <3>1
  <2> HIDE DEF x, y
  <2> QED
    BY <1>2, <2>1, <2>2, <2>3, SeqEqual
<1> HIDE DEF x, y
<1> QED
  BY <1>3, <1>4, <1>5 DEF x, y

\* What has the form of a URL has no wrong character.
LEMMA SplitConforms ==
    ASSUME NEW t \in Seq(STRING), FormOk(t), ServerOk(ServerOf(t))
    PROVE  Conforming(t, Len(t))
<1> DEFINE c == Colon(t)
           v == ServerEnd(t)
           s == ServerOf(t)
<1>1. /\ c \in Nat \ {0} /\ v \in Nat /\ Len(t) \in Nat
      /\ v = Len(t) + 1 \/ v >= c + 3
  BY Delimiters
<1>2. /\ s \in Seq(STRING)
      /\ Len(s) = IF c + 3 <= v THEN v - (c + 3) ELSE 0
      /\ \A n \in 1..Len(s) : s[n] = t[c + 3 + n - 1]
  BY ServerIs
<1> HIDE DEF s
<1>3. \A n \in 1..Len(s) : HostConforms(s, n)
  BY <1>2, ServerAccepted DEF s
<1>4. \A n \in 1..Len(s) : s[n] \in ServerChar /\ (s[n] = "@" => n = AtSign(s))
  BY <1>2, <1>3, ServerChars
<1>5. c > 1 /\ c + 2 <= Len(t) /\ t[c + 1] = "/" /\ t[c + 2] = "/"
  BY <1>1, SlashesAre DEF FormOk
<1>6. \A j \in 1..c - 1 : t[j] \in Alpha
  <2>1. 1 \in Nat \ {0} /\ c - 1 \in Int /\ c - 1 <= Len(t)
    BY <1>1, <1>5
  <2>2. AllIn(SubSeq(t, 1, c - 1), Alpha)
    BY DEF FormOk
  <2> HIDE DEF c
  <2> QED
    BY <2>1, <2>2, PartAllIn
<1>7. \A j \in 1..Len(t) : t[j] \in UrlChar \cup {"?", "#"}
  BY DEF FormOk, AllIn
<1>8. ASSUME NEW j \in 1..Len(t) PROVE Conforms(t, j)
  <2>1. CASE j <= c
    BY <1>1, <1>5, <1>6, <2>1 DEF Conforms
  <2>2. CASE c < j /\ j < c + 3
    <3>1. j = c + 1 \/ j = c + 2
      BY <1>1, <2>2
    <3>2. t[j] = "/"
      BY <1>5, <3>1
    <3> QED
      BY <1>1, <2>2, <3>2 DEF Conforms
  <2>3. CASE c + 3 <= j /\ j < v
    <3> DEFINE n == j - c - 2
    <3>1. n \in 1..Len(s) /\ c + 3 + n - 1 = j /\ (t[j - 1] = "@" => j - 1 >= c + 3)
      BY <1>1, <1>2, <1>5, <2>3, SMTT(30)
    <3>2. s[n] = t[j]
      BY <1>2, <3>1
    <3>3. t[j] \in ServerChar /\ (t[j] = "@" => n = AtSign(s))
      BY <1>4, <3>1, <3>2
    <3>4. t[j - 1] = "@" => n - 1 = AtSign(s)
      <4> SUFFICES ASSUME t[j - 1] = "@" PROVE n - 1 = AtSign(s)
        OBVIOUS
      <4>1. n - 1 \in 1..Len(s) /\ c + 3 + (n - 1) - 1 = j - 1
        <5>1. j - 1 >= c + 3 /\ Len(s) = v - (c + 3) /\ c \in Nat /\ v \in Nat /\ j \in Nat /\ j < v
          BY <1>1, <1>2, <2>3, <3>1
        <5> HIDE DEF c, v
        <5> QED
          BY <5>1
      <4>2. s[n - 1] = t[j - 1]
        BY <1>2, <4>1
      <4> QED
        BY <1>4, <4>1, <4>2
    <3>5. n \in Int
      BY <1>1
    <3>6. t[j] = "@" => t[j - 1] # "@"
      BY <3>3, <3>4, <3>5
    <3> QED
      BY <1>1, <2>3, <3>3, <3>6 DEF Conforms
  <2>4. CASE c + 3 <= j /\ v <= j
    BY <1>1, <1>7, <2>4 DEF Conforms
  <2> QED
    BY <1>1, <2>1, <2>2, <2>3, <2>4
<1> QED
  BY <1>8 DEF Conforming

\* What has no wrong character and a server has the form of a URL.
LEMMA ConformsForm ==
    ASSUME NEW t \in Seq(STRING), Conforming(t, Len(t)), Colon(t) + 3 < ServerEnd(t)
    PROVE  FormOk(t)
<1> DEFINE c == Colon(t)
           v == ServerEnd(t)
<1>1. /\ c \in Nat \ {0} /\ v \in Nat /\ Len(t) \in Nat /\ v <= Len(t) + 1
      /\ c <= Len(t) => t[c] = ":"
  BY Delimiters
<1>2. \A j \in 1..Len(t) : Conforms(t, j)
  BY DEF Conforming
<1>3. c + 2 <= Len(t) /\ c \in 1..Len(t) /\ c + 1 \in 1..Len(t) /\ c + 2 \in 1..Len(t)
  BY <1>1
<1>4. c > 1 /\ t[c] = ":" /\ t[c + 1] = "/" /\ t[c + 2] = "/"
  <2>1. Conforms(t, c) /\ Conforms(t, c + 1) /\ Conforms(t, c + 2)
    BY <1>2, <1>3
  <2> QED
    BY <1>1, <1>3, <2>1 DEF Conforms
<1>5. \A j \in 1..c - 1 : t[j] \in Alpha
  <2>1. ASSUME NEW j \in 1..c - 1 PROVE t[j] \in Alpha
    <3>1. j \in 1..Len(t) /\ j < c
      BY <1>1, <1>3
    <3>2. Conforms(t, j)
      BY <1>2, <3>1
    <3> QED
      BY <3>1, <3>2 DEF Conforms
  <2> QED
    BY <2>1
<1>6. AllIn(SubSeq(t, 1, c - 1), Alpha)
  <2>1. 1 \in Nat \ {0} /\ c - 1 \in Int /\ c - 1 <= Len(t)
    BY <1>1, <1>3
  <2> HIDE DEF c
  <2> QED
    BY <1>5, <2>1, PartAllIn
<1>7. /\ Alpha \subseteq UrlChar /\ ServerChar \subseteq UrlChar /\ {":", "/"} \subseteq UrlChar
  BY DEF Alpha, UrlChar, UserinfoChar, HostChar, ServerChar, Num
<1>8. ASSUME NEW j \in 1..Len(t) PROVE t[j] \in UrlChar \cup {"?", "#"}
  <2>1. Conforms(t, j)
    BY <1>2
  <2>2. CASE j = c
    BY <1>4, <1>7, <2>2
  <2>3. CASE j # c
    <3>1. t[j] \in Alpha \/ t[j] = "/" \/ t[j] \in ServerChar \/ t[j] \in UrlChar \cup {"?", "#"}
      BY <2>1, <2>3 DEF Conforms
    <3> QED
      BY <1>7, <3>1
  <2> QED
    BY <2>2, <2>3
<1>9. AllIn(t, UrlChar \cup {"?", "#"})
  <2>1. DOMAIN t = 1..Len(t)
    OBVIOUS
  <2> QED
    BY <1>8, <2>1 DEF AllIn
<1>10. SubSeq(t, c, c + 2) = <<":", "/", "/">>
  <2> HIDE DEF c
  <2> QED
    BY <1>1, <1>3, <1>4, SlashesAre
<1> QED
  BY <1>3, <1>4, <1>6, <1>9, <1>10 DEF FormOk

\* What is copied of a field.
LEMMA CopyIs ==
    ASSUME NEW t \in Seq(STRING), NEW data \in [Fields -> Part], NEW f \in Fields,
           NEW a \in Nat \ {0}, NEW z \in Int, Holds(data[f], a, z)
    PROVE  copy_url_part(t, data, f) = SubSeq(t, a, z)
<1>1. data[f].off \in Nat /\ data[f].len \in Nat
  BY DEF Part
<1>2. CASE a <= z
  <2>1. data[f].off = a /\ data[f].len = z - a + 1
    BY <1>2 DEF Holds
  <2>2. a + (z - a + 1) - 1 = z
    OBVIOUS
  <2> QED
    BY <2>1, <2>2 DEF copy_url_part
<1>3. CASE z < a
  <2> DEFINE o == data[f].off
  <2>1. data[f].len = 0
    BY <1>3 DEF Holds
  <2>2. o \in Int /\ o + 0 - 1 \in Int /\ o + 0 - 1 < o
    BY <1>1
  <2>3. copy_url_part(t, data, f) = SubSeq(t, o, o + 0 - 1)
    BY <2>1 DEF copy_url_part
  <2> HIDE DEF o
  <2>4. SubSeq(t, o, o + 0 - 1) = <<>>
    BY <2>2, SubSeqEmpty
  <2>5. SubSeq(t, a, z) = <<>>
    BY <1>3, SubSeqEmpty
  <2> QED
    BY <2>3, <2>4, <2>5
<1> QED
  BY <1>2, <1>3

\* The scan of a URL without a wrong character.
LEMMA GoodScanIs ==
    ASSUME NEW t \in Seq(STRING), Conforming(t, Len(t))
    PROVE  /\ UrlScan(t).state # "dead"
           /\ UrlScan(t).data \in [Fields -> Part] /\ UrlScan(t).at \in BOOLEAN
           /\ \A g \in Fields : Holds(UrlScan(t).data[g], UrlFirst(t)[g], UrlLast(t)[g])
           /\ UrlScan(t).at <=> \E j \in Colon(t) + 3..ServerEnd(t) - 1 : t[j] = "@"
<1> DEFINE u == UrlScan(t)
<1>1. u \in Scans /\ GoodScan(t, u, Len(t))
  BY UrlScanned
<1> HIDE DEF u
<1>2. u.state # "dead"
  BY <1>1 DEF GoodScan, StateAt
<1>3. u.data \in [Fields -> Part] /\ u.at \in BOOLEAN
  BY <1>1 DEF Scans
<1>4. ASSUME NEW g \in Fields PROVE Holds(u.data[g], UrlFirst(t)[g], UrlLast(t)[g])
  <2>1. UrlLast(t)[g] \in Int /\ UrlLast(t)[g] <= Len(t) /\ Len(t) \in Nat
    BY UrlRanges
  <2>2. Upto(Len(t), UrlLast(t)[g]) = UrlLast(t)[g]
    BY <2>1 DEF Upto
  <2>3. Holds(u.data[g], UrlFirst(t)[g], Upto(Len(t), UrlLast(t)[g]))
    BY <1>1 DEF GoodScan, Held
  <2> QED
    BY <2>2, <2>3
<1>5. u.at <=> \E j \in Colon(t) + 3..ServerEnd(t) - 1 : t[j] = "@"
  <2>1. ServerEnd(t) - 1 <= Len(t) /\ Colon(t) \in Nat /\ ServerEnd(t) \in Nat
    BY Delimiters
  <2>2. HasAt(t, Len(t)) <=> \E j \in Colon(t) + 3..ServerEnd(t) - 1 : t[j] = "@"
    BY <2>1 DEF HasAt
  <2> QED
    BY <1>1, <2>2 DEF GoodScan
<1> QED
  BY <1>2, <1>3, <1>4, <1>5 DEF u

\* The scan of the server of such a URL, when there is one.
LEMMA GoodServer ==
    ASSUME NEW t \in Seq(STRING), Conforming(t, Len(t)), Colon(t) + 3 < ServerEnd(t)
    PROVE  IF \A n \in 1..Len(ServerOf(t)) : HostConforms(ServerOf(t), n)
           THEN GoodHost(Colon(t) + 3, ServerOf(t), UrlScan(t).data, ServerParts(t, UrlScan(t)),
                         Len(ServerOf(t)))
           ELSE ServerParts(t, UrlScan(t)).state = "host_dead"
<1> DEFINE b == Colon(t) + 3
           v == ServerEnd(t)
           s == ServerOf(t)
           data == UrlScan(t).data
           foundAt == UrlScan(t).at
<1>1. /\ s \in Seq(STRING) /\ b \in Nat \ {0} /\ v \in Nat
      /\ Len(s) = v - b
      /\ \A n \in 1..Len(s) : s[n] = t[b + n - 1]
  <2>1. Colon(t) \in Nat /\ v \in Nat
    BY Delimiters
  <2> HIDE DEF s
  <2>2. /\ s \in Seq(STRING)
        /\ Len(s) = IF Colon(t) + 3 <= v THEN v - (Colon(t) + 3) ELSE 0
        /\ \A n \in 1..Len(s) : s[n] = t[Colon(t) + 3 + n - 1]
    BY ServerIs DEF s
  <2> HIDE DEF v
  <2> QED
    BY <2>1, <2>2 DEF v
<1>2. /\ data \in [Fields -> Part] /\ foundAt \in BOOLEAN
      /\ \A g \in Fields : Holds(data[g], UrlFirst(t)[g], UrlLast(t)[g])
      /\ foundAt <=> \E j \in b..v - 1 : t[j] = "@"
  BY GoodScanIs
<1> HIDE DEF data, foundAt, s
<1>3. data["host"] = [off |-> b, len |-> v - 1 - b + 1]
  <2>1. "host" \in Fields
    BY DEF Fields
  <2>2. UrlFirst(t)["host"] = b /\ UrlLast(t)["host"] = v - 1
    BY UrlRanges
  <2>3. Holds(data["host"], b, v - 1)
    BY <1>2, <2>1, <2>2
  <2> HIDE DEF b, v
  <2>4. b <= v - 1
    BY <1>1 DEF b, v
  <2> QED
    BY <2>3, <2>4 DEF Holds
<1>4. data["host"].off = b /\ data["host"].len = Len(s)
  BY <1>1, <1>3
<1>5. data["userinfo"].len = 0 /\ data["port"].len = 0
  <2>1. "userinfo" \in Fields /\ "port" \in Fields
    BY DEF Fields
  <2>2. Holds(data["userinfo"], 1, 0) /\ Holds(data["port"], 1, 0)
    BY <1>2, <2>1, UrlRanges
  <2> QED
    BY <2>2 DEF Holds
<1>6. foundAt <=> HasUser(s)
  <2>1. /\ Len(s) \in Nat /\ AtSign(s) \in 1..Len(s) + 1
        /\ AtSign(s) <= Len(s) => s[AtSign(s)] = "@"
        /\ \A j \in 1..AtSign(s) - 1 : s[j] # "@"
    BY <1>1, ServerMarks
  <2>2. ASSUME HasUser(s) PROVE \E j \in b..v - 1 : t[j] = "@"
    <3>1. AtSign(s) \in 1..Len(s) /\ s[AtSign(s)] = "@"
      BY <2>1, <2>2 DEF HasUser
    <3>2. t[b + AtSign(s) - 1] = "@" /\ b + AtSign(s) - 1 \in b..v - 1
      BY <1>1, <3>1
    <3> QED
      BY <3>2
  <2>3. ASSUME NEW j \in b..v - 1, t[j] = "@" PROVE HasUser(s)
    <3>1. j - b + 1 \in 1..Len(s) /\ b + (j - b + 1) - 1 = j
      BY <1>1
    <3>2. s[j - b + 1] = "@"
      BY <1>1, <2>3, <3>1
    <3> QED
      BY <2>1, <3>1, <3>2 DEF HasUser
  <2> QED
    BY <1>2, <2>2, <2>3
<1>7. \A n \in 1..Len(s) : t[data["host"].off + n - 1] = s[n]
  BY <1>1, <1>4
<1>8. data["host"].off # 0
  BY <1>1, <1>4
<1>9. IF \A n \in 1..Len(s) : HostConforms(s, n)
      THEN GoodHost(data["host"].off, s, data, http_parse_host(t, data, foundAt), Len(s))
      ELSE http_parse_host(t, data, foundAt).state = "host_dead"
  <2> HIDE DEF b, v
  <2> QED
    BY <1>1, <1>2, <1>4, <1>5, <1>6, <1>7, <1>8, HostParsed
<1> QED
  BY <1>4, <1>9 DEF data, foundAt, s, ServerParts

\* A server without a wrong character: its parts.
LEMMA GoodParts ==
    ASSUME NEW t \in Seq(STRING), Conforming(t, Len(t)), Colon(t) + 3 < ServerEnd(t),
           ServerOk(ServerOf(t)),
           NEW h \in HostScans,
           GoodHost(Colon(t) + 3, ServerOf(t), UrlScan(t).data, h, Len(ServerOf(t)))
    PROVE  /\ \A g \in ServerFields :
                Holds(h.data[g], HostFirst(Colon(t) + 3, ServerOf(t))[g], HostLast(Colon(t) + 3, ServerOf(t))[g])
           /\ SplitServer(ServerOf(t)).port \in Seq(Num)
           /\ PortNumber(t, h.data["port"]) = Value(SplitServer(ServerOf(t)).port)
           /\ \A g \in ServerFields : copy_url_part(t, h.data, g) = SplitServer(ServerOf(t))[g]
<1> DEFINE b == Colon(t) + 3
           v == ServerEnd(t)
           s == ServerOf(t)
           m == Len(s)
           A == AtSign(s)
           F == HostBegin(s)
           E == HostEnd(s)
           P == PortMark(s)
<1>1. /\ s \in Seq(STRING) /\ b \in Nat \ {0} /\ v \in Nat /\ m \in Nat
      /\ m = v - b /\ b < v /\ v - 1 <= Len(t)
      /\ \A n \in 1..m : s[n] = t[b + n - 1]
  <2>1. Colon(t) \in Nat /\ v \in Nat /\ v - 1 <= Len(t)
    BY Delimiters
  <2> HIDE DEF s
  <2>2. /\ s \in Seq(STRING)
        /\ Len(s) = IF Colon(t) + 3 <= v THEN v - (Colon(t) + 3) ELSE 0
        /\ \A n \in 1..Len(s) : s[n] = t[Colon(t) + 3 + n - 1]
    BY ServerIs DEF s
  <2>3. Colon(t) + 3 < v
    OBVIOUS
  <2> HIDE DEF v
  <2>4. /\ Colon(t) + 3 \in Nat \ {0} /\ Len(s) \in Nat /\ Len(s) = v - (Colon(t) + 3)
        /\ v - 1 <= Len(t)
    BY <2>1, <2>2, <2>3
  <2> QED
    BY <2>1, <2>2, <2>3, <2>4
<1>2. s = SubSeq(t, b, v - 1)
  BY DEF ServerOf
<1> HIDE DEF s
<1>3. /\ A \in 1..m + 1 /\ F \in Nat \ {0} /\ E \in F..m + 1 /\ P \in Nat \ {0}
      /\ HasUser(s) => A <= m
  <2>1. A \in 1..m + 1 /\ HostOn(s) \in 1..m + 1 /\ E \in F..m + 1
    BY <1>1, ServerMarks
  <2>2. HasUser(s) => A <= m
    BY DEF HasUser
  <2>3. F = HostOn(s) \/ F = HostOn(s) + 1
    BY DEF HostBegin
  <2>4. P = E \/ P = E + 1
    BY DEF PortMark
  <2> HIDE DEF A, F, E, P, m
  <2>5. F \in Nat \ {0}
    BY <1>1, <2>1, <2>3, SMTT(30)
  <2>6. P \in Nat \ {0}
    BY <1>1, <2>1, <2>4, <2>5, SMTT(30)
  <2> QED
    BY <2>1, <2>2, <2>5, <2>6
<1>4. /\ HostFirst(b, s) \in [Fields -> Nat] /\ HostLast(b, s) \in [Fields -> Int]
      /\ \A g \in ServerFields : HostFirst(b, s)[g] >= b /\ HostLast(b, s)[g] <= b - 1 + m
      /\ HostFirst(b, s)["host"] = b - 1 + F /\ HostLast(b, s)["host"] = b - 1 + (E - 1)
      /\ HostFirst(b, s)["port"] = b - 1 + (P + 1) /\ HostLast(b, s)["port"] = b - 1 + m
      /\ HostFirst(b, s)["userinfo"] = b - 1 + 1
      /\ HostLast(b, s)["userinfo"] = b - 1 + (IF HasUser(s) THEN A - 1 ELSE 0)
  BY <1>1, HostRanges
<1>5. ServerFields \subseteq Fields /\ {"userinfo", "host", "port"} = ServerFields
  BY DEF ServerFields, Fields
<1>6. h.data \in [Fields -> Part]
  BY DEF HostScans
<1>7. Held(h.data, ServerFields, HostFirst(b, s), HostLast(b, s), b + m - 1)
  BY DEF GoodHost, s
<1> HIDE DEF A, F, E, P, m, b, v
<1>8. ASSUME NEW g \in ServerFields PROVE Holds(h.data[g], HostFirst(b, s)[g], HostLast(b, s)[g])
  <2>1. Holds(h.data[g], HostFirst(b, s)[g], Upto(b + m - 1, HostLast(b, s)[g]))
    BY <1>7 DEF Held
  <2>2. HostLast(b, s)[g] \in Int /\ HostLast(b, s)[g] <= b - 1 + m
    BY <1>4, <1>5
  <2>3. Upto(b + m - 1, HostLast(b, s)[g]) = HostLast(b, s)[g]
    BY <1>1, <2>2 DEF Upto
  <2> QED
    BY <2>1, <2>3
<1>9. /\ SplitServer(s).userinfo = IF HasUser(s) THEN SubSeq(s, 1, A - 1) ELSE <<>>
      /\ SplitServer(s).host = SubSeq(s, F, E - 1)
      /\ SplitServer(s).port = Without(SubSeq(s, P, m), ":")
      /\ P <= m => s[P] = ":"
  BY <1>1, SplitIs DEF ServerOk, s, A, F, E, P, m
<1>10. SplitServer(s).port = SubSeq(s, P + 1, m)
  <2>1. m \in Int /\ m <= Len(s)
    BY <1>1 DEF m
  <2>2. SubSeq(s, P, m) = <<>> <=> m < P
    BY <1>1, <1>3, <2>1, PartEmpty
  <2>3. CASE P <= m
    <3>1. Head(SubSeq(s, P, m)) = s[P] /\ Tail(SubSeq(s, P, m)) = SubSeq(s, P + 1, m)
      BY <1>1, <1>3, <2>1, <2>3, PartHead
    <3>2. SubSeq(s, P, m) # <<>>
      BY <1>3, <2>1, <2>2, <2>3
    <3> QED
      BY <1>9, <2>3, <3>1, <3>2 DEF Without
  <2>4. CASE m < P
    <3>1. P + 1 \in Int /\ m < P + 1
      BY <1>3, <2>1, <2>4
    <3>2. SubSeq(s, P + 1, m) = <<>>
      BY <2>1, <3>1, SubSeqEmpty
    <3> QED
      BY <1>9, <2>2, <2>4, <3>2 DEF Without
  <2> QED
    BY <1>3, <2>1, <2>3, <2>4
\* A part of the server is that part of the URL.
<1>11. ASSUME NEW x \in Nat \ {0}, NEW y \in Int, y <= m
       PROVE  SubSeq(s, x, y) = SubSeq(t, b - 1 + x, b - 1 + y)
  <2>1. v - 1 \in Int /\ v - 1 <= Len(t) /\ b - 1 <= v - 1 /\ y <= v - 1 - b + 1
    BY <1>1, <1>11
  <2>2. SubSeq(SubSeq(t, b, v - 1), x, y) = SubSeq(t, b + x - 1, b + y - 1)
    BY <1>1, <1>11, <2>1, PartOfPart
  <2>3. b + x - 1 = b - 1 + x /\ b + y - 1 = b - 1 + y
    BY <1>1, <1>11
  <2> QED
    BY <1>2, <2>2, <2>3
<1>12. ASSUME NEW g \in {"userinfo", "host", "port"}
       PROVE  copy_url_part(t, h.data, g) = SubSeq(t, HostFirst(b, s)[g], HostLast(b, s)[g])
  <2>1. g \in Fields /\ Holds(h.data[g], HostFirst(b, s)[g], HostLast(b, s)[g])
    BY <1>5, <1>8
  <2>2. HostFirst(b, s)[g] \in Nat \ {0} /\ HostLast(b, s)[g] \in Int
    BY <1>1, <1>4, <1>5, SMTT(30)
  <2> QED
    BY <1>6, <2>1, <2>2, CopyIs
<1>13. copy_url_part(t, h.data, "host") = SplitServer(s).host
  <2>1. E - 1 \in Int /\ E - 1 <= m
    BY <1>1, <1>3
  <2>2. SubSeq(s, F, E - 1) = SubSeq(t, b - 1 + F, b - 1 + (E - 1))
    BY <1>3, <1>11, <2>1
  <2> QED
    BY <1>4, <1>9, <1>12, <2>2
<1>14. copy_url_part(t, h.data, "port") = SplitServer(s).port
  <2>1. P + 1 \in Nat \ {0} /\ m \in Int /\ m <= m
    BY <1>1, <1>3
  <2>2. SubSeq(s, P + 1, m) = SubSeq(t, b - 1 + (P + 1), b - 1 + m)
    BY <1>11, <2>1
  <2> QED
    BY <1>4, <1>10, <1>12, <2>2
<1>15. copy_url_part(t, h.data, "userinfo") = SplitServer(s).userinfo
  <2>1. CASE HasUser(s)
    <3>1. 1 \in Nat \ {0} /\ A - 1 \in Int /\ A - 1 <= m
      BY <1>1, <1>3, <2>1, SMTT(30)
    <3>2. SubSeq(s, 1, A - 1) = SubSeq(t, b - 1 + 1, b - 1 + (A - 1))
      BY <1>11, <3>1
    <3> QED
      BY <1>4, <1>9, <1>12, <2>1, <3>2
  <2>2. CASE ~HasUser(s)
    <3>1. b - 1 + 1 \in Int /\ b - 1 + 0 \in Int /\ b - 1 + 0 < b - 1 + 1
      BY <1>1
    <3>2. SubSeq(t, b - 1 + 1, b - 1 + 0) = <<>>
      BY <3>1, SubSeqEmpty
    <3> QED
      BY <1>4, <1>9, <1>12, <2>2, <3>2
  <2> QED
    BY <2>1, <2>2
<1>16. PortNumber(t, h.data["port"]) = Value(SplitServer(s).port)
  <2> DEFINE digits == SplitServer(s).port
             field == h.data["port"]
  <2>1. "port" \in Fields /\ "port" \in ServerFields
    BY DEF Fields, ServerFields
  <2>2. Holds(field, b - 1 + (P + 1), b - 1 + m)
    BY <1>4, <1>8, <2>1
  <2>3. field.len \in Nat
    BY <1>6, <2>1 DEF Part
  <2>4. P + 1 \in Nat \ {0} /\ m \in Int /\ m <= Len(s)
    BY <1>1, <1>3 DEF m
  <2>5. /\ Len(digits) = IF P + 1 <= m THEN m - (P + 1) + 1 ELSE 0
        /\ \A k \in 1..m - (P + 1) + 1 : digits[k] = s[P + 1 + k - 1]
    BY <1>1, <1>10, <2>4, PartIs, SMTT(30)
  <2> HIDE DEF digits, field
  <2>6. CASE P + 1 <= m
    <3>1. field.off = b - 1 + (P + 1) /\ field.len = b - 1 + m - (b - 1 + (P + 1)) + 1
      BY <1>1, <1>3, <2>2, <2>6 DEF Holds
    <3>2. field.len = m - P /\ Len(digits) = field.len
      <4>1. b \in Nat /\ m \in Nat /\ P \in Nat
        BY <1>1, <1>3
      <4>2. Len(digits) = m - (P + 1) + 1
        BY <2>5, <2>6
      <4>3. m - (P + 1) + 1 = m - P /\ b - 1 + m - (b - 1 + (P + 1)) + 1 = m - P
        BY <4>1
      <4> QED
        BY <3>1, <4>2, <4>3
    <3>3. ASSUME NEW n \in 1..field.len PROVE t[field.off + n - 1] = digits[n]
      <4>1. n \in 1..m - (P + 1) + 1 /\ P + 1 + n - 1 \in 1..m
        BY <1>1, <1>3, <2>6, <3>2
      <4>2. digits[n] = s[P + 1 + n - 1]
        BY <2>5, <4>1
      <4>3. s[P + 1 + n - 1] = t[b + (P + 1 + n - 1) - 1]
        BY <1>1, <4>1
      <4>4. b + (P + 1 + n - 1) - 1 = field.off + n - 1
        BY <1>1, <1>3, <3>1, <4>1, SMTT(30)
      <4> QED
        BY <4>2, <4>3, <4>4
    <3>4. PortNumber(t, field) = Value(digits)
      BY <2>3, <3>2, <3>3, PortNumberIs
    <3> QED
      BY <3>4 DEF digits, field
  <2>7. CASE ~(P + 1 <= m)
    <3>1. field.len = 0
      BY <1>1, <1>3, <2>2, <2>7 DEF Holds
    <3>2. Len(digits) = field.len /\ \A n \in 1..field.len : t[field.off + n - 1] = digits[n]
      BY <2>5, <2>7, <3>1
    <3>3. PortNumber(t, field) = Value(digits)
      BY <2>3, <3>2, PortNumberIs
    <3> QED
      BY <3>3 DEF digits, field
  <2> QED
    BY <2>6, <2>7
<1>17. ASSUME NEW g \in ServerFields PROVE copy_url_part(t, h.data, g) = SplitServer(s)[g]
  <2>1. g = "host" \/ g = "port" \/ g = "userinfo"
    BY DEF ServerFields
  <2> QED
    BY <1>13, <1>14, <1>15, <2>1
<1>18. SplitServer(s).port \in Seq(Num)
  <2>1. P <= m => \A n \in P + 1..m : s[n] \in Num
    BY <1>1, SplitIs DEF ServerOk, s, P, m
  <2>2. P + 1 \in Int /\ m \in Int
    BY <1>1, <1>3
  <2>3. \A n \in P + 1..m : s[n] \in Num
    BY <1>1, <1>3, <2>1
  <2> QED
    BY <1>10, <2>2, <2>3, SubSeqProperties
<1> QED
  BY <1>8, <1>16, <1>17, <1>18 DEF b, s

\* The other parts.
LEMMA OtherParts ==
    ASSUME NEW t \in Seq(STRING), Conforming(t, Len(t)), NEW data \in [Fields -> Part],
           \A g \in Fields \ ServerFields : data[g] = UrlScan(t).data[g],
           NEW f \in Fields \ ServerFields
    PROVE  copy_url_part(t, data, f) = Split(t).part[f]
<1>1. Holds(data[f], UrlFirst(t)[f], UrlLast(t)[f])
  BY GoodScanIs
<1>2. /\ UrlFirst(t) \in [Fields -> Nat] /\ UrlLast(t) \in [Fields -> Int]
      /\ \A g \in Fields : UrlFirst(t)[g] >= 1
      /\ UrlFirst(t)["schema"] = 1 /\ UrlLast(t)["schema"] = Colon(t) - 1
      /\ UrlFirst(t)["path"] = ServerEnd(t) /\ UrlLast(t)["path"] = PathEnd(t) - 1
      /\ UrlFirst(t)["query"] = PathEnd(t) + 1 /\ UrlLast(t)["query"] = QueryEnd(t) - 1
      /\ UrlFirst(t)["fragment"] = Hashes(t) /\ UrlLast(t)["fragment"] = Len(t)
  BY UrlRanges
<1>3. UrlFirst(t)[f] \in Nat \ {0} /\ UrlLast(t)[f] \in Int
  BY <1>2
<1>4. copy_url_part(t, data, f) = SubSeq(t, UrlFirst(t)[f], UrlLast(t)[f])
  BY <1>1, <1>3, CopyIs
<1>5. f = "schema" \/ f = "path" \/ f = "query" \/ f = "fragment"
  BY DEF Fields, ServerFields
<1>6. Split(t).part[f] =
        CASE f = "schema" -> SubSeq(t, 1, Colon(t) - 1)
          [] f = "path" -> SubSeq(t, ServerEnd(t), PathEnd(t) - 1)
          [] f = "query" -> SubSeq(t, PathEnd(t) + 1, QueryEnd(t) - 1)
          [] f = "fragment" -> SubSeq(t, Hashes(t), Len(t))
          [] OTHER -> SplitServer(ServerOf(t))[f]
  BY DEF Split, Colon, ServerEnd, PathEnd, QueryEnd, Hashes, ServerOf
<1>7. CASE f = "schema"
  BY <1>2, <1>4, <1>6, <1>7
<1>8. CASE f = "path"
  BY <1>2, <1>4, <1>6, <1>8
<1>9. CASE f = "query"
  BY <1>2, <1>4, <1>6, <1>9
<1>10. CASE f = "fragment"
  BY <1>2, <1>4, <1>6, <1>10
<1> QED
  BY <1>5, <1>7, <1>8, <1>9, <1>10

-----------------------------------------------------------------------------
(* The two ways agree.                                                      *)

Refused(t) ==
    \/ UrlScan(t).state = "dead"
    \/ UrlScan(t).data["schema"].len = 0 \/ UrlScan(t).data["host"].len = 0
    \/ ServerParts(t, UrlScan(t)).state \in Unfinished \cup {"host_dead"}
    \/ PortNumber(t, ServerParts(t, UrlScan(t)).data["port"]) > MaxPort

\* script_parse_url in terms of what makes it refuse.
LEMMA ParsedIs ==
    ASSUME NEW t
    PROVE  /\ script_parse_url(t).ok <=> ~Refused(t)
           /\ ~Refused(t) => script_parse_url(t).data = ServerParts(t, UrlScan(t)).data
<1>1. script_parse_url(t) = IF Refused(t) THEN Rejected
                            ELSE [ok |-> TRUE, data |-> ServerParts(t, UrlScan(t)).data]
  BY Zenon DEF script_parse_url, Refused
<1>2. CASE Refused(t)
  <2>1. script_parse_url(t).ok = FALSE
    BY <1>1, <1>2 DEF Rejected
  <2> QED
    BY <1>2, <2>1
<1>3. CASE ~Refused(t)
  BY <1>1, <1>3
<1> QED
  BY <1>2, <1>3

\* A wrong character: neither takes the URL.
LEMMA LostIsRefused ==
    ASSUME NEW t \in Seq(STRING), ~Conforming(t, Len(t))
    PROVE  Refused(t) /\ ~Split(t).ok
<1>1. LostScan(UrlScan(t))
  BY UrlScanned
<1>2. Refused(t)
  BY <1>1 DEF LostScan, Refused
<1>3. ~(FormOk(t) /\ ServerOk(ServerOf(t)))
  BY SplitConforms
<1> QED
  BY <1>2, <1>3, SplitOk

\* An empty server: neither does.
LEMMA NoServerIsRefused ==
    ASSUME NEW t \in Seq(STRING), Conforming(t, Len(t)), ~(Colon(t) + 3 < ServerEnd(t))
    PROVE  Refused(t) /\ ~Split(t).ok
<1>1. Colon(t) \in Nat /\ ServerEnd(t) \in Nat
  BY Delimiters
<1>2. UrlScan(t).data["host"].len = 0
  <2>1. "host" \in Fields
    BY DEF Fields
  <2>2. UrlFirst(t)["host"] = Colon(t) + 3 /\ UrlLast(t)["host"] = ServerEnd(t) - 1
    BY UrlRanges
  <2>3. Holds(UrlScan(t).data["host"], Colon(t) + 3, ServerEnd(t) - 1)
    BY <2>1, <2>2, GoodScanIs
  <2>4. ~(Colon(t) + 3 <= ServerEnd(t) - 1)
    BY <1>1
  <2> QED
    BY <2>3, <2>4 DEF Holds
<1>3. ServerOf(t) \in Seq(STRING) /\ Len(ServerOf(t)) = 0
  <2>1. /\ ServerOf(t) \in Seq(STRING)
        /\ Len(ServerOf(t)) = IF Colon(t) + 3 <= ServerEnd(t) THEN ServerEnd(t) - (Colon(t) + 3) ELSE 0
    BY ServerIs
  <2> QED
    BY <1>1, <2>1
<1>4. ~ServerOk(ServerOf(t))
  <2> DEFINE s == ServerOf(t)
  <2>1. s \in Seq(STRING) /\ Len(s) = 0
    BY <1>3
  <2> HIDE DEF s
  <2>2. HostOn(s) \in 1..1 /\ HostEnd(s) \in HostBegin(s)..1
    <3>1. HostOn(s) \in 1..Len(s) + 1 /\ HostEnd(s) \in HostBegin(s)..Len(s) + 1
      BY <2>1, ServerMarks
    <3> QED
      BY <2>1, <3>1
  <2>3. HostBegin(s) = HostOn(s) \/ HostBegin(s) = HostOn(s) + 1
    BY DEF HostBegin
  <2>4. ~(HostBegin(s) < HostEnd(s))
    BY <2>2, <2>3
  <2>5. ~SplitServer(s).ok
    BY <2>1, <2>4, SplitIs
  <2> QED
    BY <2>5 DEF ServerOk, s
<1> QED
  BY <1>2, <1>4, SplitOk DEF Refused

\* The fields are found when there is a server.
LEMMA ServerPartsTypes ==
    ASSUME NEW t \in Seq(STRING), Conforming(t, Len(t)), Colon(t) + 3 < ServerEnd(t)
    PROVE  /\ ServerParts(t, UrlScan(t)) \in HostScans
           /\ UrlScan(t).data["schema"].len = 0 <=> Colon(t) = 1
           /\ UrlScan(t).data["host"].len # 0
<1> DEFINE data == UrlScan(t).data
           foundAt == UrlScan(t).at
           c == Colon(t)
           v == ServerEnd(t)
<1>1. c \in Nat \ {0} /\ v \in Nat
  BY Delimiters
<1>2. /\ data \in [Fields -> Part] /\ foundAt \in BOOLEAN
      /\ \A g \in Fields : Holds(data[g], UrlFirst(t)[g], UrlLast(t)[g])
  BY GoodScanIs
<1>3. "host" \in Fields /\ "schema" \in Fields
  BY DEF Fields
<1>4. Holds(data["host"], c + 3, v - 1) /\ Holds(data["schema"], 1, c - 1)
  BY <1>2, <1>3, UrlRanges
<1>5. c + 3 < v
  OBVIOUS
<1>6. ServerParts(t, UrlScan(t)) = http_parse_host(t, data, foundAt)
  BY DEF ServerParts
<1> HIDE DEF data, foundAt, c, v
<1>7. data["host"] = [off |-> c + 3, len |-> v - 1 - (c + 3) + 1]
  BY <1>1, <1>4, <1>5 DEF Holds
<1>8. data["host"].off # 0 /\ data["host"].len # 0 /\ data["host"].len \in Nat
  BY <1>1, <1>5, <1>7
<1>9. data["schema"].len = 0 <=> c = 1
  BY <1>1, <1>4 DEF Holds
<1>10. http_parse_host(t, data, foundAt) \in HostScans
  <2> DEFINE m == data["host"].len
  <2>1. PICK at : /\ at \in [0..m -> HostScans]
                  /\ http_parse_host(t, data, foundAt) = at[m]
    BY <1>2, <1>8, HostRuns
  <2>2. m \in 0..m
    BY <1>8
  <2> HIDE DEF m, HostScans
  <2> QED
    BY <2>1, <2>2
<1> QED
  BY <1>6, <1>8, <1>9, <1>10 DEF data, c

\* script_parse_url and the reference agree on every text.
LEMMA UrlMatches ==
    ASSUME NEW t \in Seq(STRING)
    PROVE  /\ script_parse_url(t).ok = Split(t).ok
           /\ script_parse_url(t).ok =>
                \A f \in Fields : copy_url_part(t, script_parse_url(t).data, f) = Split(t).part[f]
<1> DEFINE s == ServerOf(t)
           u == UrlScan(t)
           h == ServerParts(t, u)
<1>0. script_parse_url(t).ok \in BOOLEAN /\ Split(t).ok \in BOOLEAN
  BY DEF script_parse_url, Rejected, Split
<1>1. CASE ~Conforming(t, Len(t))
  BY <1>0, <1>1, LostIsRefused, ParsedIs
<1>2. CASE Conforming(t, Len(t)) /\ ~(Colon(t) + 3 < ServerEnd(t))
  BY <1>0, <1>2, NoServerIsRefused, ParsedIs
<1>3. CASE Conforming(t, Len(t)) /\ Colon(t) + 3 < ServerEnd(t)
  <2>1. FormOk(t)
    BY <1>3, ConformsForm
  <2>2. s \in Seq(STRING)
    BY ServerIs
  <2>3. h \in HostScans /\ u.data["schema"].len # 0 /\ u.data["host"].len # 0 /\ u.state # "dead"
    <3>1. Colon(t) > 1 /\ Colon(t) \in Nat
      BY <2>1, Delimiters DEF FormOk
    <3> QED
      BY <1>3, <3>1, ServerPartsTypes, GoodScanIs
  <2>4. IF \A n \in 1..Len(s) : HostConforms(s, n)
        THEN GoodHost(Colon(t) + 3, s, u.data, h, Len(s))
        ELSE h.state = "host_dead"
    BY <1>3, GoodServer
  <2>5. Refused(t) <=> \/ h.state \in Unfinished \cup {"host_dead"}
                       \/ PortNumber(t, h.data["port"]) > MaxPort
    BY <2>3 DEF Refused
  <2>6. Split(t).ok <=> ServerOk(s) /\ Value(SplitServer(s).port) <= MaxPort
    BY <2>1, SplitOk
  <2> HIDE DEF s, u, h
  <2>7. CASE ~ServerOk(s)
    <3>1. h.state \in Unfinished \cup {"host_dead"}
      BY <2>2, <2>4, <2>7, ServerAccepted DEF GoodHost
    <3> QED
      BY <1>0, <2>5, <2>6, <2>7, <3>1, ParsedIs
  <2>8. CASE ServerOk(s)
    <3>1. GoodHost(Colon(t) + 3, s, u.data, h, Len(s)) /\ HostStateAt(s, Len(s)) \notin Unfinished
      BY <2>2, <2>4, <2>8, ServerAccepted
    <3>2. h.state \notin Unfinished \cup {"host_dead"}
      <4>1. h.state = HostStateAt(s, Len(s))
        BY <3>1 DEF GoodHost
      <4>2. HostStateAt(s, Len(s)) # "host_dead"
        BY DEF HostStateAt
      <4> QED
        BY <3>1, <4>1, <4>2
    <3>3. /\ SplitServer(s).port \in Seq(Num)
          /\ PortNumber(t, h.data["port"]) = Value(SplitServer(s).port)
          /\ \A g \in ServerFields : copy_url_part(t, h.data, g) = SplitServer(s)[g]
      BY <1>3, <2>3, <2>8, <3>1, GoodParts DEF s, u
    <3>4. Value(SplitServer(s).port) \in Nat /\ MaxPort \in Nat
      BY <3>3, ValueTypes, UrlsAssumption
    <3>5. script_parse_url(t).ok <=> Split(t).ok
      BY <2>5, <2>6, <2>8, <3>2, <3>3, <3>4, ParsedIs DEF h, u
    <3>6. ASSUME script_parse_url(t).ok, NEW f \in Fields
          PROVE  copy_url_part(t, script_parse_url(t).data, f) = Split(t).part[f]
      <4>1. script_parse_url(t).data = h.data
        BY <3>6, ParsedIs DEF h, u
      <4>2. CASE f \in ServerFields
        <5>1. f = "host" \/ f = "port" \/ f = "userinfo"
          BY <4>2 DEF ServerFields
        <5>2. Split(t).part[f] = SplitServer(s)[f]
          BY <5>1 DEF Split, s, ServerOf, Colon, ServerEnd, Fields
        <5> QED
          BY <3>3, <4>1, <4>2, <5>2
      <4>3. CASE f \notin ServerFields
        <5>1. h.data \in [Fields -> Part]
          BY <2>3 DEF HostScans
        <5>2. \A g \in Fields \ ServerFields : h.data[g] = UrlScan(t).data[g]
          BY <3>1 DEF GoodHost, u
        <5>3. copy_url_part(t, h.data, f) = Split(t).part[f]
          BY <1>3, <4>3, <5>1, <5>2, OtherParts
        <5> QED
          BY <4>1, <5>3
      <4> QED
        BY <4>2, <4>3
    <3> QED
      BY <1>0, <3>5, <3>6
  <2> QED
    BY <2>7, <2>8
<1> QED
  BY <1>1, <1>2, <1>3

\* The URL of the command line is one such text.
LEMMA WorkImpliesUrls == WorkInv => UrlPartsMatch
<1> SUFFICES ASSUME WorkInv, command.url # <<>>
             PROVE  /\ script_parse_url(command.url).ok = Split(command.url).ok
                    /\ script_parse_url(command.url).ok =>
                          \A f \in Fields : copy_url_part(command.url, script_parse_url(command.url).data, f)
                                            = Split(command.url).part[f]
  BY Zenon DEF UrlPartsMatch
<1>1. command.url \in Seq(STRING)
  BY StartupAssumption DEF WorkInv
<1> QED
  BY <1>1, UrlMatches

\* Whatever the URL of the command line: the automata of http_parser.c and
\* the reference agree on whether it is one, and on each of its seven parts,
\* so no character is lost or given to another part (wrk.c:710).
THEOREM UrlsAreTakenApart == Spec => []UrlPartsMatch
  BY InitInv, WorkInit, InductiveStep, WorkStep, WorkImpliesUrls, PTL DEF Spec
=============================================================================
