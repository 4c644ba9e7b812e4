------------------------------ MODULE Settings ------------------------------
(***************************************************************************)
(* The command line: numbers with units (src/src/units.c) and what         *)
(* parse_args of src/src/wrk.c accepts.  A number is what sscanf makes of  *)
(* a text: digits that may follow a sign, and the first two letters of     *)
(* what comes next, in lower case.                                         *)
(***************************************************************************)
EXTENDS Urls

CONSTANTS
    Word,             \* 2^64: numbers are uint64_t
    MetricScale,      \* 1000
    TimeScale,        \* 60
    MsPerSecond,      \* 1000
    DefaultThreads, DefaultConnections, DefaultDuration,
    SOCKET_TIMEOUT_MS

ASSUME SettingsAssumption ==
    /\ Word \in Nat \ {0} /\ MetricScale \in Nat \ {0} /\ TimeScale \in Nat \ {0}
    /\ MsPerSecond \in Nat
    /\ DefaultThreads \in 1..Word - 1 /\ DefaultDuration \in 1..Word - 1
    /\ DefaultConnections \in DefaultThreads..Word - 1
    /\ SOCKET_TIMEOUT_MS \in 0..Word - 1

\* A text: the digits' value, or none at all; the sign; the unit, or "".
Number(n, negative, unit) ==
    [given |-> TRUE, digits |-> TRUE, n |-> n, negative |-> negative, unit |-> unit]
NotANumber == [given |-> TRUE, digits |-> FALSE, n |-> 0, negative |-> FALSE, unit |-> ""]
NotGiven == [given |-> FALSE, digits |-> FALSE, n |-> 0, negative |-> FALSE, unit |-> ""]

metric_units == [scale |-> MetricScale, base |-> "", units |-> <<"k", "m", "g", "t", "p">>]
time_units_s == [scale |-> TimeScale, base |-> "s", units |-> <<"m", "h">>]

\* %lu takes a sign and wraps; a number too large becomes the largest.
ScanNumber(s) ==
    CASE s.n >= Word -> Word - 1
      [] s.n < Word /\ s.negative -> (Word - s.n) % Word
      [] OTHER -> s.n

\* scale after i rounds of the loop of scan_units.
Scale(m, i) ==
    LET scale[k \in 0..i] == IF k = 0 THEN 1 ELSE (scale[k - 1] * m.scale) % Word
    IN scale[i]

\* The rounds it takes to find a unit: none for the base unit or no unit.
Rounds(m, unit) == {i \in DOMAIN m.units : m.units[i] = unit}
                   \cup (IF unit \in {"", m.base} THEN {0} ELSE {})

CanScan(s, m) == s.digits /\ Rounds(m, s.unit) # {}
scan_units(s, m) == (ScanNumber(s) * Scale(m, CHOOSE i \in Rounds(m, s.unit) : TRUE)) % Word

-----------------------------------------------------------------------------
(* parse_args.  The options: t, c, d, T and R with a number each, the CPUs  *)
(* of -a (0: not given, -1: a number no long holds is among them), whether  *)
(* there is one it does not know, -B, and the URL (<<>>: none).             *)

Option(s, m, default) == IF s.given THEN scan_units(s, m) ELSE default

Config(o) ==
    [threads     |-> Option(o.t, metric_units, DefaultThreads),
     connections |-> Option(o.c, metric_units, DefaultConnections),
     duration    |-> Option(o.d, time_units_s, DefaultDuration),
     timeout     |-> IF o.T.given THEN (scan_units(o.T, time_units_s) * MsPerSecond) % Word
                     ELSE SOCKET_TIMEOUT_MS,
     rate        |-> Option(o.R, metric_units, 0),
     record_all_responses |-> ~o.B,
     pipeline |-> 0, dynamic |-> FALSE, tls |-> FALSE]

OptionsScan(o) ==
    /\ ~o.unknown
    /\ \A s \in {o.t, o.c, o.R} : s.given => CanScan(s, metric_units)
    /\ \A s \in {o.d, o.T} : s.given => CanScan(s, time_units_s)
    /\ o.a >= 0

\* Mutant: one connection is enough, whatever the number of threads.
EnoughConnections_One(cfg) == cfg.connections # 0
EnoughConnections(cfg) == cfg.connections # 0 /\ cfg.connections >= cfg.threads

Accepts(o, cfg) ==
    /\ o.url # <<>> /\ cfg.threads # 0 /\ cfg.duration # 0
    /\ script_parse_url(o.url).ok
    /\ EnoughConnections(cfg)
    /\ cfg.rate # 0
    /\ o.a # 0 => o.a = cfg.threads

parse_args(o) == OptionsScan(o) /\ Accepts(o, Config(o))

\* What main makes of it: the connections and the rate of each thread.
ThreadConnections(cfg) == cfg.connections \div cfg.threads
=============================================================================
