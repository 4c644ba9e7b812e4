------------------------------ MODULE MCStartup -----------------------------
(* Startup on a few thousand command lines, one of which starts threads. *)
EXTENDS Startup, TLC

Texts(chars, n) == UNION {[1..k -> chars] : k \in 0..n}

\* URLs: a schema and a short server followed by anything, a long server, and
\* beginnings that are none.
MCUrls ==
    {<<"a", ":", "/", "/">> \o s \o t :
        s \in Texts({"h", "1", ":", "@", "[", "]", "_", "*"}, 3), t \in Texts({"/", "?"}, 1)}
    \cup {<<"a", ":", "/", "/", "_", "@">> \o s : s \in Texts({"a", "1", ":", "[", "]"}, 5)}
    \cup {<<"h", ":", "/", "/", "1">> \o t : t \in Texts({"/", "a", "?", "#", "@"}, 4)}
    \cup {s \o t : s \in Texts({"a", "1", ":", "/", " "}, 4), t \in {<<>>, <<"/", "h">>}}

OneUrl == <<"a", ":", "/", "/", "1">>
Plain(url) == [t |-> NotGiven, c |-> NotGiven, d |-> NotGiven, T |-> NotGiven,
               R |-> Number(5, FALSE, ""), a |-> 0, unknown |-> FALSE, B |-> FALSE, url |-> url]

\* Numbers: with every unit, none or a wrong one, signed, too large for a word.
MCNumbers ==
    {NotGiven, NotANumber}
    \cup {Number(n, FALSE, u) : n \in {0, 1, 2, 3, 64}, u \in {"", "k", "s", "p", "x"}}
    \cup {Number(n, TRUE, "") : n \in {1, 4094}} \cup {Number(5000, FALSE, "m")}
MCLines ==
    {[Plain(OneUrl) EXCEPT !.t = t, !.c = c] : t \in MCNumbers, c \in MCNumbers}
    \cup {[Plain(OneUrl) EXCEPT !.d = d, !.T = T] : d \in MCNumbers, T \in MCNumbers}
    \cup {[Plain(OneUrl) EXCEPT !.R = n, !.a = a] : n \in MCNumbers, a \in -1..3}
    \cup {[Plain(OneUrl) EXCEPT !.unknown = TRUE]}

\* Two or three threads against a host that is there.
HostUrl == <<"h", ":", "/", "/", "h">>
MCRuns == {[Plain(HostUrl) EXCEPT !.t = Number(t, FALSE, "")] : t \in {2, 3}}

MCKnown == {<<"h">>}
MCHttps == <<"h">>

MCCommands == {Plain(url) : url \in MCUrls} \cup MCLines \cup MCRuns

\* Scripts that are the same for all threads, and one whose threads differ.
Same(r, p, n) == [i \in Thread |-> [request |-> r, response |-> p, requests |-> n]]
MCScripts == {Same(FALSE, FALSE, 0), Same(TRUE, TRUE, 2),
              [i \in Thread |-> [request |-> i # 0, response |-> i # 1, requests |-> 1]]}
=============================================================================
