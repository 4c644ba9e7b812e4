-------------------------------- MODULE Urls --------------------------------
(***************************************************************************)
(* How a URL is taken apart: http_parser_parse_url of                      *)
(* src/src/http_parser.c, and script_parse_url of src/src/script.c that    *)
(* asks for a schema and a host.  A URL is a sequence of characters.  The  *)
(* two automata are relations, a set of edges each; a character without an *)
(* edge is an error.  The reference at the end splits the same text at its *)
(* delimiters instead.                                                     *)
(***************************************************************************)
EXTENDS Integers, Sequences

CONSTANTS
    PortRadix,   \* base of a port: 10, or 2 when the only digits are 0 and 1
    MaxPort      \* 0xffff

ASSUME UrlsAssumption == PortRadix \in {2, 10} /\ MaxPort \in Nat

Num == {"0", "1"}
Alpha == {"a", "h"}                     \* a letter that is a hex digit, one that is not
Hex == Num \cup {"a"}
HostChar == Num \cup Alpha \cup {"."}
UserinfoChar == HostChar \cup {"_", "*", ":"}
UrlChar == UserinfoChar \cup {"/", "@", "[", "]"}
DigitValue == [d \in Num |-> IF d = "0" THEN 0 ELSE 1]

Edge(states, chars, to) == [from |-> states, on |-> chars, to |-> to]
Follow(edges, s, ch, dead) ==
    LET taken == {e \in edges : s \in e.from /\ ch \in e.on}
    IN IF taken = {} THEN dead ELSE (CHOOSE e \in taken : TRUE).to

-----------------------------------------------------------------------------
(* parse_url_char: schema, server, path, query and fragment.                *)

Server == {"server_start", "server", "server_with_at"}
Query == {"query_string_start", "query_string"}
Fragment == {"fragment_start", "fragment"}
UrlEdges ==
    {Edge({"spaces_before_url"}, {"/", "*"}, "path"),
     Edge({"spaces_before_url", "schema"}, Alpha, "schema"),
     Edge({"schema"}, {":"}, "schema_slash"),
     Edge({"schema_slash"}, {"/"}, "schema_slash_slash"),
     Edge({"schema_slash_slash"}, {"/"}, "server_start"),
     Edge(Server, {"/"}, "path"),
     Edge(Server \cup {"path"}, {"?"}, "query_string_start"),
     Edge(Server \ {"server_with_at"}, {"@"}, "server_with_at"),
     Edge(Server, UserinfoChar \cup {"[", "]"}, "server"),
     Edge({"path"}, UrlChar, "path"),
     Edge({"path"} \cup Query, {"#"}, "fragment_start"),
     Edge(Query, UrlChar \cup {"?"}, "query_string"),
     Edge(Fragment, UrlChar \cup {"?"}, "fragment"),
     Edge({"fragment_start"}, {"#"}, "fragment_start"),
     Edge({"fragment"}, {"#"}, "fragment")}

parse_url_char(s, ch) == Follow(UrlEdges, s, ch, "dead")

Fields == {"schema", "host", "port", "path", "query", "fragment", "userinfo"}

\* Bound: off and len of a part are 16 bits wide, and longer URLs wrap.
MaxUrl == 65535
NoData == [f \in Fields |-> [off |-> 0, len |-> 0]]      \* len 0: not in field_set

\* The field a state adds its character to.  "none": the delimiters.
FieldOf(s) ==
    CASE s \in {"server", "server_with_at"} -> "host"
      [] s = "query_string" -> "query"
      [] s \in {"schema", "path", "fragment"} -> s
      [] OTHER -> "none"

\* One more character of field f at position i: it starts where the field
\* of the character before was another one.
Grow(data, f, previous, i) ==
    IF f = previous THEN [data EXCEPT ![f].len = @ + 1]
                    ELSE [data EXCEPT ![f] = [off |-> i, len |-> 1]]

UrlScan(text) ==
    LET at[i \in 0..Len(text)] ==
          IF i = 0
          THEN [state |-> "spaces_before_url", field |-> "none", data |-> NoData, at |-> FALSE]
          ELSE LET before == at[i - 1]
                   s == parse_url_char(before.state, text[i])
                   f == FieldOf(s)
               IN [state |-> s,
                   field |-> IF f = "none" THEN before.field ELSE f,
                   data  |-> IF f = "none" THEN before.data
                             ELSE Grow(before.data, f, before.field, i),
                   at    |-> before.at \/ s = "server_with_at"]
    IN at[Len(text)]

-----------------------------------------------------------------------------
(* http_parse_host: the server is user info, host and port.                 *)

HostEdges ==
    {Edge({"userinfo_start", "userinfo"}, {"@"}, "host_start"),
     Edge({"userinfo_start", "userinfo"}, UserinfoChar, "userinfo"),
     Edge({"host_start"}, {"["}, "v6_start"),
     Edge({"host_start", "host"}, HostChar, "host"),
     Edge({"host", "v6_end"}, {":"}, "port_start"),
     Edge({"v6"}, {"]"}, "v6_end"),
     Edge({"v6_start", "v6"}, Hex \cup {":", "."}, "v6"),
     Edge({"port_start", "port"}, Num, "port")}

http_parse_host_char(s, ch) == Follow(HostEdges, s, ch, "host_dead")

HostField(s) ==
    CASE s \in {"host", "v6"} -> "host"
      [] s \in {"port", "userinfo"} -> s
      [] OTHER -> "none"

\* A state that marks the end of the server too early.
Unfinished == {"host_start", "v6_start", "v6", "port_start", "userinfo", "userinfo_start"}

http_parse_host(text, data, foundAt) ==
    LET server == data["host"]
        at[n \in 0..server.len] ==
          IF n = 0
          THEN [state |-> IF foundAt THEN "userinfo_start" ELSE "host_start",
                data |-> [data EXCEPT !["host"].len = 0]]
          ELSE LET before == at[n - 1]
                   i == server.off + n - 1
                   s == http_parse_host_char(before.state, text[i])
                   f == HostField(s)
               IN [state |-> s,
                   data |-> IF f = "none" THEN before.data
                            ELSE Grow(before.data, f, HostField(before.state), i)]
    IN at[server.len]

\* strtoul of the digits of the port.
PortNumber(text, field) ==
    LET value[n \in 0..field.len] ==
          IF n = 0 THEN 0
          ELSE value[n - 1] * PortRadix + DigitValue[text[field.off + n - 1]]
    IN value[field.len]

Rejected == [ok |-> FALSE, data |-> NoData]

\* Mutant: user info is not looked for.
ServerParts_NoUserinfo(text, scan) == http_parse_host(text, scan.data, FALSE)
ServerParts(text, scan) == http_parse_host(text, scan.data, scan.at)

\* http_parser_parse_url, then script_parse_url.
script_parse_url(text) ==
    LET scan == UrlScan(text)
        host == ServerParts(text, scan)
    IN IF \/ scan.state = "dead"
          \/ scan.data["schema"].len = 0 \/ scan.data["host"].len = 0
          \/ host.state \in Unfinished \cup {"host_dead"}
          \/ PortNumber(text, host.data["port"]) > MaxPort
       THEN Rejected
       ELSE [ok |-> TRUE, data |-> host.data]

\* copy_url_part.
copy_url_part(text, data, f) == SubSeq(text, data[f].off, data[f].off + data[f].len - 1)

-----------------------------------------------------------------------------
(* The reference: a URL is split at the first delimiter of each kind.       *)

\* The first position from i on with one of the characters, or the end.
FirstOf(text, i, chars) ==
    CHOOSE p \in 1..Len(text) + 1 :
        /\ p = Len(text) + 1 \/ (p >= i /\ text[p] \in chars)
        /\ \A q \in i..p - 1 : text[q] \notin chars
AllIn(s, chars) == \A i \in DOMAIN s : s[i] \in chars
Without(s, first) == IF s # <<>> /\ Head(s) = first THEN Tail(s) ELSE s

\* What stands between the delimiters of the server.
SplitServer(s) ==
    LET at    == FirstOf(s, 1, {"@"})
        rest  == IF at > Len(s) THEN s ELSE SubSeq(s, at + 1, Len(s))
        v6    == rest # <<>> /\ Head(rest) = "["
        close == FirstOf(rest, 1, {"]"})
        host  == IF v6 THEN SubSeq(rest, 2, close - 1)
                 ELSE SubSeq(rest, 1, FirstOf(rest, 1, {":"}) - 1)
        after == SubSeq(rest, Len(host) + (IF v6 THEN 3 ELSE 1), Len(rest))
    IN [userinfo |-> IF at > Len(s) THEN <<>> ELSE SubSeq(s, 1, at - 1),
        host |-> host,
        port |-> Without(after, ":"),
        ok   |-> /\ host # <<>> /\ AllIn(host, IF v6 THEN Hex \cup {":", "."} ELSE HostChar)
                 /\ v6 => close <= Len(rest)
                 /\ after # <<>> => Head(after) = ":" /\ Len(after) > 1 /\ AllIn(Tail(after), Num)]

Value(digits) ==
    LET value[n \in 0..Len(digits)] ==
          IF n = 0 THEN 0 ELSE value[n - 1] * PortRadix + DigitValue[digits[n]]
    IN value[Len(digits)]

Split(text) ==
    LET colon  == FirstOf(text, 1, {":"})
        server == FirstOf(text, colon + 3, {"/", "?"})
        path   == FirstOf(text, server, {"?", "#"})
        query  == FirstOf(text, path, {"#"})
        part   == SplitServer(SubSeq(text, colon + 3, server - 1))
        hashes == FirstOf(text, query, UrlChar \cup {"?"})
    IN [ok   |-> /\ colon > 1 /\ AllIn(SubSeq(text, 1, colon - 1), Alpha)
                 /\ colon + 2 <= Len(text) /\ SubSeq(text, colon, colon + 2) = <<":", "/", "/">>
                 /\ part.ok /\ AllIn(part.userinfo, UserinfoChar)
                 /\ Value(part.port) <= MaxPort
                 /\ AllIn(text, UrlChar \cup {"?", "#"}),
        part |-> [f \in Fields |->
                    CASE f = "schema" -> SubSeq(text, 1, colon - 1)
                      [] f = "path" -> SubSeq(text, server, path - 1)
                      [] f = "query" -> SubSeq(text, path + 1, query - 1)
                      [] f = "fragment" -> SubSeq(text, hashes, Len(text))
                      [] OTHER -> part[f]]]
=============================================================================
