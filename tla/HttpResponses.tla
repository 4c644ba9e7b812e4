---------------------------- MODULE HttpResponses ----------------------------
(***************************************************************************)
(* What a server sends, as the reference for HttpParser: a response, its   *)
(* bytes, the text that is in it, and whether the connection ends with it  *)
(* (RFC 2616, sections 4.4 and 14.10).                                     *)
(*                                                                         *)
(* Bytes are cut into symbols.  A start line is one symbol, a name or a    *)
(* value that the parser knows is two pieces, so that a read can end       *)
(* within it, and a number is written with the digits of base Base.        *)
(***************************************************************************)
EXTENDS Naturals, Sequences, SequencesExt

CONSTANTS Base,    \* of numbers: 10 in a header, 16 in front of a chunk
          Largest      \* the largest number, ULLONG_MAX

ASSUME NumbersAssumption == Base \in 2..4 /\ Largest \in Nat /\ Largest >= Base * Base

CR == "CR"
LF == "LF"
SP == "SP"
StartLines == {"HTTP/1.1 200", "HTTP/1.1 204", "HTTP/1.0 200"}
NoStart == "no start line"
\* http_major > 0 and http_minor > 0; a status that comes without a body.
Is11(line) == line \in {"HTTP/1.1 200", "HTTP/1.1 204"}
NoBody(line) == line = "HTTP/1.1 204"

Numerals == <<"0", "1", "2", "3">>
Digits == {Numerals[i] : i \in 1..Base}
Digit(ch) == CHOOSE d \in 0..Base - 1 : Numerals[d + 1] = ch
Numeral[n \in Nat] ==
    IF n < Base THEN <<Numerals[n + 1]>>
                ELSE Append(Numeral[n \div Base], Numerals[(n % Base) + 1])

\* Symbols that may be in a name.
Tokens == Digits \cup {"conn", "ection", "cont", "ent-length", "trans", "fer-encoding",
                       "chun", "ked", "keep", "alive", "clo", "se", "x", "v", "b"}

\* Symbols that may be in a line of a value.
ValueSymbols == Tokens \cup {SP, ":", ",", ";"} \cup StartLines

IsSequence(s) == s \in Seq(ToSet(s))

Joined(parts, separator) ==
    FlattenSeq([i \in 1..Len(parts) |-> IF i = 1 THEN parts[1] ELSE separator \o parts[i]])

-----------------------------------------------------------------------------
(* A header is a name and the lines of its value.  A response is a start    *)
(* line, headers, the tokens of its Connection header, its coding (how the  *)
(* length of the body is told: "none", "length", "chunked" or "eof"), the   *)
(* parts of its body, the headers after a chunked body, the end of lines,   *)
(* whether the length or the first chunk size is out of range, and line     *)
(* ends that do not belong to it and come after it.                         *)

TokenText(token) == CASE token = "keep-alive" -> <<"keep", "alive">>
                      [] token = "close" -> <<"clo", "se">>
                      [] OTHER -> <<token>>
ConnectionHeader(r) ==
    IF r.connection = <<>> THEN <<>>
    ELSE <<[name |-> <<"conn", "ection">>,
            lines |-> <<Joined([i \in 1..Len(r.connection) |-> TokenText(r.connection[i])],
                               <<",", SP>>)>>]>>

Body(r) == FlattenSeq(r.parts)
Size(r, n) == Numeral[IF r.huge THEN Largest ELSE n]
CodingHeader(r) ==
    CASE r.coding = "length" -> <<[name |-> <<"cont", "ent-length">>,
                                   lines |-> <<Size(r, Len(Body(r)))>>]>>
      [] r.coding = "chunked" -> <<[name |-> <<"trans", "fer-encoding">>,
                                    lines |-> <<<<"chun", "ked">>>>]>>
      [] OTHER -> <<>>

Headers(r) == r.fields \o ConnectionHeader(r) \o CodingHeader(r)
AllHeaders(r) == Headers(r) \o r.trailer

HeaderBytes(r, h) == h.name \o <<":", SP>> \o Joined(h.lines, r.eol \o <<SP>>) \o r.eol
BytesOf(r, hs) == FlattenSeq([i \in 1..Len(hs) |-> HeaderBytes(r, hs[i])])
ChunkBytes(r, part) ==
    Size(r, Len(part)) \o (IF Len(part) > 1 THEN <<";", "v">> ELSE <<>>) \o <<CR, LF>>
    \o part \o <<CR, LF>>

Bytes(r) ==
    <<r.start>> \o r.eol \o BytesOf(r, Headers(r)) \o r.eol
    \o (IF r.coding = "chunked"
        THEN FlattenSeq([i \in 1..Len(r.parts) |-> ChunkBytes(r, r.parts[i])])
             \o <<"0", CR, LF>> \o BytesOf(r, r.trailer) \o r.eol
        ELSE Body(r))

BytesOfAll(rs) == FlattenSeq([i \in 1..Len(rs) |-> Bytes(rs[i]) \o rs[i].after])
EndOfLast(rs) == Len(BytesOfAll(rs)) - Len(Last(rs).after)

\* What a server may send: names and values are made of their symbols, a header
\* that tells the length of a body is sent for that only, and every number but
\* the one that is out of range has room in the parser.
KnownNames == {<<"conn", "ection">>, <<"cont", "ent-length">>, <<"trans", "fer-encoding">>}
Begins(line) == line # <<>> /\ line[1] # SP
HeaderFormed(h) ==
    /\ h.name \in Seq(Tokens) /\ h.name \notin KnownNames \cup {<<>>}
    /\ h.lines \in Seq(Seq(ValueSymbols)) /\ h.lines # <<>>
    /\ \/ Begins(h.lines[1])
       \/ h.lines[1] = <<>> /\ (Len(h.lines) > 1 => Begins(h.lines[2]))
HasRoom(n) == n < (Largest \div Base) * Base
BodyFormed(r) ==
    /\ r.parts \in Seq(Seq(STRING))
    /\ CASE r.coding = "none"    -> NoBody(r.start) /\ r.parts = <<>>
         [] r.coding = "eof"     -> ~NoBody(r.start)
         [] r.coding = "length"  -> HasRoom(Len(Body(r)))
         [] r.coding = "chunked" -> \A i \in DOMAIN r.parts :
                                       r.parts[i] # <<>> /\ HasRoom(Len(r.parts[i]))
         [] OTHER -> FALSE
    /\ r.huge => r.coding = "length" \/ (r.coding = "chunked" /\ r.parts # <<>>)
WellFormed(r) ==
    /\ r.start \in StartLines /\ r.eol \in {<<CR, LF>>, <<LF>>} /\ r.after \in Seq({CR, LF})
    /\ r.connection \in Seq({"keep-alive", "close"} \cup (Tokens \ {"keep", "clo"}))
    /\ IsSequence(r.fields) /\ \A i \in DOMAIN r.fields : HeaderFormed(r.fields[i])
    /\ IsSequence(r.trailer) /\ \A i \in DOMAIN r.trailer : HeaderFormed(r.trailer[i])
    /\ r.trailer # <<>> => r.coding = "chunked"
    /\ r.huge \in BOOLEAN /\ BodyFormed(r)

\* The text of a value: lines are joined by a space, and spaces in front of it
\* are not part of it.
Value(h) == Joined(IF h.lines[1] = <<>> THEN Tail(h.lines) ELSE h.lines, <<SP>>)

InList(token, r) == \E i \in 1..Len(r.connection) : r.connection[i] = token

\* The server closes the connection after the response, or it has to.
EndsConnection(r) ==
    \/ IF Is11(r.start) THEN InList("close", r) ELSE ~InList("keep-alive", r)
    \/ r.coding = "eof"

=============================================================================
