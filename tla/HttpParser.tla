----------------------------- MODULE HttpParser -----------------------------
(***************************************************************************)
(* How responses are parsed (http_parser_execute in                        *)
(* src/src/http_parser.c) and handed to a script that has a response()     *)
(* (header_field, header_value, response_body and response_complete in     *)
(* src/src/wrk.c), up to the deadline of the run.                          *)
(*                                                                         *)
(* The bytes of a response arrive in reads of any length.  A read is       *)
(* parsed from its first byte to its last, one `case` of the parser at a   *)
(* time; what is left open at its end is handed over and taken up again in *)
(* the next one.  Text is cut into symbols (HttpResponses).  Requests,     *)
(* upgrades and the limit on the size of headers are left out.             *)
(***************************************************************************)
EXTENDS HttpHeaders, FiniteSets

CONSTANTS
    Streams,         \* what the server may send on a connection: responses in a sequence
    Later,           \* bound: which of them on a connection that is not the first
    RecvBuf,         \* RECVBUF, in symbols
    MaxConnections,  \* bound: connections made one after the other
    MaxCuts          \* bound: of these, how many are cut off by the server

ASSUME HttpParserAssumption ==
    /\ Later \subseteq DOMAIN Streams
    /\ RecvBuf \in Nat \ {0} /\ MaxConnections \in Nat \ {0} /\ MaxCuts \in Nat

VARIABLES
    stream, taken,   \* what the server sends on this connection; how much of it was read
    lost,            \* the server has cut this connection off
    data, p,         \* the buffer and the position in it; p > Len(data) outside a parse
    fieldMark, valueMark, bodyMark,   \* where text not handed over yet begins, or 0
    state, header_state, flags, content_length,   \* fields of the parser
    start,           \* the start line: http_major, http_minor, status_code
    phase,           \* c->state, FIELD or VALUE
    headers, body,   \* c->headers, c->body
    allocated,       \* c->headers.buffer is not NULL
    closed,          \* wrk has closed or lost the socket
    failed,          \* the parser has returned an error
    connections, cuts,  \* how much of the bounds is used
    completed,       \* history: responses completed on this connection
    cutShort         \* history: the last connection did not end with a call of response()

marks == <<fieldMark, valueMark, bodyMark>>
parser == <<state, header_state, flags, content_length, start>>
buffers == <<phase, headers, body, allocated>>
server == <<stream, taken, lost, connections, cuts>>
vars == <<server, data, p, marks, parser, buffers, closed, failed, completed, cutShort>>

-----------------------------------------------------------------------------
(* The streams: their bytes, where each response ends in them, and the text *)
(* of its headers.                                                          *)

\* Servers keep to the grammar.  A body that the end of the connection ends is
\* followed by nothing.
ASSUME StreamsAssumption ==
    \A n \in DOMAIN Streams :
        /\ IsSequence(Streams[n])
        /\ \A i \in DOMAIN Streams[n] :
              /\ WellFormed(Streams[n][i])
              /\ Streams[n][i].coding = "eof" =>
                    i = Len(Streams[n]) /\ Streams[n][i].after = <<>>

NUL == "NUL"
Wire == [n \in DOMAIN Streams |-> BytesOfAll(Streams[n])]
\* Everything that is sent is a sequence of symbols.
ASSUME WireAssumption == \A n \in DOMAIN Streams : Wire[n] \in Seq(STRING)
WireEnd == [n \in DOMAIN Streams |->
               [i \in DOMAIN Streams[n] |-> EndOfLast(SubSeq(Streams[n], 1, i))]]
TextOf(hs) == IF hs = <<>> THEN <<NUL>>
              ELSE FlattenSeq([i \in 1..Len(hs) |-> hs[i].name \o <<NUL>> \o Value(hs[i])
                                                    \o <<NUL>>])
HeaderText == [n \in DOMAIN Streams |->
                  [i \in DOMAIN Streams[n] |-> TextOf(AllHeaders(Streams[n][i]))]]

sent == Streams[stream]
AllRead == taken = Len(Wire[stream])

-----------------------------------------------------------------------------
(* What wrk does in the callbacks.                                          *)

\* Between a name and its value, and after a value, buffers are cut by NUL.
header_field(text) ==
    /\ headers' = (IF phase = "VALUE" THEN Append(headers, NUL) ELSE headers) \o text
    /\ phase' = "FIELD" /\ allocated' = TRUE
    /\ UNCHANGED body

header_value(text) ==
    /\ headers' = (IF phase = "FIELD" THEN Append(headers, NUL) ELSE headers) \o text
    /\ phase' = "VALUE"
    /\ UNCHANGED <<body, allocated>>

response_body(text) ==
    /\ body' = body \o text
    /\ UNCHANGED <<phase, headers, allocated>>

\* http_message_needs_eof and http_should_keep_alive.  Mutant: the status is
\* not looked at.
NeedsEof_AnyStatus == "CHUNKED" \notin flags /\ content_length = NoLength
NeedsEof ==
    /\ ~NoBody(start)
    /\ "CHUNKED" \notin flags /\ content_length = NoLength

\* Mutant: the version is not looked at.
ShouldKeepAlive_AnyVersion == "CLOSE" \notin flags /\ ~NeedsEof
ShouldKeepAlive ==
    /\ IF Is11(start) THEN "CLOSE" \notin flags ELSE "KEEP" \in flags
    /\ ~NeedsEof

\* http_parser_init.
InitParser ==
    /\ state' = "s_start_res" /\ header_state' = "h_general"
    /\ flags' = {} /\ content_length' = 0 /\ start' = NoStart

\* response_complete: response() is called if there are header buffers, and
\* then the parser is initialised, or the connection closed and opened again.
\* The state is the given one unless the parser is initialised.
message_complete(new_state) ==
    LET text == Append(headers, NUL)
    IN  /\ completed' = Append(completed, [start |-> start, called |-> allocated,
                                          headers |-> text, body |-> body])
        /\ IF allocated
           THEN headers' = <<>> /\ body' = <<>> /\ phase' = "FIELD"
           ELSE UNCHANGED <<headers, body, phase>>
        /\ IF ShouldKeepAlive
           THEN InitParser /\ UNCHANGED closed
           ELSE /\ state' = new_state /\ closed' = TRUE
                /\ UNCHANGED <<header_state, flags, content_length, start>>
        /\ UNCHANGED allocated

NEW_MESSAGE == message_complete("s_dead")

NoCallback == UNCHANGED <<buffers, closed, completed>>
NoReport == UNCHANGED <<closed, completed>>

-----------------------------------------------------------------------------
(* The cases of http_parser_execute.                                        *)

ch == data[p]
In(s) == p <= Len(data) /\ state = s
Advance(s) == state' = s /\ p' = p + 1
Reexecute(s) == state' = s /\ UNCHANGED p
Rest(mark) == IF mark = 0 THEN p ELSE mark       \* MARK
SmallerOf(a, b) == IF a < b THEN a ELSE b

\* CALLBACK_DATA: what is marked, if anything is, is handed over.
CallbackData(on, mark, last) ==
    IF mark = 0 THEN NoCallback
    ELSE /\ \/ on = "header_field" /\ header_field(SubSeq(data, mark, last))
            \/ on = "header_value" /\ header_value(SubSeq(data, mark, last))
            \/ on = "body" /\ response_body(SubSeq(data, mark, last))
         /\ NoReport

\* The position of the first symbol from p on that is not in S.
EndOf(S) == CHOOSE q \in p..Len(data) + 1 :
                /\ q = Len(data) + 1 \/ data[q] \notin S
                /\ \A i \in p..q - 1 : data[i] \in S
NameEnd == EndOf(Tokens)
LineEnd == EndOf(ValueSymbols)

s_start_res ==
    /\ In("s_start_res")
    /\ flags' = {} /\ content_length' = NoLength
    /\ \/ ch \in StartLines /\ start' = ch /\ Advance("s_res_status")
       \/ ch \in {CR, LF} /\ UNCHANGED start /\ Advance("s_start_res")
    /\ UNCHANGED <<header_state, marks>> /\ NoCallback

s_res_status ==
    /\ In("s_res_status")
    /\ \/ ch = CR /\ Advance("s_res_line_almost_done")
       \/ ch = LF /\ Advance("s_header_field_start")
    /\ UNCHANGED <<header_state, flags, content_length, start, marks>> /\ NoCallback

s_res_line_almost_done ==
    /\ In("s_res_line_almost_done") /\ ch = LF
    /\ Advance("s_header_field_start")
    /\ UNCHANGED <<header_state, flags, content_length, start, marks>> /\ NoCallback

s_header_field_start ==
    /\ In("s_header_field_start")
    /\ \/ ch = CR /\ Advance("s_headers_almost_done") /\ UNCHANGED <<header_state, fieldMark>>
       \/ ch = LF /\ Reexecute("s_headers_almost_done") /\ UNCHANGED <<header_state, fieldMark>>
       \/ /\ ch \in Tokens /\ Advance("s_header_field")
          /\ fieldMark' = Rest(fieldMark)
          /\ header_state' = NameStart(ch)
    /\ UNCHANGED <<flags, content_length, start, valueMark, bodyMark>> /\ NoCallback

\* Mutant: the mark of the name is left when the name is over.
MarkAfterName_Kept == fieldMark
MarkAfterName == 0

\* header_state after the part of a name that is in the buffer.
AfterName ==
    LET after[q \in p - 1..NameEnd - 1] ==
          IF q = p - 1 THEN header_state ELSE NameNext(after[q - 1], data[q])
    IN  after[NameEnd - 1]

s_header_field ==
    /\ In("s_header_field")
    /\ header_state' = AfterName
    /\ \/ /\ NameEnd > Len(data)
          /\ p' = NameEnd
          /\ UNCHANGED <<state, fieldMark>> /\ NoCallback
       \/ /\ NameEnd <= Len(data) /\ data[NameEnd] = ":"
          /\ state' = "s_header_value_discard_ws" /\ p' = NameEnd + 1
          /\ CallbackData("header_field", fieldMark, NameEnd - 1)
          /\ fieldMark' = MarkAfterName
    /\ UNCHANGED <<flags, content_length, start, valueMark, bodyMark>>

s_header_value_discard_ws ==
    /\ In("s_header_value_discard_ws")
    /\ \/ ch = SP /\ Advance(state)
       \/ ch = CR /\ Advance("s_header_value_discard_ws_almost_done")
       \/ ch = LF /\ Advance("s_header_value_discard_lws")
    /\ UNCHANGED <<header_state, flags, content_length, start, marks>> /\ NoCallback

\* Also reached from s_header_value_discard_ws, which falls through.
s_header_value_start ==
    /\ In("s_header_value_start") \/ (In("s_header_value_discard_ws") /\ ch \notin {SP, CR, LF})
    /\ header_state = "h_content_length" => ch \in Digits
    /\ valueMark' = Rest(valueMark)
    /\ Advance("s_header_value")
    /\ header_state' = ValueStart(header_state, ch)
    /\ content_length' = IF header_state = "h_content_length" THEN Digit(ch) ELSE content_length
    /\ UNCHANGED <<flags, start, fieldMark, bodyMark>> /\ NoCallback

\* The parser after the part of a value that is in the buffer.
AfterValue ==
    LET after[q \in p - 1..LineEnd - 1] ==
          IF q = p - 1
          THEN [h |-> header_state, flags |-> flags, length |-> content_length, ok |-> TRUE]
          ELSE ValueNext(after[q - 1], data[q])
    IN  after[LineEnd - 1]

\* A line may end with LF alone, which s_header_almost_done looks at again.
\* Mutant: it does not.
AfterLine_Next == LineEnd + 1
AfterLine == IF data[LineEnd] = CR THEN LineEnd + 1 ELSE LineEnd

s_header_value ==
    /\ In("s_header_value") /\ AfterValue.ok
    /\ header_state' = AfterValue.h
    /\ flags' = AfterValue.flags
    /\ content_length' = AfterValue.length
    /\ IF LineEnd > Len(data)
       THEN /\ p' = LineEnd
            /\ UNCHANGED <<state, valueMark>> /\ NoCallback
       ELSE /\ state' = "s_header_almost_done"
            /\ p' = AfterLine
            /\ CallbackData("header_value", valueMark, LineEnd - 1)
            /\ valueMark' = 0
    /\ UNCHANGED <<start, fieldMark, bodyMark>>

s_header_almost_done ==
    /\ In("s_header_almost_done") /\ ch = LF
    /\ Advance("s_header_value_lws")
    /\ UNCHANGED <<header_state, flags, content_length, start, marks>> /\ NoCallback

s_header_value_lws ==
    /\ In("s_header_value_lws")
    /\ IF ch = SP
       THEN Reexecute("s_header_value_start") /\ UNCHANGED flags
       ELSE Reexecute("s_header_field_start") /\ flags' = flags \cup FlagOf(header_state)
    /\ UNCHANGED <<header_state, content_length, start, marks>> /\ NoCallback

s_header_value_discard_ws_almost_done ==
    /\ In("s_header_value_discard_ws_almost_done") /\ ch = LF
    /\ Advance("s_header_value_discard_lws")
    /\ UNCHANGED <<header_state, flags, content_length, start, marks>> /\ NoCallback

\* The state after an empty value.  Mutant: the same one.
AfterEmptyValue_Same == state
AfterEmptyValue == "s_header_field_start"

s_header_value_discard_lws ==
    /\ In("s_header_value_discard_lws")
    /\ IF ch = SP
       THEN Advance("s_header_value_discard_ws") /\ UNCHANGED flags /\ NoCallback
       ELSE /\ flags' = flags \cup FlagOf(header_state)
            /\ header_value(<<>>) /\ NoReport
            /\ Reexecute(AfterEmptyValue)
    /\ UNCHANGED <<header_state, content_length, start, marks>>

\* The end of the headers, or of the trailer of a chunked body.
s_headers_almost_done ==
    /\ In("s_headers_almost_done") /\ ch = LF
    /\ IF "TRAILING" \in flags
       THEN p' = p + 1 /\ NEW_MESSAGE
       ELSE /\ Reexecute("s_headers_done")
            /\ UNCHANGED <<header_state, flags, content_length, start>> /\ NoCallback
    /\ UNCHANGED marks

s_headers_done ==
    /\ In("s_headers_done") /\ ch = LF
    /\ IF "CHUNKED" \notin flags /\ (content_length = 0 \/ (content_length = NoLength /\ ~NeedsEof))
       THEN p' = p + 1 /\ NEW_MESSAGE
       ELSE /\ Advance(IF "CHUNKED" \in flags THEN "s_chunk_size_start"
                       ELSE IF content_length = NoLength THEN "s_body_identity_eof"
                       ELSE "s_body_identity")
            /\ UNCHANGED <<header_state, flags, content_length, start>> /\ NoCallback
    /\ UNCHANGED marks

\* How much of a body or chunk is in the buffer.  Mutant: all of the buffer.
ToRead_Available == Len(data) + 1 - p
ToRead == SmallerOf(content_length, Len(data) + 1 - p)

\* The last byte is looked at again by s_message_done.
s_body_identity ==
    /\ In("s_body_identity")
    /\ content_length' = content_length - ToRead
    /\ IF ToRead = content_length
       THEN /\ state' = "s_message_done" /\ p' = p + ToRead - 1
            /\ CallbackData("body", Rest(bodyMark), p + ToRead - 1)
            /\ bodyMark' = 0
       ELSE /\ p' = p + ToRead
            /\ bodyMark' = Rest(bodyMark)
            /\ UNCHANGED state /\ NoCallback
    /\ UNCHANGED <<header_state, flags, start, fieldMark, valueMark>>

s_body_identity_eof ==
    /\ In("s_body_identity_eof")
    /\ bodyMark' = Rest(bodyMark)
    /\ p' = Len(data) + 1
    /\ UNCHANGED <<parser, fieldMark, valueMark>> /\ NoCallback

s_message_done ==
    /\ In("s_message_done")
    /\ p' = p + 1 /\ NEW_MESSAGE
    /\ UNCHANGED marks

s_chunk_size_start ==
    /\ In("s_chunk_size_start") /\ ch \in Digits
    /\ content_length' = Digit(ch)
    /\ Advance("s_chunk_size")
    /\ UNCHANGED <<header_state, flags, start, marks>> /\ NoCallback

s_chunk_size ==
    /\ In("s_chunk_size")
    /\ \/ ch = CR /\ Advance("s_chunk_size_almost_done") /\ UNCHANGED content_length
       \/ ch \in {";", SP} /\ Advance("s_chunk_parameters") /\ UNCHANGED content_length
       \/ /\ ch \in Digits /\ Fits(content_length)
          /\ Advance(state) /\ content_length' = WithDigit(content_length, ch)
    /\ UNCHANGED <<header_state, flags, start, marks>> /\ NoCallback

s_chunk_parameters ==
    /\ In("s_chunk_parameters")
    /\ Advance(IF ch = CR THEN "s_chunk_size_almost_done" ELSE state)
    /\ UNCHANGED <<header_state, flags, content_length, start, marks>> /\ NoCallback

s_chunk_size_almost_done ==
    /\ In("s_chunk_size_almost_done") /\ ch = LF
    /\ IF content_length = 0
       THEN Advance("s_header_field_start") /\ flags' = flags \cup {"TRAILING"}
       ELSE Advance("s_chunk_data") /\ UNCHANGED flags
    /\ UNCHANGED <<header_state, content_length, start, marks>> /\ NoCallback

s_chunk_data ==
    /\ In("s_chunk_data")
    /\ content_length' = content_length - ToRead
    /\ bodyMark' = Rest(bodyMark)
    /\ p' = p + ToRead
    /\ state' = IF ToRead = content_length THEN "s_chunk_data_almost_done" ELSE state
    /\ UNCHANGED <<header_state, flags, start, fieldMark, valueMark>> /\ NoCallback

s_chunk_data_almost_done ==
    /\ In("s_chunk_data_almost_done") /\ ch = CR
    /\ Advance("s_chunk_data_done")
    /\ CallbackData("body", bodyMark, p - 1)
    /\ bodyMark' = 0
    /\ UNCHANGED <<header_state, flags, content_length, start, fieldMark, valueMark>>

s_chunk_data_done ==
    /\ In("s_chunk_data_done") /\ ch = LF
    /\ Advance("s_chunk_size_start")
    /\ UNCHANGED <<header_state, flags, content_length, start, marks>> /\ NoCallback

\* After a response that closed the connection only line ends are accepted.
s_dead ==
    /\ In("s_dead") /\ ch \in {CR, LF}
    /\ Advance(state)
    /\ UNCHANGED <<header_state, flags, content_length, start, marks>> /\ NoCallback

\* What no case accepts.
Unexpected ==
    \/ In("s_start_res") /\ ch \notin StartLines \cup {CR, LF}
    \/ In("s_res_status") /\ ch \notin {CR, LF}
    \/ In("s_header_field_start") /\ ch \notin Tokens \cup {CR, LF}
    \/ In("s_header_field") /\ NameEnd <= Len(data) /\ data[NameEnd] # ":"
    \/ /\ In("s_header_value_start") \/ (In("s_header_value_discard_ws") /\ ch \notin {SP, CR, LF})
       /\ header_state = "h_content_length" /\ ch \notin Digits
    \/ In("s_header_value") /\ ~AfterValue.ok
    \/ /\ \/ In("s_res_line_almost_done") \/ In("s_header_almost_done")
          \/ In("s_header_value_discard_ws_almost_done") \/ In("s_headers_almost_done")
          \/ In("s_headers_done") \/ In("s_chunk_size_almost_done") \/ In("s_chunk_data_done")
       /\ ch # LF
    \/ In("s_chunk_size_start") /\ ch \notin Digits
    \/ In("s_chunk_size") /\ ch \notin Digits \cup {CR, ";", SP}
    \/ In("s_chunk_size") /\ ch \in Digits /\ ~Fits(content_length)
    \/ In("s_chunk_data_almost_done") /\ ch # CR
    \/ In("s_dead") /\ ch \notin {CR, LF}

\* http_parser_execute returns less than it was given: socket_readable opens
\* the connection again.
ParseError ==
    /\ Unexpected
    /\ failed' = TRUE /\ closed' = TRUE
    /\ data' = <<>> /\ p' = 1
    /\ fieldMark' = 0 /\ valueMark' = 0 /\ bodyMark' = 0
    /\ UNCHANGED <<server, parser, buffers, completed, cutShort>>

Case ==
    /\ \/ s_start_res \/ s_res_status \/ s_res_line_almost_done
       \/ s_header_field_start \/ s_header_field
       \/ s_header_value_discard_ws \/ s_header_value_start \/ s_header_value
       \/ s_header_almost_done \/ s_header_value_lws
       \/ s_header_value_discard_ws_almost_done \/ s_header_value_discard_lws
       \/ s_headers_almost_done \/ s_headers_done
       \/ s_body_identity \/ s_body_identity_eof \/ s_message_done
       \/ s_chunk_size_start \/ s_chunk_size \/ s_chunk_parameters \/ s_chunk_size_almost_done
       \/ s_chunk_data \/ s_chunk_data_almost_done \/ s_chunk_data_done
       \/ s_dead
    /\ UNCHANGED <<server, data, failed, cutShort>>

\* The end of the buffer: what is still marked is handed over.
Flush ==
    /\ p > Len(data)
    /\ \/ /\ fieldMark # 0 /\ CallbackData("header_field", fieldMark, Len(data))
          /\ fieldMark' = 0 /\ UNCHANGED <<valueMark, bodyMark>>
       \/ /\ valueMark # 0 /\ CallbackData("header_value", valueMark, Len(data))
          /\ valueMark' = 0 /\ UNCHANGED <<fieldMark, bodyMark>>
       \/ /\ bodyMark # 0 /\ CallbackData("body", bodyMark, Len(data))
          /\ bodyMark' = 0 /\ UNCHANGED <<fieldMark, valueMark>>
    /\ UNCHANGED <<server, data, p, parser, failed, cutShort>>

Parse == Case \/ ParseError \/ Flush

-----------------------------------------------------------------------------
(* socket_readable, the socket and the server.                              *)

Waiting == p > Len(data) /\ marks = <<0, 0, 0>>

\* A name or a value that the last read left open is taken up again.  Mutant:
\* it is not.
ResumeMark_Never(s) == 0
ResumeMark(s) == IF state = s THEN 1 ELSE 0

Read(n) ==
    /\ Waiting /\ ~closed /\ taken + n <= Len(Wire[stream])
    /\ data' = SubSeq(Wire[stream], taken + 1, taken + n) /\ p' = 1
    /\ taken' = taken + n
    /\ fieldMark' = ResumeMark("s_header_field")
    /\ valueMark' = ResumeMark("s_header_value")
    /\ UNCHANGED <<stream, lost, connections, cuts, bodyMark, parser, buffers, closed, failed,
                   completed, cutShort>>

\* read() returns 0 after a body that ends so, and http_parser_execute gets
\* nothing to parse.
ReadEof ==
    /\ Waiting /\ ~closed /\ AllRead
    /\ state = "s_body_identity_eof"
    /\ message_complete(state)
    /\ UNCHANGED <<server, data, p, marks, failed, cutShort>>

\* read() fails: the connection is lost before its last byte was read.
Cut ==
    /\ Waiting /\ ~closed /\ ~AllRead /\ cuts < MaxCuts
    /\ cuts' = cuts + 1
    /\ lost' = TRUE /\ closed' = TRUE
    /\ UNCHANGED <<stream, taken, connections, data, p, marks, parser, buffers, failed,
                   completed, cutShort>>

\* socket_connected on the next socket.  The buffers of the connection are as
\* the last response left them.
NextConnection ==
    /\ Waiting /\ closed /\ connections < MaxConnections
    /\ connections' = connections + 1
    /\ stream' \in Later /\ taken' = 0
    /\ InitParser
    /\ data' = <<>> /\ p' = 1
    /\ lost' = FALSE /\ closed' = FALSE /\ failed' = FALSE /\ completed' = <<>>
    /\ cutShort' = (lost \/ failed \/ ~allocated)
    /\ UNCHANGED <<cuts, marks, buffers>>

\* Nothing is left to be read, and the connection may stay open for ever.
Finished ==
    /\ Waiting
    /\ IF closed THEN connections = MaxConnections
                 ELSE AllRead /\ state # "s_body_identity_eof"
    /\ UNCHANGED vars

Init ==
    /\ stream \in DOMAIN Streams /\ taken = 0
    /\ lost = FALSE
    /\ data = <<>> /\ p = 1
    /\ fieldMark = 0 /\ valueMark = 0 /\ bodyMark = 0
    /\ state = "s_start_res" /\ header_state = "h_general"
    /\ flags = {} /\ content_length = 0 /\ start = NoStart
    /\ phase = "FIELD" /\ headers = <<>> /\ body = <<>> /\ allocated = FALSE
    /\ closed = FALSE /\ failed = FALSE
    /\ connections = 1 /\ cuts = 0
    /\ completed = <<>>
    /\ cutShort = FALSE

Next ==
    \/ Parse
    \/ \E n \in 1..RecvBuf : Read(n)
    \/ ReadEof \/ Cut \/ NextConnection \/ Finished

Spec == Init /\ [][Next]_vars
FairSpec == Spec /\ WF_vars(Parse)

-----------------------------------------------------------------------------
(* Properties.                                                              *)

\* The variables have their types.
TypeOK ==
    /\ stream \in DOMAIN Streams /\ taken \in 0..Len(Wire[stream])
    /\ p \in 1..Len(data) + 1 /\ Len(data) <= RecvBuf
    /\ {fieldMark, valueMark, bodyMark} \subseteq 0..p
    /\ flags \subseteq {"KEEP", "CLOSE", "CHUNKED", "TRAILING"}
    /\ content_length \in 0..Largest
    /\ start \in StartLines \cup {NoStart}
    /\ phase \in {"FIELD", "VALUE"}
    /\ {allocated, closed, failed, lost} \subseteq BOOLEAN

\* "There should be at most one of these set" (src/src/http_parser.c:2046):
\* text that is handed over at the end of a buffer is of one kind, or it would
\* be handed over in the wrong order.
AtMostOneMark == p > Len(data) => Cardinality({i \in 1..3 : marks[i] # 0}) <= 1

\* The assertions on a body (src/src/http_parser.c:1877, 2005 and 2024): a body
\* or chunk that goes on has a length, which is not the one that stands for
\* "no length"; and chunks are read only in a chunked body.
BodyHasLength ==
    /\ p <= Len(data) /\ state \in {"s_body_identity", "s_chunk_data"} =>
          content_length \notin {0, NoLength}
    /\ state \in {"s_chunk_size_start", "s_chunk_size", "s_chunk_parameters",
                  "s_chunk_size_almost_done", "s_chunk_data", "s_chunk_data_almost_done",
                  "s_chunk_data_done"} => "CHUNKED" \in flags
    /\ state = "s_chunk_data_almost_done" => content_length = 0

\* No assertion of http_parser_execute fails.
AssertionsHold == AtMostOneMark /\ BodyHasLength

\* How many symbols have been parsed, and the responses that are complete by
\* then: none behind one that ends the connection or is out of range.
Parsed == taken - (Len(data) + 1 - p)
IsDue(i) ==
    /\ \A j \in 1..i - 1 : ~EndsConnection(sent[j])
    /\ \A j \in 1..i : ~sent[j].huge
    /\ Parsed >= WireEnd[stream][i]
    /\ sent[i].coding = "eof" => closed

\* However the bytes are cut into reads, a response is complete when its last
\* byte has been parsed, and not earlier: wrk takes its latency then.
CompletedOnTime == Len(completed) = Cardinality({i \in 1..Len(sent) : IsDue(i)})

\* What completed[i] says of the text of response i: all of it is there, behind
\* all else; and there is nothing else.
HasItsText(i) ==
    /\ IsSuffix(HeaderText[stream][i], completed[i].headers)
    /\ IsSuffix(Body(sent[i]), completed[i].body)
HasOnlyItsText(i) ==
    completed[i].headers = HeaderText[stream][i] /\ completed[i].body = Body(sent[i])

\* However the bytes are cut into reads, response() is called for a response
\* with headers, with its status and all of its text in order; and without the
\* text of another one if the response before was reported too, on this
\* connection or at the end of the last.  (A response without headers leaves a
\* single NUL, of which script_response makes a header.)
ReportsTheResponse ==
    \A i \in 1..Len(completed) :
        /\ completed[i].start = sent[i].start
        /\ AllHeaders(sent[i]) # <<>> => completed[i].called
        /\ completed[i].called =>
              /\ HasItsText(i)
              /\ ~cutShort \/ (\E j \in 1..i - 1 : completed[j].called) => HasOnlyItsText(i)

\* "response() is called with the HTTP response status, headers, and body"
\* (src/SCRIPTING:81): with those of the response and no other.
ReportsOwnText ==
    \A i \in 1..Len(completed) : completed[i].called => HasOnlyItsText(i)

\* wrk closes a connection exactly after the response that says so, after an
\* error in what it was sent, and when it is lost.
ClosesWhenTold ==
    closed <=> \/ failed \/ lost
               \/ completed # <<>> /\ EndsConnection(sent[Len(completed)])

\* The parser stops at no response, except at one whose length is out of range
\* and at what follows a response that ends the connection.
WellFormedAccepted ==
    failed => \E i \in 1..Len(sent) :
                 sent[i].huge \/ (i < Len(sent) /\ EndsConnection(sent[i]))

\* A buffer is parsed to its end: no case leaves the parser where it was.
BufferParsed == (p <= Len(data)) ~> (p > Len(data))

=============================================================================
