-------------------------- MODULE HttpParserProofs --------------------------
(***************************************************************************)
(* Proofs about HttpParser, for every stream a server may send, in reads   *)
(* of any length, on any number of connections: no assertion of the parser *)
(* fails and its state keeps its types; and wherever the stream is cut     *)
(* into reads, the parser is where a machine would be that is given the    *)
(* stream symbol by symbol (Follows).                                      *)
(***************************************************************************)
EXTENDS HttpParser, FiniteSetTheorems, SequenceTheorems, NaturalsInduction, WellFoundedInduction, TLAPS

\* A set of numbers has a least one.
LEMMA NatMin ==
    ASSUME NEW S, S \subseteq Nat, S # {}
    PROVE  \E x \in S : \A y \in S : x <= y
<1>1. PICK x \in S : \A y \in S : ~(<<y, x>> \in OpToRel(<, Nat))
  BY NatLessThanWellFounded, WFMin DEF OpToRel
<1>2. ASSUME NEW y \in S PROVE x <= y
  <2>1. x \in Nat /\ y \in Nat
    BY <1>1
  <2>2. ~(y < x)
    BY <1>1, <2>1 DEF OpToRel
  <2> QED
    BY <2>1, <2>2
<1> QED
  BY <1>1, <1>2

-----------------------------------------------------------------------------
(* What the state of the parser is between two of its cases.                *)

Flags == {"KEEP", "CLOSE", "CHUNKED", "TRAILING"}

\* The conjuncts of TypeOK but for the server's, one variable each.
Types ==
    /\ data \in Seq(STRING) /\ Len(data) <= RecvBuf
    /\ p \in 1..Len(data) + 1
    /\ fieldMark \in 0..p /\ valueMark \in 0..p /\ bodyMark \in 0..p
    /\ flags \subseteq Flags
    /\ content_length \in 0..Largest
    /\ start \in StartLines \cup {NoStart}
    /\ phase \in {"FIELD", "VALUE"}
    /\ allocated \in BOOLEAN /\ closed \in BOOLEAN

ServerTypes ==
    /\ stream \in DOMAIN Streams /\ taken \in 0..Len(Wire[stream])
    /\ failed \in BOOLEAN /\ lost \in BOOLEAN

\* A mark is set only in the state in which the text it begins goes on, so
\* there is one at most: text of two kinds is never open at once.
MarkInv ==
    /\ fieldMark # 0 => state = "s_header_field"
    /\ valueMark # 0 => state = "s_header_value"
    /\ bodyMark # 0 => state \in {"s_body_identity", "s_body_identity_eof", "s_chunk_data",
                                  "s_chunk_data_almost_done"}

\* What is left of a body or a chunk was told by a length that is neither 0
\* nor the one that stands for none; a size that is still being read never
\* reaches that one.
LengthInv ==
    /\ state \in {"s_body_identity", "s_chunk_data"} => content_length \in 1..Largest - 1
    /\ state \in {"s_chunk_size", "s_chunk_parameters", "s_chunk_size_almost_done"} =>
          content_length \in 0..Largest - 1
    /\ state = "s_chunk_data_almost_done" => content_length = 0

ChunkStates == {"s_chunk_size_start", "s_chunk_size", "s_chunk_parameters",
                "s_chunk_size_almost_done", "s_chunk_data", "s_chunk_data_almost_done",
                "s_chunk_data_done"}
ChunkInv == state \in ChunkStates => "CHUNKED" \in flags

Inv == Types /\ ServerTypes /\ MarkInv /\ LengthInv /\ ChunkInv

-----------------------------------------------------------------------------
(* Numbers, and the ends of names and lines.                                *)

\* A digit is a number below the base.
LEMMA DigitIs ==
    ASSUME NEW x \in Digits
    PROVE  Digit(x) \in 0..Base - 1
<1>1. PICK i \in 1..Base : x = Numerals[i]
  BY DEF Digits
<1>2. Base \in Nat
  BY NumbersAssumption
<1>3. i - 1 \in 0..Base - 1 /\ Numerals[(i - 1) + 1] = x
  BY <1>1, <1>2
<1> HIDE DEF Numerals
<1> QED
  BY <1>3 DEF Digit

\* A number that has room for a digit stays below the one that means none.
LEMMA DigitFits ==
    ASSUME NEW n \in 0..Largest, Fits(n), NEW x \in Digits
    PROVE  WithDigit(n, x) \in 0..Largest - 1
<1> DEFINE d == Digit(x)
           room == (Largest - Base) \div Base
<1>1. d \in 0..Base - 1
  BY DigitIs
<1>2. Base \in 2..4 /\ Largest \in Nat /\ Largest >= Base * Base
  BY NumbersAssumption
<1>3. n <= room
  BY DEF Fits
<1> HIDE DEF d, room
<1>4. Largest - Base \in Nat /\ Largest >= 4
  <2>1. CASE Base = 2
    BY <1>2, <2>1
  <2>2. CASE Base = 3
    BY <1>2, <2>2
  <2>3. CASE Base = 4
    BY <1>2, <2>3
  <2> QED
    BY <1>2, <2>1, <2>2, <2>3
<1>5. n * Base <= Largest - Base
  <2>1. CASE Base = 2
    BY <1>2, <1>3, <1>4, <2>1 DEF room
  <2>2. CASE Base = 3
    BY <1>2, <1>3, <1>4, <2>2 DEF room
  <2>3. CASE Base = 4
    BY <1>2, <1>3, <1>4, <2>3 DEF room
  <2> QED
    BY <1>2, <2>1, <2>2, <2>3
<1>6. n * Base \in Nat
  BY <1>2
<1> DEFINE y == n * Base
<1> HIDE DEF y
<1>7. y + d \in 0..Largest - 1
  BY <1>1, <1>2, <1>5, <1>6 DEF y
<1> QED
  BY <1>7 DEF WithDigit, y, d

\* The end of a run of symbols lies within the buffer, or at its end.
LEMMA EndWithin ==
    ASSUME data \in Seq(STRING), p \in 1..Len(data), NEW S
    PROVE  /\ EndOf(S) \in p..Len(data) + 1
           /\ EndOf(S) = Len(data) + 1 \/ data[EndOf(S)] \notin S
           /\ \A i \in p..EndOf(S) - 1 : data[i] \in S
<1> DEFINE Ends == {q \in p..Len(data) + 1 : q = Len(data) + 1 \/ data[q] \notin S}
<1>1. Len(data) \in Nat
  OBVIOUS
<1>2. Len(data) + 1 \in Ends
  BY <1>1
<1>3. PICK q \in Ends : \A r \in Ends : q <= r
  <2>1. Ends \subseteq Nat
    BY <1>1
  <2> HIDE DEF Ends
  <2> QED
    BY <1>2, <2>1, NatMin
<1>4. \A i \in p..q - 1 : data[i] \in S
  <2> SUFFICES ASSUME NEW i \in p..q - 1, data[i] \notin S PROVE FALSE
    OBVIOUS
  <2>1. i \in Ends /\ i < q
    BY <1>1, <1>3
  <2> QED
    BY <1>1, <1>3, <2>1
<1>5. q \in p..Len(data) + 1 /\ (q = Len(data) + 1 \/ data[q] \notin S)
  BY <1>3
<1> QED
  BY <1>4, <1>5 DEF EndOf

-----------------------------------------------------------------------------
(* What the symbols of a value make of the parser.                          *)

HeaderStates == {"h_general", "h_transfer_encoding_chunked", "h_connection_keep_alive",
                 "h_connection_close", "h_matching_connection_token",
                 "h_matching_connection_token_start", "h_matching_connection_keep_alive",
                 "h_matching_connection_close"}

\* The records that AfterValue goes through, when the value began with h.
ValuesFrom(h) == [h : HeaderStates \cup {h}, flags : SUBSET Flags, length : 0..Largest, ok : BOOLEAN]

\* The flags a header_state leads to are flags.
LEMMA FlagOfIs == \A h : FlagOf(h) \subseteq Flags
BY DEF FlagOf, Flags

\* One symbol more.
LEMMA ValueStep ==
    ASSUME NEW h, NEW v \in ValuesFrom(h), NEW c
    PROVE  ValueNext(v, c) \in ValuesFrom(h)
<1>1. CASE v.h = "h_content_length"
  <2>1. CASE c \in Digits /\ Fits(v.length)
    <3>1. WithDigit(v.length, c) \in 0..Largest
      <4>1. v.length \in 0..Largest /\ Largest \in Nat
        BY NumbersAssumption DEF ValuesFrom
      <4>2. WithDigit(v.length, c) \in 0..Largest - 1
        BY <2>1, <4>1, DigitFits
      <4> QED
        BY <4>1, <4>2
    <3>2. ValueNext(v, c) = [v EXCEPT !.length = WithDigit(@, c)]
      BY <1>1, <2>1 DEF ValueNext
    <3> QED
      BY <3>1, <3>2 DEF ValuesFrom
  <2>2. CASE ~(c \in Digits /\ Fits(v.length))
    <3>1. ValueNext(v, c) = [v EXCEPT !.ok = @ /\ c = SP]
      BY <1>1, <2>2 DEF ValueNext
    <3>2. (v.ok /\ c = SP) \in BOOLEAN
      OBVIOUS
    <3> QED
      BY <3>1, <3>2 DEF ValuesFrom
  <2> QED
    BY <2>1, <2>2
<1>2. CASE v.h # "h_content_length"
  <2> DEFINE f == v.flags \cup (IF c = "," THEN FlagOf(v.h) \ {"CHUNKED"} ELSE {})
             n == HeaderStateNext(v.h, c)
  <2>1. ValueNext(v, c) = [v EXCEPT !.h = n, !.flags = f]
    BY <1>2 DEF ValueNext
  <2>2. f \in SUBSET Flags
    BY FlagOfIs DEF ValuesFrom
  <2>3. n \in HeaderStates
    BY DEF HeaderStateNext, ConnectionToken, HeaderStates
  <2> HIDE DEF f, n
  <2> QED
    BY <2>1, <2>2, <2>3 DEF ValuesFrom
<1> QED
  BY <1>1, <1>2

\* Any number of them.
LEMMA ValueTypes ==
    ASSUME Types, p <= Len(data)
    PROVE  AfterValue.flags \subseteq Flags /\ AfterValue.length \in 0..Largest
<1> DEFINE e == LineEnd - 1
           first == [h |-> header_state, flags |-> flags, length |-> content_length, ok |-> TRUE]
           V == ValuesFrom(header_state)
           IsFold(g, k) == g = [q \in p - 1..k |-> IF q = p - 1 THEN first
                                                   ELSE ValueNext(g[q - 1], data[q])]
           Typed(g, k) == IsFold(g, k) /\ g \in [p - 1..k -> V]
<1>1. p \in Nat /\ p - 1 \in Nat /\ e \in Nat /\ p - 1 <= e
  <2>1. data \in Seq(STRING) /\ p \in 1..Len(data) /\ Len(data) \in Nat
    BY DEF Types
  <2>2. LineEnd \in p..Len(data) + 1
    BY <2>1, EndWithin DEF LineEnd
  <2> QED
    BY <2>1, <2>2
<1>2. first \in V
  BY DEF Types, ValuesFrom
<1>3. \A v \in V : \A c : ValueNext(v, c) \in V
  BY ValueStep
<1>4. AfterValue = (CHOOSE g : IsFold(g, e))[e]
  BY DEF AfterValue
<1> HIDE DEF e, first, V
<1> DEFINE Bad == {k \in p - 1..e : ~ \E g : Typed(g, k)}
<1>5. Bad = {}
  <2>1. SUFFICES ASSUME Bad # {} PROVE FALSE
    OBVIOUS
  <2>2. PICK k \in Bad : \A j \in Bad : k <= j
    <3>1. Bad \subseteq Nat
      BY <1>1
    <3> HIDE DEF Bad
    <3> QED
      BY <2>1, <3>1, NatMin
  <2>3. k \in p - 1..e /\ ~ \E g : Typed(g, k)
    BY <2>2
  <2>4. k # p - 1
    <3> SUFFICES ASSUME k = p - 1 PROVE FALSE
      OBVIOUS
    <3> DEFINE g == [q \in p - 1..k |-> first]
    <3>1. \A q \in p - 1..k : q = p - 1
      BY <1>1
    <3>2. Typed(g, k)
      BY <1>2, <3>1
    <3> QED
      BY <2>3, <3>2
  <2> HIDE DEF Bad
  <2>5. k - 1 \in p - 1..e /\ k - 1 \notin Bad
    BY <1>1, <2>2, <2>3, <2>4
  <2>6. PICK g : Typed(g, k - 1)
    BY <2>5 DEF Bad
  <2> DEFINE x == ValueNext(g[k - 1], data[k])
             f == [q \in p - 1..k |-> IF q = k THEN x ELSE g[q]]
  <2>7. /\ g \in [p - 1..k - 1 -> V]
        /\ \A q \in p - 1..k - 1 : g[q] = IF q = p - 1 THEN first ELSE ValueNext(g[q - 1], data[q])
    BY <2>6
  <2>8. x \in V
    <3>1. g[k - 1] \in V
      BY <1>1, <2>3, <2>4, <2>7
    <3> QED
      BY <1>3, <3>1
  <2>9. f \in [p - 1..k -> V]
    <3> HIDE DEF x
    <3> QED
      BY <1>1, <2>3, <2>7, <2>8
  <2>10. ASSUME NEW q \in p - 1..k
         PROVE  f[q] = IF q = p - 1 THEN first ELSE ValueNext(f[q - 1], data[q])
    <3>1. CASE q = k
      <4>1. f[q] = x /\ f[k - 1] = g[k - 1]
        BY <1>1, <2>3, <2>4, <3>1
      <4> QED
        BY <2>4, <3>1, <4>1
    <3>2. CASE q # k
      <4>1. q \in p - 1..k - 1 /\ f[q] = g[q] /\ (q # p - 1 => f[q - 1] = g[q - 1])
        BY <1>1, <2>3, <3>2
      <4> QED
        BY <2>7, <4>1
    <3> QED
      BY <3>1, <3>2
  <2> HIDE DEF f
  <2>11. Typed(f, k)
    BY <2>9, <2>10
  <2> QED
    BY <2>3, <2>11
<1>6. PICK g : Typed(g, e)
  <2>1. e \in p - 1..e
    BY <1>1
  <2>2. e \notin Bad
    <3> HIDE DEF Bad
    <3> QED
      BY <1>5
  <2> QED
    BY <2>1, <2>2
<1> DEFINE after == CHOOSE f : IsFold(f, e)
<1>7. IsFold(after, e)
  <2> HIDE DEF IsFold
  <2> QED
    BY <1>6
<1>8. \A q \in p - 1..e : after[q] = IF q = p - 1 THEN first ELSE ValueNext(after[q - 1], data[q])
  <2> HIDE DEF after
  <2> QED
    BY <1>7
<1> HIDE DEF after
<1> DEFINE Wrong == {q \in p - 1..e : after[q] \notin V}
<1>9. Wrong = {}
  <2>1. SUFFICES ASSUME Wrong # {} PROVE FALSE
    OBVIOUS
  <2>2. PICK q \in Wrong : \A r \in Wrong : q <= r
    <3>1. Wrong \subseteq Nat
      BY <1>1
    <3> HIDE DEF Wrong
    <3> QED
      BY <2>1, <3>1, NatMin
  <2>3. q \in p - 1..e /\ after[q] \notin V /\ q # p - 1
    BY <1>2, <1>8, <2>2
  <2>4. q - 1 \in p - 1..e /\ q - 1 \notin Wrong
    BY <1>1, <2>2, <2>3
  <2>5. after[q - 1] \in V
    BY <2>4
  <2> QED
    BY <1>3, <1>8, <2>3, <2>5
<1>10. after[e] \in V
  <2>1. e \in p - 1..e
    BY <1>1
  <2> QED
    BY <1>9, <2>1
<1>11. AfterValue \in V
  BY <1>4, <1>10 DEF after
<1> QED
  BY <1>11 DEF V, ValuesFrom

-----------------------------------------------------------------------------
(* The cases of the parser.                                                 *)

\* Handing text over changes nothing that the cases look at.
LEMMA Handed ==
    ASSUME Types, NEW on, NEW mark, NEW last, CallbackData(on, mark, last)
    PROVE  /\ phase' \in {"FIELD", "VALUE"} /\ allocated' \in BOOLEAN /\ closed' \in BOOLEAN
<1>1. CASE mark = 0
  BY <1>1 DEF CallbackData, NoCallback, buffers, Types
<1>2. CASE mark # 0
  BY <1>2 DEF CallbackData, NoReport, header_field, header_value, response_body, Types
<1> QED
  BY <1>1, <1>2

\* The end of a message.
LEMMA Completed ==
    ASSUME Types, NEW s, message_complete(s)
    PROVE  /\ phase' \in {"FIELD", "VALUE"} /\ allocated' \in BOOLEAN /\ closed' \in BOOLEAN
           /\ \/ /\ state' = "s_start_res" /\ flags' = {} /\ content_length' = 0
                 /\ start' = NoStart
              \/ /\ state' = s
                 /\ UNCHANGED <<flags, content_length, start>>
<1>1. phase' \in {"FIELD", "VALUE"} /\ allocated' \in BOOLEAN
  BY DEF message_complete, Types
<1>2. CASE ShouldKeepAlive
  BY <1>1, <1>2 DEF message_complete, InitParser, Types
<1>3. CASE ~ShouldKeepAlive
  BY <1>1, <1>3 DEF message_complete, Types
<1> QED
  BY <1>2, <1>3

\* What a step of the parser must leave as it was or bring about.
Kept == (Types /\ MarkInv /\ LengthInv /\ ChunkInv)'

\* No text is open at the end of a message, and nothing is left of its length.
LEMMA MessageEnd ==
    ASSUME Inv, NEW s \in {"s_dead", "s_body_identity_eof"}, message_complete(s),
           data' = data, p' \in 1..Len(data) + 1,
           fieldMark' = 0, valueMark' = 0, bodyMark' = 0
    PROVE  Kept
<1>1. Types /\ Len(data) \in Nat /\ p' \in Nat
  BY DEF Inv, Types
<1>2. /\ phase' \in {"FIELD", "VALUE"} /\ allocated' \in BOOLEAN /\ closed' \in BOOLEAN
      /\ \/ /\ state' = "s_start_res" /\ flags' = {} /\ content_length' = 0
            /\ start' = NoStart
         \/ /\ state' = s
            /\ UNCHANGED <<flags, content_length, start>>
  BY <1>1, Completed
<1>3. /\ flags' \subseteq Flags /\ content_length' \in 0..Largest
      /\ start' \in StartLines \cup {NoStart}
  <2>1. 0 \in 0..Largest
    BY NumbersAssumption
  <2> QED
    BY <1>1, <1>2, <2>1 DEF Types
<1>4. state' \in {"s_start_res", "s_dead", "s_body_identity_eof"}
  BY <1>2
<1>5. Types'
  BY <1>1, <1>2, <1>3 DEF Types
<1>6. MarkInv' /\ LengthInv' /\ ChunkInv'
  BY <1>4 DEF MarkInv, LengthInv, ChunkInv, ChunkStates
<1> QED
  BY <1>5, <1>6 DEF Kept

\* One case of the parser keeps the invariant.
LEMMA CaseStep ==
    ASSUME Inv, Case
    PROVE  Kept
<1> USE NumbersAssumption DEF Inv
<1>0. data' = data /\ data \in Seq(STRING) /\ Len(data) \in Nat
  BY DEF Case, Types
<1>1. CASE s_start_res
  <2>1. NoLength \in 0..Largest
    BY DEF NoLength
  <2>2. /\ start' \in StartLines \cup {NoStart} /\ flags' = {} /\ content_length' = NoLength
        /\ p \in 1..Len(data) /\ p' = p + 1 /\ state' \in {"s_start_res", "s_res_status"}
        /\ UNCHANGED <<marks, buffers, closed>>
    BY <1>0, <1>1 DEF s_start_res, In, Advance, NoCallback, Types
  <2> HIDE DEF NoLength
  <2> QED
    BY <1>0, <1>1, <2>1, <2>2 DEF s_start_res, In, Kept, marks, buffers,
       Types, MarkInv, LengthInv, ChunkInv, ChunkStates, Flags
<1>2. CASE s_res_status
  BY <1>0, <1>2, FlagOfIs DEF s_res_status, Kept, In, Advance, Reexecute, Rest, NoCallback, NoReport, buffers, marks, parser,
     Types, MarkInv, LengthInv, ChunkInv, ChunkStates, Flags
<1>3. CASE s_res_line_almost_done
  BY <1>0, <1>3, FlagOfIs DEF s_res_line_almost_done, Kept, In, Advance, Reexecute, Rest, NoCallback, NoReport, buffers, marks, parser,
     Types, MarkInv, LengthInv, ChunkInv, ChunkStates, Flags
<1>4. CASE s_header_field_start
  BY <1>0, <1>4, FlagOfIs DEF s_header_field_start, Kept, In, Advance, Reexecute, Rest, NoCallback, NoReport, buffers, marks, parser,
     Types, MarkInv, LengthInv, ChunkInv, ChunkStates, Flags
<1>5. CASE s_header_value_discard_ws
  BY <1>0, <1>5, FlagOfIs DEF s_header_value_discard_ws, Kept, In, Advance, Reexecute, Rest, NoCallback, NoReport, buffers, marks, parser,
     Types, MarkInv, LengthInv, ChunkInv, ChunkStates, Flags
<1>6. CASE s_header_value_start
  BY <1>0, <1>6, DigitIs DEF s_header_value_start, Kept, In, Advance, Reexecute, Rest, NoCallback, NoReport, buffers, marks, parser,
     Types, MarkInv, LengthInv, ChunkInv, ChunkStates, Flags
<1>7. CASE s_header_field
  <2>1. NameEnd \in p..Len(data) + 1 /\ p \in 1..Len(data)
    BY <1>0, <1>7, EndWithin DEF s_header_field, In, NameEnd, Types
  <2>2. phase' \in {"FIELD", "VALUE"} /\ allocated' \in BOOLEAN /\ closed' \in BOOLEAN
    BY <1>7, Handed DEF s_header_field, NoCallback, buffers, Types
  <2>3. /\ p' \in p..Len(data) + 1 /\ UNCHANGED <<flags, content_length, start, valueMark, bodyMark>>
        /\ \/ state' = state /\ fieldMark' = fieldMark
           \/ state' = "s_header_value_discard_ws" /\ fieldMark' = 0
    <3> HIDE DEF NameEnd
    <3> QED
      BY <1>0, <1>7, <2>1 DEF s_header_field, MarkAfterName
  <2>4. state = "s_header_field"
    BY <1>7 DEF s_header_field, In
  <2> QED
    BY <1>0, <2>1, <2>2, <2>3, <2>4 DEF Kept, Types, MarkInv, LengthInv, ChunkInv, ChunkStates, Flags
<1>8. CASE s_header_value
  <2>0. p \in 1..Len(data) /\ state = "s_header_value"
    BY <1>0, <1>8 DEF s_header_value, In, Types
  <2>1. LineEnd \in p..Len(data) + 1
    BY <1>0, <2>0, EndWithin DEF LineEnd
  <2>2. phase' \in {"FIELD", "VALUE"} /\ allocated' \in BOOLEAN /\ closed' \in BOOLEAN
    BY <1>8, Handed DEF s_header_value, NoCallback, buffers, Types
  <2>3. flags' \subseteq Flags /\ content_length' \in 0..Largest
    BY <1>0, <1>8, <2>0, ValueTypes DEF s_header_value
  <2>4. /\ p' \in p..Len(data) + 1 /\ UNCHANGED <<start, fieldMark, bodyMark>>
        /\ \/ state' = state /\ valueMark' = valueMark
           \/ state' = "s_header_almost_done" /\ valueMark' = 0
    <3> HIDE DEF LineEnd
    <3> QED
      BY <1>0, <1>8, <2>0, <2>1 DEF s_header_value, AfterLine
  <2> QED
    BY <1>0, <2>0, <2>1, <2>2, <2>3, <2>4 DEF Kept, Types, MarkInv, LengthInv, ChunkInv, ChunkStates, Flags
<1>9. CASE s_header_almost_done
  BY <1>0, <1>9, FlagOfIs DEF s_header_almost_done, Kept, In, Advance, Reexecute, Rest, NoCallback, NoReport, buffers, marks, parser,
     Types, MarkInv, LengthInv, ChunkInv, ChunkStates, Flags
<1>10. CASE s_header_value_lws
  BY <1>0, <1>10, FlagOfIs DEF s_header_value_lws, Kept, In, Advance, Reexecute, Rest, NoCallback, NoReport, buffers, marks, parser,
     Types, MarkInv, LengthInv, ChunkInv, ChunkStates, Flags
<1>11. CASE s_header_value_discard_ws_almost_done
  BY <1>0, <1>11, FlagOfIs DEF s_header_value_discard_ws_almost_done, Kept, In, Advance, Reexecute, Rest, NoCallback, NoReport, buffers, marks, parser,
     Types, MarkInv, LengthInv, ChunkInv, ChunkStates, Flags
<1>12. CASE s_header_value_discard_lws
  <2>1. /\ p \in 1..Len(data) /\ state = "s_header_value_discard_lws"
        /\ UNCHANGED <<content_length, start, marks>>
    BY <1>0, <1>12 DEF s_header_value_discard_lws, In, Types
  <2>2. CASE ch = SP
    <3>1. /\ p' = p + 1 /\ state' = "s_header_value_discard_ws"
          /\ UNCHANGED <<flags, buffers, closed>>
      BY <1>12, <2>2 DEF s_header_value_discard_lws, Advance, NoCallback
    <3> QED
      BY <1>0, <2>1, <3>1 DEF Kept, marks, buffers, Types, MarkInv, LengthInv, ChunkInv, ChunkStates
  <2>3. CASE ch # SP
    <3>1. /\ p' = p /\ state' = "s_header_field_start" /\ flags' = flags \cup FlagOf(header_state)
          /\ phase' = "VALUE" /\ UNCHANGED <<allocated, closed>>
      BY <1>12, <2>3 DEF s_header_value_discard_lws, Reexecute, AfterEmptyValue, header_value, NoReport
    <3>2. flags' \subseteq Flags
      BY <3>1, FlagOfIs DEF Types
    <3> QED
      BY <1>0, <2>1, <3>1, <3>2 DEF Kept, marks, Types, MarkInv, LengthInv, ChunkInv, ChunkStates
  <2> QED
    BY <2>2, <2>3
<1>13. CASE s_headers_almost_done
  <2>1. p \in 1..Len(data) /\ state = "s_headers_almost_done" /\ UNCHANGED marks
    BY <1>0, <1>13 DEF s_headers_almost_done, In, Types
  <2>2. CASE "TRAILING" \in flags
    <3>1. p' = p + 1 /\ message_complete("s_dead")
      BY <1>13, <2>2 DEF s_headers_almost_done, NEW_MESSAGE
    <3> QED
      BY <1>0, <2>1, <3>1, MessageEnd DEF marks, MarkInv
  <2>3. CASE "TRAILING" \notin flags
    BY <1>0, <1>13, <2>1, <2>3 DEF s_headers_almost_done, Kept, In, Advance, Reexecute, Rest, NoCallback, NoReport, buffers, marks, parser,
       Types, MarkInv, LengthInv, ChunkInv, ChunkStates, Flags
  <2> QED
    BY <2>2, <2>3
<1>14. CASE s_headers_done
  <2> DEFINE Ends == "CHUNKED" \notin flags /\ (content_length = 0 \/ (content_length = NoLength /\ ~NeedsEof))
  <2>1. p \in 1..Len(data) /\ state = "s_headers_done" /\ UNCHANGED marks
    BY <1>0, <1>14 DEF s_headers_done, In, Types
  <2>2. CASE Ends
    <3>1. p' = p + 1 /\ message_complete("s_dead")
      BY <1>14, <2>2 DEF s_headers_done, NEW_MESSAGE
    <3> QED
      BY <1>0, <2>1, <3>1, MessageEnd DEF marks, MarkInv
  <2>3. CASE ~Ends
    <3>1. /\ state' = IF "CHUNKED" \in flags THEN "s_chunk_size_start"
                      ELSE IF content_length = NoLength THEN "s_body_identity_eof"
                      ELSE "s_body_identity"
          /\ p' = p + 1 /\ UNCHANGED <<flags, content_length, start, buffers, closed>>
      BY <1>14, <2>3 DEF s_headers_done, Advance, NoCallback
    <3>2. state' = "s_body_identity" => content_length \in 1..Largest - 1
      BY <2>3, <3>1 DEF NoLength, Types
    <3> QED
      BY <1>0, <2>1, <3>1, <3>2 DEF Kept, marks, buffers, Types, MarkInv, LengthInv, ChunkInv, ChunkStates, Flags
  <2> QED
    BY <2>2, <2>3
<1>15. CASE s_body_identity
  <2>1. /\ p \in 1..Len(data) /\ state = "s_body_identity"
        /\ content_length \in 1..Largest - 1 /\ Largest \in Nat
    BY <1>0, <1>15 DEF s_body_identity, In, Types, LengthInv
  <2>2. ToRead \in 1..content_length /\ p + ToRead <= Len(data) + 1
    BY <1>0, <2>1 DEF ToRead, SmallerOf
  <2>3. phase' \in {"FIELD", "VALUE"} /\ allocated' \in BOOLEAN /\ closed' \in BOOLEAN
    BY <1>15, Handed DEF s_body_identity, NoCallback, buffers, Types
  <2> HIDE DEF ToRead
  <2>4. /\ content_length' = content_length - ToRead /\ UNCHANGED <<flags, start, fieldMark, valueMark>>
        /\ \/ ToRead = content_length /\ state' = "s_message_done" /\ p' = p + ToRead - 1 /\ bodyMark' = 0
           \/ ToRead # content_length /\ state' = state /\ p' = p + ToRead /\ bodyMark' = Rest(bodyMark)
    BY <1>15 DEF s_body_identity
  <2> QED
    BY <1>0, <2>1, <2>2, <2>3, <2>4 DEF Kept, Rest, Types, MarkInv, LengthInv, ChunkInv, ChunkStates, Flags
<1>16. CASE s_body_identity_eof
  BY <1>0, <1>16, FlagOfIs DEF s_body_identity_eof, Kept, In, Advance, Reexecute, Rest, NoCallback, NoReport, buffers, marks, parser,
     Types, MarkInv, LengthInv, ChunkInv, ChunkStates, Flags
<1>17. CASE s_message_done
  <2>1. p \in 1..Len(data) /\ state = "s_message_done" /\ UNCHANGED marks
        /\ p' = p + 1 /\ message_complete("s_dead")
    BY <1>0, <1>17 DEF s_message_done, In, NEW_MESSAGE, Types
  <2> QED
    BY <1>0, <2>1, MessageEnd DEF marks, MarkInv
<1>18. CASE s_chunk_size_start
  BY <1>0, <1>18, DigitIs DEF s_chunk_size_start, Kept, In, Advance, Reexecute, Rest, NoCallback, NoReport, buffers, marks, parser,
     Types, MarkInv, LengthInv, ChunkInv, ChunkStates, Flags
<1>19. CASE s_chunk_size
  <2>0. p \in 1..Len(data) /\ state = "s_chunk_size"
    <3>1. In("s_chunk_size")
      BY <1>19 DEF s_chunk_size
    <3> QED
      BY <1>0, <3>1 DEF In, Types
  <2>1. /\ p' = p + 1
        /\ state' \in {"s_chunk_size", "s_chunk_parameters", "s_chunk_size_almost_done"}
        /\ UNCHANGED <<flags, start, marks, buffers, closed>>
    <3>1. UNCHANGED <<flags, start, marks, buffers, closed>>
      BY <1>19 DEF s_chunk_size, NoCallback
    <3> QED
      BY <1>19, <2>0, <3>1 DEF s_chunk_size, Advance
  <2>2. content_length \in 0..Largest - 1 /\ content_length \in 0..Largest
    BY <2>0 DEF LengthInv, Types
  <2>3. content_length' \in 0..Largest - 1
    BY <1>19, <2>2, DigitFits DEF s_chunk_size
  <2>4. content_length' \in 0..Largest
    BY <2>3
  <2> QED
    BY <1>0, <2>0, <2>1, <2>3, <2>4 DEF Kept, marks, buffers, Types, MarkInv, LengthInv, ChunkInv, ChunkStates, Flags
<1>20. CASE s_chunk_parameters
  BY <1>0, <1>20, FlagOfIs DEF s_chunk_parameters, Kept, In, Advance, Reexecute, Rest, NoCallback, NoReport, buffers, marks, parser,
     Types, MarkInv, LengthInv, ChunkInv, ChunkStates, Flags
<1>21. CASE s_chunk_size_almost_done
  <2>1. /\ p \in 1..Len(data) /\ p' = p + 1 /\ state = "s_chunk_size_almost_done"
        /\ UNCHANGED <<content_length, start, marks, buffers, closed>>
        /\ \/ content_length = 0 /\ state' = "s_header_field_start" /\ flags' = flags \cup {"TRAILING"}
           \/ content_length # 0 /\ state' = "s_chunk_data" /\ flags' = flags
    BY <1>0, <1>21 DEF s_chunk_size_almost_done, In, Advance, NoCallback, Types
  <2>2. content_length \in 0..Largest - 1 /\ "CHUNKED" \in flags
    BY <2>1 DEF LengthInv, ChunkInv, ChunkStates
  <2>3. flags' \subseteq Flags /\ "CHUNKED" \in flags'
    BY <2>1, <2>2 DEF Types, Flags
  <2>4. Types' /\ MarkInv'
    BY <1>0, <2>1, <2>3 DEF marks, buffers, Types, MarkInv
  <2>5. LengthInv' /\ ChunkInv'
    BY <2>1, <2>2, <2>3 DEF LengthInv, ChunkInv
  <2> QED
    BY <2>4, <2>5 DEF Kept
<1>22. CASE s_chunk_data
  <2>1. /\ p \in 1..Len(data) /\ state = "s_chunk_data"
        /\ content_length \in 1..Largest - 1 /\ Largest \in Nat
    BY <1>0, <1>22 DEF s_chunk_data, In, Types, LengthInv
  <2>2. ToRead \in 1..content_length /\ p + ToRead <= Len(data) + 1
    BY <1>0, <2>1 DEF ToRead, SmallerOf
  <2> HIDE DEF ToRead
  <2>3. /\ content_length' = content_length - ToRead /\ bodyMark' = Rest(bodyMark) /\ p' = p + ToRead
        /\ state' = IF ToRead = content_length THEN "s_chunk_data_almost_done" ELSE state
        /\ UNCHANGED <<flags, start, fieldMark, valueMark, buffers, closed>>
    BY <1>22 DEF s_chunk_data, NoCallback
  <2> QED
    BY <1>0, <2>1, <2>2, <2>3 DEF Kept, Rest, buffers, Types, MarkInv, LengthInv, ChunkInv, ChunkStates, Flags
<1>23. CASE s_chunk_data_almost_done
  <2>1. phase' \in {"FIELD", "VALUE"} /\ allocated' \in BOOLEAN /\ closed' \in BOOLEAN
    BY <1>23, Handed DEF s_chunk_data_almost_done, Types
  <2> QED
    BY <1>0, <1>23, <2>1 DEF s_chunk_data_almost_done, Kept, In, Advance, Types, MarkInv, LengthInv, ChunkInv, ChunkStates, Flags
<1>24. CASE s_chunk_data_done
  BY <1>0, <1>24, FlagOfIs DEF s_chunk_data_done, Kept, In, Advance, Reexecute, Rest, NoCallback, NoReport, buffers, marks, parser,
     Types, MarkInv, LengthInv, ChunkInv, ChunkStates, Flags
<1>25. CASE s_dead
  BY <1>0, <1>25, FlagOfIs DEF s_dead, Kept, In, Advance, Reexecute, Rest, NoCallback, NoReport, buffers, marks, parser,
     Types, MarkInv, LengthInv, ChunkInv, ChunkStates, Flags
<1> QED
  BY <1>1, <1>2, <1>3, <1>4, <1>5, <1>6, <1>7, <1>8, <1>9, <1>10, <1>11, <1>12, <1>13, <1>14, <1>15, <1>16, <1>17, <1>18, <1>19, <1>20, <1>21, <1>22, <1>23, <1>24, <1>25 DEF Case

-----------------------------------------------------------------------------
(* The other steps, and the invariant.                                      *)

\* Text is handed over at the end of a buffer.
LEMMA FlushStep ==
    ASSUME Inv, Flush
    PROVE  Kept
<1>1. /\ Types /\ Len(data) \in Nat
      /\ UNCHANGED <<data, p, state, flags, content_length, start>>
  BY DEF Inv, Types, Flush, parser
<1>2. phase' \in {"FIELD", "VALUE"} /\ allocated' \in BOOLEAN /\ closed' \in BOOLEAN
  BY <1>1, Handed DEF Flush
<1>3. /\ fieldMark' \in {0, fieldMark} /\ valueMark' \in {0, valueMark}
      /\ bodyMark' \in {0, bodyMark}
  BY DEF Flush
<1>4. Types'
  BY <1>1, <1>2, <1>3 DEF Types
<1>5. MarkInv' /\ LengthInv' /\ ChunkInv'
  BY <1>1, <1>3 DEF Inv, MarkInv, LengthInv, ChunkInv
<1> QED
  BY <1>4, <1>5 DEF Kept

\* An error is found, or the connection is cut off.
LEMMA LossStep ==
    ASSUME Inv, ParseError \/ Cut
    PROVE  Kept
<1>1. /\ Types
      /\ UNCHANGED <<state, flags, content_length, start, phase, allocated>>
      /\ closed' = TRUE
  BY DEF Inv, ParseError, Cut, parser, buffers
<1>2. MarkInv' /\ LengthInv' /\ ChunkInv'
  BY <1>1 DEF Inv, MarkInv, LengthInv, ChunkInv, ParseError, Cut, marks
<1>3. CASE ParseError
  <2>1. data' = <<>> /\ p' = 1 /\ fieldMark' = 0 /\ valueMark' = 0 /\ bodyMark' = 0
    BY <1>3 DEF ParseError
  <2>2. data' \in Seq(STRING) /\ Len(data') = 0 /\ 0 <= RecvBuf
    BY <2>1, HttpParserAssumption
  <2> QED
    BY <1>1, <1>2, <2>1, <2>2 DEF Kept, Types
<1>4. CASE Cut
  <2>1. UNCHANGED <<data, p, fieldMark, valueMark, bodyMark>>
    BY <1>4 DEF Cut, marks
  <2> QED
    BY <1>1, <1>2, <2>1 DEF Kept, Types
<1> QED
  BY <1>3, <1>4

\* Bytes are read.
LEMMA ReadStep ==
    ASSUME Inv, NEW n \in 1..RecvBuf, Read(n)
    PROVE  Kept /\ taken' \in 0..Len(Wire[stream])
<1>1. /\ Types /\ ServerTypes /\ RecvBuf \in Nat /\ n \in Nat \ {0} /\ n <= RecvBuf
      /\ fieldMark = 0 /\ valueMark = 0 /\ bodyMark = 0
  BY HttpParserAssumption DEF Inv, Read, Waiting, marks
<1>2. UNCHANGED <<state, flags, content_length, start, phase, allocated, closed, bodyMark>>
  BY DEF Read, parser, buffers
<1>3. Wire[stream] \in Seq(STRING)
  BY <1>1, WireAssumption DEF ServerTypes
<1> DEFINE wire == Wire[stream]
<1> HIDE DEF wire
<1>4. wire \in Seq(STRING) /\ Len(wire) \in Nat /\ taken \in 0..Len(wire) /\ taken + n <= Len(wire)
  BY <1>1, <1>3 DEF wire, ServerTypes, Read
<1>5. data' \in Seq(STRING) /\ Len(data') = n
  <2>1. taken + 1 \in 1..Len(wire) + 1 /\ taken + n \in taken..Len(wire)
    BY <1>1, <1>4
  <2>2. data' = SubSeq(wire, taken + 1, taken + n)
    BY DEF Read, wire
  <2>3. SubSeq(wire, taken + 1, taken + n) \in Seq(STRING)
    BY <1>1, <1>4, SubSeqProperties
  <2>4. Len(SubSeq(wire, taken + 1, taken + n)) = n
    BY <1>1, <1>4
  <2> QED
    BY <2>2, <2>3, <2>4
<1>6. p' = 1 /\ fieldMark' \in {0, 1} /\ valueMark' \in {0, 1}
  BY DEF Read, ResumeMark
<1>7. Types'
  BY <1>1, <1>2, <1>5, <1>6 DEF Types
<1>8. MarkInv'
  BY <1>1, <1>2 DEF MarkInv, Read, ResumeMark
<1>9. LengthInv' /\ ChunkInv'
  BY <1>2 DEF Inv, LengthInv, ChunkInv
<1>10. taken' \in 0..Len(Wire[stream])
  <2>1. taken' \in 0..Len(wire)
    BY <1>1, <1>4 DEF Read
  <2> QED
    BY <2>1 DEF wire
<1> QED
  BY <1>7, <1>8, <1>9, <1>10 DEF Kept

\* A connection is opened.
LEMMA OpenedIs ==
    ASSUME InitParser, data' = <<>>, p' = 1, fieldMark' = 0, valueMark' = 0, bodyMark' = 0,
           closed' = FALSE, phase' \in {"FIELD", "VALUE"}, allocated' \in BOOLEAN
    PROVE  Kept
<1>1. /\ state' = "s_start_res" /\ flags' = {} /\ content_length' = 0 /\ start' = NoStart
      /\ data' \in Seq(STRING) /\ Len(data') = 0 /\ 0 <= RecvBuf /\ 0 \in 0..Largest
  BY HttpParserAssumption, NumbersAssumption DEF InitParser
<1>2. Types'
  <2>1. p' \in 1..Len(data') + 1 /\ fieldMark' \in 0..p' /\ valueMark' \in 0..p' /\ bodyMark' \in 0..p'
    BY <1>1
  <2> QED
    BY <1>1, <2>1 DEF Types
<1>3. MarkInv' /\ LengthInv' /\ ChunkInv'
  BY <1>1 DEF MarkInv, LengthInv, ChunkInv, ChunkStates
<1> QED
  BY <1>2, <1>3 DEF Kept

LEMMA InvInit ==
    ASSUME Init
    PROVE  Inv
<1>1. /\ state = "s_start_res" /\ flags = {} /\ content_length = 0 /\ start = NoStart
      /\ data \in Seq(STRING) /\ Len(data) = 0 /\ 0 <= RecvBuf /\ 0 \in 0..Largest
  BY HttpParserAssumption, NumbersAssumption DEF Init
<1>2. Types
  <2>1. p \in 1..Len(data) + 1 /\ fieldMark \in 0..p /\ valueMark \in 0..p /\ bodyMark \in 0..p
    BY <1>1 DEF Init
  <2>2. phase = "FIELD" /\ allocated = FALSE /\ closed = FALSE
    BY DEF Init
  <2> QED
    BY <1>1, <2>1, <2>2 DEF Types
<1>3. MarkInv /\ LengthInv /\ ChunkInv
  BY <1>1 DEF MarkInv, LengthInv, ChunkInv, ChunkStates, Init
<1>4. ServerTypes
  <2>1. stream \in DOMAIN Streams /\ taken = 0
    BY DEF Init
  <2>2. Wire[stream] \in Seq(STRING)
    BY <2>1, WireAssumption
  <2>3. Len(Wire[stream]) \in Nat
    BY <2>2
  <2>4. taken \in 0..Len(Wire[stream])
    BY <2>1, <2>3
  <2> QED
    BY <2>1, <2>4 DEF ServerTypes, Init
<1> QED
  BY <1>2, <1>3, <1>4 DEF Inv

\* Every step keeps it.
LEMMA InvNext ==
    ASSUME Inv, [Next]_vars
    PROVE  Inv'
<1>1. CASE Case
  <2>1. UNCHANGED <<stream, taken, lost, failed>>
    BY <1>1 DEF Case, server
  <2> QED
    BY <1>1, <2>1, CaseStep DEF Inv, Kept, ServerTypes
<1>2. CASE ParseError
  <2>1. UNCHANGED <<stream, taken, lost>> /\ failed' = TRUE
    BY <1>2 DEF ParseError, server
  <2> QED
    BY <1>2, <2>1, LossStep DEF Inv, Kept, ServerTypes
<1>3. CASE Flush
  <2>1. UNCHANGED <<stream, taken, lost, failed>>
    BY <1>3 DEF Flush, server
  <2> QED
    BY <1>3, <2>1, FlushStep DEF Inv, Kept, ServerTypes
<1>4. ASSUME NEW n \in 1..RecvBuf, Read(n) PROVE Inv'
  <2>1. UNCHANGED <<stream, lost, failed>>
    BY <1>4 DEF Read
  <2>2. Kept /\ taken' \in 0..Len(Wire[stream])
    BY <1>4, ReadStep
  <2> QED
    BY <2>1, <2>2 DEF Inv, Kept, ServerTypes
<1>5. CASE ReadEof
  <2>1. /\ UNCHANGED <<stream, taken, lost, failed, data, p>>
        /\ fieldMark' = 0 /\ valueMark' = 0 /\ bodyMark' = 0
        /\ message_complete("s_body_identity_eof")
    BY <1>5 DEF ReadEof, Waiting, server, marks
  <2>2. p' \in 1..Len(data) + 1
    BY <2>1 DEF Inv, Types
  <2>3. Kept
    BY <2>1, <2>2, MessageEnd
  <2> QED
    BY <2>1, <2>3 DEF Inv, Kept, ServerTypes
<1>6. CASE Cut
  <2>1. UNCHANGED <<stream, taken, failed>> /\ lost' = TRUE
    BY <1>6 DEF Cut
  <2> QED
    BY <1>6, <2>1, LossStep DEF Inv, Kept, ServerTypes
<1>7. CASE NextConnection
  <2>1. /\ fieldMark' = 0 /\ valueMark' = 0 /\ bodyMark' = 0
        /\ phase' \in {"FIELD", "VALUE"} /\ allocated' \in BOOLEAN
    BY <1>7 DEF NextConnection, Waiting, marks, buffers, Inv, Types
  <2>2. Kept
    BY <1>7, <2>1, OpenedIs DEF NextConnection
  <2>3. stream' \in DOMAIN Streams /\ taken' = 0 /\ lost' = FALSE /\ failed' = FALSE
    BY <1>7, HttpParserAssumption DEF NextConnection
  <2>4. Wire[stream'] \in Seq(STRING)
    BY <2>3, WireAssumption
  <2>5. taken' \in 0..Len(Wire[stream'])
    BY <2>3, <2>4
  <2> QED
    BY <2>2, <2>3, <2>5 DEF Inv, Kept, ServerTypes
<1>8. CASE UNCHANGED vars
  BY <1>8 DEF vars, server, marks, parser, buffers, Inv, Types, ServerTypes, MarkInv,
     LengthInv, ChunkInv
<1> QED
  BY <1>1, <1>2, <1>3, <1>4, <1>5, <1>6, <1>7, <1>8 DEF Next, Parse, Finished

LEMMA InvAlways == Spec => []Inv
<1>1. Init => Inv
  BY InvInit
<1>2. Inv /\ [Next]_vars => Inv'
  BY InvNext
<1> QED
  BY <1>1, <1>2, PTL DEF Spec

-----------------------------------------------------------------------------
(* What follows from it.                                                    *)

\* The variables of the parser and of its buffers keep their types: a position
\* stays within the buffer and a mark behind it, a length below the largest
\* number, in any sequence of reads, errors and connections.
THEOREM ParserTypes == Spec => []TypeOK
<1>1. Inv => TypeOK
  BY DEF Inv, Types, ServerTypes, Flags, TypeOK
<1> QED
  BY <1>1, InvAlways, PTL

\* No assertion of http_parser_execute fails, whatever a server sends and
\* however it is cut into reads: at the end of a buffer text of one kind is
\* open at most, and what is left of a body or a chunk always has a length.
THEOREM NoAssertionFails == Spec => []AssertionsHold
<1>1. ASSUME Inv PROVE AtMostOneMark
  <2> DEFINE Open == {i \in 1..3 : marks[i] # 0}
  <2>1. \A i, j \in Open : i = j
    <3>1. 1..3 = {1, 2, 3}
      OBVIOUS
    <3>2. marks[1] = fieldMark /\ marks[2] = valueMark /\ marks[3] = bodyMark
      BY DEF marks
    <3> QED
      BY <1>1, <3>1, <3>2 DEF Inv, MarkInv
  <2> HIDE DEF Open
  <2>2. Cardinality(Open) <= 1
    <3>1. CASE Open = {}
      BY <3>1, FS_EmptySet
    <3>2. CASE Open # {}
      <4>1. PICK i \in Open : TRUE
        BY <3>2
      <4>2. Open = {i}
        BY <2>1, <4>1
      <4>3. Cardinality({i}) = 1
        BY FS_Singleton
      <4> QED
        BY <4>2, <4>3
    <3> QED
      BY <3>1, <3>2
  <2> QED
    BY <2>2 DEF AtMostOneMark, Open
<1>2. ASSUME Inv PROVE BodyHasLength
  BY <1>2, NumbersAssumption DEF Inv, LengthInv, ChunkInv, ChunkStates, BodyHasLength, NoLength
<1>3. Inv => AssertionsHold
  BY <1>1, <1>2 DEF AssertionsHold
<1> QED
  BY <1>3, InvAlways, PTL

-----------------------------------------------------------------------------
(* Sequences, and what is folded from them.                                 *)

\* The first k of a sequence.
Upto(s, k) == SubSeq(s, 1, k)

\* Sequences, taken apart and put together.
LEMMA PrefixIs ==
    ASSUME NEW T, NEW s \in Seq(T), NEW k \in 0..Len(s)
    PROVE  /\ Upto(s, k) \in Seq(T) /\ Len(Upto(s, k)) = k /\ k \in Nat
           /\ \A j \in 1..k : Upto(s, k)[j] = s[j]
BY DEF Upto

\* All but the last, and the last.
LEMMA FrontAndLast ==
    ASSUME NEW T, NEW s \in Seq(T), s # <<>>
    PROVE  /\ Len(s) \in Nat \ {0} /\ s[Len(s)] \in T
           /\ Upto(s, Len(s) - 1) \in Seq(T) /\ Len(Upto(s, Len(s) - 1)) = Len(s) - 1
           /\ s = Append(Upto(s, Len(s) - 1), s[Len(s)])
<1> DEFINE u == Upto(s, Len(s) - 1)
           c == s[Len(s)]
<1>1. Len(s) \in Nat \ {0}
  OBVIOUS
<1>2. c \in T /\ u \in Seq(T) /\ Len(u) = Len(s) - 1 /\ \A i \in 1..Len(s) - 1 : u[i] = s[i]
  <2>1. Len(s) - 1 \in 0..Len(s)
    BY <1>1
  <2>2. c \in T
    BY <1>1
  <2> HIDE DEF c
  <2> QED
    BY <2>1, <2>2, PrefixIs
<1> HIDE DEF u
<1>3. Append(u, c) \in Seq(T) /\ Len(Append(u, c)) = Len(s)
  BY <1>1, <1>2
<1>4. \A i \in 1..Len(s) : Append(u, c)[i] = s[i]
  BY <1>1, <1>2
<1>5. s = Append(u, c)
  BY <1>3, <1>4, SeqEqual
<1> QED
  BY <1>1, <1>2, <1>5 DEF u

LEMMA AppendIs ==
    ASSUME NEW T, NEW s \in Seq(T), NEW c \in T
    PROVE  /\ Append(s, c) \in Seq(T) /\ Len(Append(s, c)) = Len(s) + 1 /\ Len(s) \in Nat
           /\ Append(s, c)[Len(s) + 1] = c /\ \A k \in 1..Len(s) : Append(s, c)[k] = s[k]
           /\ Upto(Append(s, c), Len(s)) = s
<1> DEFINE w == Append(s, c)
           n == Len(s)
<1>1. n \in Nat /\ Len(w) = n + 1 /\ w[n + 1] = c /\ \A k \in 1..n : w[k] = s[k]
  OBVIOUS
<1>2. w \in Seq(T)
  OBVIOUS
<1> HIDE DEF w
<1>3. n \in 0..Len(w)
  BY <1>1
<1>4. Upto(w, n) \in Seq(T) /\ Len(Upto(w, n)) = n /\ \A j \in 1..n : Upto(w, n)[j] = w[j]
  BY <1>2, <1>3, PrefixIs
<1>5. Upto(w, n) = s
  BY <1>1, <1>4, SeqEqual
<1> QED
  BY <1>1, <1>2, <1>5 DEF w

LEMMA ConcatIs ==
    ASSUME NEW T, NEW s \in Seq(T), NEW t \in Seq(T)
    PROVE  /\ s \o t \in Seq(T) /\ Len(s \o t) = Len(s) + Len(t)
           /\ s \o <<>> = s /\ <<>> \o s = s
           /\ \A c \in T : s \o Append(t, c) = Append(s \o t, c) /\ Append(s, c) = s \o <<c>>
OBVIOUS

\* All of a sequence is its first Len(s).
LEMMA WholeSeq ==
    ASSUME NEW T, NEW s \in Seq(T)
    PROVE  Upto(s, Len(s)) = s /\ Len(s) \in Nat
BY DEF Upto

\* Induction over sequences: a set that holds the empty one and with each one
\* those that are longer by an element holds them all.
LEMMA SeqInduction ==
    ASSUME NEW T, NEW G, <<>> \in G,
           \A s \in Seq(T) : \A c \in T : s \in G => Append(s, c) \in G
    PROVE  \A s \in Seq(T) : s \in G
<1> DEFINE Lens == {n \in Nat : \E s \in Seq(T) : Len(s) = n /\ s \notin G}
<1>1. SUFFICES ASSUME Lens # {} PROVE FALSE
  OBVIOUS
<1>2. PICK n \in Lens : \A k \in Lens : n <= k
  <2>1. Lens \subseteq Nat
    OBVIOUS
  <2> HIDE DEF Lens
  <2> QED
    BY <1>1, <2>1, NatMin
<1>3. PICK s \in Seq(T) : Len(s) = n /\ s \notin G
  BY <1>2
<1>4. s # <<>>
  BY <1>3
<1> DEFINE u == Upto(s, Len(s) - 1)
           c == s[Len(s)]
<1>5. Len(s) \in Nat \ {0} /\ c \in T /\ u \in Seq(T) /\ Len(u) = Len(s) - 1 /\ s = Append(u, c)
  BY <1>4, FrontAndLast
<1> HIDE DEF u, c
<1>9. u \in G
  <2> SUFFICES ASSUME u \notin G PROVE FALSE
    OBVIOUS
  <2>1. Len(s) - 1 \in Lens
    BY <1>5
  <2>2. Len(s) - 1 \in Nat /\ ~(Len(s) <= Len(s) - 1)
    BY <1>5
  <2> HIDE DEF Lens, u
  <2> QED
    BY <1>2, <1>3, <2>1, <2>2
<1> QED
  BY <1>3, <1>5, <1>9

\* F takes a result and an element to the next result.
Solves(F, m, s, f) == \A k \in 0..Len(s) : f[k] = IF k = 0 THEN m ELSE F[f[k - 1]][s[k]]
IsFold(F, m, s, f) == f = [k \in 0..Len(s) |-> IF k = 0 THEN m ELSE F[f[k - 1]][s[k]]]
Trace(F, m, s) == CHOOSE f : IsFold(F, m, s, f)
Fold(F, m, s) == Trace(F, m, s)[Len(s)]

\* A solution has a value for each beginning.
LEMMA FoldSolves ==
    ASSUME NEW F, NEW m, NEW s, NEW f, IsFold(F, m, s, f)
    PROVE  Solves(F, m, s, f)
BY DEF IsFold, Solves

\* There is a function that satisfies the equations of a fold.
LEMMA FoldExists ==
    ASSUME NEW T, NEW F, NEW m
    PROVE  \A s \in Seq(T) : \E f : IsFold(F, m, s, f)
<1> DEFINE G == {u \in Seq(T) : \E f : IsFold(F, m, u, f)}
<1>1. <<>> \in G
  <2> DEFINE f == [k \in 0..0 |-> m]
  <2>1. Len(<<>>) = 0 /\ <<>> \in Seq(T) /\ 0..0 = {0}
    OBVIOUS
  <2>2. f = [k \in 0..0 |-> IF k = 0 THEN m ELSE F[f[k - 1]][<<>>[k]]]
    BY <2>1
  <2> HIDE DEF f
  <2>3. IsFold(F, m, <<>>, f)
    BY <2>1, <2>2 DEF IsFold
  <2> QED
    BY <2>1, <2>3
<1>2. ASSUME NEW u \in Seq(T), NEW c \in T, u \in G PROVE Append(u, c) \in G
  <2> DEFINE n == Len(u)
             w == Append(u, c)
  <2>1. PICK g : IsFold(F, m, u, g)
    BY <1>2
  <2>2. n \in Nat /\ Len(w) = n + 1 /\ w \in Seq(T) /\ w[n + 1] = c /\ \A k \in 1..n : w[k] = u[k]
    BY AppendIs
  <2> HIDE DEF w
  <2>3. \A k \in 0..n : g[k] = IF k = 0 THEN m ELSE F[g[k - 1]][u[k]]
    BY <2>1, FoldSolves DEF Solves
  <2> HIDE DEF n
  <2> DEFINE x == F[g[n]][c]
             f == [k \in 0..n + 1 |-> IF k = n + 1 THEN x ELSE g[k]]
  <2> HIDE DEF x
  <2>6. ASSUME NEW k \in 0..n + 1
        PROVE  f[k] = IF k = 0 THEN m ELSE F[f[k - 1]][w[k]]
    <3>1. CASE k = n + 1
      <4>1. f[k] = x /\ k # 0 /\ f[k - 1] = g[n] /\ w[k] = c
        BY <2>2, <3>1
      <4> QED
        BY <4>1 DEF x
    <3>2. CASE k # n + 1
      <4>0. n \in Nat /\ k \in 0..n
        BY <2>2, <3>2
      <4>1. f[k] = g[k] /\ (k # 0 => f[k - 1] = g[k - 1])
        BY <4>0
      <4>2. k # 0 => w[k] = u[k]
        BY <2>2, <4>0
      <4> QED
        BY <2>3, <4>0, <4>1, <4>2
    <3> QED
      BY <3>1, <3>2
  <2>7. f = [k \in 0..n + 1 |-> IF k = 0 THEN m ELSE F[f[k - 1]][w[k]]]
    <3>1. f = [k \in 0..n + 1 |-> f[k]]
      OBVIOUS
    <3> HIDE DEF f
    <3> QED
      BY <2>6, <3>1
  <2> HIDE DEF f
  <2>8. IsFold(F, m, w, f)
    BY <2>2, <2>7 DEF IsFold
  <2> QED
    BY <2>2, <2>8 DEF w
<1> HIDE DEF G
<1>3. \A s \in Seq(T) : s \in G
  BY <1>1, <1>2, SeqInduction
<1> QED
  BY <1>3 DEF G

\* There is one only.
LEMMA FoldUnique ==
    ASSUME NEW F, NEW m, NEW s, Len(s) \in Nat, NEW f, NEW g, Solves(F, m, s, f), Solves(F, m, s, g)
    PROVE  \A k \in 0..Len(s) : f[k] = g[k]
<1> DEFINE Bad == {k \in 0..Len(s) : f[k] # g[k]}
<1>1. SUFFICES ASSUME Bad # {} PROVE FALSE
  OBVIOUS
<1>2. PICK k \in Bad : \A j \in Bad : k <= j
  <2>1. Bad \subseteq Nat
    OBVIOUS
  <2> HIDE DEF Bad
  <2> QED
    BY <1>1, <2>1, NatMin
<1>3. k \in 0..Len(s) /\ f[k] # g[k]
  BY <1>2
<1>4. k # 0
  BY <1>3 DEF Solves
<1>5. k - 1 \in 0..Len(s) /\ ~(k <= k - 1)
  BY <1>3, <1>4
<1>6. f[k - 1] = g[k - 1]
  BY <1>2, <1>5
<1> QED
  BY <1>3, <1>4, <1>6 DEF Solves

\* So the trace that Fold chooses satisfies them.
LEMMA TraceSolves ==
    ASSUME NEW T, NEW F, NEW m, NEW s \in Seq(T)
    PROVE  Solves(F, m, s, Trace(F, m, s))
<1> DEFINE f == CHOOSE g : IsFold(F, m, s, g)
<1>1. \E g : IsFold(F, m, s, g)
  BY FoldExists
<1>2. IsFold(F, m, s, f)
  <2> HIDE DEF IsFold
  <2> QED
    BY <1>1
<1>3. Trace(F, m, s) = f
  BY DEF Trace
<1> HIDE DEF f
<1> QED
  BY <1>2, <1>3, FoldSolves

\* What satisfies the equation is the fold.
LEMMA FoldIs ==
    ASSUME NEW T, NEW F, NEW m, NEW s \in Seq(T), NEW g, Solves(F, m, s, g)
    PROVE  Fold(F, m, s) = g[Len(s)]
<1>1. Solves(F, m, s, Trace(F, m, s)) /\ Fold(F, m, s) = Trace(F, m, s)[Len(s)]
  BY TraceSolves DEF Fold
<1>2. Len(s) \in Nat /\ Len(s) \in 0..Len(s)
  BY WholeSeq
<1>3. \A k \in 0..Len(s) : Trace(F, m, s)[k] = g[k]
  BY <1>1, <1>2, FoldUnique
<1> QED
  BY <1>1, <1>2, <1>3

\* The folds of the beginnings of a sequence are in its trace.
LEMMA SolvesPrefix ==
    ASSUME NEW T, NEW F, NEW m, NEW s \in Seq(T), NEW f, Solves(F, m, s, f), NEW k \in 0..Len(s)
    PROVE  Solves(F, m, Upto(s, k), f)
<1> DEFINE u == Upto(s, k)
<1>1. u \in Seq(T) /\ Len(u) = k /\ k \in Nat /\ \A j \in 1..k : u[j] = s[j]
  BY PrefixIs
<1>2. Len(s) \in Nat
  BY WholeSeq
<1> HIDE DEF u
<1>3. Solves(F, m, u, f)
  <2> SUFFICES ASSUME NEW j \in 0..Len(u) PROVE f[j] = IF j = 0 THEN m ELSE F[f[j - 1]][u[j]]
    BY DEF Solves
  <2>1. j \in 0..Len(s) /\ (j # 0 => u[j] = s[j])
    BY <1>1, <1>2
  <2> QED
    BY <2>1 DEF Solves
<1> QED
  BY <1>3 DEF u

LEMMA FoldPrefix ==
    ASSUME NEW T, NEW F, NEW m, NEW s \in Seq(T), NEW k \in 0..Len(s)
    PROVE  Fold(F, m, Upto(s, k)) = Trace(F, m, s)[k]
<1> DEFINE u == Upto(s, k)
<1>1. u \in Seq(T) /\ Len(u) = k
  BY PrefixIs
<1>2. Solves(F, m, s, Trace(F, m, s))
  BY TraceSolves
<1>3. Solves(F, m, u, Trace(F, m, s))
  BY <1>2, SolvesPrefix
<1> HIDE DEF u
<1>4. Fold(F, m, u) = Trace(F, m, s)[Len(u)]
  BY <1>1, <1>3, FoldIs
<1> QED
  BY <1>1, <1>4 DEF u

LEMMA TraceStarts ==
    ASSUME NEW T, NEW F, NEW m, NEW s \in Seq(T)
    PROVE  Trace(F, m, s)[0] = m
<1>1. 0 \in 0..Len(s)
  BY WholeSeq
<1>2. Solves(F, m, s, Trace(F, m, s))
  BY TraceSolves
<1> QED
  BY <1>1, <1>2 DEF Solves

\* A fold of nothing, of one element more, and of a part after another.
LEMMA FoldEmpty ==
    ASSUME NEW F, NEW m
    PROVE  Fold(F, m, <<>>) = m
<1>1. PICK e : e = <<>>
  OBVIOUS
<1>2. e \in Seq({m})
  BY <1>1
<1>3. Len(e) = 0
  BY <1>1
<1>4. Trace(F, m, e)[0] = m
  BY <1>2, TraceStarts
<1>5. Fold(F, m, e) = m
  BY <1>3, <1>4 DEF Fold
<1> QED
  BY <1>1, <1>5

LEMMA FoldAppend ==
    ASSUME NEW T, NEW F, NEW m, NEW s \in Seq(T), NEW c \in T
    PROVE  Fold(F, m, Append(s, c)) = F[Fold(F, m, s)][c]
<1>1. PICK w : w = Append(s, c)
  OBVIOUS
<1>2. PICK n : n = Len(s)
  OBVIOUS
<1>3. w \in Seq(T) /\ Len(w) = n + 1 /\ n \in Nat /\ w[n + 1] = c
  BY <1>1, <1>2, AppendIs
<1>4. Upto(w, n) = s
  BY <1>1, <1>2, AppendIs
<1>5. n \in 0..Len(w) /\ n + 1 \in 0..Len(w) /\ n + 1 # 0 /\ n + 1 - 1 = n
  BY <1>3
<1>6. Fold(F, m, Upto(w, n)) = Trace(F, m, w)[n]
  BY <1>3, <1>5, FoldPrefix
<1>7. Solves(F, m, w, Trace(F, m, w))
  BY <1>3, TraceSolves
<1>8. Trace(F, m, w)[n + 1] = F[Trace(F, m, w)[n]][w[n + 1]]
  BY <1>5, <1>7 DEF Solves
<1>9. Fold(F, m, w) = Trace(F, m, w)[n + 1]
  BY <1>3 DEF Fold
<1> QED
  BY <1>1, <1>3, <1>4, <1>6, <1>8, <1>9

\* What F preserves is preserved by the fold.
LEMMA FoldIn ==
    ASSUME NEW S, NEW T, NEW F, \A x \in S : \A c \in T : F[x][c] \in S, NEW m \in S
    PROVE  \A s \in Seq(T) : Fold(F, m, s) \in S
<1> DEFINE G == {s \in Seq(T) : Fold(F, m, s) \in S}
<1>1. <<>> \in G
  BY FoldEmpty
<1>2. ASSUME NEW s \in Seq(T), NEW c \in T, s \in G PROVE Append(s, c) \in G
  <2>1. Append(s, c) \in Seq(T)
    BY AppendIs
  <2>2. Fold(F, m, Append(s, c)) = F[Fold(F, m, s)][c]
    BY FoldAppend
  <2> QED
    BY <1>2, <2>1, <2>2
<1> HIDE DEF G
<1>3. \A s \in Seq(T) : s \in G
  BY <1>1, <1>2, SeqInduction
<1> QED
  BY <1>3 DEF G

LEMMA FoldConcat ==
    ASSUME NEW T, NEW F, NEW m, NEW s \in Seq(T)
    PROVE  \A t \in Seq(T) : Fold(F, m, s \o t) = Fold(F, Fold(F, m, s), t)
<1> DEFINE x == Fold(F, m, s)
           G == {t \in Seq(T) : Fold(F, m, s \o t) = Fold(F, x, t)}
<1>1. <<>> \in G
  <2>1. s \o <<>> = s /\ <<>> \in Seq(T)
    OBVIOUS
  <2>2. Fold(F, x, <<>>) = x
    BY FoldEmpty
  <2> QED
    BY <2>1, <2>2
<1>2. ASSUME NEW t \in Seq(T), NEW c \in T, t \in G PROVE Append(t, c) \in G
  <2>1. s \o Append(t, c) = Append(s \o t, c) /\ s \o t \in Seq(T)
    BY ConcatIs
  <2>2. Append(t, c) \in Seq(T)
    BY AppendIs
  <2>3. Fold(F, x, Append(t, c)) = F[Fold(F, x, t)][c]
    BY FoldAppend
  <2>4. Fold(F, m, Append(s \o t, c)) = F[Fold(F, m, s \o t)][c]
    <3> DEFINE u == s \o t
    <3>1. u \in Seq(T)
      BY <2>1
    <3> HIDE DEF u
    <3>2. Fold(F, m, Append(u, c)) = F[Fold(F, m, u)][c]
      BY <3>1, FoldAppend
    <3> QED
      BY <3>2 DEF u
  <2> HIDE DEF x
  <2> QED
    BY <1>2, <2>1, <2>2, <2>3, <2>4
<1> HIDE DEF G
<1>3. \A t \in Seq(T) : t \in G
  BY <1>1, <1>2, SeqInduction
<1> QED
  BY <1>3 DEF G, x

-----------------------------------------------------------------------------
(* The parser symbol by symbol: what it would make of a stream that it were *)
(* given as a whole.  Text, and when it is handed over, is left out.        *)

Symbols == STRING \cup ValueSymbols \cup {CR, LF}
ParserStates ==
    {"s_start_res", "s_res_status", "s_res_line_almost_done", "s_header_field_start",
     "s_header_field", "s_header_value_discard_ws", "s_header_value_start", "s_header_value",
     "s_header_almost_done", "s_header_value_lws", "s_header_value_discard_ws_almost_done",
     "s_header_value_discard_lws", "s_headers_almost_done", "s_headers_done", "s_body_identity",
     "s_body_identity_eof", "s_message_done", "s_chunk_size_start", "s_chunk_size",
     "s_chunk_parameters", "s_chunk_size_almost_done", "s_chunk_data",
     "s_chunk_data_almost_done", "s_chunk_data_done", "s_dead"}
AllHeaderStates ==
    HeaderStates \cup {"h_matching_connection", "h_matching_content_length",
                       "h_matching_transfer_encoding", "h_connection", "h_content_length",
                       "h_transfer_encoding", "h_matching_transfer_encoding_chunked"}

Machines == [state : ParserStates, h : AllHeaderStates, flags : SUBSET Flags, length : Int,
             start : StartLines \cup {NoStart}, done : Nat, closed : BOOLEAN, failed : BOOLEAN]

\* The next state; an error; the end of a message.
To(m, s) == [m EXCEPT !.state = s]
Broken(m) == [m EXCEPT !.state = "s_start_res", !.failed = TRUE, !.closed = TRUE]
NeedsEofIn(m) == ~NoBody(m.start) /\ "CHUNKED" \notin m.flags /\ m.length = NoLength
KeptAlive(m) ==
    /\ IF Is11(m.start) THEN "CLOSE" \notin m.flags ELSE "KEEP" \in m.flags
    /\ ~NeedsEofIn(m)
Complete(m) ==
    IF KeptAlive(m)
    THEN [m EXCEPT !.state = "s_start_res", !.h = "h_general", !.flags = {}, !.length = 0,
                   !.start = NoStart, !.done = m.done + 1]
    ELSE [m EXCEPT !.state = "s_dead", !.closed = TRUE, !.done = m.done + 1]

OnLF(m, c, s) == IF c = LF THEN To(m, s) ELSE Broken(m)

OnHeadersDone(m, c) ==
    IF c # LF THEN Broken(m)
    ELSE IF "CHUNKED" \notin m.flags
            /\ (m.length = 0 \/ (m.length = NoLength /\ ~NeedsEofIn(m)))
    THEN Complete(m)
    ELSE To(m, IF "CHUNKED" \in m.flags THEN "s_chunk_size_start"
               ELSE IF m.length = NoLength THEN "s_body_identity_eof" ELSE "s_body_identity")
OnHeadersAlmostDone(m, c) ==
    IF c # LF THEN Broken(m)
    ELSE IF "TRAILING" \in m.flags THEN Complete(m) ELSE OnHeadersDone(m, c)
OnFieldStart(m, c) ==
    IF c = CR THEN To(m, "s_headers_almost_done")
    ELSE IF c = LF THEN OnHeadersAlmostDone(m, c)
    ELSE IF c \in Tokens THEN [m EXCEPT !.state = "s_header_field", !.h = NameStart(c)]
    ELSE Broken(m)
OnField(m, c) ==
    IF c \in Tokens THEN [m EXCEPT !.h = NameNext(m.h, c)]
    ELSE IF c = ":" THEN To(m, "s_header_value_discard_ws") ELSE Broken(m)
OnValueStart(m, c) ==
    IF m.h = "h_content_length" /\ c \notin Digits THEN Broken(m)
    ELSE [m EXCEPT !.state = "s_header_value", !.h = ValueStart(m.h, c),
                   !.length = IF m.h = "h_content_length" THEN Digit(c) ELSE m.length]
OnDiscardWs(m, c) ==
    IF c = SP THEN m
    ELSE IF c = CR THEN To(m, "s_header_value_discard_ws_almost_done")
    ELSE IF c = LF THEN To(m, "s_header_value_discard_lws")
    ELSE OnValueStart(m, c)
ValueOf(m) == [h |-> m.h, flags |-> m.flags, length |-> m.length, ok |-> TRUE]
WithValue(m, v) ==
    IF v.ok THEN [m EXCEPT !.h = v.h, !.flags = v.flags, !.length = v.length] ELSE Broken(m)
OnValue(m, c) ==
    IF c \in ValueSymbols THEN WithValue(m, ValueNext(ValueOf(m), c))
    ELSE IF c = CR THEN To(m, "s_header_almost_done")
    ELSE OnLF(m, c, "s_header_value_lws")
\* Flags of a header that is over, and the next line.
Flagged(m) ==
    [m EXCEPT !.state = "s_header_field_start", !.flags = m.flags \cup FlagOf(m.h)]
OnLws(m, c) ==
    IF c = SP THEN OnValueStart(m, c) ELSE OnFieldStart(Flagged(m), c)
OnDiscardLws(m, c) ==
    IF c = SP THEN To(m, "s_header_value_discard_ws") ELSE OnFieldStart(Flagged(m), c)
OnBody(m) ==
    IF m.length = 1 THEN Complete([m EXCEPT !.length = 0])
    ELSE [m EXCEPT !.length = m.length - 1]
OnSizeStart(m, c) ==
    IF c \in Digits THEN [m EXCEPT !.state = "s_chunk_size", !.length = Digit(c)] ELSE Broken(m)
OnSize(m, c) ==
    IF c = CR THEN To(m, "s_chunk_size_almost_done")
    ELSE IF c \in {";", SP} THEN To(m, "s_chunk_parameters")
    ELSE IF c \in Digits /\ Fits(m.length) THEN [m EXCEPT !.length = WithDigit(m.length, c)]
    ELSE Broken(m)
OnSizeDone(m, c) ==
    IF c # LF THEN Broken(m)
    ELSE IF m.length = 0
    THEN [m EXCEPT !.state = "s_header_field_start", !.flags = m.flags \cup {"TRAILING"}]
    ELSE To(m, "s_chunk_data")
OnChunk(m) ==
    [m EXCEPT !.state = IF m.length = 1 THEN "s_chunk_data_almost_done" ELSE "s_chunk_data",
              !.length = m.length - 1]
OnStart(m, c) ==
    IF c \in StartLines
    THEN [m EXCEPT !.state = "s_res_status", !.flags = {}, !.length = NoLength, !.start = c]
    ELSE IF c \in {CR, LF}
    THEN [m EXCEPT !.flags = {}, !.length = NoLength]
    ELSE Broken(m)
OnStatus(m, c) ==
    IF c = CR THEN To(m, "s_res_line_almost_done")
    ELSE OnLF(m, c, "s_header_field_start")

Step(m, c) ==
    IF m.failed THEN m
    ELSE IF m.state = "s_start_res" THEN OnStart(m, c)
    ELSE IF m.state = "s_res_status" THEN OnStatus(m, c)
    ELSE IF m.state = "s_res_line_almost_done" THEN OnLF(m, c, "s_header_field_start")
    ELSE IF m.state = "s_header_field_start" THEN OnFieldStart(m, c)
    ELSE IF m.state = "s_header_field" THEN OnField(m, c)
    ELSE IF m.state = "s_header_value_discard_ws" THEN OnDiscardWs(m, c)
    ELSE IF m.state = "s_header_value_start" THEN OnValueStart(m, c)
    ELSE IF m.state = "s_header_value" THEN OnValue(m, c)
    ELSE IF m.state = "s_header_almost_done" THEN OnLF(m, c, "s_header_value_lws")
    ELSE IF m.state = "s_header_value_lws" THEN OnLws(m, c)
    ELSE IF m.state = "s_header_value_discard_ws_almost_done"
         THEN OnLF(m, c, "s_header_value_discard_lws")
    ELSE IF m.state = "s_header_value_discard_lws" THEN OnDiscardLws(m, c)
    ELSE IF m.state = "s_headers_almost_done" THEN OnHeadersAlmostDone(m, c)
    ELSE IF m.state = "s_headers_done" THEN OnHeadersDone(m, c)
    ELSE IF m.state = "s_body_identity" THEN OnBody(m)
    ELSE IF m.state = "s_body_identity_eof" THEN m
    ELSE IF m.state = "s_message_done" THEN Complete(m)
    ELSE IF m.state = "s_chunk_size_start" THEN OnSizeStart(m, c)
    ELSE IF m.state = "s_chunk_size" THEN OnSize(m, c)
    ELSE IF m.state = "s_chunk_parameters"
         THEN To(m, IF c = CR THEN "s_chunk_size_almost_done" ELSE "s_chunk_parameters")
    ELSE IF m.state = "s_chunk_size_almost_done" THEN OnSizeDone(m, c)
    ELSE IF m.state = "s_chunk_data" THEN OnChunk(m)
    ELSE IF m.state = "s_chunk_data_almost_done"
         THEN IF c = CR THEN To(m, "s_chunk_data_done") ELSE Broken(m)
    ELSE IF m.state = "s_chunk_data_done" THEN OnLF(m, c, "s_chunk_size_start")
    ELSE IF c \in {CR, LF} THEN m ELSE Broken(m)

StepFn == [m \in Machines |-> [c \in Symbols |-> Step(m, c)]]
After(m, s) == Fold(StepFn, m, s)

\* Every step leads to a machine.
LEMMA ToType == ASSUME NEW m \in Machines, NEW s \in ParserStates PROVE To(m, s) \in Machines
BY DEF To, Machines

LEMMA BrokenType == ASSUME NEW m \in Machines PROVE Broken(m) \in Machines
BY DEF Broken, Machines, ParserStates

LEMMA CompleteType == ASSUME NEW m \in Machines PROVE Complete(m) \in Machines
<1>1. CASE KeptAlive(m)
  <2>1. Complete(m) = [m EXCEPT !.state = "s_start_res", !.h = "h_general", !.flags = {}, !.length = 0,
                   !.start = NoStart, !.done = m.done + 1]
    BY <1>1 DEF Complete
  <2>2. "s_start_res" \in ParserStates /\ "h_general" \in AllHeaderStates
    BY DEF ParserStates, AllHeaderStates, HeaderStates
  <2>3. m.done + 1 \in Nat /\ {} \in SUBSET Flags /\ NoStart \in StartLines \cup {NoStart} /\ 0 \in Int
    BY DEF Machines
  <2> HIDE DEF NoStart
  <2> QED
    BY <2>1, <2>2, <2>3 DEF Machines
<1>2. CASE ~KeptAlive(m)
  <2>1. Complete(m) = [m EXCEPT !.state = "s_dead", !.closed = TRUE, !.done = m.done + 1]
    BY <1>2 DEF Complete
  <2>2. "s_dead" \in ParserStates /\ m.done + 1 \in Nat
    BY DEF ParserStates, Machines
  <2> QED
    BY <2>1, <2>2 DEF Machines
<1> QED
  BY <1>1, <1>2

LEMMA OnLFType ==
    ASSUME NEW m \in Machines, NEW c, NEW s \in ParserStates PROVE OnLF(m, c, s) \in Machines
BY ToType, BrokenType DEF OnLF

LEMMA HeadersDoneType ==
    ASSUME NEW m \in Machines, NEW c
    PROVE  OnHeadersDone(m, c) \in Machines /\ OnHeadersAlmostDone(m, c) \in Machines
<1>1. {"s_chunk_size_start", "s_body_identity_eof", "s_body_identity"} \subseteq ParserStates
  BY DEF ParserStates
<1>2. OnHeadersDone(m, c) \in Machines
  BY <1>1, ToType, BrokenType, CompleteType DEF OnHeadersDone
<1> QED
  BY <1>2, BrokenType, CompleteType DEF OnHeadersAlmostDone

\* The symbols of names.
LEMMA FieldStartType ==
    ASSUME NEW m \in Machines, NEW c PROVE OnFieldStart(m, c) \in Machines
<1>1. "s_headers_almost_done" \in ParserStates /\ "s_header_field" \in ParserStates
  BY DEF ParserStates
<1>2. NameStart(c) \in AllHeaderStates
  BY DEF NameStart, AllHeaderStates, HeaderStates
<1>3. [m EXCEPT !.state = "s_header_field", !.h = NameStart(c)] \in Machines
  BY <1>1, <1>2 DEF Machines
<1> QED
  BY <1>1, <1>3, ToType, BrokenType, HeadersDoneType DEF OnFieldStart

LEMMA NameNextType ==
    ASSUME NEW h, NEW c PROVE NameNext(h, c) \in AllHeaderStates
BY DEF NameNext, AllHeaderStates, HeaderStates

LEMMA FieldType ==
    ASSUME NEW m \in Machines, NEW c PROVE OnField(m, c) \in Machines
<1>1. "s_header_value_discard_ws" \in ParserStates
  BY DEF ParserStates
<1>2. [m EXCEPT !.h = NameNext(m.h, c)] \in Machines
  BY NameNextType DEF Machines
<1> QED
  BY <1>1, <1>2, ToType, BrokenType DEF OnField

\* The symbols of values.
LEMMA DigitInt == ASSUME NEW c \in Digits PROVE Digit(c) \in Nat
<1>1. Digit(c) \in 0..Base - 1 /\ Base \in 2..4
  BY DigitIs, NumbersAssumption
<1> QED
  BY <1>1

LEMMA ValueStartType ==
    ASSUME NEW m \in Machines, NEW c PROVE OnValueStart(m, c) \in Machines
<1>1. CASE m.h = "h_content_length" /\ c \notin Digits
  BY <1>1, BrokenType DEF OnValueStart
<1>2. CASE ~(m.h = "h_content_length" /\ c \notin Digits)
  <2> DEFINE n == IF m.h = "h_content_length" THEN Digit(c) ELSE m.length
             x == ValueStart(m.h, c)
  <2>1. n \in Int
    BY <1>2, DigitInt DEF Machines
  <2>2. x \in AllHeaderStates
    BY DEF ValueStart, ConnectionToken, AllHeaderStates, HeaderStates
  <2>3. OnValueStart(m, c) = [m EXCEPT !.state = "s_header_value", !.h = x, !.length = n]
    BY <1>2 DEF OnValueStart
  <2> HIDE DEF n, x
  <2> QED
    BY <2>1, <2>2, <2>3 DEF Machines, ParserStates
<1> QED
  BY <1>1, <1>2

Values == [h : AllHeaderStates, flags : SUBSET Flags, length : Int, ok : BOOLEAN]

LEMMA ValueNextType ==
    ASSUME NEW v \in Values, NEW c PROVE ValueNext(v, c) \in Values
<1>1. CASE v.h = "h_content_length" /\ c \in Digits /\ Fits(v.length)
  <2>1. WithDigit(v.length, c) \in Int
    BY <1>1, DigitInt, NumbersAssumption DEF WithDigit, Values
  <2>2. ValueNext(v, c) = [v EXCEPT !.length = WithDigit(v.length, c)]
    BY <1>1 DEF ValueNext, Values
  <2> QED
    BY <2>1, <2>2 DEF Values
<1>2. CASE v.h = "h_content_length" /\ ~(c \in Digits /\ Fits(v.length))
  <2>1. ValueNext(v, c) = [v EXCEPT !.ok = @ /\ c = SP]
    BY <1>2 DEF ValueNext
  <2>2. (v.ok /\ c = SP) \in BOOLEAN
    OBVIOUS
  <2> QED
    BY <2>1, <2>2 DEF Values
<1>3. CASE v.h # "h_content_length"
  <2> DEFINE f == v.flags \cup (IF c = "," THEN FlagOf(v.h) \ {"CHUNKED"} ELSE {})
             n == HeaderStateNext(v.h, c)
  <2>1. ValueNext(v, c) = [v EXCEPT !.h = n, !.flags = f]
    BY <1>3 DEF ValueNext
  <2>2. f \in SUBSET Flags
    BY FlagOfIs DEF Values
  <2>3. n \in AllHeaderStates
    BY DEF HeaderStateNext, ConnectionToken, HeaderStates, AllHeaderStates
  <2> HIDE DEF f, n
  <2> QED
    BY <2>1, <2>2, <2>3 DEF Values
<1> QED
  BY <1>1, <1>2, <1>3

LEMMA WithValueType ==
    ASSUME NEW m \in Machines, NEW v \in Values PROVE WithValue(m, v) \in Machines
BY BrokenType DEF WithValue, Machines, Values

LEMMA ValueOfType ==
    ASSUME NEW m \in Machines PROVE ValueOf(m) \in Values
BY DEF ValueOf, Machines, Values

LEMMA ValueType ==
    ASSUME NEW m \in Machines, NEW c PROVE OnValue(m, c) \in Machines
<1>1. "s_header_almost_done" \in ParserStates /\ "s_header_value_lws" \in ParserStates
  BY DEF ParserStates
<1>2. WithValue(m, ValueNext(ValueOf(m), c)) \in Machines
  BY WithValueType, ValueOfType, ValueNextType
<1> QED
  BY <1>1, <1>2, ToType, OnLFType DEF OnValue

LEMMA FlaggedType ==
    ASSUME NEW m \in Machines PROVE Flagged(m) \in Machines
<1>1. m.flags \cup FlagOf(m.h) \in SUBSET Flags
  BY FlagOfIs DEF Machines
<1> QED
  BY <1>1 DEF Flagged, Machines, ParserStates

LEMMA LwsType ==
    ASSUME NEW m \in Machines, NEW c
    PROVE  OnLws(m, c) \in Machines /\ OnDiscardLws(m, c) \in Machines /\ OnDiscardWs(m, c) \in Machines
<1>1. {"s_header_value_discard_ws", "s_header_value_discard_lws",
       "s_header_value_discard_ws_almost_done"} \subseteq ParserStates
  BY DEF ParserStates
<1>2. OnFieldStart(Flagged(m), c) \in Machines
  BY FlaggedType, FieldStartType
<1>3. OnLws(m, c) \in Machines
  BY <1>2, ValueStartType DEF OnLws
<1>4. OnDiscardLws(m, c) \in Machines
  BY <1>1, <1>2, ToType DEF OnDiscardLws
<1>5. OnDiscardWs(m, c) \in Machines
  BY <1>1, ToType, ValueStartType DEF OnDiscardWs
<1> QED
  BY <1>3, <1>4, <1>5

\* The symbols of bodies and of the sizes of chunks.
LEMMA BodyTypes ==
    ASSUME NEW m \in Machines, NEW c
    PROVE  OnBody(m) \in Machines /\ OnChunk(m) \in Machines /\ OnStart(m, c) \in Machines
<1>1. OnBody(m) \in Machines
  <2>1. [m EXCEPT !.length = 0] \in Machines /\ [m EXCEPT !.length = m.length - 1] \in Machines
    BY DEF Machines
  <2> QED
    BY <2>1, CompleteType DEF OnBody
<1>2. OnChunk(m) \in Machines
  <2>1. m.length - 1 \in Int
    BY DEF Machines
  <2> QED
    BY <2>1 DEF OnChunk, Machines, ParserStates
<1>3. OnStart(m, c) \in Machines
  <2>1. NoLength \in Int
    BY NumbersAssumption DEF NoLength
  <2> HIDE DEF NoLength
  <2>2. [m EXCEPT !.flags = {}, !.length = NoLength] \in Machines
    BY <2>1 DEF Machines
  <2>3. c \in StartLines => [m EXCEPT !.state = "s_res_status", !.flags = {}, !.length = NoLength, !.start = c] \in Machines
    BY <2>1 DEF Machines, ParserStates
  <2> QED
    BY <2>2, <2>3, BrokenType DEF OnStart
<1> QED
  BY <1>1, <1>2, <1>3

LEMMA SizeTypes ==
    ASSUME NEW m \in Machines, NEW c
    PROVE  OnSizeStart(m, c) \in Machines /\ OnSize(m, c) \in Machines /\ OnSizeDone(m, c) \in Machines
<1>1. OnSizeStart(m, c) \in Machines
  <2>1. c \in Digits => [m EXCEPT !.state = "s_chunk_size", !.length = Digit(c)] \in Machines
    <3>1. c \in Digits => Digit(c) \in Int
      BY DigitInt
    <3>2. "s_chunk_size" \in ParserStates
      BY DEF ParserStates
    <3> QED
      BY <3>1, <3>2 DEF Machines
  <2> QED
    BY <2>1, BrokenType DEF OnSizeStart
<1>2. OnSize(m, c) \in Machines
  <2>1. c \in Digits => [m EXCEPT !.length = WithDigit(m.length, c)] \in Machines
    <3>1. c \in Digits => WithDigit(m.length, c) \in Int
      BY DigitInt, NumbersAssumption DEF WithDigit, Machines
    <3> QED
      BY <3>1 DEF Machines
  <2>2. "s_chunk_size_almost_done" \in ParserStates /\ "s_chunk_parameters" \in ParserStates
    BY DEF ParserStates
  <2> QED
    BY <2>1, <2>2, ToType, BrokenType DEF OnSize
<1>3. OnSizeDone(m, c) \in Machines
  <2>1. [m EXCEPT !.state = "s_header_field_start", !.flags = m.flags \cup {"TRAILING"}] \in Machines
    BY DEF Machines, ParserStates, Flags
  <2>2. "s_chunk_data" \in ParserStates
    BY DEF ParserStates
  <2> QED
    BY <2>1, <2>2, ToType, BrokenType DEF OnSizeDone
<1> QED
  BY <1>1, <1>2, <1>3

\* A step, and any number of steps.
LEMMA StepType ==
    ASSUME NEW m \in Machines, NEW c
    PROVE  Step(m, c) \in Machines
<1>1. {"s_res_line_almost_done", "s_header_field_start", "s_header_value_lws", "s_header_value_discard_lws",
       "s_chunk_size_almost_done", "s_chunk_parameters", "s_chunk_data_done", "s_chunk_size_start"} \subseteq ParserStates
  BY DEF ParserStates
<1>2. /\ OnLF(m, c, "s_header_field_start") \in Machines /\ OnLF(m, c, "s_header_value_lws") \in Machines
      /\ OnLF(m, c, "s_header_value_discard_lws") \in Machines /\ OnLF(m, c, "s_chunk_size_start") \in Machines
  BY <1>1, OnLFType
<1>3. To(m, IF c = CR THEN "s_chunk_size_almost_done" ELSE "s_chunk_parameters") \in Machines
  BY <1>1, ToType
<1>4. To(m, "s_chunk_data_done") \in Machines /\ OnStatus(m, c) \in Machines
  BY <1>1, <1>2, ToType DEF OnStatus
<1> HIDE DEF CR, LF, SP
<1> QED
  BY <1>2, <1>3, <1>4, BrokenType, CompleteType, HeadersDoneType, FieldStartType, FieldType, ValueStartType,
     ValueType, LwsType, BodyTypes, SizeTypes DEF Step

LEMMA AfterType ==
    ASSUME NEW m \in Machines
    PROVE  \A s \in Seq(Symbols) : After(m, s) \in Machines
<1>1. \A x \in Machines : \A c \in Symbols : StepFn[x][c] \in Machines
  BY StepType DEF StepFn
<1> QED
  BY <1>1, FoldIn DEF After

LEMMA AfterEmpty == ASSUME NEW m PROVE After(m, <<>>) = m
BY FoldEmpty DEF After

LEMMA AfterAppend ==
    ASSUME NEW m \in Machines, NEW s \in Seq(Symbols), NEW c \in Symbols
    PROVE  After(m, Append(s, c)) = Step(After(m, s), c)
<1>1. After(m, Append(s, c)) = StepFn[After(m, s)][c]
  BY FoldAppend DEF After
<1>2. After(m, s) \in Machines
  BY AfterType
<1> QED
  BY <1>1, <1>2 DEF StepFn

\* A text after another.
LEMMA AfterConcat ==
    ASSUME NEW m \in Machines, NEW s \in Seq(Symbols), NEW t \in Seq(Symbols)
    PROVE  After(m, s \o t) = After(After(m, s), t)
BY FoldConcat DEF After

LEMMA AfterOne ==
    ASSUME NEW m \in Machines, NEW c \in Symbols
    PROVE  After(m, <<c>>) = Step(m, c)
<1>1. <<>> \in Seq(Symbols) /\ Append(<<>>, c) = <<c>>
  OBVIOUS
<1>2. After(m, Append(<<>>, c)) = Step(After(m, <<>>), c)
  BY <1>1, AfterAppend
<1> QED
  BY <1>1, <1>2, AfterEmpty

-----------------------------------------------------------------------------
(* What a machine makes of many symbols that it treats alike.               *)

LEMMA FailedRun ==
    ASSUME NEW m \in Machines, m.failed
    PROVE  \A s \in Seq(Symbols) : After(m, s) = m
<1> DEFINE G == {s \in Seq(Symbols) : After(m, s) = m}
<1>1. <<>> \in G
  BY AfterEmpty
<1>2. ASSUME NEW s \in Seq(Symbols), NEW c \in Symbols, s \in G PROVE Append(s, c) \in G
  <2>1. After(m, Append(s, c)) = Step(m, c)
    BY <1>2, AfterAppend
  <2>2. Step(m, c) = m
    BY DEF Step
  <2>3. Append(s, c) \in Seq(Symbols)
    BY AppendIs
  <2> QED
    BY <2>1, <2>2, <2>3
<1> HIDE DEF G
<1>3. \A s \in Seq(Symbols) : s \in G
  BY <1>1, <1>2, SeqInduction
<1> QED
  BY <1>3 DEF G

LEMMA EofRun ==
    ASSUME NEW m \in Machines, m.state = "s_body_identity_eof"
    PROVE  \A s \in Seq(Symbols) : After(m, s) = m
<1> DEFINE G == {s \in Seq(Symbols) : After(m, s) = m}
<1>1. <<>> \in G
  BY AfterEmpty
<1>2. ASSUME NEW s \in Seq(Symbols), NEW c \in Symbols, s \in G PROVE Append(s, c) \in G
  <2>1. After(m, Append(s, c)) = Step(m, c)
    BY <1>2, AfterAppend
  <2>2. Step(m, c) = m
    BY DEF Step
  <2>3. Append(s, c) \in Seq(Symbols)
    BY AppendIs
  <2> QED
    BY <2>1, <2>2, <2>3
<1> HIDE DEF G
<1>3. \A s \in Seq(Symbols) : s \in G
  BY <1>1, <1>2, SeqInduction
<1> QED
  BY <1>3 DEF G

\* The symbols of a name.
NameFn == [h \in AllHeaderStates |-> [c \in Symbols |-> NameNext(h, c)]]
NameOf(h, s) == Fold(NameFn, h, s)

LEMMA TokensAre == Tokens \subseteq Symbols /\ Digits \subseteq Tokens /\ ValueSymbols \subseteq Symbols
BY DEF Tokens, Symbols, ValueSymbols

LEMMA NameType ==
    ASSUME NEW h \in AllHeaderStates
    PROVE  \A s \in Seq(Tokens) : NameOf(h, s) \in AllHeaderStates
<1>1. \A x \in AllHeaderStates : \A c \in Tokens : NameFn[x][c] \in AllHeaderStates
  BY NameNextType, TokensAre DEF NameFn
<1> QED
  BY <1>1, FoldIn DEF NameOf

LEMMA NameAppend ==
    ASSUME NEW h \in AllHeaderStates, NEW s \in Seq(Tokens), NEW c \in Tokens
    PROVE  NameOf(h, Append(s, c)) = NameNext(NameOf(h, s), c)
<1>1. NameOf(h, Append(s, c)) = NameFn[NameOf(h, s)][c]
  BY FoldAppend DEF NameOf
<1>2. NameOf(h, s) \in AllHeaderStates /\ c \in Symbols
  BY NameType, TokensAre
<1> QED
  BY <1>1, <1>2 DEF NameFn

LEMMA TokenSeq == Seq(Tokens) \subseteq Seq(Symbols) /\ Seq(ValueSymbols) \subseteq Seq(Symbols)
BY TokensAre, SeqMonotonic

\* A name, up to the symbol that ends it.
LEMMA NameRun ==
    ASSUME NEW m \in Machines, ~m.failed, m.state = "s_header_field"
    PROVE  \A s \in Seq(Tokens) : After(m, s) = [m EXCEPT !.h = NameOf(m.h, s)]
<1> DEFINE G == {s \in Seq(Tokens) : After(m, s) = [m EXCEPT !.h = NameOf(m.h, s)]}
<1>0. m.h \in AllHeaderStates
  BY DEF Machines
<1>1. <<>> \in G
  <2>1. After(m, <<>>) = m /\ NameOf(m.h, <<>>) = m.h
    BY AfterEmpty, FoldEmpty DEF NameOf
  <2>2. m = [m EXCEPT !.h = m.h]
    BY DEF Machines
  <2> QED
    BY <2>1, <2>2
<1>2. ASSUME NEW s \in Seq(Tokens), NEW c \in Tokens, s \in G PROVE Append(s, c) \in G
  <2> DEFINE a == [m EXCEPT !.h = NameOf(m.h, s)]
             g == NameOf(m.h, s)
             x == NameOf(m.h, Append(s, c))
  <2>1. After(m, Append(s, c)) = Step(a, c)
    BY <1>2, AfterAppend, TokenSeq, TokensAre
  <2>2. x = NameNext(g, c)
    BY <1>0, NameAppend
  <2>3. a.h = g /\ a.state = "s_header_field" /\ ~a.failed /\ a = [m EXCEPT !.h = g]
    BY DEF Machines
  <2> HIDE DEF a, g, x
  <2>4. Step(a, c) = [a EXCEPT !.h = NameNext(a.h, c)]
    BY <2>3 DEF Step, OnField
  <2>5. Step(a, c) = [m EXCEPT !.h = x]
    BY <2>2, <2>3, <2>4 DEF Machines
  <2>6. Append(s, c) \in Seq(Tokens)
    BY AppendIs
  <2> QED
    BY <2>1, <2>5, <2>6 DEF x
<1> HIDE DEF G
<1>3. \A s \in Seq(Tokens) : s \in G
  BY <1>1, <1>2, SeqInduction
<1> QED
  BY <1>3 DEF G

\* The symbols of a value.
ValueFn == [v \in Values |-> [c \in Symbols |-> ValueNext(v, c)]]
ValueAfter(v, s) == Fold(ValueFn, v, s)

LEMMA ValueAfterType ==
    ASSUME NEW v \in Values
    PROVE  \A s \in Seq(ValueSymbols) : ValueAfter(v, s) \in Values
<1>1. \A x \in Values : \A c \in ValueSymbols : ValueFn[x][c] \in Values
  BY ValueNextType, TokensAre DEF ValueFn
<1> QED
  BY <1>1, FoldIn DEF ValueAfter

LEMMA ValueAppend ==
    ASSUME NEW v \in Values, NEW s \in Seq(ValueSymbols), NEW c \in ValueSymbols
    PROVE  ValueAfter(v, Append(s, c)) = ValueNext(ValueAfter(v, s), c)
<1>1. ValueAfter(v, Append(s, c)) = ValueFn[ValueAfter(v, s)][c]
  BY FoldAppend DEF ValueAfter
<1>2. ValueAfter(v, s) \in Values /\ c \in Symbols
  BY ValueAfterType, TokensAre
<1> QED
  BY <1>1, <1>2 DEF ValueFn

\* A length that is wrong stays wrong; a machine is broken by it.
LEMMA ValueStays ==
    ASSUME NEW v \in Values, ~v.ok, NEW c PROVE ~ValueNext(v, c).ok
<1>1. CASE v.h = "h_content_length"
  <2>1. ValueNext(v, c) = [v EXCEPT !.length = WithDigit(v.length, c)] \/ ValueNext(v, c) = [v EXCEPT !.ok = v.ok /\ c = SP]
    BY <1>1 DEF ValueNext, Values
  <2> QED
    BY <2>1 DEF Values
<1>2. CASE v.h # "h_content_length"
  <2> DEFINE f == v.flags \cup (IF c = "," THEN FlagOf(v.h) \ {"CHUNKED"} ELSE {})
             n == HeaderStateNext(v.h, c)
  <2>1. ValueNext(v, c) = [v EXCEPT !.h = n, !.flags = f]
    BY <1>2 DEF ValueNext
  <2> HIDE DEF f, n
  <2> QED
    BY <2>1 DEF Values
<1> QED
  BY <1>1, <1>2

\* A part of a line of a value.
LEMMA ValueRun ==
    ASSUME NEW m \in Machines, ~m.failed, m.state = "s_header_value"
    PROVE  \A s \in Seq(ValueSymbols) :
              LET v == ValueAfter(ValueOf(m), s)
              IN  IF v.ok THEN After(m, s) = WithValue(m, v)
                  ELSE After(m, s).failed /\ After(m, s).done = m.done
<1> DEFINE V(s) == ValueAfter(ValueOf(m), s)
           Right(s) == IF V(s).ok THEN After(m, s) = WithValue(m, V(s))
                       ELSE After(m, s).failed /\ After(m, s).done = m.done
           G == {s \in Seq(ValueSymbols) : Right(s)}
<1>0. ValueOf(m) \in Values
  BY ValueOfType
<1>1. <<>> \in G
  <2>1. After(m, <<>>) = m /\ V(<<>>) = ValueOf(m)
    BY AfterEmpty, FoldEmpty DEF ValueAfter
  <2>2. ValueOf(m).ok /\ m = WithValue(m, ValueOf(m))
    BY DEF Machines, ValueOf, WithValue
  <2> QED
    BY <2>1, <2>2
<1>2. ASSUME NEW s \in Seq(ValueSymbols), NEW c \in ValueSymbols, s \in G PROVE Append(s, c) \in G
  <2>1. After(m, Append(s, c)) = Step(After(m, s), c) /\ After(m, s) \in Machines
    BY AfterAppend, TokenSeq, TokensAre, AfterType
  <2>2. V(Append(s, c)) = ValueNext(V(s), c) /\ V(s) \in Values
    BY <1>0, ValueAppend, ValueAfterType
  <2>3. Right(s)
    BY <1>2
  <2> DEFINE a == After(m, s)
             v == V(s)
             w == ValueNext(v, c)
             b == Step(a, c)
  <2>4. /\ After(m, Append(s, c)) = b /\ a \in Machines /\ V(Append(s, c)) = w /\ v \in Values
        /\ IF v.ok THEN a = WithValue(m, v) ELSE a.failed /\ a.done = m.done
    BY <2>1, <2>2, <2>3
  <2>5. w \in Values
    BY <2>2, ValueNextType
  <2> HIDE DEF a, v, w, V
  <2>6. IF w.ok THEN b = WithValue(m, w) ELSE b.failed /\ b.done = m.done
    <3>1. CASE ~v.ok
      <4>1. ~w.ok
        BY <2>4, <3>1, ValueStays DEF w
      <4>2. b = a
        BY <2>4, <3>1 DEF Step
      <4> QED
        BY <2>4, <3>1, <4>1, <4>2
    <3>2. CASE v.ok
      <4>1. a = [m EXCEPT !.h = v.h, !.flags = v.flags, !.length = v.length]
        BY <2>4, <3>2 DEF WithValue
      <4>2. ~a.failed /\ a.state = "s_header_value" /\ a.h = v.h /\ a.flags = v.flags /\ a.length = v.length /\ a.done = m.done
        BY <4>1 DEF Machines
      <4>3. ValueOf(a) = v
        BY <2>4, <3>2, <4>2 DEF ValueOf, Values
      <4>4. b = WithValue(a, w)
        BY <4>2, <4>3 DEF Step, OnValue, w
      <4>5. CASE w.ok
        <5>1. b = [a EXCEPT !.h = w.h, !.flags = w.flags, !.length = w.length]
          BY <4>4, <4>5 DEF WithValue
        <5>2. WithValue(m, w) = [m EXCEPT !.h = w.h, !.flags = w.flags, !.length = w.length]
          BY <4>5 DEF WithValue
        <5> HIDE DEF b
        <5>3. b = WithValue(m, w)
          BY <5>1, <5>2, <4>1 DEF Machines
        <5> QED
          BY <4>5, <5>3
      <4>6. CASE ~w.ok
        <5>1. b = Broken(a)
          BY <4>4, <4>6 DEF WithValue
        <5> HIDE DEF b
        <5>2. b.failed /\ b.done = m.done
          BY <5>1, <4>2, <2>4 DEF Broken, Machines
        <5> QED
          BY <4>6, <5>2
      <4> QED
        BY <4>5, <4>6
    <3> QED
      BY <3>1, <3>2
  <2>7. Append(s, c) \in Seq(ValueSymbols)
    BY AppendIs
  <2>8. Right(Append(s, c))
    BY <2>4, <2>6
  <2> HIDE DEF Right
  <2> QED
    BY <2>7, <2>8
<1> HIDE DEF G
<1>3. \A s \in Seq(ValueSymbols) : s \in G
  BY <1>1, <1>2, SeqInduction
<1> QED
  BY <1>3 DEF G

\* The symbols of a body or of a chunk.
LEMMA BodyRun ==
    ASSUME NEW m \in Machines, ~m.failed, m.state = "s_body_identity"
    PROVE  \A s \in Seq(Symbols) :
              Len(s) < m.length => After(m, s) = [m EXCEPT !.length = m.length - Len(s)]
<1> DEFINE Left(s) == [m EXCEPT !.length = m.length - Len(s)]
           G == {s \in Seq(Symbols) : Len(s) < m.length => After(m, s) = Left(s)}
<1>0. m.length \in Int
  BY DEF Machines
<1>1. <<>> \in G
  <2>1. After(m, <<>>) = m /\ Len(<<>>) = 0
    BY AfterEmpty
  <2>2. m = [m EXCEPT !.length = m.length - 0]
    BY <1>0 DEF Machines
  <2> QED
    BY <2>1, <2>2
<1>2. ASSUME NEW s \in Seq(Symbols), NEW c \in Symbols, s \in G PROVE Append(s, c) \in G
  <2>1. After(m, Append(s, c)) = Step(After(m, s), c)
    BY AfterAppend
  <2>2. Append(s, c) \in Seq(Symbols) /\ Len(Append(s, c)) = Len(s) + 1 /\ Len(s) \in Nat
    BY AppendIs
  <2>3. ASSUME Len(s) + 1 < m.length PROVE Step(After(m, s), c) = Left(Append(s, c))
    <3> DEFINE a == After(m, s)
               n == m.length - Len(s)
    <3>1. Len(s) < m.length /\ n - 1 = m.length - (Len(s) + 1) /\ n \in Int /\ n # 1
      BY <1>0, <2>2, <2>3
    <3>2. a = [m EXCEPT !.length = n]
      BY <1>2, <3>1
    <3>3. ~a.failed /\ a.state = "s_body_identity" /\ a.length = n
      BY <3>1, <3>2 DEF Machines
    <3> HIDE DEF a
    <3>4. Step(a, c) = [a EXCEPT !.length = n - 1]
      BY <3>1, <3>3 DEF Step, OnBody
    <3>5. Left(Append(s, c)) = [m EXCEPT !.length = n - 1]
      BY <2>2, <3>1
    <3> HIDE DEF n, Left
    <3>6. Step(a, c) = Left(Append(s, c))
      BY <3>2, <3>4, <3>5 DEF Machines
    <3> QED
      BY <3>6 DEF a
  <2> HIDE DEF Left
  <2> QED
    BY <2>1, <2>2, <2>3
<1> HIDE DEF G
<1>3. \A s \in Seq(Symbols) : s \in G
  BY <1>1, <1>2, SeqInduction
<1> QED
  BY <1>3 DEF G

LEMMA BodyEnd ==
    ASSUME NEW m \in Machines, ~m.failed, m.state = "s_body_identity",
           NEW s \in Seq(Symbols), s # <<>>, Len(s) = m.length
    PROVE  After(m, s) = Complete([m EXCEPT !.length = 0])
<1> DEFINE u == Upto(s, Len(s) - 1)
           c == s[Len(s)]
           a == After(m, u)
<1>1. Len(s) \in Nat \ {0} /\ c \in Symbols /\ u \in Seq(Symbols) /\ Len(u) = Len(s) - 1 /\ s = Append(u, c)
  BY FrontAndLast
<1> HIDE DEF u, c
<1>2. After(m, s) = Step(a, c)
  BY <1>1, AfterAppend
<1>3. Len(u) < m.length /\ m.length - Len(u) = 1
  BY <1>1
<1>4. a = [m EXCEPT !.length = 1]
  BY <1>1, <1>3, BodyRun
<1> HIDE DEF a
<1>5. ~a.failed /\ a.state = "s_body_identity" /\ a.length = 1
  BY <1>4 DEF Machines
<1>6. Step(a, c) = Complete([a EXCEPT !.length = 0])
  BY <1>5 DEF Step, OnBody
<1>7. [a EXCEPT !.length = 0] = [m EXCEPT !.length = 0]
  BY <1>4 DEF Machines
<1> QED
  BY <1>2, <1>6, <1>7

\* A chunk in the same way.
LEMMA ChunkRun ==
    ASSUME NEW m \in Machines, ~m.failed, m.state = "s_chunk_data"
    PROVE  \A s \in Seq(Symbols) :
              Len(s) < m.length => After(m, s) = [m EXCEPT !.length = m.length - Len(s)]
<1> DEFINE Left(s) == [m EXCEPT !.length = m.length - Len(s)]
           G == {s \in Seq(Symbols) : Len(s) < m.length => After(m, s) = Left(s)}
<1>0. m.length \in Int
  BY DEF Machines
<1>1. <<>> \in G
  <2>1. After(m, <<>>) = m /\ Len(<<>>) = 0
    BY AfterEmpty
  <2>2. m = [m EXCEPT !.length = m.length - 0]
    BY <1>0 DEF Machines
  <2> QED
    BY <2>1, <2>2
<1>2. ASSUME NEW s \in Seq(Symbols), NEW c \in Symbols, s \in G PROVE Append(s, c) \in G
  <2>1. After(m, Append(s, c)) = Step(After(m, s), c)
    BY AfterAppend
  <2>2. Append(s, c) \in Seq(Symbols) /\ Len(Append(s, c)) = Len(s) + 1 /\ Len(s) \in Nat
    BY AppendIs
  <2>3. ASSUME Len(s) + 1 < m.length PROVE Step(After(m, s), c) = Left(Append(s, c))
    <3> DEFINE a == After(m, s)
               n == m.length - Len(s)
    <3>1. Len(s) < m.length /\ n - 1 = m.length - (Len(s) + 1) /\ n \in Int /\ n # 1
      BY <1>0, <2>2, <2>3
    <3>2. a = [m EXCEPT !.length = n]
      BY <1>2, <3>1
    <3>3. ~a.failed /\ a.state = "s_chunk_data" /\ a.length = n
      BY <3>1, <3>2 DEF Machines
    <3> HIDE DEF a
    <3>4. Step(a, c) = [a EXCEPT !.length = n - 1]
      <4>1. Step(a, c) = [a EXCEPT !.state = "s_chunk_data", !.length = n - 1]
        BY <3>1, <3>3 DEF Step, OnChunk
      <4>2. a \in Machines
        BY AfterType DEF a
      <4> HIDE DEF n
      <4> QED
        BY <3>3, <4>1, <4>2 DEF Machines
    <3>5. Left(Append(s, c)) = [m EXCEPT !.length = n - 1]
      BY <2>2, <3>1
    <3> HIDE DEF n, Left
    <3>6. Step(a, c) = Left(Append(s, c))
      BY <3>2, <3>4, <3>5 DEF Machines
    <3> QED
      BY <3>6 DEF a
  <2> HIDE DEF Left
  <2> QED
    BY <2>1, <2>2, <2>3
<1> HIDE DEF G
<1>3. \A s \in Seq(Symbols) : s \in G
  BY <1>1, <1>2, SeqInduction
<1> QED
  BY <1>3 DEF G

LEMMA ChunkEnd ==
    ASSUME NEW m \in Machines, ~m.failed, m.state = "s_chunk_data",
           NEW s \in Seq(Symbols), s # <<>>, Len(s) = m.length
    PROVE  After(m, s) = [m EXCEPT !.state = "s_chunk_data_almost_done", !.length = 0]
<1> DEFINE u == Upto(s, Len(s) - 1)
           c == s[Len(s)]
           a == After(m, u)
<1>1. Len(s) \in Nat \ {0} /\ c \in Symbols /\ u \in Seq(Symbols) /\ Len(u) = Len(s) - 1 /\ s = Append(u, c)
  BY FrontAndLast
<1> HIDE DEF u, c
<1>2. After(m, s) = Step(a, c)
  BY <1>1, AfterAppend
<1>3. Len(u) < m.length /\ m.length - Len(u) = 1
  BY <1>1
<1>4. a = [m EXCEPT !.length = 1]
  BY <1>1, <1>3, ChunkRun
<1> HIDE DEF a
<1>5. ~a.failed /\ a.state = "s_chunk_data" /\ a.length = 1
  BY <1>4 DEF Machines
<1>6. Step(a, c) = [a EXCEPT !.state = "s_chunk_data_almost_done", !.length = 0]
  BY <1>5 DEF Step, OnChunk
<1>7. [a EXCEPT !.state = "s_chunk_data_almost_done", !.length = 0] = [m EXCEPT !.state = "s_chunk_data_almost_done", !.length = 0]
  BY <1>4 DEF Machines
<1> QED
  BY <1>2, <1>6, <1>7

-----------------------------------------------------------------------------
(* The machine run over a stream.                                           *)

Start == [state |-> "s_start_res", h |-> "h_general", flags |-> {}, length |-> 0,
          start |-> NoStart, done |-> 0, closed |-> FALSE, failed |-> FALSE]
Run(w, k) == After(Start, Upto(w, k))

LEMMA StartType == Start \in Machines
BY DEF Start, Machines, ParserStates, AllHeaderStates, HeaderStates

LEMMA RunType ==
    ASSUME NEW w \in Seq(Symbols), NEW k \in 0..Len(w)
    PROVE  Run(w, k) \in Machines
BY PrefixIs, StartType, AfterType DEF Run

LEMMA RunStarts == ASSUME NEW w \in Seq(Symbols) PROVE Run(w, 0) = Start
<1>1. Upto(w, 0) = <<>>
  BY DEF Upto
<1> QED
  BY <1>1, AfterEmpty DEF Run

\* Parts of a sequence.
Piece(s, a, b) == SubSeq(s, a, b)

\* What is in them.
LEMMA PieceIs ==
    ASSUME NEW T, NEW s \in Seq(T), NEW a \in 1..Len(s) + 1, NEW b \in a - 1..Len(s)
    PROVE  /\ Piece(s, a, b) \in Seq(T) /\ Len(Piece(s, a, b)) = b - a + 1
           /\ \A j \in 1..b - a + 1 : Piece(s, a, b)[j] = s[a + j - 1]
<1>1. Len(s) \in Nat /\ a \in Nat /\ b \in Int
  OBVIOUS
<1>2. Len(SubSeq(s, a, b)) = b - a + 1 /\ \A j \in 1..b - a + 1 : SubSeq(s, a, b)[j] = s[a + j - 1]
  BY <1>1
<1>3. SubSeq(s, a, b) \in Seq(T)
  <2>1. CASE b = a - 1
    BY <1>1, <2>1, SubSeqProperties
  <2>2. CASE b # a - 1
    BY <1>1, <2>2, SubSeqProperties
  <2> QED
    BY <2>1, <2>2
<1> QED
  BY <1>2, <1>3 DEF Piece

LEMMA PieceEmpty ==
    ASSUME NEW T, NEW s \in Seq(T), NEW a \in 1..Len(s) + 1
    PROVE  Piece(s, a, a - 1) = <<>>
<1>1. a - 1 \in a - 1..Len(s) /\ a - 1 - a + 1 = 0
  OBVIOUS
<1>2. Piece(s, a, a - 1) \in Seq(T) /\ Len(Piece(s, a, a - 1)) = 0
  BY <1>1, PieceIs
<1> QED
  BY <1>2

LEMMA PieceNext ==
    ASSUME NEW T, NEW s \in Seq(T), NEW a \in 1..Len(s), NEW b \in a..Len(s)
    PROVE  Piece(s, a, b) = Append(Piece(s, a, b - 1), s[b])
<1> DEFINE u == Piece(s, a, b)
           v == Piece(s, a, b - 1)
           x == s[b]
           n == b - a + 1
<1>0. Len(s) \in Nat /\ a \in Nat /\ b \in Nat /\ n \in Nat \ {0} /\ x \in T
  OBVIOUS
<1>1. a \in 1..Len(s) + 1 /\ b \in a - 1..Len(s) /\ b - 1 \in a - 1..Len(s) /\ b - 1 - a + 1 = n - 1
  OBVIOUS
<1>2. u \in Seq(T) /\ Len(u) = n /\ \A j \in 1..n : u[j] = s[a + j - 1]
  BY <1>1, PieceIs
<1>3. v \in Seq(T) /\ Len(v) = n - 1 /\ \A j \in 1..n - 1 : v[j] = s[a + j - 1]
  BY <1>1, PieceIs, ZenonT(40)
<1>4. a + n - 1 = b
  BY <1>0
<1> HIDE DEF u, v
<1>5. u[n] = x
  BY <1>0, <1>2, <1>4
<1> HIDE DEF x, n
<1>6. Append(v, x) \in Seq(T) /\ Len(Append(v, x)) = n
  BY <1>0, <1>3
<1>7. ASSUME NEW j \in 1..n PROVE Append(v, x)[j] = u[j]
  <2>1. CASE j = n
    BY <1>0, <1>3, <1>5, <2>1
  <2>2. CASE j # n
    <3>1. j \in 1..n - 1 /\ j \in 1..Len(v)
      BY <1>0, <1>3, <2>2
    <3>2. Append(v, x)[j] = v[j]
      BY <1>0, <1>3, <3>1
    <3> QED
      BY <1>2, <1>3, <3>1, <3>2
  <2> QED
    BY <2>1, <2>2
<1>8. u = Append(v, x)
  BY <1>2, <1>6, <1>7, SeqEqual
<1> QED
  BY <1>8 DEF u, v, x

LEMMA UptoNext ==
    ASSUME NEW T, NEW s \in Seq(T), NEW k \in 1..Len(s)
    PROVE  Upto(s, k) = Append(Upto(s, k - 1), s[k])
<1>1. 1 \in 1..Len(s) /\ k \in 1..Len(s)
  OBVIOUS
<1>2. Piece(s, 1, k) = Append(Piece(s, 1, k - 1), s[k])
  BY <1>1, PieceNext
<1> QED
  BY <1>2 DEF Piece, Upto

\* One symbol more.
LEMMA RunStep ==
    ASSUME NEW w \in Seq(Symbols), NEW k \in 1..Len(w)
    PROVE  Run(w, k) = Step(Run(w, k - 1), w[k])
<1>1. Upto(w, k) = Append(Upto(w, k - 1), w[k])
  BY UptoNext
<1>2. k - 1 \in 0..Len(w) /\ w[k] \in Symbols
  OBVIOUS
<1>3. Upto(w, k - 1) \in Seq(Symbols)
  BY <1>2, PrefixIs
<1> QED
  BY <1>1, <1>2, <1>3, StartType, AfterAppend DEF Run

\* A part of a stream that is in the buffer d, behind its first base symbols.
Holds(w, d, base) ==
    /\ w \in Seq(Symbols) /\ d \in Seq(Symbols) /\ base \in Nat /\ base + Len(d) <= Len(w)
    /\ \A i \in 1..Len(d) : d[i] = w[base + i]

LEMMA BufferStep ==
    ASSUME NEW w, NEW d, NEW base, Holds(w, d, base), NEW q \in 1..Len(d)
    PROVE  /\ Run(w, base + q) = Step(Run(w, base + q - 1), d[q])
           /\ Run(w, base + q) \in Machines /\ Run(w, base + q - 1) \in Machines
           /\ d[q] \in Symbols
<1>1. w \in Seq(Symbols) /\ d \in Seq(Symbols) /\ base \in Nat /\ base + Len(d) <= Len(w) /\ d[q] = w[base + q]
  BY DEF Holds
<1>2. base + q \in 1..Len(w) /\ base + q \in 0..Len(w) /\ base + q - 1 \in 0..Len(w) /\ d[q] \in Symbols
  BY <1>1
<1>3. Run(w, base + q) = Step(Run(w, base + q - 1), w[base + q])
  BY <1>1, <1>2, RunStep
<1> QED
  BY <1>1, <1>2, <1>3, RunType

\* A machine that is right about the next symbol is right about all that follow.
LEMMA PieceRun ==
    ASSUME NEW w, NEW d, NEW base, Holds(w, d, base), NEW q \in 1..Len(d),
           NEW m \in Machines, Step(m, d[q]) = Run(w, base + q)
    PROVE  \A e \in q..Len(d) : After(m, Piece(d, q, e)) = Run(w, base + e)
<1> DEFINE Bad == {e \in q..Len(d) : After(m, Piece(d, q, e)) # Run(w, base + e)}
<1>0. d \in Seq(Symbols) /\ base \in Nat
  BY DEF Holds
<1>1. SUFFICES ASSUME Bad # {} PROVE FALSE
  OBVIOUS
<1>2. PICK e \in Bad : \A f \in Bad : e <= f
  <2>1. Bad \subseteq Nat
    OBVIOUS
  <2> HIDE DEF Bad
  <2> QED
    BY <1>1, <2>1, NatMin
<1>3. e \in q..Len(d) /\ After(m, Piece(d, q, e)) # Run(w, base + e)
  BY <1>2
<1>4. e \in 1..Len(d) /\ q \in 1..Len(d) + 1 /\ e - 1 \in q - 1..Len(d)
  BY <1>0, <1>3
<1>5. Piece(d, q, e - 1) \in Seq(Symbols) /\ d[e] \in Symbols
  <2> HIDE DEF Bad
  <2>1. d[e] \in Symbols
    BY <1>0, <1>4
  <2>2. Piece(d, q, e - 1) \in Seq(Symbols)
    BY <1>0, <1>4, PieceIs
  <2> QED
    BY <2>1, <2>2
<1>6. Piece(d, q, e) = Append(Piece(d, q, e - 1), d[e])
  BY <1>0, <1>3, PieceNext
<1>7. After(m, Piece(d, q, e)) = Step(After(m, Piece(d, q, e - 1)), d[e])
  BY <1>5, <1>6, AfterAppend
<1>8. CASE e = q
  <2>1. After(m, Piece(d, q, e - 1)) = m
    BY <1>0, <1>4, <1>8, PieceEmpty, AfterEmpty
  <2> QED
    BY <1>3, <1>7, <1>8, <2>1
<1>9. CASE e # q
  <2>1. e - 1 \in q..Len(d) /\ ~(e <= e - 1) /\ base + e - 1 = base + (e - 1)
    BY <1>0, <1>3, <1>9
  <2>2. After(m, Piece(d, q, e - 1)) = Run(w, base + (e - 1))
    BY <1>2, <2>1
  <2>3. Run(w, base + e) = Step(Run(w, base + e - 1), d[e])
    BY <1>4, BufferStep
  <2> QED
    BY <1>3, <1>7, <2>1, <2>2, <2>3
<1> QED
  BY <1>8, <1>9

\* The names and the values that the model computes over a buffer.
LEMMA NameIs ==
    ASSUME NEW d \in Seq(Symbols), NEW q \in 1..Len(d), NEW e \in q - 1..Len(d),
           NEW h \in AllHeaderStates, \A i \in q..e : d[i] \in Tokens,
           NEW g, g = [k \in q - 1..e |-> IF k = q - 1 THEN h ELSE NameNext(g[k - 1], d[k])]
    PROVE  g[e] = NameOf(h, Piece(d, q, e)) /\ Piece(d, q, e) \in Seq(Tokens)
<1> DEFINE Bad == {k \in q - 1..e : ~(g[k] = NameOf(h, Piece(d, q, k)) /\ Piece(d, q, k) \in Seq(Tokens))}
<1>1. Len(d) \in Nat /\ q \in Nat /\ e \in Nat /\ q - 1 \in Nat
  OBVIOUS
<1>2. \A k \in q - 1..e : g[k] = IF k = q - 1 THEN h ELSE NameNext(g[k - 1], d[k])
  OBVIOUS
<1>3. Bad = {}
  <2>1. SUFFICES ASSUME Bad # {} PROVE FALSE
    OBVIOUS
  <2>2. PICK k \in Bad : \A j \in Bad : k <= j
    <3>1. Bad \subseteq Nat
      BY <1>1
    <3> HIDE DEF Bad
    <3> QED
      BY <2>1, <3>1, NatMin
  <2>3. k \in q - 1..e /\ ~(g[k] = NameOf(h, Piece(d, q, k)) /\ Piece(d, q, k) \in Seq(Tokens))
    BY <2>2
  <2>4. k # q - 1
    <3> SUFFICES ASSUME k = q - 1 PROVE FALSE
      OBVIOUS
    <3>1. Piece(d, q, k) = <<>>
      BY PieceEmpty
    <3>2. NameOf(h, <<>>) = h /\ <<>> \in Seq(Tokens)
      <4>1. NameOf(h, <<>>) = h
        BY FoldEmpty DEF NameOf
      <4> QED
        BY <4>1
    <3> QED
      BY <1>2, <2>3, <3>1, <3>2
  <2>5. k - 1 \in q - 1..e /\ ~(k <= k - 1) /\ k \in q..Len(d)
    BY <1>1, <2>3, <2>4
  <2>6. g[k - 1] = NameOf(h, Piece(d, q, k - 1)) /\ Piece(d, q, k - 1) \in Seq(Tokens)
    BY <2>2, <2>5
  <2>7. d[k] \in Tokens
    BY <1>1, <2>3, <2>5
  <2>8. Piece(d, q, k) = Append(Piece(d, q, k - 1), d[k])
    BY <2>5, PieceNext
  <2>9. NameOf(h, Append(Piece(d, q, k - 1), d[k])) = NameNext(NameOf(h, Piece(d, q, k - 1)), d[k])
    BY <2>6, <2>7, NameAppend
  <2>10. Piece(d, q, k) \in Seq(Tokens)
    BY <2>6, <2>7, <2>8, AppendIs
  <2> QED
    BY <1>2, <2>3, <2>4, <2>6, <2>8, <2>9, <2>10
<1>4. e \in q - 1..e
  BY <1>1
<1> QED
  BY <1>3, <1>4

LEMMA ValueIs ==
    ASSUME NEW d \in Seq(Symbols), NEW q \in 1..Len(d), NEW e \in q - 1..Len(d),
           NEW v \in Values, \A i \in q..e : d[i] \in ValueSymbols,
           NEW g, g = [k \in q - 1..e |-> IF k = q - 1 THEN v ELSE ValueNext(g[k - 1], d[k])]
    PROVE  g[e] = ValueAfter(v, Piece(d, q, e)) /\ Piece(d, q, e) \in Seq(ValueSymbols)
<1> DEFINE Bad == {k \in q - 1..e : ~(g[k] = ValueAfter(v, Piece(d, q, k)) /\ Piece(d, q, k) \in Seq(ValueSymbols))}
<1>1. Len(d) \in Nat /\ q \in Nat /\ e \in Nat /\ q - 1 \in Nat
  OBVIOUS
<1>2. \A k \in q - 1..e : g[k] = IF k = q - 1 THEN v ELSE ValueNext(g[k - 1], d[k])
  OBVIOUS
<1>3. Bad = {}
  <2>1. SUFFICES ASSUME Bad # {} PROVE FALSE
    OBVIOUS
  <2>2. PICK k \in Bad : \A j \in Bad : k <= j
    <3>1. Bad \subseteq Nat
      BY <1>1
    <3> HIDE DEF Bad
    <3> QED
      BY <2>1, <3>1, NatMin
  <2>3. k \in q - 1..e /\ ~(g[k] = ValueAfter(v, Piece(d, q, k)) /\ Piece(d, q, k) \in Seq(ValueSymbols))
    BY <2>2
  <2>4. k # q - 1
    <3> SUFFICES ASSUME k = q - 1 PROVE FALSE
      OBVIOUS
    <3>1. Piece(d, q, k) = <<>>
      BY PieceEmpty
    <3>2. ValueAfter(v, <<>>) = v /\ <<>> \in Seq(ValueSymbols)
      <4>1. ValueAfter(v, <<>>) = v
        BY FoldEmpty DEF ValueAfter
      <4> QED
        BY <4>1
    <3> QED
      BY <1>2, <2>3, <3>1, <3>2
  <2>5. k - 1 \in q - 1..e /\ ~(k <= k - 1) /\ k \in q..Len(d)
    BY <1>1, <2>3, <2>4
  <2>6. g[k - 1] = ValueAfter(v, Piece(d, q, k - 1)) /\ Piece(d, q, k - 1) \in Seq(ValueSymbols)
    BY <2>2, <2>5
  <2>7. d[k] \in ValueSymbols
    BY <1>1, <2>3, <2>5
  <2>8. Piece(d, q, k) = Append(Piece(d, q, k - 1), d[k])
    BY <2>5, PieceNext
  <2>9. ValueAfter(v, Append(Piece(d, q, k - 1), d[k])) = ValueNext(ValueAfter(v, Piece(d, q, k - 1)), d[k])
    BY <2>6, <2>7, ValueAppend
  <2>10. Piece(d, q, k) \in Seq(ValueSymbols)
    BY <2>6, <2>7, <2>8, AppendIs
  <2> QED
    BY <1>2, <2>3, <2>4, <2>6, <2>8, <2>9, <2>10
<1>4. e \in q - 1..e
  BY <1>1
<1> QED
  BY <1>3, <1>4

-----------------------------------------------------------------------------
(* How far a step of the machine may go.                                    *)

Open(m) == m \in Machines /\ ~m.failed /\ ~m.closed
                          /\ m.state \notin {"s_dead", "s_body_identity_eof"}
\* It fails; goes on; waits for the end of the connection; or completes a response.
Fails(m, x) == x.failed /\ x.closed /\ x.done = m.done /\ x.state # "s_body_identity_eof"
GoesOn(m, x) == /\ ~x.failed /\ ~x.closed /\ x.done = m.done
                /\ x.state \notin {"s_dead", "s_body_identity_eof"}
Waits(m, x) == /\ ~x.failed /\ ~x.closed /\ x.done = m.done
               /\ x.state = "s_body_identity_eof" /\ NeedsEofIn(x)
Completes(m, x) == /\ ~x.failed /\ x.done = m.done + 1 /\ x.state # "s_body_identity_eof"
                   /\ x.closed <=> x.state = "s_dead"
Moves(m, x) == Fails(m, x) \/ GoesOn(m, x) \/ Waits(m, x) \/ Completes(m, x)

\* Each of the functions that a step is made of goes as far as this.
LEMMA MovesTo ==
    ASSUME NEW m, Open(m), NEW s, s \notin {"s_dead", "s_body_identity_eof"}
    PROVE  Moves(m, To(m, s))
BY DEF Open, Machines, To, Moves, GoesOn

LEMMA MovesBroken == ASSUME NEW m, Open(m) PROVE Moves(m, Broken(m))
BY DEF Open, Machines, Broken, Moves, Fails

LEMMA MovesComplete == ASSUME NEW m, Open(m) PROVE Moves(m, Complete(m))
<1> DEFINE n == m.done + 1
<1>1. CASE KeptAlive(m)
  <2>1. Complete(m) = [m EXCEPT !.state = "s_start_res", !.h = "h_general", !.flags = {}, !.length = 0,
                   !.start = NoStart, !.done = n]
    BY <1>1 DEF Complete
  <2> HIDE DEF n, NoStart
  <2>2. Completes(m, Complete(m)) <=> n = m.done + 1
    BY <2>1 DEF Open, Machines, Completes
  <2> QED
    BY <2>2 DEF Moves, n
<1>2. CASE ~KeptAlive(m)
  <2>1. Complete(m) = [m EXCEPT !.state = "s_dead", !.closed = TRUE, !.done = n]
    BY <1>2 DEF Complete
  <2> HIDE DEF n
  <2>2. Completes(m, Complete(m)) <=> n = m.done + 1
    BY <2>1 DEF Open, Machines, Completes
  <2> QED
    BY <2>2 DEF Moves, n
<1> QED
  BY <1>1, <1>2

LEMMA MovesLF ==
    ASSUME NEW m, Open(m), NEW c, NEW s, s \notin {"s_dead", "s_body_identity_eof"}
    PROVE  Moves(m, OnLF(m, c, s))
BY MovesTo, MovesBroken DEF OnLF

LEMMA MovesHeadersDone ==
    ASSUME NEW m, Open(m), NEW c
    PROVE  Moves(m, OnHeadersDone(m, c)) /\ Moves(m, OnHeadersAlmostDone(m, c))
<1>1. ASSUME "CHUNKED" \notin m.flags, m.length = NoLength, NeedsEofIn(m)
      PROVE  Moves(m, To(m, "s_body_identity_eof"))
  <2> DEFINE x == To(m, "s_body_identity_eof")
  <2>1. x = [m EXCEPT !.state = "s_body_identity_eof"]
    BY DEF To
  <2> HIDE DEF x
  <2>2. ~x.failed /\ ~x.closed /\ x.done = m.done /\ x.state = "s_body_identity_eof" /\ x.start = m.start
        /\ x.flags = m.flags /\ x.length = m.length
    BY <2>1 DEF Open, Machines
  <2>3. NeedsEofIn(x)
    BY <1>1, <2>2 DEF NeedsEofIn
  <2>4. Moves(m, x)
    BY <2>2, <2>3 DEF Moves, Waits
  <2> QED
    BY <2>4 DEF x
<1>2. Moves(m, To(m, "s_chunk_size_start")) /\ Moves(m, To(m, "s_body_identity"))
  BY MovesTo
<1>3. Moves(m, OnHeadersDone(m, c))
  BY <1>1, <1>2, MovesBroken, MovesComplete DEF OnHeadersDone
<1> QED
  BY <1>3, MovesBroken, MovesComplete DEF OnHeadersAlmostDone

LEMMA MovesFieldStart ==
    ASSUME NEW m, Open(m), NEW c PROVE Moves(m, OnFieldStart(m, c))
<1>1. Moves(m, [m EXCEPT !.state = "s_header_field", !.h = NameStart(c)])
  <2> DEFINE h == NameStart(c)
  <2> HIDE DEF h
  <2>1. Moves(m, [m EXCEPT !.state = "s_header_field", !.h = h])
    BY DEF Open, Machines, Moves, GoesOn
  <2> QED
    BY <2>1 DEF h
<1>2. Moves(m, To(m, "s_headers_almost_done"))
  BY MovesTo
<1> QED
  BY <1>1, <1>2, MovesBroken, MovesHeadersDone DEF OnFieldStart

LEMMA MovesField ==
    ASSUME NEW m, Open(m), NEW c PROVE Moves(m, OnField(m, c))
<1>1. Moves(m, [m EXCEPT !.h = NameNext(m.h, c)])
  <2> DEFINE h == NameNext(m.h, c)
  <2> HIDE DEF h
  <2>1. Moves(m, [m EXCEPT !.h = h])
    BY DEF Open, Machines, Moves, GoesOn
  <2> QED
    BY <2>1 DEF h
<1>2. Moves(m, To(m, "s_header_value_discard_ws"))
  BY MovesTo
<1> QED
  BY <1>1, <1>2, MovesBroken DEF OnField

LEMMA MovesValueStart ==
    ASSUME NEW m, Open(m), NEW c PROVE Moves(m, OnValueStart(m, c))
<1> DEFINE n == IF m.h = "h_content_length" THEN Digit(c) ELSE m.length
           h == ValueStart(m.h, c)
           x == [m EXCEPT !.state = "s_header_value", !.h = h, !.length = n]
<1>1. OnValueStart(m, c) = Broken(m) \/ OnValueStart(m, c) = x
  BY DEF OnValueStart
<1> HIDE DEF n, h
<1>2. Moves(m, x)
  BY DEF Open, Machines, Moves, GoesOn
<1> QED
  BY <1>1, <1>2, MovesBroken

LEMMA MovesValue ==
    ASSUME NEW m, Open(m), NEW c, m.state = "s_header_value" PROVE Moves(m, OnValue(m, c))
<1> DEFINE v == ValueNext(ValueOf(m), c)
           x == [m EXCEPT !.h = v.h, !.flags = v.flags, !.length = v.length]
<1>1. WithValue(m, v) = Broken(m) \/ WithValue(m, v) = x
  BY DEF WithValue
<1> HIDE DEF v
<1>2. Moves(m, x)
  BY DEF Open, Machines, Moves, GoesOn
<1>3. Moves(m, WithValue(m, v))
  BY <1>1, <1>2, MovesBroken
<1>4. Moves(m, To(m, "s_header_almost_done")) /\ Moves(m, OnLF(m, c, "s_header_value_lws"))
  BY MovesTo, MovesLF
<1> QED
  BY <1>3, <1>4 DEF OnValue, v

LEMMA OpenFlagged ==
    ASSUME NEW m, Open(m) PROVE Open(Flagged(m)) /\ Flagged(m).done = m.done
<1>1. Flagged(m) \in Machines
  BY FlaggedType DEF Open
<1> DEFINE f == m.flags \cup FlagOf(m.h)
<1>2. Flagged(m) = [m EXCEPT !.state = "s_header_field_start", !.flags = f]
  BY DEF Flagged
<1> HIDE DEF f
<1> QED
  BY <1>1, <1>2 DEF Open, Machines

LEMMA MovesLws ==
    ASSUME NEW m, Open(m), NEW c
    PROVE  Moves(m, OnLws(m, c)) /\ Moves(m, OnDiscardLws(m, c))
<1>1. Moves(Flagged(m), OnFieldStart(Flagged(m), c))
  BY OpenFlagged, MovesFieldStart
<1>2. Moves(m, OnFieldStart(Flagged(m), c))
  BY <1>1, OpenFlagged DEF Moves, Fails, GoesOn, Waits, Completes
<1>3. Moves(m, OnValueStart(m, c)) /\ Moves(m, To(m, "s_header_value_discard_ws"))
  BY MovesTo, MovesValueStart
<1> QED
  BY <1>2, <1>3 DEF OnLws, OnDiscardLws

LEMMA MovesSame == ASSUME NEW m, Open(m) PROVE Moves(m, m)
BY DEF Open, Moves, GoesOn

LEMMA MovesDiscardWs ==
    ASSUME NEW m, Open(m), NEW c PROVE Moves(m, OnDiscardWs(m, c))
<1>1. Moves(m, To(m, "s_header_value_discard_ws_almost_done")) /\ Moves(m, To(m, "s_header_value_discard_lws"))
  BY MovesTo
<1> QED
  BY <1>1, MovesSame, MovesValueStart DEF OnDiscardWs

LEMMA MovesStart ==
    ASSUME NEW m, Open(m), m.state = "s_start_res", NEW c PROVE Moves(m, OnStart(m, c))
<1>1. Moves(m, [m EXCEPT !.state = "s_res_status", !.flags = {}, !.length = NoLength, !.start = c])
  BY DEF Open, Machines, Moves, GoesOn
<1>2. Moves(m, [m EXCEPT !.flags = {}, !.length = NoLength])
  BY DEF Open, Machines, Moves, GoesOn
<1> QED
  BY <1>1, <1>2, MovesBroken DEF OnStart

LEMMA MovesBody ==
    ASSUME NEW m, Open(m)
    PROVE  Moves(m, OnBody(m)) /\ Moves(m, OnChunk(m))
<1>1. Moves(m, OnBody(m))
  <2> DEFINE z == [m EXCEPT !.length = 0]
             n == m.length - 1
  <2>1. Open(z) /\ z.done = m.done
    BY DEF Open, Machines
  <2>2. Moves(z, Complete(z))
    BY <2>1, MovesComplete
  <2>3. Moves(m, Complete(z))
    BY <2>1, <2>2 DEF Moves, Fails, GoesOn, Waits, Completes
  <2>4. Moves(m, [m EXCEPT !.length = n])
    <3> HIDE DEF n
    <3> QED
      BY DEF Open, Machines, Moves, GoesOn
  <2> QED
    BY <2>3, <2>4 DEF OnBody
<1>2. Moves(m, OnChunk(m))
  <2> DEFINE n == m.length - 1
             s == IF m.length = 1 THEN "s_chunk_data_almost_done" ELSE "s_chunk_data"
  <2>1. OnChunk(m) = [m EXCEPT !.state = s, !.length = n]
    BY DEF OnChunk
  <2>2. s \notin {"s_dead", "s_body_identity_eof"}
    OBVIOUS
  <2> HIDE DEF n, s
  <2> QED
    BY <2>1, <2>2 DEF Open, Machines, Moves, GoesOn
<1> QED
  BY <1>1, <1>2

LEMMA MovesSize ==
    ASSUME NEW m, Open(m), NEW c
    PROVE  Moves(m, OnSizeStart(m, c)) /\ Moves(m, OnSize(m, c)) /\ Moves(m, OnSizeDone(m, c))
<1>1. Moves(m, OnSizeStart(m, c))
  <2> DEFINE n == Digit(c)
  <2>1. Moves(m, [m EXCEPT !.state = "s_chunk_size", !.length = n])
    <3> HIDE DEF n
    <3> QED
      BY DEF Open, Machines, Moves, GoesOn
  <2> QED
    BY <2>1, MovesBroken DEF OnSizeStart
<1>2. Moves(m, OnSize(m, c))
  <2> DEFINE n == WithDigit(m.length, c)
  <2>1. Moves(m, [m EXCEPT !.length = n])
    <3> HIDE DEF n
    <3> QED
      BY DEF Open, Machines, Moves, GoesOn
  <2>2. Moves(m, To(m, "s_chunk_size_almost_done")) /\ Moves(m, To(m, "s_chunk_parameters"))
    BY MovesTo
  <2> QED
    BY <2>1, <2>2, MovesBroken DEF OnSize
<1>3. Moves(m, OnSizeDone(m, c))
  <2> DEFINE f == m.flags \cup {"TRAILING"}
  <2>1. Moves(m, [m EXCEPT !.state = "s_header_field_start", !.flags = f])
    <3> HIDE DEF f
    <3> QED
      BY DEF Open, Machines, Moves, GoesOn
  <2>2. Moves(m, To(m, "s_chunk_data"))
    BY MovesTo
  <2> QED
    BY <2>1, <2>2, MovesBroken DEF OnSizeDone
<1> QED
  BY <1>1, <1>2, <1>3

\* So a step does.
LEMMA StepMoves ==
    ASSUME NEW m, Open(m), NEW c PROVE Moves(m, Step(m, c))
<1>0. ~m.failed /\ m.state \in ParserStates /\ m.state \notin {"s_dead", "s_body_identity_eof"}
  BY DEF Open, Machines
<1>1. /\ Moves(m, OnLF(m, c, "s_header_field_start")) /\ Moves(m, OnLF(m, c, "s_header_value_lws"))
      /\ Moves(m, OnLF(m, c, "s_header_value_discard_lws")) /\ Moves(m, OnLF(m, c, "s_chunk_size_start"))
  BY MovesLF
<1>2. Moves(m, To(m, IF c = CR THEN "s_chunk_size_almost_done" ELSE "s_chunk_parameters"))
  <2>1. (IF c = CR THEN "s_chunk_size_almost_done" ELSE "s_chunk_parameters") \notin {"s_dead", "s_body_identity_eof"}
    OBVIOUS
  <2> QED
    BY <2>1, MovesTo
<1>3. Moves(m, IF c = CR THEN To(m, "s_chunk_data_done") ELSE Broken(m))
  <2>1. Moves(m, To(m, "s_chunk_data_done"))
    BY MovesTo
  <2> QED
    BY <2>1, MovesBroken
<1>4. Moves(m, OnStatus(m, c))
  <2>1. Moves(m, To(m, "s_res_line_almost_done"))
    BY MovesTo
  <2> QED
    BY <1>1, <2>1 DEF OnStatus
<1> HIDE DEF CR, LF, SP
<1> QED
  BY <1>0, <1>1, <1>2, <1>3, <1>4, MovesComplete, MovesHeadersDone, MovesFieldStart, MovesField, MovesValueStart,
     MovesValue, MovesLws, MovesDiscardWs, MovesBody, MovesSize, MovesStart DEF Step, ParserStates

\* The machine is closed by an error and by a response that ends the connection.
IsSound(m) == /\ m \in Machines /\ (m.closed <=> m.failed \/ m.state = "s_dead")
              /\ m.state = "s_body_identity_eof" => NeedsEofIn(m)

LEMMA StepSound ==
    ASSUME NEW m, IsSound(m), NEW c PROVE IsSound(Step(m, c))
<1>0. Step(m, c) \in Machines /\ m \in Machines
  BY StepType DEF IsSound
<1>1. CASE m.failed \/ m.state = "s_body_identity_eof"
  BY <1>1 DEF Step
<1>2. CASE ~m.failed /\ m.state = "s_dead"
  <2>1. Step(m, c) = m \/ Step(m, c) = Broken(m)
    BY <1>2 DEF Step
  <2>2. IsSound(Broken(m))
    <3>1. Broken(m) = [m EXCEPT !.state = "s_start_res", !.failed = TRUE, !.closed = TRUE] /\ Broken(m) \in Machines
      BY <1>0, BrokenType DEF Broken
    <3> QED
      BY <1>2, <3>1 DEF IsSound, Machines
  <2> QED
    BY <2>1, <2>2
<1>3. CASE ~m.failed /\ m.state \notin {"s_body_identity_eof", "s_dead"}
  <2>1. Moves(m, Step(m, c))
    BY <1>0, <1>3, StepMoves DEF IsSound, Open
  <2> DEFINE x == Step(m, c)
  <2>2. x \in Machines
    BY <1>0
  <2> HIDE DEF x
  <2>3. IsSound(x) <=> x \in Machines
    BY <2>1, <2>2 DEF IsSound, Moves, Fails, GoesOn, Waits, Completes, x
  <2> QED
    BY <2>2, <2>3 DEF x
<1> QED
  BY <1>1, <1>2, <1>3

\* What never goes back.
Grows(m, x) == /\ m \in Machines /\ x \in Machines
               /\ x.done >= m.done /\ (m.closed => x.closed) /\ (m.failed => x.failed)
               /\ ~m.closed /\ x.closed /\ ~x.failed => x.done > m.done
               /\ m.closed => x.done = m.done

LEMMA StepGrows ==
    ASSUME NEW m, IsSound(m), NEW c PROVE Grows(m, Step(m, c))
<1>0. Step(m, c) \in Machines /\ m \in Machines /\ m.done \in Nat
  BY StepType DEF IsSound, Machines
<1>1. CASE m.failed \/ m.state = "s_body_identity_eof"
  <2>1. Step(m, c) = m
    BY <1>1 DEF Step
  <2> QED
    BY <1>0, <2>1 DEF Grows
<1>2. CASE ~m.failed /\ m.state = "s_dead"
  <2>1. Step(m, c) = m \/ Step(m, c) = Broken(m)
    BY <1>2 DEF Step
  <2>2. Grows(m, m)
    BY <1>0 DEF Grows
  <2>3. Grows(m, Broken(m))
    <3>1. Broken(m) = [m EXCEPT !.state = "s_start_res", !.failed = TRUE, !.closed = TRUE] /\ Broken(m) \in Machines
      BY <1>0, BrokenType DEF Broken
    <3>2. Broken(m).done = m.done /\ Broken(m).closed /\ Broken(m).failed
      BY <1>0, <3>1 DEF Machines
    <3> QED
      BY <1>0, <3>1, <3>2 DEF Grows
  <2> QED
    BY <2>1, <2>2, <2>3
<1>3. CASE ~m.failed /\ m.state \notin {"s_body_identity_eof", "s_dead"}
  <2>1. ~m.closed
    BY <1>3 DEF IsSound
  <2>2. Moves(m, Step(m, c))
    BY <1>0, <1>3, <2>1, StepMoves DEF Open
  <2> DEFINE x == Step(m, c)
  <2>3. x \in Machines /\ Moves(m, x)
    BY <1>0, <2>2
  <2> HIDE DEF x
  <2>4. x.done = m.done \/ x.done = m.done + 1
    BY <2>3 DEF Moves, Fails, GoesOn, Waits, Completes
  <2>5. x.closed /\ ~x.failed => x.done = m.done + 1
    BY <2>3 DEF Moves, Fails, GoesOn, Waits, Completes
  <2>6. x.done >= m.done /\ (x.closed /\ ~x.failed => x.done > m.done)
    <3> DEFINE a == m.done
               b == x.done
    <3>1. a \in Nat /\ (b = a \/ b = a + 1) /\ (x.closed /\ ~x.failed => b = a + 1)
      BY <1>0, <2>4, <2>5
    <3> HIDE DEF a, b
    <3>2. b >= a /\ (x.closed /\ ~x.failed => b > a)
      BY <3>1
    <3> QED
      BY <3>2 DEF a, b
  <2> HIDE DEF Grows
  <2>7. Grows(m, x)
    BY <1>0, <1>3, <2>1, <2>3, <2>6 DEF Grows
  <2> QED
    BY <2>7 DEF x
<1> QED
  BY <1>1, <1>2, <1>3

LEMMA StartSound == IsSound(Start)
<1>1. Start \in Machines
  BY StartType
<1> QED
  BY <1>1 DEF IsSound, Start

\* So does any number of steps.
LEMMA AfterSound ==
    ASSUME NEW m, IsSound(m)
    PROVE  \A s \in Seq(Symbols) : IsSound(After(m, s)) /\ Grows(m, After(m, s))
<1> DEFINE G == {s \in Seq(Symbols) : IsSound(After(m, s)) /\ Grows(m, After(m, s))}
<1>0. m \in Machines
  BY DEF IsSound
<1>1. <<>> \in G
  <2>1. After(m, <<>>) = m
    BY AfterEmpty
  <2>2. Grows(m, m)
    BY <1>0 DEF Grows, Machines
  <2> QED
    BY <2>1, <2>2
<1>2. ASSUME NEW s \in Seq(Symbols), NEW c \in Symbols, s \in G PROVE Append(s, c) \in G
  <2>1. After(m, Append(s, c)) = Step(After(m, s), c)
    BY <1>0, AfterAppend
  <2>2. Append(s, c) \in Seq(Symbols)
    BY AppendIs
  <2> DEFINE a == After(m, s)
             b == Step(a, c)
  <2>3. IsSound(a) /\ Grows(m, a)
    BY <1>2
  <2> HIDE DEF a
  <2>4. IsSound(b) /\ Grows(a, b)
    BY <2>3, StepSound, StepGrows
  <2> HIDE DEF b
  <2>5. Grows(m, b)
    <3> DEFINE x == m.done
               y == a.done
               z == b.done
    <3>1. x \in Nat /\ y \in Nat /\ z \in Nat
      BY <2>3, <2>4 DEF Grows, Machines
    <3>2. /\ m \in Machines /\ b \in Machines /\ y >= x /\ z >= y
          /\ (m.closed => a.closed) /\ (a.closed => b.closed) /\ (m.failed => a.failed) /\ (a.failed => b.failed)
          /\ (~m.closed /\ a.closed /\ ~a.failed => y > x) /\ (~a.closed /\ b.closed /\ ~b.failed => z > y)
          /\ (m.closed => y = x) /\ (a.closed => z = y)
      BY <2>3, <2>4 DEF Grows
    <3> HIDE DEF x, y, z
    <3>3. z >= x /\ (~m.closed /\ b.closed /\ ~b.failed => z > x) /\ (m.closed => z = x)
      BY <3>1, <3>2
    <3> QED
      BY <3>2, <3>3 DEF Grows, x, y, z
  <2> QED
    BY <2>1, <2>2, <2>4, <2>5 DEF a, b
<1> HIDE DEF G
<1>3. \A s \in Seq(Symbols) : s \in G
  BY <1>1, <1>2, SeqInduction
<1> QED
  BY <1>3 DEF G

LEMMA RunSound ==
    ASSUME NEW w \in Seq(Symbols), NEW k \in 0..Len(w)
    PROVE  IsSound(Run(w, k))
<1>1. Upto(w, k) \in Seq(Symbols)
  BY PrefixIs
<1> QED
  BY <1>1, StartSound, AfterSound DEF Run

LEMMA UptoSplit ==
    ASSUME NEW T, NEW w \in Seq(T), NEW k \in 0..Len(w), NEW j \in 0..k
    PROVE  Upto(w, k) = Upto(w, j) \o Piece(w, j + 1, k) /\ Piece(w, j + 1, k) \in Seq(T)
<1>1. PICK a : a = j + 1
  OBVIOUS
<1>2. Len(w) \in Nat /\ j \in Nat /\ k \in Nat /\ j <= k /\ j \in 0..Len(w) /\ a \in 1..Len(w) + 1 /\ k \in a - 1..Len(w)
  BY <1>1
<1> DEFINE u == Upto(w, k)
           v == Upto(w, j)
           x == Piece(w, a, k)
<1>3. u \in Seq(T) /\ Len(u) = k /\ \A i \in 1..k : u[i] = w[i]
  BY PrefixIs
<1>4. v \in Seq(T) /\ Len(v) = j /\ \A i \in 1..j : v[i] = w[i]
  BY <1>2, PrefixIs
<1>5. x \in Seq(T) /\ Len(x) = k - a + 1 /\ \A i \in 1..k - a + 1 : x[i] = w[a + i - 1]
  BY <1>2, PieceIs
<1> HIDE DEF u, v, x
<1>6. v \o x \in Seq(T)
  BY <1>4, <1>5
<1>7. Len(v \o x) = k
  <2>1. Len(v \o x) = Len(v) + Len(x)
    BY <1>4, <1>5, ConcatIs
  <2>2. j + (k - a + 1) = k
    BY <1>1, <1>2
  <2> QED
    BY <1>4, <1>5, <2>1, <2>2
<1>8. ASSUME NEW i \in 1..k PROVE (v \o x)[i] = u[i]
  <2>1. CASE i <= j
    <3>1. i \in 1..Len(v) /\ i \in 1..j
      BY <1>2, <1>4, <2>1
    <3>2. (v \o x)[i] = v[i]
      BY <1>4, <1>5, <3>1
    <3> QED
      BY <1>3, <1>4, <3>1, <3>2
  <2>2. CASE i > j
    <3>1. PICK b : b = i - j
      OBVIOUS
    <3>2. b \in 1..k - a + 1 /\ a + b - 1 = i /\ b \in 1..Len(x) /\ i \in 1..Len(v) + Len(x) /\ i > Len(v) /\ b = i - Len(v)
      BY <1>1, <1>2, <1>4, <1>5, <2>2, <3>1
    <3>3. (v \o x)[i] = x[b]
      BY <1>4, <1>5, <3>2
    <3> QED
      BY <1>3, <1>5, <3>2, <3>3
  <2>3. i <= j \/ i > j
    <3>1. i \in Nat
      BY <1>2
    <3> QED
      BY <1>2, <3>1
  <2> QED
    BY <2>1, <2>2, <2>3
<1>9. u = v \o x
  BY <1>3, <1>6, <1>7, <1>8, SeqEqual
<1> QED
  BY <1>1, <1>5, <1>9 DEF u, v, x

\* The machine later in the stream.
LEMMA RunGrows ==
    ASSUME NEW w \in Seq(Symbols), NEW k \in 0..Len(w), NEW j \in 0..k
    PROVE  Grows(Run(w, j), Run(w, k))
<1>1. Upto(w, k) = Upto(w, j) \o Piece(w, j + 1, k) /\ Piece(w, j + 1, k) \in Seq(Symbols)
  BY UptoSplit
<1>2. j \in 0..Len(w)
  OBVIOUS
<1>3. Upto(w, j) \in Seq(Symbols)
  BY <1>2, PrefixIs
<1>4. Run(w, k) = After(Run(w, j), Piece(w, j + 1, k))
  BY <1>1, <1>3, StartType, AfterConcat DEF Run
<1> QED
  BY <1>1, <1>2, <1>4, RunSound, AfterSound

-----------------------------------------------------------------------------
(* The parser follows the machine.                                          *)

View == [state |-> state, h |-> header_state, flags |-> flags, length |-> content_length,
         start |-> start, done |-> Len(completed), closed |-> closed, failed |-> FALSE]
wire == Wire[stream]
before == taken - Len(data)

\* The buffer is the last part of what was taken.
Feeds == /\ Holds(wire, data, before)
         /\ state \in ParserStates /\ header_state \in AllHeaderStates
         /\ \E T : completed \in Seq(T)

\* The parser is where the machine is, or about to look at a symbol again.
Synced ==
    /\ LET m == Run(wire, before + p - 1)
       IN  m.done = Len(completed) /\ m.closed = closed /\ ~m.failed
    /\ IF p <= Len(data) THEN Step(View, data[p]) = Run(wire, before + p)
       ELSE View = Run(wire, before + Len(data))

\* The machine has failed as well; the connection was lost, or its end was awaited.
Dropped == /\ closed /\ data = <<>> /\ p = 1
           /\ Run(wire, taken).failed /\ Run(wire, taken).done = Len(completed)
Cutoff == /\ closed /\ p > Len(data) /\ taken # Len(wire)
          /\ Run(wire, taken).done = Len(completed)
          /\ ~Run(wire, taken).closed /\ ~Run(wire, taken).failed
Ended == /\ closed /\ p > Len(data) /\ taken = Len(wire) /\ state = "s_body_identity_eof"
         /\ Run(wire, taken).state = "s_body_identity_eof"
         /\ Run(wire, taken).done + 1 = Len(completed)
         /\ ~Run(wire, taken).closed /\ ~Run(wire, taken).failed

Follows ==
    /\ Feeds
    /\ IF failed THEN Dropped ELSE IF lost THEN Cutoff ELSE Synced \/ Ended

\* The view of the parser is a machine.
LEMMA ViewType ==
    ASSUME Inv, Feeds PROVE View \in Machines /\ Len(completed) \in Nat
<1>1. PICK T : completed \in Seq(T)
  BY DEF Feeds
<1>2. Len(completed) \in Nat
  BY <1>1
<1> DEFINE n == Len(completed)
<1>3. /\ state \in ParserStates /\ header_state \in AllHeaderStates /\ flags \in SUBSET Flags
      /\ content_length \in Int /\ start \in StartLines \cup {NoStart} /\ closed \in BOOLEAN
  BY NumbersAssumption DEF Feeds, Inv, Types
<1> HIDE DEF n
<1>4. View = [state |-> state, h |-> header_state, flags |-> flags, length |-> content_length,
              start |-> start, done |-> n, closed |-> closed, failed |-> FALSE]
  BY DEF View, n
<1>5. n \in Nat
  BY <1>2 DEF n
<1> QED
  BY <1>2, <1>3, <1>4, <1>5 DEF Machines

LEMMA ViewIs ==
    /\ View.state = state /\ View.h = header_state /\ View.flags = flags /\ View.length = content_length
    /\ View.start = start /\ View.closed = closed /\ ~View.failed /\ View.done = Len(completed)
BY DEF View

Updated(m, s, h, f, n, t) ==
    [m EXCEPT !.state = s, !.h = h, !.flags = f, !.length = n, !.start = t]

LEMMA UpdatedIs ==
    ASSUME NEW m \in Machines, NEW s, NEW h, NEW f, NEW n, NEW t
    PROVE  Updated(m, s, h, f, n, t)
           = [state |-> s, h |-> h, flags |-> f, length |-> n,
              start |-> t, done |-> m.done, closed |-> m.closed, failed |-> m.failed]
<1> DEFINE u == [m EXCEPT !.state = s, !.h = h, !.flags = f, !.length = n, !.start = t]
<1>1. /\ u.state = s /\ u.h = h /\ u.flags = f /\ u.length = n /\ u.start = t
      /\ u.done = m.done /\ u.closed = m.closed /\ u.failed = m.failed
  BY DEF Machines
<1>2. u = [x \in DOMAIN m |-> u[x]] /\ DOMAIN m = {"state", "h", "flags", "length", "start", "done", "closed", "failed"}
  BY DEF Machines
<1>3. Updated(m, s, h, f, n, t) = u
  BY DEF Updated
<1> HIDE DEF u
<1>4. u = [state |-> s, h |-> h, flags |-> f, length |-> n,
           start |-> t, done |-> m.done, closed |-> m.closed, failed |-> m.failed]
  BY <1>1, <1>2
<1> QED
  BY <1>3, <1>4

LEMMA NextView ==
    ASSUME Inv, Feeds, closed' = closed, completed' = completed
    PROVE  View' = [View EXCEPT !.state = state', !.h = header_state', !.flags = flags',
                                !.length = content_length', !.start = start']
<1>1. View' = [state |-> state', h |-> header_state', flags |-> flags', length |-> content_length',
               start |-> start', done |-> View.done, closed |-> View.closed, failed |-> View.failed]
  BY ViewIs DEF View
<1>2. View \in Machines
  BY ViewType
<1>3. View' = Updated(View, state', header_state', flags', content_length', start')
  BY <1>1, <1>2, UpdatedIs
<1> QED
  BY <1>3 DEF Updated

\* What a case of the parser starts from.
Parsing == Inv /\ Feeds /\ Synced /\ p <= Len(data)

LEMMA ParsingIs ==
    ASSUME Parsing
    PROVE  /\ p \in 1..Len(data) /\ Len(data) \in Nat /\ View \in Machines
           /\ Holds(wire, data, before) /\ data \in Seq(Symbols) /\ data[p] \in Symbols
           /\ Step(View, data[p]) = Run(wire, before + p)
<1>1. Len(data) \in Nat /\ p \in 1..Len(data)
  BY DEF Parsing, Inv, Types
<1>2. View \in Machines
  BY ViewType DEF Parsing
<1>3. Holds(wire, data, before) /\ data \in Seq(Symbols)
  BY DEF Parsing, Feeds, Holds
<1>4. Step(View, data[p]) = Run(wire, before + p)
  BY DEF Parsing, Synced
<1> QED
  BY <1>1, <1>2, <1>3, <1>4

SameBuffer == data' = data /\ stream' = stream /\ taken' = taken

\* It has gone on behind the symbol e as the machine has.
LEMMA Moved ==
    ASSUME Parsing, SameBuffer, NEW e \in p..Len(data), p' = e + 1, View' = Run(wire, before + e)
    PROVE  Synced'
<1>1. p \in 1..Len(data) /\ Len(data) \in Nat /\ Holds(wire, data, before)
  BY ParsingIs
<1>2. wire' = wire /\ before' = before /\ before \in Nat
  BY <1>1 DEF SameBuffer, wire, before, Holds
<1> DEFINE m == Run(wire, before + e)
<1> HIDE DEF m
<1>3. View' = m
  BY DEF m
<1>4. m.done = Len(completed') /\ m.closed = closed' /\ ~m.failed
  BY <1>3 DEF View
<1>5. before' + p' - 1 = before + e
  BY <1>1, <1>2
<1>6. ASSUME p' <= Len(data') PROVE Step(View', data'[p']) = Run(wire', before' + p')
  <2>1. PICK q : q = e + 1
    OBVIOUS
  <2>2. q \in 1..Len(data) /\ before + q - 1 = before + e /\ data' = data /\ p' = q
    BY <1>1, <1>2, <1>6, <2>1 DEF SameBuffer
  <2>3. Run(wire, before + q) = Step(Run(wire, before + q - 1), data[q])
    BY <1>1, <2>2, BufferStep
  <2> QED
    BY <1>2, <1>3, <2>2, <2>3 DEF m
<1>7. ASSUME ~(p' <= Len(data')) PROVE View' = Run(wire', before' + Len(data'))
  <2>1. e = Len(data) /\ data' = data
    BY <1>1, <1>7 DEF SameBuffer
  <2> QED
    BY <1>2, <1>3, <2>1 DEF m
<1>8. Run(wire', before' + p' - 1) = m
  BY <1>2, <1>5 DEF m
<1> QED
  BY <1>4, <1>6, <1>7, <1>8 DEF Synced

\* It is about to look at the symbol again, with the same result.
LEMMA LooksAgain ==
    ASSUME Parsing, SameBuffer, p' = p, Len(completed') = Len(completed), closed' = closed,
           Step(View', data[p]) = Step(View, data[p])
    PROVE  Synced'
<1>1. wire' = wire /\ before' = before /\ data' = data
  BY DEF SameBuffer, wire, before
<1> QED
  BY <1>1 DEF Synced, Parsing

\* What the cases leave alone.
LEMMA CaseKeeps == ASSUME Case PROVE SameBuffer /\ failed' = failed /\ lost' = lost
BY DEF Case, SameBuffer, server

LEMMA AdvancedIs ==
    ASSUME Parsing, SameBuffer, p' = p + 1, View' = Step(View, data[p])
    PROVE  Synced'
<1>1. p \in p..Len(data) /\ View' = Run(wire, before + p)
  BY ParsingIs
<1> QED
  BY <1>1, Moved

-----------------------------------------------------------------------------
\* The end of a message.
LEMMA CompleteIs ==
    ASSUME Inv, Feeds, message_complete("s_dead")
    PROVE  View' = Complete(View)
<1> DEFINE n == Len(completed)
<1>1. n \in Nat /\ Len(completed') = n + 1
  <2>1. PICK T : completed \in Seq(T)
    BY DEF Feeds
  <2>2. PICK r : completed' = Append(completed, r)
    BY DEF message_complete
  <2>3. completed \in Seq(T \cup {r})
    BY <2>1
  <2> QED
    BY <2>2, <2>3
<1> HIDE DEF n
<1>2. View = [state |-> state, h |-> header_state, flags |-> flags, length |-> content_length,
              start |-> start, done |-> n, closed |-> closed, failed |-> FALSE]
  BY DEF View, n
<1>3. View' = [state |-> state', h |-> header_state', flags |-> flags', length |-> content_length',
               start |-> start', done |-> n + 1, closed |-> closed', failed |-> FALSE]
  BY <1>1 DEF View
<1>4. NeedsEofIn(View) <=> NeedsEof
  BY <1>2 DEF NeedsEofIn, NeedsEof
<1>5. KeptAlive(View) <=> ShouldKeepAlive
  BY <1>2, <1>4 DEF KeptAlive, ShouldKeepAlive
<1>6. CASE ShouldKeepAlive
  <2>1. state' = "s_start_res" /\ header_state' = "h_general" /\ flags' = {} /\ content_length' = 0 /\ start' = NoStart /\ closed' = closed
    BY <1>6 DEF message_complete, InitParser
  <2>2. Complete(View) = [View EXCEPT !.state = "s_start_res", !.h = "h_general", !.flags = {}, !.length = 0,
                   !.start = NoStart, !.done = View.done + 1]
    BY <1>5, <1>6 DEF Complete
  <2>3. View.done = n
    BY <1>2
  <2> HIDE DEF NoStart
  <2> QED
    BY <1>2, <1>3, <2>1, <2>2, <2>3
<1>7. CASE ~ShouldKeepAlive
  <2>1. state' = "s_dead" /\ header_state' = header_state /\ flags' = flags /\ content_length' = content_length /\ start' = start /\ closed' = TRUE
    BY <1>7 DEF message_complete
  <2>2. Complete(View) = [View EXCEPT !.state = "s_dead", !.closed = TRUE, !.done = View.done + 1]
    BY <1>5, <1>7 DEF Complete
  <2>3. View.done = n
    BY <1>2
  <2> QED
    BY <1>2, <1>3, <2>1, <2>2, <2>3
<1> QED
  BY <1>6, <1>7

LEMMA Distinct ==
    /\ CR # LF /\ CR # SP /\ LF # SP /\ CR # ";" /\ LF # ";" /\ SP # ";" /\ CR # ":" /\ LF # ":"
    /\ CR \notin StartLines /\ LF \notin StartLines /\ CR \notin ValueSymbols /\ LF \notin ValueSymbols
    /\ \A c \in Tokens : c \notin {SP, CR, LF, ";", ":", ","}
    /\ \A c \in Digits : c \notin {SP, CR, LF, ";", ":", ","}
<1>1. \A c \in Digits : c \in {"0", "1", "2", "3"}
  <2> SUFFICES ASSUME NEW i \in 1..Base PROVE Numerals[i] \in {"0", "1", "2", "3"}
    BY DEF Digits
  <2>1. i \in 1..4
    BY NumbersAssumption
  <2> QED
    BY <2>1 DEF Numerals
<1>2. \A c \in Digits : c \notin {SP, CR, LF, ";", ":", ","}
  BY <1>1 DEF SP, CR, LF
<1>3. \A c \in Tokens : c \notin {SP, CR, LF, ";", ":", ","}
  BY <1>2 DEF Tokens, SP, CR, LF
<1>4. CR \notin StartLines /\ LF \notin StartLines
  BY DEF StartLines, CR, LF
<1>5. CR \notin ValueSymbols /\ LF \notin ValueSymbols
  BY <1>3, <1>4 DEF ValueSymbols, SP, CR, LF
<1> QED
  BY <1>2, <1>3, <1>4, <1>5 DEF CR, LF, SP

\* The cases of the parser, each with the step of the machine: first those that do
\* no more than move to another state.
LEMMA Case_s_res_line_almost_done ==
    ASSUME Parsing, SameBuffer, s_res_line_almost_done PROVE Synced'
<1>1. state = "s_res_line_almost_done" /\ p' = p + 1 /\ closed' = closed /\ completed' = completed
  BY DEF s_res_line_almost_done, In, Advance, NoCallback
<1>2. View.state = "s_res_line_almost_done" /\ ~View.failed
  BY <1>1 DEF View
<1>3. Step(View, data[p]) = OnLF(View, data[p], "s_header_field_start")
  BY <1>2 DEF Step
<1>4. View' = OnLF(View, data[p], "s_header_field_start")
  BY <1>1 DEF s_res_line_almost_done, In, Advance, ch, NoCallback, View, OnLF, To
<1> QED
  BY <1>1, <1>3, <1>4, AdvancedIs

LEMMA Case_s_header_almost_done ==
    ASSUME Parsing, SameBuffer, s_header_almost_done PROVE Synced'
<1>1. state = "s_header_almost_done" /\ p' = p + 1 /\ closed' = closed /\ completed' = completed
  BY DEF s_header_almost_done, In, Advance, NoCallback
<1>2. View.state = "s_header_almost_done" /\ ~View.failed
  BY <1>1 DEF View
<1>3. Step(View, data[p]) = OnLF(View, data[p], "s_header_value_lws")
  BY <1>2 DEF Step
<1>4. View' = OnLF(View, data[p], "s_header_value_lws")
  BY <1>1 DEF s_header_almost_done, In, Advance, ch, NoCallback, View, OnLF, To
<1> QED
  BY <1>1, <1>3, <1>4, AdvancedIs

LEMMA Case_s_header_value_discard_ws_almost_done ==
    ASSUME Parsing, SameBuffer, s_header_value_discard_ws_almost_done PROVE Synced'
<1>1. state = "s_header_value_discard_ws_almost_done" /\ p' = p + 1 /\ closed' = closed /\ completed' = completed
  BY DEF s_header_value_discard_ws_almost_done, In, Advance, NoCallback
<1>2. View.state = "s_header_value_discard_ws_almost_done" /\ ~View.failed
  BY <1>1 DEF View
<1>3. Step(View, data[p]) = OnLF(View, data[p], "s_header_value_discard_lws")
  BY <1>2 DEF Step
<1>4. View' = OnLF(View, data[p], "s_header_value_discard_lws")
  BY <1>1 DEF s_header_value_discard_ws_almost_done, In, Advance, ch, NoCallback, View, OnLF, To
<1> QED
  BY <1>1, <1>3, <1>4, AdvancedIs

LEMMA Case_s_chunk_size_start ==
    ASSUME Parsing, SameBuffer, s_chunk_size_start PROVE Synced'
<1>1. state = "s_chunk_size_start" /\ p' = p + 1 /\ closed' = closed /\ completed' = completed
  BY DEF s_chunk_size_start, In, Advance, NoCallback
<1>2. View.state = "s_chunk_size_start" /\ ~View.failed
  BY <1>1 DEF View
<1>3. Step(View, data[p]) = OnSizeStart(View, data[p])
  BY <1>2 DEF Step
<1>4. View' = OnSizeStart(View, data[p])
  BY <1>1 DEF s_chunk_size_start, In, Advance, ch, NoCallback, View, OnSizeStart
<1> QED
  BY <1>1, <1>3, <1>4, AdvancedIs

LEMMA Case_s_chunk_size_almost_done ==
    ASSUME Parsing, SameBuffer, s_chunk_size_almost_done PROVE Synced'
<1>1. state = "s_chunk_size_almost_done" /\ p' = p + 1 /\ closed' = closed /\ completed' = completed
  BY DEF s_chunk_size_almost_done, In, Advance, NoCallback
<1>2. View.state = "s_chunk_size_almost_done" /\ ~View.failed
  BY <1>1 DEF View
<1>3. Step(View, data[p]) = OnSizeDone(View, data[p])
  BY <1>2 DEF Step
<1>4. View' = OnSizeDone(View, data[p])
  BY <1>1 DEF s_chunk_size_almost_done, In, Advance, ch, NoCallback, View, OnSizeDone, To
<1> QED
  BY <1>1, <1>3, <1>4, AdvancedIs

LEMMA Case_s_chunk_data_done ==
    ASSUME Parsing, SameBuffer, s_chunk_data_done PROVE Synced'
<1>1. state = "s_chunk_data_done" /\ p' = p + 1 /\ closed' = closed /\ completed' = completed
  BY DEF s_chunk_data_done, In, Advance, NoCallback
<1>2. View.state = "s_chunk_data_done" /\ ~View.failed
  BY <1>1 DEF View
<1>3. Step(View, data[p]) = OnLF(View, data[p], "s_chunk_size_start")
  BY <1>2 DEF Step
<1>4. View' = OnLF(View, data[p], "s_chunk_size_start")
  BY <1>1 DEF s_chunk_data_done, In, Advance, ch, NoCallback, View, OnLF, To
<1> QED
  BY <1>1, <1>3, <1>4, AdvancedIs

LEMMA Case_s_dead ==
    ASSUME Parsing, SameBuffer, s_dead PROVE Synced'
<1>1. state = "s_dead" /\ p' = p + 1 /\ closed' = closed /\ completed' = completed
  BY DEF s_dead, In, Advance, NoCallback
<1>2. View.state = "s_dead" /\ ~View.failed
  BY <1>1 DEF View
<1>3. Step(View, data[p]) = IF data[p] \in {CR, LF} THEN View ELSE Broken(View)
  BY <1>2 DEF Step
<1>4. View' = IF data[p] \in {CR, LF} THEN View ELSE Broken(View)
  BY <1>1 DEF s_dead, In, Advance, ch, NoCallback, View
<1> QED
  BY <1>1, <1>3, <1>4, AdvancedIs

LEMMA Case_s_start_res ==
    ASSUME Parsing, SameBuffer, s_start_res PROVE Synced'
<1>1. state = "s_start_res" /\ p' = p + 1 /\ closed' = closed /\ completed' = completed
  BY DEF s_start_res, In, Advance, NoCallback
<1>2. View.state = "s_start_res" /\ ~View.failed
  BY <1>1 DEF View
<1>3. Step(View, data[p]) = OnStart(View, data[p])
  BY <1>2 DEF Step
<1>4. CASE data[p] \in StartLines
  <2>1. state' = "s_res_status" /\ flags' = {} /\ content_length' = NoLength /\ start' = data[p] /\ header_state' = header_state
    BY <1>1, <1>4, Distinct DEF s_start_res, In, Advance, ch
  <2>2. OnStart(View, data[p]) = [View EXCEPT !.state = "s_res_status", !.flags = {}, !.length = NoLength, !.start = data[p]]
    BY <1>4, Distinct DEF OnStart, View
  <2>3. View' = [View EXCEPT !.state = "s_res_status", !.flags = {}, !.length = NoLength, !.start = data[p]]
    <3>1. View \in Machines
      BY ParsingIs
    <3>2. View' = [View EXCEPT !.state = state', !.h = header_state', !.flags = flags',
                                !.length = content_length', !.start = start']
      BY <1>1, NextView DEF Parsing
    <3> QED
      BY <1>1, <2>1, <3>1, <3>2, ViewIs DEF Machines
  <2> QED
    BY <1>1, <1>3, <2>2, <2>3, AdvancedIs
<1>5. CASE data[p] \in {CR, LF}
  <2>1. state' = state /\ flags' = {} /\ content_length' = NoLength /\ start' = start /\ header_state' = header_state
    BY <1>1, <1>5, Distinct DEF s_start_res, In, Advance, ch
  <2>2. OnStart(View, data[p]) = [View EXCEPT !.flags = {}, !.length = NoLength]
    BY <1>5, Distinct DEF OnStart, View
  <2>3. View' = [View EXCEPT !.flags = {}, !.length = NoLength]
    <3>1. View \in Machines
      BY ParsingIs
    <3>2. View' = [View EXCEPT !.state = state', !.h = header_state', !.flags = flags',
                                !.length = content_length', !.start = start']
      BY <1>1, NextView DEF Parsing
    <3> QED
      BY <1>1, <2>1, <3>1, <3>2, ViewIs DEF Machines
  <2> QED
    BY <1>1, <1>3, <2>2, <2>3, AdvancedIs
<1>6. (data[p] \in StartLines) \/ (data[p] \in {CR, LF})
  BY DEF s_start_res, ch
<1> QED
  BY <1>4, <1>5, <1>6

LEMMA Case_s_res_status ==
    ASSUME Parsing, SameBuffer, s_res_status PROVE Synced'
<1>1. state = "s_res_status" /\ p' = p + 1 /\ closed' = closed /\ completed' = completed
  BY DEF s_res_status, In, Advance, NoCallback
<1>2. View.state = "s_res_status" /\ ~View.failed
  BY <1>1 DEF View
<1>3. Step(View, data[p]) = OnStatus(View, data[p])
  BY <1>2 DEF Step
<1>4. CASE data[p] = CR
  <2>1. state' = "s_res_line_almost_done" /\ flags' = flags /\ content_length' = content_length /\ start' = start /\ header_state' = header_state
    BY <1>1, <1>4, Distinct DEF s_res_status, In, Advance, ch
  <2>2. OnStatus(View, data[p]) = [View EXCEPT !.state = "s_res_line_almost_done"]
    BY <1>4, Distinct DEF OnStatus, OnLF, To, View
  <2>3. View' = [View EXCEPT !.state = "s_res_line_almost_done"]
    <3>1. View \in Machines
      BY ParsingIs
    <3>2. View' = [View EXCEPT !.state = state', !.h = header_state', !.flags = flags',
                                !.length = content_length', !.start = start']
      BY <1>1, NextView DEF Parsing
    <3> QED
      BY <1>1, <2>1, <3>1, <3>2, ViewIs DEF Machines
  <2> QED
    BY <1>1, <1>3, <2>2, <2>3, AdvancedIs
<1>5. CASE data[p] = LF
  <2>1. state' = "s_header_field_start" /\ flags' = flags /\ content_length' = content_length /\ start' = start /\ header_state' = header_state
    BY <1>1, <1>5, Distinct DEF s_res_status, In, Advance, ch
  <2>2. OnStatus(View, data[p]) = [View EXCEPT !.state = "s_header_field_start"]
    BY <1>5, Distinct DEF OnStatus, OnLF, To, View
  <2>3. View' = [View EXCEPT !.state = "s_header_field_start"]
    <3>1. View \in Machines
      BY ParsingIs
    <3>2. View' = [View EXCEPT !.state = state', !.h = header_state', !.flags = flags',
                                !.length = content_length', !.start = start']
      BY <1>1, NextView DEF Parsing
    <3> QED
      BY <1>1, <2>1, <3>1, <3>2, ViewIs DEF Machines
  <2> QED
    BY <1>1, <1>3, <2>2, <2>3, AdvancedIs
<1>6. (data[p] = CR) \/ (data[p] = LF)
  BY DEF s_res_status, ch
<1> QED
  BY <1>4, <1>5, <1>6

LEMMA Case_s_chunk_parameters ==
    ASSUME Parsing, SameBuffer, s_chunk_parameters PROVE Synced'
<1>1. state = "s_chunk_parameters" /\ p' = p + 1 /\ closed' = closed /\ completed' = completed
  BY DEF s_chunk_parameters, In, Advance, NoCallback
<1>2. View.state = "s_chunk_parameters" /\ ~View.failed
  BY <1>1 DEF View
<1>3. Step(View, data[p]) = To(View, IF data[p] = CR THEN "s_chunk_size_almost_done" ELSE "s_chunk_parameters")
  BY <1>2 DEF Step
<1>4. CASE data[p] = CR
  <2>1. state' = "s_chunk_size_almost_done" /\ flags' = flags /\ content_length' = content_length /\ start' = start /\ header_state' = header_state
    BY <1>1, <1>4, Distinct DEF s_chunk_parameters, In, Advance, ch
  <2>2. To(View, IF data[p] = CR THEN "s_chunk_size_almost_done" ELSE "s_chunk_parameters") = [View EXCEPT !.state = "s_chunk_size_almost_done"]
    BY <1>4, Distinct DEF To, View
  <2>3. View' = [View EXCEPT !.state = "s_chunk_size_almost_done"]
    <3>1. View \in Machines
      BY ParsingIs
    <3>2. View' = [View EXCEPT !.state = state', !.h = header_state', !.flags = flags',
                                !.length = content_length', !.start = start']
      BY <1>1, NextView DEF Parsing
    <3> QED
      BY <1>1, <2>1, <3>1, <3>2, ViewIs DEF Machines
  <2> QED
    BY <1>1, <1>3, <2>2, <2>3, AdvancedIs
<1>5. CASE data[p] # CR
  <2>1. state' = "s_chunk_parameters" /\ flags' = flags /\ content_length' = content_length /\ start' = start /\ header_state' = header_state
    BY <1>1, <1>5, Distinct DEF s_chunk_parameters, In, Advance, ch
  <2>2. To(View, IF data[p] = CR THEN "s_chunk_size_almost_done" ELSE "s_chunk_parameters") = [View EXCEPT !.state = "s_chunk_parameters"]
    BY <1>5, Distinct DEF To, View
  <2>3. View' = [View EXCEPT !.state = "s_chunk_parameters"]
    <3>1. View \in Machines
      BY ParsingIs
    <3>2. View' = [View EXCEPT !.state = state', !.h = header_state', !.flags = flags',
                                !.length = content_length', !.start = start']
      BY <1>1, NextView DEF Parsing
    <3> QED
      BY <1>1, <2>1, <3>1, <3>2, ViewIs DEF Machines
  <2> QED
    BY <1>1, <1>3, <2>2, <2>3, AdvancedIs
<1>6. (data[p] = CR) \/ (data[p] # CR)
  BY DEF s_chunk_parameters, ch
<1> QED
  BY <1>4, <1>5, <1>6

LEMMA Case_s_header_value_discard_ws ==
    ASSUME Parsing, SameBuffer, s_header_value_discard_ws PROVE Synced'
<1>1. state = "s_header_value_discard_ws" /\ p' = p + 1 /\ closed' = closed /\ completed' = completed
  BY DEF s_header_value_discard_ws, In, Advance, NoCallback
<1>2. View.state = "s_header_value_discard_ws" /\ ~View.failed
  BY <1>1 DEF View
<1>3. Step(View, data[p]) = OnDiscardWs(View, data[p])
  BY <1>2 DEF Step
<1>4. CASE data[p] = SP
  <2>1. state' = state /\ flags' = flags /\ content_length' = content_length /\ start' = start /\ header_state' = header_state
    BY <1>1, <1>4, Distinct DEF s_header_value_discard_ws, In, Advance, ch
  <2>2. OnDiscardWs(View, data[p]) = View
    BY <1>4, Distinct DEF OnDiscardWs, To, View
  <2>3. View' = View
    <3>1. View \in Machines
      BY ParsingIs
    <3>2. View' = [View EXCEPT !.state = state', !.h = header_state', !.flags = flags',
                                !.length = content_length', !.start = start']
      BY <1>1, NextView DEF Parsing
    <3> QED
      BY <1>1, <2>1, <3>1, <3>2, ViewIs DEF Machines
  <2> QED
    BY <1>1, <1>3, <2>2, <2>3, AdvancedIs
<1>5. CASE data[p] = CR
  <2>1. state' = "s_header_value_discard_ws_almost_done" /\ flags' = flags /\ content_length' = content_length /\ start' = start /\ header_state' = header_state
    BY <1>1, <1>5, Distinct DEF s_header_value_discard_ws, In, Advance, ch
  <2>2. OnDiscardWs(View, data[p]) = [View EXCEPT !.state = "s_header_value_discard_ws_almost_done"]
    BY <1>5, Distinct DEF OnDiscardWs, To, View
  <2>3. View' = [View EXCEPT !.state = "s_header_value_discard_ws_almost_done"]
    <3>1. View \in Machines
      BY ParsingIs
    <3>2. View' = [View EXCEPT !.state = state', !.h = header_state', !.flags = flags',
                                !.length = content_length', !.start = start']
      BY <1>1, NextView DEF Parsing
    <3> QED
      BY <1>1, <2>1, <3>1, <3>2, ViewIs DEF Machines
  <2> QED
    BY <1>1, <1>3, <2>2, <2>3, AdvancedIs
<1>6. CASE data[p] = LF
  <2>1. state' = "s_header_value_discard_lws" /\ flags' = flags /\ content_length' = content_length /\ start' = start /\ header_state' = header_state
    BY <1>1, <1>6, Distinct DEF s_header_value_discard_ws, In, Advance, ch
  <2>2. OnDiscardWs(View, data[p]) = [View EXCEPT !.state = "s_header_value_discard_lws"]
    BY <1>6, Distinct DEF OnDiscardWs, To, View
  <2>3. View' = [View EXCEPT !.state = "s_header_value_discard_lws"]
    <3>1. View \in Machines
      BY ParsingIs
    <3>2. View' = [View EXCEPT !.state = state', !.h = header_state', !.flags = flags',
                                !.length = content_length', !.start = start']
      BY <1>1, NextView DEF Parsing
    <3> QED
      BY <1>1, <2>1, <3>1, <3>2, ViewIs DEF Machines
  <2> QED
    BY <1>1, <1>3, <2>2, <2>3, AdvancedIs
<1>7. (data[p] = SP) \/ (data[p] = CR) \/ (data[p] = LF)
  BY DEF s_header_value_discard_ws, ch
<1> QED
  BY <1>4, <1>5, <1>6, <1>7

LEMMA Case_s_chunk_size ==
    ASSUME Parsing, SameBuffer, s_chunk_size PROVE Synced'
<1>1. state = "s_chunk_size" /\ p' = p + 1 /\ closed' = closed /\ completed' = completed
  BY DEF s_chunk_size, In, Advance, NoCallback
<1>2. View.state = "s_chunk_size" /\ ~View.failed
  BY <1>1 DEF View
<1>3. Step(View, data[p]) = OnSize(View, data[p])
  BY <1>2 DEF Step
<1>4. CASE data[p] = CR
  <2>1. state' = "s_chunk_size_almost_done" /\ flags' = flags /\ content_length' = content_length /\ start' = start /\ header_state' = header_state
    BY <1>1, <1>4, Distinct DEF s_chunk_size, In, Advance, ch
  <2>2. OnSize(View, data[p]) = [View EXCEPT !.state = "s_chunk_size_almost_done"]
    BY <1>4, Distinct DEF OnSize, To, View
  <2>3. View' = [View EXCEPT !.state = "s_chunk_size_almost_done"]
    <3>1. View \in Machines
      BY ParsingIs
    <3>2. View' = [View EXCEPT !.state = state', !.h = header_state', !.flags = flags',
                                !.length = content_length', !.start = start']
      BY <1>1, NextView DEF Parsing
    <3> QED
      BY <1>1, <2>1, <3>1, <3>2, ViewIs DEF Machines
  <2> QED
    BY <1>1, <1>3, <2>2, <2>3, AdvancedIs
<1>5. CASE data[p] \in {";", SP}
  <2>1. state' = "s_chunk_parameters" /\ flags' = flags /\ content_length' = content_length /\ start' = start /\ header_state' = header_state
    BY <1>1, <1>5, Distinct DEF s_chunk_size, In, Advance, ch
  <2>2. OnSize(View, data[p]) = [View EXCEPT !.state = "s_chunk_parameters"]
    BY <1>5, Distinct DEF OnSize, To, View
  <2>3. View' = [View EXCEPT !.state = "s_chunk_parameters"]
    <3>1. View \in Machines
      BY ParsingIs
    <3>2. View' = [View EXCEPT !.state = state', !.h = header_state', !.flags = flags',
                                !.length = content_length', !.start = start']
      BY <1>1, NextView DEF Parsing
    <3> QED
      BY <1>1, <2>1, <3>1, <3>2, ViewIs DEF Machines
  <2> QED
    BY <1>1, <1>3, <2>2, <2>3, AdvancedIs
<1>6. CASE data[p] \in Digits /\ Fits(content_length)
  <2>1. content_length' = WithDigit(content_length, data[p]) /\ state' = state /\ flags' = flags /\ start' = start /\ header_state' = header_state
    BY <1>1, <1>6, Distinct DEF s_chunk_size, In, Advance, ch
  <2>2. OnSize(View, data[p]) = [View EXCEPT !.length = WithDigit(View.length, data[p])]
    BY <1>6, Distinct DEF OnSize, To, View
  <2>3. View' = [View EXCEPT !.length = WithDigit(View.length, data[p])]
    <3>1. View \in Machines
      BY ParsingIs
    <3>2. View' = [View EXCEPT !.state = state', !.h = header_state', !.flags = flags',
                                !.length = content_length', !.start = start']
      BY <1>1, NextView DEF Parsing
    <3> QED
      BY <1>1, <2>1, <3>1, <3>2, ViewIs DEF Machines
  <2> QED
    BY <1>1, <1>3, <2>2, <2>3, AdvancedIs
<1>7. (data[p] = CR) \/ (data[p] \in {";", SP}) \/ (data[p] \in Digits /\ Fits(content_length))
  BY DEF s_chunk_size, ch
<1> QED
  BY <1>4, <1>5, <1>6, <1>7

\* The state from which the symbol is looked at does not matter.
LEMMA HeadersDoneAnywhere ==
    ASSUME NEW m \in Machines, NEW s \in ParserStates
    PROVE  /\ OnHeadersDone(To(m, s), LF) = OnHeadersDone(m, LF)
           /\ OnHeadersAlmostDone(To(m, s), LF) = OnHeadersAlmostDone(m, LF)
<1> DEFINE x == To(m, s)
<1>1. x = [m EXCEPT !.state = s] /\ x \in Machines
  BY ToType DEF To
<1> HIDE DEF x
<1>2. x.h = m.h /\ x.flags = m.flags /\ x.length = m.length /\ x.start = m.start /\ x.done = m.done
      /\ x.closed = m.closed /\ x.failed = m.failed
  BY <1>1 DEF Machines
<1>3. NeedsEofIn(x) <=> NeedsEofIn(m)
  BY <1>2 DEF NeedsEofIn
<1>4. KeptAlive(x) <=> KeptAlive(m)
  BY <1>2, <1>3 DEF KeptAlive
<1>5. Complete(x) = Complete(m)
  <2> DEFINE n == m.done + 1
  <2>1. CASE KeptAlive(m)
    <3>1. Complete(x) = [x EXCEPT !.state = "s_start_res", !.h = "h_general", !.flags = {}, !.length = 0,
                   !.start = NoStart, !.done = n]
      BY <1>2, <1>4, <2>1 DEF Complete
    <3>2. Complete(m) = [m EXCEPT !.state = "s_start_res", !.h = "h_general", !.flags = {}, !.length = 0,
                   !.start = NoStart, !.done = n]
      BY <2>1 DEF Complete
    <3> HIDE DEF n, NoStart
    <3>3. [x EXCEPT !.state = "s_start_res", !.h = "h_general", !.flags = {}, !.length = 0,
                   !.start = NoStart, !.done = n] =
          [m EXCEPT !.state = "s_start_res", !.h = "h_general", !.flags = {}, !.length = 0,
                   !.start = NoStart, !.done = n]
      BY <1>1 DEF Machines
    <3> QED
      BY <3>1, <3>2, <3>3
  <2>2. CASE ~KeptAlive(m)
    <3>1. Complete(x) = [x EXCEPT !.state = "s_dead", !.closed = TRUE, !.done = n]
      BY <1>2, <1>4, <2>2 DEF Complete
    <3>2. Complete(m) = [m EXCEPT !.state = "s_dead", !.closed = TRUE, !.done = n]
      BY <2>2 DEF Complete
    <3> HIDE DEF n
    <3>3. [x EXCEPT !.state = "s_dead", !.closed = TRUE, !.done = n] = [m EXCEPT !.state = "s_dead", !.closed = TRUE, !.done = n]
      BY <1>1 DEF Machines
    <3> QED
      BY <3>1, <3>2, <3>3
  <2> QED
    BY <2>1, <2>2
<1>6. ASSUME NEW t PROVE To(x, t) = To(m, t)
  <2>1. [x EXCEPT !.state = t] = [m EXCEPT !.state = t]
    BY <1>1 DEF Machines
  <2> QED
    BY <2>1 DEF To
<1>7. OnHeadersDone(x, LF) = OnHeadersDone(m, LF)
  BY <1>2, <1>3, <1>5, <1>6 DEF OnHeadersDone
<1>8. OnHeadersAlmostDone(x, LF) = OnHeadersAlmostDone(m, LF)
  BY <1>2, <1>5, <1>7 DEF OnHeadersAlmostDone
<1> QED
  BY <1>7, <1>8 DEF x

LEMMA ValueStartAnywhere ==
    ASSUME NEW m \in Machines, NEW s \in ParserStates, NEW c
    PROVE  OnValueStart(To(m, s), c) = OnValueStart(m, c)
<1> DEFINE x == To(m, s)
<1>1. x = [m EXCEPT !.state = s] /\ x \in Machines
  BY ToType DEF To
<1> HIDE DEF x
<1>2. x.h = m.h /\ x.length = m.length
  BY <1>1 DEF Machines
<1>3. Broken(x) = Broken(m)
  <2>1. [x EXCEPT !.state = "s_start_res", !.failed = TRUE, !.closed = TRUE]
        = [m EXCEPT !.state = "s_start_res", !.failed = TRUE, !.closed = TRUE]
    BY <1>1 DEF Machines
  <2> QED
    BY <2>1 DEF Broken
<1> DEFINE h == ValueStart(m.h, c)
           n == IF m.h = "h_content_length" THEN Digit(c) ELSE m.length
<1>4. OnValueStart(x, c) = IF m.h = "h_content_length" /\ c \notin Digits THEN Broken(x)
                           ELSE [x EXCEPT !.state = "s_header_value", !.h = h, !.length = n]
  BY <1>2 DEF OnValueStart
<1>5. OnValueStart(m, c) = IF m.h = "h_content_length" /\ c \notin Digits THEN Broken(m)
                           ELSE [m EXCEPT !.state = "s_header_value", !.h = h, !.length = n]
  BY DEF OnValueStart
<1> HIDE DEF h, n
<1>6. [x EXCEPT !.state = "s_header_value", !.h = h, !.length = n] = [m EXCEPT !.state = "s_header_value", !.h = h, !.length = n]
  BY <1>1 DEF Machines
<1> QED
  BY <1>3, <1>4, <1>5, <1>6 DEF x

\* The view after a step that completes nothing.
LEMMA ViewTo ==
    ASSUME Inv, Feeds, closed' = closed, completed' = completed, header_state' = header_state, flags' = flags,
           content_length' = content_length, start' = start
    PROVE  View' = To(View, state')
<1>1. View' = [View EXCEPT !.state = state', !.h = header_state', !.flags = flags',
                                !.length = content_length', !.start = start']
  BY NextView
<1>2. View \in Machines
  BY ViewType
<1>3. View' = [View EXCEPT !.state = state']
  BY <1>1, <1>2, ViewIs DEF Machines
<1> QED
  BY <1>3 DEF To

\* The beginning of a header.
LEMMA Case_s_header_field_start ==
    ASSUME Parsing, SameBuffer, s_header_field_start PROVE Synced'
<1>0. View \in Machines /\ Inv /\ Feeds
  BY ParsingIs DEF Parsing
<1>1. state = "s_header_field_start" /\ closed' = closed /\ completed' = completed /\ flags' = flags
      /\ content_length' = content_length /\ start' = start
  BY DEF s_header_field_start, In, NoCallback
<1>2. View.state = "s_header_field_start" /\ ~View.failed
  BY <1>1, ViewIs
<1>3. Step(View, data[p]) = OnFieldStart(View, data[p])
  BY <1>2 DEF Step
<1>4. CASE data[p] = CR
  <2>1. p' = p + 1 /\ state' = "s_headers_almost_done" /\ header_state' = header_state
    BY <1>4, Distinct, TokensAre DEF s_header_field_start, Advance, ch
  <2>2. View' = To(View, "s_headers_almost_done")
    BY <1>0, <1>1, <2>1, ViewTo
  <2> QED
    BY <1>3, <1>4, <2>1, <2>2, AdvancedIs DEF OnFieldStart
<1>5. CASE data[p] = LF
  <2>1. p' = p /\ state' = "s_headers_almost_done" /\ header_state' = header_state
    BY <1>5, Distinct, TokensAre DEF s_header_field_start, Reexecute, ch
  <2>2. View' = To(View, "s_headers_almost_done")
    BY <1>0, <1>1, <2>1, ViewTo
  <2>3. "s_headers_almost_done" \in ParserStates
    BY DEF ParserStates
  <2>4. View'.state = "s_headers_almost_done" /\ ~View'.failed
    BY <1>0, <1>2, <2>2 DEF To, Machines
  <2>5. Step(View', data[p]) = OnHeadersAlmostDone(View', LF)
    BY <1>5, <2>4 DEF Step
  <2>6. Step(View, data[p]) = OnHeadersAlmostDone(View, LF)
    BY <1>3, <1>5, Distinct DEF OnFieldStart
  <2>7. Step(View', data[p]) = Step(View, data[p])
    BY <1>0, <2>2, <2>3, <2>5, <2>6, HeadersDoneAnywhere
  <2> QED
    BY <1>1, <2>1, <2>7, LooksAgain
<1>6. CASE data[p] \in Tokens
  <2>0. data[p] # CR /\ data[p] # LF
    BY <1>6, Distinct
  <2>1. p' = p + 1 /\ state' = "s_header_field" /\ header_state' = NameStart(data[p])
    BY <2>0 DEF s_header_field_start, Advance, ch
  <2>2. View' = [View EXCEPT !.state = state', !.h = header_state', !.flags = flags',
                                !.length = content_length', !.start = start']
    BY <1>0, <1>1, NextView
  <2>3. View' = [View EXCEPT !.state = "s_header_field", !.h = NameStart(data[p])]
    BY <1>0, <1>1, <2>1, <2>2, ViewIs DEF Machines
  <2>4. OnFieldStart(View, data[p]) = [View EXCEPT !.state = "s_header_field", !.h = NameStart(data[p])]
    BY <1>6, <2>0 DEF OnFieldStart
  <2> QED
    BY <1>3, <2>1, <2>3, <2>4, AdvancedIs
<1>7. data[p] = CR \/ data[p] = LF \/ data[p] \in Tokens
  BY DEF s_header_field_start, ch
<1> QED
  BY <1>4, <1>5, <1>6, <1>7

LEMMA Case_s_header_value_start ==
    ASSUME Parsing, SameBuffer, s_header_value_start PROVE Synced'
<1>0. View \in Machines /\ Inv /\ Feeds
  BY ParsingIs DEF Parsing
<1>1. /\ closed' = closed /\ completed' = completed /\ flags' = flags /\ start' = start
      /\ p' = p + 1 /\ state' = "s_header_value" /\ header_state' = ValueStart(header_state, data[p])
      /\ content_length' = IF header_state = "h_content_length" THEN Digit(data[p]) ELSE content_length
      /\ header_state = "h_content_length" => data[p] \in Digits
  BY DEF s_header_value_start, NoCallback, Advance, ch
<1>2. state = "s_header_value_start" \/ (state = "s_header_value_discard_ws" /\ data[p] \notin {SP, CR, LF})
  BY DEF s_header_value_start, In, ch
<1>3. Step(View, data[p]) = OnValueStart(View, data[p])
  <2>1. CASE state = "s_header_value_start"
    BY <2>1, ViewIs DEF Step
  <2>2. CASE state = "s_header_value_discard_ws" /\ data[p] \notin {SP, CR, LF}
    <3>1. Step(View, data[p]) = OnDiscardWs(View, data[p])
      BY <2>2, ViewIs DEF Step
    <3> QED
      BY <2>2, <3>1 DEF OnDiscardWs
  <2> QED
    BY <1>2, <2>1, <2>2
<1> DEFINE n == IF header_state = "h_content_length" THEN Digit(data[p]) ELSE content_length
           h == ValueStart(header_state, data[p])
<1>4. OnValueStart(View, data[p]) = [View EXCEPT !.state = "s_header_value", !.h = h, !.length = n]
  BY <1>1, ViewIs DEF OnValueStart
<1>5. header_state' = h /\ content_length' = n
  BY <1>1
<1> HIDE DEF h, n
<1>6. View' = [View EXCEPT !.state = state', !.h = header_state', !.flags = flags',
                                !.length = content_length', !.start = start']
  BY <1>0, <1>1, NextView
<1>7. View' = [View EXCEPT !.state = "s_header_value", !.h = h, !.length = n]
  BY <1>0, <1>1, <1>5, <1>6, ViewIs DEF Machines
<1> QED
  BY <1>1, <1>3, <1>4, <1>7, AdvancedIs

LEMMA ViewFlagged ==
    ASSUME Inv, Feeds, closed' = closed, completed' = completed, header_state' = header_state,
           content_length' = content_length, start' = start, state' = "s_header_field_start",
           flags' = flags \cup FlagOf(header_state)
    PROVE  View' = Flagged(View) /\ Step(View', data[p]) = OnFieldStart(Flagged(View), data[p])
<1> DEFINE f == flags \cup FlagOf(header_state)
<1>0. View \in Machines
  BY ViewType
<1>1. View' = [View EXCEPT !.state = state', !.h = header_state', !.flags = flags',
                                !.length = content_length', !.start = start']
  BY NextView
<1>2. Flagged(View) = [View EXCEPT !.state = "s_header_field_start", !.flags = f]
  BY ViewIs DEF Flagged
<1>3. flags' = f
  OBVIOUS
<1> HIDE DEF f
<1>4. View' = [View EXCEPT !.state = "s_header_field_start", !.flags = f]
  BY <1>0, <1>1, <1>3, ViewIs DEF Machines
<1>5. View'.state = "s_header_field_start" /\ ~View'.failed
  BY <1>0, <1>4, ViewIs DEF Machines
<1>6. Step(View', data[p]) = OnFieldStart(View', data[p])
  BY <1>5 DEF Step
<1> QED
  BY <1>2, <1>4, <1>6

LEMMA Case_s_header_value_lws ==
    ASSUME Parsing, SameBuffer, s_header_value_lws PROVE Synced'
<1>0. View \in Machines /\ Inv /\ Feeds
  BY ParsingIs DEF Parsing
<1>1. /\ closed' = closed /\ completed' = completed /\ start' = start /\ header_state' = header_state
      /\ p' = p /\ content_length' = content_length /\ state = "s_header_value_lws"
  BY DEF s_header_value_lws, NoCallback, Reexecute, In
<1>2. Step(View, data[p]) = OnLws(View, data[p])
  BY <1>1, ViewIs DEF Step
<1>3. CASE data[p] = SP
  <2>1. state' = "s_header_value_start" /\ flags' = flags
    BY <1>3 DEF s_header_value_lws, Reexecute, ch
  <2>2. View' = To(View, "s_header_value_start")
    BY <1>0, <1>1, <2>1, ViewTo
  <2>3. "s_header_value_start" \in ParserStates
    BY DEF ParserStates
  <2>4. View'.state = "s_header_value_start" /\ ~View'.failed
    BY <1>0, <2>2, ViewIs DEF To, Machines
  <2>5. Step(View', data[p]) = OnValueStart(View', data[p])
    BY <2>4 DEF Step
  <2>6. Step(View', data[p]) = Step(View, data[p])
    BY <1>0, <1>2, <1>3, <2>2, <2>3, <2>5, ValueStartAnywhere DEF OnLws
  <2> QED
    BY <1>1, <2>6, LooksAgain
<1>4. CASE data[p] # SP
  <2>1. state' = "s_header_field_start" /\ flags' = flags \cup FlagOf(header_state)
    BY <1>4 DEF s_header_value_lws, Reexecute, ch
  <2>2. Step(View', data[p]) = OnFieldStart(Flagged(View), data[p])
    BY <1>0, <1>1, <2>1, ViewFlagged
  <2> QED
    BY <1>1, <1>2, <1>4, <2>2, LooksAgain DEF OnLws
<1> QED
  BY <1>3, <1>4

LEMMA Case_s_header_value_discard_lws ==
    ASSUME Parsing, SameBuffer, s_header_value_discard_lws PROVE Synced'
<1>0. View \in Machines /\ Inv /\ Feeds
  BY ParsingIs DEF Parsing
<1>1. /\ closed' = closed /\ completed' = completed /\ start' = start /\ header_state' = header_state
      /\ content_length' = content_length /\ state = "s_header_value_discard_lws"
  BY DEF s_header_value_discard_lws, NoCallback, NoReport, In
<1>2. Step(View, data[p]) = OnDiscardLws(View, data[p])
  BY <1>1, ViewIs DEF Step
<1>3. CASE data[p] = SP
  <2>1. p' = p + 1 /\ state' = "s_header_value_discard_ws" /\ flags' = flags
    BY <1>3 DEF s_header_value_discard_lws, Advance, ch
  <2>2. View' = To(View, "s_header_value_discard_ws")
    BY <1>0, <1>1, <2>1, ViewTo
  <2> QED
    BY <1>2, <1>3, <2>1, <2>2, AdvancedIs DEF OnDiscardLws
<1>4. CASE data[p] # SP
  <2>1. p' = p /\ state' = "s_header_field_start" /\ flags' = flags \cup FlagOf(header_state)
    BY <1>4 DEF s_header_value_discard_lws, Reexecute, ch, AfterEmptyValue
  <2>2. Step(View', data[p]) = OnFieldStart(Flagged(View), data[p])
    BY <1>0, <1>1, <2>1, ViewFlagged
  <2> QED
    BY <1>1, <1>2, <1>4, <2>1, <2>2, LooksAgain DEF OnDiscardLws
<1> QED
  BY <1>3, <1>4

LEMMA Case_s_headers_almost_done ==
    ASSUME Parsing, SameBuffer, s_headers_almost_done PROVE Synced'
<1>0. View \in Machines /\ Inv /\ Feeds
  BY ParsingIs DEF Parsing
<1>1. state = "s_headers_almost_done" /\ data[p] = LF
  BY DEF s_headers_almost_done, In, ch
<1>2. Step(View, data[p]) = OnHeadersAlmostDone(View, LF)
  BY <1>1, ViewIs DEF Step
<1>3. CASE "TRAILING" \in flags
  <2>1. p' = p + 1 /\ message_complete("s_dead")
    BY <1>3 DEF s_headers_almost_done, NEW_MESSAGE
  <2>2. View' = Complete(View)
    BY <1>0, <2>1, CompleteIs
  <2> QED
    BY <1>2, <1>3, <2>1, <2>2, AdvancedIs, ViewIs DEF OnHeadersAlmostDone
<1>4. CASE "TRAILING" \notin flags
  <2>1. /\ p' = p /\ state' = "s_headers_done" /\ closed' = closed /\ completed' = completed /\ start' = start
        /\ header_state' = header_state /\ content_length' = content_length /\ flags' = flags
    BY <1>4 DEF s_headers_almost_done, Reexecute, NoCallback
  <2>2. View' = To(View, "s_headers_done")
    BY <1>0, <2>1, ViewTo
  <2>3. "s_headers_done" \in ParserStates
    BY DEF ParserStates
  <2>4. View'.state = "s_headers_done" /\ ~View'.failed
    BY <1>0, <2>2, ViewIs DEF To, Machines
  <2>5. Step(View', data[p]) = OnHeadersDone(View', LF)
    BY <1>1, <2>4 DEF Step
  <2>6. Step(View, data[p]) = OnHeadersDone(View, LF)
    BY <1>2, <1>4, ViewIs DEF OnHeadersAlmostDone
  <2>7. Step(View', data[p]) = Step(View, data[p])
    BY <1>0, <2>2, <2>3, <2>5, <2>6, HeadersDoneAnywhere
  <2> QED
    BY <2>1, <2>7, LooksAgain
<1> QED
  BY <1>3, <1>4

LEMMA Case_s_headers_done ==
    ASSUME Parsing, SameBuffer, s_headers_done PROVE Synced'
<1> DEFINE Ends == "CHUNKED" \notin flags /\ (content_length = 0 \/ (content_length = NoLength /\ ~NeedsEof))
           next == IF "CHUNKED" \in flags THEN "s_chunk_size_start"
                   ELSE IF content_length = NoLength THEN "s_body_identity_eof" ELSE "s_body_identity"
<1>0. View \in Machines /\ Inv /\ Feeds
  BY ParsingIs DEF Parsing
<1>1. state = "s_headers_done" /\ data[p] = LF /\ p' = p + 1
  BY DEF s_headers_done, In, ch, Advance
<1>2. Step(View, data[p]) = OnHeadersDone(View, LF)
  BY <1>1, ViewIs DEF Step
<1>3. NeedsEofIn(View) <=> NeedsEof
  BY ViewIs DEF NeedsEofIn, NeedsEof
<1>4. CASE Ends
  <2>1. message_complete("s_dead")
    BY <1>4 DEF s_headers_done, NEW_MESSAGE
  <2>2. View' = Complete(View)
    BY <1>0, <2>1, CompleteIs
  <2>3. OnHeadersDone(View, LF) = Complete(View)
    BY <1>3, <1>4, ViewIs DEF OnHeadersDone
  <2> QED
    BY <1>1, <1>2, <2>2, <2>3, AdvancedIs
<1>5. CASE ~Ends
  <2>1. /\ state' = next /\ closed' = closed /\ completed' = completed /\ start' = start
        /\ header_state' = header_state /\ content_length' = content_length /\ flags' = flags
    BY <1>5 DEF s_headers_done, Advance, NoCallback
  <2>2. View' = To(View, state')
    BY <1>0, <2>1, ViewTo
  <2>3. OnHeadersDone(View, LF) = To(View, next)
    BY <1>3, <1>5, ViewIs DEF OnHeadersDone
  <2> HIDE DEF next
  <2> QED
    BY <1>1, <1>2, <2>1, <2>2, <2>3, AdvancedIs
<1> QED
  BY <1>4, <1>5

LEMMA Case_s_message_done ==
    ASSUME Parsing, SameBuffer, s_message_done PROVE Synced'
<1>0. View \in Machines /\ Inv /\ Feeds
  BY ParsingIs DEF Parsing
<1>1. state = "s_message_done" /\ p' = p + 1 /\ message_complete("s_dead")
  BY DEF s_message_done, In, NEW_MESSAGE
<1>2. Step(View, data[p]) = Complete(View)
  BY <1>1, ViewIs DEF Step
<1>3. View' = Complete(View)
  BY <1>0, <1>1, CompleteIs
<1> QED
  BY <1>1, <1>2, <1>3, AdvancedIs

\* Text that is handed over completes nothing.
LEMMA HandedKeeps ==
    ASSUME NEW on, NEW mark, NEW last, CallbackData(on, mark, last)
    PROVE  closed' = closed /\ completed' = completed
BY DEF CallbackData, NoCallback, NoReport

LEMMA Case_s_chunk_data_almost_done ==
    ASSUME Parsing, SameBuffer, s_chunk_data_almost_done PROVE Synced'
<1>0. View \in Machines /\ Inv /\ Feeds
  BY ParsingIs DEF Parsing
<1>1. /\ state = "s_chunk_data_almost_done" /\ p' = p + 1 /\ data[p] = CR /\ state' = "s_chunk_data_done"
      /\ start' = start /\ header_state' = header_state /\ content_length' = content_length /\ flags' = flags
  BY DEF s_chunk_data_almost_done, In, Advance, ch
<1>2. closed' = closed /\ completed' = completed
  BY HandedKeeps DEF s_chunk_data_almost_done
<1>3. Step(View, data[p]) = To(View, "s_chunk_data_done")
  BY <1>1, ViewIs DEF Step
<1>4. View' = To(View, "s_chunk_data_done")
  BY <1>0, <1>1, <1>2, ViewTo
<1> QED
  BY <1>1, <1>3, <1>4, AdvancedIs

\* A part of the buffer whose symbols are all of one kind.
LEMMA PieceIn ==
    ASSUME NEW T, NEW d \in Seq(Symbols), NEW q \in 1..Len(d) + 1, NEW e \in q - 1..Len(d),
           \A i \in q..e : d[i] \in T
    PROVE  Piece(d, q, e) \in Seq(T)
<1> DEFINE u == Piece(d, q, e)
           n == e - q + 1
<1>1. Len(d) \in Nat /\ q \in Nat /\ e \in Int /\ n \in Nat
  OBVIOUS
<1>2. u \in Seq(Symbols) /\ Len(u) = n /\ \A j \in 1..n : u[j] = d[q + j - 1]
  BY PieceIs
<1>3. ASSUME NEW j \in 1..n PROVE u[j] \in T
  <2>1. PICK i : i = q + j - 1
    OBVIOUS
  <2>2. i \in q..e
    BY <1>1, <2>1
  <2> QED
    BY <1>2, <2>1, <2>2
<1> HIDE DEF u, n
<1>4. u \in [1..n -> T]
  <2>1. u = [j \in 1..n |-> u[j]]
    BY <1>2
  <2> QED
    BY <1>3, <2>1
<1>5. u \in Seq(T)
  BY <1>1, <1>4
<1> QED
  BY <1>5 DEF u

\* The name and the line of a value up to the end of the buffer.
LEMMA AfterNameIs ==
    ASSUME Parsing
    PROVE  /\ AfterName = NameOf(header_state, Piece(data, p, NameEnd - 1))
           /\ Piece(data, p, NameEnd - 1) \in Seq(Tokens)
<1> DEFINE d == data
           q == p
           e == NameEnd - 1
           h == header_state
           IsIt(g) == g = [k \in q - 1..e |-> IF k = q - 1 THEN h ELSE NameNext(g[k - 1], d[k])]
<1>1. d \in Seq(Symbols) /\ q \in 1..Len(d) /\ Len(d) \in Nat /\ h \in AllHeaderStates
  BY ParsingIs DEF Parsing, Feeds
<1>2. NameEnd \in q..Len(d) + 1 /\ \A i \in q..NameEnd - 1 : d[i] \in Tokens
  <2>1. data \in Seq(STRING)
    BY DEF Parsing, Inv, Types
  <2> QED
    BY <1>1, <2>1, EndWithin DEF NameEnd
<1>3. e \in q - 1..Len(d) /\ \A i \in q..e : d[i] \in Tokens
  BY <1>1, <1>2
<1>4. AfterName = (CHOOSE g : IsIt(g))[e]
  BY DEF AfterName
<1> HIDE DEF d, q, e, h
<1>5. \E g : IsIt(g)
  <2> DEFINE g == [k \in q - 1..e |-> NameOf(h, Piece(d, q, k))]
  <2>1. ASSUME NEW k \in q - 1..e
        PROVE  NameOf(h, Piece(d, q, k)) = IF k = q - 1 THEN h ELSE NameNext(g[k - 1], d[k])
    <3>1. CASE k = q - 1
      <4>1. Piece(d, q, q - 1) = <<>>
        BY <1>1, PieceEmpty
      <4>2. NameOf(h, <<>>) = h
        BY FoldEmpty DEF NameOf
      <4> QED
        BY <3>1, <4>1, <4>2
    <3>2. CASE k # q - 1
      <4>1. k \in q..Len(d) /\ k - 1 \in q - 1..e /\ k - 1 \in q - 1..Len(d) /\ k \in q..e /\ q \in 1..Len(d) + 1
        BY <1>1, <1>3, <3>2
      <4>2. g[k - 1] = NameOf(h, Piece(d, q, k - 1))
        BY <4>1
      <4>3. Piece(d, q, k - 1) \in Seq(Tokens)
        <5>1. \A i \in q..k - 1 : d[i] \in Tokens
          BY <1>1, <1>3, <4>1
        <5> QED
          BY <1>1, <4>1, <5>1, PieceIn
      <4>4. Piece(d, q, k) = Append(Piece(d, q, k - 1), d[k])
        BY <1>1, <4>1, PieceNext
      <4>5. d[k] \in Tokens
        BY <1>3, <4>1
      <4>6. NameOf(h, Append(Piece(d, q, k - 1), d[k])) = NameNext(NameOf(h, Piece(d, q, k - 1)), d[k])
        BY <1>1, <4>3, <4>5, NameAppend
      <4> QED
        BY <3>2, <4>2, <4>4, <4>6
    <3> QED
      BY <3>1, <3>2
  <2>2. g = [k \in q - 1..e |-> IF k = q - 1 THEN h ELSE NameNext(g[k - 1], d[k])]
    <3> DEFINE f == g
    <3>1. \A k \in q - 1..e : f[k] = IF k = q - 1 THEN h ELSE NameNext(f[k - 1], d[k])
      BY <2>1
    <3>2. f = [k \in q - 1..e |-> f[k]]
      OBVIOUS
    <3> HIDE DEF f
    <3>3. f = [k \in q - 1..e |-> IF k = q - 1 THEN h ELSE NameNext(f[k - 1], d[k])]
      BY <3>1, <3>2
    <3> QED
      BY <3>3 DEF f
  <2> QED
    BY <2>2
<1> DEFINE x == CHOOSE g : IsIt(g)
<1>6. IsIt(x)
  <2> HIDE DEF IsIt
  <2> QED
    BY <1>5
<1> HIDE DEF x
<1>7. x[e] = NameOf(h, Piece(d, q, e)) /\ Piece(d, q, e) \in Seq(Tokens)
  BY <1>1, <1>3, <1>6, NameIs
<1> QED
  BY <1>4, <1>7 DEF d, q, e, h, x

LEMMA AfterValueIs ==
    ASSUME Parsing
    PROVE  /\ AfterValue = ValueAfter(ValueOf(View), Piece(data, p, LineEnd - 1))
           /\ Piece(data, p, LineEnd - 1) \in Seq(ValueSymbols)
<1> DEFINE d == data
           q == p
           e == LineEnd - 1
           v == [h |-> header_state, flags |-> flags, length |-> content_length, ok |-> TRUE]
           IsIt(g) == g = [k \in q - 1..e |-> IF k = q - 1 THEN v ELSE ValueNext(g[k - 1], d[k])]
<1>0. v = ValueOf(View) /\ v \in Values
  <2>1. v = ValueOf(View)
    BY ViewIs DEF ValueOf
  <2> QED
    BY <2>1, ParsingIs, ValueOfType
<1>1. d \in Seq(Symbols) /\ q \in 1..Len(d) /\ Len(d) \in Nat
  BY ParsingIs
<1>2. LineEnd \in q..Len(d) + 1 /\ \A i \in q..LineEnd - 1 : d[i] \in ValueSymbols
  <2>1. data \in Seq(STRING)
    BY DEF Parsing, Inv, Types
  <2> QED
    BY <1>1, <2>1, EndWithin DEF LineEnd
<1>3. e \in q - 1..Len(d) /\ \A i \in q..e : d[i] \in ValueSymbols
  BY <1>1, <1>2
<1>4. AfterValue = (CHOOSE g : IsIt(g))[e]
  BY DEF AfterValue
<1> HIDE DEF d, q, e, v
<1>5. \E g : IsIt(g)
  <2> DEFINE g == [k \in q - 1..e |-> ValueAfter(v, Piece(d, q, k))]
  <2>1. ASSUME NEW k \in q - 1..e
        PROVE  ValueAfter(v, Piece(d, q, k)) = IF k = q - 1 THEN v ELSE ValueNext(g[k - 1], d[k])
    <3>1. CASE k = q - 1
      <4>1. Piece(d, q, q - 1) = <<>>
        BY <1>1, PieceEmpty
      <4>2. ValueAfter(v, <<>>) = v
        BY FoldEmpty DEF ValueAfter
      <4> QED
        BY <3>1, <4>1, <4>2
    <3>2. CASE k # q - 1
      <4>1. k \in q..Len(d) /\ k - 1 \in q - 1..e /\ k - 1 \in q - 1..Len(d) /\ k \in q..e /\ q \in 1..Len(d) + 1
        BY <1>1, <1>3, <3>2
      <4>2. g[k - 1] = ValueAfter(v, Piece(d, q, k - 1))
        BY <4>1
      <4>3. Piece(d, q, k - 1) \in Seq(ValueSymbols)
        <5>1. \A i \in q..k - 1 : d[i] \in ValueSymbols
          BY <1>1, <1>3, <4>1
        <5> QED
          BY <1>1, <4>1, <5>1, PieceIn
      <4>4. Piece(d, q, k) = Append(Piece(d, q, k - 1), d[k])
        BY <1>1, <4>1, PieceNext
      <4>5. d[k] \in ValueSymbols
        BY <1>3, <4>1
      <4>6. ValueAfter(v, Append(Piece(d, q, k - 1), d[k])) = ValueNext(ValueAfter(v, Piece(d, q, k - 1)), d[k])
        BY <1>0, <4>3, <4>5, ValueAppend
      <4> QED
        BY <3>2, <4>2, <4>4, <4>6
    <3> QED
      BY <3>1, <3>2
  <2>2. g = [k \in q - 1..e |-> IF k = q - 1 THEN v ELSE ValueNext(g[k - 1], d[k])]
    <3> DEFINE f == g
    <3>1. \A k \in q - 1..e : f[k] = IF k = q - 1 THEN v ELSE ValueNext(f[k - 1], d[k])
      BY <2>1
    <3>2. f = [k \in q - 1..e |-> f[k]]
      OBVIOUS
    <3> HIDE DEF f
    <3>3. f = [k \in q - 1..e |-> IF k = q - 1 THEN v ELSE ValueNext(f[k - 1], d[k])]
      BY <3>1, <3>2
    <3> QED
      BY <3>3 DEF f
  <2> QED
    BY <2>2
<1> DEFINE x == CHOOSE g : IsIt(g)
<1>6. IsIt(x)
  <2> HIDE DEF IsIt
  <2> QED
    BY <1>5
<1> HIDE DEF x
<1>7. x[e] = ValueAfter(v, Piece(d, q, e)) /\ Piece(d, q, e) \in Seq(ValueSymbols)
  BY <1>0, <1>1, <1>3, <1>6, ValueIs
<1>8. AfterValue = ValueAfter(v, Piece(d, q, e))
  BY <1>4, <1>7 DEF x
<1>9. AfterValue = ValueAfter(ValueOf(View), Piece(d, q, e))
  BY <1>0, <1>8
<1> QED
  BY <1>7, <1>9 DEF d, q, e

\* What the machine makes of the buffer up to a symbol, and of the symbol.
LEMMA RunTo ==
    ASSUME Parsing, NEW e \in p..Len(data)
    PROVE  /\ After(View, Piece(data, p, e)) = Run(wire, before + e)
           /\ Run(wire, before + e) = Step(After(View, Piece(data, p, e - 1)), data[e])
           /\ After(View, Piece(data, p, e - 1)) \in Machines /\ e - p + 1 \in Nat \ {0}
           /\ Piece(data, p, e - 1) \in Seq(Symbols) /\ Len(Piece(data, p, e - 1)) = e - p
           /\ Piece(data, p, e) \in Seq(Symbols) /\ Len(Piece(data, p, e)) = e - p + 1
           /\ data[e] \in Symbols
<1>1. /\ p \in 1..Len(data) /\ Len(data) \in Nat /\ View \in Machines /\ Holds(wire, data, before)
      /\ data \in Seq(Symbols) /\ Step(View, data[p]) = Run(wire, before + p)
  BY ParsingIs
<1>2. p \in 1..Len(data) + 1 /\ e - 1 \in p - 1..Len(data) /\ e \in p - 1..Len(data) /\ e \in 1..Len(data)
      /\ e - 1 - p + 1 = e - p /\ e - p + 1 \in Nat \ {0}
  BY <1>1
<1>3. /\ Piece(data, p, e - 1) \in Seq(Symbols) /\ Len(Piece(data, p, e - 1)) = e - p
      /\ Piece(data, p, e) \in Seq(Symbols) /\ Len(Piece(data, p, e)) = e - p + 1
  BY <1>1, <1>2, PieceIs, ZenonT(40)
<1>4. After(View, Piece(data, p, e)) = Run(wire, before + e)
  BY <1>1, PieceRun
<1>5. Piece(data, p, e) = Append(Piece(data, p, e - 1), data[e])
  BY <1>1, PieceNext
<1>6. data[e] \in Symbols
  BY <1>1, <1>2
<1>7. /\ After(View, Piece(data, p, e)) = Step(After(View, Piece(data, p, e - 1)), data[e])
      /\ After(View, Piece(data, p, e - 1)) \in Machines
  BY <1>1, <1>3, <1>5, <1>6, AfterAppend, AfterType
<1> QED
  BY <1>2, <1>3, <1>4, <1>6, <1>7

\* It is about to look at a symbol further on.
LEMMA LooksAhead ==
    ASSUME Parsing, SameBuffer, NEW e \in p..Len(data), p' = e, completed' = completed, closed' = closed,
           NEW a, a = After(View, Piece(data, p, e - 1)),
           a.done = View.done, a.closed = View.closed, ~a.failed,
           Step(View', data[e]) = Step(a, data[e])
    PROVE  Synced'
<1>1. /\ p \in 1..Len(data) /\ Len(data) \in Nat /\ View \in Machines /\ Holds(wire, data, before)
      /\ Step(View, data[p]) = Run(wire, before + p)
  BY ParsingIs
<1>2. wire' = wire /\ before' = before /\ data' = data /\ before \in Nat
  BY <1>1 DEF SameBuffer, wire, before, Holds
<1>3. Step(View', data[e]) = Run(wire, before + e)
  BY RunTo
<1>4. LET m == Run(wire, before + e - 1)
      IN  m.done = Len(completed) /\ m.closed = closed /\ ~m.failed
  <2>1. CASE e = p
    BY <2>1 DEF Parsing, Synced
  <2>2. CASE e # p
    <3>1. e - 1 \in p..Len(data) /\ before + e - 1 = before + (e - 1)
      BY <1>1, <1>2, <2>2
    <3>2. a = Run(wire, before + (e - 1))
      BY <3>1, RunTo
    <3> QED
      BY <3>1, <3>2, ViewIs
  <2> QED
    BY <2>1, <2>2
<1> QED
  BY <1>2, <1>3, <1>4 DEF Synced

\* The cases that take many symbols at once.
LEMMA Case_s_header_field ==
    ASSUME Parsing, SameBuffer, s_header_field PROVE Synced'
<1> DEFINE e == NameEnd - 1
           s == Piece(data, p, e)
           h == NameOf(header_state, s)
<1>0. View \in Machines /\ Inv /\ Feeds /\ p \in 1..Len(data) /\ Len(data) \in Nat
  BY ParsingIs DEF Parsing
<1>1. /\ state = "s_header_field" /\ header_state' = h /\ s \in Seq(Tokens)
      /\ flags' = flags /\ content_length' = content_length /\ start' = start
  BY AfterNameIs DEF s_header_field, In
<1>2. closed' = closed /\ completed' = completed
  BY HandedKeeps DEF s_header_field, NoCallback
<1>3. NameEnd \in p..Len(data) + 1
  <2>1. data \in Seq(STRING)
    BY <1>0 DEF Inv, Types
  <2> QED
    BY <1>0, <2>1, EndWithin DEF NameEnd
<1>4. After(View, s) = [View EXCEPT !.h = h]
  <2>1. ~View.failed /\ View.state = "s_header_field" /\ View.h = header_state
    BY <1>1, ViewIs
  <2> QED
    BY <1>0, <1>1, <2>1, NameRun
<1>5. View' = [View EXCEPT !.state = state', !.h = header_state', !.flags = flags',
                                !.length = content_length', !.start = start']
  BY <1>0, <1>2, NextView
<1> HIDE DEF h
<1>6. CASE NameEnd > Len(data)
  <2>1. p' = NameEnd /\ state' = state /\ NameEnd = Len(data) + 1 /\ e = Len(data)
    BY <1>0, <1>3, <1>6 DEF s_header_field
  <2>2. View' = [View EXCEPT !.h = h]
    BY <1>0, <1>1, <1>5, <2>1, ViewIs DEF Machines
  <2>3. Len(data) \in p..Len(data)
    BY <1>0
  <2>4. After(View, s) = Run(wire, before + Len(data))
    BY <2>1, <2>3, RunTo
  <2> QED
    BY <1>4, <2>1, <2>2, <2>3, <2>4, Moved
<1>7. CASE NameEnd <= Len(data)
  <2> DEFINE q == NameEnd
             a == After(View, s)
  <2>1. q \in p..Len(data) /\ p' = q + 1 /\ data[q] = ":" /\ state' = "s_header_value_discard_ws"
    BY <1>0, <1>3, <1>7 DEF s_header_field
  <2>2. Run(wire, before + q) = Step(a, data[q]) /\ a \in Machines
    BY <2>1, RunTo
  <2> HIDE DEF a
  <2>3. a = [View EXCEPT !.h = h]
    BY <1>4 DEF a
  <2>4. ~a.failed /\ a.state = "s_header_field"
    BY <1>0, <1>1, <2>3, ViewIs DEF Machines
  <2>5. Step(a, data[q]) = To(a, "s_header_value_discard_ws")
    <3>1. data[q] \notin Tokens
      BY <2>1, Distinct
    <3> QED
      BY <2>1, <2>4, <3>1 DEF Step, OnField
  <2>6. To(a, "s_header_value_discard_ws") = [View EXCEPT !.state = "s_header_value_discard_ws", !.h = h]
    BY <1>0, <2>2, <2>3 DEF To, Machines
  <2>7. View' = [View EXCEPT !.state = "s_header_value_discard_ws", !.h = h]
    BY <1>0, <1>1, <1>5, <2>1, ViewIs DEF Machines
  <2> HIDE DEF q
  <2> QED
    BY <2>1, <2>2, <2>5, <2>6, <2>7, Moved
<1> QED
  BY <1>0, <1>3, <1>6, <1>7

LEMMA Case_s_header_value ==
    ASSUME Parsing, SameBuffer, s_header_value PROVE Synced'
<1> DEFINE e == LineEnd - 1
           s == Piece(data, p, e)
           v == AfterValue
           a == After(View, s)
<1>0. View \in Machines /\ Inv /\ Feeds /\ p \in 1..Len(data) /\ Len(data) \in Nat
  BY ParsingIs DEF Parsing
<1>1. /\ state = "s_header_value" /\ v.ok /\ header_state' = v.h /\ flags' = v.flags
      /\ content_length' = v.length /\ start' = start
  BY DEF s_header_value, In
<1>2. closed' = closed /\ completed' = completed
  BY HandedKeeps DEF s_header_value, NoCallback
<1>3. LineEnd \in p..Len(data) + 1 /\ (LineEnd = Len(data) + 1 \/ data[LineEnd] \notin ValueSymbols)
  <2>1. data \in Seq(STRING)
    BY <1>0 DEF Inv, Types
  <2> QED
    BY <1>0, <2>1, EndWithin DEF LineEnd
<1>4. a = WithValue(View, v) /\ a \in Machines
  <2>1. ~View.failed /\ View.state = "s_header_value"
    BY <1>1, ViewIs
  <2>2. v = ValueAfter(ValueOf(View), s) /\ s \in Seq(ValueSymbols)
    BY AfterValueIs
  <2>3. a = WithValue(View, v)
    BY <1>0, <1>1, <2>1, <2>2, ValueRun
  <2>4. s \in Seq(Symbols)
    BY <2>2, TokenSeq
  <2>5. a \in Machines
    BY <1>0, <2>4, AfterType
  <2> QED
    BY <2>3, <2>5
<1>5. View' = [View EXCEPT !.state = state', !.h = header_state', !.flags = flags',
                                !.length = content_length', !.start = start']
  BY <1>0, <1>2, NextView
<1> HIDE DEF v, a
<1>6. a = [View EXCEPT !.h = v.h, !.flags = v.flags, !.length = v.length]
  BY <1>1, <1>4 DEF WithValue
<1>7. ~a.failed /\ a.state = "s_header_value" /\ a.done = View.done /\ a.closed = View.closed
  BY <1>0, <1>1, <1>6, ViewIs DEF Machines
<1>8. View' = [a EXCEPT !.state = state']
  <2>1. View' = [View EXCEPT !.state = state', !.h = v.h, !.flags = v.flags, !.length = v.length]
    BY <1>0, <1>1, <1>5, ViewIs DEF Machines
  <2> QED
    BY <1>0, <1>6, <2>1 DEF Machines
<1>9. CASE LineEnd > Len(data)
  <2>1. p' = LineEnd /\ state' = state /\ LineEnd = Len(data) + 1 /\ e = Len(data)
    BY <1>0, <1>3, <1>9 DEF s_header_value
  <2>2. View' = a
    BY <1>1, <1>4, <1>7, <1>8, <2>1 DEF Machines
  <2>3. Len(data) \in p..Len(data)
    BY <1>0
  <2>4. a = Run(wire, before + Len(data))
    BY <2>1, <2>3, RunTo DEF a
  <2> QED
    BY <2>1, <2>2, <2>3, <2>4, Moved
<1>10. CASE LineEnd <= Len(data)
  <2> DEFINE q == LineEnd
  <2>1. q \in p..Len(data) /\ state' = "s_header_almost_done" /\ data[q] \notin ValueSymbols
        /\ p' = IF data[q] = CR THEN q + 1 ELSE q
    <3>1. LineEnd \in p..Len(data) /\ data[LineEnd] \notin ValueSymbols
      BY <1>0, <1>3, <1>10
    <3>2. state' = "s_header_almost_done" /\ p' = AfterLine
      BY <1>0, <1>3, <1>10 DEF s_header_value
    <3> QED
      BY <3>1, <3>2 DEF AfterLine
  <2>2. Run(wire, before + q) = Step(a, data[q])
    BY <2>1, RunTo DEF a
  <2>3. Step(a, data[q]) = OnValue(a, data[q])
    BY <1>7 DEF Step
  <2>4. View' = To(a, "s_header_almost_done")
    BY <1>8, <2>1 DEF To
  <2> HIDE DEF q
  <2>5. CASE data[q] = CR
    <3>1. Step(a, data[q]) = To(a, "s_header_almost_done") /\ p' = q + 1
      BY <2>1, <2>3, <2>5 DEF OnValue
    <3> QED
      BY <2>1, <2>2, <2>4, <3>1, Moved
  <2>6. CASE data[q] # CR
    <3>1. Step(a, data[q]) = OnLF(a, data[q], "s_header_value_lws") /\ p' = q
      BY <2>1, <2>3, <2>6 DEF OnValue
    <3>2. View'.state = "s_header_almost_done" /\ ~View'.failed
      BY <1>4, <1>7, <2>4 DEF To, Machines
    <3>3. Step(View', data[q]) = OnLF(View', data[q], "s_header_value_lws")
      BY <3>2 DEF Step
    <3>4. To(View', "s_header_value_lws") = To(a, "s_header_value_lws") /\ Broken(View') = Broken(a)
      BY <1>4, <2>4 DEF To, Broken, Machines
    <3>5. Step(View', data[q]) = Step(a, data[q])
      BY <3>1, <3>3, <3>4 DEF OnLF
    <3>6. a = After(View, Piece(data, p, q - 1))
      BY DEF a, q
    <3> QED
      BY <1>2, <1>7, <2>1, <3>1, <3>5, <3>6, LooksAhead
  <2> QED
    BY <2>5, <2>6
<1> QED
  BY <1>0, <1>3, <1>9, <1>10

\* The state in which a message ends does not matter.
LEMMA CompleteAnywhere ==
    ASSUME NEW m \in Machines, NEW s \in ParserStates
    PROVE  Complete(To(m, s)) = Complete(m)
<1> DEFINE x == To(m, s)
           n == m.done + 1
<1>1. x = [m EXCEPT !.state = s] /\ x \in Machines
  BY ToType DEF To
<1> HIDE DEF x
<1>2. x.h = m.h /\ x.flags = m.flags /\ x.length = m.length /\ x.start = m.start /\ x.done = m.done
      /\ x.closed = m.closed /\ x.failed = m.failed
  BY <1>1 DEF Machines
<1>3. NeedsEofIn(x) <=> NeedsEofIn(m)
  BY <1>2 DEF NeedsEofIn
<1>4. KeptAlive(x) <=> KeptAlive(m)
  BY <1>2, <1>3 DEF KeptAlive
<1>5. CASE KeptAlive(m)
  <2>1. Complete(x) = [x EXCEPT !.state = "s_start_res", !.h = "h_general", !.flags = {}, !.length = 0,
                 !.start = NoStart, !.done = n]
    BY <1>2, <1>4, <1>5 DEF Complete
  <2>2. Complete(m) = [m EXCEPT !.state = "s_start_res", !.h = "h_general", !.flags = {}, !.length = 0,
                 !.start = NoStart, !.done = n]
    BY <1>5 DEF Complete
  <2> HIDE DEF n, NoStart
  <2>3. [x EXCEPT !.state = "s_start_res", !.h = "h_general", !.flags = {}, !.length = 0,
                 !.start = NoStart, !.done = n] =
        [m EXCEPT !.state = "s_start_res", !.h = "h_general", !.flags = {}, !.length = 0,
                 !.start = NoStart, !.done = n]
    BY <1>1 DEF Machines
  <2> QED
    BY <2>1, <2>2, <2>3 DEF x
<1>6. CASE ~KeptAlive(m)
  <2>1. Complete(x) = [x EXCEPT !.state = "s_dead", !.closed = TRUE, !.done = n]
    BY <1>2, <1>4, <1>6 DEF Complete
  <2>2. Complete(m) = [m EXCEPT !.state = "s_dead", !.closed = TRUE, !.done = n]
    BY <1>6 DEF Complete
  <2> HIDE DEF n
  <2>3. [x EXCEPT !.state = "s_dead", !.closed = TRUE, !.done = n] = [m EXCEPT !.state = "s_dead", !.closed = TRUE, !.done = n]
    BY <1>1 DEF Machines
  <2> QED
    BY <2>1, <2>2, <2>3 DEF x
<1> QED
  BY <1>5, <1>6

\* How much of a body or chunk is taken from the buffer.
LEMMA ToReadIs ==
    ASSUME p \in 1..Len(data), Len(data) \in Nat, content_length \in Nat \ {0}
    PROVE  /\ ToRead \in 1..content_length /\ ToRead \in Nat \ {0} /\ p + ToRead - 1 \in p..Len(data)
           /\ ToRead # content_length => p + ToRead - 1 = Len(data) /\ ToRead < content_length
           /\ p + ToRead - 1 - p + 1 = ToRead /\ p + ToRead - 1 - p = ToRead - 1 /\ p + ToRead = p + ToRead - 1 + 1
BY DEF ToRead, SmallerOf

LEMMA Case_s_body_identity ==
    ASSUME Parsing, SameBuffer, s_body_identity PROVE Synced'
<1> DEFINE n == ToRead
           e == p + n - 1
           l == content_length
<1>0. View \in Machines /\ Inv /\ Feeds /\ p \in 1..Len(data) /\ Len(data) \in Nat
  BY ParsingIs DEF Parsing
<1>1. /\ state = "s_body_identity" /\ header_state' = header_state /\ flags' = flags /\ start' = start
      /\ content_length' = l - n
  BY DEF s_body_identity, In
<1>2. closed' = closed /\ completed' = completed
  BY HandedKeeps DEF s_body_identity, NoCallback
<1>3. l \in Nat \ {0}
  BY <1>0, <1>1, NumbersAssumption DEF Inv, LengthInv
<1>4. /\ n \in 1..l /\ n \in Nat \ {0} /\ e \in p..Len(data) /\ (n # l => e = Len(data) /\ n < l)
      /\ e - p + 1 = n /\ e - p = n - 1 /\ p + n = e + 1
  BY <1>0, <1>3, ToReadIs
<1>5. View' = [View EXCEPT !.state = state', !.h = header_state', !.flags = flags',
                                !.length = content_length', !.start = start']
  BY <1>0, <1>2, NextView
<1>6. View.state = "s_body_identity" /\ ~View.failed /\ View.length = l
  BY <1>1, ViewIs
<1> HIDE DEF e
<1>7. /\ After(View, Piece(data, p, e)) = Run(wire, before + e)
      /\ Piece(data, p, e - 1) \in Seq(Symbols) /\ Len(Piece(data, p, e - 1)) = n - 1
      /\ Piece(data, p, e) \in Seq(Symbols) /\ Len(Piece(data, p, e)) = n
      /\ After(View, Piece(data, p, e - 1)) \in Machines
  BY <1>4, RunTo
<1>8. CASE n = l
  <2> DEFINE a == After(View, Piece(data, p, e - 1))
             z == [a EXCEPT !.length = 0]
  <2>1. state' = "s_message_done" /\ p' = e /\ content_length' = 0
    BY <1>1, <1>3, <1>8 DEF s_body_identity, e
  <2>2. a = [View EXCEPT !.length = 1]
    <3>1. n - 1 < l /\ l - (n - 1) = 1
      BY <1>3, <1>8
    <3>2. a = [View EXCEPT !.length = View.length - (n - 1)]
      BY <1>0, <1>6, <1>7, <3>1, BodyRun
    <3> QED
      BY <1>6, <3>1, <3>2
  <2>3. a \in Machines
    BY <1>7
  <2> HIDE DEF a
  <2>4. a.state = "s_body_identity" /\ ~a.failed /\ a.length = 1 /\ a.done = View.done /\ a.closed = View.closed
    BY <1>0, <1>6, <2>2 DEF Machines
  <2>5. Step(a, data[e]) = Complete(z)
    BY <2>4 DEF Step, OnBody
  <2>6. z \in Machines /\ "s_message_done" \in ParserStates
    BY <2>3 DEF Machines, ParserStates
  <2>7. View' = To(z, "s_message_done")
    <3>1. View' = [View EXCEPT !.state = "s_message_done", !.length = 0]
      BY <1>0, <1>1, <1>5, <2>1, ViewIs DEF Machines
    <3> QED
      BY <1>0, <2>2, <3>1 DEF To, Machines
  <2> HIDE DEF z
  <2>8. View'.state = "s_message_done" /\ ~View'.failed
    <3>1. View'.state = "s_message_done"
      BY <2>6, <2>7 DEF To, Machines
    <3> QED
      BY <3>1 DEF View
  <2>9. Step(View', data[e]) = Complete(View')
    BY <2>8 DEF Step
  <2>10. Step(View', data[e]) = Step(a, data[e])
    BY <2>5, <2>6, <2>7, <2>9, CompleteAnywhere
  <2>11. a = After(View, Piece(data, p, e - 1))
    BY DEF a
  <2> QED
    BY <1>2, <1>4, <2>1, <2>4, <2>10, <2>11, LooksAhead
<1>9. CASE n # l
  <2>1. state' = state /\ p' = e + 1
    BY <1>4, <1>9 DEF s_body_identity
  <2>2. After(View, Piece(data, p, e)) = [View EXCEPT !.length = l - n]
    BY <1>0, <1>4, <1>6, <1>7, <1>9, BodyRun, SMTT(30)
  <2> DEFINE k == l - n
  <2>3. content_length' = k /\ After(View, Piece(data, p, e)) = [View EXCEPT !.length = k]
    BY <1>1, <2>2
  <2> HIDE DEF k
  <2>4. View' = [View EXCEPT !.length = k]
    BY <1>0, <1>1, <1>5, <2>1, <2>3, ViewIs DEF Machines
  <2> QED
    BY <1>4, <1>7, <2>1, <2>3, <2>4, Moved
<1> QED
  BY <1>8, <1>9

LEMMA Case_s_chunk_data ==
    ASSUME Parsing, SameBuffer, s_chunk_data PROVE Synced'
<1> DEFINE n == ToRead
           e == p + n - 1
           l == content_length
           k == l - n
<1>0. View \in Machines /\ Inv /\ Feeds /\ p \in 1..Len(data) /\ Len(data) \in Nat
  BY ParsingIs DEF Parsing
<1>1. /\ state = "s_chunk_data" /\ header_state' = header_state /\ flags' = flags /\ start' = start
      /\ content_length' = k /\ state' = (IF n = l THEN "s_chunk_data_almost_done" ELSE state)
      /\ p' = p + n
  BY DEF s_chunk_data, In
<1>2. closed' = closed /\ completed' = completed
  BY DEF s_chunk_data, NoCallback
<1>3. l \in Nat \ {0}
  BY <1>0, <1>1, NumbersAssumption DEF Inv, LengthInv
<1>4. /\ n \in 1..l /\ n \in Nat \ {0} /\ e \in p..Len(data) /\ (n # l => e = Len(data) /\ n < l)
      /\ e - p + 1 = n /\ e - p = n - 1 /\ p + n = e + 1
  BY <1>0, <1>3, ToReadIs
<1>5. View' = [View EXCEPT !.state = state', !.h = header_state', !.flags = flags',
                                !.length = content_length', !.start = start']
  BY <1>0, <1>2, NextView
<1>6. View.state = "s_chunk_data" /\ ~View.failed /\ View.length = l
  BY <1>1, ViewIs
<1> HIDE DEF e
<1>7. /\ After(View, Piece(data, p, e)) = Run(wire, before + e)
      /\ Piece(data, p, e) \in Seq(Symbols) /\ Len(Piece(data, p, e)) = n
  BY <1>4, RunTo
<1>8. CASE n = l
  <2>1. state' = "s_chunk_data_almost_done" /\ k = 0
    BY <1>1, <1>3, <1>8
  <2>2. Piece(data, p, e) # <<>>
    BY <1>4, <1>7
  <2>3. After(View, Piece(data, p, e)) = [View EXCEPT !.state = "s_chunk_data_almost_done", !.length = 0]
    BY <1>0, <1>6, <1>7, <1>8, <2>2, ChunkEnd
  <2> HIDE DEF k
  <2>4. View' = [View EXCEPT !.state = "s_chunk_data_almost_done", !.length = 0]
    BY <1>0, <1>1, <1>5, <2>1, ViewIs DEF Machines
  <2> QED
    BY <1>1, <1>4, <1>7, <2>3, <2>4, Moved
<1>9. CASE n # l
  <2>1. state' = state
    BY <1>1, <1>9
  <2>2. After(View, Piece(data, p, e)) = [View EXCEPT !.length = k]
    BY <1>0, <1>4, <1>6, <1>7, <1>9, ChunkRun, SMTT(30)
  <2> HIDE DEF k
  <2>3. View' = [View EXCEPT !.length = k]
    BY <1>0, <1>1, <1>5, <2>1, ViewIs DEF Machines
  <2> QED
    BY <1>1, <1>4, <1>7, <2>2, <2>3, Moved
<1> QED
  BY <1>8, <1>9

LEMMA Case_s_body_identity_eof ==
    ASSUME Parsing, SameBuffer, s_body_identity_eof PROVE Synced'
<1>0. View \in Machines /\ Inv /\ Feeds /\ p \in 1..Len(data) /\ Len(data) \in Nat
  BY ParsingIs DEF Parsing
<1>1. /\ state = "s_body_identity_eof" /\ state' = state /\ header_state' = header_state /\ flags' = flags /\ start' = start
      /\ content_length' = content_length /\ closed' = closed /\ completed' = completed /\ p' = Len(data) + 1
  BY DEF s_body_identity_eof, In, parser, NoCallback
<1>2. View' = View
  BY <1>1 DEF View
<1>3. Len(data) \in p..Len(data)
  BY <1>0
<1>4. After(View, Piece(data, p, Len(data))) = Run(wire, before + Len(data)) /\ Piece(data, p, Len(data)) \in Seq(Symbols)
  BY <1>3, RunTo
<1>5. After(View, Piece(data, p, Len(data))) = View
  BY <1>0, <1>1, <1>4, ViewIs, EofRun
<1> QED
  BY <1>1, <1>2, <1>3, <1>4, <1>5, Moved

\* Responses that are complete are a sequence.
LEMMA CompletedSeq ==
    ASSUME Feeds, NEW s, message_complete(s)
    PROVE  /\ \E T : completed' \in Seq(T)
           /\ Len(completed') = Len(completed) + 1 /\ Len(completed) \in Nat
           /\ state' \in {"s_start_res", s} /\ header_state' \in AllHeaderStates
           /\ closed' = (IF ShouldKeepAlive THEN closed ELSE TRUE) /\ (~ShouldKeepAlive => state' = s)
<1>1. PICK T : completed \in Seq(T)
  BY DEF Feeds
<1>2. PICK r : completed' = Append(completed, r)
  BY DEF message_complete
<1>3. completed \in Seq(T \cup {r})
  BY <1>1
<1>4. completed' \in Seq(T \cup {r}) /\ Len(completed') = Len(completed) + 1 /\ Len(completed) \in Nat
  BY <1>2, <1>3
<1>5. /\ state' \in {"s_start_res", s} /\ header_state' \in AllHeaderStates
      /\ closed' = (IF ShouldKeepAlive THEN closed ELSE TRUE) /\ (~ShouldKeepAlive => state' = s)
  <2>1. CASE ShouldKeepAlive
    BY <2>1 DEF message_complete, InitParser, AllHeaderStates, HeaderStates
  <2>2. CASE ~ShouldKeepAlive
    BY <2>2 DEF message_complete, Feeds
  <2> QED
    BY <2>1, <2>2
<1> QED
  BY <1>4, <1>5

Placed == state' \in ParserStates /\ header_state' \in AllHeaderStates /\ \E T : completed' \in Seq(T)

\* Where the text of a response is placed does not matter to the machine.
LEMMA CompletedPlaced ==
    ASSUME Feeds, NEW s \in ParserStates, message_complete(s) PROVE Placed
<1>1. "s_start_res" \in ParserStates
  BY DEF ParserStates
<1> QED
  BY <1>1, CompletedSeq DEF Placed

LEMMA KeptPlaced ==
    ASSUME Feeds, state' \in ParserStates, header_state' \in AllHeaderStates, completed' = completed PROVE Placed
BY DEF Feeds, Placed

LEMMA AfterValueH ==
    ASSUME Parsing PROVE AfterValue.h \in AllHeaderStates
<1>1. AfterValue = ValueAfter(ValueOf(View), Piece(data, p, LineEnd - 1)) /\ Piece(data, p, LineEnd - 1) \in Seq(ValueSymbols)
  BY AfterValueIs
<1>2. ValueOf(View) \in Values
  BY ParsingIs, ValueOfType
<1>3. AfterValue \in Values
  BY <1>1, <1>2, ValueAfterType
<1> QED
  BY <1>3 DEF Values

LEMMA CasePlaced ==
    ASSUME Parsing, Case PROVE Placed
<1>0. Feeds /\ state \in ParserStates /\ header_state \in AllHeaderStates /\ "s_dead" \in ParserStates
  BY DEF Parsing, Feeds, ParserStates
<1>1. CASE s_start_res
  BY <1>0, <1>1, KeptPlaced DEF s_start_res, Advance, NoCallback, ParserStates
<1>2. CASE s_res_status
  BY <1>0, <1>2, KeptPlaced DEF s_res_status, Advance, NoCallback, ParserStates
<1>3. CASE s_res_line_almost_done
  BY <1>0, <1>3, KeptPlaced DEF s_res_line_almost_done, Advance, NoCallback, ParserStates
<1>4. CASE s_header_field_start
  <2>1. header_state' \in AllHeaderStates
    BY <1>0, <1>4 DEF s_header_field_start, NameStart, AllHeaderStates, HeaderStates
  <2> QED
    BY <1>0, <1>4, <2>1, KeptPlaced DEF s_header_field_start, Advance, Reexecute, NoCallback, ParserStates
<1>5. CASE s_header_field
  <2>1. header_state' \in AllHeaderStates
    BY <1>0, <1>5, AfterNameIs, NameType DEF s_header_field
  <2>2. completed' = completed
    BY <1>5, HandedKeeps DEF s_header_field, NoCallback
  <2>3. state' \in ParserStates
    BY <1>0, <1>5 DEF s_header_field, ParserStates
  <2> QED
    BY <1>0, <2>1, <2>2, <2>3, KeptPlaced
<1>6. CASE s_header_value_discard_ws
  BY <1>0, <1>6, KeptPlaced DEF s_header_value_discard_ws, Advance, NoCallback, ParserStates
<1>7. CASE s_header_value_start
  <2>1. header_state' \in AllHeaderStates
    BY <1>0, <1>7 DEF s_header_value_start, ValueStart, ConnectionToken, AllHeaderStates, HeaderStates
  <2> QED
    BY <1>0, <1>7, <2>1, KeptPlaced DEF s_header_value_start, Advance, NoCallback, ParserStates
<1>8. CASE s_header_value
  <2>1. header_state' \in AllHeaderStates
    BY <1>8, AfterValueH DEF s_header_value
  <2>2. completed' = completed
    BY <1>8, HandedKeeps DEF s_header_value, NoCallback
  <2>3. state' \in ParserStates
    BY <1>0, <1>8 DEF s_header_value, ParserStates
  <2> QED
    BY <1>0, <2>1, <2>2, <2>3, KeptPlaced
<1>9. CASE s_header_almost_done
  BY <1>0, <1>9, KeptPlaced DEF s_header_almost_done, Advance, NoCallback, ParserStates
<1>10. CASE s_header_value_lws
  BY <1>0, <1>10, KeptPlaced DEF s_header_value_lws, Reexecute, NoCallback, ParserStates
<1>11. CASE s_header_value_discard_ws_almost_done
  BY <1>0, <1>11, KeptPlaced DEF s_header_value_discard_ws_almost_done, Advance, NoCallback, ParserStates
<1>12. CASE s_header_value_discard_lws
  <2>1. completed' = completed /\ header_state' = header_state
    BY <1>12 DEF s_header_value_discard_lws, NoCallback, NoReport
  <2>2. state' \in ParserStates
    BY <1>12 DEF s_header_value_discard_lws, Advance, Reexecute, AfterEmptyValue, ParserStates
  <2> QED
    BY <1>0, <2>1, <2>2, KeptPlaced
<1>13. CASE s_headers_almost_done
  <2>1. CASE "TRAILING" \in flags
    <3>1. message_complete("s_dead")
      BY <1>13, <2>1 DEF s_headers_almost_done, NEW_MESSAGE
    <3> QED
      BY <1>0, <3>1, CompletedPlaced
  <2>2. CASE "TRAILING" \notin flags
    <3>1. state' = "s_headers_done" /\ completed' = completed /\ header_state' = header_state
      BY <1>13, <2>2 DEF s_headers_almost_done, Reexecute, NoCallback
    <3>2. "s_headers_done" \in ParserStates
      BY DEF ParserStates
    <3> QED
      BY <1>0, <3>1, <3>2, KeptPlaced
  <2> QED
    BY <2>1, <2>2
<1>14. CASE s_headers_done
  <2> DEFINE Ends == "CHUNKED" \notin flags /\ (content_length = 0 \/ (content_length = NoLength /\ ~NeedsEof))
  <2>1. CASE Ends
    <3>1. message_complete("s_dead")
      BY <1>14, <2>1 DEF s_headers_done, NEW_MESSAGE
    <3> QED
      BY <1>0, <3>1, CompletedPlaced
  <2>2. CASE ~Ends
    <3>1. /\ state' \in {"s_chunk_size_start", "s_body_identity_eof", "s_body_identity"}
          /\ completed' = completed /\ header_state' = header_state
      BY <1>14, <2>2 DEF s_headers_done, Advance, NoCallback
    <3>2. {"s_chunk_size_start", "s_body_identity_eof", "s_body_identity"} \subseteq ParserStates
      BY DEF ParserStates
    <3> QED
      BY <1>0, <3>1, <3>2, KeptPlaced
  <2> QED
    BY <2>1, <2>2
<1>15. CASE s_body_identity
  <2>1. completed' = completed /\ header_state' = header_state
    BY <1>15, HandedKeeps DEF s_body_identity, NoCallback
  <2>2. state' \in ParserStates
    BY <1>0, <1>15 DEF s_body_identity, ParserStates
  <2> QED
    BY <1>0, <2>1, <2>2, KeptPlaced
<1>16. CASE s_body_identity_eof
  BY <1>0, <1>16, KeptPlaced DEF s_body_identity_eof, parser, NoCallback
<1>17. CASE s_message_done
  <2>1. message_complete("s_dead")
    BY <1>17 DEF s_message_done, NEW_MESSAGE
  <2> QED
    BY <1>0, <2>1, CompletedPlaced
<1>18. CASE s_chunk_size_start
  BY <1>0, <1>18, KeptPlaced DEF s_chunk_size_start, Advance, NoCallback, ParserStates
<1>19. CASE s_chunk_size
  <2>1. completed' = completed /\ header_state' = header_state
    BY <1>19 DEF s_chunk_size, NoCallback
  <2>2. state' \in ParserStates
    BY <1>0, <1>19 DEF s_chunk_size, Advance, ParserStates
  <2> QED
    BY <1>0, <2>1, <2>2, KeptPlaced
<1>20. CASE s_chunk_parameters
  BY <1>0, <1>20, KeptPlaced DEF s_chunk_parameters, Advance, NoCallback, ParserStates
<1>21. CASE s_chunk_size_almost_done
  BY <1>0, <1>21, KeptPlaced DEF s_chunk_size_almost_done, Advance, NoCallback, ParserStates
<1>22. CASE s_chunk_data
  BY <1>0, <1>22, KeptPlaced DEF s_chunk_data, NoCallback, ParserStates
<1>23. CASE s_chunk_data_almost_done
  <2>1. completed' = completed
    BY <1>23, HandedKeeps DEF s_chunk_data_almost_done
  <2> QED
    BY <1>0, <1>23, <2>1, KeptPlaced DEF s_chunk_data_almost_done, Advance, ParserStates
<1>24. CASE s_chunk_data_done
  BY <1>0, <1>24, KeptPlaced DEF s_chunk_data_done, Advance, NoCallback, ParserStates
<1>25. CASE s_dead
  BY <1>0, <1>25, KeptPlaced DEF s_dead, Advance, NoCallback, ParserStates
<1> QED
  BY <1>1, <1>2, <1>3, <1>4, <1>5, <1>6, <1>7, <1>8, <1>9, <1>10, <1>11, <1>12, <1>13, <1>14, <1>15, <1>16, <1>17, <1>18, <1>19, <1>20, <1>21, <1>22, <1>23, <1>24, <1>25 DEF Case

\* The parser is parsing only while it follows the machine.
LEMMA FollowsParsing ==
    ASSUME Inv, Follows, p <= Len(data)
    PROVE  Parsing /\ failed = FALSE /\ lost = FALSE
<1>1. failed \in BOOLEAN /\ lost \in BOOLEAN /\ p \in Nat /\ Len(data) \in Nat
  BY DEF Inv, ServerTypes, Types
<1>2. failed = FALSE
  <2> SUFFICES ASSUME failed PROVE FALSE
    BY <1>1
  <2>1. data = <<>> /\ p = 1
    BY DEF Follows, Dropped
  <2>2. Len(data) = 0
    BY <2>1
  <2> QED
    BY <2>1, <2>2
<1>3. lost = FALSE
  BY <1>1, <1>2 DEF Follows, Cutoff
<1> QED
  BY <1>1, <1>2, <1>3 DEF Follows, Ended, Parsing

LEMMA SameFeeds ==
    ASSUME Feeds, SameBuffer, Placed PROVE Feeds'
<1>1. data' = data /\ wire' = wire /\ before' = before
  BY DEF SameBuffer, wire, before
<1>2. Holds(wire', data', before')
  BY <1>1 DEF Feeds
<1> QED
  BY <1>2 DEF Feeds, Placed

\* Every case keeps the parser with the machine.
LEMMA FollowsCase ==
    ASSUME Inv, Follows, Case
    PROVE  Follows'
<1>1. p <= Len(data)
  BY DEF Case, s_start_res, s_res_status, s_res_line_almost_done,
       s_header_field_start, s_header_field,
       s_header_value_discard_ws, s_header_value_start, s_header_value,
       s_header_almost_done, s_header_value_lws,
       s_header_value_discard_ws_almost_done, s_header_value_discard_lws,
       s_headers_almost_done, s_headers_done,
       s_body_identity, s_body_identity_eof, s_message_done,
       s_chunk_size_start, s_chunk_size, s_chunk_parameters, s_chunk_size_almost_done,
       s_chunk_data, s_chunk_data_almost_done, s_chunk_data_done,
       s_dead, In
<1>2. Parsing /\ failed = FALSE /\ lost = FALSE
  BY <1>1, FollowsParsing
<1>3. SameBuffer /\ failed' = FALSE /\ lost' = FALSE
  BY <1>2, CaseKeeps
<1>4. Placed
  BY <1>2, CasePlaced
<1>5. Feeds'
  BY <1>2, <1>3, <1>4, SameFeeds DEF Parsing
<1>6. Synced'
  BY <1>2, <1>3, Case_s_start_res, Case_s_res_status, Case_s_res_line_almost_done,
     Case_s_header_field_start, Case_s_header_field,
     Case_s_header_value_discard_ws, Case_s_header_value_start, Case_s_header_value,
     Case_s_header_almost_done, Case_s_header_value_lws,
     Case_s_header_value_discard_ws_almost_done, Case_s_header_value_discard_lws,
     Case_s_headers_almost_done, Case_s_headers_done,
     Case_s_body_identity, Case_s_body_identity_eof, Case_s_message_done,
     Case_s_chunk_size_start, Case_s_chunk_size, Case_s_chunk_parameters, Case_s_chunk_size_almost_done,
     Case_s_chunk_data, Case_s_chunk_data_almost_done, Case_s_chunk_data_done,
     Case_s_dead DEF Case
<1> QED
  BY <1>3, <1>5, <1>6 DEF Follows

\* The machine fails within the buffer.
Breaks == \E e \in p..Len(data) : Run(wire, before + e).failed /\ Run(wire, before + e).done = Len(completed)

LEMMA BrokenIs ==
    ASSUME NEW m \in Machines PROVE Broken(m).failed /\ Broken(m).done = m.done
BY DEF Broken, Machines

\* An error that the parser finds is one that the machine finds: at a symbol,
\* behind a name, in a length, and where a symbol is not expected.
LEMMA BreaksHere ==
    ASSUME Parsing, Step(View, data[p]) = Broken(View) PROVE Breaks
<1>1. View \in Machines /\ p \in p..Len(data) /\ Step(View, data[p]) = Run(wire, before + p)
  BY ParsingIs
<1>2. Broken(View).failed /\ Broken(View).done = Len(completed)
  BY <1>1, BrokenIs, ViewIs
<1> QED
  BY <1>1, <1>2 DEF Breaks

LEMMA BreaksOnName ==
    ASSUME Parsing, state = "s_header_field", NameEnd <= Len(data), data[NameEnd] # ":" PROVE Breaks
<1> DEFINE q == NameEnd
           s == Piece(data, p, q - 1)
           h == NameOf(header_state, s)
           a == After(View, s)
<1>0. View \in Machines /\ p \in 1..Len(data) /\ Len(data) \in Nat /\ data \in Seq(STRING) /\ s \in Seq(Tokens)
  BY ParsingIs, AfterNameIs DEF Parsing, Inv, Types
<1>1. q \in p..Len(data) /\ data[q] \notin Tokens
  BY <1>0, EndWithin DEF NameEnd
<1>2. ~View.failed /\ View.state = "s_header_field" /\ View.h = header_state
  BY ViewIs
<1>3. a = [View EXCEPT !.h = h]
  BY <1>0, <1>2, NameRun
<1>4. Run(wire, before + q) = Step(a, data[q]) /\ a \in Machines
  BY <1>1, RunTo
<1> HIDE DEF h, a, q
<1>5. ~a.failed /\ a.state = "s_header_field" /\ a.done = View.done
  BY <1>0, <1>2, <1>3 DEF Machines
<1>6. Step(a, data[q]) = Broken(a)
  BY <1>1, <1>5 DEF Step, OnField, q
<1>7. Broken(a).failed /\ Broken(a).done = Len(completed)
  BY <1>4, <1>5, BrokenIs, ViewIs
<1> QED
  BY <1>1, <1>4, <1>6, <1>7 DEF Breaks

LEMMA BreaksOnValue ==
    ASSUME Parsing, state = "s_header_value", ~AfterValue.ok PROVE Breaks
<1> DEFINE e == LineEnd - 1
           s == Piece(data, p, e)
           a == After(View, s)
<1>0. View \in Machines /\ p \in 1..Len(data) /\ Len(data) \in Nat /\ data \in Seq(STRING) /\ data \in Seq(Symbols)
  BY ParsingIs DEF Parsing, Inv, Types
<1>1. LineEnd \in p..Len(data) + 1
  BY <1>0, EndWithin DEF LineEnd
<1>2. ~View.failed /\ View.state = "s_header_value" /\ View.done = Len(completed)
  BY ViewIs
<1>3. a.failed /\ a.done = Len(completed)
  <2>1. AfterValue = ValueAfter(ValueOf(View), s) /\ s \in Seq(ValueSymbols)
    BY AfterValueIs
  <2> QED
    BY <1>0, <1>2, <2>1, ValueRun
<1>4. e # p - 1
  <2> SUFFICES ASSUME e = p - 1 PROVE FALSE
    OBVIOUS
  <2>1. p \in 1..Len(data) + 1
    BY <1>0
  <2>2. s = <<>>
    BY <1>0, <2>1, PieceEmpty
  <2>3. a = View
    BY <2>2, AfterEmpty
  <2> QED
    BY <1>2, <1>3, <2>3
<1>5. e \in p..Len(data)
  BY <1>0, <1>1, <1>4
<1>6. a = Run(wire, before + e)
  BY <1>5, RunTo
<1> HIDE DEF e, a
<1> QED
  BY <1>3, <1>5, <1>6 DEF Breaks

LEMMA UnexpectedBreaks ==
    ASSUME Parsing, Unexpected PROVE Breaks
<1>0. ~View.failed /\ View.state = state /\ View.h = header_state /\ View.length = content_length
  BY ViewIs
<1>1. CASE In("s_start_res") /\ ch \notin StartLines \cup {CR, LF}
  BY <1>0, <1>1, BreaksHere DEF In, ch, Step, OnStart
<1>2. CASE In("s_res_status") /\ ch \notin {CR, LF}
  BY <1>0, <1>2, BreaksHere DEF In, ch, Step, OnStatus, OnLF
<1>3. CASE In("s_header_field_start") /\ ch \notin Tokens \cup {CR, LF}
  BY <1>0, <1>3, BreaksHere DEF In, ch, Step, OnFieldStart
<1>4. CASE In("s_header_field") /\ NameEnd <= Len(data) /\ data[NameEnd] # ":"
  BY <1>4, BreaksOnName DEF In
<1>5. CASE /\ In("s_header_value_start") \/ (In("s_header_value_discard_ws") /\ ch \notin {SP, CR, LF})
           /\ header_state = "h_content_length" /\ ch \notin Digits
  <2>1. OnValueStart(View, data[p]) = Broken(View)
    BY <1>0, <1>5 DEF OnValueStart, ch
  <2>2. Step(View, data[p]) = OnValueStart(View, data[p])
    <3>1. CASE In("s_header_value_start")
      BY <1>0, <3>1 DEF Step, In
    <3>2. CASE In("s_header_value_discard_ws") /\ ch \notin {SP, CR, LF}
      <4>1. Step(View, data[p]) = OnDiscardWs(View, data[p])
        BY <1>0, <3>2 DEF Step, In
      <4> QED
        BY <3>2, <4>1 DEF OnDiscardWs, ch
    <3> QED
      BY <1>5, <3>1, <3>2
  <2> QED
    BY <2>1, <2>2, BreaksHere
<1>6. CASE In("s_header_value") /\ ~AfterValue.ok
  BY <1>6, BreaksOnValue DEF In
<1>7. CASE /\ \/ In("s_res_line_almost_done") \/ In("s_header_almost_done")
              \/ In("s_header_value_discard_ws_almost_done") \/ In("s_headers_almost_done")
              \/ In("s_headers_done") \/ In("s_chunk_size_almost_done") \/ In("s_chunk_data_done")
           /\ ch # LF
  <2>1. Step(View, data[p]) = Broken(View)
    BY <1>0, <1>7 DEF In, ch, Step, OnLF, OnHeadersAlmostDone, OnHeadersDone, OnSizeDone
  <2> QED
    BY <2>1, BreaksHere
<1>8. CASE In("s_chunk_size_start") /\ ch \notin Digits
  BY <1>0, <1>8, BreaksHere DEF In, ch, Step, OnSizeStart
<1>9. CASE \/ In("s_chunk_size") /\ ch \notin Digits \cup {CR, ";", SP}
           \/ In("s_chunk_size") /\ ch \in Digits /\ ~Fits(content_length)
  <2>1. data[p] \notin {CR, ";", SP} /\ ~(data[p] \in Digits /\ Fits(content_length))
    BY <1>9, Distinct DEF ch
  <2>2. Step(View, data[p]) = OnSize(View, data[p])
    BY <1>0, <1>9 DEF Step, In
  <2>3. OnSize(View, data[p]) = Broken(View)
    BY <1>0, <2>1 DEF OnSize
  <2> QED
    BY <2>2, <2>3, BreaksHere
<1>10. CASE In("s_chunk_data_almost_done") /\ ch # CR
  BY <1>0, <1>10, BreaksHere DEF In, ch, Step
<1>11. CASE In("s_dead") /\ ch \notin {CR, LF}
  BY <1>0, <1>11, BreaksHere DEF In, ch, Step
<1> QED
  BY <1>1, <1>2, <1>3, <1>4, <1>5, <1>6, <1>7, <1>8, <1>9, <1>10, <1>11 DEF Unexpected

LEMMA WireType ==
    ASSUME NEW n \in DOMAIN Streams PROVE Wire[n] \in Seq(Symbols) /\ Len(Wire[n]) \in Nat
<1>1. Wire[n] \in Seq(STRING)
  BY WireAssumption
<1>2. Seq(STRING) \subseteq Seq(Symbols)
  BY SeqMonotonic DEF Symbols
<1> QED
  BY <1>1, <1>2

\* The other steps keep them together.
LEMMA FollowsError ==
    ASSUME Inv, Follows, ParseError
    PROVE  Follows'
<1>1. p <= Len(data)
  BY DEF ParseError, Unexpected, In
<1>2. Parsing
  BY <1>1, FollowsParsing
<1>3. PICK e \in p..Len(data) : Run(wire, before + e).failed /\ Run(wire, before + e).done = Len(completed)
  BY <1>2, UnexpectedBreaks DEF ParseError, Breaks
<1>4. /\ p \in 1..Len(data) /\ Len(data) \in Nat /\ Holds(wire, data, before) /\ before + Len(data) = taken /\ taken \in Nat
  <2>1. p \in 1..Len(data) /\ Len(data) \in Nat /\ Holds(wire, data, before)
    BY <1>2, ParsingIs
  <2>2. taken \in Int
    <3>1. Len(Wire[stream]) \in Nat
      BY WireType DEF Inv, ServerTypes
    <3> QED
      BY <3>1 DEF Inv, ServerTypes
  <2>3. before \in Nat
    BY <2>1 DEF Holds
  <2> QED
    BY <2>1, <2>2, <2>3 DEF before
<1>5. wire \in Seq(Symbols) /\ before \in Nat /\ taken <= Len(wire) /\ Len(wire) \in Nat
  BY <1>4 DEF Holds
<1>6. taken \in 0..Len(wire) /\ before + e \in 0..taken /\ before + e \in 0..Len(wire)
  BY <1>4, <1>5
<1>7. Grows(Run(wire, before + e), Run(wire, taken)) /\ IsSound(Run(wire, before + e))
  BY <1>5, <1>6, RunGrows, RunSound
<1>8. Run(wire, taken).failed /\ Run(wire, taken).done = Len(completed)
  BY <1>3, <1>7 DEF Grows, IsSound
<1>9. /\ wire' = wire /\ taken' = taken /\ data' = <<>> /\ p' = 1 /\ closed' = TRUE /\ failed' = TRUE
      /\ completed' = completed /\ state' = state /\ header_state' = header_state
  BY DEF ParseError, server, parser, wire
<1>10. Dropped'
  BY <1>8, <1>9 DEF Dropped
<1>11. Holds(wire', data', before')
  <2>1. PICK d : d = <<>>
    OBVIOUS
  <2>2. Len(d) = 0 /\ d \in Seq(Symbols) /\ taken - 0 = taken
    BY <1>4, <2>1
  <2>3. data' = d /\ before' = taken
    BY <1>9, <2>1, <2>2 DEF before
  <2>4. Holds(wire, d, taken)
    BY <1>4, <1>5, <2>2 DEF Holds
  <2> QED
    BY <1>9, <2>3, <2>4
<1>12. Feeds'
  BY <1>2, <1>9, <1>11 DEF Feeds, Parsing
<1> QED
  BY <1>9, <1>10, <1>12 DEF Follows

LEMMA FollowsSame ==
    ASSUME Inv, Follows, SameBuffer, p' = p, UNCHANGED parser, closed' = closed, completed' = completed,
           failed' = failed, lost' = lost
    PROVE  Follows'
<1>1. data' = data /\ wire' = wire /\ before' = before /\ taken' = taken
  BY DEF SameBuffer, wire, before
<1>2. View' = View /\ state' = state /\ header_state' = header_state
  BY DEF View, parser
<1>3. Feeds'
  BY <1>1, <1>2 DEF Follows, Feeds
<1>4. Dropped' = Dropped /\ Cutoff' = Cutoff /\ Ended' = Ended
  BY <1>1, <1>2 DEF Dropped, Cutoff, Ended
<1>5. Synced' = Synced
  BY <1>1, <1>2 DEF Synced
<1> QED
  BY <1>3, <1>4, <1>5 DEF Follows

LEMMA FollowsFlush ==
    ASSUME Inv, Follows, Flush
    PROVE  Follows'
<1>1. closed' = closed /\ completed' = completed
  BY HandedKeeps DEF Flush
<1>2. SameBuffer /\ p' = p /\ UNCHANGED parser /\ failed' = failed /\ lost' = lost
  BY DEF Flush, SameBuffer, server
<1> QED
  BY <1>1, <1>2, FollowsSame

\* Between two buffers of an open connection the parser is where the machine is.
LEMMA AtRest ==
    ASSUME Inv, Follows, Waiting, ~closed
    PROVE  /\ View = Run(wire, taken) /\ failed = FALSE /\ lost = FALSE /\ Feeds /\ View \in Machines
           /\ wire \in Seq(Symbols) /\ Len(wire) \in Nat /\ taken \in 0..Len(wire) /\ IsSound(View)
           /\ p > Len(data) /\ Len(data) \in Nat /\ p \in Nat
<1>1. failed \in BOOLEAN /\ lost \in BOOLEAN /\ p \in Nat /\ Len(data) \in Nat /\ p > Len(data)
  BY DEF Inv, ServerTypes, Types, Waiting
<1>2. failed = FALSE /\ lost = FALSE /\ Synced /\ Feeds
  BY <1>1 DEF Follows, Dropped, Cutoff, Ended
<1>3. View = Run(wire, before + Len(data))
  BY <1>1, <1>2 DEF Synced
<1>4. wire \in Seq(Symbols) /\ Len(wire) \in Nat /\ taken \in 0..Len(wire)
  BY WireType DEF wire, Inv, ServerTypes
<1>5. before + Len(data) = taken
  BY <1>1, <1>4 DEF before
<1>6. View \in Machines
  BY <1>2, ViewType
<1>7. IsSound(Run(wire, taken))
  BY <1>4, RunSound
<1> QED
  BY <1>1, <1>2, <1>3, <1>4, <1>5, <1>6, <1>7

LEMMA FollowsRead ==
    ASSUME Inv, Follows, NEW n \in 1..RecvBuf, Read(n)
    PROVE  Follows'
<1>1. /\ View = Run(wire, taken) /\ failed = FALSE /\ lost = FALSE /\ Feeds /\ View \in Machines
      /\ wire \in Seq(Symbols) /\ Len(wire) \in Nat /\ taken \in 0..Len(wire)
  BY AtRest DEF Read
<1>2. /\ wire' = wire /\ taken' = taken + n /\ data' = Piece(wire, taken + 1, taken + n) /\ p' = 1
      /\ closed' = closed /\ completed' = completed /\ failed' = failed /\ lost' = lost /\ UNCHANGED parser
      /\ taken + n <= Len(wire)
  BY DEF Read, Piece, wire
<1>3. n \in Nat \ {0}
  BY HttpParserAssumption
<1> DEFINE d == Piece(wire, taken + 1, taken + n)
<1>4. d \in Seq(Symbols) /\ Len(d) = n /\ \A j \in 1..n : d[j] = wire[taken + j]
  <2>1. PICK a : a = taken + 1
    OBVIOUS
  <2>2. PICK b : b = taken + n
    OBVIOUS
  <2>3. a \in 1..Len(wire) + 1 /\ b \in a - 1..Len(wire) /\ b - a + 1 = n /\ \A j \in 1..n : a + j - 1 = taken + j
    BY <1>1, <1>2, <1>3, <2>1, <2>2
  <2>4. Piece(wire, a, b) \in Seq(Symbols) /\ Len(Piece(wire, a, b)) = b - a + 1
        /\ \A j \in 1..b - a + 1 : Piece(wire, a, b)[j] = wire[a + j - 1]
    BY <1>1, <2>3, PieceIs
  <2> QED
    BY <2>1, <2>2, <2>3, <2>4
<1> HIDE DEF d
<1>5. data' = d
  BY <1>2 DEF d
<1>6. before' = taken
  BY <1>1, <1>2, <1>3, <1>4, <1>5 DEF before
<1>7. Holds(wire, d, taken)
  BY <1>1, <1>2, <1>4 DEF Holds
<1>8. View' = View /\ state' = state /\ header_state' = header_state
  BY <1>2 DEF View, parser
<1>9. Feeds'
  BY <1>1, <1>2, <1>5, <1>6, <1>7, <1>8 DEF Feeds
<1>10. 1 \in 1..Len(d) /\ 1 <= Len(d)
  BY <1>3, <1>4
<1>11. Run(wire, taken + 1) = Step(Run(wire, taken + 1 - 1), d[1]) /\ taken + 1 - 1 = taken
  BY <1>1, <1>7, <1>10, BufferStep
<1>12. View.done = Len(completed) /\ View.closed = closed /\ ~View.failed
  BY ViewIs
<1>13. Synced'
  BY <1>1, <1>2, <1>5, <1>6, <1>8, <1>10, <1>11, <1>12 DEF Synced
<1> QED
  BY <1>1, <1>2, <1>9, <1>13 DEF Follows

LEMMA FollowsReadEof ==
    ASSUME Inv, Follows, ReadEof
    PROVE  Follows'
<1>1. /\ View = Run(wire, taken) /\ failed = FALSE /\ lost = FALSE /\ Feeds /\ View \in Machines
      /\ IsSound(View) /\ p > Len(data) /\ ~closed
  BY AtRest DEF ReadEof
<1>2. /\ state = "s_body_identity_eof" /\ message_complete("s_body_identity_eof") /\ taken = Len(wire)
      /\ SameBuffer /\ p' = p /\ failed' = failed /\ lost' = lost
  BY DEF ReadEof, AllRead, wire, SameBuffer, server
<1>3. ~ShouldKeepAlive
  BY <1>1, <1>2, ViewIs DEF IsSound, NeedsEofIn, NeedsEof, ShouldKeepAlive
<1>4. /\ Len(completed') = Len(completed) + 1 /\ closed' = TRUE /\ state' = "s_body_identity_eof" /\ Placed
  <2>1. "s_body_identity_eof" \in ParserStates
    BY DEF ParserStates
  <2> QED
    BY <1>1, <1>2, <1>3, <2>1, CompletedSeq, CompletedPlaced
<1>5. wire' = wire /\ taken' = taken /\ data' = data
  BY <1>2 DEF SameBuffer, wire
<1>6. Feeds'
  BY <1>1, <1>2, <1>4, SameFeeds
<1>7. Ended'
  <2>1. View.state = "s_body_identity_eof" /\ View.done = Len(completed) /\ ~View.closed /\ ~View.failed
    BY <1>1, <1>2, ViewIs
  <2> QED
    BY <1>1, <1>2, <1>4, <1>5, <2>1 DEF Ended
<1> QED
  BY <1>1, <1>2, <1>6, <1>7 DEF Follows

LEMMA FollowsCut ==
    ASSUME Inv, Follows, Cut
    PROVE  Follows'
<1>1. /\ View = Run(wire, taken) /\ failed = FALSE /\ lost = FALSE /\ Feeds /\ View \in Machines
      /\ p > Len(data) /\ ~closed
  BY AtRest DEF Cut
<1>2. /\ wire' = wire /\ taken' = taken /\ data' = data /\ p' = p /\ lost' = TRUE /\ closed' = TRUE /\ failed' = failed
      /\ completed' = completed /\ UNCHANGED parser /\ taken # Len(wire)
  BY DEF Cut, AllRead, wire
<1>3. state' = state /\ header_state' = header_state /\ before' = before
  BY <1>2 DEF parser, before
<1>4. Feeds'
  BY <1>1, <1>2, <1>3 DEF Feeds
<1>5. View.done = Len(completed) /\ ~View.closed /\ ~View.failed
  BY <1>1, ViewIs
<1>6. Cutoff'
  BY <1>1, <1>2, <1>5 DEF Cutoff
<1> QED
  BY <1>1, <1>2, <1>4, <1>6 DEF Follows

\* At the beginning of a connection.
Opened ==
    /\ stream \in DOMAIN Streams /\ taken = 0 /\ data = <<>> /\ p = 1 /\ state = "s_start_res"
    /\ header_state = "h_general" /\ flags = {} /\ content_length = 0 /\ start = NoStart
    /\ completed = <<>> /\ closed = FALSE /\ failed = FALSE /\ lost = FALSE

LEMMA FollowsOpened == Opened => Follows
<1> SUFFICES ASSUME Opened PROVE Follows
  OBVIOUS
<1>1. wire \in Seq(Symbols) /\ Len(wire) \in Nat
  BY WireType DEF wire, Opened
<1>2. PICK d : d = <<>>
  OBVIOUS
<1>3. data = d /\ completed = d /\ taken = 0
  BY <1>2 DEF Opened
<1>4. Len(d) = 0 /\ d \in Seq(Symbols)
  BY <1>2
<1>5. before = 0
  BY <1>3, <1>4 DEF before
<1>6. Holds(wire, d, 0)
  BY <1>1, <1>4 DEF Holds
<1>7. "s_start_res" \in ParserStates /\ "h_general" \in AllHeaderStates
  BY DEF ParserStates, AllHeaderStates, HeaderStates
<1>8. Feeds
  BY <1>3, <1>4, <1>5, <1>6, <1>7 DEF Feeds, Opened
<1>9. View = Start
  BY <1>3, <1>4 DEF View, Start, Opened
<1>10. Run(wire, 0) = Start
  BY <1>1, RunStarts
<1>11. Start.done = 0 /\ Start.closed = FALSE /\ Start.failed = FALSE
  BY DEF Start
<1>12. p = 1 /\ closed = FALSE /\ failed = FALSE /\ lost = FALSE /\ 0 + 1 - 1 = 0 /\ 0 + 0 = 0 /\ ~(1 <= 0)
  BY DEF Opened
<1>13. Synced
  <2>1. before + p - 1 = 0 /\ before + Len(data) = 0 /\ ~(p <= Len(data)) /\ Len(completed) = 0
    BY <1>3, <1>4, <1>5, <1>12
  <2> QED
    BY <1>9, <1>10, <1>11, <1>12, <2>1 DEF Synced
<1> QED
  BY <1>8, <1>12, <1>13 DEF Follows

\* So does every step of the specification.
LEMMA FollowsNext ==
    ASSUME Inv, Follows, [Next]_vars
    PROVE  Follows'
<1>1. CASE Case
  BY <1>1, FollowsCase
<1>2. CASE ParseError
  BY <1>2, FollowsError
<1>3. CASE Flush
  BY <1>3, FollowsFlush
<1>4. ASSUME NEW n \in 1..RecvBuf, Read(n) PROVE Follows'
  BY <1>4, FollowsRead
<1>5. CASE ReadEof
  BY <1>5, FollowsReadEof
<1>6. CASE Cut
  BY <1>6, FollowsCut
<1>7. CASE NextConnection
  <2>1. Opened'
    BY <1>7, HttpParserAssumption DEF NextConnection, InitParser, Opened
  <2> QED
    BY <2>1, FollowsOpened, PTL
<1>8. CASE UNCHANGED vars
  <2>1. SameBuffer /\ p' = p /\ UNCHANGED parser /\ closed' = closed /\ completed' = completed /\ failed' = failed
        /\ lost' = lost
    BY <1>8 DEF vars, server, SameBuffer
  <2> QED
    BY <2>1, FollowsSame
<1> QED
  BY <1>1, <1>2, <1>3, <1>4, <1>5, <1>6, <1>7, <1>8 DEF Next, Parse, Finished

\* The invariant.
LEMMA FollowsAlways == Spec => [](Inv /\ Follows)
<1>1. Init => Inv /\ Follows
  <2>1. ASSUME Init PROVE Follows
    BY <2>1, FollowsOpened DEF Init, Opened
  <2> QED
    BY <2>1, InvInit
<1>2. Inv /\ Follows /\ [Next]_vars => Inv' /\ Follows'
  BY InvNext, FollowsNext
<1> QED
  BY <1>1, <1>2, PTL DEF Spec

=============================================================================
