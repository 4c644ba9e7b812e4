----------------------------- MODULE HttpHeaders -----------------------------
(***************************************************************************)
(* How http_parser_execute (src/src/http_parser.c) recognises headers and  *)
(* reads numbers: what one more symbol of a name or of a value does to     *)
(* header_state, to the flags and to content_length.  Upgrade and          *)
(* Proxy-Connection are left out; they are matched like the others.        *)
(***************************************************************************)
EXTENDS HttpResponses

NoLength == Largest

\* Room for one more digit.  Mutant: the last number is let through.
Fits_Loose(n) == (Largest - 1) \div Base >= n
Fits(n) == (Largest - Base) \div Base >= n
WithDigit(n, ch) == n * Base + Digit(ch)

\* s_header_field_start and s_header_field: names.
NameStart(ch) ==
    CASE ch = "conn" -> "h_matching_connection"
      [] ch = "cont" -> "h_matching_content_length"
      [] ch = "trans" -> "h_matching_transfer_encoding"
      [] OTHER -> "h_general"

NameNext(h, ch) ==
    CASE h = "h_matching_connection" /\ ch = "ection" -> "h_connection"
      [] h = "h_matching_content_length" /\ ch = "ent-length" -> "h_content_length"
      [] h = "h_matching_transfer_encoding" /\ ch = "fer-encoding" -> "h_transfer_encoding"
      [] OTHER -> "h_general"

\* s_header_value_start, a digit of a length aside.
ConnectionToken(ch) ==
    CASE ch = "keep" -> "h_matching_connection_keep_alive"
      [] ch = "clo" -> "h_matching_connection_close"
      [] OTHER -> "h_matching_connection_token"

ValueStart(h, ch) ==
    CASE h = "h_transfer_encoding" /\ ch = "chun" -> "h_matching_transfer_encoding_chunked"
      [] h = "h_content_length" -> h
      [] h = "h_connection" -> ConnectionToken(ch)
      [] h = "h_matching_connection_token_start" -> h
      [] OTHER -> "h_general"

\* The flag of a header that is recognised to its end.
FlagOf(h) == CASE h = "h_connection_keep_alive" -> {"KEEP"}
               [] h = "h_connection_close" -> {"CLOSE"}
               [] h = "h_transfer_encoding_chunked" -> {"CHUNKED"}
               [] OTHER -> {}

\* s_header_value: the header_state after one more symbol, a length aside.
HeaderStateNext(h, ch) ==
    CASE h = "h_matching_transfer_encoding_chunked" /\ ch = "ked" -> "h_transfer_encoding_chunked"
      [] h = "h_transfer_encoding_chunked" /\ ch = SP -> h
      [] h = "h_matching_connection_token_start" ->
            IF ch \in Tokens THEN ConnectionToken(ch) ELSE IF ch = SP THEN h ELSE "h_general"
      [] h = "h_matching_connection_keep_alive" ->
            IF ch = "alive" THEN "h_connection_keep_alive" ELSE "h_matching_connection_token"
      [] h = "h_matching_connection_close" ->
            IF ch = "se" THEN "h_connection_close" ELSE "h_matching_connection_token"
      [] h \in {"h_matching_connection_token", "h_connection_keep_alive", "h_connection_close"} ->
            IF ch = "," THEN "h_matching_connection_token_start"
            ELSE IF ch = SP THEN h ELSE "h_matching_connection_token"
      [] OTHER -> "h_general"

\* v.ok turns FALSE at a length that is not a number or is out of range.
ValueNext(v, ch) ==
    IF v.h = "h_content_length"
    THEN IF ch \in Digits /\ Fits(v.length)
         THEN [v EXCEPT !.length = WithDigit(@, ch)]
         ELSE [v EXCEPT !.ok = @ /\ ch = SP]
    ELSE [v EXCEPT !.h = HeaderStateNext(v.h, ch),
                   !.flags = @ \cup (IF ch = "," THEN FlagOf(v.h) \ {"CHUNKED"} ELSE {})]

=============================================================================
