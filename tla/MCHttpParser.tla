---------------------------- MODULE MCHttpParser ----------------------------
EXTENDS HttpParser

H(name, lines) == [name |-> name, lines |-> lines]
V == H(<<"x">>, <<<<"v">>>>)

Plain == [start |-> "HTTP/1.1 200", fields |-> <<V>>, connection |-> <<>>, coding |-> "length",
          parts |-> <<<<"b", LF>>>>, trailer |-> <<>>, eol |-> <<CR, LF>>, huge |-> FALSE,
          after |-> <<>>]
Bare == [Plain EXCEPT !.start = "HTTP/1.1 204", !.fields = <<>>, !.coding = "none",
                      !.parts = <<>>]
Folded == [Plain EXCEPT !.fields = <<H(<<"x">>, <<<<"v">>, <<"v">>>>), H(<<"x">>, <<<<>>>>),
                                     H(<<"x", "conn">>, <<<<>>, <<"clo", "se">>>>)>>,
                        !.parts = <<>>, !.eol = <<LF>>]
Lookalike == [Plain EXCEPT !.fields = <<H(<<"conn", "x">>, <<<<"clo", "se">>>>),
                                        H(<<"trans", "fer-encoding", "x">>,
                                          <<<<"chun", "ked">>>>),
                                        H(<<"x", "ection">>, <<<<"clo", "se">>>>)>>]
Chunked == [Plain EXCEPT !.coding = "chunked", !.parts = <<<<"b", CR>>, <<"b">>>>,
                         !.trailer = <<H(<<"x">>, <<<<>>, <<"v">>>>)>>]
Close == [Plain EXCEPT !.connection = <<"v", "close">>, !.after = <<CR, LF>>]
Old == [Plain EXCEPT !.start = "HTTP/1.0 200"]
OldKept == [Old EXCEPT !.connection = <<"keep-alive">>, !.after = <<CR, LF>>]
OpenBody == [Plain EXCEPT !.coding = "eof", !.parts = <<<<"b", CR, "b">>>>]
LongLength == [Plain EXCEPT !.huge = TRUE]
LongChunk == [Chunked EXCEPT !.huge = TRUE]

MCStreams == <<<<Bare, Plain, Bare>>, <<Folded, Chunked>>, <<Lookalike, OpenBody>>,
              <<Close, Plain>>, <<OldKept, Old>>, <<LongLength>>, <<LongChunk>>>>
=============================================================================
