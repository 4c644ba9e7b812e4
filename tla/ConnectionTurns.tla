--------------------------- MODULE ConnectionTurns --------------------------
(***************************************************************************)
(* Connection implements Turns: the batch in flight is read off the wire,  *)
(* the buffer being parsed, the parser and the part of the request not yet *)
(* written, on the socket the connection has.  On another socket nothing   *)
(* is in flight.                                                           *)
(***************************************************************************)
EXTENDS Connection

\* The connection has a socket on which it speaks HTTP.
Speaking(c) == /\ fd[c] \in Fd /\ sock[fd[c]] # Closed
               /\ events[fd[c]].data = c /\ events[fd[c]].rproc = "socket_readable"

\* A response whose body goes on to the end of the stream.
OpenBody(c) == IF parser[c] = "untilEof" THEN 1 ELSE 0

Outstanding == [c \in Conn |-> IF Speaking(c) THEN InFlight(c) + Unsent(c) + OpenBody(c)
                                              ELSE 0]

Turn == INSTANCE Turns WITH outstanding <- Outstanding, counted <- complete

\* A connection takes turns with the server, however its batches are cut into
\* writes and reads and however often it has to connect again: a second batch
\* is never begun while the first is in flight, and no response is counted
\* twice, or for a batch that was sent on another socket.
TakesTurns == Turn!Spec
=============================================================================
