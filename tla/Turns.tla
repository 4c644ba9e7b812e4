-------------------------------- MODULE Turns -------------------------------
(***************************************************************************)
(* What a connection promises: it takes turns with the server.  It begins  *)
(* a batch only when nothing of the last one is outstanding, and every     *)
(* response it counts is one of the batch it has sent.  A batch, or the    *)
(* rest of it, may be lost with its socket; it is then begun again or      *)
(* given up, never continued.                                              *)
(***************************************************************************)
EXTENDS Integers

CONSTANTS Conn, Pipeline

VARIABLES
    outstanding,   \* responses of the batch in flight, still to come
    counted        \* responses counted

Batch == 0..Pipeline

Begin(c) ==
    /\ outstanding[c] = 0
    /\ \E n \in Batch \ {0} : outstanding' = [outstanding EXCEPT ![c] = n]
    /\ UNCHANGED counted

\* A response is counted; the last one of a socket takes the rest with it.
Answer(c) ==
    /\ outstanding[c] > 0
    /\ \E n \in {0, outstanding[c] - 1} : outstanding' = [outstanding EXCEPT ![c] = n]
    /\ counted' = [counted EXCEPT ![c] = @ + 1]

Lose(c) ==
    /\ \E n \in 0..outstanding[c] - 1 : outstanding' = [outstanding EXCEPT ![c] = n]
    /\ UNCHANGED counted

Init == /\ outstanding = [c \in Conn |-> 0]
        /\ counted = [c \in Conn |-> 0]

Next == \E c \in Conn : Begin(c) \/ Answer(c) \/ Lose(c)

Spec == Init /\ [][Next]_<<outstanding, counted>>
=============================================================================
