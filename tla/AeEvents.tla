------------------------------ MODULE AeEvents ------------------------------
(***************************************************************************)
(* The file-event table of the event loop (src/src/ae.c): one entry per    *)
(* descriptor, with the set of directions it is registered for, the        *)
(* handler of each direction and the connection handed to the handlers.    *)
(* The operators are pure: they take a table and return a table.           *)
(***************************************************************************)
EXTENDS Naturals

R == "AE_READABLE"
W == "AE_WRITABLE"
RW == {R, W}

\* An entry whose mask is AE_NONE; its handlers and its data are never read.
NoEvent(proc, data) == [mask |-> {}, rproc |-> proc, wproc |-> proc, data |-> data]

\* aeCreateFileEvent on a descriptor the kernel knows.  The mask is merged,
\* the handlers of the given directions and the client data are overwritten.
aeCreateFileEvent(table, f, mask, proc, data) ==
    [table EXCEPT ![f] = [mask  |-> @.mask \cup mask,
                          rproc |-> IF R \in mask THEN proc ELSE @.rproc,
                          wproc |-> IF W \in mask THEN proc ELSE @.wproc,
                          data  |-> data]]

\* aeDeleteFileEvent: only the mask changes, handlers and data stay behind.
aeDeleteFileEvent(table, f, mask) == [table EXCEPT ![f].mask = @ \ mask]

\* Which handlers aeProcessEvents runs for an entry that fired with `ready`:
\* the current mask is consulted again, because an earlier handler of the same
\* batch may have removed the interest.
RunsRead(fe, ready) == R \in fe.mask \cap ready

\* Mutant: the writable handler always runs.
RunsWrite_Always(fe, ready, rfired) == W \in fe.mask \cap ready

\* The writable handler is skipped when the readable one ran and is the same.
RunsWrite(fe, ready, rfired) ==
    /\ W \in fe.mask \cap ready
    /\ rfired => fe.wproc # fe.rproc
=============================================================================
