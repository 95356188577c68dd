-------------------------- MODULE SocketStreamMC ---------------------------
(* Programs of the run of SocketStream. *)
EXTENDS SocketStream

Flow(in, out) == [d \in Dirs |-> IF d = "in" THEN in ELSE out]

\* Enough bytes for each buffer to fill, wrap and fill again, the first with
\* a byte in the other direction.
BothFlows == {Flow(3, 1), Flow(0, 4)}
=============================================================================
