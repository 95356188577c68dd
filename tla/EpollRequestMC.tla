--------------------------- MODULE EpollRequestMC ---------------------------
(* Programs and descriptors of the runs of EpollRequest. *)
EXTENDS EpollRequest

CONSTANTS s1, a, b, c

Jobs(fds, quits, lives) == [fds |-> fds, quits |-> quits, lives |-> lives]

\* A job that asks for one descriptor more than it may, or one that may lose
\* interest in its descriptor.
WaitOrQuit == {[s \in {s1} |-> Jobs({a, b, c}, FALSE, 1)],
               [s \in {s1} |-> Jobs({a}, TRUE, 1)]}
OneWay   == [fd \in {a, b, c} |-> IF fd = a THEN {"out"} ELSE {"in"}]

\* A job that waits for one descriptor, and the next one in its slot.
TwoLives == {[s \in {s1} |-> Jobs({a}, FALSE, 2)]}
Reading  == [fd \in {a} |-> {"in"}]

\* Programs that break a property, each explained in the README: a job that
\* may lose interest in two descriptors, and one descriptor in both
\* directions.
QuitTwo  == {[s \in {s1} |-> Jobs({a, b}, TRUE, 1)]}
OneLife  == {[s \in {s1} |-> Jobs({a}, FALSE, 1)]}
BothWays == [fd \in {a} |-> {"in", "out"}]
=============================================================================
