--------------------------- MODULE EpollSocketMC ---------------------------
(* Programs of the runs of EpollSocket. *)
EXTENDS EpollSocket

NoFailure == [reg |-> 0, src |-> "in"]

\* examples/epollsocket.c in the build without timeouts, with a peer that
\* closes at any time.
Plain == [bytes |-> 3, closes |-> TRUE, calm |-> FALSE, timeouts |-> FALSE,
          fails |-> NoFailure, reads |-> 1, leaves |-> "dead"]

\* The build with timeouts, with a peer that does not close.
Timed == [Plain EXCEPT !.timeouts = TRUE, !.closes = FALSE]
Refusing(n, src) == [Timed EXCEPT !.fails = [reg |-> n, src |-> src]]

\* A socket given up by the function or in the destructor; a peer that is
\* silent, so that the timer expires; registrations that fail; and, with the
\* calm that the code needs for them, a peer that closes a socket with a
\* timer, and a second registration that fails behind the timer's.
Good ==
  {Plain, [Plain EXCEPT !.leaves = "dtor"], Timed,
   Refusing(1, "timer"), Refusing(1, "in"), Refusing(2, "timer"),
   [Timed EXCEPT !.closes = TRUE, !.calm = TRUE],
   [Refusing(2, "in") EXCEPT !.calm = TRUE]}

\* A job that gives up a live socket, as the README shows; the peer closes
\* once the socket is registered.
DoneEarly == {[Plain EXCEPT !.leaves = "early", !.calm = TRUE]}

\* Programs that break a property, each explained in the README: a job that
\* reads twice in a run, and a timer that expires while the peer closes.
ReadTwice == {[Plain EXCEPT !.reads = 2]}
CloseLate == {[Timed EXCEPT !.closes = TRUE]}
=============================================================================
