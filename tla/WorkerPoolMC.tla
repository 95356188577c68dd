---------------------------- MODULE WorkerPoolMC ----------------------------
(* Threads, builds and programs of the runs of WorkerPool. *)
EXTENDS WorkerPool, TLC

AllThreads == Workers \cup {Main}
Symmetry   == Permutations(Workers) \cup Permutations(Jobs)

\* The usual build with a main() that waits for its jobs and with one that
\* does not, and the LOCKLESS_READYJOB build.
Waiting   == {[lockless |-> FALSE, waits |-> TRUE]}
Stopping  == {[lockless |-> FALSE, waits |-> FALSE]}
AllSetups == Waiting \cup Stopping \cup {[lockless |-> TRUE, waits |-> TRUE]}
=============================================================================
