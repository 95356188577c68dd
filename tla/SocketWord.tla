----------------------------- MODULE SocketWord -----------------------------
(***************************************************************************)
(* The htc word of an epoll socket: the bytes in the read buffer (count),  *)
(* the free bytes of the write buffer (avail) and the readiness flags      *)
(* (jobs.h:175-203).  Like the word of a job it changes by                 *)
(* compare-and-swap loops only, each one atomic step from a word to a      *)
(* word; the operators here give the word that is stored.  The conditions  *)
(* are parameters, because the loops read them from the socket.            *)
(***************************************************************************)
EXTENDS Integers

CONSTANT BufferSize   \* SCHEDI_JOB_EPOLLSOCKET_BUFFERSIZE

ASSUME SocketWordAssumption == BufferSize \in Nat \ {0}

SocketFlag == {"READ_READY", "WRITE_READY", "READY", "DEAD",
               "EPOLLDID", "EPOLLNT", "TIMEOUT"}

HtcWord == [count : 0 .. BufferSize, avail : 0 .. BufferSize,
            flags : SUBSET SocketFlag]

\* The readiness of the socket, as every loop but those below computes it.
SocketReady(F) ==
  \/ "EPOLLNT" \notin F /\ ({"READ_READY", "WRITE_READY"} \subseteq F
                             \/ "DEAD" \in F)
  \/ "EPOLLDID" \in F

WithReady(F) ==
  IF SocketReady(F) THEN F \cup {"READY"} ELSE F \ {"READY"}

FlagIf(cond, flag) == IF cond THEN {flag} ELSE {}

-----------------------------------------------------------------------------
\* The word of a new socket, both buffers empty.
htc_init(read_cond, write_cond) ==
  [count |-> 0, avail |-> BufferSize,
   flags |-> WithReady(FlagIf(0 >= read_cond, "READ_READY")
               \cup FlagIf(BufferSize >= write_cond, "WRITE_READY"))]

\* A socket that timed out keeps its counts, whatever was transferred.
count_add(h, delta, dead, read_cond) ==
  IF "TIMEOUT" \in h.flags THEN h
  ELSE [h EXCEPT !.count = @ + delta,
                 !.flags = WithReady((@ \ {"READ_READY"})
                   \cup FlagIf(h.count + delta >= read_cond, "READ_READY")
                   \cup FlagIf(dead, "DEAD"))]

avail_add(h, delta, dead, write_cond) ==
  IF "TIMEOUT" \in h.flags THEN h
  ELSE [h EXCEPT !.avail = @ + delta,
                 !.flags = WithReady((@ \ {"WRITE_READY"})
                   \cup FlagIf(h.avail + delta >= write_cond, "WRITE_READY")
                   \cup FlagIf(dead, "DEAD"))]

\* schedi_job_epollsocket_dead: ready, whatever the other flags say.
mark_dead(h) == [h EXCEPT !.flags = @ \cup {"DEAD", "READY"}]

\* Mutant: the job is not woken when the epoll side is done.
done_cas_epollside_Quiet(h) == [h EXCEPT !.flags = @ \cup {"EPOLLDID"}]

done_cas_epollside(h) == [h EXCEPT !.flags = @ \cup {"EPOLLDID", "READY"}]

\* The socket is not ready again before the epoll side is done.
done_cas_jobside(h) ==
  [h EXCEPT !.flags = (@ \ (IF "EPOLLDID" \in @ THEN {} ELSE {"READY"}))
                        \cup {"EPOLLNT"}]

timeout_cas(h) == [h EXCEPT !.flags = @ \cup {"TIMEOUT", "READY"}]

\* schedi_job_epollsocket_untimeout, refused unless EPOLLDID is set.
untimeout(h) == [h EXCEPT !.flags = WithReady(@ \ {"EPOLLDID", "TIMEOUT"})]
=============================================================================
