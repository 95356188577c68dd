------------------------------ MODULE MetaFlag ------------------------------
(***************************************************************************)
(* The meta_flag word of a job: slot-lifetime and readiness flags and four *)
(* packed counters (jobs.h:43-108).  Every function of jobs.c that changes *)
(* the word is a compare-and-swap loop, which succeeds on the value it     *)
(* last read: one atomic step from a word to a word.  The operators here   *)
(* give the ban that makes the loop fail, and the word it stores if there  *)
(* is none.                                                                *)
(***************************************************************************)
EXTENDS Integers

CONSTANTS
  MaxAccess,   \* the access count is a 4-bit field: 15
  MaxCount     \* so are available_sockets, waiting_count, available_jobs: 15

ASSUME MetaFlagAssumption ==
  MaxAccess \in Nat \ {0} /\ MaxCount \in Nat \ {0}

\* DESTROYNOTENT is set only when the destroy queue is full, which holds
\* more entries than there are jobs; it is left out.
Derived == {"READYEPOLLSOCK", "READYEPOLLTOOL", "READYJOB"}
Flag    == {"ALIVE", "UNSTABLE", "EXECUTING", "WLLDESTROY", "READY",
            "READYBASIC"} \cup Derived

Word == [flags  : SUBSET Flag,
         access : 0 .. MaxAccess,
         avsock : 0 .. MaxCount,
         wait   : 0 .. MaxCount,
         avjobs : 0 .. MaxCount]

WordOf(F) ==
  [flags |-> F, access |-> 0, avsock |-> 0, wait |-> 0, avjobs |-> 0]

-----------------------------------------------------------------------------
\* What schedi_job_mark_or and schedi_job_unmark_or return: the banned flags
\* found, and the access part of the word if accesses are banned too.
Ban(m, banned, ban_access) ==
  (m.flags \cap banned)
    \cup (IF ban_access /\ m.access > 0 THEN {"ACCESS"} ELSE {})

\* A CAS loop that sets or clears flags and gives up on a ban.
mark_or(m, F, banned, ban_access) ==
  IF Ban(m, banned, ban_access) = {} THEN [m EXCEPT !.flags = @ \cup F] ELSE m
unmark_or(m, F, banned) ==
  IF Ban(m, banned, FALSE) = {} THEN [m EXCEPT !.flags = @ \ F] ELSE m

\* schedi_job_mark_access refuses the 16th access; schedi_job_unmark_access
\* subtracts without looking, and the 4-bit field wraps.
AccessBan(m) ==
  (m.flags \cap {"UNSTABLE", "WLLDESTROY"})
    \cup (IF m.access = MaxAccess THEN {"ACCESS"} ELSE {})
mark_access(m) ==
  IF AccessBan(m) = {} THEN [m EXCEPT !.access = @ + 1] ELSE m
unmark_access(m) ==
  IF "UNSTABLE" \in m.flags THEN m
  ELSE [m EXCEPT !.access = (@ - 1) % (MaxAccess + 1)]

\* The ban of schedi_job_mark_unstable, which decides a destruction.
UnstableBan(m) == Ban(m, {"UNSTABLE", "EXECUTING", "READY"}, TRUE)

-----------------------------------------------------------------------------
check_allready(m) == {"READYBASIC"} \cup Derived \subseteq m.flags

InRange(m, sock_delta, wait_delta, jobcount_delta) ==
  /\ m.avsock + sock_delta \in 0 .. MaxCount
  /\ m.wait + wait_delta \in 0 .. MaxCount
  /\ m.avjobs + jobcount_delta \in 0 .. MaxCount

DerivedFlags(avsock, wait, avjobs, required_socks, required_jobs) ==
  (IF avsock >= required_socks THEN {"READYEPOLLSOCK"} ELSE {})
    \cup (IF wait = 0 THEN {"READYEPOLLTOOL"} ELSE {})
    \cup (IF avjobs >= required_jobs THEN {"READYJOB"} ELSE {})

\* schedi_job_meta_flag_cas_update.  required_socks and required_jobs are
\* what the caller read before its loop.
cas_update(m, d_sock, d_wait, d_jobs, F, required_socks, required_jobs) ==
  LET avsock == m.avsock + d_sock
      wait   == m.wait + d_wait
      avjobs == m.avjobs + d_jobs
  IN  [m EXCEPT !.flags = ((@ \cup F) \ Derived)
                  \cup DerivedFlags(avsock, wait, avjobs,
                                    required_socks, required_jobs),
                !.avsock = avsock, !.wait = wait, !.avjobs = avjobs]

\* The update completes the readiness set: the caller goes on to
\* schedi_job_setready.
BecomesReady(old, new) == ~check_allready(old) /\ check_allready(new)
=============================================================================
