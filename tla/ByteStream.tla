----------------------------- MODULE ByteStream -----------------------------
(***************************************************************************)
(* What an epoll socket promises about its bytes: each direction is a      *)
(* first-in first-out channel that delivers the bytes it was given, in     *)
(* order, none of them twice, changed or left out.  It promises nothing    *)
(* about when.  The n-th byte of a direction is the number n.              *)
(***************************************************************************)
EXTENDS Integers, Sequences

CONSTANT Dirs

VARIABLES
  put,   \* [Dirs -> Nat], how many bytes were handed over
  got    \* [Dirs -> Seq(Nat)], the bytes that came out

streamVars == <<put, got>>

Init == put = [d \in Dirs |-> 0] /\ got = [d \in Dirs |-> <<>>]

Put(d, n) == put' = [put EXCEPT ![d] = @ + n] /\ UNCHANGED got

Get(d, n) ==
  /\ Len(got[d]) + n <= put[d]
  /\ got' = [got EXCEPT ![d] = @ \o [i \in 1 .. n |-> Len(@) + i]]
  /\ UNCHANGED put

Next ==
  \E d \in Dirs : \/ Put(d, put'[d] - put[d]) /\ put'[d] > put[d]
                  \/ Get(d, Len(got'[d]) - Len(got[d]))

Spec == Init /\ [][Next]_streamVars
=============================================================================
