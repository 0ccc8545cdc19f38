-------------------------- MODULE RequestResponse --------------------------
(***************************************************************************)
(* What the latency benchmark of network-unused measures: one request at a *)
(* time is sent, handled once, and answered, ReqsNum times.  A latency is  *)
(* the time of one such round trip, so the figure the sender prints is     *)
(* right only if no two requests are ever under way together.              *)
(***************************************************************************)
EXTENDS Integers

CONSTANT ReqsNum

VARIABLES enqueued, handled, received    \* how many requests have got how far

vars == <<enqueued, handled, received>>

Init == enqueued = 0 /\ handled = 0 /\ received = 0

Send ==
  /\ enqueued = received /\ enqueued < ReqsNum
  /\ enqueued' = enqueued + 1
  /\ UNCHANGED <<handled, received>>

Handle ==
  /\ handled < enqueued
  /\ handled' = handled + 1
  /\ UNCHANGED <<enqueued, received>>

Answer ==
  /\ received < handled
  /\ received' = received + 1
  /\ UNCHANGED <<enqueued, handled>>

Next == Send \/ Handle \/ Answer

Spec == Init /\ [][Next]_vars
=============================================================================
