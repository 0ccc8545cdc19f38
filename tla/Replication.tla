---------------------------- MODULE Replication ----------------------------
(***************************************************************************)
(* What both protocols promise the client of the replicated log.  Requests *)
(* are numbered 0, 1, 2, ... in the order in which they are submitted, so  *)
(* a prefix of the log is its length.  Every replica applies the requests  *)
(* in that order and without gaps; a request is committed only after all   *)
(* replicas of some quorum have applied it, and requests are committed one *)
(* at a time, in order, each once.                                         *)
(***************************************************************************)
EXTENDS Naturals

CONSTANTS
  NbRequests,       \* number of requests of an experiment
  Replica,          \* the replicas that acknowledge requests
  Upstream,         \* [Replica -> SUBSET Replica]: who applies before whom
  Quorum            \* set of subsets of Replica

VARIABLES
  submitted,        \* number of requests submitted
  applied,          \* [Replica -> number of requests applied]
  committed         \* number of requests committed

vars == <<submitted, applied, committed>>

Init ==
  /\ submitted = 0
  /\ applied = [r \in Replica |-> 0]
  /\ committed = 0

Submit ==
  /\ submitted < NbRequests
  /\ submitted' = submitted + 1
  /\ UNCHANGED <<applied, committed>>

Apply(r) ==
  /\ applied[r] < submitted
  /\ \A u \in Upstream[r] : applied[r] < applied[u]
  /\ applied' = [applied EXCEPT ![r] = @ + 1]
  /\ UNCHANGED <<submitted, committed>>

Commit ==
  /\ \E Q \in Quorum : \A r \in Q : committed < applied[r]
  /\ committed' = committed + 1
  /\ UNCHANGED <<submitted, applied>>

Next == Submit \/ Commit \/ \E r \in Replica : Apply(r)

Spec == Init /\ [][Next]_vars
=============================================================================
