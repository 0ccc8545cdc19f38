------------------------------ MODULE LogLoops ------------------------------
(***************************************************************************)
(* The loops over in_mem_log_t step by step, as leader.cpp, follower.cpp   *)
(* and head.cpp write them, against the closed forms of InMemLog.  The     *)
(* state machine feeds one log, as a receiver() does, but with the         *)
(* acknowledgements of several nodes in any order, so that entries become  *)
(* full and ids are missing: all that the branches of the loops are        *)
(* written for.  (The receivers of the leader each keep a log of their own *)
(* and meet few of these cases; Raft has that.)                            *)
(***************************************************************************)
EXTENDS InMemLog

CONSTANTS
  Node,             \* node ids, not -1
  MaxId             \* ids acknowledged are in 0 .. MaxId

ASSUME LogLoopsAssumption == Node \subseteq Nat /\ MaxId \in Nat /\ kNodesSize \in Nat \ {0}

VARIABLES
  log, cmt, prev,   \* raft_log, s.cmt_idx and s.last_cmt_node
  lastCleanup,
  acked             \* the acknowledgements taken so far, as pairs of id and node

vars == <<log, cmt, prev, lastCleanup, acked>>

TypeOK ==
  /\ DOMAIN log \subseteq 0 .. MaxId
  /\ \A k \in DOMAIN log : log[k] \in Seq(Node)
  /\ cmt \in -1 .. MaxId
  /\ prev \in Node \cup {-1}
  /\ lastCleanup \in 0 .. cmt + 1
  /\ acked \subseteq (0 .. MaxId) \X Node

-----------------------------------------------------------------------------
\* Mistaken turns, each used by a run in place of its original.  The leader's
\* takes the entry of another node and remembers that node from then on.
CommitTurnAnyNode(lg, s) ==
  LET next == s.cmt + 1
  IN  IF HasKey(lg, next) THEN [cmt |-> next, prev |-> lg[next][1]] ELSE s

\* The leader's forgets the node when it meets a full entry.
CommitTurnForgets(lg, s) ==
  LET next == s.cmt + 1
  IN  IF ~ HasKey(lg, next) THEN s
      ELSE IF Len(lg[next]) = kNodesSize THEN [cmt |-> next, prev |-> -1]
      ELSE IF s.prev \in {-1, lg[next][1]} THEN [cmt |-> next, prev |-> lg[next][1]]
      ELSE s

\* The clean-up is one entry ahead of the commits.
CleanupTurnAhead(idx, s) ==
  IF HasKey(s.log, s.last) /\ s.last <= idx + 1
  THEN [log |-> Remove(s.log, {s.last}), last |-> s.last + 1]
  ELSE s

-----------------------------------------------------------------------------
(***************************************************************************)
(* One turn of each loop.  A turn that returns leaves the loop's variables *)
(* as they are, here next_cmt - 1 and prev_node, the log and starting_cmt, *)
(* the log and next_cmt - 1.                                               *)
(***************************************************************************)
CommitTurn(lg, s) ==
  LET next == s.cmt + 1
  IN  IF ~ HasKey(lg, next) THEN s
      ELSE IF Len(lg[next]) = kNodesSize THEN [cmt |-> next, prev |-> s.prev]
      ELSE IF s.prev \in {-1, lg[next][1]} THEN [cmt |-> next, prev |-> lg[next][1]]
      ELSE s

CleanupTurn(idx, s) ==
  IF HasKey(s.log, s.last) /\ (Len(s.log[s.last]) = kNodesSize \/ s.last <= idx)
  THEN [log |-> Remove(s.log, {s.last}), last |-> s.last + 1]
  ELSE s

FollowerTurn(s) ==
  IF HasKey(s.log, s.cmt + 1)
  THEN [log |-> Remove(s.log, {s.cmt + 1}), cmt |-> s.cmt + 1]
  ELSE s

(***************************************************************************)
(* The loops: as many turns as there may be ids in the log, of which the   *)
(* last ones do nothing more.                                              *)
(***************************************************************************)
Turns == MaxId + 1

Iterate(lg, next, node) ==
  LET after[n \in Nat] ==
        IF n = 0 THEN [cmt |-> next - 1, prev |-> node] ELSE CommitTurn(lg, after[n - 1])
  IN  after[Turns]

Cleanup(lg, start, idx) ==
  LET after[n \in Nat] ==
        IF n = 0 THEN [log |-> lg, last |-> start] ELSE CleanupTurn(idx, after[n - 1])
  IN  after[Turns]

FollowerIterate(lg, next) ==
  LET after[n \in Nat] ==
        IF n = 0 THEN [log |-> lg, cmt |-> next - 1] ELSE FollowerTurn(after[n - 1])
  IN  after[Turns]

-----------------------------------------------------------------------------
Init ==
  /\ log = EmptyLog /\ cmt = -1 /\ prev = -1
  /\ lastCleanup = 0 /\ acked = {}

\* The body of receiver() for one acknowledgement.  A node acknowledges an id
\* once, but here in any order.
Receive(id, node) ==
  /\ <<id, node>> \notin acked
  /\ acked' = acked \cup {<<id, node>>}
  /\ LET added == AddTo(log, id, node)
         run == Iterate(added, cmt + 1, prev)
         swept == Cleanup(added, lastCleanup, run.cmt)
     IN  /\ cmt' = run.cmt /\ prev' = run.prev
         /\ log' = swept.log /\ lastCleanup' = swept.last

AllAcked == acked = (0 .. MaxId) \X Node

Next ==
  \/ \E id \in 0 .. MaxId, node \in Node : Receive(id, node)
  \/ AllAcked /\ UNCHANGED vars

Spec == Init /\ [][Next]_vars

-----------------------------------------------------------------------------
(***************************************************************************)
(* The closed forms say what the loops do, on every log a receiver can     *)
(* build out of acknowledgements in any order (leader.cpp:96, 72 and       *)
(* follower.cpp:45).                                                       *)
(***************************************************************************)
LoopsAgree ==
  /\ \A id \in 0 .. MaxId, node \in Node :
       LET added == AddTo(log, id, node)
           run == Iterate(added, cmt + 1, prev)
           swept == Cleanup(added, lastCleanup, run.cmt)
       IN  /\ run = [cmt |-> LeaderCommit(added, cmt, prev),
                     prev |-> LastCmtNode(added, cmt, prev)]
           /\ swept.last = CleanupTo(added, lastCleanup, run.cmt)
           /\ swept.log = Remove(added, lastCleanup .. (swept.last - 1))
  /\ \A from \in -1 .. MaxId :
       LET run == FollowerIterate(log, from + 1)
       IN  /\ run.cmt = FollowerCommit(log, from)
           /\ run.log = Remove(log, (from + 1) .. run.cmt)

(***************************************************************************)
(* Whatever the order of the acknowledgements, an id is committed only     *)
(* once every node, or else the one node last_cmt_node, has acknowledged   *)
(* it: the leader never mixes the entries of two nodes (leader.cpp:110).   *)
(***************************************************************************)
CommitsAreAcked ==
  \A id \in 0 .. cmt : <<id, prev>> \in acked \/ {id} \X Node \subseteq acked

(***************************************************************************)
(* The clean-up drops nothing that is not committed: an acknowledged id is *)
(* committed or still in the log, also when it is complete (leader.cpp:81, *)
(* where a full entry is removed whatever cmt_idx says).                   *)
(***************************************************************************)
NothingLost ==
  \A pair \in acked : pair[1] <= cmt \/ HasKey(log, pair[1])
=============================================================================
