------------------------------ MODULE InMemLog ------------------------------
(***************************************************************************)
(* in_mem_log_t (common.hpp) and the two loops the protocols run over it.  *)
(* A log maps a request id to the sequence of the nodes that acknowledged  *)
(* it: a function on the ids that are in the map.                          *)
(*                                                                         *)
(* The loops are given in closed form, by the id at which each one stops;  *)
(* LogLoops has them as the code writes them.                              *)
(***************************************************************************)
EXTENDS Integers, Sequences

CONSTANT kNodesSize     \* config.h: acknowledgements that complete an entry

EmptyLog == [k \in {} |-> << >>]

HasKey(log, key) == key \in DOMAIN log

\* insert and append: operator[] creates the entry that append does not find,
\* so the two come to the same.
AddTo(log, key, node) ==
  [k \in DOMAIN log \cup {key} |->
     IF k # key THEN log[k] ELSE Append(IF HasKey(log, k) THEN log[k] ELSE << >>, node)]

Remove(log, keys) == [k \in DOMAIN log \ keys |-> log[k]]

\* The first id from on that is not in S: where a loop that goes up by one
\* while its id is in S stops.
FirstOutside(S, from) ==
  CHOOSE n \in {from} \cup {k + 1 : k \in S} :
    n >= from /\ n \notin S /\ from .. (n - 1) \subseteq S

Full(log) == {k \in DOMAIN log : Len(log[k]) = kNodesSize}

FirstFrom(log, node) == {k \in DOMAIN log : log[k][1] = node}

-----------------------------------------------------------------------------
(***************************************************************************)
(* iterate_log_and_commit of a follower: commit and drop the run of ids    *)
(* after cmt_idx.                                                          *)
(***************************************************************************)
FollowerCommit(log, cmt) == FirstOutside(DOMAIN log, cmt + 1) - 1

(***************************************************************************)
(* iterate_log_and_commit of the leader: an entry is committed if it is    *)
(* full, or if its first acknowledgement is from last_cmt_node.  As long   *)
(* as that is -1, the first entry that is not full sets it.                *)
(***************************************************************************)
LastCmtNode(log, cmt, prevNode) ==
  LET k == FirstOutside(Full(log), cmt + 1)
  IN  IF prevNode = -1 /\ HasKey(log, k) THEN log[k][1] ELSE prevNode

\* A mistaken version: next_cmt is stored where next_cmt - 1 is meant.
LeaderCommitOneMore(log, cmt, prevNode) ==
  FirstOutside(Full(log) \cup FirstFrom(log, LastCmtNode(log, cmt, prevNode)), cmt + 1)

LeaderCommit(log, cmt, prevNode) ==
  FirstOutside(Full(log) \cup FirstFrom(log, LastCmtNode(log, cmt, prevNode)), cmt + 1) - 1

\* cleanup_log: drop what is full or committed, going up from last_cleanup.
CleanupTo(log, lastCleanup, cmt) ==
  FirstOutside(Full(log) \cup {k \in DOMAIN log : k <= cmt}, lastCleanup)
=============================================================================
