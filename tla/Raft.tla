-------------------------------- MODULE Raft --------------------------------
(***************************************************************************)
(* The "raft" protocol: raft/leader.cpp and raft/follower.cpp over the     *)
(* links of raft/net.  The leader's sender thread writes every request to  *)
(* all followers; a follower commits it and acknowledges its cmt_idx; for  *)
(* each follower the leader has a receiver thread, with a log and a        *)
(* cmt_idx of its own, that commits what this follower acknowledges.       *)
(* There are no elections and no terms.                                    *)
(*                                                                         *)
(* A message is its request id or cmt_idx.  The node id that travels with  *)
(* a request is never read; the one with an acknowledgement is the         *)
(* follower's own, so that the link tells it.                              *)
(***************************************************************************)
EXTENDS Integers, Sequences, FiniteSets, InMemLog

CONSTANTS
  NbRequests,       \* nb_requests of config.h
  Follower,         \* follower ids: follower_1_id and follower_2_id
  Cap,              \* messages a link buffers
  MaxKills          \* bound on the processes killed from outside

ASSUME ConstantsAssumption ==
  /\ NbRequests \in Nat \ {0}
  /\ Follower \subseteq Nat \ {0} /\ Follower # {} /\ IsFiniteSet(Follower)
  /\ kNodesSize \in Nat \ {0}
  /\ Cap \in Nat \ {0}
  /\ MaxKills \in Nat

VARIABLES
  chan, status,     \* see Sockets
  killed,           \* processes killed from outside
  order,            \* the order in which cluster_info is iterated
  nextReq, sentTo,  \* sender: loop counter i, followers request i was written to
  log, cmt,         \* per receiver of the leader: raft_log, s.cmt_idx,
  lastNode,         \*   s.last_cmt_node,
  lastCleanup,      \*   last_cleanup,
  receiver,         \*   how far the thread is
  fLog, fCmt, fPc   \* per follower: ids in raft_log, s.cmt_idx

INSTANCE Sockets

senderVars == <<order, nextReq, sentTo>>
receiverVars == <<log, cmt, lastNode, lastCleanup, receiver>>
followerVars == <<fLog, fCmt, fPc>>
vars == <<chan, status, killed, senderVars, receiverVars, followerVars>>

\* The id under which a follower keeps its connection to the leader.
Leader == 0
Proc == {Leader} \cup Follower
To(f) == <<Leader, f>>
From(f) == <<f, Leader>>
Link == {To(f) : f \in Follower} \cup {From(f) : f \in Follower}

TypeOK ==
  /\ chan \in [Link -> Seq(Int)]
  /\ status \in [Proc -> Status]
  /\ killed \in SUBSET Proc
  /\ order \in [Follower -> Nat]
  /\ nextReq \in 0 .. NbRequests
  /\ sentTo \in SUBSET Follower
  /\ DOMAIN log = Follower /\ DOMAIN fLog = Follower
  /\ cmt \in [Follower -> Int]
  /\ lastNode \in [Follower -> Int]
  /\ lastCleanup \in [Follower -> Int]
  /\ receiver \in [Follower -> {"running", "finished"}]
  /\ fCmt \in [Follower -> Int]
  /\ fPc \in [Follower -> {"recv", "ack", "return"}]

Init ==
  /\ chan = [l \in Link |-> << >>]
  /\ status = [p \in Proc |-> "up"]
  /\ killed = {}
  /\ order \in {o \in [Follower -> 1 .. Cardinality(Follower)] :
                  \A f, g \in Follower : o[f] = o[g] => f = g}
  /\ nextReq = 0 /\ sentTo = {}
  /\ log = [f \in Follower |-> EmptyLog]
  /\ cmt = [f \in Follower |-> -1]
  /\ lastNode = [f \in Follower |-> -1]
  /\ lastCleanup = [f \in Follower |-> 0]
  /\ receiver = [f \in Follower |-> "running"]
  /\ fLog = [f \in Follower |-> EmptyLog]
  /\ fCmt = [f \in Follower |-> -1]
  /\ fPc = [f \in Follower |-> "recv"]

-----------------------------------------------------------------------------
(***************************************************************************)
(* Mistaken versions of the actions below: a run that uses one in place of *)
(* its original must find a property violated.                             *)
(***************************************************************************)
\* The loop of sender() runs to i <= nb_requests.
NextToOneMore(f) ==
  /\ nextReq <= NbRequests
  /\ f \notin sentTo
  /\ \A g \in Follower \ sentTo : order[f] <= order[g]

\* The sending sockets do not block, and a follower with a full link is left out.
SenderSkips(f) ==
  /\ Up(Leader) /\ nextReq < NbRequests /\ f \notin sentTo
  /\ IF Len(chan[To(f)]) < Cap THEN Send(To(f), nextReq) ELSE UNCHANGED chan
  /\ IF sentTo \cup {f} = Follower
     THEN nextReq' = nextReq + 1 /\ sentTo' = {}
     ELSE nextReq' = nextReq /\ sentTo' = sentTo \cup {f}
  /\ UNCHANGED <<status, killed, order, receiverVars, followerVars>>

\* The receiver cleans up before it commits.
LeaderCleansUpFirst(f) ==
  /\ Up(Leader) /\ receiver[f] = "running" /\ cmt[f] + 1 # NbRequests
  /\ Receive(From(f))
  /\ LET added == AddTo(log[f], Arrived(From(f)), f)
     IN  /\ lastNode' = [lastNode EXCEPT ![f] = LastCmtNode(added, cmt[f], @)]
         /\ cmt' = [cmt EXCEPT ![f] = LeaderCommit(added, @, lastNode[f])]
         /\ lastCleanup' = [lastCleanup EXCEPT ![f] = CleanupTo(added, @, cmt[f])]
         /\ log' = [log EXCEPT ![f] =
                      Remove(added, lastCleanup[f] .. (lastCleanup'[f] - 1))]
  /\ UNCHANGED <<status, killed, senderVars, receiver, followerVars>>

\* main() of the leader joins the sender and one receiver.
LeaderJoinsOne ==
  /\ Up(Leader) /\ nextReq = NbRequests
  /\ \E f \in Follower : receiver[f] = "finished"
  /\ End(Leader, "done")
  /\ UNCHANGED <<chan, killed, senderVars, receiverVars, followerVars>>

\* The follower repeats an acknowledgement that was sent.
FollowerAckAgain(f) ==
  /\ Up(f) /\ fPc[f] = "ack"
  /\ Send(From(f), fCmt[f])
  /\ \/ UNCHANGED fPc
     \/ fPc' = [fPc EXCEPT ![f] = IF fCmt[f] + 1 = NbRequests THEN "return" ELSE "recv"]
  /\ UNCHANGED <<status, killed, senderVars, receiverVars, fLog, fCmt>>

\* The follower reports the end of the stream and goes on reading.
FollowerEofIgnored(f) ==
  /\ Up(f) /\ fPc[f] = "recv"
  /\ EndOfStream(To(f), Leader)
  /\ UNCHANGED vars

-----------------------------------------------------------------------------
(***************************************************************************)
(* Leader: the sender thread.  NextTo(f): f is the follower that           *)
(* gen_and_send_request writes to next.                                    *)
(***************************************************************************)
NextTo(f) ==
  /\ nextReq < NbRequests
  /\ f \notin sentTo
  /\ \A g \in Follower \ sentTo : order[f] <= order[g]

SenderSend(f) ==
  /\ Up(Leader) /\ NextTo(f)
  /\ Send(To(f), nextReq)
  /\ IF sentTo \cup {f} = Follower
     THEN nextReq' = nextReq + 1 /\ sentTo' = {}
     ELSE nextReq' = nextReq /\ sentTo' = sentTo \cup {f}
  /\ UNCHANGED <<status, killed, order, receiverVars, followerVars>>

SenderFails(f) ==
  /\ Up(Leader) /\ NextTo(f)
  /\ SendFails(Leader, f)
  /\ UNCHANGED <<chan, killed, senderVars, receiverVars, followerVars>>

(***************************************************************************)
(* Leader: the receiver thread of follower f.                              *)
(***************************************************************************)
ReceiverReading(f) == Up(Leader) /\ receiver[f] = "running" /\ cmt[f] + 1 # NbRequests

\* Take the acknowledgement into the log, commit, clean up.
LeaderReceive(f) ==
  /\ ReceiverReading(f)
  /\ Receive(From(f))
  /\ LET added == AddTo(log[f], Arrived(From(f)), f)
     IN  /\ lastNode' = [lastNode EXCEPT ![f] = LastCmtNode(added, cmt[f], @)]
         /\ cmt' = [cmt EXCEPT ![f] = LeaderCommit(added, @, lastNode[f])]
         /\ lastCleanup' = [lastCleanup EXCEPT ![f] = CleanupTo(added, @, cmt'[f])]
         /\ log' = [log EXCEPT ![f] =
                      Remove(added, lastCleanup[f] .. (lastCleanup'[f] - 1))]
  /\ UNCHANGED <<status, killed, senderVars, receiver, followerVars>>

\* The missing buffer is verified, a null read, before bytecount is looked at.
LeaderEof(f) ==
  /\ ReceiverReading(f)
  /\ EndOfStream(From(f), f)
  /\ End(Leader, "dead")
  /\ UNCHANGED <<chan, killed, senderVars, receiverVars, followerVars>>

LeaderFinished(f) ==
  /\ Up(Leader) /\ receiver[f] = "running" /\ cmt[f] + 1 = NbRequests
  /\ lastCleanup' = [lastCleanup EXCEPT ![f] = CleanupTo(log[f], @, cmt[f])]
  /\ log' = [log EXCEPT ![f] = Remove(@, lastCleanup[f] .. (lastCleanup'[f] - 1))]
  /\ receiver' = [receiver EXCEPT ![f] = "finished"]
  /\ UNCHANGED <<chan, status, killed, senderVars, cmt, lastNode, followerVars>>

\* main() joins the three threads.
LeaderReturns ==
  /\ Up(Leader) /\ nextReq = NbRequests
  /\ \A f \in Follower : receiver[f] = "finished"
  /\ End(Leader, "done")
  /\ UNCHANGED <<chan, killed, senderVars, receiverVars, followerVars>>

-----------------------------------------------------------------------------
(***************************************************************************)
(* Follower f: one thread.                                                 *)
(***************************************************************************)
FollowerReceive(f) ==
  /\ Up(f) /\ fPc[f] = "recv"
  /\ Receive(To(f))
  /\ LET req == Arrived(To(f))
         added == IF req > fCmt[f] /\ ~ HasKey(fLog[f], req)
                  THEN AddTo(fLog[f], req, f) ELSE fLog[f]
     IN  /\ fCmt' = [fCmt EXCEPT ![f] = FollowerCommit(added, @)]
         /\ fLog' = [fLog EXCEPT ![f] = Remove(added, (fCmt[f] + 1) .. fCmt'[f])]
  /\ fPc' = [fPc EXCEPT ![f] = "ack"]
  /\ UNCHANGED <<status, killed, senderVars, receiverVars>>

\* As in LeaderEof.
FollowerEof(f) ==
  /\ Up(f) /\ fPc[f] = "recv"
  /\ EndOfStream(To(f), Leader)
  /\ End(f, "dead")
  /\ UNCHANGED <<chan, killed, senderVars, receiverVars, followerVars>>

FollowerAck(f) ==
  /\ Up(f) /\ fPc[f] = "ack"
  /\ Send(From(f), fCmt[f])
  /\ fPc' = [fPc EXCEPT ![f] = IF fCmt[f] + 1 = NbRequests THEN "return" ELSE "recv"]
  /\ UNCHANGED <<status, killed, senderVars, receiverVars, fLog, fCmt>>

FollowerAckFails(f) ==
  /\ Up(f) /\ fPc[f] = "ack"
  /\ SendFails(f, Leader)
  /\ UNCHANGED <<chan, killed, senderVars, receiverVars, followerVars>>

FollowerReturns(f) ==
  /\ Up(f) /\ fPc[f] = "return"
  /\ End(f, "done")
  /\ UNCHANGED <<chan, killed, senderVars, receiverVars, followerVars>>

-----------------------------------------------------------------------------
\* A process is killed; the kernel still delivers what it has written.
Kill(p) ==
  /\ Up(p) /\ Cardinality(killed) < MaxKills
  /\ killed' = killed \cup {p}
  /\ End(p, "dead")
  /\ UNCHANGED <<chan, senderVars, receiverVars, followerVars>>

AllEnded == \A p \in Proc : ~ Up(p)
Ended == AllEnded /\ UNCHANGED vars

Sender == \E f \in Follower : SenderSend(f) \/ SenderFails(f)

\* A mistaken version of Receiver: the receivers have no threads of their own
\* and main() calls them after the sender.
ReceiverAfterSender(f) ==
  /\ Up(Leader)
  /\ IF nextReq < NbRequests
     THEN UNCHANGED vars
     ELSE LeaderReceive(f) \/ LeaderEof(f) \/ LeaderFinished(f)

Receiver(f) == LeaderReceive(f) \/ LeaderEof(f) \/ LeaderFinished(f)
FollowerNode(f) ==
  FollowerReceive(f) \/ FollowerEof(f) \/ FollowerAck(f) \/ FollowerAckFails(f)
    \/ FollowerReturns(f)

Next ==
  \/ Sender
  \/ \E f \in Follower : Receiver(f) \/ FollowerNode(f)
  \/ LeaderReturns
  \/ \E p \in Proc : Kill(p)
  \/ Ended

Spec == Init /\ [][Next]_vars

\* Every thread that can run is scheduled again and again.
Fairness ==
  /\ WF_vars(Sender)
  /\ WF_vars(LeaderReturns)
  /\ \A f \in Follower : WF_vars(Receiver(f)) /\ WF_vars(FollowerNode(f))

FairSpec == Spec /\ Fairness

-----------------------------------------------------------------------------
(***************************************************************************)
(* Safety.                                                                 *)
(***************************************************************************)
\* How many requests were written to f, and how many f has acknowledged.
Sent(f) == IF f \in sentTo THEN nextReq + 1 ELSE nextReq
Acked(f) == IF fPc[f] = "ack" THEN fCmt[f] ELSE fCmt[f] + 1

\* q holds exactly the consecutive ids from, from + 1, ..., to - 1.
Carries(q, from, to) ==
  /\ Len(q) = to - from
  /\ \A k \in 1 .. Len(q) : q[k] = from + k - 1

(***************************************************************************)
(* Each follower is sent every request once and in order, and the leader   *)
(* reads one acknowledgement for each, although three threads of the       *)
(* leader work on the followers at their own pace.                         *)
(***************************************************************************)
Pipeline ==
  \A f \in Follower :
    /\ Carries(chan[To(f)], fCmt[f] + 1, Sent(f))
    /\ Carries(chan[From(f)], cmt[f] + 1, Acked(f))

(***************************************************************************)
(* The logs never fill up: an entry is committed and removed in the turn   *)
(* that added it, and a receiver only ever commits entries of its own      *)
(* follower (leader.cpp:77-91, 105-110).                                   *)
(***************************************************************************)
LogsStayEmpty ==
  \A f \in Follower :
    /\ DOMAIN log[f] = {} /\ DOMAIN fLog[f] = {}
    /\ lastCleanup[f] = cmt[f] + 1
    /\ lastNode[f] \in {-1, f}

(***************************************************************************)
(* A slow follower throttles the others: since one sender thread writes to *)
(* all with blocking sends, no follower is ahead of another by more than   *)
(* what a link buffers and the request being sent (leader.cpp:32, 58).     *)
(***************************************************************************)
SlowFollowerThrottles ==
  \A f, g \in Follower : fCmt[f] - fCmt[g] <= Cap + 1

\* Each receiver thread commits one request after the other, none twice and
\* none before its predecessor (leader.cpp:96).
CommitsInOrder == [][\A f \in Follower : cmt'[f] \in {cmt[f], cmt[f] + 1}]_cmt

(***************************************************************************)
(* Shutdown order: as long as no process is killed from outside, none of   *)
(* them hits a failed send or the missing buffer at the end of a stream.   *)
(***************************************************************************)
NoCollateralDeath == killed = {} => \A p \in Proc : status[p] # "dead"

(***************************************************************************)
(* A leader that ends normally has had every request committed by every    *)
(* follower: with a follower lost it never returns 0.                      *)
(***************************************************************************)
DoneMeansReplicated ==
  status[Leader] = "done" => \A f \in Follower : fCmt[f] + 1 = NbRequests

(***************************************************************************)
(* leader.cpp:150-156: a receiver that reads no message handles the error  *)
(* by printing it and returning, so that main() can join it.  Once all is  *)
(* sent nothing else of the leader's can fail: it should not die then.     *)
(***************************************************************************)
ReceiveErrorIsHandled ==
  nextReq = NbRequests /\ Leader \notin killed => status[Leader] # "dead"

(***************************************************************************)
(* The protocol implements Replication with any one follower as a quorum   *)
(* (with the leader, a majority of three).  A request is submitted when it *)
(* is first written, and committed when the first receiver commits it.     *)
(***************************************************************************)
MaxCmt == CHOOSE n \in {cmt[f] : f \in Follower} : \A f \in Follower : cmt[f] <= n

R == INSTANCE Replication WITH
       Replica <- Follower,
       Upstream <- [f \in Follower |-> {}],
       Quorum <- {{f} : f \in Follower},
       submitted <- IF sentTo = {} THEN nextReq ELSE nextReq + 1,
       applied <- [f \in Follower |-> fCmt[f] + 1],
       committed <- MaxCmt + 1

ImplementsReplication == R!Spec

-----------------------------------------------------------------------------
(***************************************************************************)
(* Liveness, under FairSpec.                                               *)
(***************************************************************************)
\* Without a kill everything is committed by every receiver and all processes
\* return 0: the full links never close a cycle of waiting threads, also with
\* more requests than the links and the processes on a follower's path hold.
Completes ==
  <>(\/ killed # {}
     \/ /\ \A f \in Follower : cmt[f] + 1 = NbRequests
        /\ \A p \in Proc : status[p] = "done")

\* After a kill nobody is left waiting: every process ends.
NobodyHangs == <>AllEnded

\* A follower that has acknowledged its last request is no longer needed: the
\* leader still returns 0, and every follower that was not killed does.
FinishedFollowerMayDie ==
  (\A f \in Follower : fPc[f] = "return" \/ f \notin killed) /\ Leader \notin killed
    ~> (\/ status[Leader] = "done" /\ \A f \in Follower \ killed : status[f] = "done"
        \/ Leader \in killed
        \/ \E f \in killed \cap Follower : fPc[f] # "return")
=============================================================================
