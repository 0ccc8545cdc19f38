-------------------------- MODULE ChainReplication --------------------------
(***************************************************************************)
(* Chain replication: cr/head.cpp, cr/middle.cpp and cr/tail.cpp over the  *)
(* links of cr/net.  The head's sender thread writes requests 0, 1, ... to *)
(* the middle, the middle records and forwards them to the tail, the tail  *)
(* records them and acknowledges to the head, whose receiver_finale thread *)
(* commits what it reads.  The model starts where main() has set up the    *)
(* connections and starts the threads, and ends when the processes end.    *)
(*                                                                         *)
(* A message is its request id: the node id that travels with it is never  *)
(* read in cr/.                                                            *)
(***************************************************************************)
EXTENDS Integers, Sequences, FiniteSets

CONSTANTS
  NbRequests,       \* nb_requests of config.h
  Cap,              \* messages a link buffers
  MaxKills          \* bound on the processes killed from outside

ASSUME ConstantsAssumption ==
  /\ NbRequests \in Nat \ {0}
  /\ Cap \in Nat \ {0}
  /\ MaxKills \in Nat

VARIABLES
  chan, status,     \* see Sockets
  killed,           \* processes killed from outside
  nextReq,          \* sender: loop counter i
  headCmt, finale,  \* receiver_finale: s.cmt_idx, and how far the thread is
  midCmt, midReq,   \* middle receiver: s.cmt_idx, the request being handled
  midPc,
  tailCmt, tailPc   \* tail receiver: s.cmt_idx

INSTANCE Sockets

headVars == <<nextReq, headCmt, finale>>
midVars == <<midCmt, midReq, midPc>>
tailVars == <<tailCmt, tailPc>>
vars == <<chan, status, killed, headVars, midVars, tailVars>>

Proc == {"head", "middle", "tail"}
Link == {"head_middle", "middle_tail", "tail_head"}

TypeOK ==
  /\ chan \in [Link -> Seq(Int)]
  /\ status \in [Proc -> Status]
  /\ killed \in SUBSET Proc
  /\ nextReq \in 0 .. NbRequests
  /\ headCmt \in Int /\ midCmt \in Int /\ midReq \in Int /\ tailCmt \in Int
  /\ finale \in {"running", "finished", "error"}
  /\ midPc \in {"recv", "forward", "return"}
  /\ tailPc \in {"recv", "ack", "return"}

Init ==
  /\ chan = [l \in Link |-> << >>]
  /\ status = [p \in Proc |-> "up"]
  /\ killed = {}
  /\ nextReq = 0 /\ headCmt = -1 /\ finale = "running"
  /\ midCmt = -1 /\ midReq = -1 /\ midPc = "recv"
  /\ tailCmt = -1 /\ tailPc = "recv"

\* The middle and the tail record a request only if it is the next one; any
\* other is reported ("error in req_id") and then handled all the same.
Record(cmt, req) == IF req = cmt + 1 THEN cmt + 1 ELSE cmt

-----------------------------------------------------------------------------
(***************************************************************************)
(* Mistaken versions of the actions below, one for each property: a run    *)
(* that uses one in place of its original must find the property violated. *)
(***************************************************************************)
\* The loop of sender() runs to i <= nb_requests.
SenderSendOneMore ==
  /\ Up("head") /\ nextReq <= NbRequests
  /\ Send("head_middle", nextReq)
  /\ nextReq' = nextReq + 1
  /\ UNCHANGED <<status, killed, headCmt, finale, midVars, tailVars>>

\* receiver_finale takes the acknowledged id for the next one to expect.
FinaleReceiveNext ==
  /\ Up("head") /\ finale = "running" /\ headCmt + 1 # NbRequests
  /\ Receive("tail_head")
  /\ headCmt' = Arrived("tail_head") + 1
  /\ UNCHANGED <<status, killed, nextReq, finale, midVars, tailVars>>

\* main() of the head joins only the sender.
HeadReturnsEarly ==
  /\ Up("head") /\ nextReq = NbRequests
  /\ End("head", "done")
  /\ UNCHANGED <<chan, killed, headVars, midVars, tailVars>>

\* The middle checks whether it has everything before it forwards.
MiddleReceiveChecksFirst ==
  /\ Up("middle") /\ midPc = "recv"
  /\ Receive("head_middle")
  /\ midReq' = Arrived("head_middle")
  /\ midCmt' = Record(midCmt, Arrived("head_middle"))
  /\ midPc' = IF midCmt' + 1 = NbRequests THEN "return" ELSE "forward"
  /\ UNCHANGED <<status, killed, headVars, tailVars>>

\* The middle reports the end of the stream and goes on reading.
MiddleEofIgnored ==
  /\ Up("middle") /\ midPc = "recv"
  /\ EndOfStream("head_middle", "head")
  /\ UNCHANGED vars

\* The middle repeats a send that has succeeded.
MiddleForwardAgain ==
  /\ Up("middle") /\ midPc = "forward"
  /\ Send("middle_tail", midReq)
  /\ midPc' \in {"forward", IF midCmt + 1 = NbRequests THEN "return" ELSE "recv"}
  /\ UNCHANGED <<status, killed, headVars, midCmt, midReq, tailVars>>

\* The tail acknowledges only when it has nothing left to read.
TailReceiveBatches ==
  /\ Up("tail") /\ tailPc = "recv"
  /\ Receive("middle_tail")
  /\ tailCmt' = Record(tailCmt, Arrived("middle_tail"))
  /\ tailPc' = IF chan'["middle_tail"] = << >> THEN "ack" ELSE "recv"
  /\ UNCHANGED <<status, killed, headVars, midVars>>

\* The tail never accepts the end of the stream.
TailEofFatal ==
  /\ Up("tail") /\ tailPc = "recv"
  /\ EndOfStream("middle_tail", "middle")
  /\ End("tail", "dead")
  /\ UNCHANGED <<chan, killed, headVars, midVars, tailVars>>

\* The tail acknowledges the request it expects next.
TailAckNext ==
  /\ Up("tail") /\ tailPc = "ack"
  /\ Send("tail_head", tailCmt + 1)
  /\ tailPc' = "recv"
  /\ UNCHANGED <<status, killed, headVars, midVars, tailCmt>>

-----------------------------------------------------------------------------
(***************************************************************************)
(* Head: the sender thread.                                                *)
(***************************************************************************)
SenderSend ==
  /\ Up("head") /\ nextReq < NbRequests
  /\ Send("head_middle", nextReq)
  /\ nextReq' = nextReq + 1
  /\ UNCHANGED <<status, killed, headCmt, finale, midVars, tailVars>>

SenderFails ==
  /\ Up("head") /\ nextReq < NbRequests
  /\ SendFails("head", "middle")
  /\ UNCHANGED <<chan, killed, headVars, midVars, tailVars>>

(***************************************************************************)
(* Head: the receiver_finale thread.  The acknowledged id is assigned to   *)
(* cmt_idx without looking at the old value.                               *)
(***************************************************************************)
FinaleReading == Up("head") /\ finale = "running" /\ headCmt + 1 # NbRequests

FinaleReceive ==
  /\ FinaleReading
  /\ Receive("tail_head")
  /\ headCmt' = Arrived("tail_head")
  /\ UNCHANGED <<status, killed, nextReq, finale, midVars, tailVars>>

FinaleEnd(how) ==
  /\ finale' = how
  /\ UNCHANGED <<chan, status, killed, nextReq, headCmt, midVars, tailVars>>

FinaleEof == FinaleReading /\ EndOfStream("tail_head", "tail") /\ FinaleEnd("error")

FinaleFinished ==
  /\ Up("head") /\ finale = "running" /\ headCmt + 1 = NbRequests
  /\ FinaleEnd("finished")

\* main() joins both threads and returns 0, however they ended.
HeadReturns ==
  /\ Up("head") /\ nextReq = NbRequests /\ finale # "running"
  /\ End("head", "done")
  /\ UNCHANGED <<chan, killed, headVars, midVars, tailVars>>

-----------------------------------------------------------------------------
(***************************************************************************)
(* Middle: one thread; forward_msg may block between reading the request   *)
(* and the next turn of the loop.                                          *)
(***************************************************************************)
MiddleReceive ==
  /\ Up("middle") /\ midPc = "recv"
  /\ Receive("head_middle")
  /\ midReq' = Arrived("head_middle")
  /\ midCmt' = Record(midCmt, Arrived("head_middle"))
  /\ midPc' = "forward"
  /\ UNCHANGED <<status, killed, headVars, tailVars>>

\* The missing buffer is printed as an error and then verified: a null read.
MiddleEof ==
  /\ Up("middle") /\ midPc = "recv"
  /\ EndOfStream("head_middle", "head")
  /\ End("middle", "dead")
  /\ UNCHANGED <<chan, killed, headVars, midVars, tailVars>>

MiddleForward ==
  /\ Up("middle") /\ midPc = "forward"
  /\ Send("middle_tail", midReq)
  /\ midPc' = IF midCmt + 1 = NbRequests THEN "return" ELSE "recv"
  /\ UNCHANGED <<status, killed, headVars, midCmt, midReq, tailVars>>

MiddleForwardFails ==
  /\ Up("middle") /\ midPc = "forward"
  /\ SendFails("middle", "tail")
  /\ UNCHANGED <<chan, killed, headVars, midVars, tailVars>>

MiddleReturns ==
  /\ Up("middle") /\ midPc = "return"
  /\ End("middle", "done")
  /\ UNCHANGED <<chan, killed, headVars, midVars, tailVars>>

-----------------------------------------------------------------------------
(***************************************************************************)
(* Tail: one thread.  It acknowledges its own cmt_idx, not the request it  *)
(* read, and ignores the "finished" result of send_ack_to_leader: only the *)
(* end of the stream from the middle makes it return.                      *)
(***************************************************************************)
TailReceive ==
  /\ Up("tail") /\ tailPc = "recv"
  /\ Receive("middle_tail")
  /\ tailCmt' = Record(tailCmt, Arrived("middle_tail"))
  /\ tailPc' = "ack"
  /\ UNCHANGED <<status, killed, headVars, midVars>>

TailEof ==
  /\ Up("tail") /\ tailPc = "recv"
  /\ EndOfStream("middle_tail", "middle")
  /\ IF tailCmt + 1 = NbRequests
     THEN tailPc' = "return" /\ UNCHANGED status
     ELSE End("tail", "dead") /\ UNCHANGED tailPc      \* as in MiddleEof
  /\ UNCHANGED <<chan, killed, headVars, midVars, tailCmt>>

TailAck ==
  /\ Up("tail") /\ tailPc = "ack"
  /\ Send("tail_head", tailCmt)
  /\ tailPc' = "recv"
  /\ UNCHANGED <<status, killed, headVars, midVars, tailCmt>>

TailAckFails ==
  /\ Up("tail") /\ tailPc = "ack"
  /\ SendFails("tail", "head")
  /\ UNCHANGED <<chan, killed, headVars, midVars, tailVars>>

TailReturns ==
  /\ Up("tail") /\ tailPc = "return"
  /\ End("tail", "done")
  /\ UNCHANGED <<chan, killed, headVars, midVars, tailVars>>

-----------------------------------------------------------------------------
\* A process is killed; the kernel still delivers what it has written.
Kill(p) ==
  /\ Up(p) /\ Cardinality(killed) < MaxKills
  /\ killed' = killed \cup {p}
  /\ End(p, "dead")
  /\ UNCHANGED <<chan, headVars, midVars, tailVars>>

\* All three processes have ended: the only state that may have no successor.
AllEnded == \A p \in Proc : ~ Up(p)
Ended == AllEnded /\ UNCHANGED vars

Sender == SenderSend \/ SenderFails
ReceiverFinale == FinaleReceive \/ FinaleEof \/ FinaleFinished
Middle == MiddleReceive \/ MiddleEof \/ MiddleForward \/ MiddleForwardFails \/ MiddleReturns
TailNode == TailReceive \/ TailEof \/ TailAck \/ TailAckFails \/ TailReturns

Next ==
  \/ Sender
  \/ ReceiverFinale
  \/ HeadReturns
  \/ Middle
  \/ TailNode
  \/ \E p \in Proc : Kill(p)
  \/ Ended

Spec == Init /\ [][Next]_vars

\* Every thread that can run is scheduled again and again.
Fairness ==
  /\ WF_vars(Sender)
  /\ WF_vars(ReceiverFinale)
  /\ WF_vars(HeadReturns)
  /\ WF_vars(Middle)
  /\ WF_vars(TailNode)

FairSpec == Spec /\ Fairness

-----------------------------------------------------------------------------
(***************************************************************************)
(* Safety.                                                                 *)
(***************************************************************************)
\* How many requests the middle has passed on and the tail has acknowledged.
Forwarded == IF midPc = "forward" THEN midCmt ELSE midCmt + 1
Acked == IF tailPc = "ack" THEN tailCmt ELSE tailCmt + 1

\* q holds exactly the consecutive ids from, from + 1, ..., to - 1.
Carries(q, from, to) ==
  /\ Len(q) = to - from
  /\ \A k \in 1 .. Len(q) : q[k] = from + k - 1

(***************************************************************************)
(* Every request submitted and not yet committed is in exactly one place   *)
(* of the ring, and the places hold them in order: each link carries       *)
(* exactly the run of ids between the counters at its two ends, whatever   *)
(* blocked, failed or was killed.  In particular the middle and the tail   *)
(* never take the "error in req_id" branch (middle.cpp:82, tail.cpp:92).   *)
(***************************************************************************)
Pipeline ==
  /\ Carries(chan["head_middle"], midCmt + 1, nextReq)
  /\ Carries(chan["middle_tail"], tailCmt + 1, Forwarded)
  /\ Carries(chan["tail_head"], headCmt + 1, Acked)
  /\ midPc = "forward" => midReq = midCmt

(***************************************************************************)
(* What the head has committed, the tail has recorded; what the tail has   *)
(* recorded, the middle has recorded; and all of it was submitted.         *)
(***************************************************************************)
CommittedIsReplicated ==
  headCmt <= tailCmt /\ tailCmt <= midCmt /\ midCmt < nextReq

(***************************************************************************)
(* The unguarded assignment of head.cpp:161 commits every request once and *)
(* in order: cmt_idx never skips, repeats or goes back.                    *)
(***************************************************************************)
CommitsInOrder == [][headCmt' = headCmt + 1]_headCmt

(***************************************************************************)
(* Shutdown order: nobody closes a socket its peer still needs.  As long   *)
(* as no process is killed from outside, none of them hits the fatal paths *)
(* (a failed send, or the missing buffer at the end of a stream).          *)
(***************************************************************************)
NoCollateralDeath == killed = {} => \A p \in Proc : status[p] # "dead"

(***************************************************************************)
(* A head that returns 0 although requests are missing has a cause: its    *)
(* receiver_finale thread met the end of the tail's stream, and the tail   *)
(* did not end normally (head.cpp:141).                                    *)
(***************************************************************************)
ShortfallHasCause ==
  status["head"] = "done" /\ headCmt + 1 # NbRequests
    => finale = "error" /\ status["tail"] = "dead"

(***************************************************************************)
(* Chain replication implements Replication with the middle and the tail   *)
(* as the only quorum, the tail applying after the middle.                 *)
(***************************************************************************)
R == INSTANCE Replication WITH
       Replica <- {"middle", "tail"},
       Upstream <- [r \in {"middle", "tail"} |-> IF r = "tail" THEN {"middle"} ELSE {}],
       Quorum <- {{"middle", "tail"}},
       submitted <- nextReq,
       applied <- [r \in {"middle", "tail"} |-> (IF r = "tail" THEN tailCmt ELSE midCmt) + 1],
       committed <- headCmt + 1

ImplementsReplication == R!Spec

-----------------------------------------------------------------------------
(***************************************************************************)
(* Liveness, under FairSpec.                                               *)
(***************************************************************************)
\* Without a kill the experiment finishes: everything is committed and all
\* three processes return 0, in spite of full buffers and of the tail, which
\* only stops because the middle's end closes its stream (tail.cpp:66).
Completes ==
  <>(\/ killed # {}
     \/ headCmt + 1 = NbRequests /\ \A p \in Proc : status[p] = "done")

\* After a kill nobody is left waiting for a peer that is gone: every process
\* ends, normally or on one of the fatal paths (middle.cpp:57, tail.cpp:66).
NobodyHangs == <>AllEnded

\* Once the middle has passed on the last request it is no longer needed:
\* killing it then loses nothing, the head still commits everything.
LateMiddleKillIsHarmless ==
  (midPc = "return" /\ killed \subseteq {"middle"})
    ~> (headCmt + 1 = NbRequests \/ ~ killed \subseteq {"middle"})
=============================================================================
