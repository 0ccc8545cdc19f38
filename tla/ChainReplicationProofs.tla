----------------------- MODULE ChainReplicationProofs -----------------------
(***************************************************************************)
(* Proofs about ChainReplication, for every number of requests, every      *)
(* capacity of the links and every number of killed processes.             *)
(***************************************************************************)
EXTENDS ChainReplication, SequenceTheorems, TLAPS

-----------------------------------------------------------------------------
(***************************************************************************)
(* The two ends of a link that carries a run of consecutive ids.           *)
(***************************************************************************)
LEMMA CarriesEmpty ==
  ASSUME NEW a \in Int
  PROVE  Carries(<< >>, a, a)
BY DEF Carries

\* Writing the next id extends the run a link carries.
LEMMA CarriesAppend ==
  ASSUME NEW q \in Seq(Int), NEW a \in Int, NEW b \in Int, Carries(q, a, b)
  PROVE  Carries(Append(q, b), a, b + 1)
<1> DEFINE r == Append(q, b)
<1>1. /\ Len(q) \in Nat /\ Len(q) = b - a
      /\ \A k \in 1 .. Len(q) : q[k] = a + k - 1
  BY DEF Carries
<1>2. /\ Len(r) = Len(q) + 1
      /\ \A k \in 1 .. Len(q) : r[k] = q[k]
      /\ r[Len(q) + 1] = b
  BY AppendProperties
<1> HIDE DEF r
<1>3. Len(r) = (b + 1) - a
  BY <1>1, <1>2
<1>4. ASSUME NEW k \in 1 .. Len(r) PROVE r[k] = a + k - 1
  BY <1>1, <1>2
<1>5. Carries(r, a, b + 1)
  BY <1>3, <1>4 DEF Carries
<1>6. QED
  BY <1>5 DEF r

\* Reading takes the first id of the run, and leaves the rest of it.
LEMMA CarriesTail ==
  ASSUME NEW q \in Seq(Int), NEW a \in Int, NEW b \in Int, Carries(q, a, b),
         q # << >>
  PROVE  Head(q) = a /\ a < b /\ Carries(Tail(q), a + 1, b)
<1>1. Len(q) \in Nat \ {0}
  BY EmptySeq
<1>2. Head(q) = a /\ a < b
  BY <1>1 DEF Carries
<1>3. /\ Len(Tail(q)) = Len(q) - 1
      /\ \A i \in 1 .. Len(Tail(q)) : Tail(q)[i] = q[i + 1]
  BY HeadTailProperties
<1>4. Carries(Tail(q), a + 1, b)
  BY <1>1, <1>3 DEF Carries
<1>5. QED
  BY <1>2, <1>4

-----------------------------------------------------------------------------
(***************************************************************************)
(* Every variable keeps its type.                                          *)
(***************************************************************************)
LEMMA InitTypeOK == Init => TypeOK
BY ConstantsAssumption DEF Init, TypeOK, Status

\* No step of any process takes a variable out of its type.
LEMMA NextTypeOK == TypeOK /\ [Next]_vars => TypeOK'
<1> SUFFICES ASSUME TypeOK, [Next]_vars PROVE TypeOK'
  OBVIOUS
<1> USE DEF TypeOK, headVars, midVars, tailVars, Link
<1>1. CASE SenderSend
  BY <1>1, ConstantsAssumption DEF SenderSend, Send
<1>2. CASE SenderFails
  BY <1>2 DEF SenderFails, SendFails, End, Status
<1>3. CASE FinaleReceive
  BY <1>3 DEF FinaleReceive, Receive, Arrived
<1>4. CASE FinaleEof \/ FinaleFinished
  BY <1>4 DEF FinaleEof, FinaleFinished, FinaleEnd
<1>5. CASE HeadReturns
  BY <1>5 DEF HeadReturns, End, Status
<1>6. CASE MiddleReceive
  BY <1>6 DEF MiddleReceive, Receive, Arrived, Record
<1>7. CASE MiddleEof
  BY <1>7 DEF MiddleEof, End, Status
<1>8. CASE MiddleForward
  BY <1>8 DEF MiddleForward, Send
<1>9. CASE MiddleForwardFails
  BY <1>9 DEF MiddleForwardFails, SendFails, End, Status
<1>10. CASE MiddleReturns
  BY <1>10 DEF MiddleReturns, End, Status
<1>11. CASE TailReceive
  BY <1>11 DEF TailReceive, Receive, Arrived, Record
<1>12. CASE TailEof
  BY <1>12 DEF TailEof, End, Status
<1>13. CASE TailAck
  BY <1>13 DEF TailAck, Send
<1>14. CASE TailAckFails
  BY <1>14 DEF TailAckFails, SendFails, End, Status
<1>15. CASE TailReturns
  BY <1>15 DEF TailReturns, End, Status
<1>16. ASSUME NEW p \in Proc, Kill(p) PROVE TypeOK'
  BY <1>16 DEF Kill, End, Status
<1>17. CASE UNCHANGED vars
  BY <1>17 DEF vars
<1>18. QED
  BY <1>1, <1>2, <1>3, <1>4, <1>5, <1>6, <1>7, <1>8, <1>9, <1>10, <1>11, <1>12,
     <1>13, <1>14, <1>15, <1>16, <1>17
     DEF Next, Sender, ReceiverFinale, Middle, TailNode, Ended

\* Every variable has its type, whatever the three programs do.
THEOREM TypeCorrect == Spec => []TypeOK
BY InitTypeOK, NextTypeOK, PTL DEF Spec

-----------------------------------------------------------------------------
(***************************************************************************)
(* Pipeline is inductive relative to the types: a thread takes the head of *)
(* one run, or appends to the next, and moves the counter between them.    *)
(***************************************************************************)
LEMMA InitPipeline == Init => Pipeline
BY CarriesEmpty DEF Init, Pipeline, Forwarded, Acked, Link

\* Every step keeps the ids of a link between the counters at its ends.
LEMMA NextPipeline == TypeOK /\ Pipeline /\ [Next]_vars => Pipeline'
<1> SUFFICES ASSUME TypeOK, Pipeline, [Next]_vars PROVE Pipeline'
  OBVIOUS
<1> USE DEF TypeOK, Link, headVars, midVars, tailVars
<1> DEFINE HM == chan["head_middle"]
           MT == chan["middle_tail"]
           TH == chan["tail_head"]
<1>a. /\ HM \in Seq(Int) /\ MT \in Seq(Int) /\ TH \in Seq(Int)
      /\ nextReq \in Int /\ Forwarded \in Int /\ Acked \in Int
  BY ConstantsAssumption DEF Forwarded, Acked
<1>b. /\ Carries(HM, midCmt + 1, nextReq)
      /\ Carries(MT, tailCmt + 1, Forwarded)
      /\ Carries(TH, headCmt + 1, Acked)
      /\ midPc = "forward" => midReq = midCmt
  BY DEF Pipeline
<1>1. CASE SenderSend
  <2>1. chan' = [chan EXCEPT !["head_middle"] = Append(HM, nextReq)]
    BY <1>1 DEF SenderSend, Send
  <2>2. Carries(HM', midCmt' + 1, nextReq')
    BY <1>1, <1>a, <1>b, <2>1, CarriesAppend DEF SenderSend
  <2>3. MT' = MT /\ TH' = TH /\ Forwarded' = Forwarded /\ Acked' = Acked
    BY <1>1, <2>1 DEF SenderSend, Forwarded, Acked
  <2>4. QED
    BY <1>1, <1>b, <2>2, <2>3 DEF SenderSend, Pipeline
<1>2. CASE FinaleReceive
  <2>1. TH # << >> /\ chan' = [chan EXCEPT !["tail_head"] = Tail(TH)]
    BY <1>2 DEF FinaleReceive, Receive
  <2>2. headCmt' = headCmt + 1 /\ Carries(TH', headCmt' + 1, Acked)
    BY <1>2, <1>a, <1>b, <2>1, CarriesTail DEF FinaleReceive, Arrived
  <2>3. HM' = HM /\ MT' = MT /\ Forwarded' = Forwarded /\ Acked' = Acked
    BY <1>2, <2>1 DEF FinaleReceive, Forwarded, Acked
  <2>4. QED
    BY <1>2, <1>b, <2>2, <2>3 DEF FinaleReceive, Pipeline
<1>3. CASE MiddleReceive
  <2>1. HM # << >> /\ chan' = [chan EXCEPT !["head_middle"] = Tail(HM)]
    BY <1>3 DEF MiddleReceive, Receive
  <2>2. midReq' = midCmt + 1 /\ midCmt' = midCmt + 1 /\ Carries(HM', midCmt' + 1, nextReq')
    BY <1>3, <1>a, <1>b, <2>1, CarriesTail DEF MiddleReceive, Arrived, Record
  <2>3. MT' = MT /\ TH' = TH /\ Forwarded' = Forwarded /\ Acked' = Acked
    BY <1>3, <2>1, <2>2 DEF MiddleReceive, Forwarded, Acked
  <2>4. QED
    BY <1>3, <1>b, <2>2, <2>3 DEF MiddleReceive, Pipeline
<1>4. CASE MiddleForward
  <2>1. chan' = [chan EXCEPT !["middle_tail"] = Append(MT, Forwarded)]
    BY <1>4, <1>b DEF MiddleForward, Send, Forwarded
  <2>2. Forwarded' = Forwarded + 1 /\ Acked' = Acked
    BY <1>4 DEF MiddleForward, Forwarded, Acked
  <2>3. Carries(MT', tailCmt' + 1, Forwarded')
    BY <1>4, <1>a, <1>b, <2>1, <2>2, CarriesAppend DEF MiddleForward
  <2>4. HM' = HM /\ TH' = TH /\ midPc' # "forward"
    BY <1>4, <2>1 DEF MiddleForward
  <2>5. QED
    BY <1>4, <1>b, <2>2, <2>3, <2>4 DEF MiddleForward, Pipeline
<1>5. CASE TailReceive
  <2>1. MT # << >> /\ chan' = [chan EXCEPT !["middle_tail"] = Tail(MT)]
    BY <1>5 DEF TailReceive, Receive
  <2>2. tailCmt' = tailCmt + 1 /\ Carries(MT', tailCmt' + 1, Forwarded)
    BY <1>5, <1>a, <1>b, <2>1, CarriesTail DEF TailReceive, Arrived, Record
  <2>3. HM' = HM /\ TH' = TH /\ Forwarded' = Forwarded /\ Acked' = Acked
    BY <1>5, <2>1, <2>2 DEF TailReceive, Forwarded, Acked
  <2>4. QED
    BY <1>5, <1>b, <2>2, <2>3 DEF TailReceive, Pipeline
<1>6. CASE TailAck
  <2>1. chan' = [chan EXCEPT !["tail_head"] = Append(TH, Acked)]
    BY <1>6 DEF TailAck, Send, Acked
  <2>2. Acked' = Acked + 1 /\ Forwarded' = Forwarded
    BY <1>6 DEF TailAck, Forwarded, Acked
  <2>3. Carries(TH', headCmt' + 1, Acked')
    BY <1>6, <1>a, <1>b, <2>1, <2>2, CarriesAppend DEF TailAck
  <2>4. HM' = HM /\ MT' = MT
    BY <1>6, <2>1 DEF TailAck
  <2>5. QED
    BY <1>6, <1>b, <2>2, <2>3, <2>4 DEF TailAck, Pipeline
<1>7. CASE UNCHANGED <<chan, nextReq, headCmt, midCmt, midReq, midPc, tailCmt>>
           /\ (tailPc' = "ack") = (tailPc = "ack")
  BY <1>7 DEF Pipeline, Forwarded, Acked, Carries
<1>8. QED
  BY <1>1, <1>2, <1>3, <1>4, <1>5, <1>6, <1>7
     DEF Next, vars, Sender, SenderFails, ReceiverFinale, FinaleEof, FinaleFinished,
         FinaleEnd, HeadReturns, Middle, MiddleEof, MiddleForwardFails, MiddleReturns,
         TailNode, TailEof, TailAckFails, TailReturns, Kill, Ended

(***************************************************************************)
(* The links hold exactly the requests in flight, in order, and no request *)
(* is lost, repeated or out of place: middle.cpp:82 and tail.cpp:92 are    *)
(* never reached.                                                          *)
(***************************************************************************)
THEOREM PipelineCorrect == Spec => []Pipeline
BY TypeCorrect, InitPipeline, NextPipeline, PTL DEF Spec

-----------------------------------------------------------------------------
(***************************************************************************)
(* The counters are ordered along the chain.                               *)
(***************************************************************************)
LEMMA PipelineOrdersCounters ==
  ASSUME TypeOK, Pipeline
  PROVE  /\ CommittedIsReplicated
         /\ Forwarded <= midCmt + 1 /\ Acked <= tailCmt + 1
         /\ tailCmt + 1 <= Forwarded /\ headCmt + 1 <= Acked
BY ConstantsAssumption
   DEF TypeOK, Pipeline, Carries, Forwarded, Acked, CommittedIsReplicated, Link

(***************************************************************************)
(* What the head commits is on the tail and the middle, whatever is killed *)
(* in between and whichever links are full.                                *)
(***************************************************************************)
THEOREM CommitsAreReplicated == Spec => []CommittedIsReplicated
BY TypeCorrect, PipelineCorrect, PipelineOrdersCounters, PTL

(***************************************************************************)
(* The head commits the requests one after the other although              *)
(* receiver_finale (head.cpp:161) assigns what it reads without a check.   *)
(***************************************************************************)
THEOREM CommitsAreInOrder == Spec => CommitsInOrder
<1>1. TypeOK /\ Pipeline /\ [Next]_vars => [headCmt' = headCmt + 1]_headCmt
  <2> SUFFICES ASSUME TypeOK, Pipeline, [Next]_vars
               PROVE  [headCmt' = headCmt + 1]_headCmt
    OBVIOUS
  <2>1. CASE FinaleReceive
    <3>1. chan["tail_head"] \in Seq(Int) /\ headCmt + 1 \in Int /\ Acked \in Int
      BY DEF TypeOK, Link, Acked
    <3>2. headCmt' = headCmt + 1
      BY <2>1, <3>1, CarriesTail DEF FinaleReceive, Receive, Arrived, Pipeline
    <3>3. QED
      BY <3>2
  <2>2. CASE UNCHANGED headCmt
    BY <2>2
  <2>3. QED
    BY <2>1, <2>2
       DEF Next, vars, headVars, midVars, tailVars, Sender, SenderSend, SenderFails,
           ReceiverFinale, FinaleEof, FinaleFinished, FinaleEnd, HeadReturns, Middle,
           MiddleReceive, MiddleEof, MiddleForward, MiddleForwardFails, MiddleReturns,
           TailNode, TailReceive, TailEof, TailAck, TailAckFails, TailReturns, Kill, Ended
<1>2. QED
  BY <1>1, TypeCorrect, PipelineCorrect, PTL DEF Spec, CommitsInOrder

-----------------------------------------------------------------------------
(***************************************************************************)
(* How far a thread or a process has come tells what it has done.          *)
(***************************************************************************)
Shutdown ==
  /\ midPc = "recv" => midCmt + 1 # NbRequests
  /\ midPc = "return" => midCmt + 1 = NbRequests
  /\ tailPc = "return" => tailCmt + 1 = NbRequests
  /\ finale = "finished" => headCmt + 1 = NbRequests
  /\ finale = "error" => status["tail"] = "dead"
  /\ status["head"] = "done" => nextReq = NbRequests /\ finale # "running"
  /\ status["middle"] = "done" => midPc = "return"
  /\ status["tail"] = "done" => tailPc = "return"

(***************************************************************************)
(* Shutdown is inductive relative to the types and the pipeline.           *)
(***************************************************************************)
LEMMA InitShutdown == Init => Shutdown
BY ConstantsAssumption DEF Init, Shutdown, Proc

\* Every step keeps the order in which the processes end.
LEMMA NextShutdown == TypeOK /\ Pipeline /\ Shutdown /\ [Next]_vars => Shutdown'
<1> SUFFICES ASSUME TypeOK, Pipeline, Shutdown, [Next]_vars PROVE Shutdown'
  OBVIOUS
<1> USE DEF Proc, headVars, midVars, tailVars, Up
<1>t. /\ status \in [Proc -> Status] /\ NbRequests \in Int /\ nextReq \in Int
      /\ headCmt \in Int /\ midCmt \in Int /\ tailCmt \in Int /\ midReq \in Int
      /\ midPc \in {"recv", "forward", "return"} /\ tailPc \in {"recv", "ack", "return"}
      /\ finale \in {"running", "finished", "error"}
  BY ConstantsAssumption DEF TypeOK
<1>1. CASE SenderSend
  BY <1>1 DEF SenderSend, Shutdown
<1>2. ASSUME NEW p \in Proc, Up(p), End(p, "dead"),
             UNCHANGED <<nextReq, headCmt, finale, midCmt, midPc, tailCmt, tailPc>>
      PROVE  Shutdown'
  BY <1>2, <1>t DEF End, Shutdown
<1>3. CASE SenderFails
  BY <1>2, <1>3 DEF SenderFails, SendFails
<1>4. CASE FinaleReceive
  BY <1>4 DEF FinaleReceive, FinaleReading, Shutdown
<1>5. CASE FinaleEof
  <2>1. status["tail"] # "done"
    <3> SUFFICES ASSUME status["tail"] = "done" PROVE FALSE
      OBVIOUS
    <3>1. tailPc = "return" /\ tailCmt + 1 = NbRequests
      BY DEF Shutdown
    <3>2. headCmt + 1 = Acked
      BY <1>5, <1>t DEF FinaleEof, EndOfStream, Pipeline, Carries, Acked
    <3>3. QED
      BY <1>5, <3>1, <3>2 DEF FinaleEof, FinaleReading, Acked
  <2>2. status["tail"] = "dead"
    BY <1>5, <1>t, <2>1 DEF FinaleEof, EndOfStream, Status
  <2>3. QED
    BY <1>5, <2>2 DEF FinaleEof, FinaleReading, FinaleEnd, Shutdown
<1>6. CASE FinaleFinished
  BY <1>6 DEF FinaleFinished, FinaleEnd, Shutdown
<1>7. CASE HeadReturns
  BY <1>7, <1>t DEF HeadReturns, End, Shutdown
<1>8. CASE MiddleReceive
  BY <1>8, <1>t DEF MiddleReceive, Shutdown
<1>9. CASE MiddleEof
  BY <1>2, <1>9 DEF MiddleEof
<1>10. CASE MiddleForward
  BY <1>10, <1>t DEF MiddleForward, Shutdown
<1>11. CASE MiddleForwardFails
  BY <1>2, <1>11 DEF MiddleForwardFails, SendFails
<1>12. CASE MiddleReturns
  BY <1>12, <1>t DEF MiddleReturns, End, Shutdown
<1>13. CASE TailReceive
  BY <1>13, <1>t DEF TailReceive, Shutdown
<1>14. CASE TailEof
  BY <1>2, <1>14, <1>t DEF TailEof, Shutdown
<1>15. CASE TailAck
  BY <1>15, <1>t DEF TailAck, Shutdown
<1>16. CASE TailAckFails
  BY <1>2, <1>16 DEF TailAckFails, SendFails
<1>17. CASE TailReturns
  BY <1>17, <1>t DEF TailReturns, End, Shutdown
<1>18. ASSUME NEW p \in Proc, Kill(p) PROVE Shutdown'
  BY <1>2, <1>18 DEF Kill
<1>19. CASE UNCHANGED vars
  BY <1>19 DEF vars, Shutdown
<1>20. QED
  BY <1>1, <1>3, <1>4, <1>5, <1>6, <1>7, <1>8, <1>9, <1>10, <1>11, <1>12, <1>13,
     <1>14, <1>15, <1>16, <1>17, <1>18, <1>19
     DEF Next, Sender, ReceiverFinale, Middle, TailNode, Ended

\* The processes always end in that order.
LEMMA ShutdownCorrect == Spec => []Shutdown
BY TypeCorrect, PipelineCorrect, InitShutdown, NextShutdown, PTL DEF Spec

(***************************************************************************)
(* A head that ends normally without having committed everything met the   *)
(* end of the stream of a tail that died.                                  *)
(***************************************************************************)
THEOREM ShortfallAlwaysHasCause == Spec => []ShortfallHasCause
<1>1. TypeOK /\ Shutdown => ShortfallHasCause
  BY DEF TypeOK, Shutdown, ShortfallHasCause
<1>2. QED
  BY <1>1, TypeCorrect, ShutdownCorrect, PTL

-----------------------------------------------------------------------------
(***************************************************************************)
(* NoCollateralDeath is inductive relative to the three invariants above:  *)
(* a process whose peer is gone while nobody was killed has nothing left   *)
(* to send to it or to read from it.                                       *)
(***************************************************************************)
LEMMA NextNoCollateralDeath ==
  TypeOK /\ Pipeline /\ Shutdown /\ NoCollateralDeath /\ [Next]_vars
    => NoCollateralDeath'
<1> SUFFICES ASSUME TypeOK, Pipeline, Shutdown, NoCollateralDeath, [Next]_vars,
                    killed' = {}
             PROVE  \A p \in Proc : status'[p] # "dead"
  BY DEF NoCollateralDeath
<1> USE DEF Proc, headVars, midVars, tailVars, Up
<1>t. /\ status \in [Proc -> Status] /\ NbRequests \in Int
      /\ nextReq \in Int /\ nextReq <= NbRequests
      /\ headCmt \in Int /\ midCmt \in Int /\ tailCmt \in Int
      /\ finale \in {"running", "finished", "error"}
  BY ConstantsAssumption DEF TypeOK
<1>o. /\ headCmt <= tailCmt /\ tailCmt <= midCmt /\ midCmt < nextReq
      /\ tailCmt + 1 <= Forwarded /\ headCmt + 1 <= Acked
  BY PipelineOrdersCounters DEF CommittedIsReplicated
<1>k. killed = {}
  BY DEF Next, vars, Sender, SenderSend, SenderFails, ReceiverFinale, FinaleReceive,
         FinaleEof, FinaleFinished, FinaleEnd, HeadReturns, Middle, MiddleReceive,
         MiddleEof, MiddleForward, MiddleForwardFails, MiddleReturns, TailNode,
         TailReceive, TailEof, TailAck, TailAckFails, TailReturns, Kill, Ended
<1>d. \A p \in Proc : ~ Up(p) => status[p] = "done"
  BY <1>t, <1>k DEF NoCollateralDeath, Status
<1>1. ~ SenderFails
  BY <1>d, <1>t, <1>o DEF SenderFails, SendFails, Shutdown
<1>2. ~ MiddleEof
  <2> SUFFICES ASSUME MiddleEof PROVE FALSE
    OBVIOUS
  <2>1. nextReq = NbRequests /\ midCmt + 1 # NbRequests
    BY <1>d DEF MiddleEof, EndOfStream, Shutdown
  <2>2. midCmt + 1 = nextReq
    BY <1>t DEF MiddleEof, EndOfStream, Pipeline, Carries
  <2>3. QED
    BY <2>1, <2>2
<1>3. ~ MiddleForwardFails
  BY <1>d, <1>t, <1>o DEF MiddleForwardFails, SendFails, Shutdown, Forwarded
<1>4. TailEof => UNCHANGED status
  <2> SUFFICES ASSUME TailEof PROVE tailCmt + 1 = NbRequests
    BY DEF TailEof
  <2>1. midPc = "return" /\ midCmt + 1 = NbRequests
    BY <1>d DEF TailEof, EndOfStream, Shutdown
  <2>2. tailCmt + 1 = Forwarded
    BY <1>t, <2>1 DEF TailEof, EndOfStream, Pipeline, Carries, Forwarded
  <2>3. QED
    BY <2>1, <2>2 DEF Forwarded
<1>5. ~ TailAckFails
  <2> SUFFICES ASSUME TailAckFails PROVE FALSE
    OBVIOUS
  <2>1. nextReq = NbRequests /\ finale # "running" /\ status["tail"] # "dead"
    BY <1>d DEF TailAckFails, SendFails, Shutdown
  <2>2. headCmt + 1 = NbRequests
    BY <1>t, <2>1 DEF Shutdown
  <2>3. headCmt + 1 <= tailCmt
    BY <1>o DEF TailAckFails, Acked
  <2>4. QED
    BY <1>t, <1>o, <2>2, <2>3
<1>6. \A p \in Proc : ~ Kill(p)
  BY DEF Kill
<1>7. UNCHANGED status \/ \E p \in Proc : End(p, "done")
  BY <1>1, <1>2, <1>3, <1>4, <1>5, <1>6
     DEF Next, vars, Sender, SenderSend, ReceiverFinale, FinaleReceive, FinaleEof,
         FinaleFinished, FinaleEnd, HeadReturns, Middle, MiddleReceive, MiddleForward,
         MiddleReturns, TailNode, TailReceive, TailAck, TailReturns, Ended
<1>8. QED
  BY <1>7, <1>t, <1>k DEF End, NoCollateralDeath

(***************************************************************************)
(* As long as nobody is killed from outside no process hits a fatal path.  *)
(***************************************************************************)
THEOREM NobodyDiesAlone == Spec => []NoCollateralDeath
<1>1. Init => NoCollateralDeath
  BY DEF Init, NoCollateralDeath
<1>2. QED
  BY <1>1, TypeCorrect, PipelineCorrect, ShutdownCorrect, NextNoCollateralDeath, PTL
     DEF Spec

-----------------------------------------------------------------------------
(***************************************************************************)
(* Blocking.  A thread can go on when the call it is at returns: a send    *)
(* when the link has room or its reader is gone, a receive when the link   *)
(* holds something or its writer is gone.                                  *)
(***************************************************************************)
HeadCanGo ==
  /\ Up("head")
  /\ \/ nextReq < NbRequests /\ (Len(chan["head_middle"]) < Cap \/ ~ Up("middle"))
     \/ finale = "running"
          /\ (headCmt + 1 = NbRequests \/ chan["tail_head"] # << >> \/ ~ Up("tail"))
     \/ nextReq = NbRequests /\ finale # "running"

MiddleCanGo ==
  /\ Up("middle")
  /\ \/ midPc = "recv" /\ (chan["head_middle"] # << >> \/ ~ Up("head"))
     \/ midPc = "forward" /\ (Len(chan["middle_tail"]) < Cap \/ ~ Up("tail"))
     \/ midPc = "return"

TailCanGo ==
  /\ Up("tail")
  /\ \/ tailPc = "recv" /\ (chan["middle_tail"] # << >> \/ ~ Up("middle"))
     \/ tailPc = "ack" /\ (Len(chan["tail_head"]) < Cap \/ ~ Up("head"))
     \/ tailPc = "return"

NoDeadlock == AllEnded \/ HeadCanGo \/ MiddleCanGo \/ TailCanGo

(***************************************************************************)
(* The ring of bounded links never fills up around: whichever thread is    *)
(* blocked, some other one is not, because receiver_finale reads whenever  *)
(* an acknowledgement is there, also while the sender is blocked; and the  *)
(* end of a process lets its peers go on (middle.cpp:36, head.cpp:370).    *)
(* For links of any capacity, full or not, and whoever is killed.          *)
(***************************************************************************)
THEOREM ChainNeverDeadlocks == Spec => []NoDeadlock
<1>1. TypeOK /\ Pipeline /\ Shutdown => NoDeadlock
  <2> SUFFICES ASSUME TypeOK, Pipeline, Shutdown PROVE NoDeadlock
    OBVIOUS
  <2>t. /\ NbRequests \in Int /\ Cap \in Nat \ {0}
        /\ nextReq \in Int /\ nextReq <= NbRequests
        /\ headCmt \in Int /\ midCmt \in Int /\ tailCmt \in Int
        /\ midPc \in {"recv", "forward", "return"} /\ tailPc \in {"recv", "ack", "return"}
        /\ finale \in {"running", "finished", "error"}
    BY ConstantsAssumption DEF TypeOK
  <2>o. headCmt <= tailCmt /\ tailCmt <= midCmt /\ midCmt < nextReq
    BY PipelineOrdersCounters DEF CommittedIsReplicated
  <2>e. \A l \in Link : chan[l] = << >> => Len(chan[l]) < Cap
    BY <2>t
  <2>s. /\ finale = "finished" => headCmt + 1 = NbRequests
        /\ finale = "error" => ~ Up("tail")
        /\ midPc = "recv" => midCmt + 1 # NbRequests
    BY DEF Shutdown, Up
  \* A tail that runs can go on, or waits for the middle.
  <2>1. CASE Up("tail") /\ tailPc = "ack"
    <3>1. CASE Up("head") /\ Len(chan["tail_head"]) >= Cap
      <4>1. chan["tail_head"] # << >> /\ headCmt + 1 # NbRequests
        BY <2>1, <2>e, <2>o, <2>t, <3>1 DEF Pipeline, Carries, Acked, Link
      <4>2. finale = "running"
        BY <2>1, <2>s, <2>t, <4>1
      <4>. QED
        BY <3>1, <4>1, <4>2 DEF NoDeadlock, HeadCanGo
    <3>. QED
      BY <2>1, <2>t, <3>1 DEF NoDeadlock, TailCanGo, TypeOK, Link
  <2>2. CASE Up("tail") /\ tailPc = "recv" /\ Up("middle") /\ midPc = "forward"
    BY <2>2, <2>e DEF NoDeadlock, TailCanGo, MiddleCanGo, Link
  <2>3. CASE Up("middle") /\ midPc = "recv"
    <3>1. CASE nextReq < NbRequests
      BY <2>3, <2>e, <3>1 DEF NoDeadlock, MiddleCanGo, HeadCanGo, Link
    <3>2. CASE nextReq = NbRequests
      <4>1. chan["head_middle"] # << >>
        BY <2>3, <2>s, <2>t, <3>2 DEF Pipeline, Carries
      <4>. QED
        BY <2>3, <4>1 DEF NoDeadlock, MiddleCanGo
    <3>. QED
      BY <2>t, <3>1, <3>2
  <2>4. CASE ~ Up("middle") /\ ~ Up("tail")
    BY <2>4, <2>t DEF NoDeadlock, AllEnded, HeadCanGo, Proc
  <2>. QED
    BY <2>1, <2>2, <2>3, <2>4, <2>t DEF NoDeadlock, MiddleCanGo, TailCanGo
<1>. QED
  BY <1>1, TypeCorrect, PipelineCorrect, ShutdownCorrect, PTL

-----------------------------------------------------------------------------
(***************************************************************************)
(* Progress.  What is still to be done: at every counter of the chain the  *)
(* requests that have not passed it, and the threads and processes that    *)
(* have not ended.                                                         *)
(***************************************************************************)
Flag(b) == IF b THEN 1 ELSE 0

ToPass ==
  (NbRequests - nextReq) + (NbRequests - midCmt) + (NbRequests - Forwarded)
    + (NbRequests - tailCmt) + (NbRequests - Acked) + (NbRequests - headCmt)

ToEnd ==
  Flag(finale = "running") + Flag(tailPc # "return")
    + Flag(Up("head")) + Flag(Up("middle")) + Flag(Up("tail"))

Left == ToPass + ToEnd

\* No counter runs past the last request, so there is never less than
\* nothing to do.
LEMMA LeftIsNatural == TypeOK /\ Pipeline => Left \in Nat
<1> SUFFICES ASSUME TypeOK, Pipeline PROVE Left \in Nat
  OBVIOUS
<1>1. /\ NbRequests \in Int /\ nextReq \in Int /\ nextReq <= NbRequests
      /\ headCmt \in Int /\ midCmt \in Int /\ tailCmt \in Int
      /\ Forwarded \in Int /\ Acked \in Int
  BY ConstantsAssumption DEF TypeOK, Forwarded, Acked
<1>2. /\ headCmt <= tailCmt /\ tailCmt <= midCmt /\ midCmt < nextReq
      /\ Forwarded <= midCmt + 1 /\ Acked <= tailCmt + 1
  BY PipelineOrdersCounters DEF CommittedIsReplicated
<1>3. ToPass \in Nat
  BY <1>1, <1>2 DEF ToPass
<1>4. ToEnd \in Nat
  BY DEF ToEnd, Flag
<1>5. QED
  BY <1>3, <1>4 DEF Left

\* A step that passes a request on and ends nothing leaves less to do.
LEMMA NextLeavesLess == TypeOK /\ Pipeline /\ [Next]_vars => [Left' < Left]_vars
<1> SUFFICES ASSUME TypeOK, Pipeline, Next, ~ UNCHANGED vars PROVE Left' < Left
  OBVIOUS
<1> USE DEF headVars, midVars, tailVars
<1>t. /\ NbRequests \in Int /\ nextReq \in Int
      /\ headCmt \in Int /\ midCmt \in Int /\ tailCmt \in Int
      /\ Forwarded \in Int /\ Acked \in Int
      /\ midPc \in {"recv", "forward", "return"} /\ tailPc \in {"recv", "ack", "return"}
      /\ ToPass \in Int /\ ToEnd \in Int
      /\ status \in [Proc -> Status]
      /\ \A l \in Link : chan[l] \in Seq(Int)
  BY ConstantsAssumption DEF TypeOK, Forwarded, Acked, ToPass, ToEnd, Flag
<1>p. /\ Carries(chan["head_middle"], midCmt + 1, nextReq)
      /\ Carries(chan["middle_tail"], tailCmt + 1, Forwarded)
      /\ Carries(chan["tail_head"], headCmt + 1, Acked)
  BY DEF Pipeline
\* A request passes one of the counters.
<1>1. CASE SenderSend
  <2>1. ToPass' = ToPass - 1
    BY <1>1, <1>t DEF SenderSend, ToPass, Forwarded, Acked
  <2>2. ToEnd' = ToEnd
    BY <1>1 DEF SenderSend, ToEnd, Up
  <2>. QED
    BY <2>1, <2>2, <1>t DEF Left
<1>2. CASE FinaleReceive
  <2>1. headCmt' = headCmt + 1
    BY <1>2, <1>p, <1>t, CarriesTail DEF FinaleReceive, Receive, Arrived, Link
  <2>2. ToPass' = ToPass - 1
    BY <1>2, <1>t, <2>1 DEF FinaleReceive, ToPass, Forwarded, Acked
  <2>3. ToEnd' = ToEnd
    BY <1>2 DEF FinaleReceive, ToEnd, Up
  <2>. QED
    BY <2>2, <2>3, <1>t DEF Left
<1>3. CASE MiddleReceive
  <2>1. midCmt' = midCmt + 1
    BY <1>3, <1>p, <1>t, CarriesTail DEF MiddleReceive, Receive, Arrived, Record, Link
  <2>2. Forwarded' = Forwarded /\ Acked' = Acked
    BY <1>3, <1>t, <2>1 DEF MiddleReceive, Forwarded, Acked
  <2>3. ToPass' = ToPass - 1
    BY <1>3, <1>t, <2>1, <2>2 DEF MiddleReceive, ToPass
  <2>4. ToEnd' = ToEnd
    BY <1>3 DEF MiddleReceive, ToEnd, Up
  <2>. QED
    BY <2>3, <2>4, <1>t DEF Left
<1>4. CASE MiddleForward
  <2>1. Forwarded' = Forwarded + 1
    BY <1>4, <1>t DEF MiddleForward, Forwarded
  <2>2. ToPass' = ToPass - 1
    BY <1>4, <1>t, <2>1 DEF MiddleForward, ToPass, Acked
  <2>3. ToEnd' = ToEnd
    BY <1>4 DEF MiddleForward, ToEnd, Up
  <2>. QED
    BY <2>2, <2>3, <1>t DEF Left
<1>5. CASE TailReceive
  <2>1. tailCmt' = tailCmt + 1
    BY <1>5, <1>p, <1>t, CarriesTail DEF TailReceive, Receive, Arrived, Record, Link
  <2>2. Forwarded' = Forwarded /\ Acked' = Acked
    BY <1>5, <1>t, <2>1 DEF TailReceive, Forwarded, Acked
  <2>3. ToPass' = ToPass - 1
    BY <1>5, <1>t, <2>1, <2>2 DEF TailReceive, ToPass
  <2>4. ToEnd' = ToEnd
    BY <1>5 DEF TailReceive, ToEnd, Up
  <2>. QED
    BY <2>3, <2>4, <1>t DEF Left
<1>6. CASE TailAck
  <2>1. Acked' = Acked + 1
    BY <1>6, <1>t DEF TailAck, Acked
  <2>2. ToPass' = ToPass - 1
    BY <1>6, <1>t, <2>1 DEF TailAck, ToPass, Forwarded
  <2>3. ToEnd' = ToEnd
    BY <1>6 DEF TailAck, ToEnd, Up
  <2>. QED
    BY <2>2, <2>3, <1>t DEF Left
\* Or a thread or a process ends, and all counters stay.
<1>c. ASSUME UNCHANGED <<nextReq, headCmt, midCmt, midPc, tailCmt>>,
             (tailPc' = "ack") = (tailPc = "ack")
      PROVE  ToPass' = ToPass
  BY <1>c DEF ToPass, Forwarded, Acked
<1>7. CASE FinaleEof \/ FinaleFinished
  <2>1. ToEnd' = ToEnd - 1
    BY <1>7 DEF FinaleEof, FinaleFinished, FinaleReading, FinaleEnd, ToEnd, Flag, Up
  <2>2. ToPass' = ToPass
    BY <1>7, <1>c DEF FinaleEof, FinaleFinished, FinaleEnd
  <2>. QED
    BY <2>1, <2>2, <1>t DEF Left
<1>8. CASE TailEof /\ UNCHANGED status
  <2>1. ToEnd' = ToEnd - 1
    BY <1>8, <1>t DEF TailEof, End, ToEnd, Flag, Up, Proc
  <2>2. ToPass' = ToPass
    BY <1>8, <1>c DEF TailEof, End, Proc
  <2>. QED
    BY <2>1, <2>2, <1>t DEF Left
<1>9. ASSUME NEW p \in Proc, NEW how \in {"done", "dead"}, Up(p), End(p, how),
             UNCHANGED <<nextReq, headCmt, finale, midCmt, midPc, tailCmt, tailPc>>
      PROVE  Left' < Left
  <2>1. ToEnd' = ToEnd - 1
    BY <1>9, <1>t DEF End, ToEnd, Flag, Up, Proc
  <2>2. ToPass' = ToPass
    BY <1>9, <1>c
  <2>. QED
    BY <2>1, <2>2, <1>t DEF Left
<1>10. CASE SenderFails \/ HeadReturns
  BY <1>9, <1>10 DEF SenderFails, SendFails, HeadReturns, Proc
<1>11. CASE MiddleEof \/ MiddleForwardFails \/ MiddleReturns
  BY <1>9, <1>11 DEF MiddleEof, MiddleForwardFails, SendFails, MiddleReturns, Proc
<1>12. CASE (TailEof /\ ~ UNCHANGED status) \/ TailAckFails \/ TailReturns
  BY <1>9, <1>12 DEF TailEof, TailAckFails, SendFails, TailReturns, Proc
<1>13. ASSUME NEW p \in Proc, Kill(p) PROVE Left' < Left
  BY <1>9, <1>13 DEF Kill
<1>14. QED
  BY <1>1, <1>2, <1>3, <1>4, <1>5, <1>6, <1>7, <1>8, <1>10, <1>11, <1>12, <1>13
     DEF Next, Sender, ReceiverFinale, Middle, TailNode, Ended

(***************************************************************************)
(* Every step of the chain leaves less to do, and there is never less than *)
(* nothing: no message is written or handled twice, a failing send is not  *)
(* retried, and a run has a bounded number of steps.  With                 *)
(* ChainNeverDeadlocks it can only stop with all three processes ended.    *)
(***************************************************************************)
THEOREM ChainAlwaysAdvances == Spec => [](Left \in Nat) /\ [][Left' < Left]_vars
BY LeftIsNatural, NextLeavesLess, TypeCorrect, PipelineCorrect, PTL DEF Spec

-----------------------------------------------------------------------------
(***************************************************************************)
(* The chain implements the replicated log: a receive of the middle or the *)
(* tail applies the next request there, a receive of receiver_finale       *)
(* commits it, and everything else but a submission is invisible.          *)
(***************************************************************************)
Applied == [r \in {"middle", "tail"} |-> (IF r = "tail" THEN tailCmt ELSE midCmt) + 1]

Invisible == UNCHANGED <<nextReq, headCmt, midCmt, tailCmt>>

\* Steps that move none of the counters do nothing to the abstract log.
LEMMA InvisibleStutters == Invisible => UNCHANGED R!vars
BY DEF Invisible, R!vars

\* No request is submitted, applied or committed at the start.
LEMMA InitImplements == Init => R!Init
BY DEF Init, R!Init

\* Every step of the chain is a step of Replication or changes none of it.
LEMMA NextImplements ==
  TypeOK /\ Pipeline /\ [Next]_vars => [R!Next]_(R!vars)
<1> SUFFICES ASSUME TypeOK, Pipeline, [Next]_vars PROVE R!Next \/ UNCHANGED R!vars
  OBVIOUS
<1> USE DEF headVars, midVars, tailVars
<1>t. /\ chan["head_middle"] \in Seq(Int) /\ chan["middle_tail"] \in Seq(Int)
      /\ chan["tail_head"] \in Seq(Int)
      /\ NbRequests \in Int /\ nextReq \in Int /\ nextReq <= NbRequests
      /\ headCmt \in Int /\ midCmt \in Int /\ tailCmt \in Int
      /\ Forwarded \in Int /\ Acked \in Int
  BY ConstantsAssumption DEF TypeOK, Link, Forwarded, Acked
<1>o. /\ headCmt <= tailCmt /\ tailCmt <= midCmt /\ midCmt < nextReq
      /\ Forwarded <= midCmt + 1 /\ Acked <= tailCmt + 1
  BY PipelineOrdersCounters DEF CommittedIsReplicated
<1>1. CASE SenderSend
  BY <1>1 DEF SenderSend, R!Next, R!Submit
<1>2. CASE FinaleReceive
  <2>1. headCmt' = headCmt + 1 /\ headCmt + 1 < Acked
    BY <1>2, <1>t, CarriesTail DEF FinaleReceive, Receive, Arrived, Pipeline
  <2>2. headCmt + 1 < Applied["tail"] /\ headCmt + 1 < Applied["middle"]
    BY <2>1, <1>t, <1>o DEF Applied
  <2>3. Applied' = Applied /\ nextReq' = nextReq /\ headCmt' + 1 = (headCmt + 1) + 1
    BY <1>2, <1>t, <2>1 DEF FinaleReceive, Applied
  <2>4. R!Commit
    BY <2>2, <2>3 DEF R!Commit, Applied
  <2>5. QED
    BY <2>4 DEF R!Next
<1>3. CASE MiddleReceive
  <2>1. midCmt' = midCmt + 1 /\ midCmt + 1 < nextReq
    BY <1>3, <1>t, CarriesTail DEF MiddleReceive, Receive, Arrived, Pipeline, Record
  <2>2. Applied' = [Applied EXCEPT !["middle"] = @ + 1]
    BY <1>3, <1>t, <2>1 DEF MiddleReceive, Applied
  <2>3. R!Apply("middle")
    BY <1>3, <2>1, <2>2 DEF MiddleReceive, R!Apply, Applied
  <2>4. QED
    BY <2>3 DEF R!Next
<1>4. CASE TailReceive
  <2>1. tailCmt' = tailCmt + 1 /\ tailCmt + 1 < Forwarded
    BY <1>4, <1>t, CarriesTail DEF TailReceive, Receive, Arrived, Pipeline, Record
  <2>2. Applied' = [Applied EXCEPT !["tail"] = @ + 1]
    BY <1>4, <1>t, <2>1 DEF TailReceive, Applied
  <2>3. tailCmt + 1 < midCmt + 1 /\ midCmt + 1 <= nextReq
    BY <1>t, <1>o, <2>1
  <2>4. R!Apply("tail")
    BY <1>4, <1>t, <2>2, <2>3 DEF TailReceive, R!Apply, Applied
  <2>5. QED
    BY <2>4 DEF R!Next
<1>5. CASE Invisible
  BY <1>5, InvisibleStutters
<1>6. QED
  BY <1>1, <1>2, <1>3, <1>4, <1>5
     DEF Next, vars, Invisible, Sender, SenderFails, ReceiverFinale, FinaleEof,
         FinaleFinished, FinaleEnd, HeadReturns, Middle, MiddleEof, MiddleForward,
         MiddleForwardFails, MiddleReturns, TailNode, TailEof, TailAck, TailAckFails,
         TailReturns, Kill, Ended

\* The chain keeps all that Replication promises its client.
THEOREM ChainImplementsReplication == Spec => ImplementsReplication
BY InitImplements, NextImplements, TypeCorrect, PipelineCorrect, PTL
   DEF Spec, ImplementsReplication, R!Spec
=============================================================================
