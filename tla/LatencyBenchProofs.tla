------------------------- MODULE LatencyBenchProofs -------------------------
(***************************************************************************)
(* Proofs about the latency benchmark, for every number of requests and    *)
(* any number of losses and kills.                                         *)
(***************************************************************************)
EXTENDS LatencyBench, TLAPS

USE ConstantsAssumption

\* Where the counters stand to each other, and to the thread's places.
Counters ==
  /\ received <= sentAcks /\ sentAcks <= enqueued /\ enqueued <= received + 1
  /\ served = IF handling THEN sentAcks + 1 ELSE sentAcks
  /\ served <= enqueued
  /\ sndPc = "session" => enqueued = 0
  /\ sndPc = "send" => enqueued = received /\ enqueued < ReqsNum
  /\ sndPc = "finish" => received = ReqsNum
  /\ rcvPc = "linger" => sentAcks = ReqsNum
  /\ status["receiver"] = "done" => rcvPc = "linger"

\* No packet, in flight or lost, is ahead of the counters.
PacketsBehind ==
  \A packet \in net \cup lost :
    packet.n <= IF packet.kind = "request" THEN enqueued ELSE sentAcks

\* The answer that the sender still waits for exists, or a copy of it was lost.
AnswerExists == received < sentAcks => Answer(sentAcks) \in net \cup lost

Inv == TypeOK /\ Counters /\ PacketsBehind /\ AnswerExists

\* No request and no packet exists at first.
LEMMA InitInv == Init => Inv
<1> SUFFICES ASSUME Init
             PROVE  Inv
  OBVIOUS
<1> USE DEF Init, Proc
<1>1. DOMAIN connections = {}
  OBVIOUS
<1>2. handling \in BOOLEAN
  BY Zenon
<1>3. TypeOK
  BY <1>1, <1>2 DEF TypeOK
<1>4. Counters /\ PacketsBehind /\ AnswerExists
  BY DEF Counters, PacketsBehind, AnswerExists
<1>. QED
  BY <1>3, <1>4 DEF Inv

(***************************************************************************)
(* The type invariant is inductive together with the other parts, which    *)
(* bound the counters.                                                     *)
(***************************************************************************)
LEMMA TypeStep == Inv /\ [Next]_vars => TypeOK'
<1> SUFFICES ASSUME Inv, [Next]_vars
             PROVE  TypeOK'
  OBVIOUS
<1> USE DEF Inv, TypeOK, Counters, Proc, Packet, Request, Answer
<1>1. CASE \E p \in Proc : Launch(p) \/ Start(p) \/ Die(p)
  BY <1>1 DEF Launch, Start, Die, sndVars, rcvVars, netVars
<1>2. CASE CreateSession
  BY <1>2 DEF CreateSession, LoopAt, rcvVars, netVars
<1>3. CASE SendReq
  <2>1. \A k \in DOMAIN connections' : connections'[k] \in Nat
    BY <1>3 DEF SendReq, Lookup
  <2>2. net' \subseteq Packet
    BY <1>3 DEF SendReq
  <2>3. handling' \in BOOLEAN
    BY <1>3, Zenon DEF SendReq, rcvVars
  <2>4. /\ enqueued' \in 0 .. ReqsNum /\ sndPc' = "poll"
        /\ UNCHANGED <<status, session, received, rcvVars, lost, losses>>
    BY <1>3 DEF SendReq
  <2>. QED
    BY <2>1, <2>2, <2>3, <2>4 DEF rcvVars
<1>4. CASE PollEnds
  BY <1>4 DEF PollEnds, LoopAt, rcvVars, netVars
<1>5. CASE SenderReturns
  BY <1>5 DEF SenderReturns, sndVars, rcvVars, netVars
<1>6. CASE Retransmit
  BY <1>6 DEF Retransmit, sndVars, rcvVars
<1>7. CASE ContFunc
  BY <1>7 DEF ContFunc, rcvVars
<1>8. CASE ReceiverFunc
  BY <1>8 DEF ReceiverFunc, ReceiverStops, ReceiverReturns, sndVars, rcvVars, netVars
<1>9. CASE NewRequest
  <2>1. served + 1 <= enqueued
    BY <1>9 DEF NewRequest, PacketsBehind
  <2>. QED
    BY <1>9, <2>1 DEF NewRequest, sndVars
<1>10. CASE ReqHandler
  <2>1. handling' \in BOOLEAN
    BY <1>10, Zenon DEF ReqHandler
  <2>. QED
    BY <1>10, <2>1 DEF ReqHandler, sndVars
<1>11. CASE OldRequest
  BY <1>11 DEF OldRequest, sndVars, rcvVars
<1>12. CASE Network
  BY <1>12 DEF Network, Lose, sndVars, rcvVars
<1>13. CASE UNCHANGED vars
  BY <1>13 DEF vars, sndVars, rcvVars, netVars
<1>. QED
  BY <1>1, <1>2, <1>3, <1>4, <1>5, <1>6, <1>7, <1>8, <1>9, <1>10, <1>11, <1>12, <1>13
     DEF Next, SenderFunc

\* A packet that a guard finds in flight tells how far the other end is.
LEMMA PacketFacts ==
  ASSUME Inv
  PROVE  /\ Answer(enqueued) \in net => sentAcks = enqueued
         /\ Request(served + 1) \in net => served + 1 <= enqueued
  BY DEF Inv, TypeOK, Counters, PacketsBehind, Request, Answer

\* The counters keep their distances in every action.
LEMMA CountersStep == Inv /\ [Next]_vars => Counters'
<1> SUFFICES ASSUME Inv, [Next]_vars
             PROVE  Counters'
  OBVIOUS
<1> USE DEF Inv, TypeOK, Counters, Proc
<1>1. CASE \E p \in Proc : Launch(p) \/ Start(p) \/ Die(p)
  BY <1>1 DEF Launch, Start, Die, sndVars, rcvVars, netVars
<1>2. CASE CreateSession
  BY <1>2 DEF CreateSession, LoopAt, rcvVars, netVars
<1>3. CASE SendReq
  BY <1>3 DEF SendReq, rcvVars
<1>4. CASE PollEnds
  BY <1>4 DEF PollEnds, LoopAt, rcvVars, netVars
<1>5. CASE SenderReturns
  BY <1>5 DEF SenderReturns, sndVars, rcvVars, netVars
<1>6. CASE Retransmit
  BY <1>6 DEF Retransmit, sndVars, rcvVars
<1>7. CASE ContFunc
  BY <1>7, PacketFacts DEF ContFunc, rcvVars
<1>8. CASE ReceiverFunc
  BY <1>8 DEF ReceiverFunc, ReceiverStops, ReceiverReturns, sndVars, rcvVars, netVars
<1>9. CASE NewRequest
  BY <1>9, PacketFacts DEF NewRequest, sndVars
<1>10. CASE ReqHandler
  BY <1>10 DEF ReqHandler, sndVars
<1>11. CASE OldRequest
  BY <1>11 DEF OldRequest, sndVars, rcvVars
<1>12. CASE Network
  BY <1>12 DEF Network, Lose, sndVars, rcvVars
<1>13. CASE UNCHANGED vars
  BY <1>13 DEF vars, sndVars, rcvVars, netVars
<1>. QED
  BY <1>1, <1>2, <1>3, <1>4, <1>5, <1>6, <1>7, <1>8, <1>9, <1>10, <1>11, <1>12, <1>13
     DEF Next, SenderFunc

\* Packets are made from the counters and counters from packets.
LEMMA PacketsStep == Inv /\ [Next]_vars => PacketsBehind' /\ AnswerExists'
<1> SUFFICES ASSUME Inv, [Next]_vars
             PROVE  PacketsBehind' /\ AnswerExists'
  OBVIOUS
<1> USE DEF Inv, TypeOK, Counters, PacketsBehind, AnswerExists, Proc, Packet, Request, Answer
<1>1. CASE \E p \in Proc : Launch(p) \/ Start(p) \/ Die(p)
  BY <1>1 DEF Launch, Start, Die, sndVars, rcvVars, netVars
<1>2. CASE CreateSession
  BY <1>2 DEF CreateSession, rcvVars, netVars
<1>3. CASE SendReq
  BY <1>3 DEF SendReq, rcvVars
<1>4. CASE PollEnds
  BY <1>4 DEF PollEnds, rcvVars, netVars
<1>5. CASE SenderReturns
  BY <1>5 DEF SenderReturns, sndVars, rcvVars, netVars
<1>6. CASE Retransmit
  BY <1>6 DEF Retransmit, sndVars, rcvVars
<1>7. CASE ContFunc
  BY <1>7, PacketFacts DEF ContFunc, rcvVars
<1>8. CASE ReceiverFunc
  BY <1>8 DEF ReceiverFunc, ReceiverStops, ReceiverReturns, sndVars, rcvVars, netVars
<1>9. CASE NewRequest
  BY <1>9 DEF NewRequest, sndVars
<1>10. CASE ReqHandler
  BY <1>10 DEF ReqHandler, sndVars
<1>11. CASE OldRequest
  BY <1>11 DEF OldRequest, sndVars, rcvVars
<1>12. CASE Network
  BY <1>12 DEF Network, Lose, sndVars, rcvVars
<1>13. CASE UNCHANGED vars
  BY <1>13 DEF vars, sndVars, rcvVars, netVars
<1>. QED
  BY <1>1, <1>2, <1>3, <1>4, <1>5, <1>6, <1>7, <1>8, <1>9, <1>10, <1>11, <1>12, <1>13
     DEF Next, SenderFunc

\* Types, counters and packets agree in every state of the benchmark.
THEOREM Invariance == Spec => []Inv
<1>1. Init => Inv
  BY InitInv
<1>2. Inv /\ [Next]_vars => Inv'
  BY TypeStep, CountersStep, PacketsStep DEF Inv
<1>. QED
  BY <1>1, <1>2, PTL DEF Spec

(***************************************************************************)
(* The receiver leaves with at most its last answer undelivered, and that  *)
(* one is in flight or was lost: two seconds without a time-out at the     *)
(* other end put nothing else at risk (main.cc:210).                       *)
(***************************************************************************)
THEOREM OnlyLastAnswerIsAtStake == Spec => []OnlyLastAnswerAtStake
<1>1. Inv => OnlyLastAnswerAtStake
  BY DEF Inv, TypeOK, Counters, AnswerExists, OnlyLastAnswerAtStake
<1>. QED
  BY <1>1, Invariance, PTL

(***************************************************************************)
(* The benchmark makes its round trips one after the other and has each    *)
(* request handled once, however packets are lost, repeated and delayed.   *)
(***************************************************************************)
THEOREM BenchImplementsRequestResponse == Spec => ImplementsRequestResponse
<1>1. Init => RR!Init
  BY DEF Init, RR!Init
<1>2. Inv /\ [Next]_vars => [RR!Next]_RR!vars
  <2> SUFFICES ASSUME Inv, [Next]_vars
               PROVE  RR!Next \/ UNCHANGED RR!vars
    OBVIOUS
  <2> USE DEF Inv, TypeOK, Counters, RR!vars, RR!Next
  <2>1. CASE SendReq
    BY <2>1 DEF SendReq, RR!Send, rcvVars
  <2>2. CASE ReqHandler
    BY <2>2 DEF ReqHandler, RR!Handle, sndVars
  <2>3. CASE ContFunc
    BY <2>3, PacketFacts DEF ContFunc, RR!Answer, rcvVars
  <2>4. CASE \E p \in Proc : Launch(p) \/ Start(p) \/ Die(p)
    BY <2>4 DEF Launch, Start, Die, sndVars, rcvVars
  <2>5. CASE CreateSession \/ PollEnds \/ SenderReturns \/ Retransmit
    BY <2>5 DEF CreateSession, PollEnds, SenderReturns, Retransmit, sndVars, rcvVars
  <2>6. CASE ReceiverFunc \/ NewRequest \/ OldRequest
    BY <2>6 DEF ReceiverFunc, ReceiverStops, ReceiverReturns, NewRequest, OldRequest, sndVars, rcvVars
  <2>7. CASE Network \/ UNCHANGED vars
    BY <2>7 DEF Network, Lose, vars, sndVars, rcvVars
  <2>. QED
    BY <2>1, <2>2, <2>3, <2>4, <2>5, <2>6, <2>7 DEF Next, SenderFunc
<1>. QED
  BY <1>1, <1>2, Invariance, PTL DEF Spec, ImplementsRequestResponse, RR!Spec
=============================================================================
