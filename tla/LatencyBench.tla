---------------------------- MODULE LatencyBench ----------------------------
(***************************************************************************)
(* The latency benchmark of network-unused/main.cc: a sender and a         *)
(* receiver, one thread each (all threads of a process would create an Rpc *)
(* with the same instance_id).  The sender keeps one request under way;    *)
(* the receiver answers and leaves after its reqs_num-th answer.  Neither  *)
(* has a time-out: a thread without its peer polls for ever.               *)
(*                                                                         *)
(* eRPC is a library and modelled as main.cc relies on it.  Packets may be *)
(* lost, delayed, reordered and duplicated.  While a client runs its event *)
(* loop it repeats a request that is not answered.  A server runs the      *)
(* handler of a request once and repeats the answer if the request comes   *)
(* again.  A client runs the continuation of a request once.  An Rpc       *)
(* numbers its sessions from 0, whichever side opens them.                 *)
(*                                                                         *)
(* Both processes attest what they send, in a call that does not poll (see *)
(* Attestation): it either returns or ends the process.                    *)
(***************************************************************************)
EXTENDS Integers, FiniteSets

CONSTANTS
  ReqsNum,          \* the flag reqs_num, the same at both processes
  MaxLosses,        \* bound on the packets lost
  MaxKills          \* bound on the processes that end before their time

ASSUME ConstantsAssumption ==
  /\ ReqsNum \in Nat
  /\ MaxLosses \in Nat
  /\ MaxKills \in Nat

Proc == {"sender", "receiver"}

VARIABLES
  status,           \* "off"; "asleep": in proto_func's five seconds; "up"; "done"; "dead"
  sndPc,            \* sender_func: "session", "send", "poll" or, after the loop, "finish"
  rcvPc,            \* receiver_func: "poll", or "linger": its last two seconds
  connections,      \* ctx->connections of the sender, from node id to session number
  session,          \* the session eRPC has connected for the sender, or -1
  enqueued,         \* enqueued_msgs_cnt; the loop counter i follows from it and sndPc
  received,         \* received_msgs_cnt
  sentAcks,         \* sent_acks_cnt
  served,           \* eRPC at the receiver: the last request given to the handler
  handling,         \* the receiver is inside req_handler_latency
  net,              \* packets in flight
  lost,             \* packets of which a copy was lost
  losses            \* how many copies were lost

sndVars == <<sndPc, connections, session, enqueued, received>>
rcvVars == <<rcvPc, sentAcks, served, handling>>
netVars == <<net, lost, losses>>
vars == <<status, sndVars, rcvVars, netVars>>

Request(n) == [kind |-> "request", n |-> n]
Answer(n) == [kind |-> "answer", n |-> n]
Packet == [kind : {"request", "answer"}, n : Nat]

Up(p) == status[p] = "up"
Dead == {p \in Proc : status[p] = "dead"}

TypeOK ==
  /\ status \in [Proc -> {"off", "asleep", "up", "done", "dead"}]
  /\ sndPc \in {"session", "send", "poll", "finish"}
  /\ rcvPc \in {"poll", "linger"}
  /\ \A k \in DOMAIN connections : connections[k] \in Nat
  /\ session \in Nat \cup {-1}
  /\ enqueued \in 0 .. ReqsNum /\ received \in 0 .. ReqsNum
  /\ sentAcks \in 0 .. ReqsNum /\ served \in 0 .. ReqsNum
  /\ handling \in BOOLEAN
  /\ net \subseteq Packet
  /\ lost \subseteq Packet /\ losses \in 0 .. MaxLosses

Init ==
  /\ status = [p \in Proc |-> "off"]
  /\ sndPc = "session" /\ rcvPc = "poll"
  /\ connections = [k \in {} |-> 0] /\ session = -1
  /\ enqueued = 0 /\ received = 0 /\ sentAcks = 0
  /\ served = 0 /\ handling = FALSE
  /\ net = {} /\ lost = {} /\ losses = 0

-----------------------------------------------------------------------------
\* main() starts the thread; its Rpc exists and the thread sleeps.
Launch(p) ==
  /\ status[p] = "off"
  /\ status' = [status EXCEPT ![p] = "asleep"]
  /\ UNCHANGED <<sndVars, rcvVars, netVars>>

\* proto_func goes on to sender_func or receiver_func.
Start(p) ==
  /\ status[p] = "asleep"
  /\ status' = [status EXCEPT ![p] = "up"]
  /\ UNCHANGED <<sndVars, rcvVars, netVars>>

\* SIGINT and exit(1), any other signal, or an exit of the authenticator
\* because its trusted service is gone.
Die(p) ==
  /\ status[p] \in {"asleep", "up"}
  /\ Cardinality(Dead) < MaxKills
  /\ status' = [status EXCEPT ![p] = "dead"]
  /\ UNCHANGED <<sndVars, rcvVars, netVars>>

-----------------------------------------------------------------------------
\* A mistaken version of LoopAt: the loop runs to i <= reqs_num.
LoopOnceMore(n) == IF n <= ReqsNum THEN "send" ELSE "finish"

\* Where the for loop of sender_func goes when i = n.
LoopAt(n) == IF n < ReqsNum THEN "send" ELSE "finish"

\* operator[] of the map inserts 0 for a key that is not there.
Lookup(key) == IF key \in DOMAIN connections THEN connections[key] ELSE 0

\* A mistaken version of CreateSession: the receiver opens a session first,
\* as in the call that is commented out at main.cc:202, and it takes the 0.
CreateSecondSession ==
  /\ Up("sender") /\ sndPc = "session" /\ Up("receiver")
  /\ session' = 1
  /\ connections' = [k \in {1} |-> session']
  /\ sndPc' = LoopAt(enqueued)
  /\ UNCHANGED <<status, enqueued, received, rcvVars, netVars>>

\* create_session returns when the receiver's event loop has answered.  The
\* session is entered for node 1, the receiver.
CreateSession ==
  /\ Up("sender") /\ sndPc = "session" /\ Up("receiver")
  /\ session' = 0
  /\ connections' = [k \in {1} |-> session']
  /\ sndPc' = LoopAt(enqueued)
  /\ UNCHANGED <<status, enqueued, received, rcvVars, netVars>>

\* send_req(i, mode::sender, ctx): the request goes to node 0, for which
\* there is no session yet.
SendReq ==
  /\ Up("sender") /\ sndPc = "send"
  /\ connections' = [k \in DOMAIN connections \cup {0} |-> Lookup(k)]
  /\ enqueued' = enqueued + 1
  /\ net' = IF connections'[0] = session THEN net \cup {Request(enqueued')} ELSE net
  /\ sndPc' = "poll"
  /\ UNCHANGED <<status, session, received, rcvVars, lost, losses>>

\* eRPC at the sender repeats the request that is not answered.
Retransmit ==
  /\ Up("sender") /\ sndPc = "poll"
  /\ received < enqueued /\ connections[0] = session
  /\ net' = net \cup {Request(enqueued)}
  /\ UNCHANGED <<status, sndVars, rcvVars, lost, losses>>

\* The answer to the request under way, on which the event loop calls
\* cont_func; other answers are dropped and change nothing.
ContFunc ==
  /\ Up("sender") /\ sndPc = "poll"
  /\ received < enqueued /\ Answer(enqueued) \in net
  /\ received' = received + 1
  /\ net' \in {net, net \ {Answer(enqueued)}}
  /\ UNCHANGED <<status, sndPc, connections, session, enqueued, rcvVars, lost, losses>>

\* while (received_msgs_cnt < i + 1) poll(ctx) is over.
PollEnds ==
  /\ Up("sender") /\ sndPc = "poll" /\ received >= enqueued
  /\ sndPc' = LoopAt(enqueued)
  /\ UNCHANGED <<status, connections, session, enqueued, received, rcvVars, netVars>>

\* The last two seconds of the sender's event loop change nothing.
SenderReturns ==
  /\ Up("sender") /\ sndPc = "finish" /\ received = ReqsNum
  /\ status' = [status EXCEPT !["sender"] = "done"]
  /\ UNCHANGED <<sndVars, rcvVars, netVars>>

-----------------------------------------------------------------------------
\* A mistaken version of ReceiverStops: the receiver leaves when its last
\* answer is due.
ReceiverStopsEarly ==
  /\ Up("receiver") /\ rcvPc = "poll" /\ ~ handling
  /\ sentAcks + 1 >= ReqsNum
  /\ rcvPc' = "linger"
  /\ UNCHANGED <<status, sndVars, sentAcks, served, handling, netVars>>

\* The event loop takes a request that is new: it enters req_handler_latency,
\* which first asks for an attestation.
NewRequest ==
  /\ Up("receiver") /\ ~ handling
  /\ Request(served + 1) \in net
  /\ served' = served + 1
  /\ handling' = TRUE
  /\ net' \in {net, net \ {Request(served')}}
  /\ UNCHANGED <<status, sndVars, rcvPc, sentAcks, lost, losses>>

\* The rest of the handler: the answer is enqueued and counted.
ReqHandler ==
  /\ Up("receiver") /\ handling
  /\ sentAcks' = sentAcks + 1
  /\ net' = net \cup {Answer(served)}
  /\ handling' = FALSE
  /\ UNCHANGED <<status, sndVars, rcvPc, served, lost, losses>>

\* eRPC at the receiver repeats the answer to the last request.
OldRequest ==
  /\ Up("receiver") /\ ~ handling
  /\ served > 0 /\ Request(served) \in net
  /\ net' \in {net \cup {Answer(served)}, (net \ {Request(served)}) \cup {Answer(served)}}
  /\ UNCHANGED <<status, sndVars, rcvVars, lost, losses>>

\* The test after each turn of the event loop, for equality.
ReceiverStops ==
  /\ Up("receiver") /\ rcvPc = "poll" /\ ~ handling
  /\ sentAcks = ReqsNum
  /\ rcvPc' = "linger"
  /\ UNCHANGED <<status, sndVars, sentAcks, served, handling, netVars>>

\* The two seconds are over, whatever is still in flight.
ReceiverReturns ==
  /\ Up("receiver") /\ rcvPc = "linger" /\ ~ handling
  /\ status' = [status EXCEPT !["receiver"] = "done"]
  /\ UNCHANGED <<sndVars, rcvVars, netVars>>

-----------------------------------------------------------------------------
Lose(packet) ==
  /\ losses < MaxLosses
  /\ net' = net \ {packet}
  /\ lost' = lost \cup {packet}
  /\ losses' = losses + 1
  /\ UNCHANGED <<status, sndVars, rcvVars>>

Network == \E packet \in net : Lose(packet)

SenderFunc == CreateSession \/ SendReq \/ PollEnds \/ SenderReturns
ReceiverFunc == ReceiverStops \/ ReceiverReturns

Next ==
  \/ \E p \in Proc : Launch(p) \/ Start(p) \/ Die(p)
  \/ SenderFunc \/ Retransmit \/ ContFunc
  \/ ReceiverFunc \/ NewRequest \/ ReqHandler \/ OldRequest
  \/ Network

(***************************************************************************)
(* A thread that can go on does, and every turn of an event loop looks for *)
(* packets and for requests that are overdue.  Nobody has to start the     *)
(* programs, and nothing has to be lost or to die.                         *)
(***************************************************************************)
Fairness ==
  /\ \A p \in Proc : WF_vars(Start(p))
  /\ WF_vars(SenderFunc) /\ WF_vars(Retransmit) /\ WF_vars(ContFunc)
  /\ WF_vars(ReceiverFunc) /\ WF_vars(NewRequest) /\ WF_vars(ReqHandler) /\ WF_vars(OldRequest)

Spec == Init /\ [][Next]_vars /\ Fairness

-----------------------------------------------------------------------------
(***************************************************************************)
(* Whatever is lost, repeated or late, the benchmark measures round trips  *)
(* one after the other, each request handled once (main.cc:174-181).       *)
(***************************************************************************)
RR == INSTANCE RequestResponse WITH handled <- sentAcks

ImplementsRequestResponse == RR!Spec

(***************************************************************************)
(* The receiver leaves two seconds after its last answer, without knowing  *)
(* whether it arrived (main.cc:210).  Only that answer is at stake: it has *)
(* arrived, or is still in flight, or a copy of it was lost.               *)
(***************************************************************************)
OnlyLastAnswerAtStake ==
  status["receiver"] = "done"
    => \/ received = ReqsNum
       \/ received = ReqsNum - 1 /\ Answer(ReqsNum) \in net \cup lost

(***************************************************************************)
(* Once both programs are started, both loops come to an end, unless the   *)
(* other process dies, or the receiver has left and the last answer was    *)
(* lost: the sender then polls for ever (main.cc:177).                     *)
(***************************************************************************)
BothFinish ==
  (\A p \in Proc : status[p] # "off")
    ~> \/ Dead # {}
       \/ /\ status["receiver"] = "done"
          /\ status["sender"] = "done" \/ Answer(ReqsNum) \in lost
=============================================================================
