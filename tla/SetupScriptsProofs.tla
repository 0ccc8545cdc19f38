------------------------- MODULE SetupScriptsProofs -------------------------
(***************************************************************************)
(* Proofs about the set-up of chain replication and of Raft with two       *)
(* followers, for every number of attempts and any number of kills.  What  *)
(* holds however the programs are started needs IsChain or IsRaft alone;   *)
(* what needs them to be started in order says so.                         *)
(***************************************************************************)
EXTENDS SetupScripts, ConnectionSetupProofs

USE DEF IsChain, ChainProc, IsRaft, RaftProc

\* A sequence put together from a triple and another sequence.
LEMMA ConcatTriple ==
  ASSUME NEW S, NEW a \in S, NEW b \in S, NEW c \in S, NEW t \in Seq(S), NEW u \in Seq(S),
         Len(u) = 3 + Len(t), u[1] = a, u[2] = b, u[3] = c,
         \A i \in 1 .. Len(t) : u[3 + i] = t[i]
  PROVE  <<a, b, c>> \o t = u
<1> DEFINE s == <<a, b, c>>
<1>1. s \in Seq(S) /\ Len(s) = 3 /\ s[1] = a /\ s[2] = b /\ s[3] = c
  OBVIOUS
<1>2. /\ s \o t \in Seq(S)
      /\ Len(s \o t) = Len(u)
      /\ \A i \in 1 .. 3 + Len(t) : (s \o t)[i] = IF i <= 3 THEN s[i] ELSE t[i - 3]
  BY <1>1, ConcatProperties
<1>3. ASSUME NEW i \in 1 .. Len(u)
      PROVE  (s \o t)[i] = u[i]
  <2>1. CASE i <= 3
    BY <1>1, <1>2, <2>1
  <2>2. CASE i > 3
    <3>1. i - 3 \in 1 .. Len(t) /\ u[3 + (i - 3)] = u[i]
      BY <2>2
    <3>2. (s \o t)[i] = t[i - 3]
      BY <1>2, <2>2, <3>1
    <3>. QED
      BY <3>1, <3>2
  <2>. QED
    BY <2>1, <2>2
<1>. HIDE DEF s
<1>4. s \o t = u
  BY <1>2, <1>3, SeqEqual
<1>. QED
  BY <1>4 DEF s

\* The scripts, call by call.
LEMMA ChainScripts ==
  ASSUME IsChain
  PROVE  /\ Script["head"] =
              <<Call("dial", 19000), Call("listen", 30501), Call("accept", 30501),
                Call("listen", 18000), Call("accept", 18000)>>
         /\ Script["middle"] =
              <<Call("listen", 19000), Call("accept", 19000), Call("redial", 30501),
                Call("dial", 20000), Call("listen", 30502), Call("accept", 30502)>>
         /\ Script["tail"] =
              <<Call("listen", 20000), Call("accept", 20000), Call("redial", 30502),
                Call("dial", 18000)>>
<1> USE DEF ConnectTo, ReceiveFrom
<1> DEFINE S == [op : Op, port : Nat]
<1>0. \A op \in {"listen", "accept", "dial", "redial"} : \A port \in Nat : Call(op, port) \in S
  BY DEF Call, Op
<1> HIDE DEF S
<1>1. Script["head"] = HeadScript
  BY DEF ChainScript
<1>2. Script["middle"] = MiddleScript
  BY DEF ChainScript
<1>3. Script["tail"] = TailScript
  BY DEF ChainScript
<1>4. HeadScript =
        <<Call("dial", 19000), Call("listen", 30501), Call("accept", 30501),
          Call("listen", 18000), Call("accept", 18000)>>
  <2> DEFINE a == Call("dial", 19000)
             b == Call("listen", 30501)
             c == Call("accept", 30501)
             t == <<Call("listen", 18000), Call("accept", 18000)>>
             u == <<a, b, c, Call("listen", 18000), Call("accept", 18000)>>
  <2>1. a \in S /\ b \in S /\ c \in S /\ t \in Seq(S) /\ u \in Seq(S)
    BY <1>0
  <2>2. /\ Len(u) = 3 + Len(t) /\ u[1] = a /\ u[2] = b /\ u[3] = c
        /\ \A i \in 1 .. Len(t) : u[3 + i] = t[i]
    OBVIOUS
  <2>3. HeadScript = <<a, b, c>> \o t
    BY DEF HeadScript
  <2>. HIDE DEF a, b, c, t, u
  <2>4. <<a, b, c>> \o t = u
    BY <2>1, <2>2, ConcatTriple, SMTT(30)
  <2>. QED
    BY <2>3, <2>4 DEF a, b, c, t, u
<1>5. MiddleScript =
        <<Call("listen", 19000), Call("accept", 19000), Call("redial", 30501),
          Call("dial", 20000), Call("listen", 30502), Call("accept", 30502)>>
  <2> DEFINE a == Call("listen", 19000)
             b == Call("accept", 19000)
             c == Call("redial", 30501)
             t == <<Call("dial", 20000), Call("listen", 30502), Call("accept", 30502)>>
             u == <<a, b, c, Call("dial", 20000), Call("listen", 30502), Call("accept", 30502)>>
  <2>1. a \in S /\ b \in S /\ c \in S /\ t \in Seq(S) /\ u \in Seq(S)
    BY <1>0
  <2>2. /\ Len(u) = 3 + Len(t) /\ u[1] = a /\ u[2] = b /\ u[3] = c
        /\ \A i \in 1 .. Len(t) : u[3 + i] = t[i]
    OBVIOUS
  <2>3. MiddleScript = <<a, b, c>> \o t
    BY DEF MiddleScript
  <2>. HIDE DEF a, b, c, t, u
  <2>4. <<a, b, c>> \o t = u
    BY <2>1, <2>2, ConcatTriple, SMTT(30)
  <2>. QED
    BY <2>3, <2>4 DEF a, b, c, t, u
<1>6. TailScript =
        <<Call("listen", 20000), Call("accept", 20000), Call("redial", 30502),
          Call("dial", 18000)>>
  <2> DEFINE a == Call("listen", 20000)
             b == Call("accept", 20000)
             c == Call("redial", 30502)
             t == <<Call("dial", 18000)>>
             u == <<a, b, c, Call("dial", 18000)>>
  <2>1. a \in S /\ b \in S /\ c \in S /\ t \in Seq(S) /\ u \in Seq(S)
    BY <1>0
  <2>2. /\ Len(u) = 3 + Len(t) /\ u[1] = a /\ u[2] = b /\ u[3] = c
        /\ \A i \in 1 .. Len(t) : u[3 + i] = t[i]
    OBVIOUS
  <2>3. TailScript = <<a, b, c>> \o t
    BY DEF TailScript
  <2>. HIDE DEF a, b, c, t, u
  <2>4. <<a, b, c>> \o t = u
    BY <2>1, <2>2, ConcatTriple, SMTT(30)
  <2>. QED
    BY <2>3, <2>4 DEF a, b, c, t, u
<1>. QED
  BY <1>1, <1>2, <1>3, <1>4, <1>5, <1>6

\* How many calls each program makes.
LEMMA ChainLengths ==
  ASSUME IsChain
  PROVE  Len(Script["head"]) = 5 /\ Len(Script["middle"]) = 6 /\ Len(Script["tail"]) = 4
  BY ChainScripts

\* Which call opens the connection to a port.
LEMMA ChainOpens ==
  ASSUME IsChain, NEW p \in Proc, NEW i \in Nat, NEW n, Opens(p, i, n)
  PROVE  \/ p = "head" /\ i = 1 /\ n = 19000
         \/ p = "middle" /\ i = 3 /\ n = 30501
         \/ p = "middle" /\ i = 4 /\ n = 20000
         \/ p = "tail" /\ i = 3 /\ n = 30502
         \/ p = "tail" /\ i = 4 /\ n = 18000
<1>1. CASE p = "head"
  BY <1>1, ChainScripts DEF Opens, Call
<1>2. CASE p = "middle"
  BY <1>2, ChainScripts DEF Opens, Call
<1>3. CASE p = "tail"
  BY <1>3, ChainScripts DEF Opens, Call
<1>. QED
  BY <1>1, <1>2, <1>3

\* No port is dialled by two calls.
LEMMA ChainOneDialPerPort ==
  ASSUME IsChain
  PROVE  OneDialPerPort
  BY ChainOpens DEF OneDialPerPort

\* How far the others are when a process has accepted a connection.
LEMMA ChainOrder ==
  ASSUME IsChain, Types, AcceptedWasOpened
  PROVE  /\ pc["head"] > 3 => pc["middle"] > 3
         /\ pc["head"] > 5 => pc["tail"] > 4
         /\ pc["middle"] > 6 => pc["tail"] > 3
         /\ pc["tail"] > 2 => pc["middle"] > 4
         /\ pc["middle"] > 2 => pc["head"] > 1
<1>1. /\ Accepts("head", 3, 30501) /\ Accepts("head", 5, 18000)
      /\ Accepts("middle", 6, 30502) /\ Accepts("tail", 2, 20000)
      /\ Accepts("middle", 2, 19000)
  BY ChainScripts DEF Accepts, Call
<1>2. {30501, 18000, 30502, 20000, 19000} \subseteq Port
  BY <1>1 DEF Accepts, Port
<1>0. \A p \in Proc : \A i \in Nat : \A n \in Port :
        Accepts(p, i, n) /\ pc[p] > i => Opened(n)
  <2>1. \A p \in Proc : pc[p] \in Nat
    BY DEF Types
  <2>. QED
    BY <2>1 DEF AcceptedWasOpened, Accepted
<1>3. pc["head"] > 3 => Opened(30501)
  BY <1>0, <1>1, <1>2
<1>4. pc["head"] > 5 => Opened(18000)
  BY <1>0, <1>1, <1>2
<1>5. pc["middle"] > 6 => Opened(30502)
  BY <1>0, <1>1, <1>2
<1>6. pc["tail"] > 2 => Opened(20000)
  BY <1>0, <1>1, <1>2
<1>7. \A p \in Proc : pc[p] \in Nat
  BY DEF Types
<1>8. Opened(30501) => pc["middle"] > 3
  BY <1>7, ChainOpens DEF Opened
<1>9. Opened(18000) => pc["tail"] > 4
  BY <1>7, ChainOpens DEF Opened
<1>10. Opened(30502) => pc["tail"] > 3
  BY <1>7, ChainOpens DEF Opened
<1>11. Opened(20000) => pc["middle"] > 4
  BY <1>7, ChainOpens DEF Opened
<1>12. pc["middle"] > 2 => Opened(19000)
  BY <1>0, <1>1, <1>2
<1>13. Opened(19000) => pc["head"] > 1
  BY <1>7, ChainOpens DEF Opened
<1>. QED
  BY <1>3, <1>4, <1>5, <1>6, <1>8, <1>9, <1>10, <1>11, <1>12, <1>13

(***************************************************************************)
(* The head's threads start only when every connection of the chain has    *)
(* been made, the one from the middle to the tail included, in which the   *)
(* head has no part (head.cpp:367): the tail's last dial is what the head  *)
(* accepts last, and the tail makes it after the middle's.                 *)
(***************************************************************************)
THEOREM HeadStartsLast ==
  ASSUME IsChain
  PROVE  Spec => []RootStartsLast
<1>1. Types /\ AcceptedWasOpened => RootStartsLast
  <2> SUFFICES ASSUME Types, AcceptedWasOpened, Running("head")
               PROVE  \A p \in Proc : \A i \in Dials(p) : pc[p] > i
    BY DEF RootStartsLast
  <2>1. pc["head"] > 5
    BY ChainLengths DEF Running, Types
  <2>2. pc["tail"] > 4 /\ pc["middle"] > 4
    BY <2>1, ChainOrder DEF Types
  <2>3. ASSUME NEW p \in Proc, NEW i \in Dials(p)
        PROVE  pc[p] > i
    <3>1. Script[p] \in Seq([op : Op, port : Nat])
      BY ConstantsAssumption
    <3>2. i \in Nat /\ Opens(p, i, Script[p][i].port)
      BY <3>1 DEF Dials, Opens
    <3>3. \/ p = "head" /\ i = 1
          \/ p \in {"middle", "tail"} /\ i \in {3, 4}
      BY <3>2, ChainOpens
    <3>. QED
      BY <2>1, <2>2, <3>3 DEF Types
  <2>. QED
    BY <2>3
<1>. QED
  BY <1>1, AcceptedIsOpened, ChainOneDialPerPort, PTL

(***************************************************************************)
(* The head and the middle go on after connect_to_the_server only when the *)
(* program at the other end has accepted them (shared.h:222).              *)
(***************************************************************************)
THEOREM BackConnectionsConfirm ==
  ASSUME IsChain
  PROVE  Spec => []BackConnectionConfirms
<1>1. Types /\ AcceptedWasOpened => BackConnectionConfirms
  <2> SUFFICES ASSUME Types, AcceptedWasOpened,
                      NEW p \in Proc, NEW i \in 1 .. pc[p] - 3, Script[p][i].op = "dial"
               PROVE  \E q \in Proc : Passed(q, "accept", Script[p][i].port)
    BY DEF BackConnectionConfirms
  <2>1. pc["head"] <= 6 /\ pc["middle"] <= 7 /\ pc["tail"] <= 5
    <3>1. \A q \in Proc : pc[q] <= Len(Script[q]) + 1
      BY DEF Types
    <3>2. pc["head"] <= Len(Script["head"]) + 1
      BY <3>1
    <3>3. pc["middle"] <= Len(Script["middle"]) + 1
      BY <3>1
    <3>4. pc["tail"] <= Len(Script["tail"]) + 1
      BY <3>1
    <3>5. /\ Len(Script["head"]) = 5 /\ Len(Script["middle"]) = 6
          /\ Len(Script["tail"]) = 4
      BY ChainLengths
    <3>6. \A q \in Proc : pc[q] \in Nat
      BY DEF Types
    <3>. HIDE DEF IsChain
    <3>. QED
      BY <3>2, <3>3, <3>4, <3>5, <3>6
  <2>2. /\ \A q \in Proc : pc[q] \in Nat
        /\ i \in Nat
    BY DEF Types
  <2>3. \/ p = "head" /\ i \in {1, 2, 3}
        \/ p = "middle" /\ i \in {1, 2, 3, 4}
        \/ p = "tail" /\ i \in {1, 2}
    <3>1. i <= pc[p] - 3 /\ 1 <= i
      BY DEF Types
    <3>. QED
      BY <2>1, <2>2, <3>1
  <2>4. \/ p = "head" /\ i = 1
        \/ p = "middle" /\ i = 4
    BY <2>3, ChainScripts DEF Call
  <2>5. CASE p = "head" /\ i = 1
    <3>1. pc["middle"] > 2 /\ Script["middle"][2] = [op |-> "accept", port |-> Script[p][i].port]
      BY <2>2, <2>5, ChainOrder, ChainScripts DEF Call
    <3>. QED
      BY <2>2, <3>1 DEF Passed
  <2>6. CASE p = "middle" /\ i = 4
    <3>1. pc["tail"] > 2 /\ Script["tail"][2] = [op |-> "accept", port |-> Script[p][i].port]
      BY <2>2, <2>6, ChainOrder, ChainScripts DEF Call
    <3>. QED
      BY <2>2, <3>1 DEF Passed
  <2>. QED
    BY <2>4, <2>5, <2>6
<1>. QED
  BY <1>1, AcceptedIsOpened, ChainOneDialPerPort, PTL

\* Head and middle find the one they dial: it listened before the head was
\* started, and can exit only after it was dialled.
LEMMA ChainIsHeard ==
  ASSUME IsChain, ChainIsLaunchedInOrder, Types, AcceptedWasOpened, StartedInOrder,
         ExitsAreRefusals
  PROVE  DialsAreHeard
<1> SUFFICES ASSUME Calm, NEW p \in {"head", "middle"}, At(p, "dial")
             PROVE  Listening(PortOf(p))
  BY DEF DialsAreHeard, ChainIsLaunchedInOrder
<1>1. pc[p] \in DOMAIN Script[p] /\ Script[p][pc[p]].op = "dial"
  BY CallFacts DEF Op
<1>2. \/ p = "head" /\ pc["head"] = 1 /\ PortOf(p) = 19000
      \/ p = "middle" /\ pc["middle"] = 4 /\ PortOf(p) = 20000
  BY <1>1, ChainScripts DEF PortOf, Call
<1>3. \A q \in Proc : pc[q] \in Nat
  BY DEF Types
<1>4. status["head"] # "off"
  <2>1. status["head"] = "off" => pc["head"] = 1
    BY DEF StartedInOrder
  <2>2. pc["head"] = 1 => p = "head"
    BY <1>2, <1>3, ChainOrder
  <2>. QED
    BY <1>2, <1>3, <2>1, <2>2, ChainOrder DEF At
<1>5. pc["middle"] > 1 /\ pc["tail"] > 1
  BY <1>4 DEF StartedInOrder, ChainIsLaunchedInOrder, ChainLaunch
<1>6. \A q \in {"middle", "tail"} : status[q] = "up" \/ (status[q] = "exited" /\ pc[q] > 2)
  <2> SUFFICES ASSUME NEW q \in {"middle", "tail"}, status[q] # "up"
               PROVE  status[q] = "exited" /\ pc[q] > 2
    OBVIOUS
  <2>1. status[q] = "exited"
    BY <1>3, <1>5 DEF StartedInOrder, Calm
  <2>2. pc[q] \in DOMAIN Script[q] /\ Script[q][pc[q]].op \in {"dial", "redial"}
    BY <2>1 DEF ExitsAreRefusals, Refused
  <2>3. pc[q] \in {3, 4}
    BY <2>2, ChainScripts DEF Call
  <2>. QED
    BY <2>1, <2>3
<1>7. CASE p = "head" /\ pc["head"] = 1 /\ PortOf(p) = 19000
  <2>1. status["middle"] = "up"
    BY <1>3, <1>6, <1>7, ChainOrder
  <2>2. Script["middle"][1] = [op |-> "listen", port |-> 19000]
    BY ChainScripts DEF Call
  <2>3. Passed("middle", "listen", 19000)
    BY <1>3, <1>5, <2>2 DEF Passed
  <2>. QED
    BY <1>7, <2>1, <2>3 DEF Listening
<1>8. CASE p = "middle" /\ pc["middle"] = 4 /\ PortOf(p) = 20000
  <2>1. status["tail"] = "up"
    BY <1>3, <1>6, <1>8, ChainOrder
  <2>2. Script["tail"][1] = [op |-> "listen", port |-> 20000]
    BY ChainScripts DEF Call
  <2>3. Passed("tail", "listen", 20000)
    BY <1>3, <1>5, <2>2 DEF Passed
  <2>. QED
    BY <1>8, <2>1, <2>3 DEF Listening
<1>. QED
  BY <1>2, <1>7, <1>8

(***************************************************************************)
(* If the chain is started in order and nobody is killed, head and middle  *)
(* never give up because of a single refused dial, whatever the timing:    *)
(* only the tail can be, by the head (tail.cpp:240).                       *)
(***************************************************************************)
THEOREM OnlyTheTailIsRefused ==
  ASSUME IsChain, ChainIsLaunchedInOrder
  PROVE  Spec => []OnlyRacersAreRefused
<1> DEFINE J == Inv /\ StartedInOrder /\ ExitsAreRefusals
<1>1. Init => J
  BY InitInv, InitOrder
<1>2. J /\ [Next]_vars => J'
  <2> SUFFICES ASSUME J, [Next]_vars
               PROVE  J'
    OBVIOUS
  <2>1. Types /\ AcceptedWasOpened
    BY DEF Inv
  <2>2. DialsAreHeard
    BY <2>1, ChainIsHeard
  <2>. QED
    BY <2>1, <2>2, ChainOneDialPerPort, InvStep, OrderStep, RefusalStep
<1>3. J => OnlyRacersAreRefused
  BY RefusalsAreFair
<1>. HIDE DEF J
<1>. QED
  BY <1>1, <1>2, <1>3, PTL DEF Spec

\* Which call accepts the connection to a port.
LEMMA ChainAccepts ==
  ASSUME IsChain, NEW p \in Proc, NEW i \in Nat, NEW n, Accepts(p, i, n)
  PROVE  \/ p = "middle" /\ i = 2 /\ n = 19000
         \/ p = "tail" /\ i = 2 /\ n = 20000
         \/ p = "head" /\ i = 3 /\ n = 30501
         \/ p = "middle" /\ i = 6 /\ n = 30502
         \/ p = "head" /\ i = 5 /\ n = 18000
<1>1. CASE p = "head"
  BY <1>1, ChainScripts DEF Accepts, Call
<1>2. CASE p = "middle"
  BY <1>2, ChainScripts DEF Accepts, Call
<1>3. CASE p = "tail"
  BY <1>3, ChainScripts DEF Accepts, Call
<1>. QED
  BY <1>1, <1>2, <1>3

\* Each connection is accepted by one call, and there is one that opens it.
LEMMA ChainPairs ==
  ASSUME IsChain
  PROVE  OneAcceptPerPort /\ AcceptsAreDialled
<1>1. OneAcceptPerPort
  BY ChainAccepts DEF OneAcceptPerPort
<1>2. /\ Opens("head", 1, 19000)
      /\ Opens("middle", 4, 20000)
      /\ Opens("middle", 3, 30501)
      /\ Opens("tail", 3, 30502)
      /\ Opens("tail", 4, 18000)
  BY ChainScripts DEF Opens, Call
<1>3. AcceptsAreDialled
  <2> SUFFICES ASSUME NEW n \in Port, NEW p \in Proc, NEW i \in Nat, Accepts(p, i, n)
               PROVE  \E q \in Proc : \E j \in Nat : Opens(q, j, n)
    BY DEF AcceptsAreDialled
  <2>1. n \in {19000, 20000, 30501, 30502, 18000}
    BY ChainAccepts
  <2>. QED
    BY <1>2, <2>1
<1>. QED
  BY <1>1, <1>3

\* An order in which all calls can be made: head and middle connect, then
\* middle and tail, then the tail connects to the head.
ChainRank ==
  [p \in ChainProc |-> [i \in Nat |->
     CASE p = "head" -> IF i < 3 THEN i ELSE i + 5
       [] p = "middle" -> IF i < 6 THEN i ELSE i + 2
       [] p = "tail" -> IF i < 2 THEN i ELSE i + 3]]

\* ChainRank ranks the calls.
LEMMA ChainIsRanked ==
  ASSUME IsChain
  PROVE  Ranks(ChainRank)
<1>1. ChainRank \in [Proc -> [Nat -> Nat]]
  BY DEF ChainRank
<1>2. ASSUME NEW p \in Proc, NEW i \in Nat, NEW j \in Nat, i <= j
      PROVE  ChainRank[p][i] <= ChainRank[p][j]
  BY <1>2 DEF ChainRank
<1>3. ASSUME NEW n \in Port, NEW p \in Proc, NEW q \in Proc, NEW i \in Nat, NEW j \in Nat,
             Accepts(p, i, n), Opens(q, j, n)
      PROVE  ChainRank[q][j] < ChainRank[p][i]
  <2>1. \/ p = "middle" /\ i = 2 /\ n = 19000
        \/ p = "tail" /\ i = 2 /\ n = 20000
        \/ p = "head" /\ i = 3 /\ n = 30501
        \/ p = "middle" /\ i = 6 /\ n = 30502
        \/ p = "head" /\ i = 5 /\ n = 18000
    BY <1>3, ChainAccepts
  <2>2. \/ q = "head" /\ j = 1 /\ n = 19000
        \/ q = "middle" /\ j = 4 /\ n = 20000
        \/ q = "middle" /\ j = 3 /\ n = 30501
        \/ q = "tail" /\ j = 3 /\ n = 30502
        \/ q = "tail" /\ j = 4 /\ n = 18000
    BY <1>3, ChainOpens
  <2>. QED
    BY <2>1, <2>2 DEF ChainRank
<1>. QED
  BY <1>1, <1>2, <1>3 DEF Ranks

(***************************************************************************)
(* No circular wait in the set-up of the chain: a program that hangs in    *)
(* accept() does so because of one that has ended, even if the tail was    *)
(* refused, or others were killed (head.cpp:312, tail.cpp:240).            *)
(***************************************************************************)
THEOREM ChainSetUpHasNoCircularWait ==
  ASSUME IsChain
  PROVE  Spec => []StuckHasCause
  BY NoCircularWait, ChainOneDialPerPort, ChainPairs, ChainIsRanked

-----------------------------------------------------------------------------
\* The scripts, call by call.
LEMMA RaftScripts ==
  ASSUME IsRaft
  PROVE  /\ Script["leader"] =
              <<Call("dial", 18000), Call("listen", 30501), Call("accept", 30501),
                Call("dial", 18002), Call("listen", 30502), Call("accept", 30502)>>
         /\ Script["follower_1"] =
              <<Call("listen", 18000), Call("accept", 18000), Call("redial", 30501)>>
         /\ Script["follower_2"] =
              <<Call("listen", 18002), Call("accept", 18002), Call("redial", 30502)>>
<1>1. Script["leader"] = LeaderScript
  BY DEF RaftScript
<1>2. Script["follower_1"] = FollowerScript(1)
  BY DEF RaftScript
<1>3. Script["follower_2"] = FollowerScript(2)
  BY DEF RaftScript
<1>. QED
  BY <1>1, <1>2, <1>3 DEF LeaderScript, FollowerScript

\* How many calls each program makes.
LEMMA RaftLengths ==
  ASSUME IsRaft
  PROVE  /\ Len(Script["leader"]) = 6
         /\ Len(Script["follower_1"]) = 3 /\ Len(Script["follower_2"]) = 3
  BY RaftScripts

\* Which call opens the connection to a port.
LEMMA RaftOpens ==
  ASSUME IsRaft, NEW p \in Proc, NEW i \in Nat, NEW n, Opens(p, i, n)
  PROVE  \/ p = "leader" /\ i = 1 /\ n = 18000
         \/ p = "leader" /\ i = 4 /\ n = 18002
         \/ p = "follower_1" /\ i = 3 /\ n = 30501
         \/ p = "follower_2" /\ i = 3 /\ n = 30502
<1>1. CASE p = "leader"
  BY <1>1, RaftScripts DEF Opens, Call
<1>2. CASE p = "follower_1"
  BY <1>2, RaftScripts DEF Opens, Call
<1>3. CASE p = "follower_2"
  BY <1>3, RaftScripts DEF Opens, Call
<1>. QED
  BY <1>1, <1>2, <1>3

\* No port is dialled by two calls.
LEMMA RaftOneDialPerPort ==
  ASSUME IsRaft
  PROVE  OneDialPerPort
  BY RaftOpens DEF OneDialPerPort

\* How far the others are when a process has accepted a connection.
LEMMA RaftOrder ==
  ASSUME IsRaft, Types, AcceptedWasOpened
  PROVE  /\ pc["leader"] > 3 => pc["follower_1"] > 3
         /\ pc["leader"] > 6 => pc["follower_2"] > 3
         /\ pc["follower_1"] > 2 => pc["leader"] > 1
         /\ pc["follower_2"] > 2 => pc["leader"] > 4
<1>1. /\ Accepts("leader", 3, 30501) /\ Accepts("leader", 6, 30502)
      /\ Accepts("follower_1", 2, 18000) /\ Accepts("follower_2", 2, 18002)
  BY RaftScripts DEF Accepts, Call
<1>2. {30501, 30502, 18000, 18002} \subseteq Port
  BY <1>1 DEF Accepts, Port
<1>3. \A p \in Proc : pc[p] \in Nat
  BY DEF Types
<1>4. \A p \in Proc : \A i \in Nat : \A n \in Port :
        Accepts(p, i, n) /\ pc[p] > i => Opened(n)
  BY <1>3 DEF AcceptedWasOpened, Accepted
<1>5. /\ pc["leader"] > 3 => Opened(30501)
      /\ pc["leader"] > 6 => Opened(30502)
  BY <1>1, <1>2, <1>3, <1>4
<1>6. pc["follower_1"] > 2 => Opened(18000)
  BY <1>1, <1>2, <1>4
<1>7. pc["follower_2"] > 2 => Opened(18002)
  BY <1>1, <1>2, <1>4
<1>8. Opened(30501) => pc["follower_1"] > 3
  BY <1>3, RaftOpens DEF Opened
<1>9. Opened(30502) => pc["follower_2"] > 3
  BY <1>3, RaftOpens DEF Opened
<1>10. Opened(18000) => pc["leader"] > 1
  BY <1>3, RaftOpens DEF Opened
<1>11. Opened(18002) => pc["leader"] > 4
  BY <1>3, RaftOpens DEF Opened
<1>. QED
  BY <1>5, <1>6, <1>7, <1>8, <1>9, <1>10, <1>11

(***************************************************************************)
(* The leader's threads start only when both followers are connected in    *)
(* both directions (leader.cpp:266).                                       *)
(***************************************************************************)
THEOREM LeaderStartsLast ==
  ASSUME IsRaft
  PROVE  Spec => []RootStartsLast
<1>1. Types /\ AcceptedWasOpened => RootStartsLast
  <2> SUFFICES ASSUME Types, AcceptedWasOpened, Running("leader"),
                      NEW p \in Proc, NEW i \in Dials(p)
               PROVE  pc[p] > i
    BY DEF RootStartsLast
  <2>1. pc["leader"] \in Nat /\ Len(Script["leader"]) = 6
    BY RaftLengths DEF Types
  <2>2. pc["leader"] > 6
    BY <2>1 DEF Running
  <2>3. pc["follower_1"] > 3 /\ pc["follower_2"] > 3
    BY <2>1, <2>2, RaftOrder
  <2>4. Script[p] \in Seq([op : Op, port : Nat])
    BY ConstantsAssumption
  <2>5. i \in Nat /\ Opens(p, i, Script[p][i].port)
    BY <2>4 DEF Dials, Opens
  <2>6. \/ p = "leader" /\ i \in {1, 4}
        \/ p \in {"follower_1", "follower_2"} /\ i = 3
    BY <2>5, RaftOpens
  <2>. QED
    BY <2>1, <2>2, <2>3, <2>6
<1>. QED
  BY <1>1, AcceptedIsOpened, RaftOneDialPerPort, PTL

(***************************************************************************)
(* The leader goes on after connect_to_the_server only when the follower's *)
(* program has accepted it: its calls come in threes, and the third waits  *)
(* for the connection back (leader.cpp:237).                               *)
(***************************************************************************)
THEOREM LeaderIsConfirmed ==
  ASSUME IsRaft
  PROVE  Spec => []BackConnectionConfirms
<1>1. Types /\ AcceptedWasOpened => BackConnectionConfirms
  <2> SUFFICES ASSUME Types, AcceptedWasOpened,
                      NEW p \in Proc, NEW i \in 1 .. pc[p] - 3, Script[p][i].op = "dial"
               PROVE  \E q \in Proc : Passed(q, "accept", Script[p][i].port)
    BY DEF BackConnectionConfirms
  <2>1. \A q \in Proc : pc[q] \in Nat /\ pc[q] <= Len(Script[q]) + 1
    BY DEF Types
  <2>2. i \in Nat /\ 1 <= i /\ i + 3 <= pc[p] /\ i + 2 <= Len(Script[p])
    <3>1. Len(Script[p]) \in Nat
      BY RaftLengths
    <3>. QED
      BY <2>1, <3>1
  <2>3. CASE p = "leader"
    <3>1. i \in {1, 2, 3, 4}
      <4>1. Len(Script[p]) = 6
        BY <2>3, RaftLengths
      <4>. QED
        BY <2>2, <4>1
    <3>2. \/ i = 1 /\ Script[p][i].port = 18000
          \/ i = 4 /\ Script[p][i].port = 18002
      BY <2>3, <3>1, RaftScripts DEF Call
    <3>3. CASE i = 1 /\ Script[p][i].port = 18000
      <4>1. pc["follower_1"] > 2
        BY <2>1, <2>2, <2>3, <3>3, RaftOrder
      <4>2. Script["follower_1"][2] = [op |-> "accept", port |-> 18000]
        BY RaftScripts DEF Call
      <4>3. Passed("follower_1", "accept", 18000)
        BY <2>1, <4>1, <4>2 DEF Passed
      <4>. QED
        BY <3>3, <4>3
    <3>4. CASE i = 4 /\ Script[p][i].port = 18002
      <4>1. pc["follower_2"] > 2
        BY <2>1, <2>2, <2>3, <3>4, RaftOrder
      <4>2. Script["follower_2"][2] = [op |-> "accept", port |-> 18002]
        BY RaftScripts DEF Call
      <4>3. Passed("follower_2", "accept", 18002)
        BY <2>1, <4>1, <4>2 DEF Passed
      <4>. QED
        BY <3>4, <4>3
    <3>. QED
      BY <3>2, <3>3, <3>4
  <2>4. CASE p # "leader"
    <3>1. Len(Script[p]) = 3
      BY <2>4, RaftLengths
    <3>2. i = 1
      BY <2>2, <3>1
    <3>3. Script[p][1].op = "listen"
      BY <2>4, RaftScripts DEF Call
    <3>. QED
      BY <3>2, <3>3
  <2>. QED
    BY <2>3, <2>4
<1>. QED
  BY <1>1, AcceptedIsOpened, RaftOneDialPerPort, PTL

\* The leader finds the follower it dials.
LEMMA RaftIsHeard ==
  ASSUME IsRaft, RaftIsLaunchedInOrder, Types, AcceptedWasOpened, StartedInOrder,
         ExitsAreRefusals
  PROVE  DialsAreHeard
<1> SUFFICES ASSUME Calm, NEW p \in Proc, At(p, "dial")
             PROVE  Listening(PortOf(p))
  BY DEF DialsAreHeard
<1>1. pc[p] \in DOMAIN Script[p] /\ Script[p][pc[p]].op = "dial"
  BY CallFacts DEF Op
<1>2. /\ p = "leader"
      /\ \/ pc["leader"] = 1 /\ PortOf(p) = 18000
         \/ pc["leader"] = 4 /\ PortOf(p) = 18002
  BY <1>1, RaftScripts DEF PortOf, Call
<1>3. \A q \in Proc : pc[q] \in Nat
  BY DEF Types
<1>4. pc["follower_1"] > 1 /\ pc["follower_2"] > 1
  BY <1>2 DEF At, StartedInOrder, RaftIsLaunchedInOrder, RaftLaunch
<1>5. \A q \in {"follower_1", "follower_2"} :
        status[q] = "up" \/ (status[q] = "exited" /\ pc[q] > 2)
  <2> SUFFICES ASSUME NEW q \in {"follower_1", "follower_2"}, status[q] # "up"
               PROVE  status[q] = "exited" /\ pc[q] > 2
    OBVIOUS
  <2>1. status[q] = "exited"
    BY <1>3, <1>4 DEF StartedInOrder, Calm
  <2>2. pc[q] \in DOMAIN Script[q] /\ Script[q][pc[q]].op \in {"dial", "redial"}
    BY <2>1 DEF ExitsAreRefusals, Refused
  <2>3. pc[q] = 3
    BY <2>2, RaftScripts DEF Call
  <2>. QED
    BY <2>1, <2>3
<1>6. CASE pc["leader"] = 1 /\ PortOf(p) = 18000
  <2>1. status["follower_1"] = "up"
    BY <1>3, <1>5, <1>6, RaftOrder
  <2>2. Script["follower_1"][1] = [op |-> "listen", port |-> 18000]
    BY RaftScripts DEF Call
  <2>3. Passed("follower_1", "listen", 18000)
    BY <1>3, <1>4, <2>2 DEF Passed
  <2>. QED
    BY <1>6, <2>1, <2>3 DEF Listening
<1>7. CASE pc["leader"] = 4 /\ PortOf(p) = 18002
  <2>1. status["follower_2"] = "up"
    BY <1>3, <1>5, <1>7, RaftOrder
  <2>2. Script["follower_2"][1] = [op |-> "listen", port |-> 18002]
    BY RaftScripts DEF Call
  <2>3. Passed("follower_2", "listen", 18002)
    BY <1>3, <1>4, <2>2 DEF Passed
  <2>. QED
    BY <1>7, <2>1, <2>3 DEF Listening
<1>. QED
  BY <1>2, <1>6, <1>7

(***************************************************************************)
(* If the followers are started before the leader and nobody is killed,    *)
(* the leader is never refused, and a follower gives up only after all its *)
(* attempts: Raft's set-up has no race (leader.cpp:237, follower.cpp:129). *)
(***************************************************************************)
THEOREM NobodyIsRefused ==
  ASSUME IsRaft, RaftIsLaunchedInOrder
  PROVE  Spec => []OnlyRacersAreRefused
<1> DEFINE J == Inv /\ StartedInOrder /\ ExitsAreRefusals
<1>1. Init => J
  BY InitInv, InitOrder
<1>2. J /\ [Next]_vars => J'
  <2> SUFFICES ASSUME J, [Next]_vars
               PROVE  J'
    OBVIOUS
  <2>1. Types /\ AcceptedWasOpened
    BY DEF Inv
  <2>2. DialsAreHeard
    BY <2>1, RaftIsHeard
  <2>. QED
    BY <2>1, <2>2, RaftOneDialPerPort, InvStep, OrderStep, RefusalStep
<1>3. J => OnlyRacersAreRefused
  BY RefusalsAreFair
<1>. HIDE DEF J
<1>. QED
  BY <1>1, <1>2, <1>3, PTL DEF Spec

\* Which call accepts the connection to a port.
LEMMA RaftAccepts ==
  ASSUME IsRaft, NEW p \in Proc, NEW i \in Nat, NEW n, Accepts(p, i, n)
  PROVE  \/ p = "follower_1" /\ i = 2 /\ n = 18000
         \/ p = "follower_2" /\ i = 2 /\ n = 18002
         \/ p = "leader" /\ i = 3 /\ n = 30501
         \/ p = "leader" /\ i = 6 /\ n = 30502
<1>1. CASE p = "leader"
  BY <1>1, RaftScripts DEF Accepts, Call
<1>2. CASE p = "follower_1"
  BY <1>2, RaftScripts DEF Accepts, Call
<1>3. CASE p = "follower_2"
  BY <1>3, RaftScripts DEF Accepts, Call
<1>. QED
  BY <1>1, <1>2, <1>3

\* Each connection is accepted by one call, and there is one that opens it.
LEMMA RaftPairs ==
  ASSUME IsRaft
  PROVE  OneAcceptPerPort /\ AcceptsAreDialled
<1>1. OneAcceptPerPort
  BY RaftAccepts DEF OneAcceptPerPort
<1>2. /\ Opens("leader", 1, 18000)
      /\ Opens("leader", 4, 18002)
      /\ Opens("follower_1", 3, 30501)
      /\ Opens("follower_2", 3, 30502)
  BY RaftScripts DEF Opens, Call
<1>3. AcceptsAreDialled
  <2> SUFFICES ASSUME NEW n \in Port, NEW p \in Proc, NEW i \in Nat, Accepts(p, i, n)
               PROVE  \E q \in Proc : \E j \in Nat : Opens(q, j, n)
    BY DEF AcceptsAreDialled
  <2>1. n \in {18000, 18002, 30501, 30502}
    BY RaftAccepts
  <2>. QED
    BY <1>2, <2>1
<1>. QED
  BY <1>1, <1>3

\* An order in which all calls can be made: the leader connects to the first
\* follower in both directions, then to the second one.
RaftRank ==
  [p \in RaftProc |-> [i \in Nat |->
     CASE p = "leader" -> IF i < 3 THEN i ELSE IF i < 6 THEN i + 2 ELSE i + 4
       [] p = "follower_1" -> i
       [] p = "follower_2" -> IF i < 2 THEN i ELSE i + 5]]

\* RaftRank ranks the calls.
LEMMA RaftIsRanked ==
  ASSUME IsRaft
  PROVE  Ranks(RaftRank)
<1>1. RaftRank \in [Proc -> [Nat -> Nat]]
  BY DEF RaftRank
<1>2. ASSUME NEW p \in Proc, NEW i \in Nat, NEW j \in Nat, i <= j
      PROVE  RaftRank[p][i] <= RaftRank[p][j]
  BY <1>2 DEF RaftRank
<1>3. ASSUME NEW n \in Port, NEW p \in Proc, NEW q \in Proc, NEW i \in Nat, NEW j \in Nat,
             Accepts(p, i, n), Opens(q, j, n)
      PROVE  RaftRank[q][j] < RaftRank[p][i]
  <2>1. \/ p = "follower_1" /\ i = 2 /\ n = 18000
        \/ p = "follower_2" /\ i = 2 /\ n = 18002
        \/ p = "leader" /\ i = 3 /\ n = 30501
        \/ p = "leader" /\ i = 6 /\ n = 30502
    BY <1>3, RaftAccepts
  <2>2. \/ q = "leader" /\ j = 1 /\ n = 18000
        \/ q = "leader" /\ j = 4 /\ n = 18002
        \/ q = "follower_1" /\ j = 3 /\ n = 30501
        \/ q = "follower_2" /\ j = 3 /\ n = 30502
    BY <1>3, RaftOpens
  <2>. QED
    BY <2>1, <2>2 DEF RaftRank
<1>. QED
  BY <1>1, <1>2, <1>3 DEF Ranks

(***************************************************************************)
(* No circular wait in the set-up of Raft: a program that hangs in         *)
(* accept() does so because of one that has ended (shared.h:222).          *)
(***************************************************************************)
THEOREM RaftSetUpHasNoCircularWait ==
  ASSUME IsRaft
  PROVE  Spec => []StuckHasCause
  BY NoCircularWait, RaftOneDialPerPort, RaftPairs, RaftIsRanked
=============================================================================
