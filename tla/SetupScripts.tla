---------------------------- MODULE SetupScripts ----------------------------
(***************************************************************************)
(* The scripts of the five programs, which make ConnectionSetup the set-up *)
(* of chain replication or of Raft.  Ports are those of cr/config.h and    *)
(* raft/config.h; 30500 is client_base_addr and 30500 + n the port on      *)
(* which the connection back from node n is accepted.                      *)
(***************************************************************************)
EXTENDS ConnectionSetup

Call(op, port) == [op |-> op, port |-> port]

\* connect_to_the_server, and create_receiver_connection with its back dial.
ConnectTo(port, back) == <<Call("dial", port), Call("listen", back), Call("accept", back)>>
ReceiveFrom(port, back) == <<Call("listen", port), Call("accept", port), Call("redial", back)>>

\* A mistaken version of HeadScript: the head does not wait for the tail.
HeadListensOnly == ConnectTo(19000, 30501) \o <<Call("listen", 18000)>>

\* A mistaken version of MiddleScript: it dials back before it accepts.
MiddleDialsBackFirst ==
  <<Call("listen", 19000), Call("redial", 30501), Call("accept", 19000)>>
    \o ConnectTo(20000, 30502)

\* A mistaken version of MiddleScript: the dial back is not retried.
MiddleDialsBackOnce ==
  <<Call("listen", 19000), Call("accept", 19000), Call("dial", 30501)>>
    \o ConnectTo(20000, 30502)

\* A mistaken version of TailScript: it does not dial the middle back.
TailIsOneSided ==
  <<Call("listen", 20000), Call("accept", 20000), Call("dial", 18000)>>

\* main() of the head, which passes biderectional = false for the tail.
HeadScript == ConnectTo(19000, 30501) \o <<Call("listen", 18000), Call("accept", 18000)>>

MiddleScript == ReceiveFrom(19000, 30501) \o ConnectTo(20000, 30502)

TailScript == ReceiveFrom(20000, 30502) \o <<Call("dial", 18000)>>

ChainProc == {"head", "middle", "tail"}

ChainScript ==
  [p \in ChainProc |->
     CASE p = "head" -> HeadScript [] p = "middle" -> MiddleScript [] p = "tail" -> TailScript]

\* Both nodes must listen before the head starts: it dials the middle once,
\* and the middle then dials the tail once.
ChainLaunch == [p \in ChainProc |-> IF p = "head" THEN {"middle", "tail"} ELSE {}]

IsChain == Proc = ChainProc /\ Script = ChainScript /\ Root = "head"

\* The tail alone dials a port whose owner may not be there yet.
ChainIsLaunchedInOrder == LaunchAfter = ChainLaunch /\ Racing = {"tail"}

-----------------------------------------------------------------------------
\* A mistaken version of LeaderScript: the connection back is not awaited.
LeaderDoesNotAccept ==
  <<Call("dial", 18000), Call("listen", 30501), Call("dial", 18002), Call("listen", 30502)>>

\* client(), called for each follower in turn.
LeaderScript ==
  <<Call("dial", 18000), Call("listen", 30501), Call("accept", 30501),
    Call("dial", 18002), Call("listen", 30502), Call("accept", 30502)>>

\* create_receiver_connection of follower n, started with its port.
FollowerScript(n) ==
  LET port == IF n = 1 THEN 18000 ELSE 18002
  IN  <<Call("listen", port), Call("accept", port), Call("redial", 30500 + n)>>

RaftProc == {"leader", "follower_1", "follower_2"}

RaftScript ==
  [p \in RaftProc |->
     CASE p = "leader" -> LeaderScript
       [] p = "follower_1" -> FollowerScript(1)
       [] p = "follower_2" -> FollowerScript(2)]

RaftLaunch == [p \in RaftProc |-> IF p = "leader" THEN {"follower_1", "follower_2"} ELSE {}]

IsRaft == Proc = RaftProc /\ Script = RaftScript /\ Root = "leader"

RaftIsLaunchedInOrder == LaunchAfter = RaftLaunch /\ Racing = {}
=============================================================================
