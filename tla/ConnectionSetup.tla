-------------------------- MODULE ConnectionSetup --------------------------
(***************************************************************************)
(* How the processes of either protocol connect to each other before any   *)
(* thread starts (main() of cr/*.cpp and raft/*.cpp).  Set-up is a fixed   *)
(* sequence of socket calls per process, its Script:                       *)
(*                                                                         *)
(*   dial    connect() once, exit(1) if refused                            *)
(*           (connect_to_the_server, ..._one_sided_connection)             *)
(*   redial  connect() up to Attempts times, a second apart, then exit(1)  *)
(*           (create_communication_pair)                                   *)
(*   listen  bind() and listen()                                           *)
(*   accept  block until a connection is pending                           *)
(*                                                                         *)
(* A listening socket is never closed while its process lives, and the     *)
(* kernel completes a connect() to it whether or not accept() was called.  *)
(***************************************************************************)
EXTENDS Integers, Sequences, FiniteSets

CONSTANTS
  Proc,
  Script,           \* [process -> sequence of calls [op |-> ..., port |-> ...]]
  LaunchAfter,      \* [process -> processes that must listen before it is started]
  Root,             \* the process whose sender thread starts all traffic
  Racing,           \* processes that dial a port whose owner may not listen yet
  Attempts,         \* number_of_connect_attempts
  MaxKills          \* bound on the processes killed from outside

VARIABLES
  status,           \* "off": not launched; "up"; "exited": exit(1); "killed"
  pc,               \* the call of the script each process is at
  pending,          \* connections to each port that are not accepted yet
  tries             \* failed attempts of the redial each process is at

vars == <<status, pc, pending, tries>>

Op == {"listen", "accept", "dial", "redial"}
Port == UNION {{Script[p][i].port : i \in DOMAIN Script[p]} : p \in Proc}

ASSUME ConstantsAssumption ==
  /\ \A p \in Proc : Script[p] \in Seq([op : Op, port : Nat])
  /\ LaunchAfter \in [Proc -> SUBSET Proc]
  /\ Root \in Proc /\ Racing \subseteq Proc
  /\ Attempts \in Nat \ {0}
  /\ MaxKills \in Nat

TypeOK ==
  /\ status \in [Proc -> {"off", "up", "exited", "killed"}]
  /\ pc \in [Proc -> Nat]
  /\ \A p \in Proc : pc[p] \in 1 .. Len(Script[p]) + 1
  /\ pending \in [Port -> 0 .. Cardinality(Proc)]
  /\ tries \in [Proc -> 0 .. Attempts]

Init ==
  /\ status = [p \in Proc |-> "off"]
  /\ pc = [p \in Proc |-> 1]
  /\ pending = [n \in Port |-> 0]
  /\ tries = [p \in Proc |-> 0]

\* Its connections are made and its threads run.
Running(p) == status[p] = "up" /\ pc[p] > Len(Script[p])

At(p, op) == status[p] = "up" /\ ~ Running(p) /\ Script[p][pc[p]].op = op

PortOf(p) == Script[p][pc[p]].port

Passed(p, op, n) == \E i \in 1 .. pc[p] - 1 : Script[p][i] = [op |-> op, port |-> n]

Listening(n) == \E q \in Proc : status[q] = "up" /\ Passed(q, "listen", n)

Advance(p) ==
  /\ pc' = [pc EXCEPT ![p] = @ + 1]
  /\ tries' = [tries EXCEPT ![p] = 0]

Exit(p) == status' = [status EXCEPT ![p] = "exited"]

-----------------------------------------------------------------------------
\* A mistaken version of RedialFails: failed attempts are not counted.
RedialForever(p) ==
  /\ At(p, "redial") /\ ~ Listening(PortOf(p))
  /\ UNCHANGED vars

-----------------------------------------------------------------------------
\* The operator starts a program once those it dials first are listening.
Launch(p) ==
  /\ status[p] = "off"
  /\ \A q \in LaunchAfter[p] : status[q] = "up" /\ pc[q] > 1
  /\ status' = [status EXCEPT ![p] = "up"]
  /\ UNCHANGED <<pc, pending, tries>>

Listen(p) ==
  /\ At(p, "listen")
  /\ Advance(p)
  /\ UNCHANGED <<status, pending>>

\* The connection accepted may be of a process that has ended since.
Accept(p) ==
  /\ At(p, "accept") /\ pending[PortOf(p)] > 0
  /\ pending' = [pending EXCEPT ![PortOf(p)] = @ - 1]
  /\ Advance(p)
  /\ UNCHANGED status

\* connect() succeeds, on a dial or on an attempt of a redial.
Connect(p) ==
  /\ At(p, "dial") \/ At(p, "redial")
  /\ Listening(PortOf(p))
  /\ pending' = [pending EXCEPT ![PortOf(p)] = @ + 1]
  /\ Advance(p)
  /\ UNCHANGED status

DialFails(p) ==
  /\ At(p, "dial") /\ ~ Listening(PortOf(p))
  /\ Exit(p)
  /\ UNCHANGED <<pc, pending, tries>>

RedialFails(p) ==
  /\ At(p, "redial") /\ ~ Listening(PortOf(p))
  /\ tries' = [tries EXCEPT ![p] = @ + 1]
  /\ IF tries'[p] = Attempts THEN Exit(p) ELSE UNCHANGED status
  /\ UNCHANGED <<pc, pending>>

Kill(p) ==
  /\ status[p] = "up"
  /\ Cardinality({q \in Proc : status[q] = "killed"}) < MaxKills
  /\ status' = [status EXCEPT ![p] = "killed"]
  /\ UNCHANGED <<pc, pending, tries>>

Step(p) ==
  Listen(p) \/ Accept(p) \/ Connect(p) \/ DialFails(p) \/ RedialFails(p)

Next == \E p \in Proc : Launch(p) \/ Step(p) \/ Kill(p)

\* A process that can take its next call takes it; starting programs is up
\* to the operator.
Fairness == \A p \in Proc : WF_vars(Step(p))

Spec == Init /\ [][Next]_vars /\ Fairness

-----------------------------------------------------------------------------
Dials(p) == {i \in DOMAIN Script[p] : Script[p][i].op \in {"dial", "redial"}}

(***************************************************************************)
(* When the process that sends the first request starts its threads, every *)
(* connection of every process has been made, even those that the root     *)
(* takes no part in.  This is what lets the protocol models begin with all *)
(* links in place (head.cpp:367, leader.cpp:266).                          *)
(***************************************************************************)
RootStartsLast ==
  Running(Root) => \A p \in Proc : \A i \in Dials(p) : pc[p] > i

(***************************************************************************)
(* connect_to_the_server returns only when the peer's program, not merely  *)
(* its kernel, has taken the connection: the accept() on the back port     *)
(* (shared.h:222) completes only after the peer accepted the forward one.  *)
(***************************************************************************)
BackConnectionConfirms ==
  \A p \in Proc : \A i \in 1 .. pc[p] - 3 :
    Script[p][i].op = "dial" /\ Script[p][i + 2].op = "accept"
      => \E q \in Proc : Passed(q, "accept", Script[p][i].port)

(***************************************************************************)
(* With the programs started in order and none killed, a process gives up  *)
(* only after all its attempts were refused.  The tail of the chain is the *)
(* exception: it dials the head once, while the head may still be waiting  *)
(* for the middle and not listen yet (tail.cpp:240, head.cpp:302).         *)
(***************************************************************************)
OnlyRacersAreRefused ==
  (\A p \in Proc : status[p] # "killed")
    => \A p \in Proc \ Racing : status[p] = "exited" => tries[p] = Attempts

Ended(p) == status[p] \in {"exited", "killed"}

\* p waits for a connection that q has still to make.
Awaits(p, q) ==
  /\ At(p, "accept")
  /\ \E i \in Dials(q) : i >= pc[q] /\ Script[q][i].port = PortOf(p)

\* p has ended, or waits for one that has, or for one that waits for one ...
BehindLost(p) ==
  \A S \in SUBSET Proc :
    p \in S /\ (\A x \in S, y \in Proc : Awaits(x, y) => y \in S)
      => \E q \in S : Ended(q)

(***************************************************************************)
(* No process waits for one that waits, through others, for it.  Once all  *)
(* programs are started each of them comes up, or ends, or is at last in   *)
(* an accept(), which has no time-out, because of one that has ended       *)
(* (head.cpp:312, shared.h:222).                                           *)
(***************************************************************************)
SetUpCompletes ==
  (\A p \in Proc : status[p] # "off")
    ~> \A p \in Proc : Running(p) \/ BehindLost(p)
=============================================================================
