----------------------- MODULE ConnectionSetupProofs -----------------------
(***************************************************************************)
(* Proofs about set-up for every script in which no port is dialled by two *)
(* calls, and any number of attempts and kills: who has accepted a         *)
(* connection knows that the call that opened it is over; who gives up     *)
(* although nobody was killed was refused at a dial that may be refused;   *)
(* and if the calls can be ranked, nobody waits in a circle.               *)
(***************************************************************************)
EXTENDS ConnectionSetup, SequenceTheorems, WellFoundedInduction, TLAPS

USE ConstantsAssumption

\* Call i of p opens a connection to port n, or accepts one there.
Opens(p, i, n) ==
  i \in DOMAIN Script[p] /\ Script[p][i].op \in {"dial", "redial"} /\ Script[p][i].port = n

Accepts(p, i, n) ==
  i \in DOMAIN Script[p] /\ Script[p][i].op = "accept" /\ Script[p][i].port = n

\* What both protocols see to by giving each connection a port of its own.
OneDialPerPort ==
  \A n \in Port : \A p, q \in Proc : \A i, j \in Nat :
    Opens(p, i, n) /\ Opens(q, j, n) => p = q /\ i = j

\* Some process has made the call that opens the connection to n.
Opened(n) == \E p \in Proc : \E i \in Nat : i < pc[p] /\ Opens(p, i, n)

Accepted(n) == \E p \in Proc : \E i \in Nat : i < pc[p] /\ Accepts(p, i, n)

Types ==
  /\ pc \in [Proc -> Nat \ {0}]
  /\ \A p \in Proc : pc[p] <= Len(Script[p]) + 1
  /\ pending \in [Port -> Nat]

\* At most one connection is pending at a port, none before it is opened and
\* none after it was accepted.
AtMostOnePending ==
  \A n \in Port :
    /\ pending[n] <= 1
    /\ pending[n] = 1 => Opened(n) /\ ~ Accepted(n)

AcceptedWasOpened == \A n \in Port : Accepted(n) => Opened(n)

Inv == Types /\ AtMostOnePending /\ AcceptedWasOpened

\* The call a process is at is in its script, and its port is a port.
LEMMA CallFacts ==
  ASSUME Types, NEW p \in Proc, NEW op \in Op, At(p, op)
  PROVE  /\ pc[p] \in DOMAIN Script[p]
         /\ Script[p][pc[p]].op = op
         /\ PortOf(p) \in Port
<1>1. Script[p] \in Seq([op : Op, port : Nat])
  BY DEF ConstantsAssumption
<1>2. Len(Script[p]) \in Nat /\ DOMAIN Script[p] = 1 .. Len(Script[p])
  BY <1>1
<1>3. pc[p] \in Nat \ {0} /\ pc[p] <= Len(Script[p])
  BY <1>2 DEF Types, At, Running
<1>4. pc[p] \in DOMAIN Script[p]
  BY <1>2, <1>3
<1>. QED
  BY <1>4 DEF At, PortOf, Port

\* A process that goes on by one call adds that call to those that were made.
LEMMA AdvanceFacts ==
  ASSUME Types, NEW p \in Proc, Advance(p), NEW n
  PROVE  /\ Opened(n)' <=> Opened(n) \/ Opens(p, pc[p], n)
         /\ Accepted(n)' <=> Accepted(n) \/ Accepts(p, pc[p], n)
         /\ pc[p] \in DOMAIN Script[p]
              => /\ pc' \in [Proc -> Nat \ {0}]
                 /\ \A q \in Proc : pc'[q] <= Len(Script[q]) + 1
<1>1. pc \in [Proc -> Nat \ {0}] /\ pc' = [pc EXCEPT ![p] = @ + 1]
  BY DEF Types, Advance
<1>2. \A q \in Proc : \A i \in Nat : i < pc'[q] <=> i < pc[q] \/ (q = p /\ i = pc[p])
  BY <1>1
<1>3. pc[p] \in Nat
  BY <1>1
<1>4. ASSUME pc[p] \in DOMAIN Script[p], NEW q \in Proc
      PROVE  pc'[q] <= Len(Script[q]) + 1
  <2>1. Script[p] \in Seq([op : Op, port : Nat])
    BY DEF ConstantsAssumption
  <2>2. Len(Script[p]) \in Nat /\ DOMAIN Script[p] = 1 .. Len(Script[p])
    BY <2>1
  <2>3. pc'[p] <= Len(Script[p]) + 1
    BY <1>1, <1>3, <1>4, <2>2
  <2>4. q # p => pc'[q] <= Len(Script[q]) + 1
    BY <1>1 DEF Types
  <2>. QED
    BY <2>3, <2>4
<1>5. Opened(n)' <=> Opened(n) \/ Opens(p, pc[p], n)
  <2>1. Opened(n) <=> \E q \in Proc : \E i \in Nat : i < pc[q] /\ Opens(q, i, n)
    BY DEF Opened
  <2>2. Opened(n)' <=> \E q \in Proc : \E i \in Nat : i < pc'[q] /\ Opens(q, i, n)
    BY DEF Opened, Opens
  <2>. QED
    BY <1>2, <1>3, <2>1, <2>2
<1>6. Accepted(n)' <=> Accepted(n) \/ Accepts(p, pc[p], n)
  <2>1. Accepted(n) <=> \E q \in Proc : \E i \in Nat : i < pc[q] /\ Accepts(q, i, n)
    BY DEF Accepted
  <2>2. Accepted(n)' <=> \E q \in Proc : \E i \in Nat : i < pc'[q] /\ Accepts(q, i, n)
    BY DEF Accepted, Accepts
  <2>. QED
    BY <1>2, <1>3, <2>1, <2>2
<1>7. pc' \in [Proc -> Nat \ {0}]
  BY <1>1, <1>3
<1>. QED
  BY <1>4, <1>5, <1>6, <1>7

\* Each call keeps the invariant.
LEMMA InvStep == OneDialPerPort /\ Inv /\ [Next]_vars => Inv'
<1> SUFFICES ASSUME OneDialPerPort, Inv, [Next]_vars
             PROVE  Inv'
  OBVIOUS
<1> USE DEF Inv, AtMostOnePending, AcceptedWasOpened
<1>1. ASSUME UNCHANGED <<pc, pending>>
      PROVE  Inv'
  BY <1>1 DEF Types, Opened, Accepted
<1>2. ASSUME NEW p \in Proc, Listen(p)
      PROVE  Inv'
  <2>1. pc[p] \in DOMAIN Script[p] /\ Script[p][pc[p]].op = "listen"
    BY <1>2, CallFacts DEF Listen, Op
  <2>2. /\ \A n : Opened(n)' <=> Opened(n)
        /\ \A n : Accepted(n)' <=> Accepted(n)
        /\ pc' \in [Proc -> Nat \ {0}]
        /\ \A q \in Proc : pc'[q] <= Len(Script[q]) + 1
    BY <1>2, <2>1, AdvanceFacts DEF Listen, Opens, Accepts
  <2>. QED
    BY <1>2, <2>2 DEF Listen, Types
<1>3. ASSUME NEW p \in Proc, Accept(p)
      PROVE  Inv'
  <2> DEFINE m == PortOf(p)
  <2>1. /\ pc[p] \in DOMAIN Script[p] /\ Script[p][pc[p]].op = "accept"
        /\ m \in Port
    BY <1>3, CallFacts DEF Accept, Op
  <2>2. /\ pending[m] = 1
        /\ pending' \in [Port -> Nat]
        /\ pending'[m] = 0
        /\ \A n \in Port \ {m} : pending'[n] = pending[n]
    BY <1>3, <2>1 DEF Accept, Types
  <2>3. /\ \A n : Opened(n)' <=> Opened(n)
        /\ \A n : Accepted(n)' <=> Accepted(n) \/ n = m
        /\ pc' \in [Proc -> Nat \ {0}]
        /\ \A q \in Proc : pc'[q] <= Len(Script[q]) + 1
    BY <1>3, <2>1, AdvanceFacts DEF Accept, Opens, Accepts, PortOf
  <2>. QED
    BY <2>2, <2>3 DEF Types
<1>4. ASSUME NEW p \in Proc, Connect(p)
      PROVE  Inv'
  <2> DEFINE m == PortOf(p)
  <2>1. /\ pc[p] \in DOMAIN Script[p] /\ Script[p][pc[p]].op \in {"dial", "redial"}
        /\ m \in Port
    BY <1>4, CallFacts DEF Connect, Op
  <2>2. Opens(p, pc[p], m)
    BY <2>1 DEF Opens, PortOf
  <2>3. ~ Opened(m)
    BY <2>1, <2>2 DEF Opened, OneDialPerPort, Types
  <2>4. pending[m] = 0 /\ ~ Accepted(m)
    BY <2>1, <2>3 DEF Types
  <2>5. /\ pending' \in [Port -> Nat]
        /\ pending'[m] = 1
        /\ \A n \in Port \ {m} : pending'[n] = pending[n]
    BY <1>4, <2>1, <2>4 DEF Connect, Types
  <2>6. /\ \A n : Opened(n)' <=> Opened(n) \/ n = m
        /\ \A n : Accepted(n)' <=> Accepted(n)
        /\ pc' \in [Proc -> Nat \ {0}]
        /\ \A q \in Proc : pc'[q] <= Len(Script[q]) + 1
    BY <1>4, <2>1, AdvanceFacts DEF Connect, Opens, Accepts, PortOf
  <2>. QED
    BY <2>4, <2>5, <2>6 DEF Types
<1>5. ASSUME NEW p \in Proc, Launch(p) \/ DialFails(p) \/ RedialFails(p) \/ Kill(p)
      PROVE  UNCHANGED <<pc, pending>>
  BY <1>5 DEF Launch, DialFails, RedialFails, Kill
<1>. QED
  BY <1>1, <1>2, <1>3, <1>4, <1>5 DEF Next, Step, vars

\* Nothing has been accepted at first.
LEMMA InitInv == Init => Inv
<1> SUFFICES ASSUME Init
             PROVE  Inv
  OBVIOUS
<1>1. \A p \in Proc : Script[p] \in Seq([op : Op, port : Nat])
  BY DEF ConstantsAssumption
<1>2. \A p \in Proc : 0 \notin DOMAIN Script[p] /\ Len(Script[p]) \in Nat
  BY <1>1
<1>3. \A n : ~ Accepted(n)
  BY <1>2 DEF Init, Accepted, Accepts
<1>. QED
  BY <1>2, <1>3 DEF Init, Inv, Types, AtMostOnePending, AcceptedWasOpened

(***************************************************************************)
(* If no port is dialled twice, a process that has accepted a connection   *)
(* knows that the call that opened it has been made.  This is what every   *)
(* process relies on that counts on a connection it takes no part in.      *)
(***************************************************************************)
THEOREM AcceptedIsOpened ==
  ASSUME OneDialPerPort
  PROVE  Spec => [](Types /\ AcceptedWasOpened)
<1>1. Init => Inv
  BY InitInv
<1>2. Inv /\ [Next]_vars => Inv'
  BY InvStep
<1>3. Inv => Types /\ AcceptedWasOpened
  BY DEF Inv
<1>. QED
  BY <1>1, <1>2, <1>3, PTL DEF Spec

-----------------------------------------------------------------------------
Calm == \A p \in Proc : status[p] # "killed"

\* A process that is not launched is at its first call, and one that is was
\* launched when those it depends on were past theirs.
StartedInOrder ==
  /\ status \in [Proc -> {"off", "up", "exited", "killed"}]
  /\ tries \in [Proc -> Nat]
  /\ \A p \in Proc : status[p] = "off" => pc[p] = 1
  /\ \A p \in Proc : status[p] # "off" => \A q \in LaunchAfter[p] : pc[q] > 1

\* p is at a call that connects, and it was refused as often as it may be:
\* once if it is a racer that dials.
Refused(p) ==
  /\ pc[p] \in DOMAIN Script[p]
  /\ \/ Script[p][pc[p]].op = "redial" /\ tries[p] = Attempts
     \/ Script[p][pc[p]].op = "dial" /\ p \in Racing

ExitsAreRefusals == Calm => \A p \in Proc : status[p] = "exited" => Refused(p)

\* Who dials only once, and is no racer, finds its peer.
DialsAreHeard ==
  Calm => \A p \in Proc \ Racing : At(p, "dial") => Listening(PortOf(p))

\* Launching and each call keep the order of launching.
LEMMA OrderStep ==
  ASSUME Types, StartedInOrder, [Next]_vars
  PROVE  StartedInOrder'
<1> USE DEF StartedInOrder
<1>1. CASE UNCHANGED vars
  BY <1>1 DEF vars
<1>2. ASSUME NEW p \in Proc, Launch(p)
      PROVE  StartedInOrder'
  <2>1. \A q \in LaunchAfter[p] : q \in Proc
    BY ConstantsAssumption
  <2>. QED
    BY <1>2, <2>1 DEF Launch
<1>3. ASSUME NEW p \in Proc, status[p] = "up", Advance(p), UNCHANGED status
      PROVE  StartedInOrder'
  <2>1. tries' \in [Proc -> Nat]
    BY <1>3 DEF Advance
  <2>2. \A q \in Proc : q # p => pc'[q] = pc[q]
    BY <1>3 DEF Advance, Types
  <2>3. \A q \in Proc : pc[q] > 1 => pc'[q] > 1
    BY <1>3 DEF Advance, Types
  <2>4. \A q \in Proc : \A r \in LaunchAfter[q] : r \in Proc
    BY ConstantsAssumption
  <2>5. \A q \in Proc : status'[q] = "off" => pc'[q] = 1
    BY <1>3, <2>2
  <2>6. \A q \in Proc : status'[q] # "off" => \A r \in LaunchAfter[q] : pc'[r] > 1
    BY <1>3, <2>3, <2>4
  <2>. QED
    BY <1>3, <2>1, <2>5, <2>6
<1>4. ASSUME NEW p \in Proc, DialFails(p) \/ Kill(p)
      PROVE  StartedInOrder'
  BY <1>4 DEF DialFails, Kill, Exit, At
<1>5. ASSUME NEW p \in Proc, RedialFails(p)
      PROVE  StartedInOrder'
  <2>1. /\ status[p] = "up" /\ UNCHANGED pc
        /\ tries' = [tries EXCEPT ![p] = @ + 1]
        /\ Exit(p) \/ UNCHANGED status
    BY <1>5 DEF RedialFails, At
  <2>2. tries' \in [Proc -> Nat]
    BY <2>1
  <2>3. /\ status' \in [Proc -> {"off", "up", "exited", "killed"}]
        /\ \A q \in Proc : status'[q] = "off" <=> status[q] = "off"
    BY <2>1 DEF Exit
  <2>. QED
    BY <2>1, <2>2, <2>3
<1>. QED
  BY <1>1, <1>2, <1>3, <1>4, <1>5 DEF Next, Step, Listen, Accept, Connect, At

\* A process that was killed stays so.
LEMMA KilledForGood ==
  ASSUME StartedInOrder, [Next]_vars, Calm'
  PROVE  Calm
<1>1. \A p \in Proc : status[p] = "killed" => status'[p] = "killed"
  BY DEF StartedInOrder, Next, vars, Launch, Step, Listen, Accept, Connect, DialFails,
         RedialFails, Exit, Kill, At
<1>. QED
  BY <1>1 DEF Calm

\* As long as no dial is refused that should not be, only those exit that may.
LEMMA RefusalStep ==
  ASSUME Types, StartedInOrder, ExitsAreRefusals, DialsAreHeard, [Next]_vars
  PROVE  ExitsAreRefusals'
<1> SUFFICES ASSUME Calm', NEW q \in Proc, status'[q] = "exited"
             PROVE  Refused(q)'
  BY DEF ExitsAreRefusals
<1>0. Calm
  BY KilledForGood
<1>1. ASSUME status[q] = "exited"
      PROVE  Refused(q)'
  <2>1. Refused(q)
    BY <1>0, <1>1 DEF ExitsAreRefusals
  <2>2. pc'[q] = pc[q] /\ tries'[q] = tries[q]
    BY <1>1 DEF Types, StartedInOrder, Next, vars, Launch, Step, Listen, Accept, Connect,
                Advance, DialFails, RedialFails, Exit, Kill, At
  <2>. QED
    BY <2>1, <2>2 DEF Refused
<1>2. ASSUME status[q] # "exited"
      PROVE  Refused(q)'
  <2>1. DialFails(q) \/ (RedialFails(q) /\ tries'[q] = Attempts)
    BY <1>2 DEF StartedInOrder, Next, vars, Launch, Step, Listen, Accept, Connect,
                DialFails, RedialFails, Exit, Kill
  <2>2. CASE DialFails(q)
    <3>1. pc[q] \in DOMAIN Script[q] /\ Script[q][pc[q]].op = "dial"
      BY <2>2, CallFacts DEF DialFails, Op
    <3>2. q \in Racing
      BY <1>0, <2>2 DEF DialFails, DialsAreHeard
    <3>. QED
      BY <2>2, <3>1, <3>2 DEF DialFails, Refused
  <2>3. CASE RedialFails(q) /\ tries'[q] = Attempts
    <3>1. pc[q] \in DOMAIN Script[q] /\ Script[q][pc[q]].op = "redial"
      BY <2>3, CallFacts DEF RedialFails, Op
    <3>. QED
      BY <2>3, <3>1 DEF RedialFails, Refused
  <2>. QED
    BY <2>1, <2>2, <2>3
<1>. QED
  BY <1>1, <1>2

\* What the last three lemmas need holds at first.
LEMMA InitOrder == Init => StartedInOrder /\ ExitsAreRefusals
<1> SUFFICES ASSUME Init
             PROVE  StartedInOrder /\ ExitsAreRefusals
  OBVIOUS
<1>1. StartedInOrder
  BY DEF Init, StartedInOrder
<1>2. ExitsAreRefusals
  BY DEF Init, ExitsAreRefusals
<1>. QED
  BY <1>1, <1>2

\* Refusals that may be are those the property allows.
LEMMA RefusalsAreFair == ExitsAreRefusals => OnlyRacersAreRefused
  BY DEF ExitsAreRefusals, Refused, Calm, OnlyRacersAreRefused

-----------------------------------------------------------------------------
(***************************************************************************)
(* Waiting.  Of the calls only accept() can block, until a connection is   *)
(* pending.                                                                *)
(***************************************************************************)
CanCall(p) ==
  \/ \E op \in {"listen", "dial", "redial"} : At(p, op)
  \/ At(p, "accept") /\ pending[PortOf(p)] > 0

(***************************************************************************)
(* When all programs are started and none of them can make its next call,  *)
(* each has come up, or has ended, or waits, directly or through others,   *)
(* for one that has ended (head.cpp:312, shared.h:222).                    *)
(***************************************************************************)
StuckHasCause ==
  (\A p \in Proc : status[p] # "off" /\ ~ CanCall(p))
    => \A p \in Proc : Running(p) \/ BehindLost(p)

\* Each connection is accepted by one call, for which some call dials.
OneAcceptPerPort ==
  \A n \in Port : \A p, q \in Proc : \A i, j \in Nat :
    Accepts(p, i, n) /\ Accepts(q, j, n) => p = q /\ i = j

AcceptsAreDialled ==
  \A n \in Port : \A p \in Proc : \A i \in Nat :
    Accepts(p, i, n) => \E q \in Proc : \E j \in Nat : Opens(q, j, n)

\* The calls can be ranked such that each comes after those before it in its
\* script and, if it accepts a connection, after the one that opens it.
Ranks(rank) ==
  /\ rank \in [Proc -> [Nat -> Nat]]
  /\ \A p \in Proc : \A i, j \in Nat : i <= j => rank[p][i] <= rank[p][j]
  /\ \A n \in Port : \A p, q \in Proc : \A i, j \in Nat :
       Accepts(p, i, n) /\ Opens(q, j, n) => rank[q][j] < rank[p][i]

\* No connection gets lost between the call that opens it and the one that
\* accepts it.
OpenedIsPending ==
  \A n \in Port : Opened(n) => pending[n] = 1 \/ Accepted(n)

\* Each call keeps the connections.
LEMMA PendingStep ==
  ASSUME OneDialPerPort, Inv, OpenedIsPending, [Next]_vars
  PROVE  OpenedIsPending'
<1> USE DEF OpenedIsPending
<1>0. Types /\ AtMostOnePending
  BY DEF Inv
<1>1. ASSUME UNCHANGED <<pc, pending>>
      PROVE  OpenedIsPending'
  BY <1>1 DEF Opened, Accepted, Opens, Accepts
<1>2. ASSUME NEW p \in Proc, Listen(p)
      PROVE  OpenedIsPending'
  <2>1. pc[p] \in DOMAIN Script[p] /\ Script[p][pc[p]].op = "listen"
    BY <1>0, <1>2, CallFacts DEF Listen, Op
  <2>2. \A n : (Opened(n)' <=> Opened(n)) /\ (Accepted(n)' <=> Accepted(n))
    BY <1>0, <1>2, <2>1, AdvanceFacts DEF Listen, Opens, Accepts
  <2>. QED
    BY <1>2, <2>2 DEF Listen
<1>3. ASSUME NEW p \in Proc, Accept(p)
      PROVE  OpenedIsPending'
  <2> DEFINE m == PortOf(p)
  <2>1. /\ pc[p] \in DOMAIN Script[p] /\ Script[p][pc[p]].op = "accept"
        /\ m \in Port
    BY <1>0, <1>3, CallFacts DEF Accept, Op
  <2>2. \A n : /\ Opened(n)' <=> Opened(n)
               /\ Accepted(n)' <=> Accepted(n) \/ n = m
    BY <1>0, <1>3, <2>1, AdvanceFacts DEF Accept, Opens, Accepts, PortOf
  <2>3. \A n \in Port \ {m} : pending'[n] = pending[n]
    BY <1>0, <1>3, <2>1 DEF Accept, Types
  <2>. QED
    BY <2>2, <2>3
<1>4. ASSUME NEW p \in Proc, Connect(p)
      PROVE  OpenedIsPending'
  <2> DEFINE m == PortOf(p)
  <2>1. /\ pc[p] \in DOMAIN Script[p] /\ Script[p][pc[p]].op \in {"dial", "redial"}
        /\ m \in Port
    BY <1>0, <1>4, CallFacts DEF Connect, Op
  <2>2. \A n : /\ Opened(n)' <=> Opened(n) \/ n = m
               /\ Accepted(n)' <=> Accepted(n)
    BY <1>0, <1>4, <2>1, AdvanceFacts DEF Connect, Opens, Accepts, PortOf
  <2>3. Opens(p, pc[p], m)
    BY <2>1 DEF Opens, PortOf
  <2>4. ~ Opened(m) /\ pending[m] = 0
    <3>1. ~ Opened(m)
      BY <1>0, <2>1, <2>3 DEF Opened, OneDialPerPort, Types
    <3>. QED
      BY <1>0, <2>1, <3>1 DEF AtMostOnePending, Types
  <2>5. pending'[m] = 1 /\ \A n \in Port \ {m} : pending'[n] = pending[n]
    BY <1>0, <1>4, <2>1, <2>4 DEF Connect, Types
  <2>. QED
    BY <2>2, <2>5
<1>5. ASSUME NEW p \in Proc, Launch(p) \/ DialFails(p) \/ RedialFails(p) \/ Kill(p)
      PROVE  UNCHANGED <<pc, pending>>
  BY <1>5 DEF Launch, DialFails, RedialFails, Kill
<1>. QED
  BY <1>1, <1>2, <1>3, <1>4, <1>5 DEF Next, Step, vars

\* A process that is up, not through, and cannot make its next call waits in
\* an accept() for a connection that some process has still to open, with a
\* call of a lower rank than its own.
LEMMA WaitFacts ==
  ASSUME OneAcceptPerPort, AcceptsAreDialled, Inv, OpenedIsPending,
         NEW rank, Ranks(rank),
         NEW p \in Proc, status[p] = "up", ~ Running(p), ~ CanCall(p)
  PROVE  \E q \in Proc : /\ Awaits(p, q)
                         /\ pc[q] <= Len(Script[q])
                         /\ rank[q][pc[q]] < rank[p][pc[p]]
<1> DEFINE n == PortOf(p)
<1>0. Types
  BY DEF Inv
<1>1. Script[p] \in Seq([op : Op, port : Nat])
  BY DEF ConstantsAssumption
<1>2. pc[p] \in DOMAIN Script[p] /\ Script[p][pc[p]].op \in Op
  <2>1. Len(Script[p]) \in Nat /\ DOMAIN Script[p] = 1 .. Len(Script[p])
    BY <1>1
  <2>2. pc[p] \in 1 .. Len(Script[p])
    BY <1>0, <2>1 DEF Types, Running
  <2>3. \A i \in 1 .. Len(Script[p]) : Script[p][i] \in [op : Op, port : Nat]
    BY <1>1, ElementOfSeq
  <2>4. Script[p][pc[p]] \in [op : Op, port : Nat]
    BY <2>2, <2>3
  <2>5. Script[p][pc[p]].op \in Op
    BY <2>4
  <2>. QED
    BY <2>1, <2>2, <2>5
<1>3. At(p, "accept")
  BY <1>2 DEF At, CanCall, Op
<1>4. n \in Port /\ Accepts(p, pc[p], n)
  BY <1>0, <1>2, <1>3, CallFacts DEF Op, At, Accepts, PortOf
<1>5. ~ Accepted(n)
  BY <1>0, <1>4 DEF Accepted, OneAcceptPerPort, Types
<1>6. pending[n] # 1
  BY <1>3 DEF CanCall
<1>7. ~ Opened(n)
  BY <1>4, <1>5, <1>6 DEF OpenedIsPending
<1>8. PICK q \in Proc, j \in Nat : Opens(q, j, n)
  BY <1>0, <1>4 DEF AcceptsAreDialled, Types
<1>9. pc[q] <= j /\ pc[q] \in Nat
  BY <1>0, <1>7, <1>8 DEF Opened, Types
<1>10. Awaits(p, q)
  BY <1>3, <1>8, <1>9 DEF Awaits, Dials, Opens
<1>11. pc[q] <= Len(Script[q])
  <2>1. Script[q] \in Seq([op : Op, port : Nat])
    BY DEF ConstantsAssumption
  <2>2. Len(Script[q]) \in Nat /\ j <= Len(Script[q])
    BY <1>8, <2>1 DEF Opens
  <2>. QED
    BY <1>8, <1>9, <2>2
<1>12. rank[q][pc[q]] <= rank[q][j] /\ rank[q][j] < rank[p][pc[p]]
  BY <1>0, <1>4, <1>8, <1>9 DEF Ranks, Types
<1>13. rank[q][pc[q]] \in Nat /\ rank[q][j] \in Nat /\ rank[p][pc[p]] \in Nat
  BY <1>0, <1>8 DEF Ranks, Types
<1>14. rank[q][pc[q]] < rank[p][pc[p]]
  <2> DEFINE a == rank[q][pc[q]]
             b == rank[q][j]
             c == rank[p][pc[p]]
  <2>1. a \in Nat /\ b \in Nat /\ c \in Nat /\ a <= b /\ b < c
    BY <1>12, <1>13
  <2>. HIDE DEF a, b, c
  <2>2. a < c
    BY <2>1
  <2>. QED
    BY <2>2 DEF a, b, c
<1>. QED
  BY <1>10, <1>11, <1>14

(***************************************************************************)
(* If the calls can be ranked there is no circular wait: with every        *)
(* program started, whoever hangs in set-up does so because of a process   *)
(* that has ended, whatever the timing and whoever was killed.             *)
(***************************************************************************)
THEOREM NoCircularWait ==
  ASSUME OneDialPerPort, OneAcceptPerPort, AcceptsAreDialled, NEW CONSTANT rank, Ranks(rank)
  PROVE  Spec => []StuckHasCause
<1> DEFINE J == Inv /\ OpenedIsPending /\ StartedInOrder
<1>1. Init => J
  <2>1. ASSUME Init PROVE \A n : ~ Opened(n)
    <3>1. \A p \in Proc : Script[p] \in Seq([op : Op, port : Nat])
      BY DEF ConstantsAssumption
    <3>2. \A p \in Proc : 0 \notin DOMAIN Script[p]
      BY <3>1
    <3>. QED
      BY <2>1, <3>2 DEF Init, Opened, Opens
  <2>. QED
    BY <2>1, InitInv, InitOrder DEF OpenedIsPending
<1>2. J /\ [Next]_vars => J'
  <2> SUFFICES ASSUME J, [Next]_vars
               PROVE  J'
    OBVIOUS
  <2>1. Types
    BY DEF Inv
  <2>. QED
    BY <2>1, InvStep, PendingStep, OrderStep
<1>3. J => StuckHasCause
  <2> SUFFICES ASSUME J,
                      \A p \in Proc : status[p] # "off" /\ ~ CanCall(p),
                      NEW S \in SUBSET Proc,
                      \A x \in S, y \in Proc : Awaits(x, y) => y \in S,
                      \A x \in S : ~ Ended(x),
                      NEW p \in S, ~ Running(p)
               PROVE  FALSE
    BY DEF StuckHasCause, BehindLost
  <2> DEFINE W == {x \in S : ~ Running(x)}
             D == {rank[x][pc[x]] : x \in W}
  <2>1. \A x \in S : x \in Proc /\ status[x] = "up"
    BY DEF StartedInOrder, Ended
  <2>2. \A x \in Proc : rank[x][pc[x]] \in Nat
    BY DEF Ranks, Inv, Types
  <2>3. D # {} /\ D \subseteq Nat
    BY <2>1, <2>2
  <2>4. PICK m \in D : \A k \in D : <<k, m>> \notin OpToRel(<, Nat)
    <3>. HIDE DEF D
    <3>. QED
      BY <2>3, NatLessThanWellFounded, WFMin
  <2>5. PICK x \in W : m = rank[x][pc[x]]
    BY <2>4
  <2>6. PICK y \in Proc : /\ Awaits(x, y)
                          /\ pc[y] <= Len(Script[y])
                          /\ rank[y][pc[y]] < rank[x][pc[x]]
    BY <2>1, <2>5, WaitFacts
  <2>7. y \in S
    BY <2>5, <2>6
  <2>8. ~ Running(y)
    <3>1. pc[y] \in Nat /\ Script[y] \in Seq([op : Op, port : Nat])
      BY DEF Inv, Types, ConstantsAssumption
    <3>. QED
      BY <2>6, <3>1 DEF Running
  <2>9. rank[y][pc[y]] \in D
    BY <2>7, <2>8
  <2>10. <<rank[y][pc[y]], m>> \in OpToRel(<, Nat)
    BY <2>1, <2>2, <2>5, <2>6 DEF OpToRel
  <2>. QED
    BY <2>4, <2>9, <2>10
<1>. HIDE DEF J
<1>. QED
  BY <1>1, <1>2, <1>3, PTL DEF Spec
=============================================================================
