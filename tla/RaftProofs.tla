----------------------------- MODULE RaftProofs -----------------------------
(***************************************************************************)
(* Proofs about Raft, for every set of followers, every number of requests *)
(* and every capacity of the links.                                        *)
(***************************************************************************)
EXTENDS Raft, SequenceTheorems, FiniteSetTheorems, WellFoundedInduction, TLAPS

-----------------------------------------------------------------------------
(***************************************************************************)
(* The loops over the log.  Where a loop stops is determined: the first id *)
(* that is not in the set.                                                 *)
(***************************************************************************)
LEMMA FirstOutsideIs ==
  ASSUME NEW S \in SUBSET Int, NEW from \in Int,
         NEW n \in {from} \cup {k + 1 : k \in S},
         n >= from, n \notin S, from .. (n - 1) \subseteq S
  PROVE  FirstOutside(S, from) = n
<1> DEFINE Stop(m) == m >= from /\ m \notin S /\ from .. (m - 1) \subseteq S
           D == {from} \cup {k + 1 : k \in S}
<1>1. D \subseteq Int
  OBVIOUS
<1>2. n \in D /\ Stop(n)
  OBVIOUS
<1>3. ASSUME NEW m \in D, Stop(m) PROVE m = n
  <2>1. m \in Int /\ n \in Int
    BY <1>1
  <2>2. ~ (m < n)
    BY <1>3, <2>1
  <2>3. ~ (n < m)
    BY <1>3, <2>1
  <2>4. QED
    BY <2>1, <2>2, <2>3
<1>4. FirstOutside(S, from) = CHOOSE m \in D : Stop(m)
  BY DEF FirstOutside
<1> HIDE DEF D, Stop
<1>5. QED
  BY <1>2, <1>3, <1>4

\* Nothing is in the way: the loop stops where it starts, or one further.
LEMMA FirstOutsideEmpty ==
  ASSUME NEW from \in Int
  PROVE  FirstOutside({}, from) = from
<1>1. {} \in SUBSET Int /\ from \in {from} \cup {k + 1 : k \in {}}
  OBVIOUS
<1>2. from >= from /\ from \notin {} /\ from .. (from - 1) \subseteq {}
  OBVIOUS
<1>3. QED
  BY <1>1, <1>2, FirstOutsideIs, Zenon

\* A loop over one id passes just that one.
LEMMA FirstOutsideOne ==
  ASSUME NEW from \in Int
  PROVE  FirstOutside({from}, from) = from + 1
<1>1. from + 1 \in {from} \cup {k + 1 : k \in {from}}
  OBVIOUS
<1>2. QED
  BY <1>1, FirstOutsideIs

(***************************************************************************)
(* A receiver of the leader with an empty log takes the acknowledgement of *)
(* the next id: it commits just this one and removes it again.             *)
(***************************************************************************)
LEMMA LeaderTurn ==
  ASSUME NEW lg, DOMAIN lg = {}, NEW idx \in Int, NEW f \in Follower,
         NEW prevNode \in {-1, f}, NEW added, added = AddTo(lg, idx + 1, f)
  PROVE  /\ LastCmtNode(added, idx, prevNode) \in {-1, f}
         /\ LeaderCommit(added, idx, prevNode) = idx + 1
         /\ CleanupTo(added, idx + 1, idx + 1) = idx + 2
         /\ DOMAIN Remove(added, (idx + 1) .. (idx + 1)) = {}
<1>0. f \in Int /\ f # -1 /\ kNodesSize \in Nat \ {0}
  BY ConstantsAssumption
<1>1. DOMAIN added = {idx + 1} /\ Len(added[idx + 1]) = 1 /\ added[idx + 1][1] = f
  BY <1>0 DEF AddTo, HasKey
<1>2. Full(added) = IF kNodesSize = 1 THEN {idx + 1} ELSE {}
  BY <1>1 DEF Full
<1>3. FirstFrom(added, f) = {idx + 1}
  BY <1>1 DEF FirstFrom
<1>4. FirstFrom(added, -1) = {}
  BY <1>0, <1>1 DEF FirstFrom
<1>5. /\ LastCmtNode(added, idx, prevNode) \in {-1, f}
      /\ kNodesSize # 1 => LastCmtNode(added, idx, prevNode) = f
  <2>1. CASE kNodesSize = 1
    BY <1>1, <1>2, <2>1, FirstOutsideOne DEF LastCmtNode, HasKey
  <2>2. CASE kNodesSize # 1
    <3>1. Full(added) = {}
      BY <1>2, <2>2
    <3>2. FirstOutside({}, idx + 1) = idx + 1
      BY FirstOutsideEmpty
    <3>3. FirstOutside(Full(added), idx + 1) = idx + 1
      BY <3>1, <3>2
    <3>4. LastCmtNode(added, idx, prevNode) = f
      BY <1>1, <3>3 DEF LastCmtNode, HasKey
    <3>5. QED
      BY <3>4
  <2>3. QED
    BY <2>1, <2>2
<1>6. FirstOutside({idx + 1}, idx + 1) = idx + 2
  BY FirstOutsideOne
<1>7. LeaderCommit(added, idx, prevNode) = idx + 1
  <2> DEFINE S == Full(added) \cup FirstFrom(added, LastCmtNode(added, idx, prevNode))
  <2>1. S = {idx + 1}
    BY <1>2, <1>3, <1>4, <1>5
  <2>2. LeaderCommit(added, idx, prevNode) = FirstOutside(S, idx + 1) - 1
    BY Zenon DEF LeaderCommit
  <2> HIDE DEF S
  <2>3. QED
    BY <1>6, <2>1, <2>2
<1>8. CleanupTo(added, idx + 1, idx + 1) = idx + 2
  <2> DEFINE S == Full(added) \cup {k \in DOMAIN added : k <= idx + 1}
  <2>1. S = {idx + 1}
    BY <1>1, <1>2
  <2>2. CleanupTo(added, idx + 1, idx + 1) = FirstOutside(S, idx + 1)
    BY Zenon DEF CleanupTo
  <2> HIDE DEF S
  <2>3. QED
    BY <1>6, <2>1, <2>2
<1>9. DOMAIN Remove(added, (idx + 1) .. (idx + 1)) = {}
  BY <1>1 DEF Remove
<1>10. QED
  BY <1>5, <1>7, <1>8, <1>9

\* A follower with an empty log takes the next request: the same.
LEMMA FollowerTurn ==
  ASSUME NEW lg, DOMAIN lg = {}, NEW idx \in Int, NEW f,
         NEW added, added = AddTo(lg, idx + 1, f)
  PROVE  /\ FollowerCommit(added, idx) = idx + 1
         /\ DOMAIN Remove(added, (idx + 1) .. (idx + 1)) = {}
<1>1. DOMAIN added = {idx + 1}
  BY DEF AddTo
<1>2. FirstOutside({idx + 1}, idx + 1) = (idx + 1) + 1
  BY FirstOutsideOne
<1>3. FollowerCommit(added, idx) = idx + 1
  BY <1>1, <1>2 DEF FollowerCommit
<1>4. QED
  BY <1>1, <1>3 DEF Remove

\* The clean-up of a log that is empty leaves it so.
LEMMA EmptyCleanup ==
  ASSUME NEW lg, DOMAIN lg = {}, NEW from \in Int, NEW idx
  PROVE  CleanupTo(lg, from, idx) = from /\ \A ks : DOMAIN Remove(lg, ks) = {}
<1>1. Full(lg) \cup {k \in DOMAIN lg : k <= idx} = {}
  BY DEF Full
<1>2. QED
  BY <1>1, FirstOutsideEmpty DEF CleanupTo, Remove

-----------------------------------------------------------------------------
(***************************************************************************)
(* The links: what a send or a receive on one link does to all.            *)
(***************************************************************************)
LEMMA Links ==
  ASSUME NEW f \in Follower, NEW g \in Follower
  PROVE  /\ To(f) \in Link /\ From(f) \in Link
         /\ To(f) # From(g) /\ From(f) # To(g)
         /\ To(f) = To(g) => f = g
         /\ From(f) = From(g) => f = g
BY ConstantsAssumption DEF To, From, Link, Leader

\* Writing to one link leaves the others alone.
LEMMA SendOn ==
  ASSUME TypeOK, NEW l \in Link, NEW m \in Int, Send(l, m)
  PROVE  /\ chan' \in [Link -> Seq(Int)]
         /\ chan'[l] = Append(chan[l], m)
         /\ \A k \in Link : k # l => chan'[k] = chan[k]
BY DEF TypeOK, Send

\* Reading from one link leaves the others alone.
LEMMA ReceiveOn ==
  ASSUME TypeOK, NEW l \in Link, Receive(l)
  PROVE  /\ chan' \in [Link -> Seq(Int)]
         /\ chan[l] \in Seq(Int) /\ chan[l] # << >> /\ Arrived(l) \in Int
         /\ chan'[l] = Tail(chan[l])
         /\ \A k \in Link : k # l => chan'[k] = chan[k]
BY DEF TypeOK, Receive, Arrived

\* Writing the next id extends the run a link carries.
LEMMA CarriesAppend ==
  ASSUME NEW q \in Seq(Int), NEW a \in Int, NEW b \in Int, Carries(q, a, b)
  PROVE  Carries(Append(q, b), a, b + 1)
<1> DEFINE r == Append(q, b)
<1>1. /\ Len(q) \in Nat /\ Len(q) = b - a
      /\ \A k \in 1 .. Len(q) : q[k] = a + k - 1
  BY DEF Carries
<1>2. /\ Len(r) = Len(q) + 1
      /\ \A k \in 1 .. Len(q) : r[k] = q[k]
      /\ r[Len(q) + 1] = b
  BY AppendProperties
<1> HIDE DEF r
<1>3. Len(r) = (b + 1) - a
  BY <1>1, <1>2
<1>4. ASSUME NEW k \in 1 .. Len(r) PROVE r[k] = a + k - 1
  BY <1>1, <1>2
<1>5. Carries(r, a, b + 1)
  BY <1>3, <1>4 DEF Carries
<1>6. QED
  BY <1>5 DEF r

\* Reading takes the first id of the run, and leaves the rest of it.
LEMMA CarriesTail ==
  ASSUME NEW q \in Seq(Int), NEW a \in Int, NEW b \in Int, Carries(q, a, b),
         q # << >>
  PROVE  Head(q) = a /\ a < b /\ Carries(Tail(q), a + 1, b)
<1>1. Len(q) \in Nat \ {0}
  BY EmptySeq
<1>2. Head(q) = a /\ a < b
  BY <1>1 DEF Carries
<1>3. /\ Len(Tail(q)) = Len(q) - 1
      /\ \A i \in 1 .. Len(Tail(q)) : Tail(q)[i] = q[i + 1]
  BY HeadTailProperties
<1>4. Carries(Tail(q), a + 1, b)
  BY <1>1, <1>3 DEF Carries
<1>5. QED
  BY <1>2, <1>4

-----------------------------------------------------------------------------
(***************************************************************************)
(* The inductive invariant.  LogsStayEmpty and Pipeline need each other:   *)
(* a receiver commits exactly the id it reads because its log is empty and *)
(* the id is the next one, and this leaves the log empty.                  *)
(***************************************************************************)
Inv == TypeOK /\ LogsStayEmpty /\ Pipeline

\* The invariant holds when the threads start.
LEMMA InitInv == Init => Inv
<1> SUFFICES ASSUME Init PROVE Inv
  OBVIOUS
<1>1. TypeOK
  <2>1. order \in [Follower -> Nat]
    BY FS_CardinalityType, ConstantsAssumption DEF Init
  <2>2. QED
    BY <2>1, ConstantsAssumption DEF Init, TypeOK, Status
<1>2. LogsStayEmpty
  BY DEF Init, LogsStayEmpty, EmptyLog
<1>3. Pipeline
  <2>1. Carries(<< >>, 0, 0)
    BY DEF Carries
  <2> SUFFICES ASSUME NEW f \in Follower
               PROVE  /\ Carries(chan[To(f)], fCmt[f] + 1, Sent(f))
                      /\ Carries(chan[From(f)], cmt[f] + 1, Acked(f))
    BY DEF Pipeline
  <2>2. chan[To(f)] = << >> /\ chan[From(f)] = << >>
    BY Links DEF Init
  <2>3. Sent(f) = 0 /\ Acked(f) = 0 /\ fCmt[f] + 1 = 0 /\ cmt[f] + 1 = 0
    BY DEF Init, Sent, Acked
  <2>4. QED
    BY <2>1, <2>2, <2>3
<1>4. QED
  BY <1>1, <1>2, <1>3 DEF Inv

\* Pipeline for one follower, with the types its proofs use.
LEMMA PipelineOf ==
  ASSUME Inv, NEW f \in Follower
  PROVE  /\ chan[To(f)] \in Seq(Int) /\ chan[From(f)] \in Seq(Int)
         /\ fCmt[f] \in Int /\ cmt[f] \in Int /\ Sent(f) \in Int /\ Acked(f) \in Int
         /\ Carries(chan[To(f)], fCmt[f] + 1, Sent(f))
         /\ Carries(chan[From(f)], cmt[f] + 1, Acked(f))
<1>1. chan[To(f)] \in Seq(Int) /\ chan[From(f)] \in Seq(Int)
  BY Links DEF Inv, TypeOK
<1>2. nextReq \in Int /\ fCmt[f] \in Int /\ cmt[f] \in Int
  BY ConstantsAssumption DEF Inv, TypeOK
<1>3. QED
  BY <1>1, <1>2 DEF Inv, Pipeline, Sent, Acked

\* The sender writes the next request of one follower.
LEMMA SenderSendInv ==
  ASSUME Inv, NEW f \in Follower, SenderSend(f)
  PROVE  Inv' /\ UNCHANGED status
<1> USE DEF senderVars, receiverVars, followerVars
<1>1. nextReq \in Int /\ NbRequests \in Int
  BY ConstantsAssumption DEF Inv, TypeOK
<1>2. /\ chan' \in [Link -> Seq(Int)]
      /\ chan'[To(f)] = Append(chan[To(f)], nextReq)
      /\ \A k \in Link : k # To(f) => chan'[k] = chan[k]
  BY <1>1, Links, SendOn DEF SenderSend, Inv
<1>3. TypeOK'
  <2>1. nextReq' \in 0 .. NbRequests /\ sentTo' \in SUBSET Follower
    BY <1>1 DEF SenderSend, NextTo, Inv, TypeOK
  <2>2. QED
    BY <1>2, <2>1 DEF SenderSend, Inv, TypeOK
<1>4. LogsStayEmpty'
  BY DEF SenderSend, Inv, LogsStayEmpty
<1>5. ASSUME NEW g \in Follower
      PROVE  /\ Carries(chan'[To(g)], fCmt'[g] + 1, Sent(g)')
             /\ Carries(chan'[From(g)], cmt'[g] + 1, Acked(g)')
  <2>1. chan'[From(g)] = chan[From(g)] /\ cmt' = cmt /\ fCmt' = fCmt /\ Acked(g)' = Acked(g)
    BY <1>2, Links DEF SenderSend, Acked
  <2>2. CASE g = f
    <3>1. Sent(f) = nextReq /\ Sent(f)' = nextReq + 1
      BY DEF SenderSend, NextTo, Sent
    <3>2. Carries(chan'[To(f)], fCmt[f] + 1, nextReq + 1)
      BY <1>1, <1>2, <3>1, PipelineOf, CarriesAppend
    <3>3. QED
      BY <2>1, <2>2, <3>1, <3>2, PipelineOf
  <2>3. CASE g # f
    <3>1. chan'[To(g)] = chan[To(g)]
      BY <1>2, <2>3, Links
    <3>2. Sent(g)' = Sent(g)
      BY <2>3 DEF SenderSend, NextTo, Sent
    <3>3. QED
      BY <2>1, <3>1, <3>2, PipelineOf
  <2>4. QED
    BY <2>2, <2>3
<1>6. QED
  BY <1>3, <1>4, <1>5 DEF Inv, Pipeline, SenderSend

\* A receiver takes one acknowledgement, commits it and cleans up.
LEMMA LeaderReceiveInv ==
  ASSUME Inv, NEW f \in Follower, LeaderReceive(f)
  PROVE  /\ Inv' /\ UNCHANGED status
         /\ cmt' = [cmt EXCEPT ![f] = @ + 1]
         /\ cmt[f] + 1 < Acked(f)
<1> USE DEF senderVars, receiverVars, followerVars
<1>1. /\ chan' \in [Link -> Seq(Int)]
      /\ chan[From(f)] # << >>
      /\ chan'[From(f)] = Tail(chan[From(f)])
      /\ \A k \in Link : k # From(f) => chan'[k] = chan[k]
  BY Links, ReceiveOn DEF LeaderReceive, Inv
<1>2. /\ Arrived(From(f)) = cmt[f] + 1 /\ cmt[f] + 1 < Acked(f)
      /\ Carries(chan'[From(f)], (cmt[f] + 1) + 1, Acked(f))
  <2>1. /\ chan[From(f)] \in Seq(Int) /\ cmt[f] + 1 \in Int /\ Acked(f) \in Int
        /\ Carries(chan[From(f)], cmt[f] + 1, Acked(f))
    BY PipelineOf
  <2>2. QED
    BY <1>1, <2>1, CarriesTail DEF Arrived
<1> DEFINE added == AddTo(log[f], cmt[f] + 1, f)
<1>3. /\ lastNode' = [lastNode EXCEPT ![f] = LastCmtNode(added, cmt[f], lastNode[f])]
      /\ cmt' = [cmt EXCEPT ![f] = LeaderCommit(added, cmt[f], lastNode[f])]
      /\ lastCleanup' =
           [lastCleanup EXCEPT ![f] = CleanupTo(added, lastCleanup[f], cmt'[f])]
      /\ log' = [log EXCEPT ![f] =
                   Remove(added, lastCleanup[f] .. (lastCleanup'[f] - 1))]
  BY <1>2 DEF LeaderReceive
<1>4. /\ DOMAIN log[f] = {} /\ cmt[f] \in Int /\ lastNode[f] \in {-1, f}
      /\ lastCleanup[f] = cmt[f] + 1
      /\ cmt \in [Follower -> Int] /\ lastNode \in [Follower -> Int]
      /\ lastCleanup \in [Follower -> Int] /\ f \in Int
  BY ConstantsAssumption DEF Inv, TypeOK, LogsStayEmpty
<1>a. added = AddTo(log[f], cmt[f] + 1, f)
  OBVIOUS
<1> HIDE DEF added
<1>5. /\ LastCmtNode(added, cmt[f], lastNode[f]) \in {-1, f}
      /\ LeaderCommit(added, cmt[f], lastNode[f]) = cmt[f] + 1
      /\ CleanupTo(added, cmt[f] + 1, cmt[f] + 1) = cmt[f] + 2
      /\ DOMAIN Remove(added, (cmt[f] + 1) .. (cmt[f] + 1)) = {}
  <2> DEFINE lg == log[f]
             idx == cmt[f]
             prevNode == lastNode[f]
  <2>1. DOMAIN lg = {} /\ idx \in Int /\ prevNode \in {-1, f}
    BY <1>4
  <2>2. added = AddTo(lg, idx + 1, f)
    BY <1>a
  <2> HIDE DEF lg, idx, prevNode
  <2>3. /\ LastCmtNode(added, idx, prevNode) \in {-1, f}
        /\ LeaderCommit(added, idx, prevNode) = idx + 1
        /\ CleanupTo(added, idx + 1, idx + 1) = idx + 2
        /\ DOMAIN Remove(added, (idx + 1) .. (idx + 1)) = {}
    BY <2>1, <2>2, LeaderTurn
  <2>4. QED
    BY <2>3 DEF lg, idx, prevNode
<1>6. /\ cmt' = [cmt EXCEPT ![f] = cmt[f] + 1]
      /\ lastCleanup' = [lastCleanup EXCEPT ![f] = cmt[f] + 2]
      /\ lastNode' \in [Follower -> Int] /\ lastNode'[f] \in {-1, f}
      /\ \A g \in Follower : g # f => lastNode'[g] = lastNode[g]
  <2>1. cmt'[f] = cmt[f] + 1
    BY <1>3, <1>4, <1>5
  <2>2. CleanupTo(added, lastCleanup[f], cmt'[f]) = cmt[f] + 2
    BY <1>4, <1>5, <2>1
  <2>3. lastNode' \in [Follower -> Int]
    BY <1>3, <1>4, <1>5
  <2>4. lastNode'[f] \in {-1, f} /\ \A g \in Follower : g # f => lastNode'[g] = lastNode[g]
    BY <1>3, <1>4, <1>5
  <2>5. QED
    BY <1>3, <1>4, <1>5, <2>2, <2>3, <2>4
<1>7. /\ \A g \in Follower : g # f => DOMAIN log'[g] = {}
      /\ DOMAIN log'[f] = {}
  <2>1. lastCleanup[f] = cmt[f] + 1 /\ lastCleanup'[f] - 1 = cmt[f] + 1
    BY <1>4, <1>6
  <2>2. log' = [log EXCEPT ![f] = Remove(added, (cmt[f] + 1) .. (cmt[f] + 1))]
    BY <1>3, <2>1, Zenon
  <2>3. \A g \in Follower : DOMAIN log[g] = {}
    BY DEF Inv, LogsStayEmpty
  <2>4. DOMAIN log = Follower
    BY DEF Inv, TypeOK
  <2>5. QED
    BY <1>5, <2>1, <2>2, <2>3, <2>4
<1>8. TypeOK'
  <2>1. DOMAIN log' = Follower
    BY <1>3 DEF Inv, TypeOK
  <2>2. cmt' \in [Follower -> Int] /\ lastCleanup' \in [Follower -> Int]
    BY <1>4, <1>6
  <2>3. QED
    BY <1>1, <1>4, <1>6, <2>1, <2>2 DEF Inv, TypeOK, LeaderReceive
<1>9. LogsStayEmpty'
  BY <1>4, <1>6, <1>7 DEF Inv, LogsStayEmpty, LeaderReceive
<1>10. ASSUME NEW g \in Follower
       PROVE  /\ Carries(chan'[To(g)], fCmt'[g] + 1, Sent(g)')
              /\ Carries(chan'[From(g)], cmt'[g] + 1, Acked(g)')
  <2>1. /\ fCmt' = fCmt /\ Sent(g)' = Sent(g) /\ Acked(g)' = Acked(g)
        /\ chan'[To(g)] = chan[To(g)]
    BY <1>1, Links DEF LeaderReceive, Sent, Acked
  <2>2. Carries(chan'[From(g)], cmt'[g] + 1, Acked(g))
    <3>1. CASE g = f
      BY <1>2, <1>4, <1>6, <3>1
    <3>2. CASE g # f
      BY <1>1, <1>4, <1>6, <3>2, Links, PipelineOf
    <3>3. QED
      BY <3>1, <3>2
  <2>3. QED
    BY <2>1, <2>2, PipelineOf
<1>11. QED
  BY <1>2, <1>6, <1>8, <1>9, <1>10 DEF Inv, Pipeline, LeaderReceive

\* A receiver that has everything cleans up once more.
LEMMA LeaderFinishedInv ==
  ASSUME Inv, NEW f \in Follower, LeaderFinished(f)
  PROVE  Inv' /\ UNCHANGED <<status, cmt, fCmt>>
<1> USE DEF senderVars, receiverVars, followerVars
<1> DEFINE lg == log[f]
           from == lastCleanup[f]
<1>1. DOMAIN lg = {} /\ from \in Int /\ DOMAIN log = Follower
      /\ lastCleanup \in [Follower -> Int]
  BY DEF Inv, TypeOK, LogsStayEmpty
<1> HIDE DEF lg, from
<1>2. CleanupTo(lg, from, cmt[f]) = from /\ \A ks : DOMAIN Remove(lg, ks) = {}
  BY <1>1, EmptyCleanup
<1>3. lastCleanup' = [lastCleanup EXCEPT ![f] = CleanupTo(lg, from, cmt[f])]
  BY DEF LeaderFinished, lg, from
<1>4. lastCleanup' = lastCleanup
  BY <1>1, <1>2, <1>3 DEF from
<1>5. log' = [log EXCEPT ![f] = Remove(lg, lastCleanup[f] .. (lastCleanup'[f] - 1))]
  BY DEF LeaderFinished, lg
<1>6. DOMAIN log' = Follower /\ \A g \in Follower : DOMAIN log'[g] = {}
  BY <1>1, <1>2, <1>5 DEF Inv, LogsStayEmpty
<1>7. TypeOK'
  BY <1>4, <1>6 DEF LeaderFinished, Inv, TypeOK
<1>8. LogsStayEmpty'
  BY <1>4, <1>6 DEF LeaderFinished, Inv, LogsStayEmpty
<1>9. Pipeline'
  BY DEF LeaderFinished, Inv, Pipeline, Sent, Acked, Carries
<1>10. QED
  BY <1>7, <1>8, <1>9 DEF Inv, LeaderFinished

\* A follower records the next request and commits it.
LEMMA FollowerReceiveInv ==
  ASSUME Inv, NEW f \in Follower, FollowerReceive(f)
  PROVE  /\ Inv' /\ UNCHANGED status
         /\ fCmt' = [fCmt EXCEPT ![f] = @ + 1]
         /\ fCmt[f] + 1 < Sent(f)
<1> USE DEF senderVars, receiverVars, followerVars
<1>1. /\ chan' \in [Link -> Seq(Int)]
      /\ chan[To(f)] # << >>
      /\ chan'[To(f)] = Tail(chan[To(f)])
      /\ \A k \in Link : k # To(f) => chan'[k] = chan[k]
  BY Links, ReceiveOn DEF FollowerReceive, Inv
<1>2. /\ Arrived(To(f)) = fCmt[f] + 1 /\ fCmt[f] + 1 < Sent(f)
      /\ Carries(chan'[To(f)], (fCmt[f] + 1) + 1, Sent(f))
  <2>1. /\ chan[To(f)] \in Seq(Int) /\ fCmt[f] + 1 \in Int /\ Sent(f) \in Int
        /\ Carries(chan[To(f)], fCmt[f] + 1, Sent(f))
    BY PipelineOf
  <2>2. QED
    BY <1>1, <2>1, CarriesTail DEF Arrived
<1> DEFINE lg == fLog[f]
           idx == fCmt[f]
           added == AddTo(lg, idx + 1, f)
<1>3. DOMAIN lg = {} /\ idx \in Int /\ DOMAIN fLog = Follower /\ fCmt \in [Follower -> Int]
  BY DEF Inv, TypeOK, LogsStayEmpty
<1>4. /\ fCmt' = [fCmt EXCEPT ![f] = FollowerCommit(added, idx)]
      /\ fLog' = [fLog EXCEPT ![f] = Remove(added, (idx + 1) .. fCmt'[f])]
      /\ fPc' = [fPc EXCEPT ![f] = "ack"] /\ fPc[f] = "recv"
  <2>1. /\ fCmt[f] + 1 > fCmt[f] /\ ~ HasKey(fLog[f], fCmt[f] + 1)
    BY <1>3 DEF HasKey
  <2>2. added = IF Arrived(To(f)) > fCmt[f] /\ ~ HasKey(fLog[f], Arrived(To(f)))
                THEN AddTo(fLog[f], Arrived(To(f)), f) ELSE fLog[f]
    BY <1>2, <2>1
  <2>3. QED
    BY <2>2 DEF FollowerReceive
<1>5. added = AddTo(lg, idx + 1, f)
  OBVIOUS
<1> HIDE DEF lg, idx, added
<1>6. /\ FollowerCommit(added, idx) = idx + 1
      /\ DOMAIN Remove(added, (idx + 1) .. (idx + 1)) = {}
  BY <1>3, <1>5, FollowerTurn
<1>7. fCmt' = [fCmt EXCEPT ![f] = fCmt[f] + 1] /\ fCmt'[f] = idx + 1
  BY <1>3, <1>4, <1>6 DEF idx
<1>8. DOMAIN fLog' = Follower /\ \A g \in Follower : DOMAIN fLog'[g] = {}
  <2>1. fLog' = [fLog EXCEPT ![f] = Remove(added, (idx + 1) .. (idx + 1))]
    BY <1>4, <1>7, Zenon
  <2>2. QED
    BY <1>3, <1>6, <2>1 DEF Inv, LogsStayEmpty
<1>9. TypeOK'
  BY <1>1, <1>3, <1>4, <1>7, <1>8 DEF FollowerReceive, Inv, TypeOK, idx
<1>10. LogsStayEmpty'
  BY <1>8 DEF FollowerReceive, Inv, LogsStayEmpty
<1>11. ASSUME NEW g \in Follower
       PROVE  /\ Carries(chan'[To(g)], fCmt'[g] + 1, Sent(g)')
              /\ Carries(chan'[From(g)], cmt'[g] + 1, Acked(g)')
  <2>1. cmt' = cmt /\ Sent(g)' = Sent(g) /\ chan'[From(g)] = chan[From(g)]
    BY <1>1, Links DEF FollowerReceive, Sent
  <2>2. Acked(g)' = Acked(g)
    BY <1>3, <1>4, <1>7 DEF Inv, TypeOK, Acked
  <2>3. Carries(chan'[To(g)], fCmt'[g] + 1, Sent(g))
    <3>1. CASE g = f
      BY <1>2, <1>3, <1>7, <3>1
    <3>2. CASE g # f
      BY <1>1, <1>3, <1>7, <3>2, Links, PipelineOf
    <3>3. QED
      BY <3>1, <3>2
  <2>4. QED
    BY <2>1, <2>2, <2>3, PipelineOf
<1>12. QED
  BY <1>2, <1>7, <1>9, <1>10, <1>11 DEF Inv, Pipeline, FollowerReceive

\* A follower acknowledges what it has committed.
LEMMA FollowerAckInv ==
  ASSUME Inv, NEW f \in Follower, FollowerAck(f)
  PROVE  Inv' /\ UNCHANGED status
<1> USE DEF senderVars, receiverVars, followerVars
<1>1. fCmt[f] \in Int /\ fPc \in [Follower -> {"recv", "ack", "return"}]
  BY DEF Inv, TypeOK
<1>2. /\ chan' \in [Link -> Seq(Int)]
      /\ chan'[From(f)] = Append(chan[From(f)], fCmt[f])
      /\ \A k \in Link : k # From(f) => chan'[k] = chan[k]
  BY <1>1, Links, SendOn DEF FollowerAck, Inv
<1>3. fPc[f] = "ack" /\ fPc'[f] # "ack" /\ \A g \in Follower : g # f => fPc'[g] = fPc[g]
  BY <1>1 DEF FollowerAck
<1>4. TypeOK'
  BY <1>2 DEF FollowerAck, Inv, TypeOK
<1>5. LogsStayEmpty'
  BY DEF FollowerAck, Inv, LogsStayEmpty
<1>6. ASSUME NEW g \in Follower
      PROVE  /\ Carries(chan'[To(g)], fCmt'[g] + 1, Sent(g)')
             /\ Carries(chan'[From(g)], cmt'[g] + 1, Acked(g)')
  <2>1. /\ chan'[To(g)] = chan[To(g)] /\ cmt' = cmt /\ fCmt' = fCmt
        /\ Sent(g)' = Sent(g)
    BY <1>2, Links DEF FollowerAck, Sent
  <2>2. Carries(chan'[From(g)], cmt[g] + 1, Acked(g)')
    <3>1. CASE g = f
      <4>1. Acked(f) = fCmt[f] /\ Acked(f)' = fCmt[f] + 1
        BY <1>3, <2>1 DEF Acked
      <4>2. Carries(Append(chan[From(f)], fCmt[f]), cmt[f] + 1, fCmt[f] + 1)
        BY <1>1, <4>1, PipelineOf, CarriesAppend
      <4>3. QED
        BY <1>2, <3>1, <4>1, <4>2
    <3>2. CASE g # f
      <4>1. Acked(g)' = Acked(g) /\ chan'[From(g)] = chan[From(g)]
        BY <1>2, <1>3, <2>1, <3>2, Links DEF Acked
      <4>2. QED
        BY <4>1, PipelineOf
    <3>3. QED
      BY <3>1, <3>2
  <2>3. QED
    BY <2>1, <2>2, PipelineOf
<1>7. QED
  BY <1>4, <1>5, <1>6 DEF Inv, Pipeline, FollowerAck

\* Every other step ends a process, or nothing happens.
LEMMA EndInv ==
  ASSUME Inv, NEW p \in Proc, NEW how \in {"done", "dead"}, End(p, how),
         killed' \in SUBSET Proc, UNCHANGED <<chan, senderVars, receiverVars, followerVars>>
  PROVE  Inv'
<1> USE DEF senderVars, receiverVars, followerVars
<1>1. TypeOK'
  BY DEF Inv, TypeOK, End, Status
<1>2. LogsStayEmpty' /\ Pipeline'
  BY DEF Inv, LogsStayEmpty, Pipeline, Sent, Acked, Carries
<1>3. QED
  BY <1>1, <1>2 DEF Inv

\* The steps in which a process ends on its own, and what they do not change.
Ends(p, how) ==
  Up(p) /\ End(p, how) /\ UNCHANGED <<chan, killed, senderVars, receiverVars, followerVars>>

\* The steps, one by one.
LEMMA NextCases ==
  ASSUME [Next]_vars
  PROVE  \/ \E f \in Follower : \/ SenderSend(f)
                                \/ LeaderReceive(f)
                                \/ LeaderFinished(f)
                                \/ FollowerReceive(f)
                                \/ FollowerAck(f)
         \/ \E f \in Follower : SenderFails(f) /\ Ends(Leader, "dead")
         \/ \E f \in Follower : LeaderEof(f) /\ Ends(Leader, "dead")
         \/ LeaderReturns /\ Ends(Leader, "done")
         \/ \E f \in Follower : (FollowerEof(f) \/ FollowerAckFails(f)) /\ Ends(f, "dead")
         \/ \E f \in Follower : FollowerReturns(f) /\ Ends(f, "done")
         \/ \E p \in Proc : Kill(p)
         \/ UNCHANGED vars
BY DEF Next, Sender, Receiver, FollowerNode, Ended, Ends, SenderFails, LeaderEof,
       LeaderReturns, FollowerEof, FollowerAckFails, FollowerReturns, SendFails, ReceiverReading

\* Every step of the leader and of the followers keeps the invariant.
LEMMA NextInv == Inv /\ [Next]_vars => Inv'
<1> SUFFICES ASSUME Inv, [Next]_vars PROVE Inv'
  OBVIOUS
<1>1. ASSUME NEW p \in Proc, NEW how \in {"done", "dead"}, Ends(p, how) PROVE Inv'
  <2>1. killed' \in SUBSET Proc
    BY <1>1 DEF Ends, Inv, TypeOK
  <2>2. QED
    BY <1>1, <2>1, EndInv DEF Ends
<1>2. ASSUME NEW p \in Proc, Kill(p) PROVE Inv'
  <2>1. killed' \in SUBSET Proc
    BY <1>2 DEF Kill, Inv, TypeOK
  <2>2. QED
    BY <1>2, <2>1, EndInv DEF Kill
<1>3. CASE UNCHANGED vars
  BY <1>3 DEF vars, senderVars, receiverVars, followerVars, Inv, TypeOK, LogsStayEmpty,
              Pipeline, Sent, Acked, Carries
<1>4. Leader \in Proc /\ Follower \subseteq Proc
  BY DEF Proc
<1>5. QED
  BY <1>1, <1>2, <1>3, <1>4, NextCases, SenderSendInv, LeaderReceiveInv, LeaderFinishedInv,
     FollowerReceiveInv, FollowerAckInv

(***************************************************************************)
(* The variables keep their types, the links carry what is in flight, in   *)
(* order and without gaps, and the logs are empty between two turns.       *)
(***************************************************************************)
THEOREM InvCorrect == Spec => []Inv
BY InitInv, NextInv, PTL DEF Spec

\* Every variable has its type, whatever the programs do.
THEOREM TypeCorrect == Spec => []TypeOK
BY InvCorrect, PTL DEF Inv

\* Each follower is sent and acknowledges every request once, in order.
THEOREM PipelineCorrect == Spec => []Pipeline
BY InvCorrect, PTL DEF Inv

\* Between two turns of their loops all logs are empty.
THEOREM LogsAlwaysEmpty == Spec => []LogsStayEmpty
BY InvCorrect, PTL DEF Inv

-----------------------------------------------------------------------------
(***************************************************************************)
(* No link holds more than its capacity.                                   *)
(***************************************************************************)
LinksBounded == \A l \in Link : Len(chan[l]) <= Cap

\* A link never holds more messages than the kernel buffers.
LEMMA BoundedCorrect == Spec => []LinksBounded
<1>1. Init => LinksBounded
  BY ConstantsAssumption DEF Init, LinksBounded
<1>2. TypeOK /\ LinksBounded /\ [Next]_vars => LinksBounded'
  <2> SUFFICES ASSUME TypeOK, LinksBounded, [Next]_vars PROVE LinksBounded'
    OBVIOUS
  <2>0. Cap \in Nat /\ nextReq \in Int
    BY ConstantsAssumption DEF TypeOK
  <2>1. ASSUME NEW l \in Link, NEW m \in Int, Send(l, m) PROVE LinksBounded'
    <3>1. chan[l] \in Seq(Int) /\ Len(chan[l]) \in Nat /\ Len(chan[l]) < Cap
      BY <2>1, LenProperties DEF TypeOK, Send
    <3>2. /\ chan'[l] = Append(chan[l], m)
          /\ \A k \in Link : k # l => chan'[k] = chan[k]
      BY <2>1, SendOn
    <3>3. Len(chan'[l]) = Len(chan[l]) + 1
      BY <3>1, <3>2, AppendProperties
    <3>4. QED
      BY <2>0, <3>1, <3>2, <3>3 DEF LinksBounded
  <2>2. ASSUME NEW l \in Link, Receive(l) PROVE LinksBounded'
    <3>1. chan[l] \in Seq(Int) /\ chan[l] # << >> /\ chan'[l] = Tail(chan[l])
      BY <2>2, ReceiveOn
    <3>2. Len(chan'[l]) = Len(chan[l]) - 1
      BY <3>1, HeadTailProperties
    <3>3. \A k \in Link : k # l => chan'[k] = chan[k]
      BY <2>2, ReceiveOn
    <3>4. Len(chan[l]) <= Cap /\ Len(chan[l]) \in Nat
      BY <3>1, LenProperties DEF LinksBounded
    <3>5. QED
      BY <2>0, <3>2, <3>3, <3>4 DEF LinksBounded
  <2>3. CASE UNCHANGED chan
    BY <2>3 DEF LinksBounded
  <2>4. \A f \in Follower : To(f) \in Link /\ From(f) \in Link /\ fCmt[f] \in Int
    BY Links DEF TypeOK
  <2>5. QED
    BY <2>0, <2>1, <2>2, <2>3, <2>4, NextCases
       DEF SenderSend, LeaderReceive, LeaderFinished, FollowerReceive, FollowerAck, Ends,
           Kill, vars
<1>3. QED
  BY <1>1, <1>2, TypeCorrect, PTL DEF Spec

\* The counters of a follower are ordered, and its backlog fits in its link.
LEMMA Counters ==
  ASSUME Inv, NEW f \in Follower
  PROVE  /\ cmt[f] + 1 <= Acked(f) /\ Acked(f) <= fCmt[f] + 1 /\ fCmt[f] + 1 <= Sent(f)
         /\ Sent(f) = fCmt[f] + 1 + Len(chan[To(f)])
         /\ Acked(f) = cmt[f] + 1 + Len(chan[From(f)])
<1>1. Len(chan[To(f)]) \in Nat /\ Len(chan[From(f)]) \in Nat
  BY PipelineOf, LenProperties
<1>2. /\ fCmt[f] \in Int /\ cmt[f] \in Int /\ Sent(f) \in Int /\ Acked(f) \in Int
      /\ Len(chan[To(f)]) = Sent(f) - (fCmt[f] + 1)
      /\ Len(chan[From(f)]) = Acked(f) - (cmt[f] + 1)
  BY PipelineOf DEF Carries
<1>3. Acked(f) <= fCmt[f] + 1
  BY <1>2 DEF Acked
<1>4. \A a, b \in Int, n \in Nat : n = a - b => b <= a /\ a = b + n
  OBVIOUS
<1>5. fCmt[f] + 1 \in Int /\ cmt[f] + 1 \in Int
  BY <1>2
<1>6. fCmt[f] + 1 <= Sent(f) /\ Sent(f) = fCmt[f] + 1 + Len(chan[To(f)])
  BY <1>1, <1>2, <1>4, <1>5, Zenon
<1>7. cmt[f] + 1 <= Acked(f) /\ Acked(f) = cmt[f] + 1 + Len(chan[From(f)])
  BY <1>1, <1>2, <1>4, <1>5, Zenon
<1>8. QED
  BY <1>3, <1>6, <1>7

(***************************************************************************)
(* The one sender thread keeps the followers within a link's capacity of   *)
(* each other.                                                             *)
(***************************************************************************)
THEOREM FollowersStayClose == Spec => []SlowFollowerThrottles
<1>1. Inv /\ LinksBounded => SlowFollowerThrottles
  <2> SUFFICES ASSUME Inv, LinksBounded, NEW f \in Follower, NEW g \in Follower
               PROVE  fCmt[f] - fCmt[g] <= Cap + 1
    BY DEF SlowFollowerThrottles
  <2>1. fCmt[f] + 1 <= Sent(f) /\ Sent(g) = fCmt[g] + 1 + Len(chan[To(g)])
    BY Counters
  <2>2. Len(chan[To(g)]) <= Cap /\ Len(chan[To(g)]) \in Nat
    BY Links, PipelineOf, LenProperties DEF LinksBounded
  <2>3. Sent(f) <= Sent(g) + 1 /\ Sent(f) \in Int /\ Sent(g) \in Int
    BY ConstantsAssumption DEF Inv, TypeOK, Sent
  <2>4. fCmt[f] \in Int /\ fCmt[g] \in Int /\ Cap \in Nat
    BY ConstantsAssumption DEF Inv, TypeOK
  <2>5. QED
    BY <2>1, <2>2, <2>3, <2>4
<1>2. QED
  BY <1>1, InvCorrect, BoundedCorrect, PTL

(***************************************************************************)
(* Each receiver of the leader commits the requests one after the other.   *)
(***************************************************************************)
THEOREM CommitsAreInOrder == Spec => CommitsInOrder
<1>1. Inv /\ [Next]_vars => [\A f \in Follower : cmt'[f] \in {cmt[f], cmt[f] + 1}]_cmt
  <2> SUFFICES ASSUME Inv, [Next]_vars
               PROVE  cmt' = cmt \/ \A f \in Follower : cmt'[f] \in {cmt[f], cmt[f] + 1}
    OBVIOUS
  <2>1. ASSUME NEW f \in Follower, LeaderReceive(f)
        PROVE  \A g \in Follower : cmt'[g] \in {cmt[g], cmt[g] + 1}
    <3>1. cmt' = [cmt EXCEPT ![f] = @ + 1] /\ cmt \in [Follower -> Int]
      BY <2>1, LeaderReceiveInv DEF Inv, TypeOK
    <3>2. QED
      BY <3>1
  <2>2. QED
    BY <2>1, NextCases
       DEF SenderSend, LeaderFinished, FollowerReceive, FollowerAck, Ends, Kill, vars,
           senderVars, receiverVars, followerVars
<1>2. QED
  BY <1>1, InvCorrect, PTL DEF Spec, CommitsInOrder

-----------------------------------------------------------------------------
(***************************************************************************)
(* How far a thread or a process has come tells what it has done.          *)
(***************************************************************************)
Shutdown ==
  /\ nextReq = NbRequests => sentTo = {}
  /\ \A f \in Follower :
       /\ receiver[f] = "finished" => cmt[f] + 1 = NbRequests
       /\ fPc[f] = "recv" => fCmt[f] + 1 # NbRequests
       /\ fPc[f] = "return" => fCmt[f] + 1 = NbRequests
       /\ status[f] = "done" => fPc[f] = "return"
  /\ status[Leader] = "done" =>
       nextReq = NbRequests /\ \A f \in Follower : receiver[f] = "finished"

\* Nobody has ended when the threads start.
LEMMA InitShutdown == Init => Shutdown
BY ConstantsAssumption DEF Init, Shutdown, Proc

\* Every step keeps the order in which the processes end.
LEMMA NextShutdown == Inv /\ Shutdown /\ [Next]_vars => Shutdown'
<1> SUFFICES ASSUME Inv, Shutdown, [Next]_vars PROVE Shutdown'
  OBVIOUS
<1> USE DEF senderVars, receiverVars, followerVars
<1>t. /\ status \in [Proc -> Status] /\ nextReq \in Int /\ NbRequests \in Int
      /\ cmt \in [Follower -> Int] /\ fCmt \in [Follower -> Int]
      /\ receiver \in [Follower -> {"running", "finished"}]
      /\ fPc \in [Follower -> {"recv", "ack", "return"}]
      /\ Leader \in Proc /\ Follower \subseteq Proc /\ Leader \notin Follower
  BY ConstantsAssumption DEF Inv, TypeOK, Proc, Leader
<1>1. ASSUME NEW f \in Follower, SenderSend(f) PROVE Shutdown'
  BY <1>1, <1>t DEF SenderSend, NextTo, Up, Shutdown
<1>2. ASSUME NEW f \in Follower, LeaderReceive(f) PROVE Shutdown'
  <2>1. cmt' = [cmt EXCEPT ![f] = @ + 1] /\ UNCHANGED status
    BY <1>2, LeaderReceiveInv
  <2>2. receiver[f] = "running" /\ UNCHANGED <<nextReq, sentTo, receiver, fCmt, fPc>>
    BY <1>2 DEF LeaderReceive, ReceiverReading
  <2>3. QED
    BY <1>t, <2>1, <2>2 DEF Shutdown
<1>3. ASSUME NEW f \in Follower, LeaderFinished(f) PROVE Shutdown'
  BY <1>3, <1>t DEF LeaderFinished, Shutdown
<1>4. ASSUME NEW f \in Follower, FollowerReceive(f) PROVE Shutdown'
  <2>1. UNCHANGED <<status, nextReq, sentTo, cmt, receiver>>
    BY <1>4 DEF FollowerReceive
  <2>2. /\ Up(f) /\ fPc' = [fPc EXCEPT ![f] = "ack"]
        /\ fCmt' = [fCmt EXCEPT ![f] = @ + 1]
    BY <1>4, FollowerReceiveInv DEF FollowerReceive
  <2>3. QED
    BY <1>t, <2>1, <2>2 DEF Shutdown, Up
<1>5. ASSUME NEW f \in Follower, FollowerAck(f) PROVE Shutdown'
  BY <1>5, <1>t DEF FollowerAck, Shutdown, Up
<1>6. ASSUME NEW p \in Proc, Ends(p, "dead") PROVE Shutdown'
  BY <1>6, <1>t DEF Ends, End, Shutdown
<1>7. CASE LeaderReturns /\ Ends(Leader, "done")
  BY <1>7, <1>t DEF LeaderReturns, Ends, End, Shutdown
<1>8. ASSUME NEW f \in Follower, FollowerReturns(f), Ends(f, "done") PROVE Shutdown'
  BY <1>8, <1>t DEF FollowerReturns, Ends, End, Shutdown
<1>9. ASSUME NEW p \in Proc, Kill(p) PROVE Shutdown'
  BY <1>9, <1>t DEF Kill, End, Shutdown
<1>10. CASE UNCHANGED vars
  BY <1>10 DEF vars, Shutdown
<1>11. QED
  BY <1>t, <1>1, <1>2, <1>3, <1>4, <1>5, <1>6, <1>7, <1>8, <1>9, <1>10, NextCases

\* The processes always end in that order.
LEMMA ShutdownCorrect == Spec => []Shutdown
BY InvCorrect, InitShutdown, NextShutdown, PTL DEF Spec

(***************************************************************************)
(* A leader that returns 0 has every request on every follower.            *)
(***************************************************************************)
THEOREM DoneIsReplicated == Spec => []DoneMeansReplicated
<1>1. Inv /\ Shutdown => DoneMeansReplicated
  <2> SUFFICES ASSUME Inv, Shutdown, status[Leader] = "done", NEW f \in Follower
               PROVE  fCmt[f] + 1 = NbRequests
    BY DEF DoneMeansReplicated
  <2>1. cmt[f] + 1 = NbRequests /\ Sent(f) = NbRequests
    BY DEF Shutdown, Sent
  <2>2. /\ cmt[f] + 1 <= Acked(f) /\ Acked(f) <= fCmt[f] + 1 /\ fCmt[f] + 1 <= Sent(f)
        /\ cmt[f] \in Int /\ fCmt[f] \in Int /\ Acked(f) \in Int
    BY Counters, PipelineOf
  <2>3. QED
    BY <2>1, <2>2
<1>2. QED
  BY <1>1, InvCorrect, ShutdownCorrect, PTL

-----------------------------------------------------------------------------
(***************************************************************************)
(* NoCollateralDeath is inductive relative to Inv and Shutdown: a process  *)
(* whose peer is gone while nobody was killed has nothing left to send to  *)
(* it or to read from it.                                                  *)
(***************************************************************************)
LEMMA NextNoCollateralDeath ==
  Inv /\ Shutdown /\ NoCollateralDeath /\ [Next]_vars => NoCollateralDeath'
<1> SUFFICES ASSUME Inv, Shutdown, NoCollateralDeath, [Next]_vars, killed' = {}
             PROVE  \A p \in Proc : status'[p] # "dead"
  BY DEF NoCollateralDeath
<1> USE DEF senderVars, receiverVars, followerVars
<1>t. /\ status \in [Proc -> Status] /\ NbRequests \in Int /\ nextReq \in Int
      /\ Leader \in Proc /\ Follower \subseteq Proc
  BY ConstantsAssumption DEF Inv, TypeOK, Proc
<1>k. killed = {}
  BY NextCases DEF SenderSend, LeaderReceive, LeaderFinished, FollowerReceive,
                   FollowerAck, Ends, Kill, vars
<1>d. \A p \in Proc : ~ Up(p) => status[p] = "done"
  BY <1>t, <1>k DEF NoCollateralDeath, Status, Up
<1>c. ASSUME NEW f \in Follower
      PROVE  /\ cmt[f] + 1 <= Acked(f) /\ Acked(f) <= fCmt[f] + 1 /\ fCmt[f] + 1 <= Sent(f)
             /\ cmt[f] \in Int /\ fCmt[f] \in Int /\ Acked(f) \in Int /\ Sent(f) \in Int
  BY Counters, PipelineOf
<1>l. ASSUME ~ Up(Leader), NEW f \in Follower
      PROVE  cmt[f] + 1 = NbRequests /\ Sent(f) = NbRequests
  BY <1>d, <1>l, <1>t DEF Shutdown, Sent
<1>f. ASSUME NEW f \in Follower, ~ Up(f)
      PROVE  fPc[f] = "return" /\ fCmt[f] + 1 = NbRequests
  BY <1>d, <1>f, <1>t DEF Shutdown
<1>1. ASSUME NEW f \in Follower PROVE ~ SenderFails(f)
  BY <1>c, <1>f, <1>t DEF SenderFails, SendFails, NextTo, Sent
<1>2. ASSUME NEW f \in Follower, LeaderEof(f) PROVE FALSE
  <2>1. fCmt[f] + 1 = NbRequests /\ Acked(f) = fCmt[f] + 1
    BY <1>2, <1>f DEF LeaderEof, EndOfStream, Acked
  <2>2. chan[From(f)] = << >> /\ cmt[f] + 1 # NbRequests
    BY <1>2 DEF LeaderEof, EndOfStream, ReceiverReading
  <2>3. Acked(f) = cmt[f] + 1 + Len(chan[From(f)]) /\ Len(chan[From(f)]) = 0
    BY <2>2, Counters
  <2>4. QED
    BY <1>c, <2>1, <2>2, <2>3
<1>3. ASSUME NEW f \in Follower, FollowerEof(f) PROVE FALSE
  <2>1. fCmt[f] + 1 # NbRequests
    BY <1>3 DEF FollowerEof, Shutdown
  <2>2. cmt[f] + 1 = NbRequests /\ Sent(f) = NbRequests
    BY <1>3, <1>l DEF FollowerEof, EndOfStream
  <2>3. QED
    BY <1>c, <1>t, <2>1, <2>2
<1>4. ASSUME NEW f \in Follower, FollowerAckFails(f) PROVE FALSE
  <2>1. Acked(f) = fCmt[f]
    BY <1>4 DEF FollowerAckFails, Acked
  <2>2. cmt[f] + 1 = NbRequests /\ Sent(f) = NbRequests
    BY <1>4, <1>l DEF FollowerAckFails, SendFails
  <2>3. QED
    BY <1>c, <1>t, <2>1, <2>2
<1>5. \A p \in Proc : ~ Kill(p)
  BY DEF Kill
<1>6. UNCHANGED status \/ \E p \in Proc : End(p, "done")
  BY <1>t, <1>1, <1>2, <1>3, <1>4, <1>5, NextCases
     DEF SenderSend, LeaderReceive, LeaderFinished, FollowerReceive, FollowerAck, Ends, vars
<1>7. QED
  BY <1>6, <1>t, <1>k DEF End, NoCollateralDeath

(***************************************************************************)
(* As long as nobody is killed from outside no process hits a fatal path.  *)
(***************************************************************************)
THEOREM NobodyDiesAlone == Spec => []NoCollateralDeath
<1>1. Init => NoCollateralDeath
  BY DEF Init, NoCollateralDeath
<1>2. QED
  BY <1>1, InvCorrect, ShutdownCorrect, NextNoCollateralDeath, PTL DEF Spec

-----------------------------------------------------------------------------
(***************************************************************************)
(* Blocking.  A thread can go on when the call it is at returns: a send    *)
(* when the link has room or its reader is gone, a receive when the link   *)
(* holds something or its writer is gone.                                  *)
(***************************************************************************)
SenderCanGo ==
  Up(Leader) /\ \E f \in Follower : NextTo(f) /\ (Len(chan[To(f)]) < Cap \/ ~ Up(f))

ReceiverCanGo(f) ==
  /\ Up(Leader) /\ receiver[f] = "running"
  /\ cmt[f] + 1 = NbRequests \/ chan[From(f)] # << >> \/ ~ Up(f)

LeaderCanReturn ==
  Up(Leader) /\ nextReq = NbRequests /\ \A f \in Follower : receiver[f] = "finished"

FollowerCanGo(f) ==
  /\ Up(f)
  /\ \/ fPc[f] = "recv" /\ (chan[To(f)] # << >> \/ ~ Up(Leader))
     \/ fPc[f] = "ack" /\ (Len(chan[From(f)]) < Cap \/ ~ Up(Leader))
     \/ fPc[f] = "return"

NoDeadlock ==
  \/ AllEnded
  \/ SenderCanGo \/ LeaderCanReturn
  \/ \E f \in Follower : ReceiverCanGo(f) \/ FollowerCanGo(f)

\* The iteration over cluster_info starts again when the last follower of a
\* request was written to.
SomeoneIsLeft == sentTo # Follower

\* The sender always has a follower to write to before the request is over.
LEMMA SenderGoesOn == Spec => []SomeoneIsLeft
<1>1. Init => SomeoneIsLeft
  BY ConstantsAssumption DEF Init, SomeoneIsLeft
<1>2. TypeOK /\ SomeoneIsLeft /\ [Next]_vars => SomeoneIsLeft'
  <2> SUFFICES ASSUME TypeOK, SomeoneIsLeft, [Next]_vars PROVE SomeoneIsLeft'
    OBVIOUS
  <2>1. ASSUME NEW f \in Follower, SenderSend(f) PROVE SomeoneIsLeft'
    BY <2>1, ConstantsAssumption DEF SenderSend, SomeoneIsLeft
  <2>2. CASE UNCHANGED sentTo
    BY <2>2 DEF SomeoneIsLeft
  <2>. QED
    BY <2>1, <2>2, NextCases
       DEF LeaderReceive, LeaderFinished, FollowerReceive, FollowerAck, Ends, Kill, vars,
           senderVars
<1>. QED
  BY <1>1, <1>2, TypeCorrect, PTL DEF Spec

\* While there is something left to write, it has a follower to go to.
LEMMA SomeoneIsNext ==
  ASSUME TypeOK, SomeoneIsLeft, nextReq < NbRequests
  PROVE  \E f \in Follower : NextTo(f)
<1> DEFINE D == {order[f] : f \in Follower \ sentTo}
<1>1. D # {} /\ D \subseteq Nat
  <2>1. order \in [Follower -> Nat] /\ sentTo \subseteq Follower /\ sentTo # Follower
    BY DEF TypeOK, SomeoneIsLeft
  <2>2. PICK g \in Follower \ sentTo : order[g] \in Nat
    BY <2>1
  <2>. QED
    BY <2>1, <2>2
<1>2. PICK m \in D : \A k \in D : <<k, m>> \notin OpToRel(<, Nat)
  <2>. HIDE DEF D
  <2>. QED
    BY <1>1, NatLessThanWellFounded, WFMin
<1>3. PICK f \in Follower \ sentTo : m = order[f]
  BY <1>2
<1>4. ASSUME NEW g \in Follower \ sentTo
      PROVE  order[f] <= order[g]
  <2>1. order[g] \in D /\ order[g] \in Nat /\ order[f] \in Nat
    BY DEF TypeOK
  <2>2. ~ order[g] < order[f]
    BY <1>2, <1>3, <2>1 DEF OpToRel
  <2>. QED
    BY <2>1, <2>2
<1>. QED
  BY <1>3, <1>4 DEF NextTo

(***************************************************************************)
(* A full link never stops more than those it must: the follower the       *)
(* sender waits for can read, or waits to be read by its receiver of the   *)
(* leader, which is a thread of its own and reads while the sender is      *)
(* blocked (leader.cpp:58, 268); and the end of a process lets its peers   *)
(* go on.  For any number of followers, links of any capacity and whoever  *)
(* is killed.                                                              *)
(***************************************************************************)
THEOREM RaftNeverDeadlocks == Spec => []NoDeadlock
<1>1. Inv /\ Shutdown /\ SomeoneIsLeft => NoDeadlock
  <2> SUFFICES ASSUME Inv, Shutdown, SomeoneIsLeft PROVE NoDeadlock
    OBVIOUS
  <2>t. /\ NbRequests \in Int /\ Cap \in Nat \ {0}
        /\ nextReq \in Int /\ nextReq <= NbRequests
        /\ receiver \in [Follower -> {"running", "finished"}]
        /\ fPc \in [Follower -> {"recv", "ack", "return"}]
    BY ConstantsAssumption DEF Inv, TypeOK
  <2>c. ASSUME NEW f \in Follower
        PROVE  /\ cmt[f] \in Int /\ fCmt[f] \in Int /\ Sent(f) \in Int /\ Acked(f) \in Int
               /\ cmt[f] + 1 <= Acked(f) /\ Acked(f) <= fCmt[f] + 1 /\ fCmt[f] + 1 <= Sent(f)
               /\ Sent(f) = fCmt[f] + 1 + Len(chan[To(f)])
               /\ Acked(f) = cmt[f] + 1 + Len(chan[From(f)])
               /\ Len(chan[To(f)]) \in Nat /\ (chan[To(f)] = << >> <=> Len(chan[To(f)]) = 0)
               /\ Len(chan[From(f)]) \in Nat
               /\ (chan[From(f)] = << >> <=> Len(chan[From(f)]) = 0)
    BY Counters, PipelineOf, EmptySeq, LenProperties
  <2>1. CASE ~ Up(Leader)
    <3>1. ASSUME NEW f \in Follower, Up(f) PROVE FollowerCanGo(f)
      BY <2>1, <2>t, <3>1 DEF FollowerCanGo
    <3>. QED
      BY <2>1, <3>1 DEF NoDeadlock, AllEnded, Proc
  <2>2. CASE Up(Leader) /\ nextReq < NbRequests
    <3>1. PICK f \in Follower : NextTo(f)
      BY <2>2, SomeoneIsNext DEF Inv
    <3>2. Sent(f) = nextReq
      BY <3>1 DEF NextTo, Sent
    <3>3. CASE Len(chan[To(f)]) < Cap \/ ~ Up(f)
      BY <2>2, <3>1, <3>3 DEF NoDeadlock, SenderCanGo
    <3>4. CASE Up(f) /\ Len(chan[To(f)]) >= Cap
      <4>1. chan[To(f)] # << >> /\ fCmt[f] + 1 < NbRequests
        BY <2>2, <2>c, <2>t, <3>2, <3>4
      <4>2. fPc[f] # "return"
        BY <2>c, <2>t, <4>1 DEF Shutdown
      <4>3. CASE fPc[f] = "recv"
        BY <3>4, <4>1, <4>3 DEF NoDeadlock, FollowerCanGo
      <4>4. CASE fPc[f] = "ack" /\ Len(chan[From(f)]) < Cap
        BY <3>4, <4>4 DEF NoDeadlock, FollowerCanGo
      <4>5. CASE fPc[f] = "ack" /\ ~ Len(chan[From(f)]) < Cap
        <5>1. chan[From(f)] # << >> /\ cmt[f] + 1 < NbRequests
          BY <2>c, <2>t, <4>1, <4>5
        <5>2. receiver[f] = "running"
          BY <2>c, <2>t, <5>1 DEF Shutdown
        <5>. QED
          BY <2>2, <5>1, <5>2 DEF NoDeadlock, ReceiverCanGo
      <4>. QED
        BY <2>t, <4>2, <4>3, <4>4, <4>5
    <3>. QED
      BY <2>c, <2>t, <3>3, <3>4
  <2>3. CASE Up(Leader) /\ nextReq = NbRequests
    <3>1. CASE \A f \in Follower : receiver[f] = "finished"
      BY <2>3, <3>1 DEF NoDeadlock, LeaderCanReturn
    <3>2. ASSUME NEW f \in Follower, receiver[f] # "finished" PROVE NoDeadlock
      <4>1. receiver[f] = "running" /\ Sent(f) = NbRequests
        BY <2>3, <2>t, <3>2 DEF Shutdown, Sent
      <4>2. CASE chan[From(f)] # << >> \/ ~ Up(f)
        BY <2>3, <4>1, <4>2 DEF NoDeadlock, ReceiverCanGo
      <4>3. CASE Up(f) /\ chan[From(f)] = << >>
        <5>1. fPc[f] = "recv" => chan[To(f)] # << >>
          BY <2>c, <2>t, <4>1 DEF Shutdown
        <5>2. Len(chan[From(f)]) < Cap
          BY <2>c, <2>t, <4>3
        <5>. QED
          BY <2>t, <4>3, <5>1, <5>2 DEF NoDeadlock, FollowerCanGo
      <4>. QED
        BY <4>2, <4>3
    <3>. QED
      BY <3>1, <3>2
  <2>. QED
    BY <2>1, <2>2, <2>3, <2>t
<1>. QED
  BY <1>1, InvCorrect, ShutdownCorrect, SenderGoesOn, PTL

-----------------------------------------------------------------------------
(***************************************************************************)
(* Progress.  Per follower: the requests that were written to it, that it  *)
(* has committed and acknowledged, and that its receiver has committed.    *)
(***************************************************************************)
NothingGoesBack ==
  /\ \A f \in Follower :
       /\ Sent(f)' >= Sent(f) /\ fCmt'[f] >= fCmt[f]
       /\ Acked(f)' >= Acked(f) /\ cmt'[f] >= cmt[f]
       /\ receiver[f] = "finished" => receiver'[f] = "finished"
  /\ \A p \in Proc : ~ Up(p) => ~ Up(p)'

SomethingAdvances ==
  \/ \E f \in Follower :
       \/ Sent(f)' > Sent(f) \/ fCmt'[f] > fCmt[f]
       \/ Acked(f)' > Acked(f) \/ cmt'[f] > cmt[f]
       \/ receiver[f] # "finished" /\ receiver'[f] = "finished"
  \/ \E p \in Proc : Up(p) /\ ~ Up(p)'

NothingTooFar ==
  \A f \in Follower : /\ cmt[f] + 1 <= Acked(f) /\ Acked(f) <= fCmt[f] + 1
                      /\ fCmt[f] + 1 <= Sent(f) /\ Sent(f) <= NbRequests

\* Every step takes a request past one of the counters, or ends a thread or
\* a process, and takes nothing back.
LEMMA NextAdvances ==
  Inv /\ SomeoneIsLeft /\ [Next]_vars => [NothingGoesBack /\ SomethingAdvances]_vars
<1> SUFFICES ASSUME Inv, SomeoneIsLeft, [Next]_vars, ~ UNCHANGED vars
             PROVE  NothingGoesBack /\ SomethingAdvances
  OBVIOUS
<1> USE DEF senderVars, receiverVars, followerVars
<1>t. /\ nextReq \in Int /\ cmt \in [Follower -> Int] /\ fCmt \in [Follower -> Int]
      /\ receiver \in [Follower -> {"running", "finished"}]
      /\ fPc \in [Follower -> {"recv", "ack", "return"}]
      /\ status \in [Proc -> Status]
      /\ Leader \in Proc /\ Follower \subseteq Proc
      /\ \A f \in Follower : Sent(f) \in Int /\ Acked(f) \in Int
  BY ConstantsAssumption, PipelineOf DEF Inv, TypeOK, Proc
<1>u. UNCHANGED status => \A p \in Proc : Up(p)' = Up(p)
  BY DEF Up
<1>1. ASSUME NEW f \in Follower, SenderSend(f)
      PROVE  NothingGoesBack /\ SomethingAdvances
  <2>1. UNCHANGED <<status, fCmt, cmt, receiver>> /\ \A g \in Follower : Acked(g)' = Acked(g)
    BY <1>1 DEF SenderSend, Acked
  <2>2. Sent(f)' = Sent(f) + 1 /\ \A g \in Follower : g # f => Sent(g)' = Sent(g)
    BY <1>1 DEF SenderSend, NextTo, Sent
  <2>. QED
    BY <1>t, <1>u, <2>1, <2>2 DEF NothingGoesBack, SomethingAdvances
<1>2. ASSUME NEW f \in Follower, LeaderReceive(f)
      PROVE  NothingGoesBack /\ SomethingAdvances
  <2>1. UNCHANGED <<status, fCmt, receiver>>
        /\ \A g \in Follower : Acked(g)' = Acked(g) /\ Sent(g)' = Sent(g)
    BY <1>2 DEF LeaderReceive, Acked, Sent
  <2>2. cmt' = [cmt EXCEPT ![f] = @ + 1]
    BY <1>2, LeaderReceiveInv
  <2>. QED
    BY <1>t, <1>u, <2>1, <2>2 DEF NothingGoesBack, SomethingAdvances
<1>3. ASSUME NEW f \in Follower, LeaderFinished(f)
      PROVE  NothingGoesBack /\ SomethingAdvances
  <2>1. UNCHANGED <<status, fCmt, cmt>>
        /\ \A g \in Follower : Acked(g)' = Acked(g) /\ Sent(g)' = Sent(g)
    BY <1>3 DEF LeaderFinished, Acked, Sent
  <2>2. receiver[f] = "running" /\ receiver' = [receiver EXCEPT ![f] = "finished"]
    BY <1>3 DEF LeaderFinished
  <2>. QED
    BY <1>t, <1>u, <2>1, <2>2 DEF NothingGoesBack, SomethingAdvances
<1>4. ASSUME NEW f \in Follower, FollowerReceive(f)
      PROVE  NothingGoesBack /\ SomethingAdvances
  <2>1. UNCHANGED <<status, cmt, receiver>> /\ \A g \in Follower : Sent(g)' = Sent(g)
    BY <1>4 DEF FollowerReceive, Sent
  <2>2. fCmt' = [fCmt EXCEPT ![f] = @ + 1]
    BY <1>4, FollowerReceiveInv
  <2>3. \A g \in Follower : Acked(g)' = Acked(g)
    BY <1>4, <1>t, <2>2 DEF FollowerReceive, Acked
  <2>. QED
    BY <1>t, <1>u, <2>1, <2>2, <2>3 DEF NothingGoesBack, SomethingAdvances
<1>5. ASSUME NEW f \in Follower, FollowerAck(f)
      PROVE  NothingGoesBack /\ SomethingAdvances
  <2>1. UNCHANGED <<status, fCmt, cmt, receiver>> /\ \A g \in Follower : Sent(g)' = Sent(g)
    BY <1>5 DEF FollowerAck, Sent
  <2>2. Acked(f)' = Acked(f) + 1 /\ \A g \in Follower : g # f => Acked(g)' = Acked(g)
    BY <1>5, <1>t DEF FollowerAck, Acked
  <2>. QED
    BY <1>t, <1>u, <2>1, <2>2 DEF NothingGoesBack, SomethingAdvances
<1>6. ASSUME NEW p \in Proc, NEW how \in {"done", "dead"}, Up(p), End(p, how),
             UNCHANGED <<chan, senderVars, receiverVars, followerVars>>
      PROVE  NothingGoesBack /\ SomethingAdvances
  <2>1. UNCHANGED <<fCmt, cmt, receiver>>
        /\ \A g \in Follower : Acked(g)' = Acked(g) /\ Sent(g)' = Sent(g)
    BY <1>6 DEF Acked, Sent
  <2>2. ~ Up(p)' /\ \A q \in Proc : ~ Up(q) => ~ Up(q)'
    BY <1>6, <1>t DEF End, Up
  <2>. QED
    BY <1>6, <1>t, <2>1, <2>2 DEF NothingGoesBack, SomethingAdvances
<1>7. ASSUME NEW p \in Proc, NEW how \in {"done", "dead"}, Ends(p, how)
      PROVE  NothingGoesBack /\ SomethingAdvances
  BY <1>6, <1>7 DEF Ends
<1>8. ASSUME NEW p \in Proc, Kill(p) PROVE NothingGoesBack /\ SomethingAdvances
  BY <1>6, <1>8 DEF Kill
<1>. QED
  BY <1>1, <1>2, <1>3, <1>4, <1>5, <1>7, <1>8, <1>t, NextCases

(***************************************************************************)
(* Every step of the leader or of a follower advances something and takes  *)
(* nothing back, and nothing gets past the last request: no message is     *)
(* written or handled twice, whichever thread is ahead, and a run has a    *)
(* bounded number of steps.  With RaftNeverDeadlocks it can only stop with *)
(* all processes ended.                                                    *)
(***************************************************************************)
THEOREM RaftAlwaysAdvances ==
  Spec => []NothingTooFar /\ [][NothingGoesBack /\ SomethingAdvances]_vars
<1>1. Inv /\ Shutdown => NothingTooFar
  <2> SUFFICES ASSUME Inv, Shutdown, NEW f \in Follower PROVE Sent(f) <= NbRequests
    BY Counters DEF NothingTooFar
  <2>. QED
    BY ConstantsAssumption DEF Inv, TypeOK, Shutdown, Sent
<1>. QED
  BY <1>1, NextAdvances, InvCorrect, ShutdownCorrect, SenderGoesOn, PTL DEF Spec

-----------------------------------------------------------------------------
(***************************************************************************)
(* The refinement.  That some receiver is ahead of the others is proved as *)
(* an invariant, which spares an induction over the set of followers.      *)
(***************************************************************************)
Ahead(m) == m \in Follower /\ \A f \in Follower : cmt[f] <= cmt[m]
SomeAhead == \E m \in Follower : Ahead(m)

\* MaxCmt is the greatest commit index, when there is one.
LEMMA MaxCmtIs ==
  ASSUME NEW m, Ahead(m), cmt \in [Follower -> Int]
  PROVE  MaxCmt = cmt[m]
<1>1. \A n \in {cmt[f] : f \in Follower} : (\A f \in Follower : cmt[f] <= n) => n = cmt[m]
  BY DEF Ahead
<1>2. cmt[m] \in {cmt[f] : f \in Follower} /\ \A f \in Follower : cmt[f] <= cmt[m]
  BY DEF Ahead
<1>3. QED
  BY <1>1, <1>2 DEF MaxCmt

\* The receiver of f moves: it takes the lead, or does not pass the leading one.
LEMMA LeadMoves ==
  ASSUME cmt \in [Follower -> Int], NEW f \in Follower, NEW m \in Follower, Ahead(m),
         cmt' = [cmt EXCEPT ![f] = @ + 1]
  PROVE  /\ cmt[f] = cmt[m] => Ahead(f)'
         /\ cmt[f] # cmt[m] => Ahead(m)' /\ cmt'[m] = cmt[m]
<1>1. /\ \A g \in Follower : cmt[g] \in Int /\ cmt[g] <= cmt[m]
      /\ \A g \in Follower : g # f => cmt'[g] = cmt[g]
      /\ cmt'[f] = cmt[f] + 1
  BY DEF Ahead
<1>2. QED
  BY <1>1 DEF Ahead

\* Some receiver always has the greatest commit index.
LEMMA SomeAheadCorrect == Spec => []SomeAhead
<1>1. Init => SomeAhead
  BY ConstantsAssumption DEF Init, SomeAhead, Ahead
<1>2. Inv /\ SomeAhead /\ [Next]_vars => SomeAhead'
  <2> SUFFICES ASSUME Inv, SomeAhead, [Next]_vars PROVE SomeAhead'
    OBVIOUS
  <2>1. ASSUME NEW f \in Follower, LeaderReceive(f) PROVE SomeAhead'
    <3>1. PICK m \in Follower : Ahead(m)
      BY DEF SomeAhead
    <3>2. cmt' = [cmt EXCEPT ![f] = @ + 1] /\ cmt \in [Follower -> Int]
      BY <2>1, LeaderReceiveInv DEF Inv, TypeOK
    <3>3. Ahead(f)' \/ Ahead(m)'
      BY <3>1, <3>2, LeadMoves
    <3>4. QED
      BY <3>3 DEF SomeAhead
  <2>2. CASE UNCHANGED cmt
    BY <2>2 DEF SomeAhead, Ahead
  <2>3. QED
    BY <2>1, <2>2, NextCases
       DEF SenderSend, LeaderFinished, FollowerReceive, FollowerAck, Ends, Kill, vars,
           senderVars, receiverVars, followerVars
<1>3. QED
  BY <1>1, <1>2, InvCorrect, PTL DEF Spec

Submitted == IF sentTo = {} THEN nextReq ELSE nextReq + 1
Applied == [f \in Follower |-> fCmt[f] + 1]

\* No request is submitted, applied or committed at the start.
LEMMA InitImplements == Init => R!Init
<1> SUFFICES ASSUME Init PROVE R!Init
  OBVIOUS
<1>1. PICK m \in Follower : TRUE
  BY ConstantsAssumption
<1>2. Ahead(m) /\ cmt \in [Follower -> Int] /\ cmt[m] = -1
  BY <1>1 DEF Init, Ahead
<1>3. MaxCmt + 1 = 0
  BY <1>2, MaxCmtIs
<1>4. QED
  BY <1>3 DEF Init, R!Init

\* Every step of Raft is a step of Replication or changes none of it.
LEMMA NextImplements == Inv /\ SomeAhead /\ [Next]_vars => [R!Next]_(R!vars)
<1> SUFFICES ASSUME Inv, SomeAhead, [Next]_vars PROVE R!Next \/ UNCHANGED R!vars
  OBVIOUS
<1> USE DEF senderVars, receiverVars, followerVars
<1>t. /\ nextReq \in Int /\ NbRequests \in Int
      /\ cmt \in [Follower -> Int] /\ fCmt \in [Follower -> Int]
  BY ConstantsAssumption DEF Inv, TypeOK
<1>m. UNCHANGED cmt => MaxCmt' = MaxCmt
  BY DEF MaxCmt
<1>1. ASSUME NEW f \in Follower, SenderSend(f) PROVE R!Next \/ UNCHANGED R!vars
  <2>1. UNCHANGED <<cmt, fCmt>> /\ nextReq < NbRequests
    BY <1>1 DEF SenderSend, NextTo
  <2>2. CASE sentTo = {}
    <3>1. Submitted < NbRequests /\ Submitted' = Submitted + 1
      BY <1>1, <2>1, <2>2 DEF SenderSend, Submitted
    <3>2. R!Submit
      BY <1>m, <2>1, <3>1 DEF R!Submit, Submitted
    <3>3. QED
      BY <3>2 DEF R!Next
  <2>3. CASE sentTo # {}
    <3>1. Submitted' = Submitted
      BY <1>1, <2>3 DEF SenderSend, Submitted
    <3>2. QED
      BY <1>m, <2>1, <3>1 DEF R!vars, Submitted
  <2>4. QED
    BY <2>2, <2>3
<1>2. ASSUME NEW f \in Follower, LeaderReceive(f) PROVE R!Next \/ UNCHANGED R!vars
  <2>1. PICK m \in Follower : Ahead(m)
    BY DEF SomeAhead
  <2>2. cmt' = [cmt EXCEPT ![f] = @ + 1] /\ cmt[f] + 1 < Acked(f)
    BY <1>2, LeaderReceiveInv
  <2>3. UNCHANGED <<nextReq, sentTo, fCmt>>
    BY <1>2 DEF LeaderReceive
  <2>4. MaxCmt = cmt[m] /\ cmt' \in [Follower -> Int]
    BY <1>t, <2>1, <2>2, MaxCmtIs
  <2>5. CASE cmt[f] = cmt[m]
    <3>1. MaxCmt' = cmt'[f]
      <4>1. Ahead(f)'
        BY <1>t, <2>1, <2>2, <2>5, LeadMoves
      <4>2. QED
        BY <2>4, <4>1 DEF MaxCmt, Ahead
    <3>2. MaxCmt' + 1 = (MaxCmt + 1) + 1
      BY <1>t, <2>2, <2>4, <2>5, <3>1
    <3>3. MaxCmt + 1 < Applied[f]
      <4>1. Acked(f) <= fCmt[f] + 1 /\ Acked(f) \in Int
        BY Counters, PipelineOf
      <4>2. QED
        BY <1>t, <2>2, <2>4, <2>5, <4>1 DEF Applied
    <3>4. R!Commit
      <4>1. \E Q \in {{g} : g \in Follower} : \A r \in Q : MaxCmt + 1 < Applied[r]
        <5>1. {f} \in {{g} : g \in Follower} /\ \A r \in {f} : MaxCmt + 1 < Applied[r]
          BY <3>3
        <5>2. QED
          BY <5>1
      <4>2. QED
        BY <2>3, <3>2, <4>1 DEF R!Commit, Applied
    <3>5. QED
      BY <3>4 DEF R!Next
  <2>6. CASE cmt[f] # cmt[m]
    <3>1. Ahead(m)' /\ cmt'[m] = cmt[m]
      BY <1>t, <2>1, <2>2, <2>6, LeadMoves
    <3>2. MaxCmt' = MaxCmt
      BY <2>4, <3>1 DEF MaxCmt, Ahead
    <3>3. QED
      BY <2>3, <3>2 DEF R!vars
  <2>7. QED
    BY <2>5, <2>6
<1>3. ASSUME NEW f \in Follower, FollowerReceive(f) PROVE R!Next \/ UNCHANGED R!vars
  <2>1. fCmt' = [fCmt EXCEPT ![f] = @ + 1] /\ fCmt[f] + 1 < Sent(f)
    BY <1>3, FollowerReceiveInv
  <2>2. UNCHANGED <<nextReq, sentTo, cmt>>
    BY <1>3 DEF FollowerReceive
  <2>3. Applied' = [Applied EXCEPT ![f] = @ + 1]
    BY <1>t, <2>1 DEF Applied
  <2>4. Applied[f] < Submitted
    BY <1>t, <2>1 DEF Applied, Submitted, Sent
  <2>5. R!Apply(f)
    BY <1>m, <2>2, <2>3, <2>4 DEF R!Apply, Applied, Submitted
  <2>6. QED
    BY <2>5 DEF R!Next
<1>4. CASE UNCHANGED <<nextReq, sentTo, cmt, fCmt>>
  BY <1>4, <1>m DEF R!vars
<1>5. QED
  BY <1>1, <1>2, <1>3, <1>4, NextCases
     DEF LeaderFinished, FollowerAck, Ends, Kill, vars

(***************************************************************************)
(* The protocol implements the replicated log with any follower as quorum. *)
(***************************************************************************)
THEOREM RaftImplementsReplication == Spec => ImplementsReplication
BY InitImplements, NextImplements, InvCorrect, SomeAheadCorrect, PTL
   DEF Spec, ImplementsReplication, R!Spec
=============================================================================
