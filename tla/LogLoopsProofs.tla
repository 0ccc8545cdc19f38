--------------------------- MODULE LogLoopsProofs ---------------------------
(***************************************************************************)
(* Proofs about the in-memory log and its loops, for every set of nodes,   *)
(* every number of ids and acknowledgements in every order.                *)
(***************************************************************************)
EXTENDS LogLoops, FiniteSets, FiniteSetTheorems, WellFoundedInduction, TLAPS

Id == 0 .. MaxId

\* A log that acknowledgements can build: no entry is empty.
Entry == Seq(Node) \ {<< >>}

IsLog(lg) == \E K \in SUBSET Id : lg \in [K -> Entry]

-----------------------------------------------------------------------------
(***************************************************************************)
(* Two functions on the naturals that go on alike from the same value are  *)
(* the same: induction, for a set instead of a predicate.                  *)
(***************************************************************************)
LEMMA SameFromZero ==
  ASSUME NEW f, NEW g, f[0] = g[0], \A n \in Nat : f[n] = g[n] => f[n + 1] = g[n + 1]
  PROVE  \A n \in Nat : f[n] = g[n]
<1> DEFINE Differ == {n \in Nat : f[n] # g[n]}
<1> SUFFICES ASSUME Differ # {}
             PROVE  FALSE
  OBVIOUS
<1>1. PICK m \in Differ : \A k \in Differ : <<k, m>> \notin OpToRel(<, Nat)
  BY NatLessThanWellFounded, WFMin
<1>2. m \in Nat /\ m # 0 /\ m - 1 \in Nat
  OBVIOUS
<1>3. <<m - 1, m>> \in OpToRel(<, Nat)
  BY <1>2 DEF OpToRel
<1>4. f[m - 1] = g[m - 1]
  BY <1>1, <1>2, <1>3
<1>5. f[(m - 1) + 1] = g[(m - 1) + 1]
  BY <1>2, <1>4
<1>. QED
  BY <1>2, <1>5

(***************************************************************************)
(* Where a loop stops that goes up from an id as long as its id is in S.   *)
(***************************************************************************)
LEMMA StopsOutside ==
  ASSUME NEW S \in SUBSET Id, NEW from \in Nat
  PROVE  LET stop == FirstOutside(S, from)
         IN  /\ stop \in Nat /\ stop >= from
             /\ stop \notin S
             /\ \A k \in Nat : from <= k /\ k < stop => k \in S
             /\ stop <= from \/ stop <= MaxId + 1
<1> DEFINE Out == {n \in Nat : n >= from /\ n \notin S}
           IsStop(n) == n >= from /\ n \notin S /\ from .. (n - 1) \subseteq S
           Candidates == {from} \cup {k + 1 : k \in S}
<1>1. MaxId \in Nat
  BY LogLoopsAssumption
<1>2. from + MaxId + 1 \in Out
  BY <1>1 DEF Id
<1>3. PICK m \in Out : \A k \in Out : <<k, m>> \notin OpToRel(<, Nat)
  BY <1>2, NatLessThanWellFounded, WFMin
<1>4. \A k \in Nat : from <= k /\ k < m => k \in S
  BY <1>3 DEF OpToRel
<1>5. m = from \/ m - 1 \in S
  BY <1>4
<1>6. m \in Candidates
  <2>1. CASE m = from
    BY <2>1
  <2>2. CASE m - 1 \in S
    <3>1. (m - 1) + 1 = m
      OBVIOUS
    <3>. QED
      BY <2>2, <3>1
  <2>. QED
    BY <1>5, <2>1, <2>2
<1>7. IsStop(m)
  BY <1>4
<1> DEFINE stop == FirstOutside(S, from)
<1>8. stop \in Candidates /\ IsStop(stop)
  BY <1>6, <1>7 DEF FirstOutside
<1>9. stop \in Nat /\ (stop = from \/ stop - 1 \in S)
  BY <1>1, <1>8 DEF Id
<1>. HIDE DEF stop
<1>10. \A k \in Nat : from <= k /\ k < stop => k \in S
  BY <1>8, <1>9
<1>11. stop <= from \/ stop <= MaxId + 1
  BY <1>1, <1>9 DEF Id
<1>. QED
  BY <1>8, <1>9, <1>10, <1>11 DEF stop

-----------------------------------------------------------------------------
(***************************************************************************)
(* The operations of in_mem_log_t.                                         *)
(***************************************************************************)
LEMMA LogFacts ==
  ASSUME NEW lg, IsLog(lg)
  PROVE  /\ DOMAIN lg \subseteq Id
         /\ lg = [k \in DOMAIN lg |-> lg[k]]
         /\ \A k \in DOMAIN lg : lg[k] \in Seq(Node) /\ Len(lg[k]) \in Nat \ {0}
         /\ \A k \in DOMAIN lg : lg[k][1] \in Node
<1>1. PICK K \in SUBSET Id : lg \in [K -> Entry]
  BY DEF IsLog
<1>2. \A e \in Entry : e \in Seq(Node) /\ Len(e) \in Nat \ {0}
  BY DEF Entry
<1>3. \A e \in Entry : e[1] \in Node
  BY <1>2
<1>. QED
  BY <1>1, <1>2, <1>3

\* A log without some of its ids is a log; removing none changes nothing.
LEMMA RemoveFacts ==
  ASSUME NEW lg, IsLog(lg), NEW keys
  PROVE  /\ IsLog(Remove(lg, keys))
         /\ DOMAIN Remove(lg, keys) = DOMAIN lg \ keys
         /\ \A k \in DOMAIN lg \ keys : Remove(lg, keys)[k] = lg[k]
         /\ Remove(lg, {}) = lg
<1>1. PICK K \in SUBSET Id : lg \in [K -> Entry]
  BY DEF IsLog
<1>2. Remove(lg, keys) \in [K \ keys -> Entry]
  BY <1>1 DEF Remove
<1>3. IsLog(Remove(lg, keys))
  BY <1>2 DEF IsLog
<1>4. Remove(lg, {}) = lg
  BY LogFacts DEF Remove
<1>. QED
  BY <1>3, <1>4 DEF Remove

\* Two removals are one.
LEMMA RemoveTwice ==
  ASSUME NEW lg, NEW keys, NEW more
  PROVE  Remove(Remove(lg, keys), more) = Remove(lg, keys \cup more)
<1>1. (DOMAIN lg \ keys) \ more = DOMAIN lg \ (keys \cup more)
  OBVIOUS
<1>. QED
  BY <1>1 DEF Remove

\* An acknowledgement comes last in its entry.
LEMMA AddFacts ==
  ASSUME NEW lg, IsLog(lg), NEW id \in Id, NEW node \in Node
  PROVE  LET added == AddTo(lg, id, node)
         IN  /\ IsLog(added)
             /\ DOMAIN added = DOMAIN lg \cup {id}
             /\ \A k \in DOMAIN lg \ {id} : added[k] = lg[k]
             /\ added[id] = Append(IF HasKey(lg, id) THEN lg[id] ELSE << >>, node)
<1> DEFINE added == AddTo(lg, id, node)
           before == IF HasKey(lg, id) THEN lg[id] ELSE << >>
<1>1. PICK K \in SUBSET Id : lg \in [K -> Entry]
  BY DEF IsLog
<1>2. before \in Seq(Node)
  BY LogFacts DEF HasKey
<1>3. Append(before, node) \in Entry
  BY <1>2 DEF Entry
<1>4. /\ DOMAIN added = DOMAIN lg \cup {id}
      /\ \A k \in DOMAIN lg \ {id} : added[k] = lg[k]
      /\ added[id] = Append(before, node)
      /\ added = [k \in DOMAIN added |-> added[k]]
  BY DEF AddTo
<1>. HIDE DEF added, before
<1>5. added \in [K \cup {id} -> Entry]
  BY <1>1, <1>3, <1>4
<1>6. IsLog(added)
  BY <1>5 DEF IsLog
<1>. QED
  BY <1>4, <1>6 DEF added, before

-----------------------------------------------------------------------------
(***************************************************************************)
(* The loops.  Each is followed turn by turn up to the id its closed form  *)
(* names, which it cannot pass and reaches in as many turns as there are   *)
(* ids.                                                                    *)
(***************************************************************************)
\* What makes the leader's loop go on: last_cmt_node is -1 only as long as no
\* entry but full ones was met.
LEMMA CommitFacts ==
  ASSUME NEW lg, IsLog(lg), NEW cmt0 \in -1 .. MaxId, NEW node \in Node \cup {-1}
  PROVE  LET c == LeaderCommit(lg, cmt0, node)
             n == LastCmtNode(lg, cmt0, node)
             k0 == FirstOutside(Full(lg), cmt0 + 1)
         IN  /\ c \in cmt0 .. MaxId /\ n \in Node \cup {-1}
             /\ k0 \in cmt0 + 1 .. c + 1
             /\ \A k \in Nat : cmt0 + 1 <= k /\ k < k0 => k \in Full(lg)
             /\ k0 \notin Full(lg)
             /\ \A k \in Nat : cmt0 + 1 <= k /\ k < c + 1
                             => k \in Full(lg) \/ k \in FirstFrom(lg, n)
             /\ c + 1 \notin Full(lg) /\ c + 1 \notin FirstFrom(lg, n)
             /\ node # -1 => n = node
             /\ node = -1 /\ HasKey(lg, k0) => n = lg[k0][1]
             /\ node = -1 /\ ~ HasKey(lg, k0) => n = -1
<1> DEFINE n == LastCmtNode(lg, cmt0, node)
           F == Full(lg)
           S == F \cup FirstFrom(lg, n)
           k0 == FirstOutside(F, cmt0 + 1)
           d == FirstOutside(S, cmt0 + 1)
<1>1. cmt0 \in Int /\ cmt0 + 1 \in Nat /\ cmt0 + 1 <= MaxId + 1 /\ MaxId \in Nat
  BY LogLoopsAssumption
<1>2. F \in SUBSET Id /\ S \in SUBSET Id
  BY LogFacts DEF Full, FirstFrom
<1>3. /\ k0 \in Nat /\ k0 >= cmt0 + 1 /\ k0 \notin F
      /\ \A k \in Nat : cmt0 + 1 <= k /\ k < k0 => k \in F
  BY <1>1, <1>2, StopsOutside
<1>4. /\ d \in Nat /\ d >= cmt0 + 1 /\ d \notin S
      /\ \A k \in Nat : cmt0 + 1 <= k /\ k < d => k \in S
      /\ d <= MaxId + 1
  <2>1. d <= cmt0 + 1 \/ d <= MaxId + 1
    BY <1>1, <1>2, StopsOutside
  <2>2. /\ d \in Nat /\ d >= cmt0 + 1 /\ d \notin S
        /\ \A k \in Nat : cmt0 + 1 <= k /\ k < d => k \in S
    BY <1>1, <1>2, StopsOutside
  <2>. HIDE DEF d
  <2>. QED
    BY <1>1, <2>1, <2>2
<1>5. LeaderCommit(lg, cmt0, node) = d - 1
  BY DEF LeaderCommit
<1>6. /\ node # -1 => n = node
      /\ node = -1 /\ HasKey(lg, k0) => n = lg[k0][1]
      /\ node = -1 /\ ~ HasKey(lg, k0) => n = -1
  BY DEF LastCmtNode
<1>7. n \in Node \cup {-1}
  BY <1>6, LogFacts DEF HasKey
<1>. HIDE DEF n, F, k0, d
<1>8. k0 <= d
  BY <1>1, <1>3, <1>4
<1>9. (d - 1) + 1 = d /\ d - 1 \in cmt0 .. MaxId
  BY <1>1, <1>4
<1>. QED
  BY <1>1, <1>3, <1>4, <1>5, <1>6, <1>7, <1>8, <1>9 DEF n, F, k0

\* iterate_log_and_commit of the leader.
LEMMA IterateIsClosed ==
  ASSUME NEW lg, IsLog(lg), NEW cmt0 \in -1 .. MaxId, NEW node \in Node \cup {-1}
  PROVE  Iterate(lg, cmt0 + 1, node) = [cmt |-> LeaderCommit(lg, cmt0, node),
                                        prev |-> LastCmtNode(lg, cmt0, node)]
<1> DEFINE c == LeaderCommit(lg, cmt0, node)
           n == LastCmtNode(lg, cmt0, node)
           k0 == FirstOutside(Full(lg), cmt0 + 1)
           at[t \in Nat] == IF cmt0 + t <= c THEN cmt0 + t ELSE c
           who[t \in Nat] == IF at[t] < k0 THEN node ELSE n
           state == [t \in Nat |-> [cmt |-> at[t], prev |-> who[t]]]
<1>1. cmt0 \in Int /\ cmt0 + 1 \in Nat /\ MaxId \in Nat /\ \A x \in Node : x \in Nat
  BY LogLoopsAssumption
<1>2. /\ c \in cmt0 .. MaxId /\ n \in Node \cup {-1}
      /\ k0 \in cmt0 + 1 .. c + 1
      /\ \A k \in Nat : cmt0 + 1 <= k /\ k < k0 => k \in Full(lg)
      /\ k0 \notin Full(lg)
      /\ \A k \in Nat : cmt0 + 1 <= k /\ k < c + 1
                      => k \in Full(lg) \/ k \in FirstFrom(lg, n)
      /\ c + 1 \notin Full(lg) /\ c + 1 \notin FirstFrom(lg, n)
      /\ node # -1 => n = node
      /\ node = -1 /\ HasKey(lg, k0) => n = lg[k0][1]
      /\ node = -1 /\ ~ HasKey(lg, k0) => n = -1
  BY CommitFacts
<1>3. \A k : k \in Full(lg) <=> HasKey(lg, k) /\ Len(lg[k]) = kNodesSize
  BY DEF Full, HasKey
<1>4. \A k : k \in FirstFrom(lg, n) <=> HasKey(lg, k) /\ lg[k][1] = n
  BY DEF FirstFrom, HasKey
<1>5. \A k : HasKey(lg, k) => lg[k][1] # -1
  BY <1>1, LogFacts DEF HasKey
<1>. HIDE DEF c, n, k0
<1>6. \A t \in Nat : at[t] \in Int /\ at[t] = IF cmt0 + t <= c THEN cmt0 + t ELSE c
  BY <1>1, <1>2
<1>7. \A t \in Nat : who[t] = IF at[t] < k0 THEN node ELSE n
  OBVIOUS
<1>. HIDE DEF at, who
<1>8. state[0] = [cmt |-> cmt0, prev |-> node]
  <2>1. at[0] = cmt0
    BY <1>1, <1>2, <1>6
  <2>2. who[0] = node
    BY <1>1, <1>2, <1>7, <2>1
  <2>. QED
    BY <2>1, <2>2
<1>9. ASSUME NEW t \in Nat
      PROVE  state[t + 1] = CommitTurn(lg, state[t])
  <2> DEFINE m == at[t] + 1
  <2>1. state[t].cmt + 1 = m /\ state[t].prev = who[t]
    OBVIOUS
  <2>2. state[t + 1] = [cmt |-> at[t + 1], prev |-> who[t + 1]]
    OBVIOUS
  <2>3. CASE cmt0 + t < c
    <3>1. at[t] = cmt0 + t /\ at[t + 1] = m /\ m \in Nat /\ cmt0 + 1 <= m /\ m < c + 1
      BY <1>1, <1>2, <1>6, <2>3
    <3>2. m \in Full(lg) \/ m \in FirstFrom(lg, n)
      BY <1>2, <3>1
    <3>3. m < k0 => m \in Full(lg) /\ who[t] = node /\ who[t + 1] = node
      BY <1>1, <1>2, <1>7, <3>1
    <3>4. m = k0 => m \in FirstFrom(lg, n) /\ who[t] = node /\ who[t + 1] = n
      BY <1>1, <1>2, <1>7, <3>1, <3>2
    <3>5. m > k0 => who[t] = n /\ who[t + 1] = n
      BY <1>1, <1>2, <1>7, <3>1
    <3>6. m < k0 \/ m = k0 \/ m > k0
      BY <1>2, <3>1
    <3>. HIDE DEF m
    <3>7. CommitTurn(lg, state[t]) = [cmt |-> m, prev |-> who[t + 1]]
      <4>1. CASE m < k0
        BY <1>3, <2>1, <3>3, <4>1 DEF CommitTurn
      <4>2. CASE m = k0
        BY <1>2, <1>3, <1>4, <2>1, <3>4, <4>2 DEF CommitTurn
      <4>3. CASE m > k0
        BY <1>3, <1>4, <2>1, <3>2, <3>5, <4>3 DEF CommitTurn
      <4>. QED
        BY <3>6, <4>1, <4>2, <4>3
    <3>. QED
      BY <2>2, <3>1, <3>7
  <2>4. CASE cmt0 + t >= c
    <3>1. at[t] = c /\ at[t + 1] = c /\ m = c + 1
      BY <1>1, <1>2, <1>6, <2>4
    <3>2. who[t + 1] = who[t]
      BY <1>7, <3>1
    <3>3. m \notin Full(lg) /\ m \notin FirstFrom(lg, n)
      BY <1>2, <3>1
    <3>4. HasKey(lg, m) => who[t] # -1 /\ who[t] # lg[m][1]
      <4> SUFFICES ASSUME HasKey(lg, m)
                   PROVE  who[t] # -1 /\ who[t] # lg[m][1]
        OBVIOUS
      <4>1. lg[m][1] # n
        BY <1>4, <3>3
      <4>2. CASE m = k0
        <5>1. node # -1 /\ n = node
          BY <1>2, <4>1, <4>2
        <5>2. who[t] \in {node, n}
          BY <1>7
        <5>. QED
          BY <4>1, <5>1, <5>2
      <4>3. CASE m # k0
        <5>1. k0 < c + 1 /\ ~ (at[t] < k0)
          BY <1>2, <3>1, <4>3
        <5>2. who[t] = n
          BY <1>7, <5>1
        <5>3. HasKey(lg, k0)
          BY <1>1, <1>2, <1>3, <1>4, <5>1
        <5>4. n # -1
          BY <1>2, <1>5, <5>3
        <5>. QED
          BY <4>1, <5>2, <5>4
      <4>. QED
        BY <4>2, <4>3
    <3>5. CommitTurn(lg, state[t]) = state[t]
      BY <1>3, <2>1, <3>3, <3>4 DEF CommitTurn
    <3>. QED
      BY <2>2, <3>1, <3>2, <3>5
  <2>5. cmt0 + t < c \/ cmt0 + t >= c
    BY <1>1, <1>2
  <2>. QED
    BY <2>3, <2>4, <2>5
<1>10. state = [t \in Nat |-> IF t = 0 THEN [cmt |-> (cmt0 + 1) - 1, prev |-> node]
                               ELSE CommitTurn(lg, state[t - 1])]
  <2>1. (cmt0 + 1) - 1 = cmt0
    BY <1>1
  <2>2. \A t \in Nat : t # 0 => t - 1 \in Nat /\ (t - 1) + 1 = t
    OBVIOUS
  <2>3. \A t \in Nat : state[t] = IF t = 0 THEN [cmt |-> (cmt0 + 1) - 1, prev |-> node]
                                  ELSE CommitTurn(lg, state[t - 1])
    BY <1>8, <1>9, <2>1, <2>2
  <2>. QED
    BY <2>3
<1> DEFINE after == CHOOSE f : f = [t \in Nat |->
                                       IF t = 0 THEN [cmt |-> (cmt0 + 1) - 1, prev |-> node]
                                       ELSE CommitTurn(lg, f[t - 1])]
<1>11. after = [t \in Nat |-> IF t = 0 THEN [cmt |-> (cmt0 + 1) - 1, prev |-> node]
                              ELSE CommitTurn(lg, after[t - 1])]
  <2> HIDE DEF state
  <2>. QED
    BY <1>10
<1>12. Iterate(lg, cmt0 + 1, node) = after[Turns]
  BY DEF Iterate
<1>. HIDE DEF after, state
<1>13. \A t \in Nat : after[t] = state[t]
  <2>1. after[0] = state[0]
    BY <1>10, <1>11
  <2>2. ASSUME NEW t \in Nat, after[t] = state[t]
        PROVE  after[t + 1] = state[t + 1]
    <3>1. t + 1 \in Nat /\ t + 1 # 0 /\ (t + 1) - 1 = t
      OBVIOUS
    <3>2. after[t + 1] = CommitTurn(lg, after[t])
      BY <1>11, <3>1
    <3>. QED
      BY <1>9, <2>2, <3>2
  <2>. QED
    BY <2>1, <2>2, SameFromZero
<1>14. at[Turns] = c /\ Turns \in Nat
  BY <1>1, <1>2, <1>6 DEF Turns
<1>15. who[Turns] = n
  <2>1. CASE c < k0
    <3>1. k0 = c + 1
      BY <1>2, <2>1
    <3>2. ~ (HasKey(lg, k0) /\ lg[k0][1] = n)
      BY <1>2, <1>4, <3>1
    <3>3. n = node
      BY <1>2, <3>2
    <3>. QED
      BY <1>7, <1>14, <3>3
  <2>2. CASE ~ (c < k0)
    BY <1>7, <1>14, <2>2
  <2>. QED
    BY <2>1, <2>2
<1>16. state[Turns] = [cmt |-> c, prev |-> n]
  BY <1>14, <1>15 DEF state
<1>. QED
  BY <1>12, <1>13, <1>14, <1>16 DEF c, n

\* cleanup_log, and how far it gets.
LEMMA CleanupIsClosed ==
  ASSUME NEW lg, IsLog(lg), NEW start \in Nat, NEW idx \in Int
  PROVE  LET to == CleanupTo(lg, start, idx)
         IN  /\ Cleanup(lg, start, idx) = [log |-> Remove(lg, start .. (to - 1)), last |-> to]
             /\ to \in Nat /\ to >= start
             /\ \A k \in Nat : start <= k /\ k < to => k \in Full(lg) \/ k <= idx
             /\ to \notin Full(lg) /\ ~ (HasKey(lg, to) /\ to <= idx)
<1> DEFINE S == Full(lg) \cup {k \in DOMAIN lg : k <= idx}
           to == CleanupTo(lg, start, idx)
           at[t \in Nat] == IF start + t <= to THEN start + t ELSE to
           state == [t \in Nat |-> [log |-> Remove(lg, start .. (at[t] - 1)), last |-> at[t]]]
<1>1. S \in SUBSET Id /\ MaxId \in Nat
  BY LogFacts, LogLoopsAssumption DEF Full
<1>2. to = FirstOutside(S, start)
  BY DEF CleanupTo
<1>3. /\ to \in Nat /\ to >= start /\ to \notin S
      /\ \A k \in Nat : start <= k /\ k < to => k \in S
      /\ to <= start \/ to <= MaxId + 1
  <2>. HIDE DEF S, to
  <2>. QED
    BY <1>1, <1>2, StopsOutside
<1>4. \A k : k \in S <=> HasKey(lg, k) /\ (Len(lg[k]) = kNodesSize \/ k <= idx)
  BY DEF Full, HasKey
<1>5. \A k \in S : k \in Full(lg) \/ k <= idx
  OBVIOUS
<1>6. to \notin Full(lg) /\ ~ (HasKey(lg, to) /\ to <= idx)
  BY <1>3 DEF HasKey
<1>. HIDE DEF S, to
<1>7. \A t \in Nat : /\ at[t] \in Nat
                      /\ at[t] = IF start + t <= to THEN start + t ELSE to
  BY <1>3
<1>. HIDE DEF at
<1>8. state[0] = [log |-> lg, last |-> start]
  <2>1. at[0] = start
    BY <1>3, <1>7
  <2>2. start .. (start - 1) = {}
    OBVIOUS
  <2>3. Remove(lg, start .. (start - 1)) = lg
    BY <2>2, RemoveFacts
  <2>. QED
    BY <2>1, <2>3
<1>9. ASSUME NEW t \in Nat
      PROVE  state[t + 1] = CleanupTurn(idx, state[t])
  <2> DEFINE m == at[t]
             rest == Remove(lg, start .. (m - 1))
  <2>1. state[t].last = m /\ state[t].log = rest
    OBVIOUS
  <2>2. state[t + 1] = [log |-> Remove(lg, start .. (at[t + 1] - 1)), last |-> at[t + 1]]
    OBVIOUS
  <2>3. m \in Nat /\ m \notin start .. (m - 1)
    BY <1>7
  <2>4. /\ HasKey(rest, m) <=> HasKey(lg, m)
        /\ HasKey(lg, m) => rest[m] = lg[m]
    <3>1. /\ DOMAIN rest = DOMAIN lg \ (start .. (m - 1))
          /\ \A k \in DOMAIN lg \ (start .. (m - 1)) : rest[k] = lg[k]
      BY RemoveFacts
    <3>. HIDE DEF rest, m
    <3>. QED
      BY <2>3, <3>1 DEF HasKey
  <2>5. m \in S <=> HasKey(rest, m) /\ (Len(rest[m]) = kNodesSize \/ m <= idx)
    BY <1>4, <2>4
  <2>6. CASE start + t < to
    <3>1. m = start + t /\ at[t + 1] = m + 1
      BY <1>3, <1>7, <2>6
    <3>2. m \in S
      BY <1>3, <2>6, <3>1
    <3>3. (start .. (m - 1)) \cup {m} = start .. ((m + 1) - 1)
      BY <1>3, <3>1
    <3>4. Remove(rest, {m}) = Remove(lg, start .. ((m + 1) - 1))
      <4> DEFINE gone == start .. (m - 1)
      <4>1. rest = Remove(lg, gone)
        OBVIOUS
      <4>. HIDE DEF gone, rest, m
      <4>2. Remove(rest, {m}) = Remove(lg, gone \cup {m})
        BY <4>1, RemoveTwice
      <4>. QED
        BY <3>3, <4>2 DEF gone
    <3>. HIDE DEF m, rest
    <3>5. CleanupTurn(idx, state[t]) = [log |-> Remove(rest, {m}), last |-> m + 1]
      BY <2>1, <2>5, <3>2 DEF CleanupTurn
    <3>. QED
      BY <2>2, <3>1, <3>4, <3>5
  <2>7. CASE start + t >= to
    <3>1. m = to /\ at[t + 1] = to
      BY <1>3, <1>7, <2>7
    <3>2. m \notin S
      BY <1>3, <3>1
    <3>3. CleanupTurn(idx, state[t]) = state[t]
      <4>. HIDE DEF m, rest, state
      <4>. QED
        BY <2>1, <2>5, <3>2 DEF CleanupTurn
    <3>. QED
      BY <2>2, <3>1, <3>3
  <2>8. start + t < to \/ start + t >= to
    BY <1>3
  <2>. QED
    BY <2>6, <2>7, <2>8
<1>10. state = [t \in Nat |-> IF t = 0 THEN [log |-> lg, last |-> start]
                               ELSE CleanupTurn(idx, state[t - 1])]
  <2>1. \A t \in Nat : t # 0 => t - 1 \in Nat /\ (t - 1) + 1 = t
    OBVIOUS
  <2>2. \A t \in Nat : state[t] = IF t = 0 THEN [log |-> lg, last |-> start]
                                  ELSE CleanupTurn(idx, state[t - 1])
    BY <1>8, <1>9, <2>1
  <2>. QED
    BY <2>2
<1> DEFINE after == CHOOSE f : f = [t \in Nat |-> IF t = 0 THEN [log |-> lg, last |-> start]
                                                ELSE CleanupTurn(idx, f[t - 1])]
<1>11. after = [t \in Nat |-> IF t = 0 THEN [log |-> lg, last |-> start]
                              ELSE CleanupTurn(idx, after[t - 1])]
  <2> HIDE DEF state
  <2>. QED
    BY <1>10
<1>12. Cleanup(lg, start, idx) = after[Turns]
  BY DEF Cleanup
<1>. HIDE DEF after, state
<1>13. \A t \in Nat : after[t] = state[t]
  <2>1. after[0] = state[0]
    BY <1>10, <1>11
  <2>2. ASSUME NEW t \in Nat, after[t] = state[t]
        PROVE  after[t + 1] = state[t + 1]
    <3>1. t + 1 \in Nat /\ t + 1 # 0 /\ (t + 1) - 1 = t
      OBVIOUS
    <3>2. after[t + 1] = CleanupTurn(idx, after[t])
      BY <1>11, <3>1
    <3>. QED
      BY <1>9, <2>2, <3>2
  <2>. QED
    BY <2>1, <2>2, SameFromZero
<1>14. at[Turns] = to /\ Turns \in Nat
  BY <1>1, <1>3, <1>7 DEF Turns
<1>15. Cleanup(lg, start, idx) = [log |-> Remove(lg, start .. (to - 1)), last |-> to]
  BY <1>12, <1>13, <1>14 DEF state
<1>16. \A k \in Nat : start <= k /\ k < to => k \in Full(lg) \/ k <= idx
  BY <1>3, <1>5
<1>. QED
  BY <1>3, <1>6, <1>15, <1>16 DEF to

\* iterate_log_and_commit of a follower.
LEMMA FollowerIsClosed ==
  ASSUME NEW lg, IsLog(lg), NEW cmt0 \in -1 .. MaxId
  PROVE  LET c == FollowerCommit(lg, cmt0)
         IN  FollowerIterate(lg, cmt0 + 1) = [log |-> Remove(lg, (cmt0 + 1) .. c), cmt |-> c]
<1> DEFINE c == FollowerCommit(lg, cmt0)
           at[t \in Nat] == IF cmt0 + t <= c THEN cmt0 + t ELSE c
           gone(i) == (cmt0 + 1) .. i
           state == [t \in Nat |-> [log |-> Remove(lg, gone(at[t])), cmt |-> at[t]]]
<1>1. cmt0 \in Int /\ cmt0 + 1 \in Nat /\ MaxId \in Nat /\ cmt0 + 1 <= MaxId + 1
  BY LogLoopsAssumption
<1>2. DOMAIN lg \in SUBSET Id
  BY LogFacts
<1>3. /\ c \in cmt0 .. MaxId /\ c + 1 \notin DOMAIN lg
      /\ \A k \in Nat : cmt0 + 1 <= k /\ k < c + 1 => k \in DOMAIN lg
  <2> DEFINE d == FirstOutside(DOMAIN lg, cmt0 + 1)
  <2>1. /\ d \in Nat /\ d >= cmt0 + 1 /\ d \notin DOMAIN lg
        /\ \A k \in Nat : cmt0 + 1 <= k /\ k < d => k \in DOMAIN lg
        /\ d <= cmt0 + 1 \/ d <= MaxId + 1
    BY <1>1, <1>2, StopsOutside
  <2>2. c = d - 1
    BY DEF FollowerCommit
  <2>. HIDE DEF c, d
  <2>3. c + 1 = d /\ c \in cmt0 .. MaxId
    BY <1>1, <2>1, <2>2
  <2>. QED
    BY <2>1, <2>3
<1>. HIDE DEF c
<1>4. \A t \in Nat : at[t] \in Int /\ at[t] = IF cmt0 + t <= c THEN cmt0 + t ELSE c
  BY <1>1, <1>3
<1>. HIDE DEF at
<1>5. \A t \in Nat : state[t].cmt = at[t] /\ state[t].log = Remove(lg, gone(at[t]))
  OBVIOUS
<1>6. state[0] = [log |-> lg, cmt |-> cmt0]
  <2>1. at[0] = cmt0
    BY <1>1, <1>3, <1>4
  <2>2. gone(cmt0) = {}
    BY <1>1
  <2>3. Remove(lg, gone(cmt0)) = lg
    BY <2>2, RemoveFacts
  <2>. QED
    BY <2>1, <2>3
<1>7. ASSUME NEW t \in Nat
      PROVE  state[t + 1] = FollowerTurn(state[t])
  <2> DEFINE m == at[t] + 1
             rest == Remove(lg, gone(at[t]))
  <2>1. state[t].cmt + 1 = m /\ state[t].log = rest
    OBVIOUS
  <2>2. state[t + 1] = [log |-> Remove(lg, gone(at[t + 1])), cmt |-> at[t + 1]]
    OBVIOUS
  <2>3. HasKey(rest, m) <=> m \in DOMAIN lg
    <3>1. DOMAIN rest = DOMAIN lg \ gone(at[t])
      BY RemoveFacts
    <3>2. m \notin gone(at[t])
      BY <1>1, <1>4
    <3>. HIDE DEF m, rest, gone
    <3>. QED
      BY <3>1, <3>2 DEF HasKey
  <2>4. CASE cmt0 + t < c
    <3>1. at[t + 1] = m /\ m \in Nat /\ cmt0 + 1 <= m /\ m < c + 1
      BY <1>1, <1>3, <1>4, <2>4
    <3>2. HasKey(rest, m)
      BY <1>3, <2>3, <3>1
    <3>3. gone(at[t]) \cup {m} = gone(m)
      BY <1>1, <1>4, <3>1
    <3>. HIDE DEF m, gone
    <3>4. Remove(rest, {m}) = Remove(lg, gone(m))
      BY <3>3, RemoveTwice
    <3>. HIDE DEF rest, state
    <3>5. FollowerTurn(state[t]) = [log |-> Remove(rest, {m}), cmt |-> m]
      BY <2>1, <3>2 DEF FollowerTurn
    <3>. QED
      BY <2>2, <3>1, <3>4, <3>5
  <2>5. CASE cmt0 + t >= c
    <3>1. at[t] = c /\ at[t + 1] = c /\ m = c + 1
      BY <1>1, <1>3, <1>4, <2>5
    <3>2. ~ HasKey(rest, m)
      BY <1>3, <2>3, <3>1
    <3>3. FollowerTurn(state[t]) = state[t]
      <4>. HIDE DEF m, rest, state
      <4>. QED
        BY <2>1, <3>2 DEF FollowerTurn
    <3>. QED
      BY <2>2, <3>1, <3>3
  <2>6. cmt0 + t < c \/ cmt0 + t >= c
    BY <1>1, <1>3
  <2>. QED
    BY <2>4, <2>5, <2>6
<1>8. state = [t \in Nat |-> IF t = 0 THEN [log |-> lg, cmt |-> (cmt0 + 1) - 1]
                              ELSE FollowerTurn(state[t - 1])]
  <2>1. \A t \in Nat : t # 0 => t - 1 \in Nat /\ (t - 1) + 1 = t
    OBVIOUS
  <2>2. (cmt0 + 1) - 1 = cmt0
    BY <1>1
  <2>3. \A t \in Nat : state[t] = IF t = 0 THEN [log |-> lg, cmt |-> (cmt0 + 1) - 1]
                                  ELSE FollowerTurn(state[t - 1])
    BY <1>6, <1>7, <2>1, <2>2
  <2>. QED
    BY <2>3
<1> DEFINE after == CHOOSE f : f = [t \in Nat |->
                                       IF t = 0 THEN [log |-> lg, cmt |-> (cmt0 + 1) - 1]
                                       ELSE FollowerTurn(f[t - 1])]
<1>9. after = [t \in Nat |-> IF t = 0 THEN [log |-> lg, cmt |-> (cmt0 + 1) - 1]
                             ELSE FollowerTurn(after[t - 1])]
  <2> HIDE DEF state
  <2>. QED
    BY <1>8
<1>10. FollowerIterate(lg, cmt0 + 1) = after[Turns]
  BY DEF FollowerIterate
<1>. HIDE DEF after, state
<1>11. \A t \in Nat : after[t] = state[t]
  <2>1. after[0] = state[0]
    BY <1>8, <1>9
  <2>2. ASSUME NEW t \in Nat, after[t] = state[t]
        PROVE  after[t + 1] = state[t + 1]
    <3>1. t + 1 \in Nat /\ t + 1 # 0 /\ (t + 1) - 1 = t
      OBVIOUS
    <3>2. after[t + 1] = FollowerTurn(after[t])
      BY <1>9, <3>1
    <3>. QED
      BY <1>7, <2>2, <3>2
  <2>. QED
    BY <2>1, <2>2, SameFromZero
<1>12. at[Turns] = c /\ Turns \in Nat
  BY <1>1, <1>3, <1>4 DEF Turns
<1>13. state[Turns] = [log |-> Remove(lg, gone(c)), cmt |-> c]
  BY <1>12 DEF state
<1>. QED
  BY <1>10, <1>11, <1>12, <1>13 DEF c

-----------------------------------------------------------------------------
(***************************************************************************)
(* The state machine.  CommitsAreAcked and NothingLost are inductive only  *)
(* together with what the entries of the log consist of: acknowledgements  *)
(* that were taken, each once.                                             *)
(***************************************************************************)
Types ==
  /\ IsLog(log)
  /\ cmt \in -1 .. MaxId
  /\ prev \in Node \cup {-1}
  /\ lastCleanup \in 0 .. cmt + 1
  /\ acked \subseteq Id \X Node

EntriesAreAcked ==
  \A k \in DOMAIN log : \A i, j \in 1 .. Len(log[k]) :
    /\ <<k, log[k][i]>> \in acked
    /\ log[k][i] = log[k][j] => i = j

\* The loops do what InMemLog says.
LEMMA TypesGiveLoopsAgree == Types => LoopsAgree
<1> SUFFICES ASSUME Types
             PROVE  LoopsAgree
  OBVIOUS
<1> USE DEF Types
<1>1. ASSUME NEW id \in 0 .. MaxId, NEW node \in Node
      PROVE  LET added == AddTo(log, id, node)
                 run == Iterate(added, cmt + 1, prev)
                 swept == Cleanup(added, lastCleanup, run.cmt)
             IN  /\ run = [cmt |-> LeaderCommit(added, cmt, prev),
                           prev |-> LastCmtNode(added, cmt, prev)]
                 /\ swept.last = CleanupTo(added, lastCleanup, run.cmt)
                 /\ swept.log = Remove(added, lastCleanup .. (swept.last - 1))
  <2> DEFINE added == AddTo(log, id, node)
             run == Iterate(added, cmt + 1, prev)
             swept == Cleanup(added, lastCleanup, run.cmt)
  <2>1. IsLog(added)
    BY <1>1, AddFacts DEF Id
  <2>. HIDE DEF added
  <2>2. run = [cmt |-> LeaderCommit(added, cmt, prev), prev |-> LastCmtNode(added, cmt, prev)]
    BY <2>1, IterateIsClosed
  <2>3. run.cmt \in Int
    BY <2>1, <2>2, CommitFacts
  <2>. HIDE DEF run
  <2>4. lastCleanup \in Nat
    BY LogLoopsAssumption
  <2>5. swept = [log |-> Remove(added, lastCleanup .. (CleanupTo(added, lastCleanup, run.cmt) - 1)),
                 last |-> CleanupTo(added, lastCleanup, run.cmt)]
    BY <2>1, <2>3, <2>4, CleanupIsClosed
  <2>. QED
    BY <2>2, <2>5 DEF run, added
<1>2. ASSUME NEW from \in -1 .. MaxId
      PROVE  LET run == FollowerIterate(log, from + 1)
             IN  /\ run.cmt = FollowerCommit(log, from)
                 /\ run.log = Remove(log, (from + 1) .. run.cmt)
  <2> DEFINE run == FollowerIterate(log, from + 1)
             c == FollowerCommit(log, from)
  <2>1. run = [log |-> Remove(log, (from + 1) .. c), cmt |-> c]
    BY FollowerIsClosed
  <2>. HIDE DEF run, c
  <2>2. run.cmt = c /\ run.log = Remove(log, (from + 1) .. c)
    BY <2>1
  <2>. QED
    BY <2>2 DEF run, c
<1>. QED
  BY <1>1, <1>2 DEF LoopsAgree

\* What a turn of receiver() does to commit index, log and clean-up.
LEMMA TurnFacts ==
  ASSUME Types, NEW id \in Id, NEW node \in Node, Receive(id, node)
  PROVE  LET added == AddTo(log, id, node)
         IN  /\ IsLog(added)
             /\ log' = Remove(added, lastCleanup .. (lastCleanup' - 1))
             /\ cmt' \in cmt .. MaxId
             /\ prev' \in Node \cup {-1} /\ (prev # -1 => prev' = prev)
             /\ lastCleanup' \in lastCleanup .. cmt' + 1
             /\ \A k \in Nat : cmt < k /\ k <= cmt'
                             => k \in Full(added) \/ k \in FirstFrom(added, prev')
<1> USE DEF Types
<1> DEFINE added == AddTo(log, id, node)
           run == Iterate(added, cmt + 1, prev)
           swept == Cleanup(added, lastCleanup, run.cmt)
<1>1. IsLog(added)
  BY AddFacts
<1>2. cmt' = run.cmt /\ prev' = run.prev /\ log' = swept.log /\ lastCleanup' = swept.last
  BY DEF Receive
<1>. HIDE DEF added
<1>3. run = [cmt |-> LeaderCommit(added, cmt, prev), prev |-> LastCmtNode(added, cmt, prev)]
  BY <1>1, IterateIsClosed
<1>4. cmt \in Int /\ lastCleanup \in Nat /\ lastCleanup <= cmt + 1 /\ MaxId \in Nat
  BY LogLoopsAssumption
<1> DEFINE c == LeaderCommit(added, cmt, prev)
           n == LastCmtNode(added, cmt, prev)
           to == CleanupTo(added, lastCleanup, c)
<1>5. /\ c \in cmt .. MaxId /\ n \in Node \cup {-1}
      /\ \A k \in Nat : cmt + 1 <= k /\ k < c + 1
                      => k \in Full(added) \/ k \in FirstFrom(added, n)
      /\ c + 1 \notin Full(added)
      /\ prev # -1 => n = prev
  BY <1>1, CommitFacts
<1>6. c \in Int
  BY <1>5
<1>7. /\ Cleanup(added, lastCleanup, c)
           = [log |-> Remove(added, lastCleanup .. (to - 1)), last |-> to]
      /\ to \in Nat /\ to >= lastCleanup
      /\ \A k \in Nat : lastCleanup <= k /\ k < to => k \in Full(added) \/ k <= c
  BY <1>1, <1>4, <1>6, CleanupIsClosed
<1>8. run.cmt = c /\ run.prev = n
  BY <1>3
<1>. HIDE DEF c, n, to, run
<1>9. to <= c + 1
  BY <1>4, <1>5, <1>6, <1>7
<1>10. cmt' = c /\ prev' = n /\ lastCleanup' = to
       /\ log' = Remove(added, lastCleanup .. (to - 1))
  BY <1>2, <1>7, <1>8
<1>11. \A k \in Nat : cmt < k /\ k <= c => cmt + 1 <= k /\ k < c + 1
  BY <1>4, <1>6
<1>12. to \in lastCleanup .. c + 1
  BY <1>4, <1>6, <1>7, <1>9
<1>. QED
  BY <1>1, <1>5, <1>10, <1>11, <1>12 DEF added

\* The types are kept.
LEMMA TypesStep ==
  ASSUME Types, NEW id \in Id, NEW node \in Node, Receive(id, node)
  PROVE  Types'
<1> DEFINE added == AddTo(log, id, node)
           gone == lastCleanup .. (lastCleanup' - 1)
<1>1. IsLog(added) /\ log' = Remove(added, gone)
  BY TurnFacts
<1>. HIDE DEF added, gone
<1>2. IsLog(log')
  BY <1>1, RemoveFacts
<1>3. cmt' \in -1 .. MaxId /\ prev' \in Node \cup {-1} /\ lastCleanup' \in 0 .. cmt' + 1
  <2> DEFINE c == cmt'
             to == lastCleanup'
  <2>1. c \in cmt .. MaxId /\ to \in lastCleanup .. c + 1 /\ prev' \in Node \cup {-1}
    BY TurnFacts
  <2>2. /\ MaxId \in Int /\ cmt \in Int /\ -1 <= cmt
        /\ lastCleanup \in Int /\ 0 <= lastCleanup
    BY LogLoopsAssumption DEF Types
  <2>. HIDE DEF c, to
  <2>3. c \in -1 .. MaxId /\ to \in 0 .. c + 1
    BY <2>1, <2>2
  <2>. QED
    BY <2>1, <2>3 DEF c, to
<1>4. acked' \subseteq Id \X Node
  BY DEF Receive, Types
<1>. QED
  BY <1>2, <1>3, <1>4 DEF Types

\* An entry grows by an acknowledgement that was not taken before, or is
\* removed.
LEMMA EntriesStep ==
  ASSUME Types, EntriesAreAcked, NEW id \in Id, NEW node \in Node, Receive(id, node)
  PROVE  LET added == AddTo(log, id, node)
         IN  \A k \in DOMAIN added : \A i, j \in 1 .. Len(added[k]) :
               /\ <<k, added[k][i]>> \in acked'
               /\ added[k][i] = added[k][j] => i = j
<1> DEFINE added == AddTo(log, id, node)
           before == IF HasKey(log, id) THEN log[id] ELSE << >>
<1>0. IsLog(log)
  BY DEF Types
<1>1. /\ DOMAIN added = DOMAIN log \cup {id}
      /\ \A k \in DOMAIN log \ {id} : added[k] = log[k]
      /\ added[id] = Append(before, node)
  <2>1. DOMAIN added = DOMAIN log \cup {id}
    BY <1>0, AddFacts
  <2>2. \A k \in DOMAIN log \ {id} : added[k] = log[k]
    BY <1>0, AddFacts
  <2>3. added[id] = Append(before, node)
    BY DEF AddTo
  <2>. QED
    BY <2>1, <2>2, <2>3
<1>2. acked' = acked \cup {<<id, node>>} /\ <<id, node>> \notin acked
  BY DEF Receive
<1>3. before \in Seq(Node)
  BY LogFacts DEF Types, HasKey
<1>4. /\ \A i \in 1 .. Len(before) : <<id, before[i]>> \in acked
      /\ \A i, j \in 1 .. Len(before) : before[i] = before[j] => i = j
  <2>1. CASE HasKey(log, id)
    BY <2>1 DEF EntriesAreAcked, HasKey
  <2>2. CASE ~ HasKey(log, id)
    BY <2>2
  <2>. QED
    BY <2>1, <2>2
<1>. HIDE DEF added, before
<1>5. ASSUME NEW i \in 1 .. Len(added[id]), NEW j \in 1 .. Len(added[id])
      PROVE  <<id, added[id][i]>> \in acked' /\ (added[id][i] = added[id][j] => i = j)
  <2>1. Len(before) \in Nat /\ Len(added[id]) = Len(before) + 1
    BY <1>1, <1>3
  <2>2. \A l \in 1 .. Len(before) : added[id][l] = before[l]
    BY <1>1, <1>3
  <2>3. added[id][Len(before) + 1] = node
    BY <1>1, <1>3
  <2>4. \A l \in 1 .. Len(added[id]) : l \in 1 .. Len(before) \/ l = Len(before) + 1
    BY <2>1
  <2>5. \A l \in 1 .. Len(before) : before[l] # node
    BY <1>2, <1>4
  <2>. QED
    BY <1>2, <1>4, <2>2, <2>3, <2>4, <2>5
<1>6. ASSUME NEW k \in DOMAIN log \ {id},
             NEW i \in 1 .. Len(added[k]), NEW j \in 1 .. Len(added[k])
      PROVE  <<k, added[k][i]>> \in acked' /\ (added[k][i] = added[k][j] => i = j)
  BY <1>1, <1>2, <1>6 DEF EntriesAreAcked
<1>. QED
  BY <1>1, <1>5, <1>6 DEF added

\* An acknowledgement is in the log until the clean-up has passed its id, and
\* the clean-up passes only what is committed.
LEMMA NothingLostStep ==
  ASSUME Types, NothingLost, NEW id \in Id, NEW node \in Node, Receive(id, node)
  PROVE  NothingLost'
<1> DEFINE added == AddTo(log, id, node)
           gone == lastCleanup .. (lastCleanup' - 1)
<1>1. IsLog(added) /\ log' = Remove(added, gone)
  BY TurnFacts
<1>2. DOMAIN added = DOMAIN log \cup {id}
  BY AddFacts DEF Types
<1>3. /\ cmt \in Int /\ cmt' \in Int /\ cmt <= cmt'
      /\ \A k \in gone : k <= cmt'
  <2> DEFINE c == cmt'
             to == lastCleanup'
  <2>1. c \in cmt .. MaxId /\ to \in lastCleanup .. c + 1
    BY TurnFacts
  <2>2. MaxId \in Int /\ cmt \in Int /\ lastCleanup \in Int
    BY LogLoopsAssumption DEF Types
  <2>3. gone = lastCleanup .. (to - 1)
    OBVIOUS
  <2>. HIDE DEF c, to, gone
  <2>4. c \in Int /\ cmt <= c /\ \A k \in gone : k <= c
    BY <2>1, <2>2, <2>3
  <2>. QED
    BY <2>2, <2>4 DEF c
<1>. HIDE DEF added, gone
<1>5. DOMAIN log' = DOMAIN added \ gone
  BY <1>1, RemoveFacts
<1>6. ASSUME NEW pair \in acked'
      PROVE  pair[1] <= cmt' \/ pair[1] \in DOMAIN log'
  <2>1. pair \in acked \/ pair = <<id, node>>
    BY DEF Receive
  <2>2. pair[1] \in Id
    BY <2>1 DEF Types
  <2>3. pair[1] <= cmt \/ pair[1] \in DOMAIN added
    BY <1>2, <2>1 DEF NothingLost, HasKey
  <2>4. pair[1] <= cmt => pair[1] <= cmt'
    BY <1>3, <2>2 DEF Id
  <2>. QED
    BY <1>3, <1>5, <2>3, <2>4
<1>. QED
  BY <1>6 DEF NothingLost, HasKey

-----------------------------------------------------------------------------
(***************************************************************************)
(* config.h sets kNodesSize to the number of nodes that acknowledge.  It   *)
(* must not be less: a full entry would then not have every node in it.    *)
(***************************************************************************)
FullMeansAll == IsFiniteSet(Node) /\ Cardinality(Node) <= kNodesSize

\* A full entry without repetitions has every node in it.
LEMMA EveryNodeIsThere ==
  ASSUME FullMeansAll, NEW e \in Seq(Node), Len(e) = kNodesSize,
         \A i, j \in 1 .. Len(e) : e[i] = e[j] => i = j
  PROVE  \A x \in Node : \E i \in 1 .. Len(e) : e[i] = x
<1> SUFFICES ASSUME NEW x \in Node, \A i \in 1 .. Len(e) : e[i] # x
             PROVE  FALSE
  OBVIOUS
<1>1. /\ IsFiniteSet(Node \ {x})
      /\ Cardinality(Node \ {x}) = Cardinality(Node) - 1
  BY FS_RemoveElement DEF FullMeansAll
<1>2. kNodesSize \in Nat /\ Cardinality(Node) \in Nat
  BY LogLoopsAssumption, FS_CardinalityType DEF FullMeansAll
<1>3. IsFiniteSet(1 .. Len(e)) /\ Cardinality(1 .. Len(e)) = kNodesSize
  BY <1>2, FS_Interval, LogLoopsAssumption
<1>4. Cardinality(Node \ {x}) < Cardinality(1 .. Len(e))
  BY <1>1, <1>2, <1>3 DEF FullMeansAll
<1>5. e \in [1 .. Len(e) -> Node \ {x}]
  OBVIOUS
<1>6. \E i, j \in 1 .. Len(e) : i # j /\ e[i] = e[j]
  BY <1>1, <1>3, <1>4, <1>5, FS_PigeonHole
<1>. QED
  BY <1>6

\* What is committed was acknowledged by all, or by the node in last_cmt_node,
\* which does not change once it is a node.
LEMMA CommitsStep ==
  ASSUME FullMeansAll, Types, EntriesAreAcked, CommitsAreAcked,
         NEW id \in Id, NEW node \in Node, Receive(id, node)
  PROVE  CommitsAreAcked'
<1> DEFINE added == AddTo(log, id, node)
           c == cmt'
           n == prev'
           acks == acked'
<1>1. IsLog(added)
  BY TurnFacts
<1>2. /\ c \in cmt .. MaxId
      /\ prev # -1 => n = prev
      /\ \A k \in Nat : cmt < k /\ k <= c => k \in Full(added) \/ k \in FirstFrom(added, n)
  BY TurnFacts
<1>3. \A k \in DOMAIN added : \A i, j \in 1 .. Len(added[k]) :
        /\ <<k, added[k][i]>> \in acks
        /\ added[k][i] = added[k][j] => i = j
  BY EntriesStep
<1>4. acked \subseteq acks
  BY DEF Receive
<1>5. cmt \in Int /\ -1 <= cmt /\ MaxId \in Nat /\ acked \subseteq Id \X Node /\ -1 \notin Node
  BY LogLoopsAssumption DEF Types
<1>. HIDE DEF added, c, n, acks
<1>6. ASSUME NEW k \in 0 .. cmt
      PROVE  <<k, n>> \in acks \/ {k} \X Node \subseteq acks
  <2>1. <<k, prev>> \in acked \/ {k} \X Node \subseteq acked
    BY DEF CommitsAreAcked
  <2>2. <<k, prev>> \in acked => prev \in Node
    BY <1>5
  <2>. QED
    BY <1>2, <1>4, <1>5, <2>1, <2>2
<1>7. ASSUME NEW k \in Full(added)
      PROVE  {k} \X Node \subseteq acks
  <2>1. k \in DOMAIN added /\ added[k] \in Seq(Node) /\ Len(added[k]) = kNodesSize
    BY <1>1, LogFacts DEF Full
  <2>2. \A i, j \in 1 .. Len(added[k]) : added[k][i] = added[k][j] => i = j
    BY <1>3, <2>1
  <2>3. \A x \in Node : \E i \in 1 .. Len(added[k]) : added[k][i] = x
    BY <2>1, <2>2, EveryNodeIsThere
  <2>4. \A x \in Node : <<k, x>> \in acks
    BY <1>3, <2>1, <2>3
  <2>. QED
    BY <2>4
<1>8. ASSUME NEW k \in FirstFrom(added, n)
      PROVE  <<k, n>> \in acks
  <2>1. k \in DOMAIN added /\ added[k][1] = n /\ 1 \in 1 .. Len(added[k])
    BY <1>1, LogFacts DEF FirstFrom
  <2>. QED
    BY <1>3, <2>1
<1>9. ASSUME NEW k \in 0 .. c
      PROVE  <<k, n>> \in acks \/ {k} \X Node \subseteq acks
  <2>1. c \in Int /\ k \in Nat /\ k <= c
    BY <1>2, <1>5
  <2>2. k \in 0 .. cmt \/ cmt < k
    BY <1>5, <2>1
  <2>. QED
    BY <1>2, <1>6, <1>7, <1>8, <2>1, <2>2
<1>. QED
  BY <1>9 DEF CommitsAreAcked, c, n, acks

-----------------------------------------------------------------------------
\* The entries that are left are as they were before the clean-up.
LEMMA EntriesKept ==
  ASSUME Types, EntriesAreAcked, NEW id \in Id, NEW node \in Node, Receive(id, node)
  PROVE  EntriesAreAcked'
<1> DEFINE added == AddTo(log, id, node)
           gone == lastCleanup .. (lastCleanup' - 1)
           left == log'
<1>1. IsLog(added) /\ left = Remove(added, gone)
  BY TurnFacts
<1>2. \A k \in DOMAIN added : \A i, j \in 1 .. Len(added[k]) :
        /\ <<k, added[k][i]>> \in acked'
        /\ added[k][i] = added[k][j] => i = j
  BY EntriesStep
<1>. HIDE DEF added, gone, left
<1>3. DOMAIN left \subseteq DOMAIN added /\ \A k \in DOMAIN left : left[k] = added[k]
  <2>1. DOMAIN left = DOMAIN added \ gone
    BY <1>1, RemoveFacts
  <2>2. \A k \in DOMAIN added \ gone : left[k] = added[k]
    BY <1>1, RemoveFacts
  <2>. QED
    BY <2>1, <2>2
<1>4. \A k \in DOMAIN left : \A i, j \in 1 .. Len(left[k]) :
        /\ <<k, left[k][i]>> \in acked'
        /\ left[k][i] = left[k][j] => i = j
  BY <1>2, <1>3
<1>. QED
  BY <1>4 DEF EntriesAreAcked, left

\* Nothing is committed or acknowledged at first.
LEMMA InitInv == Init => Types /\ EntriesAreAcked /\ NothingLost /\ CommitsAreAcked
<1> SUFFICES ASSUME Init
             PROVE  Types /\ EntriesAreAcked /\ NothingLost /\ CommitsAreAcked
  OBVIOUS
<1>1. log = EmptyLog /\ cmt = -1 /\ prev = -1 /\ lastCleanup = 0 /\ acked = {}
  BY DEF Init
<1>2. EmptyLog \in [{} -> Entry] /\ DOMAIN EmptyLog = {}
  BY DEF EmptyLog
<1>3. IsLog(log)
  BY <1>1, <1>2 DEF IsLog
<1>4. Types
  BY <1>1, <1>3, LogLoopsAssumption DEF Types
<1>5. EntriesAreAcked
  BY <1>1, <1>2 DEF EntriesAreAcked
<1>6. NothingLost
  BY <1>1 DEF NothingLost
<1>7. CommitsAreAcked
  BY <1>1 DEF CommitsAreAcked
<1>. QED
  BY <1>4, <1>5, <1>6, <1>7

\* A step takes an acknowledgement or changes nothing.
LEMMA Steps ==
  ASSUME [Next]_vars
  PROVE  (\E id \in Id, node \in Node : Receive(id, node)) \/ UNCHANGED vars
  BY DEF Next, Id

\* Every step keeps the types.
LEMMA TypesInductive == Types /\ [Next]_vars => Types'
<1>1. ASSUME Types, UNCHANGED vars
      PROVE  Types'
  BY <1>1 DEF Types, vars
<1>. QED
  BY <1>1, Steps, TypesStep

(***************************************************************************)
(* Every variable keeps its type; the commit index is an id or -1, and the *)
(* clean-up is never ahead of the next id to commit (leader.cpp:72).       *)
(***************************************************************************)
THEOREM TypesHold == Spec => []TypeOK
<1>1. Init => Types
  BY InitInv
<1>2. Types /\ [Next]_vars => Types'
  BY TypesInductive
<1>3. Types => TypeOK
  BY LogFacts DEF Types, TypeOK, Id
<1>. QED
  BY <1>1, <1>2, <1>3, PTL DEF Spec

(***************************************************************************)
(* The loops of leader.cpp and follower.cpp do what the closed forms of    *)
(* InMemLog say, which Raft is built from, on every log that can be built  *)
(* out of acknowledgements in any order.                                   *)
(***************************************************************************)
THEOREM LoopsAreClosedForms == Spec => []LoopsAgree
<1>1. Init => Types
  BY InitInv
<1>2. Types /\ [Next]_vars => Types'
  BY TypesInductive
<1>3. Types => LoopsAgree
  BY TypesGiveLoopsAgree
<1>. QED
  BY <1>1, <1>2, <1>3, PTL DEF Spec

(***************************************************************************)
(* The clean-up drops nothing that is not committed, whatever kNodesSize   *)
(* is and in whatever order acknowledgements come (leader.cpp:81).         *)
(***************************************************************************)
THEOREM NothingIsLost == Spec => []NothingLost
<1> DEFINE J == Types /\ NothingLost
<1>1. Init => J
  BY InitInv
<1>2. J /\ [Next]_vars => J'
  <2>1. ASSUME J, UNCHANGED vars
        PROVE  J'
    BY <2>1 DEF Types, NothingLost, vars
  <2>. QED
    BY <2>1, Steps, TypesStep, NothingLostStep
<1>3. J => NothingLost
  OBVIOUS
<1>. HIDE DEF J
<1>. QED
  BY <1>1, <1>2, <1>3, PTL DEF Spec

(***************************************************************************)
(* If a full entry has every node in it, as with the kNodesSize of         *)
(* config.h, an id is committed only once all nodes or the one node        *)
(* last_cmt_node have acknowledged it, for any number of nodes and in      *)
(* whatever order acknowledgements come (leader.cpp:110).                  *)
(***************************************************************************)
THEOREM CommitsWereAcked ==
  ASSUME FullMeansAll
  PROVE  Spec => []CommitsAreAcked
<1> DEFINE J == Types /\ EntriesAreAcked /\ CommitsAreAcked
<1>1. Init => J
  BY InitInv
<1>2. J /\ [Next]_vars => J'
  <2>1. ASSUME J, UNCHANGED vars
        PROVE  J'
    BY <2>1 DEF Types, EntriesAreAcked, CommitsAreAcked, vars
  <2>. QED
    BY <2>1, Steps, TypesStep, EntriesKept, CommitsStep
<1>3. J => CommitsAreAcked
  OBVIOUS
<1>. HIDE DEF J
<1>. QED
  BY <1>1, <1>2, <1>3, PTL DEF Spec
=============================================================================
