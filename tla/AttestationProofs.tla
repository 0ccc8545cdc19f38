-------------------------- MODULE AttestationProofs --------------------------
(***************************************************************************)
(* Proofs about get_attestation, for attestations of every size and any    *)
(* number of calls, faults and crashes.                                    *)
(***************************************************************************)
EXTENDS Attestation, TLAPS

USE ConstantsAssumption

\* How far the log and the counter are when the program is at pc.
AtPc ==
  /\ \A k \in returned : k <= calls
  /\ pc \in {"dial", "accept"} => calls = earlier
  /\ pc \in InCall => calls \in Call /\ earlier < calls
  /\ pc = "recv" => completed = 0
  /\ pc = "write" => completed <= logged[calls]
  /\ pc \in {"count", "sync"} => Size <= logged[calls]
  /\ mode = "SGX_R" =>
       /\ pc \in {"dial", "accept", "idle", "sync"} => counter = calls - earlier
       /\ pc \in {"recv", "write", "count"} => counter = calls - 1 - earlier

\* What this run of the program put to use was flushed in full, the log has
\* what was flushed, and what is counted is in the log in full.
Flushed ==
  /\ \A k \in Call : durable[k] <= logged[k]
  /\ mode # "SGX" => \A k \in returned \ unsynced : earlier < k => Size <= durable[k]
  /\ mode = "SGX_R" /\ pc # "ended" =>
       \A k \in Call :
         earlier < k =>
           /\ k \in returned => k - earlier <= counter
           /\ k - earlier <= counter => Size <= logged[k]

\* A count of bytes below 0, a lost service, another start and an early end
\* have a cause.
Causes ==
  /\ completed < 0 => faults > 0
  /\ service = "lost" => crashes > 0
  /\ earlier > 0 => crashes > 0
  /\ EndHasCause

Inv == TypeOK /\ AtPc /\ Flushed /\ Causes

\* Nothing has been written, used or lost at first.
LEMMA InitInv == Init => Inv
  BY DEF Init, Inv, TypeOK, AtPc, Flushed, Causes, EndHasCause, InCall, Call

\* The program writes only within a call, so that logged is updated at a call.
LEMMA TypeStep == Inv /\ [Next]_vars => TypeOK'
<1> SUFFICES ASSUME Inv, [Next]_vars
             PROVE  TypeOK'
  OBVIOUS
<1> USE DEF Inv, TypeOK, AtPc, InCall, Ends, log, bounds
<1>1. CASE Dial \/ AcceptBack \/ SendRequest
  BY <1>1 DEF Dial, AcceptBack, SendRequest
<1>2. CASE RecvAttestation \/ RecvFails
  BY <1>2 DEF RecvAttestation, RecvFails
<1>3. ASSUME NEW n \in 1 .. Size + MaxFaults, Write(n)
      PROVE  TypeOK'
  BY <1>3 DEF Write, WriteOn, AfterWrite
<1>4. CASE WriteFails \/ GetROTECounter
  BY <1>4 DEF WriteFails, GetROTECounter
<1>5. CASE Sync \/ SyncFails
  BY <1>5 DEF Sync, SyncFails, Return
<1>6. CASE ServiceListens \/ ServiceReplies \/ ServiceEnds
  BY <1>6 DEF ServiceListens, ServiceReplies, ServiceEnds
<1>7. CASE Kill \/ MachineFails
  BY <1>7 DEF Kill, MachineFails
<1>8. CASE Restart
  BY <1>8 DEF Restart
<1>9. CASE UNCHANGED vars
  BY <1>9 DEF vars
<1>. QED
  BY <1>1, <1>2, <1>3, <1>4, <1>5, <1>6, <1>7, <1>8, <1>9 DEF Next, GetAttestation

\* Each action leaves the log and the counter as far as the next place needs.
LEMMA AtPcStep == Inv /\ [Next]_vars => AtPc'
<1> SUFFICES ASSUME Inv, [Next]_vars
             PROVE  AtPc'
  OBVIOUS
<1> USE DEF Inv, TypeOK, AtPc, InCall, Ends, log, bounds
<1>0. calls \in Nat /\ earlier \in Nat /\ earlier <= calls
  OBVIOUS
<1>1. CASE Dial \/ AcceptBack
  BY <1>1, <1>0 DEF Dial, AcceptBack
<1>12. CASE SendRequest
  <2>1. calls' = calls + 1 /\ calls' \in Call /\ earlier < calls'
    BY <1>12, <1>0 DEF SendRequest, Call
  <2>2. \A k \in returned' : k \in Nat /\ k <= calls'
    BY <1>12, <1>0, <2>1 DEF SendRequest, Call
  <2>3. pc' = "recv" \/ pc' = "ended"
    BY <1>12 DEF SendRequest
  <2>4. completed' = 0 /\ earlier' = earlier /\ mode' = mode
    BY <1>12 DEF SendRequest
  <2>5. mode = "SGX_R" /\ pc' = "recv" => counter' = calls - earlier
    BY <1>12 DEF SendRequest
  <2>. QED
    BY <1>0, <2>1, <2>2, <2>3, <2>4, <2>5
<1>2. CASE RecvAttestation
  <2>1. calls \in Call /\ completed = 0 /\ 0 <= logged[calls]
    BY <1>2 DEF RecvAttestation
  <2>2. CASE mode = "SGX"
    <3>1. returned' = returned \cup {calls} /\ UNCHANGED <<mode, calls>> /\ pc' = "idle"
      BY <1>2, <2>2 DEF RecvAttestation
    <3>2. \A k \in returned' : k <= calls'
      BY <1>0, <3>1
    <3>. QED
      BY <2>2, <3>1, <3>2
  <2>3. CASE mode # "SGX"
    BY <1>2, <2>1, <2>3 DEF RecvAttestation
  <2>. QED
    BY <2>2, <2>3
<1>10. CASE RecvFails
  BY <1>10 DEF RecvFails
<1>3. ASSUME NEW n \in 1 .. Size + MaxFaults, Write(n)
      PROVE  AtPc'
  <2>1. /\ pc = "write" /\ completed' = completed + n
        /\ calls \in Call /\ completed <= logged[calls]
        /\ UNCHANGED <<mode, calls, earlier, returned>>
    BY <1>3 DEF Write
  <2>2. logged'[calls] = logged[calls] + n /\ logged[calls] \in Nat
    BY <1>3, <2>1 DEF Write
  <2>3. \/ pc' = "ended"
        \/ pc' = "write" /\ counter' = counter
        \/ pc' = AfterWrite /\ Size <= completed' /\ counter' = counter
    BY <1>3, <2>1 DEF Write, WriteOn
  <2>. QED
    BY <2>1, <2>2, <2>3 DEF AfterWrite
<1>4. CASE WriteFails
  <2>1. calls \in Call /\ logged[calls] \in Nat /\ completed \in Int
    BY <1>4 DEF WriteFails
  <2>. QED
    BY <1>4, <2>1 DEF WriteFails
<1>11. CASE GetROTECounter
  <2>1. calls \in Int /\ counter \in Nat
    OBVIOUS
  <2>. QED
    BY <1>11, <2>1 DEF GetROTECounter
<1>5. CASE Sync \/ SyncFails
  BY <1>5 DEF Sync, SyncFails, Return
<1>6. CASE ServiceListens \/ ServiceReplies \/ ServiceEnds
  BY <1>6 DEF ServiceListens, ServiceReplies, ServiceEnds
<1>7. CASE Kill \/ MachineFails
  BY <1>7 DEF Kill, MachineFails
<1>8. CASE Restart
  BY <1>8 DEF Restart
<1>9. CASE UNCHANGED vars
  BY <1>9 DEF vars
<1>. QED
  BY <1>1, <1>2, <1>3, <1>4, <1>5, <1>6, <1>7, <1>8, <1>9, <1>10, <1>11, <1>12 DEF Next, GetAttestation

\* Nothing is used before it is flushed, and no flushed byte is lost.
LEMMA FlushedStep == Inv /\ [Next]_vars => Flushed'
<1> SUFFICES ASSUME Inv, [Next]_vars
             PROVE  Flushed'
  OBVIOUS
<1> USE DEF Inv, TypeOK, AtPc, Flushed, InCall, Ends, log, bounds
<1>1. CASE Dial \/ AcceptBack \/ SendRequest
  BY <1>1 DEF Dial, AcceptBack, SendRequest
<1>2. CASE RecvAttestation \/ RecvFails
  BY <1>2 DEF RecvAttestation, RecvFails
<1>3. ASSUME NEW n \in 1 .. Size + MaxFaults, Write(n)
      PROVE  Flushed'
  <2>1. /\ logged' = [logged EXCEPT ![calls] = @ + n]
        /\ UNCHANGED <<mode, earlier, durable, unsynced, returned>>
        /\ pc = "write" /\ (pc' = "ended" \/ counter' = counter)
    BY <1>3 DEF Write, WriteOn
  <2>2. \A k \in Call : logged'[k] \in Nat /\ logged[k] <= logged'[k]
    BY <2>1
  <2>. QED
    BY <2>1, <2>2
<1>4. CASE WriteFails
  BY <1>4 DEF WriteFails
<1>10. CASE GetROTECounter
  <2>1. /\ mode' = mode /\ logged' = logged /\ durable' = durable /\ earlier' = earlier
        /\ pc = "count" /\ calls \in Call /\ Size <= logged[calls]
    BY <1>10 DEF GetROTECounter
  <2>2. returned' = returned /\ unsynced' = unsynced /\ counter' = counter + 1
    BY <1>10 DEF GetROTECounter
  <2>3. ASSUME mode = "SGX_R", NEW k \in Call, earlier < k
        PROVE  /\ k \in returned => k - earlier <= counter'
               /\ k - earlier <= counter' => Size <= logged[k]
    <3>1. k \in Nat /\ counter = calls - 1 - earlier
      BY <2>1, <2>3 DEF Call
    <3>2. k - earlier <= counter' => k - earlier <= counter \/ k = calls
      BY <2>2, <3>1
    <3>. QED
      BY <2>1, <2>2, <2>3, <3>1, <3>2
  <2>. QED
    BY <2>1, <2>2, <2>3
<1>5. CASE Sync \/ SyncFails
  <2>1. /\ pc = "sync" /\ calls \in Call /\ Size <= logged[calls]
        /\ returned' = returned \cup {calls}
        /\ UNCHANGED <<mode, earlier, logged, counter>>
    BY <1>5 DEF Sync, SyncFails, Return
  <2>2. \/ durable' = logged /\ unsynced' = unsynced
        \/ durable' = durable /\ unsynced' = unsynced \cup {calls}
    BY <1>5 DEF Sync, SyncFails
  <2>3. \A k \in Call : durable'[k] <= logged'[k] /\ (Size <= durable[k] => Size <= durable'[k])
    BY <2>1, <2>2
  <2>4. mode # "SGX" =>
          \A k \in returned' \ unsynced' : earlier < k => Size <= durable'[k]
    BY <2>1, <2>2, <2>3
  <2>5. mode = "SGX_R" =>
          \A k \in Call :
            earlier < k =>
              /\ k \in returned' => k - earlier <= counter
              /\ k - earlier <= counter => Size <= logged[k]
    BY <2>1
  <2>. QED
    BY <2>1, <2>3, <2>4, <2>5
<1>6. CASE ServiceListens \/ ServiceReplies \/ ServiceEnds
  BY <1>6 DEF ServiceListens, ServiceReplies, ServiceEnds
<1>7. CASE Kill \/ MachineFails
  BY <1>7 DEF Kill, MachineFails
<1>8. CASE Restart
  <2>1. \A k \in Call : durable'[k] = 0 /\ logged'[k] = 0
    BY <1>8 DEF Restart
  <2>2. \A k \in returned' : k <= earlier'
    BY <1>8 DEF Restart
  <2>3. counter' = 0 /\ returned' = returned /\ unsynced' = unsynced /\ earlier' = calls
    BY <1>8 DEF Restart
  <2>4. \A k \in Call : k \in Nat
    BY DEF Call
  <2>. QED
    BY <2>1, <2>2, <2>3, <2>4
<1>9. CASE UNCHANGED vars
  BY <1>9 DEF vars
<1>. QED
  BY <1>1, <1>2, <1>3, <1>4, <1>5, <1>6, <1>7, <1>8, <1>9, <1>10 DEF Next, GetAttestation

\* Only failed writes and ends from outside end the program within a call.
LEMMA CausesStep == Inv /\ [Next]_vars => Causes'
<1> SUFFICES ASSUME Inv, [Next]_vars
             PROVE  Causes'
  OBVIOUS
<1> USE DEF Inv, TypeOK, AtPc, Causes, EndHasCause, InCall, Ends, log, bounds
<1>1. CASE Dial \/ AcceptBack \/ SendRequest
  BY <1>1 DEF Dial, AcceptBack, SendRequest
<1>2. CASE RecvAttestation \/ RecvFails
  BY <1>2 DEF RecvAttestation, RecvFails
<1>3. ASSUME NEW n \in 1 .. Size + MaxFaults, Write(n)
      PROVE  Causes'
  BY <1>3 DEF Write, WriteOn, AfterWrite
<1>4. CASE WriteFails \/ GetROTECounter
  BY <1>4 DEF WriteFails, GetROTECounter
<1>5. CASE Sync \/ SyncFails
  BY <1>5 DEF Sync, SyncFails, Return
<1>6. CASE ServiceListens \/ ServiceReplies \/ ServiceEnds
  BY <1>6 DEF ServiceListens, ServiceReplies, ServiceEnds
<1>7. CASE Kill \/ MachineFails
  BY <1>7 DEF Kill, MachineFails
<1>8. CASE Restart
  BY <1>8 DEF Restart
<1>9. CASE UNCHANGED vars
  BY <1>9 DEF vars
<1>. QED
  BY <1>1, <1>2, <1>3, <1>4, <1>5, <1>6, <1>7, <1>8, <1>9 DEF Next, GetAttestation

\* The four parts hold together in every state (authenticators/apis.h).
THEOREM Invariance == Spec => []Inv
<1>1. Init => Inv
  BY InitInv
<1>2. Inv /\ [Next]_vars => Inv'
  BY TypeStep, AtPcStep, FlushedStep, CausesStep DEF Inv
<1>. QED
  BY <1>1, <1>2, PTL DEF Spec

(***************************************************************************)
(* What a run of the program puts to use is in the log in full length, for *)
(* as long as this is that run's log: also when the program was killed or  *)
(* the machine has failed, but not once the program is started again.  In  *)
(* get_attestation log, count, flush and return come in this order, so     *)
(* that while the program runs what is used is counted and what is counted *)
(* is logged.                                                              *)
(***************************************************************************)
THEOREM UsedIsDurable == Spec => []DurableBeforeUse
<1>1. Inv => DurableBeforeUse
  <2> SUFFICES ASSUME Inv, NEW k \in Current
               PROVE  /\ mode # "SGX" /\ k \in returned \ unsynced => logged[k] >= Size
                      /\ mode = "SGX_R" /\ pc # "ended" =>
                           /\ k \in returned => k - earlier <= counter
                           /\ k - earlier <= counter => logged[k] >= Size
    BY DEF DurableBeforeUse
  <2>1. k \in Call /\ earlier < k
    BY DEF Inv, TypeOK, Current, Call
  <2>2. durable[k] \in Nat /\ logged[k] \in Nat /\ durable[k] <= logged[k]
    BY <2>1 DEF Inv, TypeOK, Flushed
  <2>. QED
    BY <2>1, <2>2 DEF Inv, Flushed
<1>. QED
  BY <1>1, Invariance, PTL

(***************************************************************************)
(* Without an end from outside and without a failed write() the program    *)
(* never ends in get_attestation, in however small parts write() takes     *)
(* what it is given.                                                       *)
(***************************************************************************)
THEOREM EndsHaveCauses == Spec => []EndHasCause
<1>1. Inv => EndHasCause
  BY DEF Inv, Causes
<1>. QED
  BY <1>1, Invariance, PTL
=============================================================================
