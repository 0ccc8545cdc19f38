---------------------------- MODULE Attestation ----------------------------
(***************************************************************************)
(* get_attestation of the benchmark's authenticators                       *)
(* (network-unused/authenticators): ask the trusted service on this        *)
(* machine and, in two of the modes, log the answer before it is used.     *)
(* auth_tnic only copies the data and is not modelled.                     *)
(*                                                                         *)
(* The log is a file: write() may take a part of what it is given or fail, *)
(* and only what fsync() has flushed is sure to outlive the machine.  Each *)
(* write() of log_attestation starts at the first byte of the attestation, *)
(* since data is never advanced.  What the log holds of a call is          *)
(* therefore known from the number of its bytes and from whether one       *)
(* write() took the whole attestation.                                     *)
(*                                                                         *)
(* calls, returned and unsynced are a history over all runs of the         *)
(* program: the peer keeps what it was sent when the program is started    *)
(* again, which truncates the log and starts cnt at 0.                     *)
(***************************************************************************)
EXTENDS Integers, FiniteSets

CONSTANTS
  Size,             \* bytes of an attestation
  NbCalls,          \* bound on the calls of get_attestation, of all runs of the program
  MaxFaults,        \* bound on the calls of write() and fsync() that fail
  MaxCrashes        \* bound on the ends of the program or the machine from outside

ASSUME ConstantsAssumption ==
  /\ Size \in Nat \ {0}
  /\ NbCalls \in Nat /\ MaxFaults \in Nat /\ MaxCrashes \in Nat

Call == 1 .. NbCalls

VARIABLES
  mode,             \* the authenticator: "SGX", "SGX_P" (persistency) or "SGX_R" (rollback)
  pc,               \* where the program is
  service,          \* the trusted service: "starting", "up" or "lost"
  link,             \* what is under way on the connections to and from it
  calls,            \* calls of get_attestation begun, in this run and the earlier ones
  earlier,          \* those of the earlier runs
  completed,        \* completed_bytes
  logged,           \* [call -> bytes the log holds for it]
  whole,            \* calls of which one write() took the whole attestation
  durable,          \* [call -> bytes of it that are sure to outlive the machine]
  unsynced,         \* calls of which the fsync() failed
  returned,         \* calls that have returned: their attestations are in use
  counter,          \* cnt of get_ROTE_counter, a variable of the process
  faults,           \* calls of write() and fsync() that failed
  crashes           \* ends from outside

log == <<logged, whole, durable>>
bounds == <<faults, crashes>>
vars == <<mode, pc, service, link, calls, earlier, completed, log, unsynced, returned, counter, bounds>>

InCall == {"recv", "write", "count", "sync"}

\* The calls of the program's present run; of its last run when it has ended.
Current == earlier + 1 .. calls

TypeOK ==
  /\ mode \in {"SGX", "SGX_P", "SGX_R"}
  /\ pc \in {"dial", "accept", "idle", "ended"} \cup InCall
  /\ service \in {"starting", "up", "lost"}
  /\ link \in {"quiet", "request", "reply"}
  /\ calls \in 0 .. NbCalls /\ earlier \in 0 .. calls
  /\ completed \in Int /\ completed <= Size
  /\ logged \in [Call -> Nat] /\ durable \in [Call -> Nat]
  /\ whole \subseteq Call /\ unsynced \subseteq Call /\ returned \subseteq Call
  /\ counter \in Nat
  /\ faults \in 0 .. MaxFaults /\ crashes \in 0 .. MaxCrashes

\* The mode is a flag of the program; the script starts service and program
\* together.
Init ==
  /\ mode \in {"SGX", "SGX_P", "SGX_R"}
  /\ pc = "dial" /\ service = "starting" /\ link = "quiet"
  /\ calls = 0 /\ earlier = 0 /\ completed = 0
  /\ logged = [k \in Call |-> 0] /\ whole = {} /\ durable = [k \in Call |-> 0]
  /\ unsynced = {} /\ returned = {} /\ counter = 0
  /\ faults = 0 /\ crashes = 0

\* The program ends, and its variables with it.
Ends == pc' = "ended" /\ counter' = 0

-----------------------------------------------------------------------------
(***************************************************************************)
(* connect_to_the_server, called by the constructor: one connect() to the  *)
(* service, then accept() until the service connects back.                 *)
(***************************************************************************)
Dial ==
  /\ pc = "dial"
  /\ IF service = "up" THEN pc' = "accept" /\ UNCHANGED counter ELSE Ends
  /\ UNCHANGED <<mode, service, link, calls, earlier, completed, log, unsynced, returned, bounds>>

AcceptBack ==
  /\ pc = "accept" /\ service = "up"
  /\ pc' = "idle"
  /\ UNCHANGED <<mode, service, link, calls, earlier, completed, log, unsynced, returned, counter, bounds>>

-----------------------------------------------------------------------------
\* Where log_attestation goes when its write loop is done.
AfterWrite == IF mode = "SGX_R" THEN "count" ELSE "sync"

\* send_req_to_trusted_service; a write to a lost service ends the program.
SendRequest ==
  /\ pc = "idle" /\ calls < NbCalls
  /\ calls' = calls + 1
  /\ completed' = 0
  /\ link' = "request"
  /\ \/ pc' = "recv" /\ UNCHANGED counter
     \/ service = "lost" /\ Ends
  /\ UNCHANGED <<mode, service, earlier, log, unsynced, returned, bounds>>

\* get_attestation returns what it received, or logs it first.
RecvAttestation ==
  /\ pc = "recv" /\ link = "reply"
  /\ link' = "quiet"
  /\ IF mode = "SGX"
     THEN pc' = "idle" /\ returned' = returned \cup {calls}
     ELSE pc' = "write" /\ UNCHANGED returned
  /\ UNCHANGED <<mode, service, calls, earlier, completed, log, unsynced, counter, bounds>>

\* A mistaken version of RecvFails: it goes on waiting, as recv_ack would if
\* secure_recv did not give up.
RecvWaits == pc = "recv" /\ link # "reply" /\ service = "lost" /\ UNCHANGED vars

\* recv_ack calls exit(2) when the service's end of the stream is closed.
RecvFails ==
  /\ pc = "recv" /\ link # "reply" /\ service = "lost"
  /\ Ends
  /\ UNCHANGED <<mode, service, link, calls, earlier, completed, log, unsynced, returned, bounds>>

-----------------------------------------------------------------------------
\* The loop of log_attestation goes on, or is done.
WriteOn ==
  /\ pc' = IF completed' < Size THEN "write" ELSE AfterWrite
  /\ UNCHANGED counter

\* A mistaken version of Write: data is advanced, but write() is always given
\* size bytes, which may be more than are left.
WriteSize(n) ==
  /\ pc = "write"
  /\ n <= Size
  /\ logged' = [logged EXCEPT ![calls] = @ + n]
  /\ completed' = completed + n
  /\ whole' = IF completed' >= Size THEN whole \cup {calls} ELSE whole
  /\ IF completed' > Size THEN Ends ELSE WriteOn
  /\ UNCHANGED <<mode, service, link, calls, earlier, durable, unsynced, returned, bounds>>

(***************************************************************************)
(* write() takes n of the size - completed_bytes bytes it is given.  After *)
(* a failure these are more than there are; if they are taken as well the  *)
(* address sanitizer the program is built with ends it.                    *)
(***************************************************************************)
Write(n) ==
  /\ pc = "write"
  /\ n <= Size - completed
  /\ logged' = [logged EXCEPT ![calls] = @ + n]
  /\ whole' = IF n >= Size THEN whole \cup {calls} ELSE whole
  /\ completed' = completed + n
  /\ IF n > Size THEN Ends ELSE WriteOn
  /\ UNCHANGED <<mode, service, link, calls, earlier, durable, unsynced, returned, bounds>>

\* write() returns -1, which is reported and added to completed_bytes.
WriteFails ==
  /\ pc = "write" /\ faults < MaxFaults
  /\ completed' = completed - 1
  /\ faults' = faults + 1
  /\ UNCHANGED <<mode, pc, service, link, calls, earlier, log, unsynced, returned, counter, crashes>>

GetROTECounter ==
  /\ pc = "count"
  /\ counter' = counter + 1
  /\ pc' = "sync"
  /\ UNCHANGED <<mode, service, link, calls, earlier, completed, log, unsynced, returned, bounds>>

\* get_attestation returns; what it returns is used from now on.
Return ==
  /\ pc' = "idle"
  /\ returned' = returned \cup {calls}
  /\ UNCHANGED <<mode, service, link, calls, earlier, completed, logged, whole, counter, crashes>>

\* A mistaken version of Sync: the log is not flushed.
SyncForgotten == pc = "sync" /\ UNCHANGED <<durable, unsynced, faults>> /\ Return

Sync == pc = "sync" /\ durable' = logged /\ UNCHANGED <<unsynced, faults>> /\ Return

\* The result of fsync() is not looked at.
SyncFails ==
  /\ pc = "sync" /\ faults < MaxFaults
  /\ faults' = faults + 1
  /\ unsynced' = unsynced \cup {calls}
  /\ UNCHANGED durable
  /\ Return

-----------------------------------------------------------------------------
(***************************************************************************)
(* The trusted service is a program of its own, whose source is not here.  *)
(***************************************************************************)
ServiceListens ==
  /\ service = "starting"
  /\ service' = "up"
  /\ UNCHANGED <<mode, pc, link, calls, earlier, completed, log, unsynced, returned, counter, bounds>>

ServiceReplies ==
  /\ service = "up" /\ link = "request"
  /\ link' = "reply"
  /\ UNCHANGED <<mode, pc, service, calls, earlier, completed, log, unsynced, returned, counter, bounds>>

ServiceEnds ==
  /\ service = "up" /\ crashes < MaxCrashes
  /\ service' = "lost"
  /\ crashes' = crashes + 1
  /\ UNCHANGED <<mode, pc, link, calls, earlier, completed, log, unsynced, returned, counter, faults>>

\* The program is killed, by ctrl-c for instance; what it wrote stays.
Kill ==
  /\ pc # "ended" /\ crashes < MaxCrashes
  /\ Ends
  /\ crashes' = crashes + 1
  /\ UNCHANGED <<mode, service, link, calls, earlier, completed, log, unsynced, returned, faults>>

\* The machine fails, before or after the program ended, and keeps what was
\* flushed.
MachineFails ==
  /\ crashes < MaxCrashes
  /\ Ends /\ service' = "lost"
  /\ logged' = durable
  /\ whole' = {k \in whole : durable[k] = logged[k]}
  /\ crashes' = crashes + 1
  /\ UNCHANGED <<mode, link, calls, earlier, completed, durable, unsynced, returned, faults>>

(***************************************************************************)
(* Both are started again.  open_file truncates the log of the earlier     *)
(* run, no byte of which is sure to outlive the machine any more.  The     *)
(* peer keeps what it was sent.                                            *)
(***************************************************************************)
Restart ==
  /\ pc = "ended" /\ crashes > 0
  /\ pc' = "dial" /\ service' = "starting" /\ link' = "quiet"
  /\ earlier' = calls /\ completed' = 0 /\ counter' = 0
  /\ logged' = [k \in Call |-> 0] /\ whole' = {} /\ durable' = [k \in Call |-> 0]
  /\ UNCHANGED <<mode, calls, unsynced, returned, bounds>>

GetAttestation ==
  \/ RecvAttestation \/ RecvFails
  \/ \E n \in 1 .. Size + MaxFaults : Write(n)
  \/ GetROTECounter \/ Sync

Next ==
  \/ Dial \/ AcceptBack \/ SendRequest \/ GetAttestation
  \/ WriteFails \/ SyncFails
  \/ ServiceListens \/ ServiceReplies \/ ServiceEnds
  \/ Kill \/ MachineFails \/ Restart

\* The program runs on, and a service that is up answers.
Spec ==
  /\ Init /\ [][Next]_vars
  /\ WF_vars(GetAttestation)
  /\ WF_vars(ServiceReplies)

-----------------------------------------------------------------------------
(***************************************************************************)
(* In the modes that log, every attestation that a run of the program has  *)
(* put to use (sent to the peer, main.cc:115) is in the log in full length *)
(* unless its fsync() failed: while the program runs, after it was killed  *)
(* and after the machine has failed, until the program is started again    *)
(* (apis.h:92 truncates the log then).  With rollback protection, while    *)
(* the program runs and so has its counter, what is in use is counted, and *)
(* only what is in the log in full length is counted (apis.h:108-120).     *)
(***************************************************************************)
DurableBeforeUse ==
  /\ mode # "SGX" => \A k \in (returned \cap Current) \ unsynced : logged[k] >= Size
  /\ mode = "SGX_R" /\ pc # "ended" =>
       \A k \in Current :
         /\ k \in returned => k - earlier <= counter
         /\ k - earlier <= counter => logged[k] >= Size

(***************************************************************************)
(* A program that has come as far as to ask for an attestation ends only   *)
(* for a cause: it, the service or the machine was ended from outside, or  *)
(* a write() failed; a write() that takes a part is no cause.              *)
(***************************************************************************)
EndHasCause == pc = "ended" /\ calls > 0 => crashes > 0 \/ faults > 0

(***************************************************************************)
(* A call of get_attestation comes to an end: it returns, or the program   *)
(* ends, also when the service is lost and when write() takes a little at  *)
(* a time or fails a few times (apis.h:111).                               *)
(***************************************************************************)
CallEnds == pc \in InCall ~> pc \notin InCall

(***************************************************************************)
(* What the log is for: main.cc:17 calls this mode "SGX w/ persistency"    *)
(* (network-unused/README.md:11).  What is in use is in the log as it is.   *)
(***************************************************************************)
AttestationsAreLogged == mode # "SGX" => returned \subseteq whole \cup unsynced

(***************************************************************************)
(* README.md:11-12 and main.cc:17-18 offer these modes as persistency and  *)
(* as protection against rollback, which matter when the program has ended *)
(* and is started again.  An attestation that the peer may hold is then    *)
(* still in the log, unless its fsync() failed.                            *)
(***************************************************************************)
UsedSurvivesRestart ==
  mode # "SGX" => \A k \in returned \ unsynced : logged[k] >= Size
=============================================================================
