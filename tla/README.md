# Verification of tee-replication

TLA+ modules, TLC runs and TLAPS proofs for the two replication protocols of
this repository: chain replication (`src/cr`) and the leader/follower protocol
that the repository calls raft (`src/raft`), and for the latency benchmark in
`src/network-unused` with its attestation back-ends. The modules are translated from the
C++ sources; `PROJECT.json` maps every definition to the lines it stands for.
The repository's own README is a title only, the one of the benchmark a few
command lines, and the sources hold few comments,
so what "correct" means is stated here, from what the code is evidently for:
every request of the experiment is replicated and committed once and in order,
and the programs come up, finish and fail in an orderly way.

## 1. Inventory

### Parts, their state and operations

| part | code | state | operations | modules |
|---|---|---|---|---|
| chain: head | `cr/head.cpp` | loop counter of `sender`, `s.cmt_idx` of `receiver_finale` | write request i to the middle; commit what the tail acknowledges; join both threads | `ChainReplication` |
| chain: middle | `cr/middle.cpp` | `s.cmt_idx`, request in hand | record a request, forward it, return after the last | `ChainReplication` |
| chain: tail | `cr/tail.cpp` | `s.cmt_idx` | record a request, acknowledge its own `cmt_idx`, return at the end of the stream | `ChainReplication` |
| raft: leader | `raft/leader.cpp` | loop counter of `sender`; per follower a `receiver` thread with its own log, `cmt_idx`, `last_cmt_node`, `last_cleanup` | write request i to every follower; log, commit, clean up each acknowledgement; join all threads | `Raft` |
| raft: follower | `raft/follower.cpp` | log, `s.cmt_idx`, `last_cmt_ack_id` | log and commit a request, acknowledge `cmt_idx`, return after the last | `Raft` |
| in-memory log | `common.hpp` | map from id to the nodes that acknowledged it | insert, append, remove; commit loop, clean-up loop | `InMemLog`, `LogLoops` |
| connection set-up | every `main()`, `net/shared.h` | call each process is at, listening ports, pending connections, failed attempts | listen, accept, connect once, connect with retry | `ConnectionSetup` |
| message framing | `net/shared.cpp`, `net/shared.h` | bytes still to send, bytes received, retries | `secure_send`, `secure_recv`, `read_n`, length field | `FramedStream`, `MessageLink` |
| authentication | `common.hpp`, `crypto.hpp` | none | HMAC over the payload | not modelled |
| benchmark | `network-unused/main.cc` | counters of requests, answers and acknowledgements, map of sessions | create a session, send a request and poll for its answer; handle a request; leave when all is answered | `LatencyBench` |
| attestation | `network-unused/authenticators` | connection to the trusted service, log file, ROTE counter | `get_attestation`: ask, receive, log, count, flush | `Attestation` |

### How they interact

Each process is one program. TCP connections are set up first, in `main()`;
then the threads start, and the connections are used in one direction each:

    chain:   head.sender -> middle.receiver -> tail.receiver -> head.receiver_finale
    raft:    leader.sender -> follower f.receiver -> leader.receiver(f)

    bench:   sender <-> receiver over eRPC;  each <-> its own trusted service over TCP

There is no shared state between threads of a process other than the sockets
(`cluster_info` is copied into each thread, and each `receiver` of the leader
owns its log), and no socket is ever closed except by the end of its process.
The benchmark has one thread per process, which runs eRPC's event loop itself and
does not while it attests.
So all interaction is by messages, and by the two ways in which the end of a
process shows at its peers: a failed `send()` and the end of a stream.

### What is hard

* All sends block. The chain is a ring of bounded buffers in which the middle
  and the tail stop reading while they are blocked in a send; the raft leader
  writes to all followers from one thread.
* Nothing checks order on the committing side (`head.cpp:161`), and a request
  out of order is reported and processed anyway (`middle.cpp:82`).
* End of stream. Five threads meet it, in three different ways: as an
  ordinary end (tail, when all is recorded), as an error that ends the thread
  (`receiver_finale`), and as a missing buffer that is then read (all others).
* Shutdown order: every process ends by itself, at a different moment, while
  others may still be using its sockets.
* Set-up: each process waits in `connect()` or `accept()` for the next call of
  another, some dials are repeated and some are not.
* Partial sends and receives, and writers that die within a message.
* The benchmark: packets are lost and repeated below it, no wait has a
  time-out, and the receiver leaves on a count and a clock.
* Attestation: partial and failed writes to the log, and ends of the program, the
  service or the machine between writing, counting, flushing and using; a restart, when
  the peer still has what the earlier run sent.

`PROJECT.json` lists these hazards by line, with the properties that cover them.

### What makes each part correct

* chain, raft: requests are recorded in order without gaps, committed once and
  in order, only after replication; everything is committed in the end if
  nobody is killed; without a kill nobody crashes; with one nobody hangs.
* log loops: commit only what is acknowledged, remove only what is committed. In the programs a log has the
  acknowledgements of one node only and is emptied every turn (`LogsStayEmpty`); `LogLoops` checks the loops beyond
  that, for logs with entries of two nodes and full entries.
* set-up: no circular wait, no traffic before all connections exist, refused
  dials only where they are retried, and who waits for ever waits for somebody
  that ended.
* framing: a FIFO of whole messages, whatever the byte stream does.
* benchmark: one round trip at a time, each request handled once (otherwise the latency
  it prints is not one); both programs end unless a peer or the last answer is lost.
* attestation: a run of the program uses nothing that the disk does not hold, nor anything uncounted;
  a call always ends, and ends the program only for a cause. What is in use should also be there after a
  restart, but is not (section 6).

## 2. Modules

| module | what it is |
|---|---|
| `Replication` | abstract specification of both protocols: requests submitted, applied by replicas in order, committed after a quorum applied them |
| `Sockets` | the links and process states both protocol modules use: `Send`, `Receive`, `EndOfStream`, `SendFails`, `End` |
| `ChainReplication` | the chain, one action per step of each thread; refines `Replication` |
| `Raft` | leader and followers, likewise; refines `Replication` |
| `InMemLog` | the log and its loops in closed form, used by `Raft` |
| `LogLoops` | the loops turn by turn, as the code writes them, fed with acknowledgements in every order, against `InMemLog` |
| `ConnectionSetup` | set-up for any script of socket calls |
| `SetupScripts` | the scripts of the five programs, and the order in which they are started |
| `FramedStream` | framing at the level of single `send()`/`recv()` calls; refines `MessageLink` |
| `MessageLink` | one link with the operators of `Sockets`: what framing promises |
| `RequestResponse` | abstract specification of the benchmark: send, handle and answer, one request at a time |
| `LatencyBench` | sender and receiver over eRPC; refines `RequestResponse` |
| `Attestation` | `get_attestation` with the trusted service, the log and its crashes |
| `MCChainReplication`, `MCRaft`, `MCChainSetup`, `MCRaftSetup`, `MCFramedStream` | instances for TLC; the set-up ones say that the constants are the scripts of the programs |
| `ChainReplicationProofs`, `RaftProofs`, `ConnectionSetupProofs`, `SetupScriptsProofs`, `FramedStreamProofs`, `LogLoopsProofs`, `LatencyBenchProofs`, `AttestationProofs` | theorems and proofs |

The layers fit together as follows. `ConnectionSetup` shows that the process
that sends the first request starts only when all connections exist
(`RootStartsLast`): this is the initial state of the protocol modules.
`FramedStream` refines `MessageLink`, which is built from the operators of
`Sockets` and nothing else: this is why the protocol modules may treat a
connection as a FIFO of messages. `LogLoops` shows that the closed forms in
`InMemLog` are the loops: this is why `Raft` may commit and clean up in one
step. `ChainReplication` and `Raft` then refine `Replication`.
`Attestation` shows that a call of `get_attestation` returns or ends the program
(`CallEnds`): this is why `LatencyBench` may take it as part of sending and of the
handler, and its exits as one cause of `Die`.

Each module that models code also holds, in a section of its own, mistaken
versions of some actions. No specification uses them; each shows that some
property would notice a bug of that kind.

### State and actions against the code

*ChainReplication.* `nextReq` is the loop counter of `sender`; `headCmt`,
`midCmt`, `tailCmt` are the three `s.cmt_idx`; `midPc`/`tailPc` say which
blocking call a thread is at (`recv`, `forward`/`ack`) or that it is about to
return. A turn of a receiver's loop is two steps, since `forward_msg` and
`send_ack_to_leader` may block after the request was recorded. `finale` tells
whether `receiver_finale` runs, finished or returned on an error. `MiddleEof` and
`TailEof` end the process: `secure_recv` returned `{0, nullptr}`, and the code
goes on to verify that buffer. `TailReturns` is the only normal end of the tail.

*Raft.* `sentTo` is how far the iteration over `cluster_info` is within a request,
`order` its arbitrary but fixed order. Per follower f, `log[f]`, `cmt[f]`, `lastNode[f]`,
`lastCleanup[f]`, `receiver[f]` are the locals of the leader's thread for f.
`LeaderReceive` is one whole turn: insert or append, commit, clean up.
`last_cmt_ack_id` of a follower equals its `cmt_idx` when the loop tests it and is not a
variable. Node ids in messages are not modelled: `cr` never reads them, and
in `raft` they equal the follower the link belongs to.

*ConnectionSetup.* A process is a fixed sequence of calls; `pc` is where it is.
Listening ports follow from `pc` and `status` since listening sockets stay open.
The raft leader and the head dial once and then wait to be dialled back
(`connect_to_the_server`); nodes accept and dial back with retries
(`create_receiver_connection`, `create_communication_pair`).

*FramedStream.* One writer, one reader. Each `send()` takes and each `recv()`
returns any number of bytes that fits. EAGAIN on non-blocking sockets is no
step: `read_n` then just calls `recv()` again.

*LatencyBench.* `enqueued`, `received`, `sentAcks` are `enqueued_msgs_cnt`,
`received_msgs_cnt`, `sent_acks_cnt`; the loop counter of `sender_func` follows from
`enqueued` and `sndPc`. A request is handled in two steps (`NewRequest`, `ReqHandler`) since
attesting the answer takes time in which the sender repeats the request. eRPC is not part
of the repository: its packets are a set (any order, repeated when they stay in
it), its server side runs a handler once per request and repeats the last answer, its
client side repeats the request under way. `connections` is modelled because the
program looks up a key that it never inserted (`Lookup`).

*Attestation.* `pc` is the call at which the program is: connecting, waiting for the
service, in the write loop, at the counter, at `fsync()`. `completed` is
`completed_bytes`, which a failed write makes smaller. For every call of `get_attestation` the
log has a number of bytes, `logged`, of which `durable` are flushed; as every
`write()` starts at the first byte, the log holds the attestation itself only if a single write took it,
which `whole` remembers. `calls`, `returned` and `unsynced` go on over restarts, since the peer keeps what it
was sent: `Current` are the calls of the present run. `counter` is lost whenever the program ends (`Ends`), for
`cnt` is a variable of the process. `Restart` is a new run on the same disk: it truncates the log.

## 3. Runs

| run | instance | states | shows |
|---|---|---|---|
| `chain_safety` | 5 requests, links of 2, up to 2 kills | 3447 | order, replication before commit, causes of death and shortfall, refinement of `Replication` |
| `chain_progress` | 7 requests, links of 1, up to 1 kill | 1667 | completion, nobody hangs, a middle that has passed on everything is not needed |
| `raft` | 2 followers, 5 requests, links of 1, up to 2 kills | 14204 | order, empty logs, back-pressure, complete replication at a normal end, refinement of `Replication`; completion, nobody hangs, a finished follower may die |
| `raft_receive_error` | 2 requests, 1 kill | violation | see section 6 |
| `log_loops` | 2 nodes, ids 0 to 3, every order | 625 | loops = closed forms, commits are acknowledged, nothing is lost |
| `chain_setup` | 3 attempts, up to 1 kill | 251 | no traffic too early, only the tail can be refused, everybody comes up unless somebody ended |
| `raft_setup` | the same | 119 | the same for the leader and two followers |
| `framed_stream` | messages of 1, 9 and 2 bytes, 7 bytes of buffer, 2 retries | 909 | framing implements the message link, with either end killed at any byte; both ends come to an end |
| `latency_bench` | 3 requests, up to 2 packets lost and 1 kill | 52481 | round trips one after the other, only the last answer is at stake, both programs end |
| `attestation` | 3 calls, 2 bytes, up to 2 faults and 2 crashes | 28763 | durable before use until the next start, ends have causes, calls end |
| `attestation_log` | 2 calls, 2 bytes, no faults | violation | see section 6 |
| `attestation_restart` | 2 calls, 2 bytes, no faults, 1 crash | violation | see section 6 |

### Bounds, and why they are enough

* `NbRequests` is 100000 in `config.h`. What matters is that the pipeline can be
  full and that requests are left to send then: three links of one and two
  nodes hold five requests, so seven block every thread of the chain at once.
  In Raft the path of a follower (link, follower, link) holds three and its receiver
  takes one after the other, so five leave the sender blocked on a full path.
  The protocol theorems hold for every number.
* `Cap`, the messages a link holds, stands for the two kernel buffers. One and
  two make full links frequent; the theorems hold for every capacity.
* `MaxKills`: two of three processes may be killed in `chain_safety` and `raft`, so that
  the survivor is left with no peer; one in `chain_progress`.
* `Attempts` is 20 in `shared.h`; with three there is a first, a middle and a
  last attempt. It is only ever compared with the counter.
* `Byte` is 2 instead of 256: the 4-byte length field then ranges over 0..15,
  and the length 9 has the sign bit set as a real length above 2^31 would. The
  payloads contain bytes that look like length fields. The buffer of 7 is
  smaller than the longest frame and larger than two of the short pieces.
* `MaxRetries` is 10000 in `shared.cpp`; it is only compared with the counter.
* `ReqsNum` is a flag (10 by default): with three there is a first, a middle and a last round
  trip, and packets of two earlier ones may still be about. Losses are bounded by two, so that a
  request and its answer, or the same answer twice, can be lost; repetitions are not
  bounded, since a packet may stay in the set when it is delivered.
* `Size` is 2 bytes: a write is whole or partial, and one byte is missing after it. With two
  faults `completed_bytes` falls below 0 and a write may be given more than the attestation
  has. Two crashes allow the machine to fail after the service did, or after a restart. `NbCalls` bounds the
  calls of all runs together: with three, two of them may be in a run before or after a restart.

### Deadlock

Protocol and framing runs check for deadlock: only the state in which every
process has ended may stutter. The set-up runs do not, because the system
really can stop there: `accept()` has no timeout, and a process whose peer is gone
waits for ever (`head.cpp:312`). `SetUpCompletes` shows that who waits there waits, directly
or through others, for a process that ended. The benchmark runs do not either: its programs poll for ever
when the peer or the last answer is lost, and a program that is refused by its
trusted service, or ends without a crash, is not started again. `BothFinish` and `CallEnds` say
in which cases they do end.

### Fairness

Weak fairness, per thread: a thread that can go on is scheduled eventually
(these are operating-system threads). It is never assumed that a kill happens or does
not, that a program is started, or that a send wins against a reset. An
enabled `recv()` stays enabled, so weak fairness is sufficient. A send to a process that has
ended may first succeed and fails at the latest when the buffer is full.

The benchmark's event loops look for packets and overdue requests in every turn, so each
of these steps is weakly fair on its own. An answer or a request that is in flight is
found unless it is lost, and losses are bounded. In `Attestation` the program's own
steps inside a call are fair, and a service that is up answers; that
`write()` and `fsync()` succeed at some time follows from the bound on faults.

### Environment

A kill may come at any moment. The kernel delivers what a process wrote before
its end, then the end of the stream. Connections do not break
between processes that are up; machines and networks that fail without a reset
are not modelled (`read_n` would poll for ever, no code handles that).
`-fsanitize=address` in the Makefiles, and the null read of at least the HMAC's length
otherwise, make verifying a missing buffer a certain crash.

## 4. Proofs

Every safety and action property and every refinement that a passing run checks is stated by a
theorem, for every value of the constants.

Assumptions: the `ConstantsAssumption` of the module, that is, at least one request (any number for
the benchmark), links of at least one message, and for `Raft` a finite nonempty set of followers
with positive ids and `kNodesSize` at least one; for set-up, that the
scripts are sequences of calls; for framing an even number of values of a byte, room and retries of at least one, and
messages that are not empty and whose length four bytes can hold; for attestations at least one byte. The
bounds on kills, losses, faults and crashes may be any numbers. Some theorems say more in their
statement: `IsChain` and `IsRaft` (the scripts are those of the programs), `ChainIsLaunchedInOrder` and
`RaftIsLaunchedInOrder` (only where a refusal is at stake: the programs that listen first are started
first), and `FullMeansAll` (`kNodesSize` is at least the number of nodes, as in `config.h`). TLC evaluates
the first four in `ChainAssumption` and `RaftAssumption`.

*Chain (`ChainReplicationProofs`).* The inductive invariant is
`TypeOK /\ Pipeline /\ Shutdown`.

* `CommittedIsReplicated` alone is not inductive: nothing in it says which ids
  are on the links. `Pipeline` does: each link carries exactly the run of
  consecutive ids between the counters at its two ends. It is inductive
  relative to the types, and everything about order follows from it:
  `CommitsAreReplicated` because a run has no negative length,
  `CommitsAreInOrder` because the head of a run is the counter's next id.
* `Shutdown` says what a process that has reached a point of its control flow
  has done before. With `Pipeline` it shows that a process that ends normally
  leaves nobody who needs its sockets: `NobodyDiesAlone`,
  `ShortfallAlwaysHasCause`.
* `ChainNeverDeadlocks`: `HeadCanGo`, `MiddleCanGo` and `TailCanGo` are the guards of the
  actions, that is, when the blocking call a thread is at returns. If a thread waits for room on a full
  link, the link is not empty, and the argument goes on to its reader; after the tail it
  ends at `receiver_finale`, which by `Pipeline` still has something to commit then, and so reads.
  If a thread waits for a message, `Pipeline` and `Shutdown` show that its
  writer has one to send.
* `ChainAlwaysAdvances`: `Left` adds up, over the six counters of the chain, the requests that have not
  passed them, and the threads and processes that have not ended. It is a natural number (a counter
  out of order could run past the last request, so this needs `Pipeline`), and every step makes it
  smaller. Together with `ChainNeverDeadlocks` this is the safety part of `NobodyHangs`: a
  chain of any size that keeps taking steps ends.
* `ChainImplementsReplication` maps `SenderSend` to `Submit`, `MiddleReceive` and
  `TailReceive` to `Apply`, `FinaleReceive` to `Commit`, and every other step to a
  stutter, using `Pipeline`.

*Raft (`RaftProofs`).* The inductive invariant is `Inv`: the types, `Pipeline` for
each follower, and `LogsStayEmpty`. They need each other: that a turn of the leader's
loop adds an entry, commits it and removes it again (`LeaderTurn`) holds only
if the log is empty and the acknowledgement is the next one, and that the
next acknowledgement is the next one needs `cmt` to move by exactly one. `LinksBounded` gives the
back-pressure bound, `Shutdown` the two theorems about ends of processes. `RaftNeverDeadlocks` follows the
sender: the follower it waits for can read, or waits in turn for its receiver, which can. It needs that the
iteration over `cluster_info` always has a follower left (`SomeoneIsLeft`), and a least one in `order`.
`RaftAlwaysAdvances` is the counterpart of the chain's, said for each follower since a sum over the
set of followers would need an induction: nothing goes back, something advances, nothing gets too far.
`RaftImplementsReplication` also needs `SomeAhead`: a greatest `cmt` exists, so that
the abstract commit index is defined.

*Set-up (`ConnectionSetupProofs`, `SetupScriptsProofs`).* The first module is about every script in
which no port is dialled by two calls, the second applies it to the scripts of the chain and of Raft.

* `RootStartsLast` speaks of connections the root has no part in and is far from inductive. What is:
  at most one connection is pending at a port, only after it was opened and before it was accepted
  (`AtMostOnePending`), so that who accepted one knows that the call that opened it was made
  (`AcceptedWasOpened`). The head's last `accept()` needs the tail's last dial, that is behind the
  tail's first `accept()`, and that needs the middle's dial. This holds in whatever order the programs
  are started.
* `OnlyRacersAreRefused` depends on that order and on the control flow of all programs at once.
  The inductive invariants are `StartedInOrder` (a program that is launched finds those it depends
  on past their first call) and `ExitsAreRefusals` (without a kill, who gave up is still at
  the call that was refused). The step that could break the second is a refused dial;
  `DialsAreHeard` excludes it for all but racers: the process that owns the port has passed its
  `listen()`, by `StartedInOrder`, and has not given up, because a program gives up only at a call that comes
  after its first `accept()`, which the dial in question has yet to make possible. Raft has no racers: `NobodyIsRefused`.
* `NoCircularWait`: if the calls can be ranked, along each script and from each dial to
  its accept, then when no program can make its next call each is up, has ended, or waits for one that has.
  The proof takes a waiting program of lowest rank among those said to wait for nobody that ended. It
  needs that no connection gets lost (`OpenedIsPending`). `ChainRank` and `RaftRank` are the rankings. With weak
  fairness, and since every script is finite and every dial is repeated a bounded number of
  times, this is why `SetUpCompletes` holds; that last step is left to TLC.

*Framing (`FramedStreamProofs`).* `InStep` says that what was read, what is in the stream and what is
still to be sent are together the frames sent so far, but not what the reader will ask for
next; `Framing` does: `want` is the length of the length field or of the next payload, and what was
returned is the first messages. The heart of the proof is that, in step, the four bytes read at a
frame's beginning are its length field (`BytesToInt` undoes `IntToBytes`, with `AsChar` in between) and the
bytes after it are the payload. `Frames`, the concatenation of the first n frames, is a recursive function;
what is needed of it (it is defined, and each value is the one before and at least five bytes more) is proved with `SetInduction`, induction for a
set of numbers in place of a predicate. `FramesImplementMessageLink` maps the `send()` that took
a message's last byte to the abstract send and the `recv()` that returned it to the abstract receive.
That the link never holds more than its capacity needs that each frame waiting in the stream takes
at least `LengthSizeField + 1` bytes of it.

*Log loops (`LogLoopsProofs`).* `IterateIsClosed`, `CleanupIsClosed` and `FollowerIsClosed` hold for every
log, not only for those that occur: after n turns a loop is n ids further, or where the
closed form says if that is nearer, and there it stays; `MaxId + 1` turns are enough since
the log has no other ids (`StopsOutside`). The commit loop also remembers a node, whose closed
form (the node of the last entry that is not full) is followed turn by turn. `NothingIsLost` is inductive with the
types. `CommitsWereAcked` is not: `EntriesAreAcked` adds that the nodes in an entry are distinct and have
acknowledged it, so that a full entry has all nodes in it.

*Benchmark (`LatencyBenchProofs`).* `Counters` orders the counters and ties them to the place of
each thread, `PacketsBehind` says that no packet is ahead of the counter
it was made from, so that a guard that finds a packet knows about the other
process, and `AnswerExists` that an answer that is missing is in flight or was
lost. From them follow `OnlyLastAnswerAtStake` and the
refinement, which maps `SendReq` to `Send`, `ReqHandler` to `Handle`, `ContFunc` to
`Answer` and every other step to a stutter.

*Attestation (`AttestationProofs`).* `DurableBeforeUse` is about the present run of the program, or its last one
until the program is started again: what this run has put to use is in the log, also after a kill or a failure of
the machine. Its clause about the counter holds while the program runs, as the counter does not outlive it. `AtPc` says
how far log and counter are at each place before the use, where the point is that `completed_bytes`
never exceeds what the log holds for the call (a failed write only lowers
it), and that the counter is the number of this run's calls that are logged. `Flushed` says that what this run has in
use was flushed, which is
what survives the machine. `Causes` gives `EndHasCause`: more bytes than the
attestation has are asked for only with `completed_bytes` below 0.

Only model-checked: liveness (`Completes`, `NobodyHangs`, `LateMiddleKillIsHarmless`,
`FinishedFollowerMayDie`, `SetUpCompletes`, `TransferEnds`, `BothFinish`, `CallEnds`), since fairness and
`ENABLED` are out of the prover's reach. For the same reason the deadlock theorems speak of the guards
of the actions, written out, and not of `ENABLED`, and that a run that always advances and never
deadlocks comes to its end is left to the reader.

## 5. Not modelled

* HMAC: a pure function; the callers go on with the payload whatever
  `verify_attested_msg` found, so it has no influence on the control.
* `net_sgx`: an earlier copy of the authenticators whose headers do not compile (its classes
  declare constructors of another name) and are included by no file. Its `shared.cpp`, which
  `CMakeLists.txt:23` links into the benchmark, is the framing of `cr` and `raft` line by line.
* Of the benchmark: `auth_tnic` and `ver_attestation`, which keep no state; several threads
  per process, which would create their `Rpc` with the same id; the loops that repeat an
  allocation; eRPC and the trusted service other than by what the
  sources rely on. A disk that fails for ever is out of the runs: the loop has no way out.
* Functions never called: `receiver`, `cleanup_log` and `iterate_log_and_commit` of
  `head.cpp` (their thread is commented out; the loops equal the leader's),
  `create_receiver_connection` of `leader.cpp`, `recv_ack`, `sent_init_connection_request`.
* Time: the sleep of a second between attempts, and `synthetic_delay_in_s`
  (0 in `config.h`).

## 6. Findings

`raft/leader.cpp:144-156`: the receiver of the leader tests `bytecount` after it has
verified the buffer. When a follower is lost, the branch with "TODO: do some
error handling here" that prints the error and ends just this thread is not
reached; the leader reads a null pointer and dies. `receiver_finale` in
`cr/head.cpp` has the test first. Run `raft_receive_error` shows the case: all
requests are written, a follower is killed, and the leader dies although it
has nothing left that could fail.

`network-unused/authenticators/apis.h:50` and `:112`: `log_attestation` repeats
`write()` until `size` bytes were taken, but never advances `data`. After a write that
takes a part, the log holds the beginning of the attestation twice and never its end, in
the mode that `main.cc:17` calls "SGX w/ persistency". `secure_send` has the same loop with
`tmp += bytes`. Run `attestation_log` shows it with no fault at all, only a short
write; the number of bytes is right, which is what `DurableBeforeUse` can promise.

`network-unused/authenticators/apis.h:39` and `:92`: `open_file` opens the log with `O_TRUNC`, and nothing ever reads it,
so that every start of the program empties it; the ROTE counter (`apis.h:100`) is a variable of the process and
starts at 0 again. `main.cc:17-18` and the benchmark's `README.md:11-12` call these modes "SGX w/ persistency" and
"SGX w/ rollback". Run `attestation_restart` shows an attestation that was logged, flushed and used, a kill and a restart, after which the
log does not have it. `DurableBeforeUse` therefore ends at the next start: log and counter protect one run of the
program only.

Other things met while modelling that contradict no document: the tail may be
refused by the head at start-up (`tail.cpp:240`), and the head then waits for
ever; after a kill, each process takes its neighbours with it; a head that lost the
tail still returns 0 (`head.cpp:141`). In the benchmark: the receiver may leave before its last answer has
arrived, and the sender then polls for ever (`main.cc:212`, `:177`); sessions are looked up
under a key that was never inserted (`main.cc:128`), which works for the first session;
a failed `fsync()` goes unnoticed (`apis.h:119`).

## 7. Plan

Done: both protocols, the log, set-up, framing, the benchmark and its attestations, with a
theorem for every safety property, absence of deadlock in both protocols and in set-up, and in
both protocols a measure of what is left to do, so that only weak fairness is left to TLC there. What
could follow:

1. The same measure for set-up (with `NoCircularWait`), for the framing and for `get_attestation`.
2. Absence of circular waits in the framing and within `get_attestation`.
3. A composition in which a process starts its threads out of set-up while others still connect.
