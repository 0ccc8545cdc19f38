---------------------------- MODULE FramedStream ----------------------------
(***************************************************************************)
(* secure_send and secure_recv over a TCP byte stream (net/shared.h and    *)
(* net/shared.cpp, the same in cr/ and raft/).  A message travels as a     *)
(* 4-byte length field and its payload; send() takes and recv() returns    *)
(* any number of bytes, and each such call is one step.                    *)
(*                                                                         *)
(* A byte has Byte values instead of 256, half of which are negative as a  *)
(* char: the length field then has few values, and its sign bit is used.   *)
(***************************************************************************)
EXTENDS Integers, Sequences

CONSTANTS
  Byte,             \* values of a byte, even
  Messages,         \* the payloads the writer sends, in order
  BufferSize,       \* bytes the two kernel buffers hold
  MaxRetries        \* max_retries of read_n

LengthSizeField == 4
UInt32 == Byte * Byte * Byte * Byte

ASSUME ConstantsAssumption ==
  /\ Byte \in Nat \ {0} /\ Byte % 2 = 0
  /\ BufferSize \in Nat \ {0}
  /\ MaxRetries \in Nat \ {0}
  /\ Messages \in Seq(Seq(0 .. Byte - 1) \ {<< >>})
  /\ \A i \in DOMAIN Messages : Len(Messages[i]) < UInt32

VARIABLES
  status,           \* [writer and reader -> status], as in Sockets
  sent,             \* messages whose secure_send has returned
  rest,             \* bytes of the message being sent that send() has not taken
  stream,           \* bytes sent and not yet received
  reading,          \* the read_n that secure_recv is in: "length" or "payload"
  buf, want,        \* the bytes it has, and how many it was asked for
  retries,          \* its count of recv() calls that returned 0 in a row
  received          \* payloads secure_recv returned

writerVars == <<sent, rest>>
readerVars == <<reading, buf, want, retries, received>>
vars == <<status, stream, writerVars, readerVars>>

Bytes == 0 .. Byte - 1

TypeOK ==
  /\ status \in [{"writer", "reader"} -> {"up", "done", "dead"}]
  /\ sent \in 0 .. Len(Messages)
  /\ rest \in Seq(Bytes) /\ stream \in Seq(Bytes) /\ buf \in Seq(Bytes)
  /\ Len(stream) <= BufferSize
  /\ reading \in {"length", "payload"}
  /\ want \in 0 .. UInt32 - 1 /\ Len(buf) < want
  /\ retries \in 0 .. MaxRetries
  /\ received \in Seq(Seq(Bytes))

-----------------------------------------------------------------------------
(***************************************************************************)
(* The length field, most significant byte first.  Reading it back, b[0]   *)
(* is shifted as the negative char it may be, the other bytes are masked.  *)
(***************************************************************************)
IntToBytes(n) ==
  <<(n \div (Byte * Byte * Byte)) % Byte, (n \div (Byte * Byte)) % Byte, (n \div Byte) % Byte, n % Byte>>

AsChar(b) == IF b < Byte \div 2 THEN b ELSE b - Byte

\* A mistaken version of BytesToInt: no byte is masked.
BytesToIntUnmasked(b) ==
  (((AsChar(b[1]) * Byte + AsChar(b[2])) * Byte + AsChar(b[3])) * Byte + AsChar(b[4])) % UInt32

BytesToInt(b) ==
  (((AsChar(b[1]) * Byte + b[2]) * Byte + b[3]) * Byte + b[4]) % UInt32

Frame(payload) == IntToBytes(Len(payload)) \o payload

First(s, n) == SubSeq(s, 1, n)
Rest(s, n) == SubSeq(s, n + 1, Len(s))

Up(p) == status[p] = "up"

Init ==
  /\ status = [p \in {"writer", "reader"} |-> "up"]
  /\ sent = 0 /\ rest = << >> /\ stream = << >>
  /\ reading = "length" /\ buf = << >> /\ want = LengthSizeField /\ retries = 0
  /\ received = << >>

-----------------------------------------------------------------------------
(***************************************************************************)
(* Mistaken versions of the actions below.                                 *)
(***************************************************************************)
\* secure_send does not repeat a send() that took only a part.
SendDropsRest(n) ==
  /\ Up("writer") /\ rest # << >>
  /\ n <= Len(rest) /\ Len(stream) + n <= BufferSize
  /\ stream' = stream \o First(rest, n)
  /\ rest' = << >>
  /\ sent' = sent + 1
  /\ UNCHANGED <<status, readerVars>>

\* A message that is cut short is returned as it is.
GiveUpWithPart ==
  /\ Up("reader") /\ retries = MaxRetries
  /\ received' = IF buf = << >> THEN received ELSE Append(received, buf)
  /\ status' = [status EXCEPT !["reader"] = "done"]
  /\ UNCHANGED <<stream, writerVars, reading, buf, want, retries>>

\* read_n waits for a closed stream as for an empty one.
RecvZeroIgnored ==
  /\ Up("reader") /\ stream = << >> /\ ~ Up("writer")
  /\ UNCHANGED vars

-----------------------------------------------------------------------------
\* construct_message, and the call of secure_send.
StartSend ==
  /\ Up("writer") /\ rest = << >> /\ sent < Len(Messages)
  /\ rest' = Frame(Messages[sent + 1])
  /\ UNCHANGED <<status, stream, sent, readerVars>>

\* One send() of secure_send takes n bytes; the last one makes it return.
SendBytes(n) ==
  /\ Up("writer") /\ rest # << >>
  /\ n <= Len(rest) /\ Len(stream) + n <= BufferSize
  /\ stream' = stream \o First(rest, n)
  /\ rest' = Rest(rest, n)
  /\ sent' = IF rest' = << >> THEN sent + 1 ELSE sent
  /\ UNCHANGED <<status, readerVars>>

\* send() fails: sent_request calls exit(1).
SendFails ==
  /\ Up("writer") /\ rest # << >> /\ ~ Up("reader")
  /\ status' = [status EXCEPT !["writer"] = "dead"]
  /\ UNCHANGED <<stream, writerVars, readerVars>>

WriterReturns ==
  /\ Up("writer") /\ sent = Len(Messages)
  /\ status' = [status EXCEPT !["writer"] = "done"]
  /\ UNCHANGED <<stream, writerVars, readerVars>>

-----------------------------------------------------------------------------
\* What secure_recv does with n more bytes, when they complete a read_n.
Completed(all) ==
  IF reading = "length"
  THEN reading' = "payload" /\ want' = BytesToInt(all) /\ UNCHANGED received
  ELSE reading' = "length" /\ want' = LengthSizeField /\ received' = Append(received, all)

\* One recv() of read_n returns n > 0 bytes.
RecvBytes(n) ==
  /\ Up("reader")
  /\ n <= want - Len(buf) /\ n <= Len(stream)
  /\ LET all == buf \o First(stream, n)
     IN  IF Len(all) < want
         THEN buf' = all /\ UNCHANGED <<reading, want, received>>
         ELSE buf' = << >> /\ Completed(all)
  /\ stream' = Rest(stream, n)
  /\ retries' = 0
  /\ UNCHANGED <<status, writerVars>>

\* recv() returns 0: the writer has ended and the stream is used up.
RecvZero ==
  /\ Up("reader") /\ stream = << >> /\ ~ Up("writer")
  /\ retries < MaxRetries
  /\ retries' = retries + 1
  /\ UNCHANGED <<status, stream, writerVars, reading, buf, want, received>>

\* ... once more: secure_recv returns {0, nullptr}, and what read_n had got
\* of a message is lost.  No receiver reads again.
GiveUp ==
  /\ Up("reader") /\ retries = MaxRetries
  /\ status' = [status EXCEPT !["reader"] = "done"]
  /\ UNCHANGED <<stream, writerVars, readerVars>>

Kill(p) ==
  /\ Up(p)
  /\ status' = [status EXCEPT ![p] = "dead"]
  /\ UNCHANGED <<stream, writerVars, readerVars>>

Ended == (\A p \in DOMAIN status : ~ Up(p)) /\ UNCHANGED vars

Writer == StartSend \/ (\E n \in 1 .. BufferSize : SendBytes(n)) \/ SendFails \/ WriterReturns
Reader == (\E n \in 1 .. BufferSize : RecvBytes(n)) \/ RecvZero \/ GiveUp

Next == Writer \/ Reader \/ (\E p \in DOMAIN status : Kill(p)) \/ Ended

Spec == Init /\ [][Next]_vars /\ WF_vars(Writer) /\ WF_vars(Reader)

-----------------------------------------------------------------------------
(***************************************************************************)
(* However the bytes are cut up, the reader and the writer agree on where  *)
(* messages begin: the frames returned, what was read and not returned,    *)
(* what is on the way and what is still to be sent are, put together, the  *)
(* frames of the messages sent.                                            *)
(***************************************************************************)
Frames[n \in 0 .. Len(Messages)] ==
  IF n = 0 THEN << >> ELSE Frames[n - 1] \o Frame(Messages[n])

Buffered ==
  IF reading = "length" THEN buf ELSE IntToBytes(want) \o buf

InStep ==
  Frames[Len(received)] \o Buffered \o stream \o rest
    = Frames[IF rest = << >> THEN sent ELSE sent + 1]

\* Every payload returned is one that was sent, whole, in order and once, also
\* when the writer was killed within a message (shared.cpp:59).
WholeMessages ==
  /\ Len(received) <= sent
  /\ received = SubSeq(Messages, 1, Len(received))

(***************************************************************************)
(* The frames implement the message link that the protocol models use.  A  *)
(* message is on the link from the send() that took its last byte to the   *)
(* recv() that returned its last byte; the buffers and the reader hold at  *)
(* most one more than the frames of one byte that fit into the buffers.    *)
(***************************************************************************)
L == INSTANCE MessageLink WITH
       Cap <- BufferSize \div (LengthSizeField + 1) + 1,
       chan <- [l \in {"link"} |-> SubSeq(Messages, Len(received) + 1, sent)]

ImplementsMessageLink == L!Spec

(***************************************************************************)
(* Both ends come to an end, however the bytes are cut up and wherever one *)
(* of them is killed: nobody waits for bytes that nobody will send, or for *)
(* room that nobody will make (shared.cpp:18, shared.cpp:90).  As a reader *)
(* ends only after the last message (ReaderEof of MessageLink), each       *)
(* message sent is returned, unless the reader is killed.                  *)
(***************************************************************************)
TransferEnds == <>(\A p \in DOMAIN status : ~ Up(p))
=============================================================================
