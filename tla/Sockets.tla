------------------------------ MODULE Sockets ------------------------------
(***************************************************************************)
(* The message links of net/shared.{h,cpp} as the protocol code sees them. *)
(* Every TCP connection of the two protocols carries messages one way, has *)
(* one writing thread and one reading thread, and is closed only when the  *)
(* process that owns the socket ends: no code calls close().  A link is    *)
(* therefore the FIFO of the messages written and not yet read, and the    *)
(* state of its two ends follows from the status of the two processes.     *)
(*                                                                         *)
(* The byte stream, the 4-byte length field and the HMAC are below this    *)
(* level: secure_recv returns whole messages, and the callers use the      *)
(* payload whether or not verify_attested_msg accepted it.                 *)
(***************************************************************************)
EXTENDS Integers, Sequences

CONSTANT Cap        \* messages the two kernel buffers of a link hold

VARIABLES
  chan,             \* [link -> sequence of messages written and not yet read]
  status            \* [process -> Status]

(* "up": running; "done": main returned 0; "dead": exit(1) or a signal. *)
Status == {"up", "done", "dead"}

Up(p) == status[p] = "up"

End(p, how) == status' = [status EXCEPT ![p] = how]

(***************************************************************************)
(* sent_request and secure_send: the sockets written to are blocking, so   *)
(* send() waits for room in the buffers.                                   *)
(***************************************************************************)
Send(l, m) ==
  /\ Len(chan[l]) < Cap
  /\ chan' = [chan EXCEPT ![l] = Append(@, m)]

(***************************************************************************)
(* Writing to a peer that has ended raises SIGPIPE or returns -1, on which *)
(* sent_request calls exit(1): either way the writing process ends.  Until *)
(* the reset has come back a send may still succeed (Send above), and the  *)
(* message is then never read.                                             *)
(***************************************************************************)
SendFails(self, peer) ==
  /\ ~ Up(peer)
  /\ End(self, "dead")

Arrived(l) == Head(chan[l])

(***************************************************************************)
(* secure_recv: read_n polls recv() until a whole message is in, and so    *)
(* does not return while the link is empty and its writer is up.           *)
(***************************************************************************)
Receive(l) ==
  /\ chan[l] # << >>
  /\ chan' = [chan EXCEPT ![l] = Tail(@)]

\* A mistaken version of EndOfStream: the end of the writer is noticed before
\* what it wrote has been read.
EndOfStreamEarly(l, writer) == ~ Up(writer)

(***************************************************************************)
(* secure_recv returns {0, nullptr}: recv() returned 0 for max_retries     *)
(* calls, which it does once the writer has ended and all it wrote has     *)
(* been read.                                                              *)
(***************************************************************************)
EndOfStream(l, writer) == chan[l] = << >> /\ ~ Up(writer)
=============================================================================
