----------------------------- MODULE MessageLink -----------------------------
(***************************************************************************)
(* What secure_send and secure_recv promise together: a FIFO of whole      *)
(* messages, of which the protocol models use the operators of Sockets.    *)
(* One writer sends the messages of the sequence Messages over one link,   *)
(* either end may be killed, and the reader ends when it is told so.       *)
(***************************************************************************)
EXTENDS Integers, Sequences

CONSTANTS Messages, Cap

VARIABLES chan, status, sent, received

INSTANCE Sockets

vars == <<chan, status, sent, received>>

Init ==
  /\ chan = [l \in {"link"} |-> << >>]
  /\ status = [p \in {"writer", "reader"} |-> "up"]
  /\ sent = 0
  /\ received = << >>

WriterSends ==
  /\ Up("writer") /\ sent < Len(Messages)
  /\ Send("link", Messages[sent + 1])
  /\ sent' = sent + 1
  /\ UNCHANGED <<status, received>>

WriterFails ==
  /\ Up("writer") /\ sent < Len(Messages)
  /\ SendFails("writer", "reader")
  /\ UNCHANGED <<chan, sent, received>>

ReaderReceives ==
  /\ Up("reader")
  /\ Receive("link")
  /\ received' = Append(received, Arrived("link"))
  /\ UNCHANGED <<status, sent>>

ReaderEof ==
  /\ Up("reader")
  /\ EndOfStream("link", "writer")
  /\ End("reader", "done")
  /\ UNCHANGED <<chan, sent, received>>

\* The writer returns, or either end is killed.
WriterReturns ==
  /\ Up("writer") /\ sent = Len(Messages)
  /\ End("writer", "done")
  /\ UNCHANGED <<chan, sent, received>>

Kill(p) ==
  /\ Up(p)
  /\ End(p, "dead")
  /\ UNCHANGED <<chan, sent, received>>

Next ==
  \/ WriterSends \/ WriterFails \/ WriterReturns
  \/ ReaderReceives \/ ReaderEof
  \/ \E p \in {"writer", "reader"} : Kill(p)

Spec == Init /\ [][Next]_vars
=============================================================================
