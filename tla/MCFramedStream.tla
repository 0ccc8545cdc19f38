--------------------------- MODULE MCFramedStream ---------------------------
(***************************************************************************)
(* An instance of FramedStream: a byte is one bit, so that 9 is a length   *)
(* with the sign bit set, and 1, 2 and 9 differ in every byte they use.    *)
(***************************************************************************)
EXTENDS FramedStream

ShortAndLong == << <<1>>, <<1, 0, 0, 0, 1, 1, 0, 1, 1>>, <<0, 1>> >>
=============================================================================
