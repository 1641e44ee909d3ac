----------------------------- MODULE FrameStream -----------------------------
(***************************************************************************)
(* What a receiver of Pylontech frames promises, however the serial port   *)
(* cuts the stream into chunks: an intact frame is heard exactly once and  *)
(* in order, unless the line was already inside a broken frame, which the  *)
(* next EOI ends.  A receiver may give up a broken frame earlier; it never *)
(* gives up one that can still become intact.                              *)
(*                                                                         *)
(* The body of a request whose checksum is right is one symbol; any other  *)
(* bytes are Other.  `partial' is the shortest stream with the same future *)
(* as what has been received since the last EOI.                           *)
(***************************************************************************)
EXTENDS SequencesExt

CONSTANTS Requests, SOI, EOI, Other

VARIABLES
    chunk,      \* what was read in the last step, <<>> if nothing
    partial,
    heard       \* the requests heard in the last step

streamVars == <<chunk, partial, heard>>

Broken == <<SOI, Other>>

StreamInit == chunk = <<>> /\ partial = <<>> /\ heard = <<>>

\* One more symbol after the pair [in: a partial, out: the requests heard].
Hear(p, s) ==
    CASE s = EOI ->
            [in |-> <<>>,
             out |-> IF Len(p.in) = 2 /\ p.in # Broken
                       THEN Append(p.out, p.in[2]) ELSE p.out]
      [] p.in = <<>> -> [p EXCEPT !.in = IF s = SOI THEN <<SOI>> ELSE <<>>]
      [] OTHER -> [p EXCEPT !.in = IF p.in = <<SOI>> /\ s \in Requests
                                     THEN <<SOI, s>> ELSE Broken]

\* The new chunk is taken symbol by symbol; without one nothing is heard.
Take(start) ==
    LET end == FoldLeft(Hear, [in |-> start, out |-> <<>>], chunk')
    IN  partial' = end.in /\ heard' = end.out

StreamNext == Take(partial) \/ (partial = Broken /\ chunk' # <<>> /\ Take(<<>>))

StreamSpec == StreamInit /\ [][StreamNext]_streamVars
=============================================================================
