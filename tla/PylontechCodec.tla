--------------------------- MODULE PylontechCodec ----------------------------
(***************************************************************************)
(* The framing of pylontech.cpp, for both ends of a line: the Inverter's   *)
(* requests and the answers to PylontechMasterProtocol.                    *)
(*                                                                         *)
(* The bytes between SOI and EOI with a right checksum are one symbol, the *)
(* body they decode to; any other bytes are Other.                         *)
(***************************************************************************)
EXTENDS Integers, SequencesExt

CONSTANTS
    Bodies,         \* what an intact frame can decode to
    SOI, EOI,       \* 0x7E and 0x0D
    Other,
    kMaxFrameLen    \* in symbols

Symbols == Bodies \cup {SOI, EOI, Other}

IsBody(body) == Len(body) = 1 /\ body[1] \in Bodies

\* Faulty variant of try_parse_pylontech: a broken frame loses its SOI only.
try_parse_from_next(buf) ==
    LET soi == SelectInSeq(buf, LAMBDA s : s = SOI)
        eoi == SelectInSeq(buf, LAMBDA s : s = EOI)
    IN  CASE soi = 0 -> -Len(buf)
          [] soi > 1 -> -(soi - 1)
          [] soi = 1 /\ eoi = 0 -> IF Len(buf) > kMaxFrameLen THEN -1 ELSE 0
          [] OTHER   -> IF IsBody(SubSeq(buf, 2, eoi - 1)) THEN eoi ELSE -1

\* Faulty variant of try_parse_pylontech: a frame may be of any length.
try_parse_unbounded(buf) ==
    LET soi == SelectInSeq(buf, LAMBDA s : s = SOI)
        eoi == SelectInSeq(buf, LAMBDA s : s = EOI)
    IN  CASE soi = 0 -> -Len(buf)
          [] soi > 1 -> -(soi - 1)
          [] soi = 1 /\ eoi = 0 -> 0
          [] OTHER   -> IF IsBody(SubSeq(buf, 2, eoi - 1)) THEN eoi ELSE -eoi

\* How many symbols a frame took, 0 if it is not complete, or minus the number
\* of symbols to discard.
try_parse_pylontech(buf) ==
    LET soi == SelectInSeq(buf, LAMBDA s : s = SOI)
        eoi == SelectInSeq(buf, LAMBDA s : s = EOI)
    IN  CASE soi = 0 -> -Len(buf)
          [] soi > 1 -> -(soi - 1)
          [] soi = 1 /\ eoi = 0 -> IF Len(buf) > kMaxFrameLen THEN -1 ELSE 0
          [] OTHER   -> IF IsBody(SubSeq(buf, 2, eoi - 1)) THEN eoi ELSE -eoi

\* The loop around it, the same in both users: what is left of the buffer and
\* the bodies of the frames in it.
TakeFrames[buf \in Seq(Symbols)] ==
    LET n == try_parse_pylontech(buf)
    IN  CASE buf = <<>> \/ n = 0 -> [rest |-> buf, bodies |-> <<>>]
          [] n < 0 -> TakeFrames[SubSeq(buf, 1 - n, Len(buf))]
          [] OTHER -> LET tail == TakeFrames[SubSeq(buf, n + 1, Len(buf))]
                      IN  [tail EXCEPT !.bodies = <<buf[2]>> \o @]

\* build_pylontech(): a body on the wire.
build_pylontech(body) == <<SOI, body, EOI>>

build_analog_request(adr)       == [adr |-> adr, cid2 |-> "analog"]
build_system_param_request(adr) == [adr |-> adr, cid2 |-> "system_param"]

\* ok_response(): the CID2 of an answer is the return code, 0x00.
ok_response(req) == [adr |-> req.adr, cid2 |-> "ok"]
=============================================================================
