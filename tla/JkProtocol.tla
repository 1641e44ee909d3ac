----------------------------- MODULE JkProtocol ------------------------------
(***************************************************************************)
(* JkFrameAssembler and JkProtocol::feed() (jk_protocol.cpp and            *)
(* jk_protocol_driver.cpp), byte by byte.  A frame is the magic, its type, *)
(* the values and a checksum; it is shorter than the code's 300 bytes, and *)
(* the values are one byte, which the parsers hand on as it is.            *)
(***************************************************************************)
EXTENDS Integers, SequencesExt

CONSTANTS
    kJkResponseSize,
    None            \* an empty optional

ASSUME JkSizeAssumption == kJkResponseSize \in Nat /\ kJkResponseSize >= 7

kJkResponseMagic     == <<85, 170, 235, 144>>     \* 0x55 0xAA 0xEB 0x90
kJkFrameTypeSettings == 1
kJkFrameTypeCellInfo == 2

jk_crc8(bytes) == FoldLeft(LAMBDA s, b : s + b, 0, bytes) % 256

NewAssembler == [buf |-> <<>>, ready |-> <<>>]

\* Faulty variant of push_byte: a frame with a wrong checksum stays in buf_.
push_byte_keeping(a, b) ==
    LET buf == Append(a.buf, b)
        n   == Len(buf)
    IN  CASE a.buf = <<>> /\ b # kJkResponseMagic[1] -> a
          [] n <= 4 /\ b # kJkResponseMagic[n] -> [a EXCEPT !.buf = <<>>]
          [] n = kJkResponseSize /\ jk_crc8(Front(buf)) = b ->
                [buf |-> <<>>, ready |-> buf]
          [] OTHER -> [a EXCEPT !.buf = buf]

\* One byte of push_chunk(): align on the magic, collect a frame, check it.
push_byte(a, b) ==
    LET buf == Append(a.buf, b)
        n   == Len(buf)
    IN  CASE a.buf = <<>> /\ b # kJkResponseMagic[1] -> a
          [] n <= 4 /\ b # kJkResponseMagic[n] -> [a EXCEPT !.buf = <<>>]
          [] n = kJkResponseSize ->
                [buf   |-> <<>>,
                 ready |-> IF jk_crc8(Front(buf)) = b THEN buf ELSE a.ready]
          [] OTHER -> [a EXCEPT !.buf = buf]

push_chunk(a, data) == FoldLeft(push_byte, a, data)

\* The value of an optional frame if it has the given type.
Parsed(frame, type) ==
    IF frame # <<>> /\ frame[5] = type THEN frame[6] ELSE None

parse_cell_info(frame) == Parsed(frame, kJkFrameTypeCellInfo)
parse_settings(frame)  == Parsed(frame, kJkFrameTypeSettings)

\* JkProtocol::feed(): device information is only logged.
jk_feed(a, data) ==
    LET b == push_chunk(a, data)
    IN  [proto     |-> [b EXCEPT !.ready = <<>>],
         telemetry |-> parse_cell_info(b.ready),
         settings  |-> parse_settings(b.ready)]
=============================================================================
