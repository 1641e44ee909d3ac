--------------------------- MODULE PylontechMaster ---------------------------
(***************************************************************************)
(* PylontechMasterProtocol (pylontech_master.cpp): polls a battery over a  *)
(* UART.  Its state is [rx, cells]: rx_ and last_cell_count_.  The INFO of *)
(* an answer is the number of cells it reports, or None if deserialize()   *)
(* finds it too short.                                                     *)
(***************************************************************************)
EXTENDS Integers, SequencesExt

CONSTANTS
    wire_adr_,          \* the address of the battery
    Infos,              \* what batteries report, None included
    SOI, EOI, Other, None,
    kMaxFrameLen

Answers ==
    [adr : 1..18, cid2 : {"analog", "system_param", "ok"},
     info : Infos]

INSTANCE PylontechCodec WITH Bodies <- Answers

NewMaster == [rx |-> <<>>, cells |-> 0]

poll_request     == build_analog_request(wire_adr_)
settings_request == build_system_param_request(wire_adr_)

pyl_reset(p) == [p EXCEPT !.rx = <<>>]

\* Faulty variant of Dispatch: answers of other modules are taken too.
DispatchAny(m, f) ==
    CASE f.info # None /\ f.cid2 = "analog" ->
            [m EXCEPT !.proto.cells = f.info, !.telemetry = f.info]
      [] f.info # None /\ f.cid2 = "system_param" ->
            [m EXCEPT !.settings = m.proto.cells]
      [] OTHER -> m

\* One frame of feed(): telemetry also tells the number of cells, which the
\* settings are completed with.
Dispatch(m, f) ==
    LET taken == f.adr = wire_adr_ /\ f.info # None
    IN  CASE taken /\ f.cid2 = "analog" ->
                [m EXCEPT !.proto.cells = f.info, !.telemetry = f.info]
          [] taken /\ f.cid2 = "system_param" ->
                [m EXCEPT !.settings = m.proto.cells]
          [] OTHER -> m

pyl_feed(p, data) ==
    LET taken == TakeFrames[p.rx \o data]
    IN  FoldLeft(Dispatch,
                 [proto |-> [p EXCEPT !.rx = taken.rest],
                  telemetry |-> None, settings |-> None],
                 taken.bodies)
=============================================================================
