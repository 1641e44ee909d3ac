----------------------------- MODULE BatteryLink -----------------------------
(***************************************************************************)
(* A monitored battery as Battery::start() wires it: a transport, BmsHandler *)
(* and one of the two protocols, JkProtocol on Bluetooth or                *)
(* PylontechMasterProtocol on a UART, down to the SharedState.  All of it  *)
(* runs on the dispatcher thread, so a callback is one step.               *)
(*                                                                         *)
(* BmsEvents has the threads between the radio and the handler and takes a *)
(* frame as a number of notifications; here a notification is any number   *)
(* of bytes and what the drivers make of them is spelled out.              *)
(***************************************************************************)
EXTENDS JkProtocol

CONSTANTS
    Infos, SOI, EOI, Other, kMaxFrameLen,               \* see PylontechMaster
    pylontech_address,  \* of the configuration, as set on the battery
    Links,          \* of the battery: "bluetooth", "ttl"
    Replies,        \* CID2 of a Pylontech answer: "cid2" of the request, "rtn"
    Cells,          \* cells of the Pylontech battery
    Types, Values,  \* of JK frames
    Noise,          \* bytes between JK frames
    MaxChunk,       \* bytes of a notification or read
    MaxWire,        \* bound: nothing new is sent while so much is under way
    MaxFaults       \* bound: disturbances of the serial line

ASSUME LinkAssumption  == Links \subseteq {"bluetooth", "ttl"}
ASSUME ReplyAssumption == Replies \subseteq {"cid2", "rtn"}
ASSUME ChunkAssumption ==       \* so that one chunk completes one frame at most
    MaxChunk \in 1..kJkResponseSize
ASSUME BoundAssumption ==
    /\ Cells \in Nat \ {0} /\ pylontech_address \in 1..16
    /\ kMaxFrameLen \in Nat /\ MaxWire \in Nat /\ MaxFaults \in Nat
ASSUME InfoAssumption ==        \* what the batteries on the line report
    {None, Cells, Cells + 1} \subseteq Infos /\ None \notin Nat
ASSUME ByteAssumption ==
    Types \subseteq 0..255 /\ Values \subseteq 0..255 /\ Noise \subseteq 0..255

VARIABLES
    link,       \* BatteryConfig::link
    reply,      \* how this Pylontech battery answers
    asked,      \* requests it has received and not answered
    wire,       \* what is on its way to the bridge; a JK byte with its place
                \* in its frame, 0 for noise
    proto,      \* the state of protocol_
    shared,     \* SharedState: [connected, pack, settings]
    due,        \* state_update_interval_ has passed since the last update
    faults,     \* disturbances so far
    trace       \* of the JK bytes that arrived: [run, clean, stray, missed]

\* Faulty variant of wire_adr: the address as it is configured.
wire_adr_configured == pylontech_address

wire_adr == pylontech_address + 1

INSTANCE PylontechMaster WITH wire_adr_ <- wire_adr

ASSUME SymbolAssumption == {SOI, EOI, Other} \cap Answers = {}

vars == <<link, reply, asked, wire, proto, shared, due, faults, trace>>

-----------------------------------------------------------------------------
(* The battery and the line *)

JkFrame(type, value) ==
    LET body == kJkResponseMagic \o <<type>>
                    \o [i \in 1..(kJkResponseSize - 6) |-> value]
        all  == Append(body, jk_crc8(body))
    IN  [i \in DOMAIN all |-> [byte |-> all[i], place |-> i]]

JkFrames ==
    {JkFrame(t, v) : t \in Types, v \in Values}

\* The frames that are on the wire, and noise between them.
JkSends ==
    /\ link = "bluetooth" /\ shared.connected
    /\ Len(wire) <= MaxWire
    /\ \E item \in JkFrames \cup {<<[byte |-> b, place |-> 0]>> : b \in Noise} :
            wire' = wire \o item
    /\ UNCHANGED <<link, reply, asked, proto, shared, due, faults, trace>>

Unseen == [run |-> 0, clean |-> FALSE, stray |-> FALSE, missed |-> 0]

Disturb == faults < MaxFaults /\ faults' = faults + 1

\* "The wire ADR is this + 1" (config.hpp), see tests/pylontech_test.cpp.
BatteryAdr == pylontech_address + 1

\* The answer of the battery: its CID2 is the request's, or the return code like
\* in the repository's own responders.
Body(req, info) ==
    [adr  |-> req.adr,
     cid2 |-> IF reply = "rtn" THEN ok_response(req).cid2 ELSE req.cid2,
     info |-> info]

PylAnswers ==
    /\ asked # <<>> /\ wire = <<>>
    /\ asked' = Tail(asked)
    /\ \/ /\ wire' = build_pylontech(Body(Head(asked), Cells))
          /\ UNCHANGED faults
       \/ /\ wire' = build_pylontech(Body(Head(asked), None))
          /\ Disturb
    /\ UNCHANGED <<link, reply, proto, shared, due, trace>>

\* Something else on the serial line: noise, or the answer of another module.
PylNoise ==
    /\ link = "ttl" /\ shared.connected /\ wire = <<>>
    /\ Disturb
    /\ wire' \in {<<SOI>>, <<EOI>>, <<Other>>}
                   \cup {build_pylontech([adr |-> BatteryAdr + 1, cid2 |-> kind,
                                          info |-> Cells + 1]) :
                            kind \in {"analog", "system_param"}}
    /\ UNCHANGED <<link, reply, asked, proto, shared, due, trace>>

\* Bytes that do not arrive.
LoseBytes ==
    /\ \E k \in 1..Min({MaxChunk, Len(wire)}) : wire' = SubSeq(wire, k + 1, Len(wire))
    /\ IF link = "ttl" THEN Disturb ELSE UNCHANGED faults
    /\ trace' = Unseen
    /\ UNCHANGED <<link, reply, asked, proto, shared, due>>

-----------------------------------------------------------------------------
(* BmsHandler *)

\* A battery takes the requests to its own address, one of a kind at a time; None
\* is one that the line has lost.
Queue(q, r) ==
    IF r # None /\ r.adr = BatteryAdr /\ r \notin Range(q) THEN Append(q, r) ELSE q

\* send(): the requests reach the line, or it loses some.  What a JK BMS makes of
\* them is part of BmsEvents; here it sends what it likes.
Send(requests) ==
    \/ link = "bluetooth" /\ UNCHANGED <<asked, faults>>
    \/ link = "ttl" /\ asked' = FoldLeft(Queue, asked, requests) /\ UNCHANGED faults
    \/ link = "ttl" /\ Disturb
         /\ \E lost \in SUBSET DOMAIN requests :
                asked' = FoldLeft(Queue, asked,
                            [i \in DOMAIN requests |->
                                IF i \in lost THEN None ELSE requests[i]])

Reset(p) == IF link = "ttl" THEN pyl_reset(p) ELSE NewAssembler

on_connected ==
    /\ ~shared.connected
    /\ shared' = [shared EXCEPT !.connected = TRUE]
    /\ proto' = Reset(proto)
    /\ Send(<<settings_request, poll_request>>)
    /\ UNCHANGED <<link, reply, wire, due, trace>>

\* What was on the line is gone, serial_open() flushes it.
on_disconnected ==
    /\ shared.connected
    /\ shared' = [shared EXCEPT !.connected = FALSE]
    /\ proto' = Reset(proto)
    /\ wire' = <<>>
    /\ asked' = <<>>
    /\ trace' = Unseen
    /\ UNCHANGED <<link, reply, due, faults>>

on_poll_tick ==
    /\ shared.connected
    /\ Send(<<poll_request>>)
    /\ UNCHANGED <<link, reply, wire, proto, shared, due, trace>>

\* Faulty variant of on_settings_tick: the settings are asked for at connect only.
on_settings_tick_never == FALSE /\ UNCHANGED vars

on_settings_tick ==
    /\ shared.connected
    /\ Send(<<settings_request>>)
    /\ UNCHANGED <<link, reply, wire, proto, shared, due, trace>>

\* What a JK byte adds to the trace: `run' counts the bytes of a frame that
\* arrived without a gap, `clean' says that no 0x55 came directly before it,
\* `missed' counts such frames since the last one that was handed on.
Seen(t, e) ==
    LET run   == IF e.place = 1 \/ (e.place > 1 /\ t.run + 1 = e.place)
                   THEN e.place ELSE 0
        clean == IF e.place = 1 THEN ~t.stray ELSE t.clean
    IN  [run    |-> run,
         clean  |-> clean,
         stray  |-> e.byte = kJkResponseMagic[1],
         missed |-> IF run = kJkResponseSize /\ clean THEN t.missed + 1 ELSE t.missed]

\* on_bytes(): at most one telemetry and one settings come out of a chunk;
\* on_telemetry() puts the former into the shared state if it is time to.
on_bytes ==
    /\ \E k \in 1..Min({MaxChunk, Len(wire)}) :
           LET chunk  == SubSeq(wire, 1, k)
               bytes  == [i \in 1..k |-> chunk[i].byte]
               parsed == IF link = "ttl" THEN pyl_feed(proto, chunk)
                                         ELSE jk_feed(proto, bytes)
               update == parsed.telemetry # None /\ due
           IN  /\ wire' = SubSeq(wire, k + 1, Len(wire))
               /\ proto' = parsed.proto
               /\ due' = (due /\ ~update)
               /\ shared' = [shared EXCEPT
                      !.pack = IF update THEN parsed.telemetry ELSE @,
                      !.settings = IF parsed.settings # None
                                     THEN parsed.settings ELSE @]
               /\ trace' = IF link = "ttl" THEN trace
                           ELSE LET t == FoldLeft(Seen, trace, chunk)
                                IN  IF push_chunk(proto, bytes).ready = <<>> THEN t
                                    ELSE [t EXCEPT !.missed = 0]
    /\ UNCHANGED <<link, reply, asked, faults>>

Tick ==
    /\ ~due
    /\ due' = TRUE
    /\ UNCHANGED <<link, reply, asked, wire, proto, shared, faults, trace>>

-----------------------------------------------------------------------------

\* Battery::start(): the link decides about transport and protocol.
Init ==
    /\ link \in Links
    /\ reply \in Replies
    /\ asked = <<>>
    /\ wire = <<>>
    /\ proto = IF link = "ttl" THEN NewMaster ELSE NewAssembler
    /\ shared = [connected |-> FALSE, pack |-> None, settings |-> None]
    /\ due = TRUE
    /\ faults = 0
    /\ trace = Unseen

Next ==
    \/ JkSends \/ PylAnswers \/ PylNoise \/ LoseBytes
    \/ on_connected \/ on_disconnected \/ on_poll_tick \/ on_settings_tick
    \/ on_bytes \/ Tick

Spec == Init /\ [][Next]_vars

\* The dispatcher serves its timers and the port, the battery answers, and time
\* passes.  Nothing makes a transport connect or stay connected.  The properties
\* that need fairness are about the serial line, where the bridge asks.
FairSpec ==
    /\ Spec
    /\ WF_vars(link = "ttl" /\ on_bytes)
    /\ WF_vars(PylAnswers)
    /\ WF_vars(link = "ttl" /\ on_poll_tick)
    /\ WF_vars(link = "ttl" /\ on_settings_tick)
    /\ WF_vars(link = "ttl" /\ Tick)

-----------------------------------------------------------------------------
(* Properties *)

\* Every variable has its type.  Between two chunks a driver holds the start of
\* at most one frame, however much noise without an end has come in.
TypeOK ==
    /\ asked \in Seq({settings_request, poll_request})
    /\ shared \in [connected : BOOLEAN, pack : Infos \cup 0..255,
                    settings : Infos \cup 0..255]
    /\ due \in BOOLEAN
    /\ faults \in 0..MaxFaults
    /\ link = "ttl" =>
          /\ proto.rx \in Seq(Symbols) /\ Len(proto.rx) <= kMaxFrameLen
          /\ proto.rx # <<>> => proto.rx[1] = SOI /\ EOI \notin Range(proto.rx)
    /\ link = "bluetooth" =>
          /\ proto.ready = <<>> /\ Len(proto.buf) < kJkResponseSize
          /\ IsPrefix(SubSeq(proto.buf, 1, Min({4, Len(proto.buf)})), kJkResponseMagic)

\* After bytes were lost the assembler finds its way back: of the frames that
\* arrive whole, and not directly after a 0x55, it never misses two in a row.
JkRecovers == trace.missed <= 1

\* A cell count once known stays in the settings, whatever else is on the line and
\* however often the port is reopened: the module voltage limits the inverter is
\* told are multiples of it (pylontech.cpp, module_voltage_from_cell()).
CellCountStays ==
    [][ link = "ttl" /\ shared.settings = Cells => shared'.settings = Cells ]_vars

\* A Pylontech battery that answers and stays connected puts telemetry into the
\* shared state again and again ("bridge polls a ttl/pylontech battery over
\* UART", debian/changelog).
TelemetryArrives ==
    (link = "ttl" /\ shared.connected) ~> (~due \/ ~shared.connected)

\* The settings of the first request come before the first telemetry and lack the
\* cell count; the periodic request mends that.
CellCountArrives ==
    (link = "ttl" /\ shared.connected)
        ~> (shared.settings = Cells \/ ~shared.connected)
=============================================================================
