------------------------------ MODULE Inverter -------------------------------
(***************************************************************************)
(* The Pylontech slave on the RS485 line: UartTransport, the receive buffer*)
(* and the answers of the Inverter, and the SharedState of the batteries   *)
(* they are made from.  All of it runs on the dispatcher thread, so a      *)
(* handler is one step.                                                    *)
(*                                                                         *)
(* Bytes are abstracted as in FrameStream: a body with the right checksum  *)
(* is one symbol, the request it decodes to.  Capacities, currents and     *)
(* their wire units keep their values and widths.                          *)
(***************************************************************************)
EXTENDS Integers, SequencesExt, FiniteSetsExt

CONSTANTS
    Config,         \* the batteries: [capacity (Ah), mirror (index, 0: none)]
    Requests,       \* the requests on the line: [adr, cid2]
    Packs,          \* what a BMS may report: [total, remaining, soc, current]
    Limits,         \* its settings: [charge, discharge], in mA
    SOI, EOI,       \* 0x7E and 0x0D
    Other,          \* bytes that are neither, nor an intact body
    None,           \* an empty optional
    kRxBufLimit,    \* in symbols; also kMaxFrameLen
    Chunks,         \* what a read may return
    FreshFor        \* the 5 s of is_fresh(), in ticks

ASSUME ConfigAssumption == Config \in Seq([capacity : Nat, mirror : Nat])
ASSUME MirrorAssumption ==      \* config.cpp: a mirror is a monitored battery
    \A b \in DOMAIN Config :
        Config[b].mirror # 0 => /\ Config[b].capacity > 0
                                /\ Config[b].mirror \in DOMAIN Config
                                /\ Config[Config[b].mirror].mirror = 0
ASSUME PackAssumption ==        \* what no code checks, but a BMS observes
    /\ Packs \subseteq [total : Nat, remaining : Nat, soc : 0..100, current : Int]
    /\ \A p \in Packs : p.remaining <= p.total
ASSUME WidthAssumption ==       \* mAh, and mAh times a percentage, fit 32 bits
    /\ \A b \in DOMAIN Config : Config[b].capacity <= 42949
    /\ \A p \in Packs : p.total <= 32767 * 65536
ASSUME FreshAssumption == FreshFor \in Nat
ASSUME BufferAssumption ==      \* a frame under way and a full read fit
    /\ kRxBufLimit \in Nat
    /\ \A c \in Chunks : c # <<>> /\ Len(c) + 2 <= kRxBufLimit

VARIABLES
    plugged,    \* the serial adapter is there
    port,       \* fd_ of the UartTransport: "open", "closed", or "dead", the
                \* descriptor of an adapter that was pulled out
    armed,      \* reopen_timer_
    rx,         \* rx_buf_
    chunk,      \* what was read in the last step, <<>> if nothing
    heard,      \* the requests taken from rx in the last step
    sent,       \* the responses to them: place in heard -> response
    state       \* the SharedState of each battery

portVars == <<plugged, port, armed>>
vars     == <<plugged, port, armed, rx, chunk, heard, sent, state>>

INSTANCE PylontechCodec WITH Bodies <- Requests, kMaxFrameLen <- kRxBufLimit

ASSUME SymbolAssumption ==
    /\ SOI # EOI /\ SOI # Other /\ EOI # Other
    /\ {SOI, EOI, Other} \cap Requests = {}
    /\ Chunks \subseteq Seq(Symbols)

Batteries == DOMAIN Config

-----------------------------------------------------------------------------
(* Fixed-width arithmetic *)

kCapU16Max == 65000

CeilDiv(x, y) == (x + y - 1) \div y

\* Division of C++, towards zero.
Quot(x, y) == IF x < 0 THEN -((-x) \div y) ELSE x \div y

clamp_i16(v) == Max({-32768, Min({32767, v})})

module_count_for_capacity(total) ==
    IF total <= kCapU16Max THEN 1 ELSE Min({CeilDiv(total, kCapU16Max), 255})

\* Faulty variant of scale_capacity_to_u16: only the total is scaled.
scale_total_to_u16(total, remain) ==
    LET scale == IF total <= kCapU16Max THEN 1 ELSE CeilDiv(total, kCapU16Max)
    IN  [total |-> (total \div scale) % 65536, remain |-> remain % 65536]

scale_capacity_to_u16(total, remain) ==
    LET scale == IF total <= kCapU16Max THEN 1 ELSE CeilDiv(total, kCapU16Max)
    IN  [total  |-> (total \div scale) % 65536,
         remain |-> (remain \div scale) % 65536]

-----------------------------------------------------------------------------
(* The address map *)

kBaseAddress == 2

Milli(b) == Config[b].capacity * 1000

\* build_address_map(): a block of slots for each battery, in their order.
slots ==
    FlattenSeq([b \in Batteries |->
        LET n == module_count_for_capacity(Milli(b))
        IN  [m \in 1..n |-> [battery |-> b, module_count |-> n]]])

IsOurs(adr) == adr >= kBaseAddress /\ adr - kBaseAddress < Len(slots)
Slot(adr)   == slots[adr - kBaseAddress + 1]

Source(b) == IF Config[b].mirror # 0 THEN Config[b].mirror ELSE b

-----------------------------------------------------------------------------
(* What a module reports *)

is_fresh(b) == state[b].connected /\ state[b].pack # None /\ state[b].age <= FreshFor

IsReady(b) == is_fresh(Source(b)) /\ state[Source(b)].settings # None

\* The pack and the limits of a battery; a reserve has its own capacity, filled
\* like its mirror, no current, and a limit of half its capacity.
Pack(b) ==
    LET p == state[Source(b)].pack
    IN  IF Config[b].mirror = 0 THEN p
        ELSE [p EXCEPT !.total = Milli(b),
                       !.remaining = (Milli(b) * p.soc) \div 100,
                       !.current = 0]

Lim(b) ==
    IF Config[b].mirror = 0 THEN state[b].settings
    ELSE LET half == (Milli(b) * 5) \div 10
         IN  [charge |-> half, discharge |-> half]

analog(slot) ==
    LET p   == Pack(slot.battery)
        n   == slot.module_count
        cap == scale_capacity_to_u16(p.total \div n, p.remaining \div n)
    IN  [total   |-> cap.total,
         remain  |-> cap.remain,
         current |-> clamp_i16(Quot(Quot(p.current, n), 100))]

\* Faulty variant of limits: the limits are those of the whole battery.
limits_undivided(slot) ==
    LET l == Lim(slot.battery)
    IN  [charge    |-> clamp_i16(l.charge \div 100),
         discharge |-> clamp_i16(-(l.discharge \div 100))]

limits(slot) ==
    LET l == Lim(slot.battery)
        n == slot.module_count
    IN  [charge    |-> clamp_i16((l.charge \div n) \div 100),
         discharge |-> clamp_i16(-((l.discharge \div n) \div 100))]

IsAnswered(r) ==
    /\ IsOurs(r.adr) /\ IsReady(Slot(r.adr).battery)
    /\ r.cid2 \in {"analog", "alarm", "system_param", "chgmgmt"}

Answer(r) ==
    [adr  |-> r.adr,
     info |-> CASE r.cid2 = "analog" -> analog(Slot(r.adr))
                [] r.cid2 = "alarm"  -> <<>>
                [] OTHER             -> limits(Slot(r.adr))]

-----------------------------------------------------------------------------
(* The receive buffer *)

\* process_buffer(): what is left of the buffer, and the requests in it.
process_buffer(buf) == TakeFrames[buf]

-----------------------------------------------------------------------------

NoTelemetry == [connected |-> FALSE, pack |-> None, settings |-> None, age |-> 0]

Init ==
    /\ plugged \in BOOLEAN
    /\ port = IF plugged THEN "open" ELSE "closed"
    /\ armed = ~plugged
    /\ rx = <<>>
    /\ chunk = <<>>
    /\ heard = <<>>
    /\ sent = <<>>
    /\ state = [b \in Batteries |-> NoTelemetry]

Quiet == chunk' = <<>> /\ heard' = <<>> /\ sent' = <<>>

\* on_bytes(): a read hands over a chunk, after a full buffer was dropped.
on_bytes ==
    /\ port = "open"
    /\ chunk' \in Chunks
    /\ LET full == Len(rx) + Len(chunk') > kRxBufLimit
           out  == process_buffer(IF full THEN chunk' ELSE rx \o chunk')
       IN  /\ rx' = out.rest
           /\ heard' = out.bodies
           /\ sent' = [i \in {i \in DOMAIN out.bodies : IsAnswered(out.bodies[i])} |->
                          Answer(out.bodies[i])]
    /\ UNCHANGED <<plugged, port, armed, state>>

\* Faulty variant of on_read_error: nobody will open the port again.
on_read_error_unarmed ==
    /\ port = "dead"
    /\ port' = "closed"
    /\ Quiet
    /\ UNCHANGED <<plugged, armed, rx, state>>

\* on_readable() meets an error: the port is closed until the timer fires.  What
\* the buffer holds stays.
on_read_error ==
    /\ port = "dead"
    /\ port' = "closed"
    /\ armed' = TRUE
    /\ Quiet
    /\ UNCHANGED <<plugged, rx, state>>

\* on_reopen_tick(): try_open() opens the port or arms the timer again.
on_reopen_tick ==
    /\ armed
    /\ port' = IF port = "closed" /\ plugged THEN "open" ELSE port
    /\ armed' = (port = "closed" /\ ~plugged)
    /\ Quiet
    /\ UNCHANGED <<plugged, rx, state>>

\* The adapter is pulled out or put back; a descriptor does not survive that.
Replug ==
    /\ plugged' = ~plugged
    /\ port' = IF port = "open" THEN "dead" ELSE port
    /\ Quiet
    /\ UNCHANGED <<armed, rx, state>>

\* BmsHandler writes the state of a monitored battery.
SetState(b, field, value) ==
    /\ Config[b].mirror = 0
    /\ state[b][field] # value
    /\ state' = [state EXCEPT ![b][field] = value]
    /\ Quiet
    /\ UNCHANGED <<portVars, rx>>

\* Faulty variant of set_connected: a connection counts as a sign of life.
set_connected_heard(b, v) ==
    /\ Config[b].mirror = 0
    /\ state[b].connected # v
    /\ state' = [state EXCEPT ![b].connected = v, ![b].age = 0]
    /\ Quiet
    /\ UNCHANGED <<portVars, rx>>

set_connected(b, v) == SetState(b, "connected", v)

apply_telemetry(b, p) ==
    /\ state[b].connected
    /\ Config[b].mirror = 0
    /\ state' = [state EXCEPT ![b].pack = p, ![b].age = 0]
    /\ Quiet
    /\ UNCHANGED <<portVars, rx>>

apply_settings(b, s) == state[b].connected /\ SetState(b, "settings", s)

\* Time passes; ages beyond FreshFor are not told apart.
Tick ==
    /\ state' = [b \in Batteries |->
                    [state[b] EXCEPT !.age =
                        IF state[b].pack = None THEN 0 ELSE Min({@ + 1, FreshFor + 1})]]
    /\ Quiet
    /\ UNCHANGED <<portVars, rx>>

Next ==
    \/ on_bytes \/ on_read_error \/ on_reopen_tick \/ Replug \/ Tick
    \/ \E b \in Batteries :
           \/ \E v \in BOOLEAN : set_connected(b, v)
           \/ \E p \in Packs : apply_telemetry(b, p)
           \/ \E s \in Limits : apply_settings(b, s)

Spec == Init /\ [][Next]_vars

\* epoll reports a dead port, an armed timer fires, time passes.
FairSpec ==
    Spec /\ WF_vars(on_read_error) /\ WF_vars(on_reopen_tick) /\ WF_vars(Tick)

-----------------------------------------------------------------------------
(* Properties *)

\* A buffer at rest is the start of one frame: what it holds, up to the symbols
\* that no longer matter.
Essence(buf) ==
    IF Len(buf) <= 1 \/ (Len(buf) = 2 /\ buf[2] \in Requests) THEN buf
    ELSE <<SOI, Other>>

Stream == INSTANCE FrameStream WITH partial <- Essence(rx)

\* However the line is cut into reads and wherever the port is lost and opened
\* again, the buffer with its limit hears exactly the intact frames; what it
\* drops when it is full was beyond repair.
HearsTheStream == Stream!StreamSpec

Modules(b) == {adr \in 0..255 : IsOurs(adr) /\ Slot(adr).battery = b}

SumOver(f) == MapThenSumSet(LAMBDA adr : f[adr], DOMAIN f)

\* The inverter "sums the modules back into the real pack": over the addresses of
\* a battery the current budget never exceeds what the battery allows, and with
\* the current and the capacity comes within a wire unit per module of it.
ModulesAddUp ==
    \A b \in Batteries :
        IsReady(b) =>
            LET M         == Modules(b)
                charge    == SumOver([adr \in M |-> limits(Slot(adr)).charge])
                discharge == SumOver([adr \in M |-> limits(Slot(adr)).discharge])
                current   == SumOver([adr \in M |-> analog(Slot(adr)).current])
                total     == SumOver([adr \in M |-> analog(Slot(adr)).total])
                whole     == Quot(Pack(b).current, 100)
                Near(sum, x) == sum <= x /\ x - sum <= Cardinality(M)
            IN  /\ Near(charge, Lim(b).charge \div 100)
                /\ Near(-discharge, Lim(b).discharge \div 100)
                /\ IF whole < 0 THEN Near(-current, -whole) ELSE Near(current, whole)
                /\ Pack(b).total <= Milli(b) => Near(total, Pack(b).total)

\* "The SoC ratio remain/total survives": whatever module the inverter asks, it
\* computes the state of charge of the battery, for a reserve that of its mirror.
SocSurvives ==
    \A b \in Batteries :
        IsReady(b) =>
            LET p == Pack(b)
                soc == IF Config[b].mirror # 0 THEN p.soc
                       ELSE (p.remaining * 100) \div Max({p.total, 1})
            IN  \A adr \in Modules(b) :
                    LET m == analog(Slot(adr))
                    IN  m.total >= 100 =>
                            (m.remain * 100) \div m.total \in (soc - 1)..(soc + 1)

\* The addresses of a battery, counted by hand.
Addresses(b) ==
    LET Size(c) == module_count_for_capacity(Milli(c))
        first   == kBaseAddress + SumOver([c \in 1..(b - 1) |-> Size(c)])
    IN  first..(first + Size(b) - 1)

\* A battery that falls silent stops being shown: nothing is answered again and
\* again for its modules, or for those of a reserve that mirrors it (on_bytes(),
\* inverter.cpp:113-123), unless its BMS reports again and again.  A link that comes
\* and goes is no sign of life, and neither are the reports of another battery.
TheSilentFallSilent ==
    \A b \in Batteries : \A served \in {c \in Batteries : c = b \/ Config[c].mirror = b} :
        Config[b].mirror = 0 =>
            ( []<>(\E i \in DOMAIN sent : sent[i].adr \in Addresses(served))
                => []<><<\E p \in Packs : apply_telemetry(b, p)>>_vars )

\* Once the adapter stays, the port is open.
PortComesBack == <>[]plugged => <>[](port = "open")
=============================================================================
