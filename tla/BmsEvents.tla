------------------------------ MODULE BmsEvents ------------------------------
(***************************************************************************)
(* The way of a Bluetooth battery's data: BleClient's thread and SimpleBLE's *)
(* notification callback push into a BmsEventQueue (event_queue.cpp), the  *)
(* dispatcher thread runs BleTransport::pump() (ble_transport.cpp), which  *)
(* calls the BmsHandler (bms_handler.cpp), which reassembles frames and    *)
(* updates the SharedState.                                                *)
(*                                                                         *)
(* The three threads are cut where they touch what they share: a push()    *)
(* appends under the mutex and writes the eventfd after it; the pump       *)
(* drains the eventfd before it pops.  A frame is `Parts' chunks; a chunk  *)
(* is known by its session and its place in the frame, which is all the    *)
(* CRC check has to tell apart as long as fewer than Parts chunks are      *)
(* lost.  The client's states are BleClient's subject.                     *)
(***************************************************************************)
EXTENDS Integers, Sequences

CONSTANTS
    Parts,      \* notifications a frame is cut into
    Throttle,   \* bms_state_update_interval_ms, in ticks
    MaxQueue,   \* bound: no notification or new subscription from here on
    MaxLost     \* bound: notifications and requests lost over the air

ASSUME PartsAssumption    == Parts \in Nat /\ Parts >= 2
ASSUME ThrottleAssumption == Throttle \in Nat \ {0}
ASSUME BoundsAssumption   == MaxQueue \in Nat /\ MaxLost \in 0..(Parts - 1)

VARIABLES
    cpc,        \* the client's thread, see ClientPCs
    link,       \* peripheral_->is_connected()
    work,       \* work_event_ is signalled
    session,    \* parity of the current or last subscription
    asked,      \* the BMS streams: it got a request or streamed already
    air,        \* the chunk the BMS notifies next
    lost,       \* what the radio lost so far
    npc,        \* the notification callback: "idle", or "signal" between the
                \* append and the write of its push()
    queue,      \* BmsEventQueue::q_
    evfd,       \* the queue's eventfd is readable
    ppc,        \* the dispatcher: "wait" in epoll, "pop" in pump(), "stopped"
    buf,        \* JkFrameAssembler::buf_, in chunks
    connected,  \* SharedState::connected_
    since       \* ticks since last_state_update_, the last time telemetry
                \* went into the shared state, at most Throttle

clientVars  == <<cpc, link, work, session>>
bmsVars     == <<asked, air, lost>>
handlerVars == <<buf, connected, since>>
vars == <<clientVars, bmsVars, npc, queue, evfd, ppc, handlerVars>>

ClientPCs == {"down", "subscribed", "signalUp", "settle", "online",
              "signalDown", "stopped"}

Sessions == {0, 1}
Chunks   == [session : Sessions, part : 1..Parts]

Connected      == [type |-> "Connected"]
Disconnected   == [type |-> "Disconnected"]
Notified(chunk) == [type |-> "NotifyFrame", payload |-> chunk]

Events == {Connected, Disconnected} \cup {Notified(chunk) : chunk \in Chunks}

\* The chunk the BMS sends after `chunk'.
NextChunk(chunk) ==
    [chunk EXCEPT !.part = IF @ < Parts THEN @ + 1 ELSE 1]

Init ==
    /\ cpc = "down"
    /\ link = FALSE
    /\ work = FALSE
    /\ session = 0
    /\ asked = FALSE
    /\ air = [session |-> 0, part |-> 1]
    /\ lost = 0
    /\ npc = "idle"
    /\ queue = <<>>
    /\ evfd = FALSE
    /\ ppc = "wait"
    /\ buf = <<>>
    /\ connected = FALSE
    /\ since = Throttle

-----------------------------------------------------------------------------
(* The client's thread *)

\* The locked half of push(); the other half is a step of its own.
Enqueue(event) == queue' = Append(queue, event)

\* notify() subscribed: from here on the callback may push, before Connected.
\* A BMS that streams already may be in the middle of a frame.
Subscribe ==
    /\ cpc = "down"
    /\ Len(queue) < MaxQueue
    /\ cpc' = "subscribed"
    /\ link' = TRUE
    /\ session' = 1 - session
    /\ asked' \in BOOLEAN
    /\ \E p \in IF asked' THEN 1..Parts ELSE {1} :
            air' = [session |-> session', part |-> p]
    /\ UNCHANGED <<work, lost, npc, queue, evfd, ppc, handlerVars>>

PushConnected ==
    /\ cpc = "subscribed"
    /\ cpc' = "signalUp"
    /\ Enqueue(Connected)
    /\ UNCHANGED <<link, work, session, bmsVars, npc, evfd, ppc, handlerVars>>

\* The write half of the two pushes of the client's thread.
WriteConnected ==
    /\ cpc = "signalUp"
    /\ cpc' = "settle"
    /\ evfd' = TRUE
    /\ UNCHANGED <<link, work, session, bmsVars, npc, queue, ppc, handlerVars>>

\* enter(Online) consumes work_event_.
Settle ==
    /\ cpc = "settle"
    /\ cpc' = "online"
    /\ work' = FALSE
    /\ UNCHANGED <<link, session, bmsVars, npc, queue, evfd, ppc, handlerVars>>

\* on_work_event() in Online.
PushDisconnected ==
    /\ cpc = "online"
    /\ work
    /\ cpc' = "signalDown"
    /\ work' = FALSE
    /\ Enqueue(Disconnected)
    /\ UNCHANGED <<link, session, bmsVars, npc, evfd, ppc, handlerVars>>

\* The write, then teardown_peripheral(): no notification comes after it.
WriteDisconnected ==
    /\ cpc = "signalDown"
    /\ cpc' = "down"
    /\ link' = FALSE
    /\ evfd' = TRUE
    /\ UNCHANGED <<work, session, bmsVars, npc, queue, ppc, handlerVars>>

-----------------------------------------------------------------------------
(* The air and the notification callback *)

Streaming == link /\ asked /\ cpc # "down"

\* A chunk arrives and the callback appends it to the queue.
PushChunk ==
    /\ Streaming
    /\ npc = "idle"
    /\ Len(queue) < MaxQueue
    /\ npc' = "signal"
    /\ Enqueue(Notified(air))
    /\ air' = NextChunk(air)
    /\ UNCHANGED <<clientVars, asked, lost, evfd, ppc, handlerVars>>

WriteChunk ==
    /\ npc = "signal"
    /\ npc' = "idle"
    /\ evfd' = TRUE
    /\ UNCHANGED <<clientVars, bmsVars, queue, ppc, handlerVars>>

LoseChunk ==
    /\ Streaming
    /\ lost < MaxLost
    /\ lost' = lost + 1
    /\ air' = NextChunk(air)
    /\ UNCHANGED <<clientVars, asked, npc, queue, evfd, ppc, handlerVars>>

\* The link is lost once the client has settled (BleClient models a loss that
\* comes earlier); the disconnect callback signals work_event_.
LinkDies ==
    /\ cpc = "online"
    /\ link
    /\ link' = FALSE
    /\ work' = TRUE
    /\ UNCHANGED <<cpc, session, bmsVars, npc, queue, evfd, ppc, handlerVars>>

-----------------------------------------------------------------------------
(* The dispatcher thread *)

\* BleClient::send(), called on this thread: nothing without a link; with one
\* the request arrives, is lost, or write_command() throws and forces a
\* reconnect (of on_connected()'s two requests the other may still arrive).
Send ==
    \/ /\ ~link
       /\ UNCHANGED <<asked, work, lost>>
    \/ /\ link
       /\ asked' = TRUE
       /\ UNCHANGED <<work, lost>>
    \/ /\ link
       /\ lost < MaxLost
       /\ lost' = lost + 1
       /\ UNCHANGED <<asked, work>>
    \/ /\ link
       /\ work' = TRUE
       /\ asked' \in {asked, TRUE}
       /\ UNCHANGED lost

PollTick ==
    /\ ppc = "wait"
    /\ Send
    /\ UNCHANGED <<cpc, link, session, air, npc, queue, evfd, ppc, handlerVars>>

\* epoll_wait() returns for the eventfd and pump() drains it.
Wake ==
    /\ ppc = "wait"
    /\ evfd
    /\ ppc' = "pop"
    /\ evfd' = FALSE
    /\ UNCHANGED <<clientVars, bmsVars, npc, queue, handlerVars>>

\* Faulty variant of PumpEnds: the pump leaves what is still queued for the
\* next time the eventfd is readable.
PumpEndsEarly ==
    /\ ppc = "pop"
    /\ ppc' = "wait"
    /\ UNCHANGED <<clientVars, bmsVars, npc, queue, evfd, handlerVars>>

\* try_pop() finds nothing: back to epoll_wait().
PumpEnds ==
    /\ ppc = "pop"
    /\ queue = <<>>
    /\ ppc' = "wait"
    /\ UNCHANGED <<clientVars, bmsVars, npc, queue, evfd, handlerVars>>

Pop(type) ==
    /\ ppc = "pop"
    /\ queue # <<>>
    /\ Head(queue).type = type
    /\ queue' = Tail(queue)

\* Faulty variant of OnConnected: the assembler is not reset.
OnConnectedKeepingBytes ==
    /\ Pop("Connected")
    /\ connected' = TRUE
    /\ Send
    /\ UNCHANGED <<cpc, link, session, air, npc, evfd, ppc, buf, since>>

OnConnected ==
    /\ Pop("Connected")
    /\ connected' = TRUE
    /\ buf' = <<>>
    /\ Send
    /\ UNCHANGED <<cpc, link, session, air, npc, evfd, ppc, since>>

\* Faulty variant of OnDisconnected: the shared state is not told.
OnDisconnectedQuietly ==
    /\ Pop("Disconnected")
    /\ buf' = <<>>
    /\ UNCHANGED <<clientVars, bmsVars, npc, evfd, ppc, connected, since>>

OnDisconnected ==
    /\ Pop("Disconnected")
    /\ connected' = FALSE
    /\ buf' = <<>>
    /\ UNCHANGED <<clientVars, bmsVars, npc, evfd, ppc, since>>

\* The CRC holds: the chunks are one frame's, in order.
Whole(chunks) ==
    \A i \in DOMAIN chunks : /\ chunks[i].part = i
                             /\ chunks[i].session = chunks[1].session

\* Faulty variant of Accumulate: bytes are kept without looking for the magic.
AccumulateAny(chunk) == Append(buf, chunk)

\* push_chunk(): without the magic of a first part nothing is kept.
Accumulate(chunk) ==
    IF buf = <<>> /\ chunk.part # 1 THEN <<>> ELSE Append(buf, chunk)

\* buf_ after the chunk: a full buffer is emptied, whatever its CRC.
Rest(got) == IF Len(got) = Parts THEN <<>> ELSE got

\* on_bytes(): feed the assembler; a whole frame's telemetry goes into the
\* shared state unless the last update is too recent.
OnBytes ==
    /\ Pop("NotifyFrame")
    /\ LET got   == Accumulate(Head(queue).payload)
           whole == Len(got) = Parts /\ Whole(got)
       IN  /\ buf' = Rest(got)
           /\ since' = IF whole /\ since >= Throttle THEN 0 ELSE since
    /\ UNCHANGED <<clientVars, bmsVars, npc, evfd, ppc, connected>>

Tick ==
    /\ since < Throttle
    /\ since' = since + 1
    /\ UNCHANGED <<clientVars, bmsVars, npc, queue, evfd, ppc, buf, connected>>

\* A signal ended the dispatcher's loop; main() then stops the transport:
\* the client tears the link down and its thread is joined.  Nothing pumps.
Shutdown ==
    /\ \/ /\ ppc = "wait"
          /\ ppc' = "stopped"
          /\ UNCHANGED <<cpc, link>>
       \/ /\ ppc = "stopped"
          /\ cpc \in {"down", "online"}
          /\ cpc' = "stopped"
          /\ link' = FALSE
          /\ UNCHANGED ppc
    /\ UNCHANGED <<work, session, bmsVars, npc, queue, evfd, handlerVars>>

-----------------------------------------------------------------------------

ClientStep == \/ Subscribe \/ PushConnected \/ WriteConnected \/ Settle
              \/ PushDisconnected \/ WriteDisconnected

PumpStep == \/ Wake \/ PumpEnds
            \/ OnConnected \/ OnDisconnected \/ OnBytes

Next == \/ ClientStep
        \/ PushChunk \/ WriteChunk \/ LoseChunk \/ LinkDies
        \/ PollTick \/ PumpStep \/ Tick \/ Shutdown

Spec == Init /\ [][Next]_vars

\* The threads run, the dispatcher serves every readable fd, time passes and
\* the BMS keeps talking.  Subscribe needs no fairness: a battery may be away.
Fairness == /\ WF_vars(ClientStep /\ cpc # "down")
            /\ WF_vars(PushChunk) /\ WF_vars(WriteChunk)
            /\ WF_vars(PumpStep) /\ SF_vars(PollTick) /\ WF_vars(Tick)

FairSpec == Spec /\ Fairness

-----------------------------------------------------------------------------
(* Properties *)

\* Every variable has its type.
TypeOK ==
    /\ cpc \in ClientPCs
    /\ link \in BOOLEAN /\ work \in BOOLEAN
    /\ session \in Sessions
    /\ asked \in BOOLEAN
    /\ air \in Chunks
    /\ lost \in 0..MaxLost
    /\ npc \in {"idle", "signal"}
    /\ queue \in Seq(Events)
    /\ evfd \in BOOLEAN
    /\ ppc \in {"wait", "pop", "stopped"}
    /\ buf \in Seq(Chunks) /\ Len(buf) < Parts
    /\ connected \in BOOLEAN
    /\ since \in 0..Throttle

\* A pusher that has appended and not written the eventfd yet.
Pushing == npc = "signal" \/ cpc \in {"signalUp", "signalDown"}

\* push() writes the eventfd after it unlocked and pump() drains it before it
\* pops: an event the dispatcher sleeps on is always about to wake it.
NoLostWakeup == ppc = "wait" /\ queue # <<>> => evfd \/ Pushing

\* A connection event, not a notification.
Telling(event) == event.type # "NotifyFrame"

\* What connected_ is after the first n events of q, if it is `shown' before.
After(shown, q, n) ==
    \/ shown /\ \A k \in 1..n : ~Telling(q[k])
    \/ \E j \in 1..n : /\ q[j].type = "Connected"
                       /\ \A k \in (j + 1)..n : ~Telling(q[k])

\* Every connection event of q changes what was shown before it.
Alternates(shown, q) ==
    \A i \in DOMAIN q : Telling(q[i]) =>
        (q[i].type = "Connected" <=> ~After(shown, q, i - 1))

\* The client thinks the battery is connected, as far as it has pushed.
Up == cpc \in {"signalUp", "settle", "online"}

\* The shared state, once the queued events are handled, is the client's own
\* idea, and every connection event changes it: none is lost, doubled or
\* overtaken.
ConnectedAgrees ==
    cpc # "stopped" =>
        /\ Up <=> After(connected, queue, Len(queue))
        /\ Alternates(connected, queue)

\* While the shared state says connected, the assembler holds bytes of one
\* subscription only: what an earlier session left behind, or what came before
\* its Connected event, is thrown away by on_connected()'s reset().
OneSessionInBuffer ==
    connected => \A i, j \in DOMAIN buf : buf[i].session = buf[j].session

\* The assembler aligns again after lost chunks, a lost request is asked again,
\* the throttle lets something through: a battery that stays connected puts
\* telemetry into the shared state again and again.
TelemetryFlows ==
    cpc = "online" ~>
        (since = 0 \/ cpc # "online" \/ work \/ ppc = "stopped")

\* A client that gave its link up is shown disconnected, unless it reconnects.
DisconnectIsShown ==
    cpc = "down" ~> (~connected \/ cpc # "down" \/ ppc = "stopped")

-----------------------------------------------------------------------------
(* The invariant behind OneSessionInBuffer *)

\* No connection event among the queued events i to j.
Quiet(q, i, j) == \A k \in i..j : ~Telling(q[k])

SessionOf(event) == event.payload.session

\* Chunks that are handled one after the other while connected_ holds are of one
\* session, and of the client's if no connection event comes after them.
SessionInv ==
    /\ air.session = session
    /\ cpc = "stopped" => ppc = "stopped" /\ ~link
    /\ OneSessionInBuffer
    /\ \A i, j \in DOMAIN queue :
           i <= j /\ Quiet(queue, i, j) /\ After(connected, queue, i) =>
               SessionOf(queue[i]) = SessionOf(queue[j])
    /\ \A b \in DOMAIN buf, j \in DOMAIN queue :
           connected /\ Quiet(queue, 1, j) =>
               buf[b].session = SessionOf(queue[j])
    /\ \A j \in DOMAIN queue :
           Up /\ Quiet(queue, j, Len(queue)) => SessionOf(queue[j]) = session
    /\ \A b \in DOMAIN buf :
           Up /\ Quiet(queue, 1, Len(queue)) => buf[b].session = session
=============================================================================
