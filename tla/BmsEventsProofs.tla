--------------------------- MODULE BmsEventsProofs ---------------------------
(***************************************************************************)
(* Theorems about BmsEvents, for every frame length, throttle and bound.   *)
(***************************************************************************)
EXTENDS BmsEvents, TLAPS

LEMMA NextChunkType ==
    ASSUME NEW chunk \in Chunks
    PROVE  NextChunk(chunk) \in Chunks
BY PartsAssumption DEF NextChunk, Chunks, Sessions

\* What the assembler keeps of a chunk fits into less than a frame.
LEMMA RestType ==
    ASSUME NEW chunk \in Chunks, buf \in Seq(Chunks), Len(buf) < Parts
    PROVE  /\ Rest(Accumulate(chunk)) \in Seq(Chunks)
           /\ Len(Rest(Accumulate(chunk))) < Parts
<1>1. Append(buf, chunk) \in Seq(Chunks) /\ Len(Append(buf, chunk)) = Len(buf) + 1
  OBVIOUS
<1>2. <<>> \in Seq(Chunks) /\ Len(<<>>) = 0
  OBVIOUS
<1> QED
  BY <1>1, <1>2, PartsAssumption DEF Rest, Accumulate

LEMMA QueueType ==
    ASSUME TypeOK, NEW event \in Events
    PROVE  Append(queue, event) \in Seq(Events)
BY DEF TypeOK

LEMMA EventTypes ==
    /\ Connected \in Events /\ Disconnected \in Events
    /\ \A chunk \in Chunks : Notified(chunk) \in Events
BY DEF Events

\* Popping leaves a queue, and a notification carries a chunk.
LEMMA PopType ==
    ASSUME TypeOK, NEW type, Pop(type)
    PROVE  /\ queue' \in Seq(Events)
           /\ type = "NotifyFrame" => Head(queue).payload \in Chunks
<1>1. Head(queue) \in Events /\ Tail(queue) \in Seq(Events)
  BY DEF TypeOK, Pop
<1>2. ASSUME type = "NotifyFrame" PROVE Head(queue).payload \in Chunks
  BY <1>1, <1>2 DEF Pop, Events, Connected, Disconnected, Notified
<1> QED
  BY <1>1, <1>2 DEF Pop

LEMMA SendType ==
    ASSUME TypeOK, Send
    PROVE  asked' \in BOOLEAN /\ work' \in BOOLEAN /\ lost' \in 0..MaxLost
<1>1. asked' \in BOOLEAN
  BY Zenon DEF TypeOK, Send
<1>2. work' \in BOOLEAN
  BY Zenon DEF TypeOK, Send
<1>3. lost \in 0..MaxLost /\ MaxLost \in Int
  BY PartsAssumption, BoundsAssumption DEF TypeOK
<1>4. lost' = lost \/ (lost < MaxLost /\ lost' = lost + 1)
  BY Zenon DEF Send
<1>5. lost' \in 0..MaxLost
  BY <1>3, <1>4
<1> QED
  BY <1>1, <1>2, <1>5

LEMMA TypeInductive == TypeOK /\ [Next]_vars => TypeOK'
<1> SUFFICES ASSUME TypeOK, [Next]_vars PROVE TypeOK'
  OBVIOUS
<1> USE PartsAssumption, ThrottleAssumption, BoundsAssumption
<1>0. <<>> \in Seq(Chunks) /\ Len(<<>>) < Parts
  OBVIOUS
<1>1. CASE Subscribe
  <2>1. session' \in Sessions
    BY <1>1 DEF Subscribe, TypeOK, Sessions
  <2>2. air' \in Chunks
    <3>1. PICK p \in IF asked' THEN 1..Parts ELSE {1} :
              air' = [session |-> session', part |-> p]
      BY <1>1 DEF Subscribe
    <3> QED
      BY <2>1, <3>1 DEF Chunks
  <2> QED
    BY <1>1, <2>1, <2>2 DEF Subscribe, TypeOK, ClientPCs, handlerVars
<1>2. CASE PushConnected
  BY <1>2, QueueType, EventTypes
  DEF PushConnected, Enqueue, TypeOK, ClientPCs, bmsVars, handlerVars
<1>3. CASE WriteConnected
  BY <1>3 DEF WriteConnected, TypeOK, ClientPCs, bmsVars, handlerVars
<1>4. CASE Settle
  BY <1>4 DEF Settle, TypeOK, ClientPCs, bmsVars, handlerVars
<1>5. CASE PushDisconnected
  BY <1>5, QueueType, EventTypes
  DEF PushDisconnected, Enqueue, TypeOK, ClientPCs, bmsVars, handlerVars
<1>6. CASE WriteDisconnected
  BY <1>6 DEF WriteDisconnected, TypeOK, ClientPCs, bmsVars, handlerVars
<1>7. CASE PushChunk
  <2>1. Notified(air) \in Events
    BY EventTypes DEF TypeOK
  <2>2. queue' \in Seq(Events)
    BY <1>7, <2>1, QueueType DEF PushChunk, Enqueue
  <2>3. air' \in Chunks
    BY <1>7, NextChunkType DEF PushChunk, TypeOK
  <2> QED
    BY <1>7, <2>2, <2>3 DEF PushChunk, TypeOK, clientVars, handlerVars
<1>8. CASE WriteChunk
  BY <1>8 DEF WriteChunk, TypeOK, clientVars, bmsVars, handlerVars
<1>9. CASE LoseChunk
  <2>1. air' \in Chunks
    BY <1>9, NextChunkType DEF LoseChunk, TypeOK
  <2> QED
    BY <1>9, <2>1 DEF LoseChunk, TypeOK, clientVars, handlerVars
<1>10. CASE LinkDies
  BY <1>10 DEF LinkDies, TypeOK, bmsVars, handlerVars
<1>11. CASE PollTick
  BY <1>11, SendType DEF PollTick, TypeOK, handlerVars
<1>12. CASE Wake
  BY <1>12 DEF Wake, TypeOK, clientVars, bmsVars, handlerVars
<1>13. CASE PumpEnds
  BY <1>13 DEF PumpEnds, TypeOK, clientVars, bmsVars, handlerVars
<1>14. CASE OnConnected
  <2>1. queue' \in Seq(Events)
    BY <1>14, PopType DEF OnConnected
  <2> QED
    BY <1>0, <1>14, <2>1, SendType DEF OnConnected, TypeOK
<1>15. CASE OnDisconnected
  <2>1. queue' \in Seq(Events)
    BY <1>15, PopType DEF OnDisconnected
  <2> QED
    BY <1>0, <1>15, <2>1 DEF OnDisconnected, TypeOK, clientVars, bmsVars
<1>16. CASE OnBytes
  <2>1. queue' \in Seq(Events) /\ Head(queue).payload \in Chunks
    BY <1>16, PopType DEF OnBytes
  <2>2. buf' = Rest(Accumulate(Head(queue).payload))
    BY <1>16 DEF OnBytes
  <2>3. buf' \in Seq(Chunks) /\ Len(buf') < Parts
    BY <2>1, <2>2, RestType DEF TypeOK
  <2>4. since' \in 0..Throttle
    BY <1>16 DEF OnBytes, TypeOK
  <2> QED
    BY <1>16, <2>1, <2>3, <2>4 DEF OnBytes, TypeOK, clientVars, bmsVars
<1>17. CASE Tick
  BY <1>17 DEF Tick, TypeOK, clientVars, bmsVars
<1>18. CASE Shutdown
  BY <1>18 DEF Shutdown, TypeOK, ClientPCs, bmsVars, handlerVars
<1>19. CASE UNCHANGED vars
  BY <1>19 DEF vars, TypeOK, clientVars, bmsVars, handlerVars
<1> QED
  BY <1>1, <1>2, <1>3, <1>4, <1>5, <1>6, <1>7, <1>8, <1>9, <1>10, <1>11,
     <1>12, <1>13, <1>14, <1>15, <1>16, <1>17, <1>18, <1>19
  DEF Next, ClientStep, PumpStep

LEMMA InitType == Init => TypeOK
<1> SUFFICES ASSUME Init PROVE TypeOK
  OBVIOUS
<1>1. [session |-> 0, part |-> 1] \in Chunks
  BY PartsAssumption DEF Chunks, Sessions
<1>2. <<>> \in Seq(Events) /\ <<>> \in Seq(Chunks) /\ Len(<<>>) < Parts
  BY PartsAssumption
<1>3. 0 \in 0..MaxLost /\ Throttle \in 0..Throttle
  BY PartsAssumption, ThrottleAssumption, BoundsAssumption
<1> QED
  BY <1>1, <1>2, <1>3 DEF Init, TypeOK, ClientPCs, Sessions

\* Whatever the chunk count and the bounds, the variables keep their types: in
\* particular the assembler never holds a whole frame between two chunks.
THEOREM TypeCorrect == Spec => []TypeOK
BY InitType, TypeInductive, PTL DEF Spec

-----------------------------------------------------------------------------

\* The order of push() and of pump() is all it takes: no other state matters.
LEMMA WakeupInductive == NoLostWakeup /\ [Next]_vars => NoLostWakeup'
<1> SUFFICES ASSUME NoLostWakeup, [Next]_vars PROVE NoLostWakeup'
  OBVIOUS
<1> USE DEF NoLostWakeup, Pushing
<1>1. CASE ClientStep
  BY <1>1 DEF ClientStep, Subscribe, PushConnected, WriteConnected, Settle,
              PushDisconnected, WriteDisconnected
<1>2. CASE PushChunk \/ WriteChunk \/ LoseChunk \/ LinkDies
  BY <1>2 DEF PushChunk, WriteChunk, LoseChunk, LinkDies, clientVars
<1>3. CASE PumpStep
  BY <1>3 DEF PumpStep, Wake, PumpEnds, OnConnected, OnDisconnected, OnBytes,
              Pop, clientVars
<1>4. CASE PollTick \/ Tick
  BY <1>4 DEF PollTick, Tick, clientVars
<1>5. CASE Shutdown
  BY <1>5 DEF Shutdown
<1>6. CASE UNCHANGED vars
  BY <1>6 DEF vars, clientVars
<1> QED
  BY <1>1, <1>2, <1>3, <1>4, <1>5, <1>6 DEF Next

\* push() and pump() never leave the dispatcher asleep on a queued event
\* (event_queue.cpp:20-27 against ble_transport.cpp:33-36).
THEOREM WakeupSafe == Spec => []NoLostWakeup
<1>1. Init => NoLostWakeup
  BY DEF Init, NoLostWakeup
<1> QED
  BY <1>1, WakeupInductive, PTL DEF Spec

-----------------------------------------------------------------------------
(* Connection events in the queue *)

LEMMA EventKinds ==
    ASSUME NEW event \in Events
    PROVE  /\ event.type \in {"Connected", "Disconnected", "NotifyFrame"}
           /\ ~Telling(event) => event.payload \in Chunks
BY DEF Events, Connected, Disconnected, Notified, Telling

\* push_back() in push() changes nothing about the events queued before.
LEMMA AppendAfter ==
    ASSUME NEW q \in Seq(Events), NEW e \in Events, NEW shown \in BOOLEAN
    PROVE  /\ \A n \in 0..Len(q) :
                  After(shown, Append(q, e), n) <=> After(shown, q, n)
           /\ After(shown, Append(q, e), Len(q) + 1) <=>
                  \/ e.type = "Connected"
                  \/ ~Telling(e) /\ After(shown, q, Len(q))
<1> DEFINE r == Append(q, e)
<1>1. Len(q) \in Nat /\ r[Len(q) + 1] = e /\ \A i \in 1..Len(q) : r[i] = q[i]
  OBVIOUS
<1> HIDE DEF r
<1>2. ASSUME NEW n \in 0..Len(q)
      PROVE  After(shown, r, n) <=> After(shown, q, n)
  <2>1. \A i \in 1..n : i \in 1..Len(q)
    BY <1>1
  <2>2. \A j \in 1..n : \A i \in (j + 1)..n : i \in 1..Len(q)
    BY <1>1
  <2>3. QED  BY <1>1, <2>1, <2>2 DEF After
<1>3. After(shown, r, Len(q) + 1) <=>
          \/ e.type = "Connected"
          \/ ~Telling(e) /\ After(shown, q, Len(q))
  <2>1. ASSUME e.type = "Connected" PROVE After(shown, r, Len(q) + 1)
    BY <1>1, <2>1 DEF After
  <2>2. ASSUME Telling(e), e.type # "Connected"
        PROVE  ~After(shown, r, Len(q) + 1)
    BY <1>1, <2>2 DEF After
  <2>3. ASSUME ~Telling(e)
        PROVE  After(shown, r, Len(q) + 1) <=> After(shown, q, Len(q))
    <3>1. e.type # "Connected"
      BY <2>3 DEF Telling
    <3>2. After(shown, r, Len(q) + 1) <=> After(shown, r, Len(q))
      BY <1>1, <2>3, <3>1 DEF After
    <3>3. QED  BY <1>1, <1>2, <3>2
  <2>4. QED  BY <2>1, <2>2, <2>3, EventKinds DEF Telling
<1>4. QED  BY <1>2, <1>3 DEF r

\* Handling the front of the queue changes connected_ and nothing about the
\* events behind it.
LEMMA TailAfter ==
    ASSUME NEW q \in Seq(Events), q # <<>>,
           NEW shown \in BOOLEAN, NEW now \in BOOLEAN,
           now <=> \/ Head(q).type = "Connected"
                   \/ ~Telling(Head(q)) /\ shown
    PROVE  \A n \in 0..(Len(q) - 1) :
               After(now, Tail(q), n) <=> After(shown, q, n + 1)
<1> DEFINE r == Tail(q)
<1>1. /\ Len(q) \in Nat \ {0} /\ Head(q) = q[1]
      /\ \A i \in 1..(Len(q) - 1) : r[i] = q[i + 1]
  OBVIOUS
<1> HIDE DEF r
<1> SUFFICES ASSUME NEW n \in 0..(Len(q) - 1)
             PROVE  After(now, r, n) <=> After(shown, q, n + 1)
  BY DEF r
<1>2. ASSUME After(now, r, n) PROVE After(shown, q, n + 1)
  <2>1. CASE now /\ \A k \in 1..n : ~Telling(r[k])
    <3>1. \A k \in 2..(n + 1) : ~Telling(q[k])
      <4>1. \A k \in 2..(n + 1) : k - 1 \in 1..n /\ q[k] = r[k - 1]
        BY <1>1
      <4>2. QED  BY <2>1, <4>1
    <3>2. CASE q[1].type = "Connected"
      BY <1>1, <3>1, <3>2 DEF After
    <3>3. CASE ~Telling(q[1]) /\ shown
      BY <1>1, <3>1, <3>3 DEF After
    <3>4. QED  BY <1>1, <2>1, <3>2, <3>3
  <2>2. CASE \E j \in 1..n : /\ r[j].type = "Connected"
                             /\ \A k \in (j + 1)..n : ~Telling(r[k])
    <3>1. PICK j \in 1..n : /\ r[j].type = "Connected"
                            /\ \A k \in (j + 1)..n : ~Telling(r[k])
      BY <2>2
    <3>2. j + 1 \in 1..(n + 1) /\ q[j + 1].type = "Connected"
      BY <1>1, <3>1
    <3>3. ASSUME NEW k \in (j + 2)..(n + 1) PROVE ~Telling(q[k])
      BY <1>1, <3>1, k - 1 \in (j + 1)..n, q[k] = r[k - 1]
    <3>4. QED  BY <3>2, <3>3 DEF After
  <2>3. QED  BY <1>2, <2>1, <2>2 DEF After
<1>3. ASSUME After(shown, q, n + 1) PROVE After(now, r, n)
  <2>1. ASSUME NEW k \in 1..n PROVE k + 1 \in 2..(n + 1) /\ r[k] = q[k + 1]
    BY <1>1
  <2>2. CASE shown /\ \A k \in 1..(n + 1) : ~Telling(q[k])
    BY <1>1, <2>1, <2>2 DEF After
  <2>3. CASE \E j \in 1..(n + 1) : /\ q[j].type = "Connected"
                                   /\ \A k \in (j + 1)..(n + 1) : ~Telling(q[k])
    <3>1. PICK j \in 1..(n + 1) :
              /\ q[j].type = "Connected"
              /\ \A k \in (j + 1)..(n + 1) : ~Telling(q[k])
      BY <2>3
    <3>2. CASE j = 1
      <4>1. \A k \in 1..n : ~Telling(r[k])
        BY <2>1, <3>1, <3>2
      <4>2. Head(q).type = "Connected"
        BY <1>1, <3>1, <3>2
      <4>3. now
        BY <4>2, Zenon
      <4>4. QED  BY <4>1, <4>3 DEF After
    <3>3. CASE j # 1
      <4>1. j - 1 \in 1..n /\ r[j - 1].type = "Connected"
        BY <1>1, <3>1, <3>3
      <4>2. ASSUME NEW k \in ((j - 1) + 1)..n PROVE ~Telling(r[k])
        BY <2>1, <3>1, <3>3, k + 1 \in (j + 1)..(n + 1), k \in 1..n
      <4>3. QED  BY <4>1, <4>2 DEF After
    <3>4. QED  BY <3>2, <3>3
  <2>4. QED  BY <1>3, <2>2, <2>3 DEF After
<1>4. QED  BY <1>2, <1>3

-----------------------------------------------------------------------------
(* The shared state agrees with the client *)

\* Appending e when the client's own idea becomes `up' keeps the agreement.
LEMMA AppendAgrees ==
    ASSUME NEW q \in Seq(Events), NEW e \in Events, NEW shown \in BOOLEAN,
           Alternates(shown, q),
           Telling(e) => (e.type = "Connected" <=> ~After(shown, q, Len(q)))
    PROVE  Alternates(shown, Append(q, e))
<1> DEFINE r == Append(q, e)
<1>1. /\ Len(q) \in Nat /\ r[Len(q) + 1] = e /\ \A i \in 1..Len(q) : r[i] = q[i]
      /\ DOMAIN q = 1..Len(q) /\ DOMAIN r = 1..(Len(q) + 1)
  OBVIOUS
<1>2. \A n \in 0..Len(q) : After(shown, r, n) <=> After(shown, q, n)
  BY AppendAfter
<1> HIDE DEF r
<1>3. ASSUME NEW i \in DOMAIN r, Telling(r[i])
      PROVE  r[i].type = "Connected" <=> ~After(shown, r, i - 1)
  <2>1. CASE i = Len(q) + 1
    BY <1>1, <1>2, <1>3, <2>1, Len(q) \in 0..Len(q), i - 1 = Len(q)
  <2>2. CASE i # Len(q) + 1
    BY <1>1, <1>2, <1>3, <2>2, i \in 1..Len(q), i - 1 \in 0..Len(q)
       DEF Alternates
  <2>3. QED  BY <2>1, <2>2
<1>4. QED  BY <1>3 DEF Alternates, r

\* Handling the front of the queue keeps it, and turns connected_ over at a
\* connection event.
LEMMA TailAgrees ==
    ASSUME NEW q \in Seq(Events), q # <<>>,
           NEW shown \in BOOLEAN, NEW now \in BOOLEAN,
           now <=> \/ Head(q).type = "Connected"
                   \/ ~Telling(Head(q)) /\ shown,
           Alternates(shown, q)
    PROVE  /\ Alternates(now, Tail(q))
           /\ After(now, Tail(q), Len(Tail(q))) <=> After(shown, q, Len(q))
<1> DEFINE r == Tail(q)
<1>1. /\ Len(q) \in Nat \ {0} /\ Len(r) = Len(q) - 1
      /\ \A i \in 1..(Len(q) - 1) : r[i] = q[i + 1]
      /\ DOMAIN q = 1..Len(q) /\ DOMAIN r = 1..(Len(q) - 1)
  OBVIOUS
<1>2. \A n \in 0..(Len(q) - 1) : After(now, r, n) <=> After(shown, q, n + 1)
  BY TailAfter
<1> HIDE DEF r
<1>3. ASSUME NEW i \in DOMAIN r, Telling(r[i])
      PROVE  r[i].type = "Connected" <=> ~After(now, r, i - 1)
  <2>1. i \in 1..(Len(q) - 1) /\ i + 1 \in DOMAIN q /\ r[i] = q[i + 1]
    BY <1>1
  <2>2. After(now, r, i - 1) <=> After(shown, q, i)
    BY <1>1, <1>2, <2>1, i - 1 \in 0..(Len(q) - 1), (i - 1) + 1 = i
  <2>3. QED  BY <1>3, <2>1, <2>2, (i + 1) - 1 = i DEF Alternates
<1>4. After(now, r, Len(r)) <=> After(shown, q, Len(q))
  BY <1>1, <1>2, Len(q) - 1 \in 0..(Len(q) - 1), (Len(q) - 1) + 1 = Len(q)
<1>5. QED  BY <1>3, <1>4 DEF Alternates, r

LEMMA AgreesInductive ==
    ConnectedAgrees /\ TypeOK /\ [Next]_vars => ConnectedAgrees'
<1> SUFFICES ASSUME ConnectedAgrees, TypeOK, [Next]_vars, cpc' # "stopped"
             PROVE  /\ Up' <=> After(connected', queue', Len(queue'))
                    /\ Alternates(connected', queue')
  BY DEF ConnectedAgrees
<1>0. /\ queue \in Seq(Events) /\ connected \in BOOLEAN
      /\ cpc \in ClientPCs /\ air \in Chunks
  BY DEF TypeOK
<1>1. CASE UNCHANGED <<queue, connected, cpc>>
  BY <1>1, <1>0 DEF ConnectedAgrees, Up
<1> USE DEF ConnectedAgrees, Up
<1>2. CASE Subscribe \/ WriteConnected \/ Settle \/ WriteDisconnected
  BY <1>2 DEF Subscribe, WriteConnected, Settle, WriteDisconnected, handlerVars
<1>3. CASE PushConnected
  <2>1. /\ queue' = Append(queue, Connected) /\ connected' = connected
        /\ cpc = "subscribed" /\ cpc' = "signalUp"
    BY <1>3 DEF PushConnected, Enqueue, handlerVars
  <2>2. Connected \in Events /\ Connected.type = "Connected" /\ Telling(Connected)
    BY DEF Events, Connected, Telling
  <2>3. ~After(connected, queue, Len(queue)) /\ Alternates(connected, queue)
    BY <2>1
  <2>4. Alternates(connected, queue')
    BY <1>0, <2>1, <2>2, <2>3, AppendAgrees
  <2>5. After(connected, queue', Len(queue) + 1) /\ Len(queue') = Len(queue) + 1
    BY <1>0, <2>1, <2>2, AppendAfter
  <2>6. QED  BY <2>1, <2>4, <2>5
<1>4. CASE PushDisconnected
  <2>1. /\ queue' = Append(queue, Disconnected) /\ connected' = connected
        /\ cpc = "online" /\ cpc' = "signalDown"
    BY <1>4 DEF PushDisconnected, Enqueue, handlerVars
  <2>2. /\ Disconnected \in Events /\ Disconnected.type # "Connected"
        /\ Telling(Disconnected)
    BY DEF Events, Disconnected, Telling
  <2>3. After(connected, queue, Len(queue)) /\ Alternates(connected, queue)
    BY <2>1
  <2>4. Alternates(connected, queue')
    BY <1>0, <2>1, <2>2, <2>3, AppendAgrees
  <2>5. ~After(connected, queue', Len(queue) + 1) /\ Len(queue') = Len(queue) + 1
    BY <1>0, <2>1, <2>2, AppendAfter
  <2>6. QED  BY <2>1, <2>4, <2>5
<1>5. CASE PushChunk
  <2>1. /\ queue' = Append(queue, Notified(air)) /\ connected' = connected
        /\ cpc' = cpc
    BY <1>5 DEF PushChunk, Enqueue, handlerVars, clientVars
  <2>2. /\ Notified(air) \in Events /\ Notified(air).type # "Connected"
        /\ ~Telling(Notified(air))
    BY <1>0 DEF Events, Notified, Telling
  <2>3. Alternates(connected, queue')
    BY <1>0, <2>1, <2>2, AppendAgrees
  <2>4. /\ After(connected, queue', Len(queue) + 1)
              <=> After(connected, queue, Len(queue))
        /\ Len(queue') = Len(queue) + 1
    BY <1>0, <2>1, <2>2, AppendAfter
  <2>5. QED  BY <2>1, <2>3, <2>4
<1>6. CASE OnConnected \/ OnDisconnected \/ OnBytes
  <2>1. queue # <<>> /\ queue' = Tail(queue) /\ cpc' = cpc
    BY <1>6 DEF OnConnected, OnDisconnected, OnBytes, Pop, clientVars
  <2>2. /\ connected' \in BOOLEAN
        /\ connected' <=> \/ Head(queue).type = "Connected"
                          \/ ~Telling(Head(queue)) /\ connected
    <3>1. CASE OnConnected
      BY <3>1, Zenon DEF OnConnected, Pop
    <3>2. CASE OnDisconnected
      <4>1. connected' = FALSE /\ Head(queue).type = "Disconnected"
        BY <3>2 DEF OnDisconnected, Pop
      <4>2. Head(queue).type # "Connected" /\ Telling(Head(queue))
        BY <4>1 DEF Telling
      <4>3. QED  BY <4>1, <4>2, Zenon
    <3>3. CASE OnBytes
      <4>1. connected' = connected /\ Head(queue).type = "NotifyFrame"
        BY <3>3 DEF OnBytes, Pop
      <4>2. Head(queue).type # "Connected" /\ ~Telling(Head(queue))
        BY <4>1 DEF Telling
      <4>3. QED  BY <1>0, <4>1, <4>2, Zenon
    <3>4. QED  BY <1>6, <3>1, <3>2, <3>3
  <2>3. QED  BY <1>0, <2>1, <2>2, TailAgrees
<1>7. CASE Shutdown
  BY <1>7 DEF Shutdown, handlerVars
<1>8. QED
  BY <1>1, <1>2, <1>3, <1>4, <1>5, <1>6, <1>7
     DEF Next, ClientStep, PumpStep, WriteChunk, LoseChunk, LinkDies, PollTick,
         Wake, PumpEnds, Tick, vars, clientVars, handlerVars

\* The shared state follows the client: no connection event is lost, doubled or
\* overtaken on its way from BleClient's thread through the queue and the pump.
THEOREM AgreementSafe == Spec => []ConnectedAgrees
<1>1. Init => ConnectedAgrees
  BY DEF Init, ConnectedAgrees, Alternates, After, Up
<1>2. QED  BY <1>1, AgreesInductive, TypeCorrect, PTL DEF Spec

-----------------------------------------------------------------------------
(* One session in the assembler *)

\* Between two connection events nothing changes.
LEMMA QuietAfter ==
    ASSUME NEW q \in Seq(Events), NEW shown \in BOOLEAN,
           NEW n \in 0..Len(q), NEW i \in 0..n,
           Quiet(q, i + 1, n), After(shown, q, i)
    PROVE  After(shown, q, n)
<1>1. Len(q) \in Nat
  OBVIOUS
<1>2. ASSUME NEW k \in 1..n, k > i PROVE ~Telling(q[k])
  BY <1>1, <1>2, k \in (i + 1)..n DEF Quiet
<1>3. CASE shown /\ \A k \in 1..i : ~Telling(q[k])
  <2>1. \A k \in 1..n : ~Telling(q[k])
    BY <1>1, <1>2, <1>3
  <2>2. QED  BY <1>3, <2>1 DEF After
<1>4. CASE \E j \in 1..i : /\ q[j].type = "Connected"
                           /\ \A k \in (j + 1)..i : ~Telling(q[k])
  <2>1. PICK j \in 1..i : /\ q[j].type = "Connected"
                          /\ \A k \in (j + 1)..i : ~Telling(q[k])
    BY <1>4
  <2>2. j \in 1..n /\ \A k \in (j + 1)..n : ~Telling(q[k])
    BY <1>1, <1>2, <2>1
  <2>3. QED  BY <2>1, <2>2 DEF After
<1>5. QED  BY <1>3, <1>4 DEF After

LEMMA AppendQuiet ==
    ASSUME NEW q \in Seq(Events), NEW e \in Events
    PROVE  /\ \A i, j \in 1..Len(q) : Quiet(Append(q, e), i, j) => Quiet(q, i, j)
           /\ \A i \in 1..(Len(q) + 1) :
                  Quiet(Append(q, e), i, Len(q) + 1) =>
                      Quiet(q, i, Len(q)) /\ ~Telling(e)
<1> DEFINE r == Append(q, e)
<1>1. Len(q) \in Nat /\ r[Len(q) + 1] = e /\ \A i \in 1..Len(q) : r[i] = q[i]
  OBVIOUS
<1> HIDE DEF r
<1>2. ASSUME NEW i \in 1..(Len(q) + 1), NEW j \in 1..(Len(q) + 1),
             Quiet(r, i, j), NEW k \in i..j, k \in 1..Len(q)
      PROVE  ~Telling(q[k])
  BY <1>1, <1>2 DEF Quiet
<1>3. ASSUME NEW i \in 1..Len(q), NEW j \in 1..Len(q), Quiet(r, i, j)
      PROVE  Quiet(q, i, j)
  BY <1>1, <1>2, <1>3, i \in 1..(Len(q) + 1), j \in 1..(Len(q) + 1),
     \A k \in i..j : k \in 1..Len(q) DEF Quiet
<1>4. ASSUME NEW i \in 1..(Len(q) + 1), Quiet(r, i, Len(q) + 1)
      PROVE  Quiet(q, i, Len(q)) /\ ~Telling(e)
  <2>1. ~Telling(r[Len(q) + 1])
    BY <1>1, <1>4, Len(q) + 1 \in i..(Len(q) + 1) DEF Quiet
  <2>2. \A k \in i..Len(q) : k \in 1..Len(q) /\ k \in i..(Len(q) + 1)
    BY <1>1
  <2>3. \A k \in i..Len(q) : ~Telling(q[k])
    BY <1>1, <1>4, <2>2 DEF Quiet
  <2>4. QED  BY <1>1, <2>1, <2>3 DEF Quiet
<1>5. QED  BY <1>3, <1>4 DEF r

LEMMA TailQuiet ==
    ASSUME NEW q \in Seq(Events), q # <<>>
    PROVE  /\ \A i, j \in 1..(Len(q) - 1) :
                  Quiet(Tail(q), i, j) => Quiet(q, i + 1, j + 1)
           /\ \A j \in 1..(Len(q) - 1) :
                  Quiet(Tail(q), 1, j) /\ ~Telling(Head(q)) => Quiet(q, 1, j + 1)
<1> DEFINE r == Tail(q)
<1>1. /\ Len(q) \in Nat \ {0} /\ Head(q) = q[1]
      /\ \A i \in 1..(Len(q) - 1) : r[i] = q[i + 1]
  OBVIOUS
<1> HIDE DEF r
<1>2. ASSUME NEW i \in 1..(Len(q) - 1), NEW j \in 1..(Len(q) - 1),
             Quiet(r, i, j)
      PROVE  Quiet(q, i + 1, j + 1)
  <2>1. \A k \in (i + 1)..(j + 1) :
            k - 1 \in i..j /\ k - 1 \in 1..(Len(q) - 1) /\ (k - 1) + 1 = k
    BY <1>1
  <2>2. QED  BY <1>1, <1>2, <2>1 DEF Quiet
<1>3. ASSUME NEW j \in 1..(Len(q) - 1), Quiet(r, 1, j), ~Telling(Head(q))
      PROVE  Quiet(q, 1, j + 1)
  <2>1. Quiet(q, 1 + 1, j + 1)
    BY <1>1, <1>2, <1>3, 1 \in 1..(Len(q) - 1)
  <2>2. \A k \in 1..(j + 1) : k = 1 \/ k \in (1 + 1)..(j + 1)
    BY <1>1
  <2>3. QED  BY <1>1, <1>3, <2>1, <2>2 DEF Quiet
<1>4. QED  BY <1>2, <1>3 DEF r

\* push_chunk() keeps what it had, adds the chunk, or empties the buffer.
LEMMA RestHolds ==
    ASSUME TypeOK, NEW chunk \in Chunks
    PROVE  \A b \in DOMAIN Rest(Accumulate(chunk)) :
               \/ Rest(Accumulate(chunk))[b] = chunk
               \/ \E a \in DOMAIN buf : Rest(Accumulate(chunk))[b] = buf[a]
<1>1. buf \in Seq(Chunks)
  BY DEF TypeOK
<1>2. \A b \in DOMAIN Append(buf, chunk) :
          \/ Append(buf, chunk)[b] = chunk
          \/ \E a \in DOMAIN buf : Append(buf, chunk)[b] = buf[a]
  BY <1>1
<1>3. QED  BY <1>2 DEF Rest, Accumulate

\* The pump takes a notification: what is left in buf_ is of its session.
LEMMA BytesInv ==
    ASSUME TypeOK, SessionInv, ConnectedAgrees, OnBytes
    PROVE  SessionInv'
<1> DEFINE chunk == Head(queue).payload
           rest  == Tail(queue)
<1>1. /\ queue # <<>> /\ queue' = rest /\ Head(queue).type = "NotifyFrame"
      /\ buf' = Rest(Accumulate(chunk))
      /\ UNCHANGED <<clientVars, bmsVars, ppc, connected>>
  BY DEF OnBytes, Pop
<1>2. /\ queue \in Seq(Events) /\ Len(queue) \in Nat \ {0}
      /\ queue[1] = Head(queue) /\ Head(queue) \in Events
      /\ rest \in Seq(Events) /\ DOMAIN rest = 1..(Len(queue) - 1)
      /\ Len(rest) = Len(queue) - 1 /\ DOMAIN queue = 1..Len(queue)
      /\ \A i \in DOMAIN rest : i + 1 \in DOMAIN queue /\ rest[i] = queue[i + 1]
      /\ connected \in BOOLEAN
  BY <1>1 DEF TypeOK
<1>3. ~Telling(Head(queue)) /\ chunk \in Chunks /\ SessionOf(queue[1]) = chunk.session
  BY <1>1, <1>2, EventKinds DEF Telling, SessionOf
<1>4. \A b \in DOMAIN buf' : \/ buf'[b] = chunk
                             \/ \E a \in DOMAIN buf : buf'[b] = buf[a]
  BY <1>1, <1>3, RestHolds
<1>5. \A n \in 0..(Len(queue) - 1) :
          After(connected, rest, n) <=> After(connected, queue, n + 1)
  <2>1. connected <=> \/ Head(queue).type = "Connected"
                      \/ ~Telling(Head(queue)) /\ connected
    BY <1>1, <1>3
  <2>2. QED  BY <1>1, <1>2, <2>1, TailAfter
<1>6. /\ \A i, j \in 1..(Len(queue) - 1) :
             Quiet(rest, i, j) => Quiet(queue, i + 1, j + 1)
      /\ \A j \in 1..(Len(queue) - 1) :
             Quiet(rest, 1, j) => Quiet(queue, 1, j + 1)
  BY <1>1, <1>2, <1>3, TailQuiet
<1>7. Quiet(queue, 1, 1)
  BY <1>2, <1>3 DEF Quiet
<1> HIDE DEF chunk, rest
<1>8. connected => \A b \in DOMAIN buf' : buf'[b].session = chunk.session
  BY <1>2, <1>3, <1>4, <1>7, 1 \in DOMAIN queue DEF SessionInv
<1>9. air' = air /\ session' = session /\ cpc' = cpc /\ ppc' = ppc /\ link' = link
  BY <1>1 DEF bmsVars, clientVars
<1>10. OneSessionInBuffer'
  BY <1>1, <1>8 DEF OneSessionInBuffer
<1>11. ASSUME NEW i \in DOMAIN rest, NEW j \in DOMAIN rest, i <= j,
              Quiet(rest, i, j), After(connected, rest, i)
       PROVE  SessionOf(rest[i]) = SessionOf(rest[j])
  <2>1. Quiet(queue, i + 1, j + 1) /\ After(connected, queue, i + 1)
    BY <1>2, <1>5, <1>6, <1>11
  <2>2. i + 1 \in DOMAIN queue /\ j + 1 \in DOMAIN queue /\ i + 1 <= j + 1
    BY <1>2, <1>11
  <2>3. QED  BY <1>2, <2>1, <2>2 DEF SessionInv
<1>12. ASSUME NEW b \in DOMAIN buf', NEW j \in DOMAIN rest,
              connected, Quiet(rest, 1, j)
       PROVE  buf'[b].session = SessionOf(rest[j])
  <2>1. Quiet(queue, 1, j + 1) /\ 1 \in DOMAIN queue /\ j + 1 \in DOMAIN queue
    BY <1>2, <1>6, <1>12
  <2>2. After(connected, queue, 1)
    BY <1>2, <1>3, <1>12 DEF After
  <2>3. SessionOf(queue[1]) = SessionOf(queue[j + 1])
    BY <1>2, <2>1, <2>2, 1 <= j + 1 DEF SessionInv
  <2>4. QED  BY <1>2, <1>3, <1>8, <1>12, <2>3
<1>13. ASSUME NEW j \in DOMAIN rest, Up, Quiet(rest, j, Len(rest))
       PROVE  SessionOf(rest[j]) = session
  <2>1. Quiet(queue, j + 1, Len(queue)) /\ j + 1 \in DOMAIN queue
    BY <1>2, <1>6, <1>13, Len(rest) \in 1..(Len(queue) - 1),
       Len(rest) + 1 = Len(queue)
  <2>2. QED  BY <1>2, <1>13, <2>1 DEF SessionInv
<1>14. ASSUME NEW b \in DOMAIN buf', Up, Quiet(rest, 1, Len(rest))
       PROVE  buf'[b].session = session
  <2>1. Quiet(queue, 1, Len(queue))
    <3>1. CASE Len(queue) = 1
      BY <1>7, <3>1
    <3>2. CASE Len(queue) # 1
      BY <1>2, <1>6, <1>14, <3>2, Len(rest) \in 1..(Len(queue) - 1),
         Len(rest) + 1 = Len(queue)
    <3>3. QED  BY <3>1, <3>2
  <2>2. chunk.session = session
    BY <1>2, <1>3, <1>14, <2>1, 1 \in DOMAIN queue DEF SessionInv
  <2>3. \A a \in DOMAIN buf : buf[a].session = session
    BY <1>14, <2>1 DEF SessionInv
  <2>4. QED  BY <1>4, <2>2, <2>3
<1>15. QED
  BY <1>1, <1>9, <1>10, <1>11, <1>12, <1>13, <1>14 DEF SessionInv, Up

\* A connection event is handled: buf_ is emptied.
LEMMA ConnectionInv ==
    ASSUME TypeOK, SessionInv, OnConnected \/ OnDisconnected
    PROVE  SessionInv'
<1> DEFINE rest == Tail(queue)
<1>1. /\ queue # <<>> /\ queue' = rest /\ buf' = <<>>
      /\ cpc' = cpc /\ link' = link /\ session' = session /\ air' = air /\ ppc' = ppc
  BY DEF OnConnected, OnDisconnected, Pop, clientVars, bmsVars
<1>2. /\ queue \in Seq(Events) /\ Len(queue) \in Nat \ {0}
      /\ rest \in Seq(Events) /\ DOMAIN rest = 1..(Len(queue) - 1)
      /\ Len(rest) = Len(queue) - 1 /\ DOMAIN queue = 1..Len(queue)
      /\ \A i \in DOMAIN rest : i + 1 \in DOMAIN queue /\ rest[i] = queue[i + 1]
      /\ connected \in BOOLEAN
  BY <1>1 DEF TypeOK
<1>3. /\ connected' \in BOOLEAN
      /\ connected' <=> \/ Head(queue).type = "Connected"
                        \/ ~Telling(Head(queue)) /\ connected
  <2>1. CASE OnConnected
    BY <2>1, Zenon DEF OnConnected, Pop
  <2>2. CASE OnDisconnected
    <3>1. connected' = FALSE /\ Head(queue).type = "Disconnected"
      BY <2>2 DEF OnDisconnected, Pop
    <3>2. Head(queue).type # "Connected" /\ Telling(Head(queue))
      BY <3>1 DEF Telling
    <3>3. QED  BY <3>1, <3>2, Zenon
  <2>3. QED  BY <2>1, <2>2
<1>4. \A n \in 0..(Len(queue) - 1) :
          After(connected', rest, n) <=> After(connected, queue, n + 1)
  BY <1>1, <1>2, <1>3, TailAfter
<1>5. \A i, j \in 1..(Len(queue) - 1) :
          Quiet(rest, i, j) => Quiet(queue, i + 1, j + 1)
  BY <1>1, <1>2, TailQuiet
<1> HIDE DEF rest
<1>6. ASSUME NEW i \in DOMAIN rest, NEW j \in DOMAIN rest, i <= j,
              Quiet(rest, i, j), After(connected', rest, i)
      PROVE  SessionOf(rest[i]) = SessionOf(rest[j])
  <2>1. Quiet(queue, i + 1, j + 1) /\ After(connected, queue, i + 1)
    BY <1>2, <1>4, <1>5, <1>6
  <2>2. i + 1 \in DOMAIN queue /\ j + 1 \in DOMAIN queue /\ i + 1 <= j + 1
    BY <1>2, <1>6
  <2>3. QED  BY <1>2, <2>1, <2>2 DEF SessionInv
<1>7. ASSUME NEW j \in DOMAIN rest, Up, Quiet(rest, j, Len(rest))
      PROVE  SessionOf(rest[j]) = session
  <2>1. Quiet(queue, j + 1, Len(queue)) /\ j + 1 \in DOMAIN queue
    BY <1>2, <1>5, <1>7, Len(rest) \in 1..(Len(queue) - 1),
       Len(rest) + 1 = Len(queue)
  <2>2. QED  BY <1>2, <1>7, <2>1 DEF SessionInv
<1>8. QED
  BY <1>1, <1>6, <1>7 DEF SessionInv, OneSessionInBuffer, Up

\* A chunk of the current session is queued.
LEMMA ChunkInv ==
    ASSUME TypeOK, SessionInv, ConnectedAgrees, PushChunk
    PROVE  SessionInv'
<1> DEFINE event == Notified(air)
           more  == Append(queue, event)
<1>1. /\ queue' = more /\ link
      /\ UNCHANGED <<clientVars, ppc, buf, connected>>
  BY DEF PushChunk, Streaming, Enqueue, handlerVars
<1>2. /\ event \in Events /\ ~Telling(event)
      /\ SessionOf(event) = session
  BY DEF TypeOK, SessionInv, Events, Notified, Telling, SessionOf
<1>3. /\ queue \in Seq(Events) /\ Len(queue) \in Nat
      /\ DOMAIN queue = 1..Len(queue) /\ DOMAIN more = 1..(Len(queue) + 1)
      /\ Len(more) = Len(queue) + 1 /\ more[Len(queue) + 1] = event
      /\ \A i \in DOMAIN queue : more[i] = queue[i]
      /\ connected \in BOOLEAN
  BY DEF TypeOK
<1>4. air'.session = session
  BY DEF PushChunk, NextChunk, TypeOK, SessionInv, Chunks
<1>5. \A n \in 0..Len(queue) :
          After(connected, more, n) <=> After(connected, queue, n)
  BY <1>2, <1>3, AppendAfter
<1>6. /\ \A i, j \in 1..Len(queue) : Quiet(more, i, j) => Quiet(queue, i, j)
      /\ \A i \in 1..(Len(queue) + 1) :
             Quiet(more, i, Len(queue) + 1) => Quiet(queue, i, Len(queue))
  BY <1>2, <1>3, AppendQuiet
<1>7. cpc # "stopped" /\ (Up <=> After(connected, queue, Len(queue)))
  BY <1>1 DEF SessionInv, ConnectedAgrees
<1> HIDE DEF event, more
<1>8. ASSUME NEW i \in DOMAIN more, NEW j \in DOMAIN more, i <= j,
             Quiet(more, i, j), After(connected, more, i)
      PROVE  SessionOf(more[i]) = SessionOf(more[j])
  <2>1. CASE j \in DOMAIN queue
    <3>1. i \in DOMAIN queue
      BY <1>3, <1>8, <2>1
    <3>2. After(connected, queue, i) /\ Quiet(queue, i, j)
      BY <1>3, <1>5, <1>6, <1>8, <2>1, <3>1
    <3>3. QED  BY <1>3, <1>8, <2>1, <3>1, <3>2 DEF SessionInv
  <2>2. CASE j = Len(queue) + 1 /\ i \in DOMAIN queue
    <3>1. Quiet(queue, i, Len(queue)) /\ After(connected, queue, i)
      BY <1>3, <1>5, <1>6, <1>8, <2>2
    <3>2. Quiet(queue, i + 1, Len(queue))
      BY <1>3, <2>2, <3>1 DEF Quiet
    <3>3. Up
      BY <1>3, <1>7, <2>2, <3>1, <3>2, QuietAfter,
         Len(queue) \in 0..Len(queue), i \in 0..Len(queue)
    <3>4. QED  BY <1>2, <1>3, <2>2, <3>1, <3>3 DEF SessionInv
  <2>3. CASE j = Len(queue) + 1 /\ i = j
    BY <2>3
  <2>4. QED  BY <1>3, <1>8, <2>1, <2>2, <2>3
<1>9. ASSUME NEW b \in DOMAIN buf, NEW j \in DOMAIN more,
             connected, Quiet(more, 1, j)
      PROVE  buf[b].session = SessionOf(more[j])
  <2>1. CASE j \in DOMAIN queue
    BY <1>3, <1>6, <1>9, <2>1, 1 \in 1..Len(queue) DEF SessionInv
  <2>2. CASE j = Len(queue) + 1
    <3>1. Quiet(queue, 1, Len(queue))
      BY <1>3, <1>6, <1>9, <2>2
    <3>2. Up
      BY <1>3, <1>7, <1>9, <3>1 DEF After, Quiet
    <3>3. QED  BY <1>2, <1>3, <2>2, <3>1, <3>2 DEF SessionInv
  <2>3. QED  BY <1>3, <2>1, <2>2
<1>10. ASSUME NEW j \in DOMAIN more, Up, Quiet(more, j, Len(more))
       PROVE  SessionOf(more[j]) = session
  <2>1. CASE j \in DOMAIN queue
    BY <1>3, <1>6, <1>10, <2>1 DEF SessionInv
  <2>2. CASE j = Len(queue) + 1
    BY <1>2, <1>3, <2>2
  <2>3. QED  BY <1>3, <2>1, <2>2
<1>11. ASSUME NEW b \in DOMAIN buf, Up, Quiet(more, 1, Len(more))
       PROVE  buf[b].session = session
  BY <1>3, <1>6, <1>11, 1 \in 1..(Len(queue) + 1) DEF SessionInv
<1>12. QED
  BY <1>1, <1>4, <1>8, <1>9, <1>10, <1>11
     DEF SessionInv, OneSessionInBuffer, Up, clientVars

\* A connection event is queued: behind it there is nothing yet.
LEMMA PushInv ==
    ASSUME TypeOK, SessionInv, PushConnected \/ PushDisconnected
    PROVE  SessionInv'
<1>1. PICK event \in Events : queue' = Append(queue, event) /\ Telling(event)
  BY DEF PushConnected, PushDisconnected, Enqueue, Events, Connected,
         Disconnected, Telling
<1> DEFINE more == Append(queue, event)
<1>2. /\ UNCHANGED <<link, session, air, ppc, buf, connected>>
      /\ cpc' \in {"signalUp", "signalDown"}
  BY DEF PushConnected, PushDisconnected, bmsVars, handlerVars
<1>3. /\ queue \in Seq(Events) /\ Len(queue) \in Nat
      /\ DOMAIN queue = 1..Len(queue) /\ DOMAIN more = 1..(Len(queue) + 1)
      /\ Len(more) = Len(queue) + 1 /\ more[Len(queue) + 1] = event
      /\ \A i \in DOMAIN queue : more[i] = queue[i]
      /\ connected \in BOOLEAN
  BY DEF TypeOK
<1>4. \A n \in 0..Len(queue) :
          After(connected, more, n) <=> After(connected, queue, n)
  BY <1>3, AppendAfter
<1>5. /\ \A i, j \in 1..Len(queue) : Quiet(more, i, j) => Quiet(queue, i, j)
      /\ \A i \in 1..(Len(queue) + 1) : ~Quiet(more, i, Len(queue) + 1)
  BY <1>1, <1>3, AppendQuiet
<1> HIDE DEF more
<1>6. ASSUME NEW i \in DOMAIN more, NEW j \in DOMAIN more, i <= j,
             Quiet(more, i, j), After(connected, more, i)
      PROVE  SessionOf(more[i]) = SessionOf(more[j])
  <2>1. j \in 1..Len(queue) /\ i \in 1..Len(queue)
    BY <1>3, <1>5, <1>6
  <2>2. After(connected, queue, i) /\ Quiet(queue, i, j)
    BY <1>3, <1>4, <1>5, <1>6, <2>1
  <2>3. QED  BY <1>3, <1>6, <2>1, <2>2 DEF SessionInv
<1>7. ASSUME NEW b \in DOMAIN buf, NEW j \in DOMAIN more,
             connected, Quiet(more, 1, j)
      PROVE  buf[b].session = SessionOf(more[j])
  BY <1>3, <1>5, <1>7, 1 \in 1..(Len(queue) + 1) DEF SessionInv
<1>8. \A j \in DOMAIN more : ~Quiet(more, j, Len(more))
  BY <1>3, <1>5
<1>9. ~Quiet(more, 1, Len(more))
  BY <1>3, <1>5, 1 \in 1..(Len(queue) + 1)
<1>10. queue' = more
  BY <1>1 DEF more
<1>11. QED
  BY <1>2, <1>6, <1>7, <1>8, <1>9, <1>10
     DEF SessionInv, OneSessionInBuffer

LEMMA SessionInductive ==
    TypeOK /\ SessionInv /\ ConnectedAgrees /\ [Next]_vars => SessionInv'
<1> SUFFICES ASSUME TypeOK, SessionInv, ConnectedAgrees, [Next]_vars
             PROVE  SessionInv'
  OBVIOUS
<1>1. CASE UNCHANGED <<queue, buf, connected, air, session, cpc, link, ppc>>
  BY <1>1 DEF SessionInv, OneSessionInBuffer, Up
<1> USE DEF clientVars, bmsVars, handlerVars, vars
<1>2. CASE Subscribe
  <2>1. /\ ~Up /\ ~Up' /\ cpc' # "stopped" /\ air'.session = session'
        /\ UNCHANGED <<queue, buf, connected>>
    BY <1>2 DEF Subscribe, Up
  <2>2. QED  BY <2>1 DEF SessionInv, OneSessionInBuffer
<1>3. CASE WriteConnected \/ Settle \/ WriteDisconnected
  <2>1. /\ Up' = Up /\ cpc' # "stopped"
        /\ UNCHANGED <<queue, buf, connected, air, session>>
    BY <1>3 DEF WriteConnected, Settle, WriteDisconnected, Up
  <2>2. QED  BY <2>1 DEF SessionInv, OneSessionInBuffer
<1>4. CASE LoseChunk
  <2>1. /\ UNCHANGED <<queue, buf, connected, session, cpc, link, ppc>>
        /\ air'.session = air.session
    BY <1>4 DEF LoseChunk, NextChunk, TypeOK, Chunks
  <2>2. QED  BY <2>1 DEF SessionInv, OneSessionInBuffer, Up
<1>5. CASE LinkDies
  BY <1>5 DEF LinkDies, SessionInv, OneSessionInBuffer, Up
<1>6. CASE Wake \/ PumpEnds
  <2>1. /\ UNCHANGED <<queue, buf, connected, air, session, cpc, link>>
        /\ cpc # "stopped"
    BY <1>6 DEF Wake, PumpEnds, SessionInv
  <2>2. QED  BY <2>1 DEF SessionInv, OneSessionInBuffer, Up
<1>7. CASE Shutdown
  <2>1. /\ UNCHANGED <<queue, buf, connected, air, session>>
        /\ Up' => Up
        /\ cpc' = "stopped" => ppc' = "stopped" /\ ~link'
    BY <1>7 DEF Shutdown, Up, SessionInv
  <2>2. QED  BY <2>1 DEF SessionInv, OneSessionInBuffer
<1>8. CASE PushConnected \/ PushDisconnected
  BY <1>8, PushInv
<1>9. CASE PushChunk
  BY <1>9, ChunkInv
<1>10. CASE OnBytes
  BY <1>10, BytesInv
<1>11. CASE OnConnected \/ OnDisconnected
  BY <1>11, ConnectionInv
<1>12. CASE WriteChunk \/ PollTick \/ Tick
  BY <1>1, <1>12 DEF WriteChunk, PollTick, Tick
<1>13. QED
  BY <1>1, <1>2, <1>3, <1>4, <1>5, <1>6, <1>7, <1>8, <1>9, <1>10, <1>11, <1>12
     DEF Next, ClientStep, PumpStep

\* While the shared state says connected, the assembler never mixes the bytes of
\* two subscriptions, whenever notifications and connection events interleave.
THEOREM BufferSafe == Spec => []OneSessionInBuffer
<1>1. Init => SessionInv
  BY DEF Init, SessionInv, OneSessionInBuffer
<1>2. SessionInv => OneSessionInBuffer
  BY DEF SessionInv
<1>3. QED
  BY <1>1, <1>2, SessionInductive, AgreementSafe, TypeCorrect, PTL DEF Spec
=============================================================================
