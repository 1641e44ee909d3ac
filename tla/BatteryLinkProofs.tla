-------------------------- MODULE BatteryLinkProofs --------------------------
(***************************************************************************)
(* Proofs about BatteryLink.                                               *)
(***************************************************************************)
EXTENDS BatteryLink, SequenceTheorems, TLAPS

Plus(s, b) == s + b

\* The theorems about folds and frames for each operator that is folded here.
Q == INSTANCE StreamTheorems WITH Op <- Queue,     Bodies <- Answers
M == INSTANCE StreamTheorems WITH Op <- Dispatch,  Bodies <- Answers
P == INSTANCE StreamTheorems WITH Op <- push_byte, Bodies <- Answers
T == INSTANCE StreamTheorems WITH Op <- Seen,      Bodies <- Answers
C == INSTANCE StreamTheorems WITH Op <- Plus,      Bodies <- Answers

-----------------------------------------------------------------------------
(* The instances speak of the operators of this module. *)

LEMMA QueueFold ==
    \A base, s : FoldLeft(Queue, base, s) = Q!FoldLeft(Queue, base, s)
BY Zenon DEF FoldLeft, Q!FoldLeft, MapThenFoldSet, Q!MapThenFoldSet, Max, Q!Max

LEMMA DispatchFold ==
    \A base, s : FoldLeft(Dispatch, base, s) = M!FoldLeft(Dispatch, base, s)
BY Zenon DEF FoldLeft, M!FoldLeft, MapThenFoldSet, M!MapThenFoldSet, Max, M!Max

LEMMA PushFold ==
    \A base, s : FoldLeft(push_byte, base, s) = P!FoldLeft(push_byte, base, s)
BY Zenon DEF FoldLeft, P!FoldLeft, MapThenFoldSet, P!MapThenFoldSet, Max, P!Max

LEMMA SeenFold ==
    \A base, s : FoldLeft(Seen, base, s) = T!FoldLeft(Seen, base, s)
BY Zenon DEF FoldLeft, T!FoldLeft, MapThenFoldSet, T!MapThenFoldSet, Max, T!Max

LEMMA SumFold ==
    \A s : jk_crc8(s) = C!FoldLeft(Plus, 0, s) % 256
BY Zenon DEF jk_crc8, FoldLeft, C!FoldLeft, MapThenFoldSet, C!MapThenFoldSet, Max, C!Max, Plus

LEMMA SameTake == /\ TakeFrames = M!TakeFrames
                  /\ Symbols = M!Symbols
<1>1. TakeFrames = M!TakeFrames
  BY Zenon DEF TakeFrames, M!TakeFrames, try_parse_pylontech, M!try_parse_pylontech,
     Symbols, M!Symbols, IsBody, M!IsBody, SelectInSeq, M!SelectInSeq, Min, M!Min
<1>2. Symbols = M!Symbols
  BY Zenon DEF Symbols, M!Symbols
<1>3. QED  BY <1>1, <1>2

LEMMA SumType ==
    ASSUME NEW s \in Seq(Int)
    PROVE  C!FoldLeft(Plus, 0, s) \in Int
<1> DEFINE I == Int
<1>1. 0 \in I /\ s \in Seq(I) /\ \A a \in I, x \in I : Plus(a, x) \in I
  BY DEF Plus
<1> HIDE DEF I
<1>2. C!FoldLeft(Plus, 0, s) \in I
  BY <1>1, C!FoldKeeps
<1>3. QED  BY <1>2 DEF I

LEMMA CrcType ==
    ASSUME NEW s \in Seq(Int)
    PROVE  jk_crc8(s) \in 0..255
<1>1. PICK n \in Int : n = C!FoldLeft(Plus, 0, s)
  BY SumType
<1>2. jk_crc8(s) = n % 256
  BY <1>1, SumFold, Zenon
<1>3. QED  BY <1>2

-----------------------------------------------------------------------------
(* Frames of the JK battery *)

Byte  == 0..255
Place == [byte : Byte, place : 0..kJkResponseSize]

\* The bytes of a frame without their places.
Body0(type, value) ==
    kJkResponseMagic \o <<type>> \o [i \in 1..(kJkResponseSize - 6) |-> value]
Raw(type, value) == Append(Body0(type, value), jk_crc8(Body0(type, value)))

LEMMA BodyIs ==
    ASSUME NEW t \in Types, NEW v \in Values
    PROVE  /\ Body0(t, v) \in Seq(Byte)
           /\ Len(Body0(t, v)) = kJkResponseSize - 1
           /\ \A i \in 1..4 : Body0(t, v)[i] = kJkResponseMagic[i]
           /\ Body0(t, v)[5] = t
           /\ \A i \in 6..(kJkResponseSize - 1) : Body0(t, v)[i] = v
<1> DEFINE n == kJkResponseSize - 6
           a == kJkResponseMagic
           b == <<t>>
           c == [i \in 1..n |-> v]
<1>1. n \in Nat /\ t \in Byte /\ v \in Byte
  BY JkSizeAssumption, ByteAssumption DEF Byte
<1>2. a \in Seq(Byte) /\ Len(a) = 4
  BY DEF kJkResponseMagic, Byte
<1>3. b \in Seq(Byte) /\ Len(b) = 1 /\ b[1] = t
  BY <1>1
<1>4. c \in Seq(Byte) /\ Len(c) = n /\ \A i \in 1..n : c[i] = v
  BY <1>1
<1> HIDE DEF n, a, b, c
<1> DEFINE ab == a \o b
<1>5. /\ ab \in Seq(Byte) /\ Len(ab) = 5
      /\ \A i \in 1..4 : ab[i] = a[i]
      /\ ab[5] = t
  <2>1. /\ ab \in Seq(Byte) /\ Len(ab) = Len(a) + Len(b)
        /\ \A i \in 1..(Len(a) + Len(b)) :
               ab[i] = IF i <= Len(a) THEN a[i] ELSE b[i - Len(a)]
    BY <1>2, <1>3, ConcatProperties
  <2> HIDE DEF ab
  <2>2. Len(a) + Len(b) = 5
    BY <1>2, <1>3
  <2>3. \A i \in 1..4 : ab[i] = a[i]
    BY <1>2, <2>1, <2>2
  <2>4. ab[5] = b[1]
    BY <1>2, <2>1, <2>2
  <2>5. QED  BY <1>3, <2>1, <2>2, <2>3, <2>4
<1> HIDE DEF ab
<1> DEFINE abc == ab \o c
<1>6. /\ abc \in Seq(Byte) /\ Len(abc) = 5 + n
      /\ \A i \in 1..5 : abc[i] = ab[i]
      /\ \A i \in 6..(5 + n) : abc[i] = v
  <2>1. /\ abc \in Seq(Byte) /\ Len(abc) = Len(ab) + Len(c)
        /\ \A i \in 1..(Len(ab) + Len(c)) :
               abc[i] = IF i <= Len(ab) THEN ab[i] ELSE c[i - Len(ab)]
    BY <1>4, <1>5, ConcatProperties
  <2> HIDE DEF abc
  <2>2. Len(ab) + Len(c) = 5 + n /\ Len(ab) = 5
    BY <1>4, <1>5
  <2>3. ASSUME NEW i \in 1..5 PROVE abc[i] = ab[i]
    BY <1>1, <2>1, <2>2
  <2>4. ASSUME NEW i \in 6..(5 + n) PROVE abc[i] = v
    <3>1. i - 5 \in 1..n /\ i \in 1..(5 + n) /\ ~(i <= 5)
      BY <1>1
    <3>2. QED  BY <1>4, <2>1, <2>2, <3>1
  <2>5. QED  BY <2>1, <2>2, <2>3, <2>4
<1> HIDE DEF abc
<1>7. Body0(t, v) = abc
  BY DEF Body0, abc, ab, a, b, c, n
<1>8. 5 + n = kJkResponseSize - 1
  BY JkSizeAssumption DEF n
<1>9. \A i \in 1..4 : abc[i] = kJkResponseMagic[i]
  BY <1>5, <1>6 DEF a
<1>10. abc[5] = t
  BY <1>5, <1>6
<1>11. QED  BY <1>6, <1>7, <1>8, <1>9, <1>10

LEMMA RawIs ==
    ASSUME NEW t \in Types, NEW v \in Values
    PROVE  /\ Raw(t, v) \in Seq(Byte)
           /\ Len(Raw(t, v)) = kJkResponseSize
           /\ \A i \in 1..4 : Raw(t, v)[i] = kJkResponseMagic[i]
           /\ Raw(t, v)[5] = t
           /\ \A i \in 6..(kJkResponseSize - 1) : Raw(t, v)[i] = v
           /\ Raw(t, v)[kJkResponseSize] = jk_crc8(Front(Raw(t, v)))
<1> DEFINE b == Body0(t, v)
           x == jk_crc8(b)
           r == Append(b, x)
<1>1. /\ b \in Seq(Byte)
      /\ Len(b) = kJkResponseSize - 1
      /\ \A i \in 1..4 : b[i] = kJkResponseMagic[i]
      /\ b[5] = t
      /\ \A i \in 6..(kJkResponseSize - 1) : b[i] = v
  BY BodyIs
<1> HIDE DEF b
<1>2. x \in Byte
  <2>1. b \in Seq(Int)
    <3>1. Byte \subseteq Int
      BY DEF Byte
    <3>2. QED  BY <1>1, <3>1, SeqMonotonic
  <2>2. QED  BY <2>1, CrcType DEF Byte
<1> HIDE DEF x
<1>3. /\ r \in Seq(Byte) /\ Len(r) = kJkResponseSize
      /\ \A i \in 1..(kJkResponseSize - 1) : r[i] = b[i]
      /\ r[kJkResponseSize] = x
  BY <1>1, <1>2, AppendProperties, JkSizeAssumption
<1>4. Front(r) = b
  BY <1>1, <1>2, <1>3, JkSizeAssumption DEF Front
<1>5. /\ \A i \in 1..4 : r[i] = kJkResponseMagic[i]
      /\ r[5] = t
      /\ \A i \in 6..(kJkResponseSize - 1) : r[i] = v
  BY <1>1, <1>3, JkSizeAssumption
<1>6. r = Raw(t, v)
  BY DEF Raw, b, x
<1> HIDE DEF r
<1>7. r[kJkResponseSize] = jk_crc8(Front(r))
  BY <1>3, <1>4 DEF x
<1>8. QED  BY <1>3, <1>5, <1>6, <1>7

LEMMA FrameIs ==
    ASSUME NEW t \in Types, NEW v \in Values
    PROVE  /\ JkFrame(t, v) \in Seq(Place)
           /\ Len(JkFrame(t, v)) = kJkResponseSize
           /\ \A i \in 1..kJkResponseSize :
                  JkFrame(t, v)[i] = [byte |-> Raw(t, v)[i], place |-> i]
<1> DEFINE r == Raw(t, v)
           f == [i \in 1..kJkResponseSize |-> [byte |-> r[i], place |-> i]]
<1>1. r \in Seq(Byte) /\ Len(r) = kJkResponseSize
  BY RawIs
<1>2. JkFrame(t, v) = [i \in DOMAIN r |-> [byte |-> r[i], place |-> i]]
  BY DEF JkFrame, Raw, Body0
<1> HIDE DEF r
<1>3. JkFrame(t, v) = f
  BY <1>1, <1>2, LenProperties
<1>4. \A i \in 1..kJkResponseSize : f[i] = [byte |-> r[i], place |-> i] /\ f[i] \in Place
  BY <1>1, JkSizeAssumption, ElementOfSeq DEF Place
<1>5. f \in Seq(Place) /\ Len(f) = kJkResponseSize
  BY <1>4, JkSizeAssumption
<1>6. QED  BY <1>3, <1>4, <1>5 DEF r

-----------------------------------------------------------------------------
(* Type correctness *)

PylRequests == {settings_request, poll_request}

\* What a driver holds between two chunks, and while it takes one.
Held(buf) ==
    /\ Len(buf) < kJkResponseSize
    /\ \A i \in 1..4 : i <= Len(buf) => buf[i] = kJkResponseMagic[i]

Assembler ==
    {a \in [buf : Seq(Byte), ready : Seq(Byte)] :
        Held(a.buf) /\ (a.ready = <<>> \/ Len(a.ready) = kJkResponseSize)}

Counts == {0} \cup Infos

Master ==
    {p \in [rx : Seq(Symbols), cells : Counts] :
        p.rx # <<>> => M!IsOpen(p.rx) /\ Len(p.rx) <= kMaxFrameLen}

Trace == [run : 0..kJkResponseSize, clean : BOOLEAN, stray : BOOLEAN, missed : Nat]

Reported == Infos \cup 0..255

TypeInv ==
    /\ link \in {"bluetooth", "ttl"}
    /\ asked \in Seq(PylRequests)
    /\ shared \in [connected : BOOLEAN, pack : Reported, settings : Reported]
    /\ due \in BOOLEAN
    /\ faults \in 0..MaxFaults
    /\ trace \in Trace
    /\ link = "ttl" => wire \in Seq(Symbols) /\ proto \in Master
    /\ link = "bluetooth" =>
          /\ wire \in Seq(Place) /\ asked = <<>>
          /\ proto \in Assembler /\ proto.ready = <<>>

\* One byte more in the assembler.
LEMMA PushType ==
    \A a \in Assembler, b \in Byte : push_byte(a, b) \in Assembler
<1> SUFFICES ASSUME NEW a \in Assembler, NEW b \in Byte
             PROVE  push_byte(a, b) \in Assembler
  OBVIOUS
<1> DEFINE buf == Append(a.buf, b)
           n   == Len(buf)
           r   == IF jk_crc8(Front(buf)) = b THEN buf ELSE a.ready
<1>1. /\ a \in [buf : Seq(Byte), ready : Seq(Byte)]
      /\ Held(a.buf) /\ (a.ready = <<>> \/ Len(a.ready) = kJkResponseSize)
  BY DEF Assembler
<1>2. /\ buf \in Seq(Byte) /\ n = Len(a.buf) + 1 /\ Len(a.buf) \in Nat
      /\ \A i \in 1..Len(a.buf) : buf[i] = a.buf[i]
      /\ buf[n] = b
  BY <1>1, AppendProperties, LenProperties
<1>3. <<>> \in Seq(Byte) /\ Held(<<>>)
  BY JkSizeAssumption DEF Held
<1>4. [a EXCEPT !.buf = <<>>] \in Assembler
  BY <1>1, <1>3 DEF Assembler
<1>5. ASSUME n = kJkResponseSize
      PROVE  [buf |-> <<>>, ready |-> r] \in Assembler
  <2>1. r \in Seq(Byte) /\ (r = <<>> \/ Len(r) = kJkResponseSize)
    BY <1>1, <1>2, <1>5
  <2> HIDE DEF r
  <2>2. QED  BY <1>3, <2>1 DEF Assembler
<1>6. ASSUME ~(n <= 4 /\ b # kJkResponseMagic[n]), n # kJkResponseSize
      PROVE  [a EXCEPT !.buf = buf] \in Assembler
  <2>1. n < kJkResponseSize
    <3> DEFINE l == Len(a.buf)
    <3>1. /\ l \in Nat /\ n = l + 1 /\ l < kJkResponseSize /\ n # kJkResponseSize
          /\ kJkResponseSize \in Nat
      BY <1>1, <1>2, <1>6, JkSizeAssumption DEF Held
    <3> HIDE DEF l, n
    <3>2. QED  BY <3>1
  <2>2. ASSUME NEW i \in 1..4, i <= n PROVE buf[i] = kJkResponseMagic[i]
    <3>1. CASE i = n
      BY <1>2, <1>6, <2>2, <3>1
    <3>2. CASE i # n
      <4>1. i \in 1..Len(a.buf) /\ i <= Len(a.buf)
        BY <1>2, <2>2, <3>2
      <4>2. QED  BY <1>1, <1>2, <4>1 DEF Held
    <3>3. QED  BY <3>1, <3>2
  <2>3. Held(buf)
    BY <2>1, <2>2 DEF Held
  <2> HIDE DEF buf
  <2>4. QED  BY <1>1, <1>2, <2>3 DEF Assembler
<1> DEFINE p1 == a.buf = <<>> /\ b # kJkResponseMagic[1]
           p2 == n <= 4 /\ b # kJkResponseMagic[n]
           p3 == n = kJkResponseSize
           v2 == [a EXCEPT !.buf = <<>>]
           v3 == [buf |-> <<>>, ready |-> r]
           v4 == [a EXCEPT !.buf = buf]
<1>7. push_byte(a, b) = CASE p1 -> a [] p2 -> v2 [] p3 -> v3 [] OTHER -> v4
  BY Zenon DEF push_byte
<1>8. (p3 => v3 \in Assembler) /\ (~p2 /\ ~p3 => v4 \in Assembler) /\ v2 \in Assembler
  BY <1>4, <1>5, <1>6
<1> HIDE DEF p1, p2, p3, v2, v3, v4
<1>9. push_byte(a, b) \in {a, v2} \/ (p3 /\ push_byte(a, b) = v3)
          \/ (~p2 /\ ~p3 /\ push_byte(a, b) = v4)
  BY <1>7, Zenon
<1>10. QED  BY <1>8, <1>9, Zenon

\* A whole chunk.
LEMMA FeedType ==
    ASSUME NEW a \in Assembler, NEW data \in Seq(Byte)
    PROVE  /\ push_chunk(a, data) \in Assembler
           /\ jk_feed(a, data).proto \in Assembler
           /\ jk_feed(a, data).proto.ready = <<>>
           /\ jk_feed(a, data).telemetry \in Reported
           /\ jk_feed(a, data).settings \in Reported
<1> DEFINE b == push_chunk(a, data)
<1>1. b \in Assembler
  <2>1. P!FoldLeft(push_byte, a, data) \in Assembler
    BY PushType, P!FoldKeeps
  <2>2. QED  BY <2>1, PushFold, Zenon DEF push_chunk
<1> HIDE DEF b
<1>2. /\ b \in [buf : Seq(Byte), ready : Seq(Byte)] /\ Held(b.buf)
      /\ b.ready = <<>> \/ Len(b.ready) = kJkResponseSize
  BY <1>1 DEF Assembler
<1>3. [b EXCEPT !.ready = <<>>] \in Assembler
  <2>1. <<>> \in Seq(Byte)
    OBVIOUS
  <2>2. QED  BY <1>2, <2>1 DEF Assembler
<1>4. \A type : Parsed(b.ready, type) \in Reported
  <2>1. CASE b.ready = <<>>
    BY <2>1, InfoAssumption DEF Parsed, Reported
  <2>2. CASE b.ready # <<>>
    <3>1. b.ready[6] \in Byte
      BY <1>2, <2>2, JkSizeAssumption, ElementOfSeq
    <3>2. QED  BY <3>1, InfoAssumption, Zenon DEF Parsed, Reported, Byte
  <2>3. QED  BY <2>1, <2>2
<1>5. jk_feed(a, data) =
        [proto     |-> [b EXCEPT !.ready = <<>>],
         telemetry |-> Parsed(b.ready, kJkFrameTypeCellInfo),
         settings  |-> Parsed(b.ready, kJkFrameTypeSettings)]
  BY DEF jk_feed, parse_cell_info, parse_settings, b
<1>6. [b EXCEPT !.ready = <<>>].ready = <<>>
  BY <1>2
<1> DEFINE j == jk_feed(a, data)
<1>7. /\ j.proto = [b EXCEPT !.ready = <<>>]
      /\ j.telemetry = Parsed(b.ready, kJkFrameTypeCellInfo)
      /\ j.settings = Parsed(b.ready, kJkFrameTypeSettings)
  BY <1>5
<1> HIDE DEF j
<1>8. j.proto \in Assembler /\ j.proto.ready = <<>>
  BY <1>3, <1>6, <1>7
<1>9. j.telemetry \in Reported /\ j.settings \in Reported
  BY <1>4, <1>7, Zenon
<1>10. QED  BY <1>1, <1>8, <1>9 DEF b, j

\* What Dispatch() has made of the frames so far.
Dispatched ==
    [proto : Master, telemetry : Infos, settings : Counts]

LEMMA DispatchType ==
    \A m \in Dispatched, f \in Answers : Dispatch(m, f) \in Dispatched
<1> SUFFICES ASSUME NEW m \in Dispatched, NEW f \in Answers
             PROVE  Dispatch(m, f) \in Dispatched
  OBVIOUS
<1> DEFINE p1 == (f.adr = wire_adr /\ f.info # None) /\ f.cid2 = "analog"
           p2 == (f.adr = wire_adr /\ f.info # None) /\ f.cid2 = "system_param"
           v1 == [m EXCEPT !.proto.cells = f.info, !.telemetry = f.info]
           v2 == [m EXCEPT !.settings = m.proto.cells]
<1>1. Dispatch(m, f) = CASE p1 -> v1 [] p2 -> v2 [] OTHER -> m
  BY Zenon DEF Dispatch
<1>2. f.info \in Infos /\ f.info \in Counts
  BY DEF Answers, Counts
<1>3. m.proto \in Master /\ m.proto.cells \in Counts
  BY DEF Dispatched, Master
<1>4. v1 \in Dispatched
  <2>1. [m.proto EXCEPT !.cells = f.info] \in Master
    BY <1>2, <1>3 DEF Master
  <2>2. v1 = [m EXCEPT !.proto = [m.proto EXCEPT !.cells = f.info], !.telemetry = f.info]
    BY DEF Dispatched
  <2>3. QED  BY <1>2, <2>1, <2>2 DEF Dispatched
<1>5. v2 \in Dispatched
  BY <1>3 DEF Dispatched
<1> HIDE DEF p1, p2, v1, v2
<1>6. Dispatch(m, f) \in {v1, v2, m}
  BY <1>1, Zenon
<1>7. QED  BY <1>4, <1>5, <1>6, Zenon

\* A fold over the frames of a chunk, with the master as it is before them.
Start(p, taken) ==
    [proto |-> [p EXCEPT !.rx = taken.rest], telemetry |-> None, settings |-> None]

LEMMA NewRx ==
    ASSUME NEW p \in Master, NEW S \in SUBSET Symbols, p.rx \in Seq(S),
           NEW data \in Seq(S)
    PROVE  LET taken == TakeFrames[p.rx \o data]
           IN  /\ Start(p, taken) \in Dispatched
               /\ taken.rest \in Seq(S)
               /\ taken.bodies \in Seq(S \cap Answers)
               /\ taken.bodies \in Seq(Answers)
<1> DEFINE taken == M!TakeFrames[p.rx \o data]
<1>1. p.rx \o data \in Seq(S)
  BY ConcatProperties
<1>2. kMaxFrameLen \in Nat /\ S \in SUBSET M!Symbols
  BY BoundAssumption, SameTake
<1>3. /\ taken \in [rest : Seq(S), bodies : Seq(S \cap Answers)]
      /\ taken.rest # <<>> => M!IsOpen(taken.rest) /\ Len(taken.rest) <= kMaxFrameLen
  BY <1>1, <1>2, M!TakeType
<1> HIDE DEF taken
<1>4. taken.rest \in Seq(Symbols) /\ taken.bodies \in Seq(Answers)
  BY <1>3, SeqMonotonic
<1>5. [p EXCEPT !.rx = taken.rest] \in Master
  BY <1>3, <1>4 DEF Master
<1>6. Start(p, taken) \in Dispatched
  BY <1>5, InfoAssumption DEF Start, Dispatched, Counts
<1>7. QED  BY <1>3, <1>4, <1>6, SameTake DEF taken

LEMMA PylFeedType ==
    ASSUME NEW p \in Master, NEW data \in Seq(Symbols)
    PROVE  pyl_feed(p, data) \in Dispatched
<1> DEFINE taken == TakeFrames[p.rx \o data]
<1>1. p.rx \in Seq(Symbols)
  BY DEF Master
<1>2. Start(p, taken) \in Dispatched /\ taken.bodies \in Seq(Answers)
  BY <1>1, NewRx
<1> HIDE DEF taken
<1>3. M!FoldLeft(Dispatch, Start(p, taken), taken.bodies) \in Dispatched
  BY <1>2, DispatchType, M!FoldKeeps
<1>4. QED  BY <1>3, DispatchFold, Zenon DEF pyl_feed, Start, taken

\* What comes on the line.
LEMMA RequestType ==
    /\ settings_request = [adr |-> wire_adr, cid2 |-> "system_param"]
    /\ poll_request = [adr |-> wire_adr, cid2 |-> "analog"]
    /\ wire_adr \in 1..17 /\ BatteryAdr = wire_adr
BY BoundAssumption DEF settings_request, poll_request, build_system_param_request,
   build_analog_request, wire_adr, BatteryAdr

LEMMA AnswerType ==
    ASSUME NEW req \in PylRequests, NEW info \in Infos
    PROVE  Body(req, info) \in Answers /\ Body(req, info).adr = wire_adr
             /\ Body(req, info).info = info
<1>1. /\ req.adr = wire_adr /\ wire_adr \in 1..18
      /\ req.cid2 \in {"analog", "system_param"}
  BY RequestType DEF PylRequests
<1>2. (IF reply = "rtn" THEN ok_response(req).cid2 ELSE req.cid2)
         \in {"analog", "system_param", "ok"}
  BY <1>1 DEF ok_response
<1>3. QED  BY <1>1, <1>2 DEF Body, Answers

LEMMA FrameType ==
    ASSUME NEW body \in Answers
    PROVE  build_pylontech(body) \in Seq(Symbols)
BY DEF build_pylontech, Symbols

LEMMA QueueType ==
    ASSUME NEW q \in Seq(PylRequests)
    PROVE  \A s \in Seq(PylRequests \cup {None}) : FoldLeft(Queue, q, s) \in Seq(PylRequests)
<1> DEFINE A == Seq(PylRequests)
           R == PylRequests \cup {None}
<1>1. \A a \in A, r \in R : Queue(a, r) \in A
  BY DEF Queue
<1> HIDE DEF A, R
<1>2. \A s \in Seq(R) : Q!FoldLeft(Queue, q, s) \in A
  <2>1. q \in A
    BY DEF A
  <2>2. QED  BY <1>1, <2>1, Q!FoldKeeps
<1>3. QED  BY <1>2, QueueFold, Zenon DEF A, R

LEMMA SendType ==
    ASSUME TypeInv, NEW requests \in Seq(PylRequests), Send(requests)
    PROVE  /\ asked' \in Seq(PylRequests) /\ faults' \in 0..MaxFaults
           /\ link = "bluetooth" => asked' = asked
<1>0. link = "bluetooth" => UNCHANGED <<asked, faults>>
  BY DEF Send
<1>1. asked \in Seq(PylRequests) /\ faults \in 0..MaxFaults /\ MaxFaults \in Nat
  BY BoundAssumption DEF TypeInv
<1>2. CASE link = "bluetooth"
  BY <1>0, <1>1, <1>2
<1>3. CASE link = "ttl" /\ asked' = FoldLeft(Queue, asked, requests) /\ UNCHANGED faults
  <2>1. requests \in Seq(PylRequests \cup {None})
    BY SeqMonotonic
  <2>2. FoldLeft(Queue, asked, requests) \in Seq(PylRequests)
    BY <1>1, <2>1, QueueType
  <2>3. QED  BY <1>1, <1>3, <2>2
<1>4. CASE /\ link = "ttl" /\ Disturb
           /\ \E lost \in SUBSET DOMAIN requests :
                asked' = FoldLeft(Queue, asked,
                            [i \in DOMAIN requests |->
                                IF i \in lost THEN None ELSE requests[i]])
  <2>1. PICK lost \in SUBSET DOMAIN requests :
                asked' = FoldLeft(Queue, asked,
                            [i \in DOMAIN requests |->
                                IF i \in lost THEN None ELSE requests[i]])
    BY <1>4
  <2> DEFINE got == [i \in DOMAIN requests |-> IF i \in lost THEN None ELSE requests[i]]
  <2>2. got \in Seq(PylRequests \cup {None})
    OBVIOUS
  <2> HIDE DEF got
  <2>3. FoldLeft(Queue, asked, got) \in Seq(PylRequests)
    BY <1>1, <2>2, QueueType
  <2>4. faults' \in 0..MaxFaults
    BY <1>1, <1>4 DEF Disturb
  <2>5. QED  BY <1>4, <2>1, <2>3, <2>4 DEF got
<1>5. QED  BY <1>2, <1>3, <1>4 DEF Send

LEMMA SeenType ==
    \A t \in Trace, e \in Place : Seen(t, e) \in Trace
<1> SUFFICES ASSUME NEW t \in Trace, NEW e \in Place PROVE Seen(t, e) \in Trace
  OBVIOUS
<1> DEFINE run   == IF e.place = 1 \/ (e.place > 1 /\ t.run + 1 = e.place) THEN e.place ELSE 0
           clean == IF e.place = 1 THEN ~t.stray ELSE t.clean
           miss  == IF run = kJkResponseSize /\ clean THEN t.missed + 1 ELSE t.missed
           stray == e.byte = kJkResponseMagic[1]
<1>1. run \in 0..kJkResponseSize
  BY JkSizeAssumption DEF Place
<1>2. clean \in BOOLEAN
  BY Zenon DEF Trace
<1>3. miss \in Nat
  BY DEF Trace
<1>4. stray \in BOOLEAN
  OBVIOUS
<1>5. Seen(t, e) = [run |-> run, clean |-> clean, stray |-> stray, missed |-> miss]
  BY Zenon DEF Seen
<1> HIDE DEF run, clean, miss, stray
<1>6. QED  BY <1>1, <1>2, <1>3, <1>4, <1>5 DEF Trace

LEMMA NewTypes ==
    /\ NewAssembler \in Assembler /\ NewAssembler.ready = <<>>
    /\ NewMaster \in Master
    /\ Unseen \in Trace
    /\ <<>> \in Seq(Symbols) /\ <<>> \in Seq(Place) /\ <<>> \in Seq(PylRequests)
<1>1. <<>> \in Seq(Byte) /\ Held(<<>>)
  BY JkSizeAssumption DEF Held
<1>2. NewAssembler \in Assembler /\ NewAssembler.ready = <<>>
  BY <1>1 DEF NewAssembler, Assembler
<1>3. NewMaster \in Master
  BY DEF NewMaster, Master, Counts
<1>4. Unseen \in Trace
  BY JkSizeAssumption DEF Unseen, Trace
<1>5. QED  BY <1>2, <1>3, <1>4

LEMMA ResetType ==
    ASSUME TypeInv
    PROVE  /\ link = "ttl" => Reset(proto) \in Master /\ Reset(proto).rx = <<>>
           /\ link = "bluetooth" => Reset(proto) \in Assembler /\ Reset(proto).ready = <<>>
<1>1. link = "ttl" => Reset(proto) \in Master /\ Reset(proto).rx = <<>>
  <2>1. SUFFICES ASSUME link = "ttl" PROVE Reset(proto) \in Master /\ Reset(proto).rx = <<>>
    OBVIOUS
  <2>2. proto \in Master /\ Reset(proto) = [proto EXCEPT !.rx = <<>>]
    BY <2>1 DEF TypeInv, Reset, pyl_reset
  <2>3. <<>> \in Seq(Symbols)
    OBVIOUS
  <2> DEFINE r == [proto EXCEPT !.rx = <<>>]
  <2>4. r \in [rx : Seq(Symbols), cells : Counts] /\ r.rx = <<>>
    BY <2>2, <2>3 DEF Master
  <2> HIDE DEF r
  <2>5. r \in Master
    BY <2>4 DEF Master
  <2>6. QED  BY <2>2, <2>4, <2>5 DEF r
<1>2. link = "bluetooth" => Reset(proto) = NewAssembler
  BY DEF Reset
<1>3. QED  BY <1>1, <1>2, NewTypes

\* A chunk of k elements and what stays on the line.
LEMMA ChunkIs ==
    ASSUME NEW S, wire \in Seq(S), NEW k \in 1..Min({MaxChunk, Len(wire)})
    PROVE  /\ k \in 1..Len(wire) /\ k <= MaxChunk
           /\ SubSeq(wire, 1, k) \in Seq(S) /\ Len(SubSeq(wire, 1, k)) = k
           /\ \A i \in 1..k : SubSeq(wire, 1, k)[i] = wire[i]
           /\ SubSeq(wire, k + 1, Len(wire)) \in Seq(S)
           /\ Len(SubSeq(wire, k + 1, Len(wire))) = Len(wire) - k
           /\ \A i \in 1..(Len(wire) - k) : SubSeq(wire, k + 1, Len(wire))[i] = wire[i + k]
<1>1. Len(wire) \in Nat /\ MaxChunk \in Nat
  BY ChunkAssumption, JkSizeAssumption, LenProperties
<1>2. Min({MaxChunk, Len(wire)}) \in Nat /\ Min({MaxChunk, Len(wire)}) <= MaxChunk
          /\ Min({MaxChunk, Len(wire)}) <= Len(wire)
  <2> DEFINE I == {MaxChunk, Len(wire)}
  <2>1. I \in SUBSET Nat /\ I # {}
    BY <1>1
  <2>2. Min(I) = M!Min(I)
    BY Zenon DEF Min, M!Min
  <2>3. MaxChunk \in I /\ Len(wire) \in I
    OBVIOUS
  <2> HIDE DEF I
  <2>4. M!Min(I) \in I /\ \A i \in I : M!Min(I) <= i
    BY <2>1, M!LeastIs
  <2>5. QED  BY <2>1, <2>2, <2>3, <2>4 DEF I
<1>3. k \in 1..Len(wire) /\ k <= MaxChunk
  BY <1>1, <1>2
<1>4. \A i \in 1..k : wire[i] \in S
  BY <1>1, <1>3, ElementOfSeq
<1>5. /\ SubSeq(wire, 1, k) \in Seq(S)
      /\ Len(SubSeq(wire, 1, k)) = IF 1 <= k THEN k - 1 + 1 ELSE 0
      /\ \A i \in 1..(k - 1 + 1) : SubSeq(wire, 1, k)[i] = wire[1 + i - 1]
  BY <1>1, <1>3, <1>4, SubSeqProperties
<1>6. Len(SubSeq(wire, 1, k)) = k /\ \A i \in 1..k : SubSeq(wire, 1, k)[i] = wire[i]
  BY <1>1, <1>3, <1>5
<1>7. /\ M!Rest(wire, k) \in Seq(S)
      /\ Len(M!Rest(wire, k)) = Len(wire) - k
      /\ \A i \in 1..(Len(wire) - k) : M!Rest(wire, k)[i] = wire[i + k]
  BY <1>3, M!RestIs
<1>8. QED  BY <1>3, <1>5, <1>6, <1>7 DEF M!Rest

\* on_bytes() on either link, with the length of the chunk.
Update(parsed) == parsed.telemetry # None /\ due

Handed(parsed) ==
    /\ proto' = parsed.proto
    /\ due' = (due /\ ~Update(parsed))
    /\ shared' = [shared EXCEPT
           !.pack = IF Update(parsed) THEN parsed.telemetry ELSE @,
           !.settings = IF parsed.settings # None THEN parsed.settings ELSE @]
    /\ UNCHANGED <<link, reply, asked, faults>>

ChunkBytes(k) == [i \in 1..k |-> SubSeq(wire, 1, k)[i].byte]

LEMMA TtlBytes ==
    ASSUME on_bytes, link = "ttl"
    PROVE  \E k \in 1..Min({MaxChunk, Len(wire)}) :
               /\ wire' = SubSeq(wire, k + 1, Len(wire))
               /\ Handed(pyl_feed(proto, SubSeq(wire, 1, k)))
               /\ trace' = trace
BY Zenon DEF on_bytes, Handed, Update

LEMMA JkBytes ==
    ASSUME on_bytes, link = "bluetooth"
    PROVE  \E k \in 1..Min({MaxChunk, Len(wire)}) :
               /\ wire' = SubSeq(wire, k + 1, Len(wire))
               /\ Handed(jk_feed(proto, ChunkBytes(k)))
               /\ trace' = LET t == FoldLeft(Seen, trace, SubSeq(wire, 1, k))
                           IN  IF push_chunk(proto, ChunkBytes(k)).ready = <<>> THEN t
                               ELSE [t EXCEPT !.missed = 0]
<1>1. link # "ttl"
  OBVIOUS
<1>2. QED  BY <1>1, Zenon DEF on_bytes, Handed, Update, ChunkBytes

\* What was reported gets into the shared state as it is.
LEMMA HandedType ==
    ASSUME TypeInv, NEW parsed, Handed(parsed),
           parsed.telemetry \in Reported, parsed.settings \in Reported
    PROVE  /\ shared' \in [connected : BOOLEAN, pack : Reported, settings : Reported]
           /\ due' \in BOOLEAN
           /\ shared'.connected = shared.connected
           /\ shared'.settings =
                  IF parsed.settings # None THEN parsed.settings ELSE shared.settings
<1> DEFINE p == IF Update(parsed) THEN parsed.telemetry ELSE shared.pack
           s == IF parsed.settings # None THEN parsed.settings ELSE shared.settings
<1>1. shared \in [connected : BOOLEAN, pack : Reported, settings : Reported]
  BY DEF TypeInv
<1>2. p \in Reported /\ s \in Reported
  BY <1>1
<1>3. shared' = [shared EXCEPT !.pack = p, !.settings = s]
  BY DEF Handed
<1>4. due' \in BOOLEAN
  <2>1. due \in BOOLEAN /\ due' = (due /\ ~Update(parsed))
    BY Zenon DEF TypeInv, Handed
  <2>2. QED  BY <2>1, Zenon
<1> HIDE DEF p, s
<1>5. shared' \in [connected : BOOLEAN, pack : Reported, settings : Reported]
        /\ shared'.connected = shared.connected /\ shared'.settings = s
  BY <1>1, <1>2, <1>3
<1>6. QED  BY <1>4, <1>5 DEF s

LEMMA ByteChunk ==
    ASSUME wire \in Seq(Place), NEW k \in 1..Min({MaxChunk, Len(wire)})
    PROVE  /\ ChunkBytes(k) \in Seq(Byte) /\ Len(ChunkBytes(k)) = k
           /\ \A i \in 1..k : ChunkBytes(k)[i] = wire[i].byte
<1>1. /\ k \in 1..Len(wire)
      /\ \A i \in 1..k : SubSeq(wire, 1, k)[i] = wire[i]
  BY ChunkIs
<1>2. \A i \in 1..k : wire[i] \in Place
  BY <1>1, LenProperties, ElementOfSeq
<1>3. \A i \in 1..k : ChunkBytes(k)[i] = wire[i].byte /\ wire[i].byte \in Byte
  BY <1>1, <1>2 DEF ChunkBytes, Place
<1>4. ChunkBytes(k) = [i \in 1..k |-> ChunkBytes(k)[i]]
  BY DEF ChunkBytes
<1>5. k \in Nat
  BY <1>1, LenProperties
<1>6. QED  BY <1>3, <1>4, <1>5

LEMMA BytesType ==
    ASSUME TypeInv, on_bytes
    PROVE  TypeInv'
<1>1. CASE link = "ttl"
  <2>1. wire \in Seq(Symbols) /\ proto \in Master
    BY <1>1 DEF TypeInv
  <2>2. PICK k \in 1..Min({MaxChunk, Len(wire)}) :
               /\ wire' = SubSeq(wire, k + 1, Len(wire))
               /\ Handed(pyl_feed(proto, SubSeq(wire, 1, k)))
               /\ trace' = trace
    BY <1>1, TtlBytes
  <2> DEFINE parsed == pyl_feed(proto, SubSeq(wire, 1, k))
  <2>3. wire' \in Seq(Symbols) /\ SubSeq(wire, 1, k) \in Seq(Symbols)
    BY <2>1, <2>2, ChunkIs
  <2>4. parsed \in Dispatched
    BY <2>1, <2>3, PylFeedType
  <2> HIDE DEF parsed
  <2>5. Handed(parsed)
    BY <2>2 DEF parsed
  <2>6. parsed.proto \in Master /\ parsed.telemetry \in Reported /\ parsed.settings \in Reported
    BY <2>4, InfoAssumption DEF Dispatched, Reported, Counts
  <2>7. /\ shared' \in [connected : BOOLEAN, pack : Reported, settings : Reported]
        /\ due' \in BOOLEAN
    BY <2>5, <2>6, HandedType
  <2>8. proto' \in Master /\ link' = "ttl" /\ asked' = asked /\ faults' = faults
    BY <1>1, <2>5, <2>6 DEF Handed
  <2>9. QED  BY <2>2, <2>3, <2>7, <2>8 DEF TypeInv
<1>2. CASE link = "bluetooth"
  <2>1. wire \in Seq(Place) /\ proto \in Assembler /\ trace \in Trace
    BY <1>2 DEF TypeInv
  <2>2. PICK k \in 1..Min({MaxChunk, Len(wire)}) :
               /\ wire' = SubSeq(wire, k + 1, Len(wire))
               /\ Handed(jk_feed(proto, ChunkBytes(k)))
               /\ trace' = LET t == FoldLeft(Seen, trace, SubSeq(wire, 1, k))
                           IN  IF push_chunk(proto, ChunkBytes(k)).ready = <<>> THEN t
                               ELSE [t EXCEPT !.missed = 0]
    BY <1>2, JkBytes
  <2> DEFINE parsed == jk_feed(proto, ChunkBytes(k))
             t == FoldLeft(Seen, trace, SubSeq(wire, 1, k))
  <2>3. wire' \in Seq(Place) /\ SubSeq(wire, 1, k) \in Seq(Place)
    BY <2>1, <2>2, ChunkIs
  <2>4. parsed.proto \in Assembler /\ parsed.proto.ready = <<>>
          /\ parsed.telemetry \in Reported /\ parsed.settings \in Reported
    BY <2>1, ByteChunk, FeedType
  <2>5. t \in Trace
    <3>1. T!FoldLeft(Seen, trace, SubSeq(wire, 1, k)) \in Trace
      BY <2>1, <2>3, SeenType, T!FoldKeeps
    <3>2. QED  BY <3>1, SeenFold, Zenon
  <2>6. trace' \in {t, [t EXCEPT !.missed = 0]}
    BY <2>2, Zenon
  <2> HIDE DEF parsed, t
  <2>7. trace' \in Trace
    BY <2>5, <2>6 DEF Trace
  <2>8. Handed(parsed)
    BY <2>2 DEF parsed
  <2>9. /\ shared' \in [connected : BOOLEAN, pack : Reported, settings : Reported]
        /\ due' \in BOOLEAN
    BY <2>4, <2>8, HandedType
  <2>10. proto' \in Assembler /\ proto'.ready = <<>> /\ link' = "bluetooth"
           /\ asked' = <<>> /\ faults' = faults
    BY <1>2, <2>4, <2>8 DEF Handed, TypeInv
  <2>11. QED  BY <2>3, <2>7, <2>9, <2>10 DEF TypeInv
<1>3. QED  BY <1>1, <1>2 DEF TypeInv

LEMMA TypeInit == Init => TypeInv
<1> SUFFICES ASSUME Init PROVE TypeInv
  OBVIOUS
<1>1. link \in {"bluetooth", "ttl"}
  BY LinkAssumption DEF Init
<1>2. shared \in [connected : BOOLEAN, pack : Reported, settings : Reported]
  BY InfoAssumption DEF Init, Reported
<1>3. faults \in 0..MaxFaults
  BY BoundAssumption DEF Init
<1>4. link = "ttl" => proto = NewMaster
  BY DEF Init
<1>5. link = "bluetooth" => proto = NewAssembler
  BY DEF Init
<1>6. QED  BY <1>1, <1>2, <1>3, <1>4, <1>5, NewTypes DEF Init, TypeInv

LEMMA TypeStep == TypeInv /\ [Next]_vars => TypeInv'
<1> SUFFICES ASSUME TypeInv, [Next]_vars PROVE TypeInv'
  OBVIOUS
<1>1. CASE JkSends
  <2>1. PICK item \in JkFrames \cup {<<[byte |-> b, place |-> 0]>> : b \in Noise} :
            wire' = wire \o item
    BY <1>1 DEF JkSends
  <2>2. item \in Seq(Place)
    <3>1. CASE item \in JkFrames
      BY <3>1, FrameIs DEF JkFrames
    <3>2. CASE \E b \in Noise : item = <<[byte |-> b, place |-> 0]>>
      BY <3>2, ByteAssumption, JkSizeAssumption DEF Place, Byte
    <3>3. QED  BY <2>1, <3>1, <3>2
  <2>3. wire \in Seq(Place)
    BY <1>1 DEF TypeInv, JkSends
  <2>4. wire' \in Seq(Place)
    BY <2>1, <2>2, <2>3, ConcatProperties
  <2>5. QED  BY <1>1, <2>4 DEF TypeInv, JkSends
<1>2. CASE PylAnswers
  <2>1. asked \in Seq(PylRequests) /\ asked # <<>>
    BY <1>2 DEF TypeInv, PylAnswers
  <2>2. Head(asked) \in PylRequests /\ asked' \in Seq(PylRequests)
    BY <1>2, <2>1, HeadTailProperties DEF PylAnswers
  <2>3. wire' \in Seq(Symbols)
    <3>1. Cells \in Infos /\ None \in Infos
      BY InfoAssumption
    <3>2. Body(Head(asked), Cells) \in Answers /\ Body(Head(asked), None) \in Answers
      BY <2>2, <3>1, AnswerType
    <3>3. QED  BY <1>2, <3>2, FrameType DEF PylAnswers
  <2>4. faults' \in 0..MaxFaults
    BY <1>2, BoundAssumption DEF PylAnswers, Disturb, TypeInv
  <2>5. link = "ttl"
    BY <2>1 DEF TypeInv
  <2>6. QED  BY <1>2, <2>2, <2>3, <2>4, <2>5 DEF TypeInv, PylAnswers
<1>3. CASE PylNoise
  <2>1. wire' \in Seq(Symbols)
    <3>1. \A kind \in {"analog", "system_param"} :
             [adr |-> BatteryAdr + 1, cid2 |-> kind, info |-> Cells + 1] \in Answers
      BY RequestType, InfoAssumption DEF Answers
    <3>2. {<<SOI>>, <<EOI>>, <<Other>>} \subseteq Seq(Symbols)
      BY DEF Symbols
    <3>3. QED  BY <1>3, <3>1, <3>2, FrameType DEF PylNoise
  <2>2. faults' \in 0..MaxFaults
    BY <1>3, BoundAssumption DEF PylNoise, Disturb, TypeInv
  <2>3. QED  BY <1>3, <2>1, <2>2 DEF TypeInv, PylNoise
<1>4. CASE LoseBytes
  <2>1. PICK k \in 1..Min({MaxChunk, Len(wire)}) : wire' = SubSeq(wire, k + 1, Len(wire))
    BY <1>4 DEF LoseBytes
  <2>2. \A S : wire \in Seq(S) => wire' \in Seq(S)
    BY <2>1, ChunkIs
  <2>3. faults' \in 0..MaxFaults
    BY <1>4, BoundAssumption DEF LoseBytes, Disturb, TypeInv
  <2>4. trace' \in Trace
    BY <1>4, NewTypes DEF LoseBytes
  <2>5. UNCHANGED <<link, asked, proto, shared, due>>
    BY <1>4 DEF LoseBytes
  <2>6. QED  BY <2>2, <2>3, <2>4, <2>5 DEF TypeInv
<1>5. CASE on_connected
  <2>1. asked' \in Seq(PylRequests) /\ faults' \in 0..MaxFaults
          /\ (link = "bluetooth" => asked' = asked)
    <3>1. <<settings_request, poll_request>> \in Seq(PylRequests)
      BY DEF PylRequests
    <3>2. QED  BY <1>5, <3>1, SendType DEF on_connected
  <2>2. shared' \in [connected : BOOLEAN, pack : Reported, settings : Reported]
    BY <1>5 DEF on_connected, TypeInv
  <2>3. QED  BY <1>5, <2>1, <2>2, ResetType DEF TypeInv, on_connected
<1>6. CASE on_disconnected
  <2>1. shared' \in [connected : BOOLEAN, pack : Reported, settings : Reported]
    BY <1>6 DEF on_disconnected, TypeInv
  <2>2. QED  BY <1>6, <2>1, ResetType, NewTypes DEF TypeInv, on_disconnected
<1>7. CASE on_poll_tick \/ on_settings_tick
  <2>1. <<settings_request>> \in Seq(PylRequests) /\ <<poll_request>> \in Seq(PylRequests)
    BY DEF PylRequests
  <2>2. asked' \in Seq(PylRequests) /\ faults' \in 0..MaxFaults
          /\ (link = "bluetooth" => asked' = asked)
    BY <1>7, <2>1, SendType DEF on_poll_tick, on_settings_tick
  <2>3. UNCHANGED <<link, wire, proto, shared, due, trace>>
    BY <1>7 DEF on_poll_tick, on_settings_tick
  <2>4. QED  BY <2>2, <2>3 DEF TypeInv
<1>8. CASE on_bytes
  BY <1>8, BytesType
<1>9. CASE Tick
  BY <1>9 DEF Tick, TypeInv
<1>10. CASE UNCHANGED vars
  BY <1>10 DEF vars, TypeInv
<1>11. QED
  BY <1>1, <1>2, <1>3, <1>4, <1>5, <1>6, <1>7, <1>8, <1>9, <1>10 DEF Next

\* The inductive form of TypeOK: what the drivers hold, and what is on its way to
\* them, in either configuration of Battery::start().
THEOREM TypeInvariance == Spec => []TypeInv
BY TypeInit, TypeStep, PTL DEF Spec

\* TypeOK says the same in its own words.
LEMMA TypeImplies == TypeInv => TypeOK
<1> SUFFICES ASSUME TypeInv PROVE TypeOK
  OBVIOUS
<1>1. ASSUME link = "ttl"
      PROVE  /\ proto.rx \in Seq(Symbols) /\ Len(proto.rx) <= kMaxFrameLen
             /\ proto.rx # <<>> => proto.rx[1] = SOI /\ EOI \notin Range(proto.rx)
  <2>1. /\ proto.rx \in Seq(Symbols)
        /\ proto.rx # <<>> => M!IsOpen(proto.rx) /\ Len(proto.rx) <= kMaxFrameLen
    BY <1>1 DEF TypeInv, Master
  <2>2. CASE proto.rx = <<>>
    BY <2>1, <2>2, BoundAssumption
  <2>3. CASE proto.rx # <<>>
    <3>1. proto.rx[1] = SOI /\ \A i \in 1..Len(proto.rx) : proto.rx[i] # EOI
      BY <2>1, <2>3 DEF M!IsOpen
    <3>2. DOMAIN proto.rx = 1..Len(proto.rx)
      BY <2>1, LenProperties
    <3>3. EOI \notin Range(proto.rx)
      BY <3>1, <3>2, Zenon DEF Range
    <3>4. QED  BY <2>1, <2>3, <3>1, <3>3
  <2>4. QED  BY <2>2, <2>3
<1>2. ASSUME link = "bluetooth"
      PROVE  /\ proto.ready = <<>> /\ Len(proto.buf) < kJkResponseSize
             /\ IsPrefix(SubSeq(proto.buf, 1, Min({4, Len(proto.buf)})), kJkResponseMagic)
  <2>1. /\ proto.buf \in Seq(Byte) /\ Held(proto.buf) /\ proto.ready = <<>>
        /\ Len(proto.buf) \in Nat
    BY <1>2, LenProperties DEF TypeInv, Assembler
  <2> DEFINE m == Min({4, Len(proto.buf)})
             s == SubSeq(proto.buf, 1, m)
  <2>2. m \in 0..4 /\ m <= Len(proto.buf)
    <3> DEFINE I == {4, Len(proto.buf)}
    <3>1. I \in SUBSET Nat /\ I # {} /\ 4 \in I /\ Len(proto.buf) \in I
      BY <2>1
    <3>2. m = M!Min(I)
      BY Zenon DEF Min, M!Min
    <3> HIDE DEF I, m
    <3>3. M!Min(I) \in I /\ \A i \in I : M!Min(I) <= i
      BY <3>1, M!LeastIs
    <3>4. m \in Nat /\ m <= 4 /\ m <= Len(proto.buf)
      BY <3>1, <3>2, <3>3
    <3>5. QED  BY <3>4
  <2> HIDE DEF m
  <2>3. \A i \in 1..m : proto.buf[i] \in Byte
    BY <2>1, <2>2, ElementOfSeq
  <2>4. /\ s \in Seq(Byte) /\ Len(s) = m
        /\ \A i \in 1..m : s[i] = proto.buf[i]
    <3>1. /\ s \in Seq(Byte) /\ Len(s) = IF 1 <= m THEN m - 1 + 1 ELSE 0
          /\ \A i \in 1..(m - 1 + 1) : s[i] = proto.buf[1 + i - 1]
      BY <2>2, <2>3, SubSeqProperties
    <3>2. QED  BY <2>2, <3>1
  <2>5. /\ kJkResponseMagic \in Seq(Byte) /\ Len(kJkResponseMagic) = 4
        /\ \A i \in 1..m : s[i] = kJkResponseMagic[i]
    <3>1. kJkResponseMagic \in Seq(Byte) /\ Len(kJkResponseMagic) = 4
      BY DEF kJkResponseMagic, Byte
    <3>2. QED  BY <2>1, <2>2, <2>4, <3>1 DEF Held
  <2> DEFINE u == SubSeq(kJkResponseMagic, 1, m)
  <2>6. /\ u \in Seq(Byte) /\ Len(u) = m
        /\ \A i \in 1..m : u[i] = kJkResponseMagic[i]
    <3>1. \A i \in 1..m : kJkResponseMagic[i] \in Byte
      <4>1. 1..m \subseteq 1..4
        BY <2>2
      <4>2. \A i \in 1..4 : kJkResponseMagic[i] \in Byte
        BY <2>5, ElementOfSeq
      <4>3. QED  BY <4>1, <4>2
    <3>2. /\ u \in Seq(Byte) /\ Len(u) = IF 1 <= m THEN m - 1 + 1 ELSE 0
          /\ \A i \in 1..(m - 1 + 1) : u[i] = kJkResponseMagic[1 + i - 1]
      BY <2>2, <3>1, SubSeqProperties
    <3>3. QED  BY <2>2, <3>1, <3>2
  <2> HIDE DEF s, u
  <2>7. s = u
    BY <2>4, <2>5, <2>6, SeqEqual
  <2>8. SubSeq(s, 1, Len(s)) = s
    BY <2>4, SubSeqFull
  <2>9. IsPrefix(s, kJkResponseMagic)
    BY <2>2, <2>4, <2>5, <2>7, <2>8 DEF IsPrefix, u
  <2>10. QED  BY <2>1, <2>9 DEF Held, s, m
<1>3. /\ asked \in Seq({settings_request, poll_request})
      /\ shared \in [connected : BOOLEAN, pack : Infos \cup 0..255,
                       settings : Infos \cup 0..255]
      /\ due \in BOOLEAN /\ faults \in 0..MaxFaults
  BY DEF TypeInv, PylRequests, Reported
<1>4. QED  BY <1>1, <1>2, <1>3 DEF TypeOK

\* Every variable has its type; between two chunks each driver holds the start of
\* at most one frame (JkFrameAssembler::push_chunk(), try_parse_pylontech()).
THEOREM TypeCorrect == Spec => []TypeOK
BY TypeInvariance, TypeImplies, PTL

-----------------------------------------------------------------------------
(* The cell count *)

\* Answers of this battery report its cells, if they report any.
Truthful == {a \in Answers : a.adr = wire_adr => a.info \in {None, Cells}}
Line     == {SOI, EOI, Other} \cup Truthful

\* Once the settings have the cell count the driver has it, too.
CellInv ==
    link = "ttl" =>
        /\ wire \in Seq(Line) /\ proto.rx \in Seq(Line)
        /\ proto.cells \in {0, Cells}
        /\ shared.settings \in {None, 0, Cells}
        /\ shared.settings = Cells => proto.cells = Cells

\* The frames of a chunk so far, if the driver knew the count c before it.
Counted(c) ==
    {m \in Dispatched :
        /\ m.proto.cells \in {0, Cells} /\ m.settings \in {None, 0, Cells}
        /\ m.settings = Cells => m.proto.cells = Cells
        /\ c = Cells => m.proto.cells = Cells /\ m.settings \in {None, Cells}}

LEMMA CountsDiffer == Cells # 0 /\ Cells # None /\ None # 0
BY BoundAssumption, InfoAssumption

LEMMA LineIs ==
    /\ Line \subseteq Symbols
    /\ Line \cap Answers = Truthful
    /\ Truthful \subseteq Answers
BY SymbolAssumption DEF Line, Truthful, Symbols

LEMMA DispatchCounts ==
    ASSUME NEW c
    PROVE  \A m \in Counted(c), f \in Truthful : Dispatch(m, f) \in Counted(c)
<1> SUFFICES ASSUME NEW m \in Counted(c), NEW f \in Truthful
             PROVE  Dispatch(m, f) \in Counted(c)
  OBVIOUS
<1> DEFINE p1 == (f.adr = wire_adr /\ f.info # None) /\ f.cid2 = "analog"
           p2 == (f.adr = wire_adr /\ f.info # None) /\ f.cid2 = "system_param"
           v1 == [m EXCEPT !.proto.cells = f.info, !.telemetry = f.info]
           v2 == [m EXCEPT !.settings = m.proto.cells]
           d  == Dispatch(m, f)
<1>1. d = CASE p1 -> v1 [] p2 -> v2 [] OTHER -> m
  BY Zenon DEF Dispatch
<1>2. f.info \in Infos /\ m \in Dispatched /\ d \in Dispatched
  BY DispatchType, LineIs DEF Truthful, Answers, Counted
<1>3. p1 => /\ v1.proto.cells = Cells
            /\ v1.settings = m.settings
  <2>1. p1 => f.info = Cells
    BY DEF Truthful
  <2>2. v1.proto.cells = f.info /\ v1.settings = m.settings
    BY <1>2 DEF Dispatched, Master
  <2>3. QED  BY <2>1, <2>2
<1>4. v2.proto.cells = m.proto.cells /\ v2.settings = m.proto.cells
  BY <1>2 DEF Dispatched
<1>5. /\ m.proto.cells \in {0, Cells} /\ m.settings \in {None, 0, Cells}
      /\ m.settings = Cells => m.proto.cells = Cells
      /\ c = Cells => m.proto.cells = Cells /\ m.settings \in {None, Cells}
  BY DEF Counted
<1>0. ~(p1 /\ p2)
  OBVIOUS
<1> HIDE DEF p1, p2, v1, v2, d
<1>6. (p1 /\ d = v1) \/ d = v2 \/ d = m
  <2>1. CASE p1
    BY <1>0, <1>1, <2>1, Zenon
  <2>2. CASE ~p1
    BY <1>1, <2>2, Zenon
  <2>3. QED  BY <2>1, <2>2
<1>7. CASE p1 /\ d = v1
  BY <1>2, <1>3, <1>5, <1>7 DEF Counted, d
<1>8. CASE d = v2
  BY <1>2, <1>4, <1>5, <1>8 DEF Counted, d
<1>9. CASE d = m
  BY <1>2, <1>5, <1>9 DEF Counted, d
<1>10. QED  BY <1>6, <1>7, <1>8, <1>9

\* What a chunk does to the count and to the settings.
LEMMA CellBytes ==
    ASSUME TypeInv, CellInv, on_bytes, link = "ttl"
    PROVE  CellInv' /\ (shared.settings = Cells => shared'.settings = Cells)
<1>1. wire \in Seq(Line) /\ proto \in Master /\ proto.rx \in Seq(Line) /\ wire \in Seq(Symbols)
  BY DEF TypeInv, CellInv
<1>2. PICK k \in 1..Min({MaxChunk, Len(wire)}) :
               /\ wire' = SubSeq(wire, k + 1, Len(wire))
               /\ Handed(pyl_feed(proto, SubSeq(wire, 1, k)))
               /\ trace' = trace
  BY TtlBytes
<1> DEFINE data   == SubSeq(wire, 1, k)
           taken  == TakeFrames[proto.rx \o data]
           parsed == pyl_feed(proto, data)
           c      == proto.cells
<1>3. wire' \in Seq(Line) /\ data \in Seq(Line) /\ data \in Seq(Symbols)
  BY <1>1, <1>2, ChunkIs
<1> HIDE DEF data
<1>4. /\ Start(proto, taken) \in Dispatched
      /\ taken.rest \in Seq(Line)
      /\ taken.bodies \in Seq(Truthful)
  BY <1>1, <1>3, LineIs, NewRx
<1>5. Start(proto, taken) \in Counted(c)
  <2>1. Start(proto, taken).proto.cells = c /\ Start(proto, taken).settings = None
    BY <1>1 DEF Start, Master
  <2>2. c \in {0, Cells}
    BY DEF CellInv
  <2>3. QED  BY <1>4, <2>1, <2>2, CountsDiffer DEF Counted
<1> HIDE DEF taken
<1>6. parsed \in Counted(c)
  <2>1. M!FoldLeft(Dispatch, Start(proto, taken), taken.bodies) \in Counted(c)
    BY <1>4, <1>5, DispatchCounts, M!FoldKeeps
  <2>2. QED  BY <2>1, DispatchFold, Zenon DEF pyl_feed, Start, taken
<1>7. parsed.proto.rx \in Seq(Line)
  <2> DEFINE X == {m \in Dispatched : m.proto.rx \in Seq(Line)}
  <2>1. Start(proto, taken) \in X
    BY <1>1, <1>4 DEF Start, Master
  <2>2. \A m \in X, f \in Truthful : Dispatch(m, f) \in X
    <3> SUFFICES ASSUME NEW m \in X, NEW f \in Truthful PROVE Dispatch(m, f) \in X
      OBVIOUS
    <3> DEFINE v1 == [m EXCEPT !.proto.cells = f.info, !.telemetry = f.info]
               v2 == [m EXCEPT !.settings = m.proto.cells]
               p  == f.adr = wire_adr /\ f.info # None
    <3>1. v1.proto.rx = m.proto.rx /\ v2.proto.rx = m.proto.rx
      BY DEF Dispatched, Master
    <3>2. Dispatch(m, f) = CASE p /\ f.cid2 = "analog" -> v1
                             [] p /\ f.cid2 = "system_param" -> v2 [] OTHER -> m
      BY Zenon DEF Dispatch
    <3> HIDE DEF v1, v2, p
    <3>3. Dispatch(m, f) \in {v1, v2, m}
      BY <3>2, Zenon
    <3>4. Dispatch(m, f) \in Dispatched
      BY DispatchType, LineIs
    <3>5. QED  BY <3>1, <3>3, <3>4
  <2> HIDE DEF X
  <2>3. M!FoldLeft(Dispatch, Start(proto, taken), taken.bodies) \in X
    BY <1>4, <2>1, <2>2, M!FoldKeeps
  <2>4. parsed \in X
    BY <2>3, DispatchFold, Zenon DEF pyl_feed, Start, taken
  <2> HIDE DEF parsed
  <2>5. QED  BY <2>4 DEF X
<1>8. Handed(parsed)
  BY <1>2 DEF data
<1> HIDE DEF parsed
<1>9. parsed.telemetry \in Reported /\ parsed.settings \in Reported
  BY <1>6, InfoAssumption DEF Counted, Dispatched, Counts, Reported
<1>10. /\ proto' = parsed.proto
       /\ shared'.settings = IF parsed.settings # None THEN parsed.settings ELSE shared.settings
  BY <1>8, <1>9, HandedType DEF Handed
<1>11. /\ parsed.proto.cells \in {0, Cells} /\ parsed.settings \in {None, 0, Cells}
       /\ parsed.settings = Cells => parsed.proto.cells = Cells
       /\ c = Cells => parsed.proto.cells = Cells /\ parsed.settings \in {None, Cells}
  BY <1>6 DEF Counted
<1>12. /\ shared.settings \in {None, 0, Cells}
       /\ shared.settings = Cells => c = Cells
  BY DEF CellInv
<1>13. shared.settings = Cells => shared'.settings = Cells
  BY <1>10, <1>11, <1>12, CountsDiffer
<1>14. /\ proto'.cells \in {0, Cells} /\ shared'.settings \in {None, 0, Cells}
       /\ shared'.settings = Cells => proto'.cells = Cells
  BY <1>10, <1>11, <1>12, CountsDiffer
<1>15. QED  BY <1>3, <1>7, <1>10, <1>13, <1>14 DEF CellInv

LEMMA CellInit == Init => CellInv
<1> SUFFICES ASSUME Init, link = "ttl" PROVE CellInv
  BY DEF CellInv
<1>1. wire = <<>> /\ proto = [rx |-> <<>>, cells |-> 0] /\ shared.settings = None
  BY DEF Init, NewMaster
<1>2. <<>> \in Seq(Line)
  OBVIOUS
<1>3. QED  BY <1>1, <1>2, CountsDiffer DEF CellInv

\* Everything but a chunk leaves the count and the settings alone.
LEMMA CellKept ==
    ASSUME CellInv, link' = link,
           link = "ttl" => /\ wire' \in Seq(Line)
                           /\ proto'.rx \in Seq(Line) /\ proto'.cells = proto.cells
                           /\ shared'.settings = shared.settings
    PROVE  CellInv' /\ (link = "ttl" /\ shared.settings = Cells => shared'.settings = Cells)
BY DEF CellInv

LEMMA CellStep ==
    TypeInv /\ CellInv /\ [Next]_vars =>
        CellInv' /\ (link = "ttl" /\ shared.settings = Cells => shared'.settings = Cells)
<1> SUFFICES ASSUME TypeInv, CellInv, [Next]_vars
             PROVE  CellInv' /\ (link = "ttl" /\ shared.settings = Cells => shared'.settings = Cells)
  OBVIOUS
<1>0. link = "ttl" => wire \in Seq(Line) /\ proto.rx \in Seq(Line)
  BY DEF CellInv
<1>1. CASE JkSends
  BY <1>1, CellKept DEF JkSends
<1>2. CASE PylAnswers
  <2>1. asked \in Seq(PylRequests) /\ asked # <<>>
    BY <1>2 DEF TypeInv, PylAnswers
  <2>2. Head(asked) \in PylRequests
    BY <2>1, HeadTailProperties
  <2>3. Cells \in Infos /\ None \in Infos
    BY InfoAssumption
  <2>4. Body(Head(asked), Cells) \in Truthful /\ Body(Head(asked), None) \in Truthful
    BY <2>2, <2>3, AnswerType DEF Truthful
  <2>5. wire' \in Seq(Line)
    <3>1. \A body \in Truthful : build_pylontech(body) \in Seq(Line)
      BY DEF build_pylontech, Line
    <3>2. \E info \in {Cells, None} : wire' = build_pylontech(Body(Head(asked), info))
      BY <1>2 DEF PylAnswers
    <3>3. QED  BY <2>4, <3>1, <3>2
  <2>6. UNCHANGED <<link, proto, shared>>
    BY <1>2 DEF PylAnswers
  <2>7. QED  BY <1>0, <2>5, <2>6, CellKept
<1>3. CASE PylNoise
  <2>1. \A kind \in {"analog", "system_param"} :
           [adr |-> BatteryAdr + 1, cid2 |-> kind, info |-> Cells + 1] \in Truthful
    BY RequestType, InfoAssumption DEF Truthful, Answers
  <2>2. {<<SOI>>, <<EOI>>, <<Other>>} \subseteq Seq(Line)
    BY DEF Line
  <2>3. \A body \in Truthful : build_pylontech(body) \in Seq(Line)
    BY DEF build_pylontech, Line
  <2>4. wire' \in Seq(Line)
    BY <1>3, <2>1, <2>2, <2>3 DEF PylNoise
  <2>5. UNCHANGED <<link, proto, shared>>
    BY <1>3 DEF PylNoise
  <2>6. QED  BY <1>0, <2>4, <2>5, CellKept
<1>4. CASE LoseBytes
  <2>1. PICK k \in 1..Min({MaxChunk, Len(wire)}) : wire' = SubSeq(wire, k + 1, Len(wire))
    BY <1>4 DEF LoseBytes
  <2>2. wire \in Seq(Line) => wire' \in Seq(Line)
    BY <2>1, ChunkIs
  <2>3. UNCHANGED <<link, proto, shared>>
    BY <1>4 DEF LoseBytes
  <2>4. QED  BY <1>0, <2>2, <2>3, CellKept
<1>5. CASE on_connected \/ on_disconnected
  <2>1. shared \in [connected : BOOLEAN, pack : Reported, settings : Reported]
    BY DEF TypeInv
  <2>2. link' = link /\ proto' = Reset(proto) /\ wire' \in {wire, <<>>}
          /\ shared'.settings = shared.settings
    BY <1>5, <2>1 DEF on_connected, on_disconnected
  <2>3. link = "ttl" => proto'.cells = proto.cells /\ proto'.rx = <<>>
    BY <2>2 DEF TypeInv, Master, Reset, pyl_reset
  <2>4. <<>> \in Seq(Line)
    OBVIOUS
  <2>5. QED  BY <1>0, <2>2, <2>3, <2>4, CellKept
<1>6. CASE on_poll_tick \/ on_settings_tick \/ Tick
  <2>1. UNCHANGED <<link, wire, proto, shared>>
    BY <1>6 DEF on_poll_tick, on_settings_tick, Tick
  <2>2. QED  BY <1>0, <2>1, CellKept
<1>7. CASE on_bytes
  <2>1. CASE link = "ttl"
    BY <1>7, <2>1, CellBytes
  <2>2. CASE link # "ttl"
    <3>1. link' = link
      BY <1>7 DEF on_bytes
    <3>2. QED  BY <2>2, <3>1, CellKept
  <2>3. QED  BY <2>1, <2>2
<1>8. CASE UNCHANGED vars
  BY <1>0, <1>8, CellKept DEF vars
<1>9. QED
  BY <1>1, <1>2, <1>3, <1>4, <1>5, <1>6, <1>7, <1>8 DEF Next

\* A cell count that has reached the settings stays there: neither a reconnect
\* (PylontechMasterProtocol::reset() keeps last_cell_count_) nor the answer of
\* another module puts back the 0 of a settings answer before the first telemetry.
THEOREM CellCountKept == Spec => CellCountStays
<1>1. Spec => [](TypeInv /\ CellInv)
  <2>1. Init => TypeInv /\ CellInv
    BY TypeInit, CellInit
  <2>2. TypeInv /\ CellInv /\ [Next]_vars => (TypeInv /\ CellInv)'
    BY TypeStep, CellStep
  <2>3. QED  BY <2>1, <2>2, PTL DEF Spec
<1>2. TypeInv /\ CellInv /\ [Next]_vars =>
          [link = "ttl" /\ shared.settings = Cells => shared'.settings = Cells]_vars
  BY CellStep
<1>3. QED  BY <1>1, <1>2, PTL DEF Spec, CellCountStays

-----------------------------------------------------------------------------
(* Resynchronisation *)

\* A frame is found by the four bytes of its magic: neither the noise nor the
\* frames have the first two of them where no frame begins.
NoFalseMagic ==
    /\ kJkResponseMagic[2] \notin Noise
    /\ \A f \in JkFrames, i \in 2..(kJkResponseSize - 1) :
           ~(f[i].byte = kJkResponseMagic[1] /\ f[i + 1].byte = kJkResponseMagic[2])

\* After the first d bytes of w come the places k + 1 to the last of frame f.
Follows(w, d, f, k) ==
    \A j \in 1..(kJkResponseSize - k) : d + j <= Len(w) /\ w[d + j] = f[k + j]

\* What the battery sends is noise and whole frames.
WireInv(w) ==
    /\ w \in Seq(Place)
    /\ \A i \in 1..Len(w) :
          /\ w[i].place = 0 => w[i].byte \in Noise
          /\ w[i].place # 0 => \E f \in JkFrames :
                                   w[i] = f[w[i].place] /\ Follows(w, i, f, w[i].place)
          /\ w[i].place \in {0, kJkResponseSize} =>
                 \A j \in 1..Len(w) : j = i + 1 => w[j].place <= 1

\* A clean frame was missed, and none has been handed on since.
Owing(a, t) == a.ready = <<>> /\ t.missed > 0

\* After k bytes of frame f: the assembler has them, or looks for a magic, or
\* still fills up a frame that it has begun before f.
Synced(a, f, k)    == Len(a.buf) = k /\ \A i \in 1..k : a.buf[i] = f[i].byte
Searching(a, f, k) ==
    \/ Len(a.buf) = 0
    \/ Len(a.buf) = 1 /\ k >= 2 /\ f[k].byte = kJkResponseMagic[1]
Filling(a, k)      == Len(a.buf) >= k + 4

InFrame(a, t, w, d, f) ==
    /\ Follows(w, d, f, t.run)
    /\ \/ Synced(a, f, t.run)
       \/ Searching(a, f, t.run) /\ (Owing(a, t) => ~t.clean)
       \/ Filling(a, t.run) /\ ~Owing(a, t)

Between(a, t, w, d) ==
    Owing(a, t) =>
        /\ Len(a.buf) = 0 \/ (Len(a.buf) = 1 /\ t.stray)
        /\ \A j \in 1..Len(w) : j = d + 1 => w[j].place <= 1

\* Assembler and trace after d bytes of w.
Tracked(a, t, w, d) ==
    /\ a \in Assembler /\ t \in Trace
    /\ a.ready = <<>> => t.missed <= 1
    /\ IF t.run \in 1..(kJkResponseSize - 1)
         THEN \E f \in JkFrames : InFrame(a, t, w, d, f)
         ELSE Between(a, t, w, d)

JkInv ==
    link = "bluetooth" =>
        /\ WireInv(wire)
        /\ Tracked(proto, trace, wire, 0)
        /\ ~shared.connected => wire = <<>> /\ trace = Unseen

LEMMA MagicIs ==
    /\ kJkResponseMagic[1] = 85 /\ kJkResponseMagic[2] = 170
    /\ kJkResponseMagic[3] = 235 /\ kJkResponseMagic[4] = 144
BY DEF kJkResponseMagic

LEMMA JkFrameIs ==
    ASSUME NEW f \in JkFrames
    PROVE  /\ f \in Seq(Place) /\ Len(f) = kJkResponseSize
           /\ \A i \in 1..kJkResponseSize : f[i].place = i /\ f[i].byte \in Byte
           /\ \A i \in 1..4 : f[i].byte = kJkResponseMagic[i]
           /\ \A s \in Seq(Byte) :
                 /\ Len(s) = kJkResponseSize - 1
                 /\ \A i \in 1..(kJkResponseSize - 1) : s[i] = f[i].byte
                 => f[kJkResponseSize].byte = jk_crc8(s)
<1>1. PICK t \in Types, v \in Values : f = JkFrame(t, v)
  BY DEF JkFrames
<1> DEFINE r == Raw(t, v)
           N == kJkResponseSize
<1>2. /\ f \in Seq(Place) /\ Len(f) = N
      /\ \A i \in 1..N : f[i] = [byte |-> r[i], place |-> i]
  BY <1>1, FrameIs
<1>3. /\ r \in Seq(Byte) /\ Len(r) = N
      /\ \A i \in 1..4 : r[i] = kJkResponseMagic[i]
      /\ r[N] = jk_crc8(Front(r))
  BY RawIs
<1> HIDE DEF r
<1>4. N \in Nat /\ N >= 7
  BY JkSizeAssumption
<1>5. \A i \in 1..N : f[i].place = i /\ f[i].byte = r[i] /\ r[i] \in Byte
  BY <1>2, <1>3, ElementOfSeq
<1>6. \A i \in 1..4 : f[i].byte = kJkResponseMagic[i]
  <2>1. 1..4 \subseteq 1..N
    BY <1>4
  <2>2. QED  BY <1>3, <1>5, <2>1
<1>7. ASSUME NEW s \in Seq(Byte), Len(s) = N - 1,
             \A i \in 1..(N - 1) : s[i] = f[i].byte
      PROVE  f[N].byte = jk_crc8(s)
  <2>1. Front(r) \in Seq(Byte) /\ Len(Front(r)) = N - 1
          /\ \A i \in 1..(N - 1) : Front(r)[i] = r[i]
    BY <1>3, <1>4 DEF Front
  <2>2. \A i \in 1..(N - 1) : s[i] = r[i]
    <3>1. 1..(N - 1) \subseteq 1..N
      BY <1>4
    <3>2. QED  BY <1>5, <1>7, <3>1
  <2>3. s = Front(r)
    BY <1>7, <2>1, <2>2, SeqEqual
  <2>4. N \in 1..N
    BY <1>4
  <2>5. QED  BY <1>3, <1>5, <2>3, <2>4
<1>8. QED  BY <1>2, <1>5, <1>6, <1>7

\* What push_byte() makes of a byte, as far as the length of the buffer tells.
Grown(a, b, c) ==
    /\ Len(c.buf) = Len(a.buf) + 1
    /\ \A i \in 1..Len(a.buf) : c.buf[i] = a.buf[i]
    /\ c.buf[Len(a.buf) + 1] = b

Pushed(a, b, c) ==
    LET n == Len(a.buf) + 1
    IN  /\ c.ready = <<>> => a.ready = <<>>
        /\ \A i \in 1..4 : n = i /\ b # kJkResponseMagic[i] => Len(c.buf) = 0
        /\ \A i \in 1..4 : n = i /\ b = kJkResponseMagic[i] => Grown(a, b, c)
        /\ n > 4 /\ n < kJkResponseSize => Grown(a, b, c)
        /\ n = kJkResponseSize =>
              Len(c.buf) = 0 /\ (jk_crc8(a.buf) = b => c.ready # <<>>)

LEMMA PushIs ==
    ASSUME NEW a \in Assembler, NEW b \in Byte
    PROVE  Pushed(a, b, push_byte(a, b))
<1> DEFINE buf == Append(a.buf, b)
           n   == Len(buf)
           r   == IF jk_crc8(Front(buf)) = b THEN buf ELSE a.ready
           p1 == a.buf = <<>> /\ b # kJkResponseMagic[1]
           p2 == n <= 4 /\ b # kJkResponseMagic[n]
           p3 == n = kJkResponseSize
           v2 == [a EXCEPT !.buf = <<>>]
           v3 == [buf |-> <<>>, ready |-> r]
           v4 == [a EXCEPT !.buf = buf]
           c  == push_byte(a, b)
<1>1. /\ a \in [buf : Seq(Byte), ready : Seq(Byte)] /\ Held(a.buf)
      /\ kJkResponseSize \in Nat /\ kJkResponseSize >= 7
  BY JkSizeAssumption DEF Assembler
<1>2. /\ buf \in Seq(Byte) /\ n = Len(a.buf) + 1 /\ Len(a.buf) \in Nat
      /\ \A i \in 1..Len(a.buf) : buf[i] = a.buf[i]
      /\ buf[n] = b
  BY <1>1, AppendProperties, LenProperties
<1>3. c = CASE p1 -> a [] p2 -> v2 [] p3 -> v3 [] OTHER -> v4
  BY Zenon DEF push_byte
<1>4. p1 => p2 /\ a = v2
  <2>1. p1 => n = 1 /\ p2
    BY <1>2
  <2>2. a.buf = <<>> => a = v2
    BY <1>1
  <2>3. QED  BY <2>1, <2>2
<1>5. Front(buf) = a.buf
  BY <1>1, <1>2 DEF Front
<1>6. v2.buf = <<>> /\ v2.ready = a.ready /\ v4.buf = buf /\ v4.ready = a.ready
        /\ v3.buf = <<>> /\ v3.ready = r
  BY <1>1
<1>7. ~(p2 /\ p3)
  BY <1>1
<1>8. /\ p2 => c = v2
      /\ p3 => c = v3
      /\ ~p2 /\ ~p3 => c = v4
  <2> HIDE DEF p1, p2, p3, v2, v3, v4, c
  <2>1. CASE p1
    <3>1. p2 /\ ~p3 /\ a = v2
      BY <1>4, <1>7, <2>1
    <3>2. c = v2
      BY <1>3, <3>1, Zenon
    <3>3. QED  BY <3>1, <3>2
  <2>2. CASE ~p1 /\ p2
    BY <1>3, <1>7, <2>2, Zenon
  <2>3. CASE ~p1 /\ p3
    BY <1>3, <1>7, <2>3, Zenon
  <2>4. CASE ~p1 /\ ~p2 /\ ~p3
    BY <1>3, <2>4, Zenon
  <2>5. QED  BY <2>1, <2>2, <2>3, <2>4
<1> HIDE DEF c, v2, v3, v4
<1>9. c.ready = <<>> => a.ready = <<>>
  <2>1. r = <<>> => a.ready = <<>>
    <3>1. buf # <<>>
      BY <1>2, EmptySeq
    <3>2. QED  BY <3>1
  <2>2. QED  BY <1>6, <1>8, <2>1
<1>10. ASSUME NEW i \in 1..4, Len(a.buf) + 1 = i, b # kJkResponseMagic[i]
       PROVE  Len(c.buf) = 0
  <2>1. p2
    BY <1>2, <1>10
  <2>2. QED  BY <1>6, <1>8, <2>1
<1>11. ~p2 /\ ~p3 => Grown(a, b, c)
  BY <1>2, <1>6, <1>8 DEF Grown
<1>12. ASSUME NEW i \in 1..4, Len(a.buf) + 1 = i, b = kJkResponseMagic[i]
       PROVE  Grown(a, b, c)
  <2>1. ~p2 /\ ~p3
    BY <1>1, <1>2, <1>12
  <2>2. QED  BY <1>11, <2>1
<1>13. Len(a.buf) + 1 > 4 /\ Len(a.buf) + 1 < kJkResponseSize => Grown(a, b, c)
  <2>1. Len(a.buf) + 1 > 4 /\ Len(a.buf) + 1 < kJkResponseSize => ~p2 /\ ~p3
    BY <1>1, <1>2
  <2>2. QED  BY <1>11, <2>1
<1>14. ASSUME Len(a.buf) + 1 = kJkResponseSize
       PROVE  Len(c.buf) = 0 /\ (jk_crc8(a.buf) = b => c.ready # <<>>)
  <2>1. c = v3
    BY <1>2, <1>8, <1>14
  <2>2. jk_crc8(a.buf) = b => r = buf
    BY <1>5
  <2>3. buf # <<>>
    BY <1>2, EmptySeq
  <2>4. QED  BY <1>6, <2>1, <2>2, <2>3
<1>15. QED  BY <1>9, <1>10, <1>12, <1>13, <1>14 DEF Pushed, c

\* What the trace makes of it.
Noted(t, e, u) ==
    /\ u.run = IF e.place = 1 \/ (e.place > 1 /\ t.run + 1 = e.place) THEN e.place ELSE 0
    /\ u.clean = IF e.place = 1 THEN ~t.stray ELSE t.clean
    /\ u.stray = (e.byte = kJkResponseMagic[1])
    /\ u.missed = IF u.run = kJkResponseSize /\ u.clean THEN t.missed + 1 ELSE t.missed

LEMMA SeenIs ==
    \A t, e : Noted(t, e, Seen(t, e))
<1> SUFFICES ASSUME NEW t, NEW e PROVE Noted(t, e, Seen(t, e))
  OBVIOUS
<1> DEFINE run   == IF e.place = 1 \/ (e.place > 1 /\ t.run + 1 = e.place) THEN e.place ELSE 0
           clean == IF e.place = 1 THEN ~t.stray ELSE t.clean
           miss  == IF run = kJkResponseSize /\ clean THEN t.missed + 1 ELSE t.missed
           stray == e.byte = kJkResponseMagic[1]
           u     == Seen(t, e)
<1>1. u = [run |-> run, clean |-> clean, stray |-> stray, missed |-> miss]
  BY Zenon DEF Seen
<1> HIDE DEF run, clean, stray, miss, u
<1>2. u.run = run /\ u.clean = clean /\ u.stray = stray /\ u.missed = miss
  BY <1>1
<1>3. QED  BY <1>2, Zenon DEF Noted, run, clean, stray, miss, u

\* One byte inside a frame.
LEMMA TrackedInside ==
    ASSUME NoFalseMagic, NEW w, WireInv(w), NEW d \in 0..(Len(w) - 1),
           NEW a, NEW t, Tracked(a, t, w, d), t.run \in 1..(kJkResponseSize - 1),
           NEW c \in Assembler, NEW u \in Trace,
           Pushed(a, w[d + 1].byte, c), Noted(t, w[d + 1], u)
    PROVE  Tracked(c, u, w, d + 1)
<1> DEFINE N == kJkResponseSize
           k == t.run
           e == w[d + 1]
           l == Len(a.buf)
           m == Len(c.buf)
<1>1. PICK f \in JkFrames : InFrame(a, t, w, d, f)
  BY DEF Tracked
<1>2. N \in Nat /\ N >= 7 /\ k \in 1..(N - 1) /\ d \in Nat /\ Len(w) \in Nat /\ d + 1 \in 1..Len(w)
  BY JkSizeAssumption, LenProperties DEF WireInv
<1>3. /\ a \in Assembler /\ Held(a.buf) /\ l \in Nat /\ l < N
      /\ t \in Trace /\ t.missed \in Nat /\ t.clean \in BOOLEAN
      /\ a.ready = <<>> => t.missed <= 1
  BY LenProperties DEF Tracked, Assembler, Held, Trace
<1>4. /\ \A i \in 1..N : f[i].place = i /\ f[i].byte \in Byte
      /\ \A i \in 1..4 : f[i].byte = kJkResponseMagic[i]
  BY JkFrameIs
<1>5. Follows(w, d, f, k)
  BY <1>1 DEF InFrame
<1>6. e = f[k + 1] /\ k + 1 \in 1..N /\ e.place = k + 1 /\ k + 1 > 1 /\ k + 1 # 1
  <2>1. 1 \in 1..(N - k) /\ k + 1 \in 1..N /\ k + 1 > 1 /\ k + 1 # 1
    BY <1>2
  <2>2. e = f[k + 1]
    BY <1>5, <2>1 DEF Follows
  <2>3. QED  BY <1>4, <2>1, <2>2
<1>7. /\ u.run = k + 1 /\ u.clean = t.clean
      /\ u.stray = (e.byte = kJkResponseMagic[1])
      /\ u.missed = IF k + 1 = N /\ t.clean THEN t.missed + 1 ELSE t.missed
  BY <1>6 DEF Noted
<1>8. c.ready = <<>> => a.ready = <<>>
  BY DEF Pushed
<1>9. \/ Synced(a, f, k)
      \/ Searching(a, f, k) /\ (Owing(a, t) => ~t.clean)
      \/ Filling(a, k) /\ ~Owing(a, t)
  BY <1>1 DEF InFrame
<1>10. ASSUME Searching(a, f, k)
       PROVE  m = 0 \/ (m = 1 /\ e.byte = kJkResponseMagic[1])
  <2>1. CASE l = 0
    <3>1. 1 \in 1..4 /\ l + 1 = 1
      BY <2>1
    <3>2. e.byte # kJkResponseMagic[1] => m = 0
      BY <3>1 DEF Pushed
    <3>3. e.byte = kJkResponseMagic[1] => m = 1
      BY <3>1 DEF Pushed, Grown
    <3>4. QED  BY <3>2, <3>3
  <2>2. CASE l = 1 /\ k >= 2 /\ f[k].byte = kJkResponseMagic[1]
    <3>1. 2 \in 1..4 /\ l + 1 = 2 /\ k \in 2..(N - 1)
      BY <1>2, <2>2
    <3>2. e.byte # kJkResponseMagic[2]
      BY <1>6, <2>2, <3>1 DEF NoFalseMagic
    <3>3. QED  BY <3>1, <3>2 DEF Pushed
  <2>3. QED  BY <1>10, <2>1, <2>2 DEF Searching
<1>11. CASE k + 1 < N
  <2>1. u.run \in 1..(N - 1) /\ u.missed = t.missed
    BY <1>2, <1>7, <1>11
  <2>2. Owing(c, u) => Owing(a, t)
    BY <1>8, <2>1 DEF Owing
  <2>3. Follows(w, d + 1, f, k + 1)
    <3>1. ASSUME NEW j \in 1..(N - (k + 1))
          PROVE  d + 1 + j <= Len(w) /\ w[d + 1 + j] = f[k + 1 + j]
      <4>1. j + 1 \in 1..(N - k) /\ d + (j + 1) = d + 1 + j /\ k + (j + 1) = k + 1 + j
        BY <1>2
      <4>2. d + (j + 1) <= Len(w) /\ w[d + (j + 1)] = f[k + (j + 1)]
        BY <1>5, <4>1 DEF Follows
      <4>3. QED  BY <4>1, <4>2
    <3>2. QED  BY <3>1 DEF Follows
  <2>4. CASE Synced(a, f, k)
    <3>1. l = k /\ \A i \in 1..k : a.buf[i] = f[i].byte
      BY <2>4 DEF Synced
    <3>2. Grown(a, e.byte, c)
      <4>1. CASE k + 1 <= 4
        <5>1. k + 1 \in 1..4
          BY <1>2, <4>1
        <5>2. e.byte = kJkResponseMagic[k + 1]
          BY <1>4, <1>6, <5>1
        <5>3. QED  BY <3>1, <5>1, <5>2 DEF Pushed
      <4>2. CASE k + 1 > 4
        BY <1>11, <3>1, <4>2 DEF Pushed
      <4>3. QED  BY <1>2, <4>1, <4>2
    <3>3. m = k + 1 /\ c.buf[k + 1] = f[k + 1].byte /\ \A i \in 1..k : c.buf[i] = f[i].byte
      BY <1>6, <3>1, <3>2 DEF Grown
    <3>4. \A i \in 1..(k + 1) : i \in 1..k \/ i = k + 1
      BY <1>2
    <3>5. Synced(c, f, k + 1)
      BY <3>3, <3>4 DEF Synced
    <3>6. InFrame(c, u, w, d + 1, f)
      BY <1>7, <2>3, <3>5 DEF InFrame
    <3>7. QED  BY <1>3, <1>8, <2>1, <3>6 DEF Tracked
  <2>5. ASSUME m = 0 \/ (m = 1 /\ e.byte = kJkResponseMagic[1]), Owing(c, u) => ~u.clean
        PROVE  Tracked(c, u, w, d + 1)
    <3>1. k + 1 >= 2
      BY <1>2
    <3>2. Searching(c, f, k + 1)
      BY <1>6, <2>5, <3>1 DEF Searching
    <3>3. InFrame(c, u, w, d + 1, f)
      BY <1>7, <2>3, <2>5, <3>2 DEF InFrame
    <3>4. QED  BY <1>3, <1>8, <2>1, <3>3 DEF Tracked
  <2>6. CASE Searching(a, f, k) /\ (Owing(a, t) => ~t.clean)
    BY <1>7, <1>10, <2>2, <2>5, <2>6
  <2>7. CASE Filling(a, k) /\ ~Owing(a, t)
    <3>1. l >= k + 4 /\ ~Owing(c, u)
      BY <2>2, <2>7 DEF Filling
    <3>2. CASE l + 1 = N
      <4>1. m = 0
        BY <3>2 DEF Pushed
      <4>2. QED  BY <2>5, <3>1, <4>1
    <3>3. CASE l + 1 # N
      <4>1. l + 1 > 4 /\ l + 1 < N /\ l + 1 >= (k + 1) + 4
        <5>1. l \in Nat /\ l < N /\ l + 1 # N /\ l >= k + 4 /\ N \in Nat /\ k \in 1..(N - 1)
          BY <1>2, <1>3, <3>1, <3>3
        <5> HIDE DEF l, N, k
        <5>2. QED  BY <5>1
      <4>2. m = l + 1
        BY <4>1 DEF Pushed, Grown
      <4>3. Filling(c, k + 1)
        BY <4>1, <4>2 DEF Filling
      <4>4. InFrame(c, u, w, d + 1, f)
        BY <1>7, <2>3, <3>1, <4>3 DEF InFrame
      <4>5. QED  BY <1>3, <1>8, <2>1, <4>4 DEF Tracked
    <3>4. QED  BY <3>2, <3>3
  <2>8. QED  BY <1>9, <2>4, <2>6, <2>7
<1>12. CASE k + 1 = N
  <2>1. u.run = N /\ u.run \notin 1..(N - 1)
    BY <1>2, <1>7, <1>12
  <2>2. \A j \in 1..Len(w) : j = (d + 1) + 1 => w[j].place <= 1
    BY <1>2, <1>6, <1>12 DEF WireInv
  <2>3. CASE Synced(a, f, k)
    <3>1. l + 1 = N
      BY <1>12, <2>3 DEF Synced
    <3>2. /\ a.buf \in Seq(Byte) /\ l = N - 1
          /\ \A i \in 1..(N - 1) : a.buf[i] = f[i].byte
      <4>1. k = N - 1
        BY <1>2, <1>12
      <4>2. QED  BY <1>3, <2>3, <4>1 DEF Synced, Assembler
    <3>3. jk_crc8(a.buf) = e.byte
      <4>1. f[N].byte = jk_crc8(a.buf)
        BY <3>2, JkFrameIs
      <4>2. QED  BY <1>6, <1>12, <4>1
    <3>4. c.ready # <<>>
      BY <3>1, <3>3 DEF Pushed
    <3>5. QED  BY <2>1, <3>4 DEF Tracked, Between, Owing
  <2>4. CASE Searching(a, f, k) /\ (Owing(a, t) => ~t.clean)
    <3>1. Len(c.buf) = 0 \/ (Len(c.buf) = 1 /\ u.stray)
      BY <1>7, <1>10, <2>4
    <3>2. Between(c, u, w, d + 1)
      BY <2>2, <3>1 DEF Between
    <3>3. c.ready = <<>> => u.missed <= 1
      <4>1. SUFFICES ASSUME c.ready = <<>> PROVE u.missed <= 1
        OBVIOUS
      <4>2. a.ready = <<>> /\ t.missed <= 1
        BY <1>3, <1>8, <4>1
      <4>3. t.missed > 0 => ~t.clean
        BY <2>4, <4>2 DEF Owing
      <4>4. QED  BY <1>3, <1>7, <4>2, <4>3
    <3>4. QED  BY <2>1, <3>2, <3>3 DEF Tracked
  <2>5. ~Filling(a, k)
    BY <1>2, <1>3, <1>12 DEF Filling
  <2>6. QED  BY <1>9, <2>3, <2>4, <2>5
<1>13. QED  BY <1>2, <1>11, <1>12

\* One byte between frames, or the first of one.
LEMMA TrackedOutside ==
    ASSUME NoFalseMagic, NEW w, WireInv(w), NEW d \in 0..(Len(w) - 1),
           NEW a, NEW t, Tracked(a, t, w, d), t.run \notin 1..(kJkResponseSize - 1),
           NEW c \in Assembler, NEW u \in Trace,
           Pushed(a, w[d + 1].byte, c), Noted(t, w[d + 1], u)
    PROVE  Tracked(c, u, w, d + 1)
<1> DEFINE N == kJkResponseSize
           e == w[d + 1]
           l == Len(a.buf)
           m == Len(c.buf)
<1>1. Between(a, t, w, d)
  BY DEF Tracked
<1>2. N \in Nat /\ N >= 7 /\ d \in Nat /\ Len(w) \in Nat /\ d + 1 \in 1..Len(w)
  BY JkSizeAssumption, LenProperties DEF WireInv
<1>3. /\ a \in Assembler /\ Held(a.buf) /\ l \in Nat /\ l < N
      /\ t \in Trace /\ t.missed \in Nat /\ t.run \in 0..N
      /\ a.ready = <<>> => t.missed <= 1
  BY LenProperties DEF Tracked, Assembler, Held, Trace
<1>4. e \in Place /\ e.place \in 0..N
  <2>1. w \in Seq(Place)
    BY DEF WireInv
  <2>2. e \in Place
    BY <1>2, <2>1, ElementOfSeq
  <2>3. QED  BY <2>2 DEF Place
<1>5. c.ready = <<>> => a.ready = <<>>
  BY DEF Pushed
<1>6. t.run = 0 \/ t.run = N
  BY <1>2, <1>3
<1>7. u.stray = (e.byte = kJkResponseMagic[1])
  BY DEF Noted
<1>8. l = 0 =>
        /\ e.byte # kJkResponseMagic[1] => m = 0
        /\ e.byte = kJkResponseMagic[1] => Grown(a, e.byte, c)
  <2>1. 1 \in 1..4 /\ (l = 0 => l + 1 = 1)
    OBVIOUS
  <2>2. QED  BY <2>1 DEF Pushed
<1>9. CASE e.place = 1
  <2>1. /\ u.run = 1 /\ u.clean = ~t.stray /\ u.missed = t.missed /\ 1 \in 1..(N - 1)
    BY <1>2, <1>9 DEF Noted
  <2>2. Owing(c, u) => Owing(a, t)
    BY <1>5, <2>1 DEF Owing
  <2>3. PICK f \in JkFrames : e = f[1] /\ Follows(w, d + 1, f, 1)
    BY <1>2, <1>9 DEF WireInv
  <2>4. e.byte = kJkResponseMagic[1] /\ f[1].byte = kJkResponseMagic[1]
    BY <2>3, JkFrameIs
  <2>5. SUFFICES InFrame(c, u, w, d + 1, f)
    BY <1>3, <1>5, <2>1 DEF Tracked
  <2>6. CASE l = 0
    <3>1. Grown(a, e.byte, c) /\ l + 1 = 1
      BY <1>8, <2>4, <2>6
    <3>2. m = 1 /\ c.buf[1] = e.byte
      BY <3>1 DEF Grown
    <3>3. Synced(c, f, 1)
      BY <2>4, <3>2 DEF Synced
    <3>4. QED  BY <2>1, <2>3, <3>3 DEF InFrame
  <2>7. CASE l \in 1..3
    <3>1. l + 1 \in 1..4 /\ l + 1 # 1
      <4> HIDE DEF l
      <4>1. QED  BY <2>7
    <3>2. e.byte # kJkResponseMagic[l + 1]
      BY <2>4, <3>1, MagicIs
    <3>3. m = 0
      BY <3>1, <3>2 DEF Pushed
    <3>4. Owing(c, u) => ~u.clean
      <4>1. l # 0
        <5> HIDE DEF l
        <5>1. QED  BY <2>7
      <4>2. Owing(c, u) => t.stray
        BY <1>1, <2>2, <4>1 DEF Between
      <4>3. QED  BY <2>1, <4>2
    <3>5. QED  BY <2>1, <2>3, <3>3, <3>4 DEF InFrame, Searching
  <2>8. CASE l >= 4
    <3>1. ~Owing(c, u)
      <4>1. l # 0 /\ l # 1
        <5> HIDE DEF l
        <5>1. QED  BY <2>8
      <4>2. QED  BY <1>1, <2>2, <4>1 DEF Between
    <3>2. CASE l + 1 = N
      <4>1. m = 0
        BY <3>2 DEF Pushed
      <4>2. QED  BY <2>1, <2>3, <3>1, <4>1 DEF InFrame, Searching
    <3>3. CASE l + 1 # N
      <4>1. l + 1 > 4 /\ l + 1 < N
        BY <1>2, <1>3, <2>8, <3>3
      <4>2. m = l + 1
        BY <4>1 DEF Pushed, Grown
      <4>3. Filling(c, 1)
        BY <2>8, <4>2 DEF Filling
      <4>4. QED  BY <2>1, <2>3, <3>1, <4>3 DEF InFrame
    <3>4. QED  BY <3>2, <3>3
  <2>9. l = 0 \/ l \in 1..3 \/ l >= 4
    <3>1. l \in Nat
      BY <1>3
    <3> HIDE DEF l
    <3>2. QED  BY <3>1
  <2>10. QED  BY <2>6, <2>7, <2>8, <2>9
<1>10. CASE e.place # 1
  <2>1. u.run = 0 /\ u.missed = t.missed /\ u.run \notin 1..(N - 1)
    <3>1. ~(e.place > 1 /\ t.run + 1 = e.place)
      BY <1>2, <1>4, <1>6
    <3>2. u.run = 0 /\ 0 # N
      BY <1>2, <1>10, <3>1 DEF Noted
    <3>3. QED  BY <1>2, <3>2 DEF Noted
  <2>2. SUFFICES ASSUME Owing(c, u)
                 PROVE  /\ m = 0 \/ (m = 1 /\ u.stray)
                        /\ \A j \in 1..Len(w) : j = (d + 1) + 1 => w[j].place <= 1
    BY <1>3, <1>5, <2>1 DEF Tracked, Between
  <2>3. Owing(a, t)
    BY <1>5, <2>1, <2>2 DEF Owing
  <2>4. e.place = 0
    BY <1>1, <1>2, <1>4, <1>10, <2>3 DEF Between
  <2>5. e.byte \in Noise /\ e.byte # kJkResponseMagic[2]
    BY <1>2, <2>4 DEF WireInv, NoFalseMagic
  <2>6. \A j \in 1..Len(w) : j = (d + 1) + 1 => w[j].place <= 1
    BY <1>2, <2>4 DEF WireInv
  <2>7. CASE l = 0
    <3>1. l + 1 = 1
      BY <2>7
    <3>2. QED  BY <1>7, <1>8, <2>6, <2>7, <3>1 DEF Grown
  <2>8. CASE l = 1
    <3>1. 2 \in 1..4 /\ l + 1 = 2
      BY <2>8
    <3>2. m = 0
      BY <2>5, <3>1 DEF Pushed
    <3>3. QED  BY <2>6, <3>2
  <2>9. l = 0 \/ l = 1
    BY <1>1, <2>3 DEF Between
  <2>10. QED  BY <2>7, <2>8, <2>9
<1>11. QED  BY <1>9, <1>10

LEMMA TrackedStep ==
    ASSUME NoFalseMagic, NEW w, WireInv(w), NEW d \in 0..(Len(w) - 1),
           NEW a, NEW t, Tracked(a, t, w, d)
    PROVE  Tracked(push_byte(a, w[d + 1].byte), Seen(t, w[d + 1]), w, d + 1)
<1>1. w \in Seq(Place) /\ d + 1 \in 1..Len(w)
  BY LenProperties DEF WireInv
<1>2. w[d + 1] \in Place
  BY <1>1, ElementOfSeq
<1>3. w[d + 1].byte \in Byte
  BY <1>2 DEF Place
<1>4. a \in Assembler /\ t \in Trace
  BY DEF Tracked
<1> DEFINE c == push_byte(a, w[d + 1].byte)
           u == Seen(t, w[d + 1])
<1>5. c \in Assembler /\ Pushed(a, w[d + 1].byte, c)
  BY <1>3, <1>4, PushType, PushIs
<1>6. u \in Trace /\ Noted(t, w[d + 1], u)
  BY <1>2, <1>4, SeenType, SeenIs
<1> HIDE DEF c, u
<1>7. Tracked(c, u, w, d + 1)
  BY <1>5, <1>6, TrackedInside, TrackedOutside
<1>8. QED  BY <1>7 DEF c, u

\* The bytes of a chunk without their places.
Bytes(s) == [i \in 1..Len(s) |-> s[i].byte]

LEMMA BytesAppend ==
    ASSUME NEW s \in Seq(Place), NEW x \in Place
    PROVE  /\ Bytes(s) \in Seq(Byte) /\ x.byte \in Byte
           /\ Bytes(Append(s, x)) = Append(Bytes(s), x.byte)
<1>1. \A y \in Place : y.byte \in Byte
  BY DEF Place
<1>2. ASSUME NEW r \in Seq(Place)
      PROVE  Bytes(r) \in Seq(Byte) /\ Len(Bytes(r)) = Len(r)
               /\ \A i \in 1..Len(r) : Bytes(r)[i] = r[i].byte
  <2>1. Len(r) \in Nat /\ \A i \in 1..Len(r) : r[i] \in Place
    BY LenProperties, ElementOfSeq
  <2>2. QED  BY <1>1, <2>1 DEF Bytes
<1> DEFINE n == Len(s)
           z == Append(s, x)
           p == Bytes(z)
           q == Append(Bytes(s), x.byte)
<1>3. /\ z \in Seq(Place) /\ Len(z) = n + 1 /\ n \in Nat /\ z[n + 1] = x
      /\ \A i \in 1..n : z[i] = s[i]
  BY AppendProperties, LenProperties
<1> HIDE DEF z
<1>4. p \in Seq(Byte) /\ Len(p) = n + 1 /\ \A i \in 1..(n + 1) : p[i] = z[i].byte
  BY <1>2, <1>3
<1>5. /\ q \in Seq(Byte) /\ Len(q) = n + 1 /\ q[n + 1] = x.byte
      /\ \A i \in 1..n : q[i] = s[i].byte
  <2> DEFINE b == Bytes(s)
             v == x.byte
  <2>1. b \in Seq(Byte) /\ v \in Byte /\ Len(b) = n /\ \A i \in 1..n : b[i] = s[i].byte
    BY <1>1, <1>2
  <2> HIDE DEF b, v
  <2>2. /\ Append(b, v) \in Seq(Byte) /\ Len(Append(b, v)) = n + 1
        /\ Append(b, v)[n + 1] = v /\ \A i \in 1..n : Append(b, v)[i] = b[i]
    BY <2>1, AppendProperties
  <2>3. QED  BY <2>1, <2>2 DEF b, v
<1> HIDE DEF p, q
<1>6. ASSUME NEW i \in 1..(n + 1) PROVE p[i] = q[i]
  <2>1. CASE i \in 1..n
    BY <1>3, <1>4, <1>5, <2>1
  <2>2. CASE i = n + 1
    BY <1>3, <1>4, <1>5, <2>2
  <2>3. QED  BY <1>3, <2>1, <2>2
<1>7. p = q
  BY <1>4, <1>5, <1>6, SeqEqual
<1>8. QED  BY <1>1, <1>2, <1>7 DEF p, q, z

\* A whole chunk.
LEMMA TrackedChunk ==
    ASSUME NoFalseMagic, NEW w, WireInv(w), NEW a, NEW t, Tracked(a, t, w, 0),
           NEW s \in Seq(Place), Len(s) <= Len(w), \A i \in 1..Len(s) : s[i] = w[i]
    PROVE  Tracked(push_chunk(a, Bytes(s)), FoldLeft(Seen, t, s), w, Len(s))
<1> DEFINE A(r) == P!FoldLeft(push_byte, a, Bytes(r))
           U(r) == T!FoldLeft(Seen, t, r)
           Kept(r) == /\ Len(r) <= Len(w) /\ \A i \in 1..Len(r) : r[i] = w[i]
                    => Tracked(A(r), U(r), w, Len(r))
           X == {r \in Seq(Place) : Kept(r)}
<1>1. <<>> \in X
  <2>1. Bytes(<<>>) = <<>>
    BY DEF Bytes
  <2>2. A(<<>>) = a /\ U(<<>>) = t
    BY <2>1, P!FoldNil, T!FoldNil
  <2>3. QED  BY <2>2
<1>2. ASSUME NEW r \in Seq(Place), NEW x \in Place, r \in X
      PROVE  Append(r, x) \in X
  <2> DEFINE z == Append(r, x)
             n == Len(r)
  <2>1. /\ z \in Seq(Place) /\ Len(z) = n + 1 /\ n \in Nat /\ z[n + 1] = x
        /\ \A i \in 1..n : z[i] = r[i]
    BY AppendProperties, LenProperties
  <2>2. /\ Bytes(r) \in Seq(Byte) /\ x.byte \in Byte
        /\ Bytes(z) = Append(Bytes(r), x.byte)
    BY BytesAppend
  <2>3. A(z) = push_byte(A(r), x.byte)
    <3> DEFINE b == Bytes(r)
               v == x.byte
    <3>1. b \in Seq(Byte) /\ v \in Byte
      BY <2>2
    <3> HIDE DEF b, v
    <3>2. P!FoldLeft(push_byte, a, Append(b, v)) = push_byte(P!FoldLeft(push_byte, a, b), v)
      BY <3>1, P!FoldAppend
    <3> HIDE DEF z
    <3>3. QED  BY <2>2, <3>2, Zenon DEF b, v
  <2>4. U(z) = Seen(U(r), x)
    BY T!FoldAppend
  <2> HIDE DEF z
  <2>5. SUFFICES ASSUME Len(z) <= Len(w), \A i \in 1..Len(z) : z[i] = w[i]
                 PROVE  Tracked(A(z), U(z), w, Len(z))
    BY <2>1 DEF z
  <2>6. Len(w) \in Nat
    BY LenProperties DEF WireInv
  <2>7. n <= Len(w) /\ n \in 0..(Len(w) - 1) /\ n + 1 \in 1..Len(z)
    <3> DEFINE lw == Len(w)
               lz == Len(z)
    <3>1. n \in Nat /\ lw \in Nat /\ lz = n + 1 /\ lz <= lw
      BY <2>1, <2>5, <2>6
    <3> HIDE DEF n, lw, lz
    <3>2. n <= lw /\ n \in 0..(lw - 1) /\ n + 1 \in 1..lz
      BY <3>1
    <3>3. QED  BY <3>2 DEF lw, lz
  <2>8. \A i \in 1..n : r[i] = w[i]
    <3>1. 1..n \subseteq 1..Len(z)
      BY <2>1
    <3>2. QED  BY <2>1, <2>5, <3>1
  <2>9. Tracked(A(r), U(r), w, n)
    BY <1>2, <2>7, <2>8
  <2>10. x = w[n + 1]
    BY <2>1, <2>5, <2>7
  <2> DEFINE y == A(r)
             g == U(r)
  <2> HIDE DEF y, g
  <2>11. Tracked(push_byte(y, w[n + 1].byte), Seen(g, w[n + 1]), w, n + 1)
    <3>1. Tracked(y, g, w, n)
      BY <2>9 DEF y, g
    <3> HIDE DEF n
    <3>2. QED  BY <2>7, <3>1, TrackedStep
  <2>12. A(z) = push_byte(y, w[n + 1].byte) /\ U(z) = Seen(g, w[n + 1]) /\ Len(z) = n + 1
    BY <2>1, <2>3, <2>4, <2>10 DEF y, g
  <2> HIDE DEF A, U, n
  <2>13. QED  BY <2>11, <2>12
<1> HIDE DEF X
<1>3. \A r \in Seq(Place) : r \in X
  BY <1>1, <1>2, P!AppendInduction
<1>4. Tracked(A(s), U(s), w, Len(s))
  BY <1>3 DEF X
<1>5. push_chunk(a, Bytes(s)) = A(s) /\ FoldLeft(Seen, t, s) = U(s)
  BY PushFold, SeenFold, Zenon DEF push_chunk
<1> HIDE DEF A, U
<1>6. QED  BY <1>4, <1>5

\* A frame handed on settles the count.
LEMMA TrackedHanded ==
    ASSUME NEW w, NEW d, NEW a, NEW t, Tracked(a, t, w, d)
    PROVE  Tracked([a EXCEPT !.ready = <<>>],
                   IF a.ready = <<>> THEN t ELSE [t EXCEPT !.missed = 0], w, d)
<1> DEFINE b == [a EXCEPT !.ready = <<>>]
           u == IF a.ready = <<>> THEN t ELSE [t EXCEPT !.missed = 0]
<1>1. a \in Assembler /\ t \in Trace /\ (a.ready = <<>> => t.missed <= 1)
  BY DEF Tracked
<1>2. b \in Assembler /\ b.buf = a.buf /\ b.ready = <<>>
  <2>1. a \in [buf : Seq(Byte), ready : Seq(Byte)] /\ Held(a.buf) /\ <<>> \in Seq(Byte)
    BY <1>1 DEF Assembler
  <2>2. b \in [buf : Seq(Byte), ready : Seq(Byte)] /\ b.buf = a.buf /\ b.ready = <<>>
    BY <2>1
  <2> HIDE DEF b
  <2>3. QED  BY <2>1, <2>2 DEF Assembler
<1>3. /\ u \in Trace /\ u.run = t.run /\ u.clean = t.clean /\ u.stray = t.stray
      /\ u.missed = IF a.ready = <<>> THEN t.missed ELSE 0
  <2>1. CASE a.ready = <<>>
    BY <1>1, <2>1
  <2>2. CASE a.ready # <<>>
    BY <1>1, <2>2 DEF Trace
  <2>3. QED  BY <2>1, <2>2
<1> HIDE DEF b, u
<1>4. Owing(b, u) => Owing(a, t)
  BY <1>2, <1>3 DEF Owing
<1>5. u.missed <= 1
  BY <1>1, <1>3
<1>6. ASSUME t.run \in 1..(kJkResponseSize - 1) PROVE Tracked(b, u, w, d)
  <2>1. PICK f \in JkFrames : InFrame(a, t, w, d, f)
    BY <1>6 DEF Tracked
  <2>2. InFrame(b, u, w, d, f)
    BY <1>2, <1>3, <1>4, <2>1 DEF InFrame, Synced, Searching, Filling
  <2>3. QED  BY <1>2, <1>3, <1>5, <1>6, <2>2 DEF Tracked
<1>7. ASSUME t.run \notin 1..(kJkResponseSize - 1) PROVE Tracked(b, u, w, d)
  <2>1. Between(b, u, w, d)
    BY <1>2, <1>3, <1>4, <1>7 DEF Tracked, Between
  <2>2. QED  BY <1>2, <1>3, <1>5, <1>7, <2>1 DEF Tracked
<1>8. Tracked(b, u, w, d)
  BY <1>6, <1>7
<1>9. QED  BY <1>8 DEF b, u

\* What follows the first d symbols of the wire.
LEMMA TrackedCut ==
    ASSUME NEW w, WireInv(w), NEW d \in 0..Len(w), NEW x \in Seq(Place),
           Len(x) = Len(w) - d, \A i \in 1..(Len(w) - d) : x[i] = w[i + d]
    PROVE  /\ WireInv(x)
           /\ \A a, t : Tracked(a, t, w, d) => Tracked(a, t, x, 0)
<1> DEFINE n == Len(w)
           m == Len(x)
           N == kJkResponseSize
<1>1. n \in Nat /\ m \in Nat /\ m = n - d /\ d \in 0..n /\ N \in Nat /\ N >= 7
  BY LenProperties, JkSizeAssumption DEF WireInv
<1>2. \A i \in 1..m : i + d \in 1..n /\ x[i] = w[i + d]
  BY <1>1
<1> HIDE DEF n, m, N
<1>3. ASSUME NEW i \in 0..m, NEW f, NEW k \in 0..N, Follows(w, d + i, f, k)
      PROVE  Follows(x, i, f, k)
  <2>1. ASSUME NEW j \in 1..(N - k) PROVE i + j <= m /\ x[i + j] = f[k + j]
    <3>1. d + i + j <= n /\ w[d + i + j] = f[k + j]
      BY <1>3, <2>1 DEF Follows, n, N
    <3>2. /\ i \in Nat /\ j \in Nat /\ j >= 1 /\ d \in Nat
          /\ n \in Nat /\ m \in Nat /\ m = n - d
      BY <1>1, <2>1
    <3>3. i + j \in 1..m /\ i + j <= m /\ (i + j) + d = d + i + j
      BY <3>1, <3>2
    <3>4. QED  BY <1>2, <3>1, <3>3
  <2>2. QED  BY <2>1 DEF Follows, m, N
<1>4. ASSUME NEW i \in 1..m
      PROVE  /\ x[i].place = 0 => x[i].byte \in Noise
             /\ x[i].place # 0 => \E f \in JkFrames :
                                      x[i] = f[x[i].place] /\ Follows(x, i, f, x[i].place)
             /\ x[i].place \in {0, kJkResponseSize} =>
                    \A j \in 1..m : j = i + 1 => x[j].place <= 1
  <2>1. i + d \in 1..n /\ x[i] = w[i + d] /\ i + d = d + i /\ i \in 0..m
    BY <1>1, <1>2
  <2>2. x[i].place \in 0..N
    <3>1. x[i] \in Place
      BY ElementOfSeq DEF m
    <3>2. QED  BY <3>1 DEF Place, N
  <2>3. x[i].place = 0 => x[i].byte \in Noise
    BY <2>1 DEF WireInv, n
  <2>4. ASSUME x[i].place # 0
        PROVE  \E f \in JkFrames : x[i] = f[x[i].place] /\ Follows(x, i, f, x[i].place)
    <3>1. PICK f \in JkFrames : w[i + d] = f[x[i].place] /\ Follows(w, i + d, f, x[i].place)
      BY <2>1, <2>4 DEF WireInv, n
    <3>2. Follows(x, i, f, x[i].place)
      BY <1>3, <2>1, <2>2, <3>1
    <3>3. QED  BY <2>1, <3>1, <3>2
  <2>5. ASSUME x[i].place \in {0, kJkResponseSize}, NEW j \in 1..m, j = i + 1
        PROVE  x[j].place <= 1
    <3>1. j + d \in 1..n /\ x[j] = w[j + d] /\ j + d = (i + d) + 1
      BY <1>1, <1>2, <2>5
    <3>2. QED  BY <2>1, <2>5, <3>1 DEF WireInv, n
  <2>6. QED  BY <2>3, <2>4, <2>5
<1>5. WireInv(x)
  BY <1>4 DEF WireInv, m
<1>6. ASSUME NEW a, NEW t, Tracked(a, t, w, d)
      PROVE  Tracked(a, t, x, 0)
  <2>1. a \in Assembler /\ t \in Trace /\ (a.ready = <<>> => t.missed <= 1)
    BY <1>6 DEF Tracked
  <2>2. CASE t.run \in 1..(kJkResponseSize - 1)
    <3>1. PICK f \in JkFrames : InFrame(a, t, w, d, f)
      BY <1>6, <2>2 DEF Tracked
    <3>2. Follows(w, d + 0, f, t.run) /\ 0 \in 0..m /\ t.run \in 0..N
      BY <1>1, <2>2, <3>1 DEF InFrame, N
    <3>3. Follows(x, 0, f, t.run)
      BY <1>3, <3>2
    <3>4. InFrame(a, t, x, 0, f)
      BY <3>1, <3>3 DEF InFrame
    <3>5. QED  BY <2>1, <2>2, <3>4 DEF Tracked
  <2>3. CASE t.run \notin 1..(kJkResponseSize - 1)
    <3>1. Between(a, t, w, d)
      BY <1>6, <2>3 DEF Tracked
    <3>2. ASSUME Owing(a, t), NEW j \in 1..m, j = 0 + 1 PROVE x[j].place <= 1
      <4>1. j + d \in 1..n /\ x[j] = w[j + d] /\ j + d = d + 1
        BY <1>1, <1>2, <3>2
      <4>2. QED  BY <3>1, <3>2, <4>1 DEF Between, n
    <3>3. Between(a, t, x, 0)
      BY <3>1, <3>2 DEF Between, m
    <3>4. QED  BY <2>1, <2>3, <3>3 DEF Tracked
  <2>4. QED  BY <2>2, <2>3
<1>7. QED  BY <1>5, <1>6

\* Something more is sent.
LEMMA TrackedMore ==
    ASSUME NEW w, WireInv(w), NEW x, WireInv(x), x # <<>>, x[1].place <= 1
    PROVE  /\ WireInv(w \o x)
           /\ \A a, t : Tracked(a, t, w, 0) => Tracked(a, t, w \o x, 0)
<1> DEFINE n == Len(w)
           m == Len(x)
           N == kJkResponseSize
           y == w \o x
<1>1. /\ n \in Nat /\ m \in Nat /\ m >= 1 /\ N \in Nat /\ N >= 7
      /\ w \in Seq(Place) /\ x \in Seq(Place)
  BY LenProperties, EmptySeq, JkSizeAssumption DEF WireInv
<1>2. y \in Seq(Place) /\ Len(y) = n + m
      /\ \A i \in 1..(n + m) : y[i] = IF i <= n THEN w[i] ELSE x[i - n]
  BY <1>1, ConcatProperties
<1> HIDE DEF n, m, N, y
<1>3. \A i \in 1..n : i \in 1..(n + m) /\ y[i] = w[i]
  BY <1>1, <1>2
<1>4. \A i \in 1..m : n + i \in 1..(n + m) /\ y[n + i] = x[i]
  <2>1. ASSUME NEW i \in 1..m PROVE n + i \in 1..(n + m) /\ y[n + i] = x[i]
    <3>1. n + i \in 1..(n + m) /\ ~(n + i <= n) /\ (n + i) - n = i
      BY <1>1
    <3>2. QED  BY <1>2, <3>1
  <2>2. QED  BY <2>1
<1>5. \A i \in 1..(n + m) : i \in 1..n \/ \E j \in 1..m : i = n + j
  <2>1. ASSUME NEW i \in 1..(n + m), i \notin 1..n PROVE i - n \in 1..m /\ i = n + (i - n)
    BY <1>1, <2>1
  <2>2. QED  BY <2>1
<1>6. ASSUME NEW i \in 0..n, NEW f, NEW k \in 0..N, Follows(w, i, f, k)
      PROVE  Follows(y, i, f, k)
  <2>1. ASSUME NEW j \in 1..(N - k) PROVE i + j <= n + m /\ y[i + j] = f[k + j]
    <3>1. i + j <= n /\ w[i + j] = f[k + j]
      BY <1>6, <2>1 DEF Follows, n, N
    <3>2. i + j \in 1..n /\ i + j <= n + m
      BY <1>1, <2>1, <3>1
    <3>3. QED  BY <1>3, <3>1, <3>2
  <2>2. QED  BY <1>2, <2>1 DEF Follows, N
<1>7. ASSUME NEW i \in 1..m, NEW f, NEW k \in 0..N, Follows(x, i, f, k)
      PROVE  Follows(y, n + i, f, k)
  <2>1. ASSUME NEW j \in 1..(N - k) PROVE n + i + j <= n + m /\ y[n + i + j] = f[k + j]
    <3>1. i + j <= m /\ x[i + j] = f[k + j]
      BY <1>7, <2>1 DEF Follows, m, N
    <3>2. i + j \in 1..m /\ n + (i + j) = n + i + j /\ n + i + j <= n + m
      BY <1>1, <2>1, <3>1
    <3>3. QED  BY <1>4, <3>1, <3>2
  <2>2. QED  BY <1>2, <2>1 DEF Follows, N
<1>8. \A j \in 1..(n + m) : j = n + 1 => y[j].place <= 1
  <2>1. 1 \in 1..m /\ y[n + 1] = x[1]
    BY <1>1, <1>4
  <2>2. QED  BY <2>1
<1> DEFINE Good(i) ==
        /\ y[i].place = 0 => y[i].byte \in Noise
        /\ y[i].place # 0 => \E f \in JkFrames :
                                 y[i] = f[y[i].place] /\ Follows(y, i, f, y[i].place)
        /\ y[i].place \in {0, kJkResponseSize} =>
               \A j \in 1..(n + m) : j = i + 1 => y[j].place <= 1
<1>9. ASSUME NEW i \in 1..n PROVE Good(i)
  <2>1. y[i] = w[i] /\ i \in 0..n
    BY <1>1, <1>3
  <2>2. w[i].place \in 0..N
    <3>1. w[i] \in Place
      BY <1>1, ElementOfSeq DEF n
    <3>2. QED  BY <3>1 DEF Place, N
  <2>3. w[i].place = 0 => w[i].byte \in Noise
    BY DEF WireInv, n
  <2>4. ASSUME w[i].place # 0
        PROVE  \E f \in JkFrames : w[i] = f[w[i].place] /\ Follows(y, i, f, w[i].place)
    <3>1. PICK f \in JkFrames : w[i] = f[w[i].place] /\ Follows(w, i, f, w[i].place)
      BY <2>4 DEF WireInv, n
    <3>2. QED  BY <1>6, <2>1, <2>2, <3>1
  <2>5. ASSUME w[i].place \in {0, kJkResponseSize}, NEW j \in 1..(n + m), j = i + 1
        PROVE  y[j].place <= 1
    <3>1. CASE j \in 1..n
      <4>1. w[j].place <= 1
        BY <2>5, <3>1 DEF WireInv, n
      <4>2. QED  BY <1>3, <3>1, <4>1
    <3>2. CASE j \notin 1..n
      <4>1. j = n + 1
        BY <1>1, <2>5, <3>2
      <4>2. QED  BY <1>8, <4>1
    <3>3. QED  BY <3>1, <3>2
  <2>6. QED  BY <2>1, <2>3, <2>4, <2>5
<1>10. ASSUME NEW h \in 1..m PROVE Good(n + h)
  <2>1. y[n + h] = x[h]
    BY <1>4
  <2>2. x[h].place \in 0..N
    <3>1. x[h] \in Place
      BY <1>1, ElementOfSeq DEF m
    <3>2. QED  BY <3>1 DEF Place, N
  <2>3. x[h].place = 0 => x[h].byte \in Noise
    BY DEF WireInv, m
  <2>4. ASSUME x[h].place # 0
        PROVE  \E f \in JkFrames : x[h] = f[x[h].place] /\ Follows(y, n + h, f, x[h].place)
    <3>1. PICK f \in JkFrames : x[h] = f[x[h].place] /\ Follows(x, h, f, x[h].place)
      BY <2>4 DEF WireInv, m
    <3>2. QED  BY <1>7, <2>2, <3>1
  <2>5. ASSUME x[h].place \in {0, kJkResponseSize}, NEW j \in 1..(n + m), j = n + h + 1
        PROVE  y[j].place <= 1
    <3>1. h + 1 \in 1..m /\ j = n + (h + 1)
      BY <1>1, <2>5
    <3>2. x[h + 1].place <= 1
      BY <2>5, <3>1 DEF WireInv, m
    <3>3. QED  BY <1>4, <3>1, <3>2
  <2>6. QED  BY <2>1, <2>3, <2>4, <2>5
<1> HIDE DEF Good
<1>11. \A i \in 1..(n + m) : Good(i)
  BY <1>5, <1>9, <1>10
<1>12. WireInv(y)
  BY <1>2, <1>11 DEF WireInv, Good
<1>13. ASSUME NEW a, NEW t, Tracked(a, t, w, 0)
       PROVE  Tracked(a, t, y, 0)
  <2>1. a \in Assembler /\ t \in Trace /\ (a.ready = <<>> => t.missed <= 1)
    BY <1>13 DEF Tracked
  <2>2. CASE t.run \in 1..(kJkResponseSize - 1)
    <3>1. PICK f \in JkFrames : InFrame(a, t, w, 0, f)
      BY <1>13, <2>2 DEF Tracked
    <3>2. Follows(w, 0, f, t.run) /\ 0 \in 0..n /\ t.run \in 0..N
      BY <1>1, <2>2, <3>1 DEF InFrame, N
    <3>3. Follows(y, 0, f, t.run)
      BY <1>6, <3>2
    <3>4. InFrame(a, t, y, 0, f)
      BY <3>1, <3>3 DEF InFrame
    <3>5. QED  BY <2>1, <2>2, <3>4 DEF Tracked
  <2>3. CASE t.run \notin 1..(kJkResponseSize - 1)
    <3>1. Between(a, t, w, 0)
      BY <1>13, <2>3 DEF Tracked
    <3>2. ASSUME Owing(a, t), NEW j \in 1..(n + m), j = 0 + 1 PROVE y[j].place <= 1
      <4>1. CASE j \in 1..n
        <5>1. w[j].place <= 1
          BY <3>1, <3>2, <4>1 DEF Between, n
        <5>2. QED  BY <1>3, <4>1, <5>1
      <4>2. CASE j \notin 1..n
        <5>1. j = n + 1
          BY <1>1, <3>2, <4>2
        <5>2. QED  BY <1>8, <5>1
      <4>3. QED  BY <4>1, <4>2
    <3>3. Between(a, t, y, 0)
      BY <1>2, <3>1, <3>2 DEF Between
    <3>4. QED  BY <2>1, <2>3, <3>3 DEF Tracked
  <2>4. QED  BY <2>2, <2>3
<1>14. QED  BY <1>12, <1>13 DEF y

LEMMA ItemIs ==
    ASSUME NEW x \in JkFrames \cup {<<[byte |-> b, place |-> 0]>> : b \in Noise}
    PROVE  WireInv(x) /\ x # <<>> /\ x[1].place <= 1
<1> DEFINE N == kJkResponseSize
<1>1. N \in Nat /\ N >= 7
  BY JkSizeAssumption
<1>2. CASE x \in JkFrames
  <2>1. /\ x \in Seq(Place) /\ Len(x) = N
        /\ \A i \in 1..N : x[i].place = i
    BY <1>2, JkFrameIs
  <2> HIDE DEF N
  <2>2. ASSUME NEW i \in 1..N PROVE Follows(x, i, x, i)
    <3>1. \A j \in 1..(N - i) : i + j <= N
      BY <1>1
    <3>2. QED  BY <2>1, <3>1 DEF Follows, N
  <2>3. ASSUME NEW i \in 1..N, i \in {0, N}, NEW j \in 1..N, j = i + 1
        PROVE  x[j].place <= 1
    BY <1>1, <2>3
  <2>4. \A i \in 1..N : x[i].place = i /\ i # 0
    BY <1>1, <2>1
  <2>5. WireInv(x)
    BY <1>2, <2>1, <2>2, <2>3, <2>4 DEF WireInv, N
  <2>6. 1 \in 1..N
    BY <1>1
  <2>7. x # <<>> /\ x[1].place = 1
    BY <1>1, <2>1, <2>6
  <2>8. QED  BY <2>5, <2>7
<1>3. CASE \E b \in Noise : x = <<[byte |-> b, place |-> 0]>>
  <2>1. PICK b \in Noise : x = <<[byte |-> b, place |-> 0]>>
    BY <1>3
  <2>2. [byte |-> b, place |-> 0] \in Place
    BY ByteAssumption, JkSizeAssumption DEF Place, Byte
  <2>3. x \in Seq(Place) /\ Len(x) = 1 /\ x[1].place = 0 /\ x[1].byte = b /\ x # <<>>
    BY <2>1, <2>2
  <2>4. \A i \in 1..Len(x) : i = 1
    BY <2>3
  <2>5. \A j \in 1..Len(x) : j # 1 + 1
    BY <2>3
  <2>6. WireInv(x)
    BY <2>3, <2>4, <2>5 DEF WireInv
  <2>7. QED  BY <2>3, <2>6
<1>4. QED  BY <1>2, <1>3

\* Nothing has been missed on a line that was just (re)opened or has lost bytes.
LEMMA TrackedAnew ==
    ASSUME NEW a \in Assembler, NEW w, NEW d
    PROVE  Tracked(a, Unseen, w, d)
<1>1. Unseen \in Trace /\ Unseen.run = 0 /\ Unseen.missed = 0
  BY NewTypes DEF Unseen
<1>2. 0 \notin 1..(kJkResponseSize - 1)
  BY JkSizeAssumption
<1>3. QED  BY <1>1, <1>2 DEF Tracked, Between, Owing

LEMMA WireEmpty == WireInv(<<>>)
BY DEF WireInv

\* A battery keeps its link, and on a serial line the trace stays as it is.
LEMMA LinkKept ==
    [Next]_vars => link' = link /\ (link = "ttl" /\ trace = Unseen => trace' = Unseen)
<1> SUFFICES ASSUME [Next]_vars
             PROVE  link' = link /\ (link = "ttl" /\ trace = Unseen => trace' = Unseen)
  OBVIOUS
<1>1. CASE JkSends \/ PylAnswers \/ PylNoise \/ LoseBytes \/ on_disconnected
  BY <1>1 DEF JkSends, PylAnswers, PylNoise, LoseBytes, on_disconnected
<1>2. CASE on_connected \/ on_poll_tick \/ on_settings_tick \/ Tick \/ UNCHANGED vars
  BY <1>2 DEF on_connected, on_poll_tick, on_settings_tick, Tick, vars
<1>3. CASE on_bytes
  <2>1. link' = link
    BY <1>3 DEF on_bytes
  <2>2. link = "ttl" => trace' = trace
    BY <1>3, TtlBytes
  <2>3. QED  BY <2>1, <2>2
<1>4. QED  BY <1>1, <1>2, <1>3 DEF Next

LEMMA JkInit == Init => JkInv
<1> SUFFICES ASSUME Init, link = "bluetooth" PROVE JkInv
  BY DEF JkInv
<1>1. wire = <<>> /\ trace = Unseen /\ proto = NewAssembler
  BY DEF Init
<1>2. Tracked(proto, trace, wire, 0)
  BY <1>1, NewTypes, TrackedAnew
<1>3. QED  BY <1>1, <1>2, WireEmpty DEF JkInv

\* A chunk of a Bluetooth link.
LEMMA JkChunk ==
    ASSUME NoFalseMagic, TypeInv, JkInv, on_bytes, link = "bluetooth"
    PROVE  JkInv'
<1>1. /\ WireInv(wire) /\ wire \in Seq(Place) /\ Tracked(proto, trace, wire, 0)
      /\ ~shared.connected => wire = <<>>
  BY DEF JkInv, WireInv
<1>2. PICK k \in 1..Min({MaxChunk, Len(wire)}) :
               /\ wire' = SubSeq(wire, k + 1, Len(wire))
               /\ Handed(jk_feed(proto, ChunkBytes(k)))
               /\ trace' = LET t == FoldLeft(Seen, trace, SubSeq(wire, 1, k))
                           IN  IF push_chunk(proto, ChunkBytes(k)).ready = <<>> THEN t
                               ELSE [t EXCEPT !.missed = 0]
  BY JkBytes
<1> DEFINE s == SubSeq(wire, 1, k)
           b == push_chunk(proto, ChunkBytes(k))
           t == FoldLeft(Seen, trace, s)
<1>3. /\ k \in 1..Len(wire)
      /\ s \in Seq(Place) /\ Len(s) = k
      /\ \A i \in 1..k : s[i] = wire[i]
      /\ wire' \in Seq(Place)
      /\ Len(wire') = Len(wire) - k
      /\ \A i \in 1..(Len(wire) - k) : wire'[i] = wire[i + k]
  BY <1>1, <1>2, ChunkIs
<1>4. ChunkBytes(k) = Bytes(s)
  BY <1>3 DEF ChunkBytes, Bytes
<1> HIDE DEF s
<1>5. Len(wire) \in Nat /\ k <= Len(wire) /\ k \in 0..Len(wire) /\ Len(wire) # 0
  BY <1>1, <1>3, LenProperties
<1>6. Tracked(b, t, wire, k)
  BY <1>1, <1>3, <1>4, <1>5, TrackedChunk
<1>7. /\ proto' = [b EXCEPT !.ready = <<>>]
      /\ trace' = IF b.ready = <<>> THEN t ELSE [t EXCEPT !.missed = 0]
      /\ link' = link
  <2>1. jk_feed(proto, ChunkBytes(k)).proto = [b EXCEPT !.ready = <<>>]
    BY DEF jk_feed
  <2>2. QED  BY <1>2, <2>1, Zenon DEF Handed, s
<1> HIDE DEF b, t
<1>8. Tracked(proto', trace', wire, k)
  BY <1>6, <1>7, TrackedHanded
<1>9. WireInv(wire') /\ Tracked(proto', trace', wire', 0)
  BY <1>1, <1>3, <1>5, <1>8, TrackedCut
<1>10. shared'.connected
  <2>1. wire # <<>>
    BY <1>5
  <2>2. shared.connected /\ shared'.connected = shared.connected
    <3>1. jk_feed(proto, ChunkBytes(k)).telemetry \in Reported
            /\ jk_feed(proto, ChunkBytes(k)).settings \in Reported
      BY <1>1, ByteChunk, FeedType DEF Tracked
    <3>2. shared'.connected = shared.connected
      BY <1>2, <3>1, HandedType
    <3>3. QED  BY <1>1, <2>1, <3>2
  <2>3. QED  BY <2>2
<1>11. QED  BY <1>9, <1>10 DEF JkInv

LEMMA JkStep ==
    ASSUME NoFalseMagic PROVE TypeInv /\ JkInv /\ [Next]_vars => JkInv'
<1> SUFFICES ASSUME TypeInv, JkInv, [Next]_vars, link' = "bluetooth" PROVE JkInv'
  BY DEF JkInv
<1>0. link' = link
  BY LinkKept
<1>1. /\ link = "bluetooth" /\ WireInv(wire) /\ wire \in Seq(Place)
      /\ Tracked(proto, trace, wire, 0)
      /\ ~shared.connected => wire = <<>> /\ trace = Unseen
      /\ proto \in Assembler /\ asked = <<>>
      /\ shared \in [connected : BOOLEAN, pack : Reported, settings : Reported]
  BY <1>0 DEF JkInv, WireInv, TypeInv
<1>2. CASE JkSends
  <2>1. PICK item \in JkFrames \cup {<<[byte |-> b, place |-> 0]>> : b \in Noise} :
            wire' = wire \o item
    BY <1>2 DEF JkSends
  <2>2. WireInv(item) /\ item # <<>> /\ item[1].place <= 1
    BY ItemIs
  <2>3. WireInv(wire') /\ Tracked(proto, trace, wire', 0)
    BY <1>1, <2>1, <2>2, TrackedMore
  <2>4. shared.connected /\ UNCHANGED <<link, proto, shared, trace>>
    BY <1>2 DEF JkSends
  <2>5. QED  BY <2>3, <2>4 DEF JkInv
<1>3. CASE PylAnswers \/ PylNoise
  BY <1>1, <1>3 DEF PylAnswers, PylNoise
<1>4. CASE LoseBytes
  <2>1. PICK k \in 1..Min({MaxChunk, Len(wire)}) : wire' = SubSeq(wire, k + 1, Len(wire))
    BY <1>4 DEF LoseBytes
  <2>2. /\ k \in 1..Len(wire) /\ wire' \in Seq(Place)
        /\ Len(wire') = Len(wire) - k
        /\ \A i \in 1..(Len(wire) - k) : wire'[i] = wire[i + k]
    BY <1>1, <2>1, ChunkIs
  <2>3. Len(wire) \in Nat /\ k \in 0..Len(wire) /\ wire # <<>>
    BY <1>1, <2>2, LenProperties
  <2>4. WireInv(wire')
    BY <1>1, <2>2, <2>3, TrackedCut
  <2>5. trace' = Unseen /\ UNCHANGED <<proto, shared>>
    BY <1>4 DEF LoseBytes
  <2>6. QED  BY <1>1, <2>3, <2>4, <2>5, TrackedAnew DEF JkInv
<1>5. CASE on_connected
  <2>1. proto' = NewAssembler /\ wire' = <<>> /\ trace' = Unseen /\ shared'.connected
    BY <1>1, <1>5 DEF on_connected, Reset
  <2>2. QED  BY <2>1, NewTypes, TrackedAnew, WireEmpty DEF JkInv
<1>6. CASE on_disconnected
  <2>1. proto' = NewAssembler /\ wire' = <<>> /\ trace' = Unseen
    BY <1>1, <1>6 DEF on_disconnected, Reset
  <2>2. QED  BY <2>1, NewTypes, TrackedAnew, WireEmpty DEF JkInv
<1>7. CASE on_poll_tick \/ on_settings_tick \/ Tick \/ UNCHANGED vars
  <2>1. UNCHANGED <<link, wire, proto, shared, trace>>
    BY <1>7 DEF on_poll_tick, on_settings_tick, Tick, vars
  <2>2. QED  BY <1>1, <2>1 DEF JkInv
<1>8. CASE on_bytes
  BY <1>1, <1>8, JkChunk
<1>9. QED  BY <1>2, <1>3, <1>4, <1>5, <1>6, <1>7, <1>8 DEF Next

\* JkFrameAssembler::push_chunk() finds its way back after bytes were lost,
\* whatever the notifications are: it never misses two frames in a row that arrive
\* whole and not directly after a 0x55, if no frame and no noise looks like the
\* start of another frame.
THEOREM JkFindsBack == ASSUME NoFalseMagic PROVE Spec => []JkRecovers
<1> DEFINE Inv == TypeInv /\ JkInv /\ (link = "ttl" => trace = Unseen)
<1>1. Init => Inv
  BY TypeInit, JkInit DEF Init
<1>2. Inv /\ [Next]_vars => Inv'
  <2>1. Inv /\ [Next]_vars => TypeInv' /\ JkInv'
    BY TypeStep, JkStep
  <2>2. Inv /\ [Next]_vars => (link' = "ttl" => trace' = Unseen)
    BY LinkKept
  <2>3. QED  BY <2>1, <2>2
<1>3. Inv => JkRecovers
  <2>1. SUFFICES ASSUME Inv PROVE JkRecovers
    OBVIOUS
  <2>2. CASE link = "ttl"
    BY <2>1, <2>2 DEF JkRecovers, Unseen
  <2>3. CASE link = "bluetooth"
    BY <2>1, <2>3 DEF TypeInv, JkInv, Tracked, JkRecovers
  <2>4. QED  BY <2>1, <2>2, <2>3 DEF TypeInv
<1>4. QED  BY <1>1, <1>2, <1>3, PTL DEF Spec
=============================================================================
