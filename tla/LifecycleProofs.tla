-------------------------- MODULE LifecycleProofs ---------------------------
(***************************************************************************)
(* Theorems about Lifecycle, for every set of configuration files, every   *)
(* number of batteries and of descriptors, and every point at which a      *)
(* signal comes: the Dispatcher's tables agree, no object is used after    *)
(* its destruction, and no port and no descriptor of a port is lost.       *)
(***************************************************************************)
EXTENDS Lifecycle, SequenceTheorems, TLAPS

N == Len(file.blocks)

\* The configuration does not change, and the ports are the configured ones.
TypeInv ==
    /\ file \in Files
    /\ DOMAIN link = DOMAIN file.blocks
    /\ DOMAIN port = Ports
    /\ http \in [thread : {"none", "starting", "looping", "ended"},
                 stopping : BOOLEAN, broken : BOOLEAN]

LEMMA BlocksType ==
    ASSUME file \in Files
    PROVE  N \in Nat /\ DOMAIN file.blocks = 1..N
BY FilesAssumption DEF N

LEMMA PortsType ==
    ASSUME file \in Files
    PROVE  Ports \subseteq 0..N /\ 0 \in Ports
BY BlocksType DEF Ports

-----------------------------------------------------------------------------
(* What StartUp and StopAll are made of *)

LEMMA StartBattery ==
    ASSUME file \in Files, NEW n \in 1..(4 * N)
    PROVE  LET h == StartBatteries[n]
           IN  /\ h[1] \in {"queue", "reopen", "port", "poll", "settings", "none"}
               /\ h[2] \in 1..N
               /\ h[1] \in {"reopen", "port"} => h[2] \in Ports
<1> DEFINE i == (n + 3) \div 4
           t == Transport(file.blocks[i], link[i])
           k == n - 4 * (i - 1)
<1>1. N \in Nat /\ DOMAIN file.blocks = 1..N
  BY BlocksType
<1>2. i \in 1..N /\ k \in 1..4
  BY <1>1
<1>3. StartBatteries[n] = <<Opened(t)[k], i>>
  BY <1>1 DEF StartBatteries, N
<1> HIDE DEF i, k
<1>4. /\ Opened(t)[k] \in {"queue", "reopen", "port", "poll", "settings", "none"}
      /\ Opened(t)[k] \in {"reopen", "port"} => t = "uart"
  BY <1>2 DEF Opened
<1>5. QED  BY <1>1, <1>2, <1>3, <1>4 DEF Ports

LEMMA Concatenation ==
    ASSUME NEW T, NEW s \in Seq(T), NEW t \in Seq(T)
    PROVE  /\ s \o t \in Seq(T)
           /\ Len(s \o t) = Len(s) + Len(t)
           /\ \A n \in 1..Len(s) : (s \o t)[n] = s[n]
           /\ \A n \in (Len(s) + 1)..(Len(s) + Len(t)) : (s \o t)[n] = t[n - Len(s)]
BY ConcatProperties

LEMMA StartUpType ==
    ASSUME file \in Files
    PROVE  /\ Len(StartUp) = 4 * N + 5
           /\ DOMAIN StartUp = 1..(4 * N + 5)
           /\ \E T : StartUp \in Seq(T)
           /\ StartUp[4 * N + 3] = <<"reopen", 0>>
           /\ StartUp[4 * N + 4] = <<"port", 0>>
           /\ StartUp[4 * N + 5] = <<"http", 0>>
           /\ StartUp[1] = Signalfd /\ StartUp[2] = <<"hourly", 0>>
           /\ \A n \in 3..(4 * N + 2) :
                  n - 2 \in 1..(4 * N) /\ StartUp[n] = StartBatteries[n - 2]
           /\ \A n \in 1..(4 * N + 2) :
                  /\ StartUp[n] # <<"reopen", 0>>
                  /\ StartUp[n][1] \in {"reopen", "port"} =>
                         StartUp[n][2] \in Ports \ {0}
<1> DEFINE A == << Signalfd, <<"hourly", 0>> >>
           B == StartBatteries
           C == << <<"reopen", 0>>, <<"port", 0>>, <<"http", 0>> >>
           Steps == {A[1], A[2], C[1], C[2], C[3]} \cup {B[n] : n \in 1..(4 * N)}
<1>1. N \in Nat
  BY BlocksType
<1>2. /\ A \in Seq(Steps) /\ Len(A) = 2
      /\ B \in Seq(Steps) /\ Len(B) = 4 * N
      /\ C \in Seq(Steps) /\ Len(C) = 3
  <2>1. A \in Seq(Steps) /\ Len(A) = 2 /\ C \in Seq(Steps) /\ Len(C) = 3
    OBVIOUS
  <2>2. B = [n \in 1..(4 * N) |-> B[n]] /\ 4 * N \in Nat
    BY <1>1 DEF StartBatteries, N
  <2>3. \A n \in 1..(4 * N) : B[n] \in Steps
    OBVIOUS
  <2> HIDE DEF B, Steps
  <2>4. B \in [1..(4 * N) -> Steps]
    BY <2>2, <2>3
  <2>5. B \in Seq(Steps) /\ Len(B) = 4 * N
    BY <2>2, <2>4
  <2>6. QED  BY <2>1, <2>5
<1>3. /\ Len((A \o B) \o C) = 4 * N + 5
      /\ (A \o B) \o C \in Seq(Steps)
      /\ \A n \in 1..2 : ((A \o B) \o C)[n] = A[n]
      /\ \A n \in 3..(4 * N + 2) : ((A \o B) \o C)[n] = B[n - 2]
      /\ \A n \in (4 * N + 3)..(4 * N + 5) : ((A \o B) \o C)[n] = C[n - (4 * N + 2)]
  <2> HIDE DEF A, B, C, Steps
  <2>1. /\ A \o B \in Seq(Steps) /\ Len(A \o B) = 4 * N + 2
        /\ \A n \in 1..2 : (A \o B)[n] = A[n]
        /\ \A n \in 3..(4 * N + 2) : (A \o B)[n] = B[n - 2]
    <3>1. /\ A \o B \in Seq(Steps) /\ Len(A \o B) = Len(A) + Len(B)
          /\ \A n \in 1..Len(A) : (A \o B)[n] = A[n]
          /\ \A n \in (Len(A) + 1)..(Len(A) + Len(B)) : (A \o B)[n] = B[n - Len(A)]
      BY <1>2, Concatenation
    <3>2. QED  BY <1>1, <1>2, <3>1
  <2> DEFINE AB == A \o B
  <2> HIDE DEF AB
  <2>2. /\ AB \o C \in Seq(Steps) /\ Len(AB \o C) = 4 * N + 5
        /\ \A n \in 1..(4 * N + 2) : (AB \o C)[n] = AB[n]
        /\ \A n \in (4 * N + 3)..(4 * N + 5) : (AB \o C)[n] = C[n - (4 * N + 2)]
    <3>1. AB \in Seq(Steps) /\ Len(AB) = 4 * N + 2
      BY <2>1 DEF AB
    <3>2. /\ AB \o C \in Seq(Steps) /\ Len(AB \o C) = Len(AB) + Len(C)
          /\ \A n \in 1..Len(AB) : (AB \o C)[n] = AB[n]
          /\ \A n \in (Len(AB) + 1)..(Len(AB) + Len(C)) : (AB \o C)[n] = C[n - Len(AB)]
      BY <1>2, <3>1, Concatenation
    <3>3. /\ Len(AB) + Len(C) = 4 * N + 5 /\ Len(AB) + 1 = 4 * N + 3
          /\ Len(AB) = 4 * N + 2
      BY <1>1, <1>2, <3>1
    <3>4. /\ Len(AB \o C) = 4 * N + 5
          /\ \A n \in 1..(4 * N + 2) : (AB \o C)[n] = AB[n]
      BY <3>2, <3>3
    <3>5. \A n \in (4 * N + 3)..(4 * N + 5) : (AB \o C)[n] = C[n - (4 * N + 2)]
      BY <3>2, <3>3
    <3>6. QED  BY <3>2, <3>4, <3>5, Zenon
  <2>3. /\ Len((A \o B) \o C) = 4 * N + 5 /\ (A \o B) \o C \in Seq(Steps)
        /\ \A n \in 1..(4 * N + 2) : ((A \o B) \o C)[n] = (A \o B)[n]
        /\ \A n \in (4 * N + 3)..(4 * N + 5) : ((A \o B) \o C)[n] = C[n - (4 * N + 2)]
    BY <2>2 DEF AB
  <2>4. (1..2) \subseteq 1..(4 * N + 2) /\ (3..(4 * N + 2)) \subseteq 1..(4 * N + 2)
    BY <1>1
  <2>5. QED  BY <2>1, <2>3, <2>4
<1>4. StartUp = (A \o B) \o C
  BY DEF StartUp
<1>5. \A n \in 3..(4 * N + 2) : n - 2 \in 1..(4 * N) /\ StartUp[n] = StartBatteries[n - 2]
  BY <1>1, <1>3, <1>4
<1>6. /\ StartUp[1] = Signalfd /\ StartUp[2] = <<"hourly", 0>>
      /\ StartUp[4 * N + 3] = <<"reopen", 0>>
      /\ StartUp[4 * N + 4] = <<"port", 0>>
      /\ StartUp[4 * N + 5] = <<"http", 0>>
  <2>1. StartUp[1] = A[1] /\ StartUp[2] = A[2]
    BY <1>3, <1>4
  <2>2. /\ StartUp[4 * N + 3] = C[1] /\ StartUp[4 * N + 4] = C[2]
        /\ StartUp[4 * N + 5] = C[3]
    <3> HIDE DEF A, B, C
    <3>1. \A n \in (4 * N + 3)..(4 * N + 5) : StartUp[n] = C[n - (4 * N + 2)]
      BY <1>3, <1>4
    <3>2. QED  BY <1>1, <3>1
  <2>3. QED  BY <2>1, <2>2
<1>7. /\ Len(StartUp) = 4 * N + 5 /\ DOMAIN StartUp = 1..(4 * N + 5)
      /\ \E T : StartUp \in Seq(T)
  <2>1. StartUp \in Seq(Steps)
    BY <1>3, <1>4
  <2> HIDE DEF Steps
  <2>2. \E T : StartUp \in Seq(T)
    BY <2>1
  <2>3. Len(StartUp) = 4 * N + 5
    BY <1>3, <1>4
  <2>4. QED  BY <1>1, <2>1, <2>2, <2>3
<1>8. ASSUME NEW n \in 1..(4 * N + 2)
      PROVE  /\ StartUp[n] # <<"reopen", 0>>
             /\ StartUp[n][1] \in {"reopen", "port"} => StartUp[n][2] \in Ports \ {0}
  <2>1. CASE n <= 2
    BY <2>1, <1>6 DEF Signalfd
  <2>2. CASE n > 2
    <3>1. n - 2 \in 1..(4 * N) /\ StartUp[n] = StartBatteries[n - 2]
      BY <1>1, <1>5, <2>2
    <3>2. /\ StartUp[n][2] \in 1..N
          /\ StartUp[n][1] \in {"reopen", "port"} => StartUp[n][2] \in Ports
      BY <3>1, StartBattery
    <3>3. QED  BY <1>1, <3>2
  <2>3. QED  BY <1>1, <2>1, <2>2
<1>9. QED  BY <1>5, <1>6, <1>7, <1>8

\* Where main() opens a port: second of the four steps of its battery, or last
\* but one.
Place(x) == IF x = 0 THEN 4 * N + 4 ELSE 4 * x

LEMMA PlaceOfPort ==
    ASSUME file \in Files, NEW x \in Ports
    PROVE  /\ Place(x) \in 1..(4 * N + 4) /\ StartUp[Place(x)] = <<"port", x>>
           /\ \A n \in 1..(4 * N + 5) :
                  StartUp[n][1] = "port" /\ StartUp[n][2] = x => n = Place(x)
<1>1. N \in Nat /\ x \in 0..N /\ DOMAIN file.blocks = 1..N
  BY BlocksType, PortsType
<1>2. x # 0 => Transport(file.blocks[x], link[x]) = "uart"
  BY DEF Ports
<1>3. ASSUME NEW m \in 1..(4 * N)
      PROVE  /\ m = 4 * x - 2 => StartBatteries[m] = <<"port", x>>
             /\ StartBatteries[m][1] = "port" /\ StartBatteries[m][2] = x => m = 4 * x - 2
  <2> DEFINE i == (m + 3) \div 4
             t == Transport(file.blocks[i], link[i])
             k == m - 4 * (i - 1)
  <2>1. StartBatteries[m] = <<Opened(t)[k], i>>
    BY <1>1, <1>3 DEF StartBatteries, N
  <2>2. i \in 1..N /\ k \in 1..4 /\ m = 4 * (i - 1) + k
    BY <1>1, <1>3
  <2>3. m = 4 * x - 2 => i = x /\ k = 2
    BY <1>1, <1>3
  <2> HIDE DEF i, k
  <2>4. Opened(t)[k] = "port" => k = 2
    BY <2>2 DEF Opened
  <2>5. i = x /\ k = 2 => Opened(t)[k] = "port"
    BY <1>2, <2>2 DEF Opened
  <2>6. QED  BY <1>1, <2>1, <2>2, <2>3, <2>4, <2>5
<1>4. /\ StartUp[4 * N + 4] = <<"port", 0>>
      /\ StartUp[4 * N + 3] = <<"reopen", 0>> /\ StartUp[4 * N + 5] = <<"http", 0>>
      /\ StartUp[1] = Signalfd /\ StartUp[2] = <<"hourly", 0>>
      /\ \A n \in 3..(4 * N + 2) :
             n - 2 \in 1..(4 * N) /\ StartUp[n] = StartBatteries[n - 2]
  BY StartUpType
<1>5. StartUp[Place(x)] = <<"port", x>> /\ Place(x) \in 1..(4 * N + 4)
  <2>1. CASE x = 0
    BY <1>1, <1>4, <2>1 DEF Place
  <2>2. CASE x # 0
    <3>1. Place(x) = 4 * x /\ 4 * x \in 3..(4 * N + 2) /\ 4 * x - 2 \in 1..(4 * N)
      BY <1>1, <2>2 DEF Place
    <3>2. QED  BY <1>1, <1>3, <1>4, <3>1
  <2>3. QED  BY <2>1, <2>2
<1>6. ASSUME NEW n \in 1..(4 * N + 5), StartUp[n][1] = "port", StartUp[n][2] = x
      PROVE  n = Place(x)
  <2>1. n # 1 /\ n # 2 /\ n # 4 * N + 3 /\ n # 4 * N + 5
    BY <1>4, <1>6 DEF Signalfd
  <2>2. CASE n = 4 * N + 4
    BY <1>4, <1>6, <2>2 DEF Place
  <2>3. CASE n # 4 * N + 4
    <3>1. n \in 3..(4 * N + 2)
      BY <1>1, <2>1, <2>3
    <3>2. n - 2 = 4 * x - 2 /\ n - 2 \in 1..(4 * N)
      BY <1>3, <1>4, <1>6, <3>1
    <3>3. QED  BY <1>1, <3>2 DEF Place
  <2>4. QED  BY <2>2, <2>3
<1>7. QED  BY <1>5, <1>6

LEMMA StopAllType ==
    ASSUME file \in Files
    PROVE  /\ StopAll \in Seq({StopAll[n] : n \in 1..N}) /\ Len(StopAll) = N /\ N \in Nat
           /\ \A i \in 1..N : /\ StopAll[i][2] = i
                              /\ StopAll[i][1] = "uart" <=> i \in Ports \ {0}
<1> DEFINE E == {StopAll[n] : n \in 1..N}
<1>1. N \in Nat /\ DOMAIN file.blocks = 1..N
  BY BlocksType
<1>2. /\ StopAll = [i \in 1..N |-> <<Transport(file.blocks[i], link[i]), i>>]
      /\ \A i \in 1..N : StopAll[i] \in E
  BY <1>1 DEF StopAll
<1> HIDE DEF E
<1>3. StopAll \in [1..N -> E]
  BY <1>2
<1>4. StopAll \in Seq(E) /\ Len(StopAll) = N
  BY <1>1, <1>3
<1>5. ASSUME NEW i \in 1..N
      PROVE  StopAll[i][2] = i /\ (StopAll[i][1] = "uart" <=> i \in Ports \ {0})
  <2>1. StopAll[i] = <<Transport(file.blocks[i], link[i]), i>>
    BY <1>2
  <2>2. i \in Ports \ {0} <=> Transport(file.blocks[i], link[i]) = "uart"
    BY <1>1 DEF Ports
  <2>3. QED  BY <2>1, <2>2
<1>6. QED  BY <1>1, <1>4, <1>5 DEF E

-----------------------------------------------------------------------------
(* The Dispatcher's tables and the ports *)

Port == [fd : Fds \cup {NoFd}, armed : BOOLEAN, dispatcher : BOOLEAN]

\* HandlersAgree is inductive once the tables hold descriptors only and the
\* handlers of ports name a port; but see Destroy, which needs PhaseInv.
FdInv ==
    /\ port \in [DOMAIN port -> Port]
    /\ DOMAIN table \subseteq Fds
    /\ \A fd \in DOMAIN handlers :
          handlers[fd][1] \in {"port", "reopen"} => handlers[fd][2] \in DOMAIN port
    /\ HandlersAgree

LEMMA Watching ==
    ASSUME FdInv, NEW fd \in Fds, IsNext(fd), NEW h, watch(fd, h),
           h[1] \in {"port", "reopen"} => h[2] \in DOMAIN port,
           port' \in [DOMAIN port -> Port], DOMAIN port' = DOMAIN port,
           \A x \in DOMAIN port : \/ port'[x].fd = port[x].fd
                                  \/ port'[x].fd = fd /\ h = <<"port", x>>
    PROVE  FdInv'
<1>1. /\ fd \notin DOMAIN table /\ fd \notin epoll /\ fd \notin DOMAIN handlers
      /\ DOMAIN table' = DOMAIN table \cup {fd} /\ epoll' = epoll \cup {fd}
      /\ table'[fd] = h /\ \A g \in DOMAIN table : table'[g] = table[g]
  BY DEF IsNext, FdInv, HandlersAgree, watch, Emplace
<1>2. /\ DOMAIN handlers' \subseteq DOMAIN handlers \cup {fd}
      /\ DOMAIN handlers \subseteq DOMAIN handlers'
      /\ h # Signalfd => fd \in DOMAIN handlers'
      /\ fd \in DOMAIN handlers' => handlers'[fd] = h
      /\ \A g \in DOMAIN handlers : handlers'[g] = handlers[g]
  BY <1>1 DEF watch, Emplace
<1>3. HandlersAgree'
  <2>1. \A g \in epoll' : g \in DOMAIN table'
    BY <1>1 DEF FdInv, HandlersAgree
  <2>2. ASSUME NEW g \in epoll', table'[g] # Signalfd
        PROVE  g \in DOMAIN handlers' /\ handlers'[g] = table'[g]
    <3>1. CASE g = fd
      BY <1>1, <1>2, <2>2, <3>1
    <3>2. CASE g \in epoll
      BY <1>1, <1>2, <2>2, <3>2 DEF FdInv, HandlersAgree
    <3>3. QED  BY <1>1, <3>1, <3>2
  <2>3. DOMAIN handlers' \subseteq epoll'
    BY <1>1, <1>2 DEF FdInv, HandlersAgree
  <2>4. ASSUME NEW x \in DOMAIN port', port'[x].fd # NoFd
        PROVE  port'[x].fd \in epoll' /\ table'[port'[x].fd] = <<"port", x>>
    <3>1. CASE port'[x].fd = fd /\ h = <<"port", x>>
      BY <1>1, <3>1
    <3>2. CASE port'[x].fd = port[x].fd
      BY <1>1, <2>4, <3>2 DEF FdInv, HandlersAgree
    <3>3. QED  BY <2>4, <3>1, <3>2
  <2>5. QED  BY <2>1, <2>2, <2>3, <2>4 DEF HandlersAgree
<1>4. \A g \in DOMAIN handlers' :
          handlers'[g][1] \in {"port", "reopen"} => handlers'[g][2] \in DOMAIN port'
  BY <1>1, <1>2 DEF FdInv
<1>5. QED  BY <1>1, <1>3, <1>4 DEF FdInv

LEMMA Unwatching ==
    ASSUME FdInv, NEW fds, NEW closed, unwatch(fds, closed), closed \subseteq fds,
           port' \in [DOMAIN port -> Port], DOMAIN port' = DOMAIN port,
           \A x \in DOMAIN port : \/ port'[x].fd = NoFd
                                  \/ port'[x].fd = port[x].fd /\ port[x].fd \notin fds
    PROVE  FdInv'
<1>1. /\ DOMAIN table' = DOMAIN table \ closed /\ epoll' = epoll \ fds
      /\ DOMAIN handlers' = DOMAIN handlers \ fds
      /\ \A g \in DOMAIN table' : table'[g] = table[g]
      /\ \A g \in DOMAIN handlers' : handlers'[g] = handlers[g]
  BY DEF unwatch, Without
<1>2. HandlersAgree'
  <2>1. \A g \in epoll' : g \in DOMAIN table'
    BY <1>1 DEF FdInv, HandlersAgree
  <2>2. \A g \in epoll' : table'[g] # Signalfd =>
            g \in DOMAIN handlers' /\ handlers'[g] = table'[g]
    BY <1>1, <2>1 DEF FdInv, HandlersAgree
  <2>3. DOMAIN handlers' \subseteq epoll'
    BY <1>1 DEF FdInv, HandlersAgree
  <2>4. ASSUME NEW x \in DOMAIN port', port'[x].fd # NoFd
        PROVE  port'[x].fd \in epoll' /\ table'[port'[x].fd] = <<"port", x>>
    BY <1>1, <2>1, <2>4 DEF FdInv, HandlersAgree
  <2>5. QED  BY <2>1, <2>2, <2>3, <2>4 DEF HandlersAgree
<1>3. QED  BY <1>1, <1>2 DEF FdInv

LEMMA Opening ==
    ASSUME FdInv, NEW x \in DOMAIN port, try_open(x)
    PROVE  FdInv' /\ DOMAIN port' = DOMAIN port
<1>1. ASSUME NEW fd \in Fds, IsNext(fd), watch(fd, <<"port", x>>),
             port' = [port EXCEPT ![x].fd = fd, ![x].armed = FALSE]
      PROVE  FdInv' /\ DOMAIN port' = DOMAIN port
  <2>1. /\ DOMAIN port' = DOMAIN port /\ port' \in [DOMAIN port -> Port]
        /\ port'[x].fd = fd /\ \A y \in DOMAIN port : y # x => port'[y] = port[y]
    BY <1>1 DEF FdInv, Port
  <2>2. QED  BY <1>1, <2>1, Watching
<1>2. ASSUME port' = [port EXCEPT ![x].armed = TRUE], UNCHANGED fdVars
      PROVE  FdInv' /\ DOMAIN port' = DOMAIN port
  <2>1. /\ DOMAIN port' = DOMAIN port /\ port' \in [DOMAIN port -> Port]
        /\ \A y \in DOMAIN port : port'[y].fd = port[y].fd
    BY <1>2 DEF FdInv, Port
  <2>2. QED  BY <1>2, <2>1 DEF FdInv, HandlersAgree, fdVars
<1>3. QED  BY <1>1, <1>2 DEF try_open

LEMMA Stopping ==
    ASSUME FdInv, NEW x \in DOMAIN port, UartStop(x)
    PROVE  /\ FdInv' /\ DOMAIN port' = DOMAIN port
           /\ port'[x].fd = NoFd /\ port'[x].dispatcher = FALSE
           /\ \A y \in DOMAIN port : y # x => port'[y] = port[y]
<1> DEFINE own == {port[x].fd} \ {NoFd}
           fds == {fd \in DOMAIN table : table[fd] = <<"reopen", x>>} \cup own
<1>1. unwatch(fds, own) /\ port' = [port EXCEPT ![x].fd = NoFd, ![x].dispatcher = FALSE]
  BY DEF UartStop
<1>2. /\ DOMAIN port' = DOMAIN port /\ port' \in [DOMAIN port -> Port]
      /\ port'[x].fd = NoFd /\ port'[x].dispatcher = FALSE
      /\ \A y \in DOMAIN port : y # x => port'[y] = port[y]
  BY <1>1 DEF FdInv, Port
<1>3. ASSUME NEW y \in DOMAIN port, y # x, port[y].fd # NoFd
      PROVE  port[y].fd \notin fds
  BY <1>3 DEF FdInv, HandlersAgree
<1> HIDE DEF fds
<1>4. own \subseteq fds
  BY DEF fds
<1>5. FdInv'
  BY <1>1, <1>2, <1>3, <1>4, Unwatching
<1>6. QED  BY <1>2, <1>5

-----------------------------------------------------------------------------
(* The order of main() *)

\* t is what is left of s.
IsRest(t, s) ==
    /\ t \in Seq({s[n] : n \in 1..Len(s)}) /\ Len(t) <= Len(s)
    /\ \A n \in 1..Len(t) : t[n] = s[Len(s) - Len(t) + n]

LEMMA RestOfAll ==
    ASSUME NEW T, NEW s \in Seq(T)
    PROVE  IsRest(s, s)
<1> DEFINE E == {s[n] : n \in 1..Len(s)}
<1>1. Len(s) \in Nat /\ s \in [1..Len(s) -> E]
  OBVIOUS
<1> HIDE DEF E
<1>2. s \in Seq(E)
  BY <1>1
<1>3. \A n \in 1..Len(s) : Len(s) - Len(s) + n = n
  BY <1>1
<1>4. QED  BY <1>1, <1>2, <1>3 DEF IsRest, E

LEMMA RestOfRest ==
    ASSUME NEW s, Len(s) \in Nat, NEW t, IsRest(t, s), t # <<>>
    PROVE  /\ Head(t) = s[Len(s) - Len(t) + 1]
           /\ IsRest(Tail(t), s) /\ Len(Tail(t)) = Len(t) - 1 /\ Len(t) \in 1..Len(s)
<1> DEFINE E == {s[n] : n \in 1..Len(s)}
<1>1. t \in Seq(E) /\ Len(t) \in Nat /\ Len(t) <= Len(s)
      /\ \A n \in 1..Len(t) : t[n] = s[Len(s) - Len(t) + n]
  BY DEF IsRest
<1> HIDE DEF E
<1>2. /\ Tail(t) \in Seq(E) /\ Len(Tail(t)) = Len(t) - 1
      /\ \A n \in 1..Len(Tail(t)) : Tail(t)[n] = t[n + 1]
      /\ Len(t) >= 1 /\ Head(t) = t[1]
  BY <1>1, HeadTailProperties
<1>3. ASSUME NEW n \in 1..Len(Tail(t))
      PROVE  Tail(t)[n] = s[Len(s) - Len(Tail(t)) + n]
  <2>1. n + 1 \in 1..Len(t) /\ Len(s) - Len(t) + (n + 1) = Len(s) - Len(Tail(t)) + n
    BY <1>1, <1>2
  <2>2. Tail(t)[n] = t[n + 1] /\ t[n + 1] = s[Len(s) - Len(t) + (n + 1)]
    BY <1>1, <1>2, <2>1
  <2>3. QED  BY <2>1, <2>2
<1>4. QED  BY <1>1, <1>2, <1>3 DEF IsRest, E

Built(k) == SubSeq(Objects, 1, k)

ObjectNames == {"history", "dispatcher", "batteries", "inverter", "http"}

LEMMA ObjectsType == \A n \in 1..5 : Objects[n] \in ObjectNames
<1>1. ASSUME NEW n \in 1..5 PROVE Objects[n] \in ObjectNames
  <2>1. n = 1 \/ n = 2 \/ n = 3 \/ n = 4 \/ n = 5
    OBVIOUS
  <2>2. /\ Objects[1] = "history" /\ Objects[2] = "dispatcher" /\ Objects[3] = "batteries"
        /\ Objects[4] = "inverter" /\ Objects[5] = "http"
    BY DEF Objects
  <2>3. QED  BY <2>1, <2>2 DEF ObjectNames
<1>2. QED  BY <1>1

LEMMA BuiltType ==
    ASSUME NEW k \in 0..5
    PROVE  /\ Built(k) \in Seq(ObjectNames) /\ Len(Built(k)) = k
           /\ \A n \in 1..k : Built(k)[n] = Objects[n]
<1>1. \A n \in 1..k : Objects[n] \in ObjectNames
  BY ObjectsType
<1>2. QED  BY <1>1, SubSeqProperties DEF Built

LEMMA BuiltRange ==
    ASSUME NEW k \in 0..5
    PROVE  /\ k >= 2 => "dispatcher" \in Range(Built(k))
           /\ k >= 3 => "batteries" \in Range(Built(k))
           /\ "inverter" \in Range(Built(k)) => k >= 4
<1>1. /\ DOMAIN Built(k) = 1..k /\ \A n \in 1..k : Built(k)[n] = Objects[n]
  <2>1. /\ Built(k) \in Seq(ObjectNames) /\ Len(Built(k)) = k
        /\ \A n \in 1..k : Built(k)[n] = Objects[n]
    BY BuiltType, Zenon
  <2>2. QED  BY <2>1
<1>2. /\ Objects[1] # "inverter" /\ Objects[2] = "dispatcher" /\ Objects[2] # "inverter"
      /\ Objects[3] = "batteries" /\ Objects[3] # "inverter"
  BY DEF Objects
<1>3. k >= 2 => "dispatcher" \in Range(Built(k))
  BY <1>1, <1>2 DEF Range
<1>4. k >= 3 => "batteries" \in Range(Built(k))
  BY <1>1, <1>2 DEF Range
<1>5. ASSUME "inverter" \in Range(Built(k)) PROVE k >= 4
  <2>1. PICK n \in 1..k : Objects[n] = "inverter"
    BY <1>1, <1>5 DEF Range
  <2>2. n # 1 /\ n # 2 /\ n # 3
    BY <1>2, <2>1
  <2>3. QED  BY <2>1, <2>2
<1>6. QED  BY <1>3, <1>4, <1>5

LEMMA BuiltOne ==
    ASSUME NEW k \in 0..4
    PROVE  Append(Built(k), Objects[k + 1]) = Built(k + 1)
<1> DEFINE a == Append(Built(k), Objects[k + 1])
           b == Built(k + 1)
<1>1. Objects[k + 1] \in ObjectNames
  BY ObjectsType
<1>2. /\ a \in Seq(ObjectNames) /\ Len(a) = k + 1
      /\ \A n \in 1..k : a[n] = Objects[n]
      /\ a[k + 1] = Objects[k + 1]
  <2>1. /\ Built(k) \in Seq(ObjectNames) /\ Len(Built(k)) = k
        /\ \A n \in 1..k : Built(k)[n] = Objects[n]
    <3>1. k \in 0..5
      OBVIOUS
    <3>2. QED  BY <3>1, BuiltType, Zenon
  <2>2. QED  BY <1>1, <2>1, AppendProperties
<1>3. /\ b \in Seq(ObjectNames) /\ Len(b) = k + 1
      /\ \A n \in 1..(k + 1) : b[n] = Objects[n]
  <2>1. k + 1 \in 0..5
    OBVIOUS
  <2>2. QED  BY <2>1, BuiltType, Zenon
<1> HIDE DEF a, b
<1>4. \A n \in 1..(k + 1) : a[n] = b[n]
  BY <1>2, <1>3
<1>5. a = b
  BY <1>2, <1>3, <1>4, SeqEqual
<1>6. QED  BY <1>5 DEF a, b

LEMMA BuiltLess ==
    ASSUME NEW k \in 1..5
    PROVE  Front(Built(k)) = Built(k - 1) /\ Last(Built(k)) = Objects[k]
<1> DEFINE a == Front(Built(k))
           b == Built(k - 1)
<1>1. /\ Built(k) \in Seq(ObjectNames) /\ Len(Built(k)) = k
      /\ \A n \in 1..k : Built(k)[n] = Objects[n]
  <2>1. k \in 0..5
    OBVIOUS
  <2>2. QED  BY <2>1, BuiltType, Zenon
<1>2. a \in Seq(ObjectNames) /\ Len(a) = k - 1 /\ \A n \in 1..(k - 1) : a[n] = Objects[n]
  <2>1. a = SubSeq(Built(k), 1, k - 1)
    BY <1>1 DEF Front
  <2>2. \A n \in 1..(k - 1) : Built(k)[n] \in ObjectNames
    BY <1>1
  <2>3. QED  BY <1>1, <2>1, <2>2, SubSeqProperties
<1>3. /\ b \in Seq(ObjectNames) /\ Len(b) = k - 1
      /\ \A n \in 1..(k - 1) : b[n] = Objects[n]
  <2>1. k - 1 \in 0..5
    OBVIOUS
  <2>2. QED  BY <2>1, BuiltType, Zenon
<1> HIDE DEF a, b
<1>4. a = b
  BY <1>2, <1>3, SeqEqual
<1>5. QED  BY <1>1, <1>4 DEF a, b, Last

LEMMA BuiltAll == Built(5) = Objects /\ Built(0) = <<>>
<1>1. Built(0) = <<>>
  BY SubSeqEmpty DEF Built
<1>2. /\ Objects \in Seq(ObjectNames) /\ Len(Objects) = 5
  BY DEF Objects, ObjectNames
<1> DEFINE b == Built(5)
<1>3. b \in Seq(ObjectNames) /\ Len(b) = 5 /\ \A n \in 1..5 : b[n] = Objects[n]
  <2>1. 5 \in 0..5
    OBVIOUS
  <2>2. QED  BY <2>1, BuiltType, Zenon
<1> HIDE DEF b
<1>4. b = Objects
  BY <1>2, <1>3, SeqEqual
<1>5. QED  BY <1>1, <1>4 DEF b

Quiet(x) == port[x].fd = NoFd /\ port[x].dispatcher = FALSE

\* How far main() is says which objects are there, which ports are detached,
\* and whether the HTTP thread may run.
PhaseInv ==
    /\ main \in {"load", "failed"} =>
           alive = Built(0) /\ \A x \in DOMAIN port : Quiet(x)
    /\ main = "start" =>
           /\ IsRest(todo, StartUp) /\ todo # <<>>
           /\ Len(todo) >= 3 => alive = Built(3)
           /\ Len(todo) < 3 => alive = Built(4)
    /\ main = "aborted" => alive = Built(4)
    /\ main \in {"load", "failed", "start", "aborted"} => http.thread = "none"
    /\ main \in {"run", "stop_http", "join", "stop"} => alive = Built(5)
    /\ main \in {"stop", "return", "end"} => http.thread = "ended"
    /\ main = "stop" =>
           /\ IsRest(todo, StopAll)
           /\ \A x \in DOMAIN port \ {0} : x <= N - Len(todo) => Quiet(x)
    /\ main \in {"return", "end"} =>
           /\ \A x \in DOMAIN port \ {0} : Quiet(x)
           /\ \E k \in 0..5 : alive = Built(k) /\ (k <= 3 => Quiet(0))
    /\ main \in {"load", "failed", "start", "aborted", "run", "stop_http", "join",
                 "stop", "return", "end"}

IInv == TypeInv /\ FdInv /\ PhaseInv

LEMMA Implied == IInv => HandlersAgree /\ UsersDieFirst
<1> SUFFICES ASSUME IInv PROVE HandlersAgree /\ UsersDieFirst
  OBVIOUS
<1>1. HandlersAgree
  BY DEF IInv, FdInv
<1>2. UsersDieFirst
  <2>1. main = "run" => alive = Objects
    BY BuiltAll DEF IInv, PhaseInv
  <2>2. http.thread \in {"starting", "looping"} => alive = Objects
    BY BuiltAll DEF IInv, PhaseInv
  <2>3. \E k \in 0..5 : /\ alive = Built(k)
                        /\ k < 2 => \A x \in DOMAIN port : Quiet(x)
    <3>1. CASE main \in {"load", "failed"}
      BY <3>1 DEF IInv, PhaseInv
    <3>2. CASE main = "start"
      <4>1. alive = Built(3) \/ alive = Built(4)
        BY <3>2 DEF IInv, PhaseInv, IsRest
      <4>2. QED  BY <4>1
    <3>3. CASE main = "aborted"
      BY <3>3 DEF IInv, PhaseInv
    <3>4. CASE main \in {"run", "stop_http", "join", "stop"}
      BY <3>4 DEF IInv, PhaseInv
    <3>5. CASE main \in {"return", "end"}
      BY <3>5 DEF IInv, PhaseInv
    <3>6. QED  BY <3>1, <3>2, <3>3, <3>4, <3>5 DEF IInv, PhaseInv
  <2>4. PICK k \in 0..5 : /\ alive = Built(k)
                          /\ k < 2 => \A x \in DOMAIN port : Quiet(x)
    BY <2>3
  <2>5. /\ k >= 2 => "dispatcher" \in Range(Built(k))
        /\ k >= 3 => "batteries" \in Range(Built(k))
        /\ "inverter" \in Range(Built(k)) => k >= 4
    BY BuiltRange, Zenon
  <2>6. (\E x \in DOMAIN port : port[x].dispatcher) => "dispatcher" \in Range(alive)
    BY <2>4, <2>5 DEF Quiet
  <2>7. "inverter" \in Range(alive) => "batteries" \in Range(alive)
    BY <2>4, <2>5
  <2>8. QED  BY <2>1, <2>2, <2>6, <2>7 DEF UsersDieFirst
<1>3. QED  BY <1>1, <1>2

LEMMA Unchanged ==
    ASSUME UNCHANGED <<file, link>>
    PROVE  N' = N /\ Ports' = Ports /\ StartUp' = StartUp /\ StopAll' = StopAll
BY DEF N, Ports, StartUp, StartBatteries, StopAll

LEMMA InitHolds == Init => IInv
<1> SUFFICES ASSUME Init PROVE IInv
  OBVIOUS
<1>1. TypeInv
  BY DEF Init, TypeInv, Ports
<1>2. FdInv
  BY DEF Init, FdInv, HandlersAgree, Port
<1>3. PhaseInv
  BY BuiltAll DEF Init, PhaseInv, Quiet
<1>4. QED  BY <1>1, <1>2, <1>3 DEF IInv

-----------------------------------------------------------------------------
(* The steps *)

LEMMA FdSame ==
    ASSUME FdInv, UNCHANGED <<fdVars, port>>
    PROVE  FdInv'
BY DEF FdInv, HandlersAgree, fdVars

\* Steps that change neither the configuration nor a port keep what is quiet.
LEMMA QuietSame ==
    ASSUME UNCHANGED port
    PROVE  \A x : Quiet(x)' <=> Quiet(x)
BY DEF Quiet

LEMMA LoadStep == IInv /\ LoadConfig => IInv'
<1> SUFFICES ASSUME IInv, LoadConfig PROVE IInv'
  OBVIOUS
<1>1. UNCHANGED <<file, link, port, http, fdVars>> /\ main = "load"
  BY DEF LoadConfig
<1>2. TypeInv' /\ FdInv'
  BY <1>1, Unchanged, FdSame DEF IInv, TypeInv
<1>3. CASE main' = "start" /\ todo' = StartUp /\ alive' = Built(3)
  <2>1. Len(StartUp) = 4 * N + 5 /\ N \in Nat
    BY StartUpType, BlocksType DEF IInv, TypeInv
  <2>2. IsRest(StartUp, StartUp)
    BY StartUpType, RestOfAll DEF IInv, TypeInv
  <2>3. IsRest(todo', StartUp') /\ todo' # <<>> /\ Len(todo') >= 3
    BY <1>1, <1>3, <2>1, <2>2, Unchanged
  <2>4. Built(3)' = Built(3)
    BY DEF Built, Objects
  <2>5. PhaseInv'
    BY <1>1, <1>3, <2>3, <2>4 DEF IInv, PhaseInv
  <2>6. QED  BY <1>2, <2>5 DEF IInv
<1>4. CASE main' = "failed" /\ UNCHANGED alive
  <2>1. PhaseInv'
    BY <1>1, <1>4, QuietSame DEF IInv, PhaseInv, Built, Objects
  <2>2. QED  BY <1>2, <2>1 DEF IInv
<1>5. QED  BY <1>3, <1>4 DEF LoadConfig, Built

LEMMA StartStep == IInv /\ Start => IInv'
<1> SUFFICES ASSUME IInv, Start PROVE IInv'
  OBVIOUS
<1> DEFINE h == Head(todo)
<1>1. UNCHANGED <<file, link, main, http>> /\ main = "start" /\ Len(todo) > 1
      /\ todo' = Tail(todo)
  BY DEF Start
<1>2. N \in Nat /\ DOMAIN port = Ports /\ 0 \in Ports
  BY BlocksType, PortsType DEF IInv, TypeInv
<1>3. /\ Len(StartUp) = 4 * N + 5
      /\ StartUp[4 * N + 3] = <<"reopen", 0>>
      /\ StartUp[4 * N + 4] = <<"port", 0>>
      /\ \A n \in 1..(4 * N + 2) :
             /\ StartUp[n] # <<"reopen", 0>>
             /\ StartUp[n][1] \in {"reopen", "port"} => StartUp[n][2] \in Ports \ {0}
  BY StartUpType DEF IInv, TypeInv
<1>4. IsRest(todo, StartUp) /\ todo # <<>>
  BY <1>1 DEF IInv, PhaseInv
<1>5. /\ h = StartUp[Len(StartUp) - Len(todo) + 1]
      /\ IsRest(Tail(todo), StartUp) /\ Len(Tail(todo)) = Len(todo) - 1
      /\ Len(todo) \in 1..Len(StartUp)
  BY <1>2, <1>3, <1>4, RestOfRest
<1> HIDE DEF h
<1>6. /\ Len(todo) = 3 => h = <<"reopen", 0>>
      /\ Len(todo) = 2 => h = <<"port", 0>>
      /\ Len(todo) > 3 => /\ h # <<"reopen", 0>>
                          /\ h[1] \in {"reopen", "port"} => h[2] \in Ports
  <2> DEFINE n == Len(StartUp) - Len(todo) + 1
  <2>1. /\ Len(todo) > 3 => n \in 1..(4 * N + 2)
        /\ Len(todo) = 3 => n = 4 * N + 3
        /\ Len(todo) = 2 => n = 4 * N + 4
    BY <1>2, <1>3, <1>5
  <2>2. h = StartUp[n]
    BY <1>5
  <2> HIDE DEF n
  <2>3. QED  BY <1>3, <2>1, <2>2
<1>6a. Len(todo) \in Nat /\ Len(todo) >= 2
  BY <1>1, <1>2, <1>3, <1>5
<1>7. /\ h[1] \in {"reopen", "port"} => h[2] \in DOMAIN port
      /\ h = <<"reopen", 0>> <=> Len(todo) = 3
  BY <1>2, <1>6, <1>6a
<1>8. FdInv' /\ DOMAIN port' = DOMAIN port
  <2>1. CASE h[1] = "none"
    <3>1. UNCHANGED <<fdVars, port>>
      BY <2>1 DEF Start, h
    <3>2. QED  BY <3>1, FdSame DEF IInv
  <2>2. CASE h[1] = "port"
    <3>1. try_open(h[2])
      BY <2>2 DEF Start, h
    <3>2. QED  BY <1>7, <2>2, <3>1, Opening DEF IInv
  <2>3. CASE h[1] # "none" /\ h[1] # "port"
    <3>1. PICK fd \in Fds : IsNext(fd) /\ watch(fd, h)
      BY <2>3 DEF Start, h
    <3>2. port' = IF h[1] = "reopen" THEN [port EXCEPT ![h[2]].dispatcher = TRUE] ELSE port
      BY <2>3 DEF Start, h
    <3>3. /\ DOMAIN port' = DOMAIN port /\ port' \in [DOMAIN port -> Port]
          /\ \A x \in DOMAIN port : port'[x].fd = port[x].fd
      BY <1>7, <3>2 DEF IInv, FdInv, Port
    <3>4. QED  BY <1>7, <3>1, <3>3, Watching DEF IInv
  <2>4. QED  BY <2>1, <2>2, <2>3
<1>9. TypeInv'
  BY <1>1, <1>8, Unchanged DEF IInv, TypeInv
<1>10. PhaseInv'
  <2>1. IsRest(todo', StartUp') /\ todo' # <<>> /\ Len(todo') = Len(todo) - 1
    <3>0. IsRest(Tail(todo), StartUp) /\ Len(Tail(todo)) = Len(todo) - 1
      BY <1>5, Zenon
    <3> DEFINE t == Tail(todo)
    <3> HIDE DEF t
    <3>1. Len(t) = Len(todo) - 1
      BY <3>0 DEF t
    <3>1a. Len(t) # 0
      BY <1>6a, <3>1
    <3>2. Len(<<>>) = 0
      OBVIOUS
    <3>3. t # <<>>
      BY <3>1a, <3>2
    <3>4. QED  BY <1>1, <3>0, <3>3, Unchanged DEF t
  <2>2. alive' = IF h = <<"reopen", 0>> THEN Append(alive, "inverter") ELSE alive
    BY DEF Start, h
  <2>3. Append(Built(3), "inverter") = Built(4)
    <3>1. Append(Built(3), Objects[3 + 1]) = Built(3 + 1)
      BY BuiltOne
    <3>2. Objects[3 + 1] = "inverter" /\ 3 + 1 = 4
      BY DEF Objects
    <3>3. QED  BY <3>1, <3>2
  <2>4. Built(3)' = Built(3) /\ Built(4)' = Built(4)
    BY DEF Built, Objects
  <2>5. /\ Len(todo') >= 3 => alive' = Built(3)
        /\ Len(todo') < 3 => alive' = Built(4)
    <3>0. /\ Len(todo) >= 3 => alive = Built(3)
          /\ Len(todo) < 3 => alive = Built(4)
      BY <1>1 DEF IInv, PhaseInv
    <3>1. CASE Len(todo) > 3
      BY <1>6a, <1>7, <2>1, <2>2, <3>0, <3>1
    <3>2. CASE Len(todo) = 3
      BY <1>6a, <1>7, <2>1, <2>2, <2>3, <3>0, <3>2
    <3>3. CASE Len(todo) < 3
      BY <1>6a, <1>7, <2>1, <2>2, <3>0, <3>3
    <3>4. QED  BY <1>6a, <3>1, <3>2, <3>3
  <2>6. QED  BY <1>1, <2>1, <2>4, <2>5 DEF IInv, PhaseInv
<1>11. QED  BY <1>8, <1>9, <1>10 DEF IInv

LEMMA StartHttpStep == IInv /\ StartHttp => IInv'
<1> SUFFICES ASSUME IInv, StartHttp PROVE IInv'
  OBVIOUS
<1>1. UNCHANGED <<file, link, port, fdVars>> /\ main = "start" /\ Len(todo) = 1
  BY DEF StartHttp
<1>2. alive = Built(4) /\ http.thread = "none"
  BY <1>1 DEF IInv, PhaseInv
<1>3. \A k : Built(k)' = Built(k)
  BY DEF Built, Objects
<1>4. CASE main' = "run" /\ alive' = Append(alive, "http")
           /\ http' = [http EXCEPT !.thread = "starting"]
  <2>1. Append(Built(4), Objects[4 + 1]) = Built(4 + 1)
    BY BuiltOne
  <2>2. Objects[4 + 1] = "http" /\ 4 + 1 = 5
    BY DEF Objects
  <2>3. alive' = Built(5)
    BY <1>2, <1>4, <2>1, <2>2
  <2>4. TypeInv' /\ FdInv' /\ PhaseInv'
    BY <1>1, <1>3, <1>4, <2>3, Unchanged, FdSame DEF IInv, TypeInv, PhaseInv
  <2>5. QED  BY <2>4 DEF IInv
<1>5. CASE main' = "aborted" /\ UNCHANGED <<alive, http>>
  <2>1. TypeInv' /\ FdInv' /\ PhaseInv'
    BY <1>1, <1>2, <1>3, <1>5, Unchanged, FdSame DEF IInv, TypeInv, PhaseInv
  <2>2. QED  BY <2>1 DEF IInv
<1>6. QED  BY <1>4, <1>5 DEF StartHttp

LEMMA DispatchStep == IInv /\ Dispatch => IInv'
<1> SUFFICES ASSUME IInv, Dispatch PROVE IInv'
  OBVIOUS
<1>1. UNCHANGED <<file, link, main, todo, alive, http>> /\ main = "run"
  BY DEF Dispatch
<1>2. FdInv' /\ DOMAIN port' = DOMAIN port
  <2>1. ASSUME UNCHANGED <<fdVars, port>>
        PROVE  FdInv' /\ DOMAIN port' = DOMAIN port
    BY <2>1, FdSame DEF IInv
  <2>2. ASSUME NEW x \in DOMAIN port, on_readable(x)
        PROVE  FdInv' /\ DOMAIN port' = DOMAIN port
    <3>1. CASE UNCHANGED <<fdVars, port>>
      BY <2>1, <3>1
    <3>2. CASE close_fd(port[x].fd)
               /\ port' = [port EXCEPT ![x].fd = NoFd, ![x].armed = TRUE]
      <4>1. /\ DOMAIN port' = DOMAIN port /\ port' \in [DOMAIN port -> Port]
            /\ port'[x].fd = NoFd /\ \A y \in DOMAIN port : y # x => port'[y] = port[y]
        BY <3>2 DEF IInv, FdInv, Port
      <4>2. \A y \in DOMAIN port : y # x /\ port[y].fd # NoFd => port[y].fd # port[x].fd
        BY DEF IInv, FdInv, HandlersAgree
      <4>3. unwatch({port[x].fd}, {port[x].fd})
        BY <3>2 DEF close_fd
      <4>4. \A y \in DOMAIN port : \/ port'[y].fd = NoFd
                                   \/ port'[y].fd = port[y].fd /\ port[y].fd \notin {port[x].fd}
        BY <4>1, <4>2
      <4>5. QED  BY <4>1, <4>3, <4>4, Unwatching DEF IInv
    <3>3. QED  BY <2>2, <3>1, <3>2 DEF on_readable
  <2>3. ASSUME NEW x \in DOMAIN port, on_reopen_tick(x)
        PROVE  FdInv' /\ DOMAIN port' = DOMAIN port
    <3>1. CASE port[x].fd # NoFd
      <4>1. port' = [port EXCEPT ![x].armed = FALSE] /\ UNCHANGED fdVars
        BY <2>3, <3>1 DEF on_reopen_tick
      <4>2. /\ DOMAIN port' = DOMAIN port /\ port' \in [DOMAIN port -> Port]
            /\ \A y \in DOMAIN port : port'[y].fd = port[y].fd
        BY <4>1 DEF IInv, FdInv, Port
      <4>3. QED  BY <4>1, <4>2 DEF IInv, FdInv, HandlersAgree, fdVars
    <3>2. CASE port[x].fd = NoFd
      BY <2>3, <3>2, Opening DEF on_reopen_tick, IInv
    <3>3. QED  BY <3>1, <3>2
  <2>4. ASSUME NEW h, Handle(h), h[1] \in {"port", "reopen"} => h[2] \in DOMAIN port
        PROVE  FdInv' /\ DOMAIN port' = DOMAIN port
    <3>1. CASE h[1] = "port"
      BY <2>2, <2>4, <3>1 DEF Handle
    <3>2. CASE h[1] = "reopen"
      BY <2>3, <2>4, <3>2 DEF Handle
    <3>3. CASE h[1] \notin {"port", "reopen"}
      BY <2>1, <2>4, <3>3 DEF Handle
    <3>4. QED  BY <3>1, <3>2, <3>3
  <2>5. PICK fd \in batch :
            CASE fd \in DOMAIN table /\ table[fd] = Signalfd -> OnSignal
              [] fd \in DOMAIN handlers -> Handle(handlers[fd])
              [] OTHER -> UNCHANGED <<fdVars, port, stopping, signal>>
    BY DEF Dispatch
  <2>6. OnSignal => UNCHANGED <<fdVars, port>>
    BY DEF OnSignal
  <2>7. CASE fd \in DOMAIN handlers /\ Handle(handlers[fd])
    BY <2>4, <2>7 DEF IInv, FdInv
  <2>8. \/ UNCHANGED <<fdVars, port>>
        \/ fd \in DOMAIN handlers /\ Handle(handlers[fd])
    BY <2>5, <2>6
  <2>9. QED  BY <2>1, <2>7, <2>8
<1>3. TypeInv' /\ PhaseInv'
  BY <1>1, <1>2, Unchanged DEF IInv, TypeInv, PhaseInv, Built, Objects
<1>4. QED  BY <1>2, <1>3 DEF IInv

LEMMA JoinStep == IInv /\ Join => IInv'
<1> SUFFICES ASSUME IInv, Join PROVE IInv'
  OBVIOUS
<1>1. /\ UNCHANGED <<file, link, alive, port, http, fdVars>>
      /\ main = "join" /\ main' = "stop" /\ todo' = StopAll /\ http.thread = "ended"
  BY DEF Join, Joined
<1>2. TypeInv' /\ FdInv'
  BY <1>1, Unchanged, FdSame DEF IInv, TypeInv
<1>3. StopAll \in Seq({StopAll[n] : n \in 1..N}) /\ Len(StopAll) = N /\ N \in Nat
  BY StopAllType DEF IInv, TypeInv
<1>4. IsRest(todo', StopAll')
  BY <1>1, <1>3, RestOfAll, Unchanged
<1>5. \A x \in DOMAIN port' \ {0} : ~(x <= N' - Len(todo'))
  BY <1>1, <1>3, PortsType, Unchanged DEF IInv, TypeInv
<1>6. alive' = Built(5)'
  BY <1>1 DEF IInv, PhaseInv, Built, Objects
<1>7. PhaseInv'
  BY <1>1, <1>4, <1>5, <1>6 DEF PhaseInv
<1>8. QED  BY <1>2, <1>7 DEF IInv

LEMMA StopStep == IInv /\ StopBattery => IInv'
<1> SUFFICES ASSUME IInv, StopBattery PROVE IInv'
  OBVIOUS
<1> DEFINE t == Head(todo)
           n == N - Len(todo) + 1
<1>1. /\ UNCHANGED <<file, link, main, alive, http>>
      /\ main = "stop" /\ todo # <<>> /\ todo' = Tail(todo)
  BY DEF StopBattery
<1>2. /\ Len(StopAll) = N /\ N \in Nat
      /\ \A i \in 1..N : /\ StopAll[i][2] = i
                         /\ StopAll[i][1] = "uart" <=> i \in Ports \ {0}
  BY StopAllType DEF IInv, TypeInv
<1>3. IsRest(todo, StopAll)
  BY <1>1 DEF IInv, PhaseInv
<1>4. /\ t = StopAll[n]
      /\ IsRest(Tail(todo), StopAll) /\ Len(Tail(todo)) = Len(todo) - 1
      /\ Len(todo) \in 1..N
  BY <1>1, <1>2, <1>3, RestOfRest
<1>5. n \in 1..N /\ DOMAIN port = Ports /\ Ports \subseteq 0..N
  BY <1>2, <1>4, PortsType DEF IInv, TypeInv
<1>6. t[2] = n /\ (t[1] = "uart" <=> n \in DOMAIN port)
  BY <1>2, <1>4, <1>5
<1> HIDE DEF t
<1>7. /\ FdInv' /\ DOMAIN port' = DOMAIN port
      /\ \A y \in DOMAIN port : y # n => port'[y] = port[y]
      /\ n \in DOMAIN port => port'[n].fd = NoFd /\ port'[n].dispatcher = FALSE
  <2>1. CASE t[1] = "uart"
    <3>1. UartStop(n) /\ n \in DOMAIN port
      BY <1>6, <2>1 DEF StopBattery, t
    <3> HIDE DEF n
    <3>2. QED  BY <3>1, Stopping DEF IInv
  <2>2. CASE t[1] = "ble"
    <3> DEFINE fds == {fd \in DOMAIN table : table[fd] = <<"queue", t[2]>>}
    <3>1. unwatch(fds, {}) /\ UNCHANGED port
      BY <2>2 DEF StopBattery, t
    <3>2. \A y \in DOMAIN port : port[y].fd # NoFd => port[y].fd \notin fds
      BY DEF IInv, FdInv, HandlersAgree
    <3> HIDE DEF fds
    <3>3. FdInv'
      <4>1. port' \in [DOMAIN port -> Port]
        BY <3>1 DEF IInv, FdInv
      <4>2. \A y \in DOMAIN port : \/ port'[y].fd = NoFd
                                   \/ port'[y].fd = port[y].fd /\ port[y].fd \notin fds
        BY <3>1, <3>2
      <4>3. QED  BY <3>1, <4>1, <4>2, Unwatching DEF IInv
    <3>4. n \notin DOMAIN port
      BY <1>6, <2>2
    <3>5. QED  BY <3>1, <3>3, <3>4
  <2>3. CASE t[1] \notin {"uart", "ble"}
    <3>1. UNCHANGED <<fdVars, port>>
      BY <2>3 DEF StopBattery, t
    <3>2. n \notin DOMAIN port
      BY <1>6, <2>3
    <3>3. QED  BY <3>1, <3>2, FdSame DEF IInv
  <2>4. QED  BY <2>1, <2>2, <2>3
<1>8. TypeInv'
  BY <1>1, <1>7, Unchanged DEF IInv, TypeInv
<1>9. ASSUME NEW x \in DOMAIN port' \ {0}, x <= N' - Len(todo')
      PROVE  Quiet(x)'
  <2>1. x \in DOMAIN port \ {0} /\ x \in Int /\ x <= n
    <3> DEFINE rest == Len(todo')
    <3>1. rest = Len(todo) - 1
      BY <1>1, <1>4, Zenon
    <3>2. N' = N /\ DOMAIN port' = DOMAIN port
      BY <1>1, <1>7, Unchanged
    <3>3. x <= N - rest
      BY <1>9, <3>2
    <3>4. x \in DOMAIN port \ {0} /\ x \in 0..N
      BY <1>5, <1>9, <3>2
    <3>5. Len(todo) \in Nat
      BY <1>2, <1>4
    <3> HIDE DEF rest
    <3>6. x <= n
      BY <1>2, <3>1, <3>3, <3>4, <3>5
    <3>7. QED  BY <3>4, <3>6
  <2>2. CASE x = n
    BY <1>7, <2>1, <2>2 DEF Quiet
  <2>3. CASE x # n
    <3>1. x <= N - Len(todo)
      BY <1>2, <1>4, <2>1, <2>3
    <3>2. Quiet(x)
      BY <1>1, <2>1, <3>1 DEF IInv, PhaseInv
    <3>3. port'[x] = port[x]
      BY <1>7, <2>1, <2>3
    <3>4. QED  BY <3>2, <3>3 DEF Quiet
  <2>4. QED  BY <2>2, <2>3
<1>10. PhaseInv'
  <2>1. IsRest(todo', StopAll')
    BY <1>1, <1>4, Unchanged
  <2>2. alive' = Built(5)'
    BY <1>1 DEF IInv, PhaseInv, Built, Objects
  <2>3. http'.thread = "ended"
    BY <1>1 DEF IInv, PhaseInv
  <2>4. QED  BY <1>1, <1>9, <2>1, <2>2, <2>3 DEF PhaseInv
<1>11. QED  BY <1>7, <1>8, <1>10 DEF IInv

LEMMA ReturnStep == IInv /\ Return => IInv'
<1> SUFFICES ASSUME IInv, Return PROVE IInv'
  OBVIOUS
<1>1. /\ UNCHANGED <<file, link, todo, alive, port, http, fdVars>>
      /\ main = "stop" /\ todo = <<>> /\ main' = "return"
  BY DEF Return
<1>2. TypeInv' /\ FdInv'
  BY <1>1, Unchanged, FdSame DEF IInv, TypeInv
<1>3. \A x \in DOMAIN port \ {0} : Quiet(x)
  <2>1. Len(todo) = 0 /\ N \in Nat /\ DOMAIN port \subseteq 0..N
    BY <1>1, BlocksType, PortsType DEF IInv, TypeInv
  <2>2. \A x \in DOMAIN port \ {0} : x <= N - Len(todo)
    BY <2>1
  <2>3. QED  BY <1>1, <2>2 DEF IInv, PhaseInv
<1>4. \A x \in DOMAIN port' \ {0} : Quiet(x)'
  BY <1>1, <1>3, QuietSame
<1>5. \E k \in 0..5 : alive' = Built(k)' /\ (k <= 3 => Quiet(0)')
  <2>1. alive' = Built(5)'
    BY <1>1 DEF IInv, PhaseInv, Built, Objects
  <2>2. 5 \in 0..5 /\ ~(5 <= 3)
    OBVIOUS
  <2>3. QED  BY <2>1, <2>2
<1>6. http'.thread = "ended"
  BY <1>1 DEF IInv, PhaseInv
<1>7. PhaseInv'
  BY <1>1, <1>4, <1>5, <1>6 DEF PhaseInv
<1>8. QED  BY <1>2, <1>7 DEF IInv

LEMMA DestroyStep == IInv /\ Destroy => IInv'
<1> SUFFICES ASSUME IInv, Destroy PROVE IInv'
  OBVIOUS
<1>1. /\ UNCHANGED <<file, link, todo, http>> /\ main = "return" /\ alive # <<>>
      /\ alive' = Front(alive) /\ main' \in {"return", "end"}
  BY DEF Destroy
<1>2. /\ \A x \in DOMAIN port \ {0} : Quiet(x)
      /\ \E k \in 0..5 : alive = Built(k) /\ (k <= 3 => Quiet(0))
  BY <1>1 DEF IInv, PhaseInv
<1>3. PICK k \in 0..5 : alive = Built(k) /\ (k <= 3 => Quiet(0))
  BY <1>2
<1>4. k \in 1..5
  BY <1>1, <1>3, BuiltAll
<1>5. alive' = Built(k - 1) /\ Last(alive) = Objects[k] /\ k - 1 \in 0..5
  BY <1>1, <1>3, <1>4, BuiltLess
<1>6. /\ Objects[k] = "inverter" <=> k = 4
      /\ Objects[k] = "dispatcher" <=> k = 2
  <2>1. k = 1 \/ k = 2 \/ k = 3 \/ k = 4 \/ k = 5
    BY <1>4
  <2>2. QED  BY <2>1 DEF Objects
<1>7. 0 \in DOMAIN port
  BY PortsType DEF IInv, TypeInv
<1>8. /\ FdInv' /\ DOMAIN port' = DOMAIN port
      /\ \A x \in DOMAIN port : Quiet(x) => Quiet(x)'
      /\ k = 4 => Quiet(0)'
  <2>1. CASE k = 4
    <3>1. UartStop(0)
      BY <1>5, <1>6, <2>1 DEF Destroy
    <3>2. QED  BY <1>7, <3>1, Stopping DEF IInv, Quiet
  <2>2. CASE k = 2
    <3>1. unwatch(DOMAIN table, DOMAIN table) /\ UNCHANGED port
      BY <1>5, <1>6, <2>2 DEF Destroy
    <3>2. \A x \in DOMAIN port : port[x].fd = NoFd
      BY <1>2, <1>3, <2>2 DEF Quiet
    <3>3. FdInv'
      <4>1. port' \in [DOMAIN port -> Port]
        BY <3>1 DEF IInv, FdInv
      <4>2. \A x \in DOMAIN port : \/ port'[x].fd = NoFd
                                   \/ port'[x].fd = port[x].fd /\ port[x].fd \notin DOMAIN table
        BY <3>1, <3>2
      <4>3. QED  BY <3>1, <4>1, <4>2, Unwatching DEF IInv
    <3>4. QED  BY <2>2, <3>1, <3>3, QuietSame
  <2>3. CASE k \notin {2, 4}
    <3>1. UNCHANGED <<fdVars, port>>
      BY <1>5, <1>6, <2>3 DEF Destroy
    <3>2. QED  BY <2>3, <3>1, FdSame, QuietSame DEF IInv
  <2>4. QED  BY <2>1, <2>2, <2>3
<1>9. TypeInv'
  BY <1>1, <1>8, Unchanged DEF IInv, TypeInv
<1>10. PhaseInv'
  <2>1. \A x \in DOMAIN port' \ {0} : Quiet(x)'
    BY <1>2, <1>8
  <2>2. \A j : Built(j)' = Built(j)
    BY DEF Built, Objects
  <2>3. k - 1 <= 3 => Quiet(0)'
    BY <1>3, <1>4, <1>7, <1>8
  <2>4. \E j \in 0..5 : alive' = Built(j)' /\ (j <= 3 => Quiet(0)')
    BY <1>5, <2>2, <2>3
  <2>5. http'.thread = "ended"
    BY <1>1 DEF IInv, PhaseInv
  <2>6. QED  BY <1>1, <2>1, <2>4, <2>5 DEF PhaseInv
<1>11. QED  BY <1>8, <1>9, <1>10 DEF IInv

\* The steps that touch no descriptor, port or object.
LEMMA OtherSteps ==
    IInv /\ (LeaveLoop \/ StopHttp \/ epoll_wait \/ Signal \/ HttpDispatch \/ HttpEnds
               \/ UNCHANGED vars) => IInv'
<1> SUFFICES ASSUME IInv,
                    LeaveLoop \/ StopHttp \/ epoll_wait \/ Signal \/ HttpDispatch
                      \/ HttpEnds \/ UNCHANGED vars
             PROVE  IInv'
  OBVIOUS
<1>1. UNCHANGED <<file, link, todo, alive, port, fdVars>>
  BY DEF LeaveLoop, StopHttp, epoll_wait, Signal, HttpDispatch, HttpEnds, vars
<1>2. \/ main = "run" /\ main' = "stop_http"
      \/ main = "stop_http" /\ main' = "join"
      \/ main' = main
  BY DEF LeaveLoop, StopHttp, epoll_wait, Signal, HttpDispatch, HttpEnds, vars
<1>3. /\ http' \in [thread : {"none", "starting", "looping", "ended"},
                    stopping : BOOLEAN, broken : BOOLEAN]
      /\ http.thread \in {"none", "ended"} => http'.thread = http.thread
  BY DEF LeaveLoop, StopHttp, epoll_wait, Signal, HttpDispatch, HttpEnds, vars, on_stop,
         IInv, TypeInv
<1>4. FdInv'
  BY <1>1, FdSame DEF IInv
<1>5. TypeInv'
  BY <1>1, <1>2, <1>3, Unchanged DEF IInv, TypeInv
<1>6. /\ \A k : Built(k)' = Built(k)
      /\ \A x : Quiet(x)' <=> Quiet(x)
      /\ StartUp' = StartUp /\ StopAll' = StopAll /\ N' = N
  BY <1>1, QuietSame, Unchanged DEF Built, Objects
<1>7. PhaseInv'
  <2>1. CASE main' = main
    BY <1>1, <1>3, <1>6, <2>1 DEF IInv, PhaseInv
  <2>2. CASE main \in {"run", "stop_http"} /\ main' \in {"stop_http", "join"}
    BY <1>1, <1>6, <2>2 DEF IInv, PhaseInv
  <2>3. QED  BY <1>2, <2>1, <2>2
<1>8. QED  BY <1>4, <1>5, <1>7 DEF IInv

LEMMA Inductive == IInv /\ [Next]_vars => IInv'
BY LoadStep, StartStep, StartHttpStep, DispatchStep, JoinStep, StopStep, ReturnStep,
   DestroyStep, OtherSteps DEF Next, Main

LEMMA Invariance == Spec => []IInv
<1>1. Init => IInv
  BY InitHolds
<1>2. IInv /\ [Next]_vars => IInv'
  BY Inductive
<1>3. QED  BY <1>1, <1>2, PTL DEF Spec

-----------------------------------------------------------------------------
(* The ports *)

\* A port waits for its timer exactly while it is not open.
Tended(x) == port[x].fd = NoFd <=> port[x].armed

\* A port is neither open nor waited for before main() comes to it.
Untouched(x) == port[x].fd = NoFd /\ ~port[x].armed

\* No descriptor is open for a port but the one it holds.
OwnInv ==
    \A x \in DOMAIN port : \A fd \in DOMAIN table :
        table[fd] = <<"port", x>> => port[x].fd = fd

\* How far main() is says which ports are tended.
TendInv ==
    /\ main = "load" => \A x \in DOMAIN port : Untouched(x)
    /\ main = "start" => \A x \in DOMAIN port :
           IF Place(x) <= Len(StartUp) - Len(todo) THEN Tended(x) ELSE Untouched(x)
    /\ main \in {"run", "stop_http", "join"} => \A x \in DOMAIN port : Tended(x)

\* Inductive relative to IInv.
KeptInv == OwnInv /\ TendInv

LEMMA KeptImplies == IInv /\ KeptInv => PortsAreKept
<1> SUFFICES ASSUME IInv, KeptInv, NEW x \in DOMAIN port
             PROVE  /\ {fd \in DOMAIN table : table[fd] = <<"port", x>>} = {port[x].fd} \ {NoFd}
                    /\ main \in {"run", "stop_http", "join"} => Tended(x)
  BY DEF PortsAreKept, Tended
<1>1. ASSUME NEW fd \in DOMAIN table, table[fd] = <<"port", x>>
      PROVE  fd = port[x].fd /\ fd # NoFd
  BY <1>1, FdsAssumption DEF IInv, FdInv, KeptInv, OwnInv, NoFd
<1>2. port[x].fd # NoFd => /\ port[x].fd \in DOMAIN table
                           /\ table[port[x].fd] = <<"port", x>>
  BY DEF IInv, FdInv, HandlersAgree
<1>3. QED  BY <1>1, <1>2 DEF KeptInv, TendInv

LEMMA OwnSame ==
    ASSUME OwnInv, UNCHANGED table, DOMAIN port' = DOMAIN port,
           \A x \in DOMAIN port : port'[x].fd = port[x].fd
    PROVE  OwnInv'
BY DEF OwnInv

\* A descriptor that is no port's is opened.
LEMMA OwnWatch ==
    ASSUME FdInv, OwnInv, NEW fd \in Fds, IsNext(fd), NEW h, watch(fd, h),
           h[1] # "port", DOMAIN port' = DOMAIN port,
           \A x \in DOMAIN port : port'[x].fd = port[x].fd
    PROVE  OwnInv'
<1>1. DOMAIN table' = DOMAIN table \cup {fd} /\ fd \notin DOMAIN table
  BY DEF watch, Emplace, IsNext
<1>2. table'[fd] = h /\ \A g \in DOMAIN table : table'[g] = table[g]
  BY <1>1 DEF watch, Emplace
<1>3. \A x : h # <<"port", x>>
  OBVIOUS
<1>4. QED  BY <1>1, <1>2, <1>3 DEF OwnInv

\* A port that was not open is opened, or its timer armed.
LEMMA OwnOpen ==
    ASSUME FdInv, OwnInv, NEW x \in DOMAIN port, port[x].fd = NoFd, try_open(x)
    PROVE  /\ OwnInv' /\ Tended(x)'
           /\ \A y \in DOMAIN port : y # x => port'[y] = port[y]
<1>1. /\ DOMAIN port' = DOMAIN port
      /\ port[x] \in Port /\ port[x] = [port[x] EXCEPT !.fd = port[x].fd]
  BY Opening DEF FdInv, Port
<1>2. ASSUME NEW fd \in Fds, IsNext(fd), watch(fd, <<"port", x>>),
             port' = [port EXCEPT ![x].fd = fd, ![x].armed = FALSE]
      PROVE  /\ OwnInv' /\ Tended(x)'
             /\ \A y \in DOMAIN port : y # x => port'[y] = port[y]
  <2>1. port'[x].fd = fd /\ port'[x].armed = FALSE
    BY <1>1, <1>2 DEF Port
  <2>2. \A y \in DOMAIN port : y # x => port'[y] = port[y]
    BY <1>2
  <2>3. DOMAIN table' = DOMAIN table \cup {fd} /\ fd \notin DOMAIN table
    BY <1>2 DEF watch, Emplace, IsNext
  <2>4. table'[fd] = <<"port", x>> /\ \A g \in DOMAIN table : table'[g] = table[g]
    BY <1>2, <2>3 DEF watch, Emplace
  <2>5. \A g \in DOMAIN table : table[g] # <<"port", x>>
    BY FdsAssumption DEF FdInv, OwnInv, NoFd
  <2>6. ASSUME NEW y \in DOMAIN port', NEW g \in DOMAIN table', table'[g] = <<"port", y>>
        PROVE  port'[y].fd = g
    <3>1. CASE g = fd
      BY <2>1, <2>4, <2>6, <3>1
    <3>2. CASE g # fd
      <4>1. g \in DOMAIN table /\ table[g] = <<"port", y>>
        BY <2>3, <2>4, <2>6, <3>2
      <4>2. y # x /\ y \in DOMAIN port
        BY <1>1, <2>5, <4>1
      <4>3. QED  BY <2>2, <4>1, <4>2 DEF OwnInv
    <3>3. QED  BY <3>1, <3>2
  <2>7. OwnInv'
    BY <2>6 DEF OwnInv
  <2>8. Tended(x)'
    BY <2>1, FdsAssumption DEF Tended, NoFd
  <2>9. QED  BY <2>2, <2>7, <2>8
<1>3. ASSUME port' = [port EXCEPT ![x].armed = TRUE], UNCHANGED fdVars
      PROVE  /\ OwnInv' /\ Tended(x)'
             /\ \A y \in DOMAIN port : y # x => port'[y] = port[y]
  <2>1. /\ port'[x].fd = NoFd /\ port'[x].armed = TRUE
        /\ \A y \in DOMAIN port : y # x => port'[y] = port[y]
    BY <1>1, <1>3 DEF Port
  <2>2. OwnInv'
    BY <1>1, <1>3, <2>1, OwnSame DEF fdVars
  <2>3. QED  BY <2>1, <2>2 DEF Tended
<1>4. QED  BY <1>2, <1>3 DEF try_open

\* Descriptors are closed, that of a port only if the port gives it up.
LEMMA OwnClose ==
    ASSUME FdInv, OwnInv, NEW fds, NEW closed, unwatch(fds, closed),
           DOMAIN port' = DOMAIN port,
           \A x \in DOMAIN port : port'[x].fd = port[x].fd \/ port[x].fd \in closed \cup {NoFd}
    PROVE  OwnInv'
<1> SUFFICES ASSUME NEW x \in DOMAIN port, NEW fd \in DOMAIN table', table'[fd] = <<"port", x>>
             PROVE  port'[x].fd = fd
  BY DEF OwnInv
<1>1. fd \in DOMAIN table \ closed /\ table[fd] = <<"port", x>>
  BY DEF unwatch, Without
<1>2. port[x].fd = fd /\ fd # NoFd
  BY <1>1, FdsAssumption DEF FdInv, OwnInv, NoFd
<1>3. QED  BY <1>1, <1>2

\* UartTransport::stop().
LEMMA OwnStop ==
    ASSUME FdInv, OwnInv, NEW x \in DOMAIN port, UartStop(x)
    PROVE  OwnInv'
<1> DEFINE own == {port[x].fd} \ {NoFd}
           fds == {fd \in DOMAIN table : table[fd] = <<"reopen", x>>} \cup own
<1>1. unwatch(fds, own)
  BY DEF UartStop
<1>2. /\ DOMAIN port' = DOMAIN port
      /\ \A y \in DOMAIN port : y # x => port'[y] = port[y]
  BY Stopping
<1>3. \A y \in DOMAIN port : port'[y].fd = port[y].fd \/ port[y].fd \in own \cup {NoFd}
  BY <1>2
<1> HIDE DEF own, fds
<1>4. QED  BY <1>1, <1>2, <1>3, OwnClose

\* Steps that change no port keep what holds of it.
LEMMA TendedSame ==
    ASSUME NEW x, port'[x].fd = port[x].fd, port'[x].armed = port[x].armed
    PROVE  (Tended(x)' <=> Tended(x)) /\ (Untouched(x)' <=> Untouched(x))
BY DEF Tended, Untouched

LEMMA KeptLoad == IInv /\ KeptInv /\ LoadConfig => KeptInv'
<1> SUFFICES ASSUME IInv, KeptInv, LoadConfig PROVE KeptInv'
  OBVIOUS
<1>1. /\ UNCHANGED <<file, link, port, table>> /\ main = "load"
      /\ \/ main' = "start" /\ todo' = StartUp
         \/ main' = "failed"
  BY DEF LoadConfig, fdVars
<1>2. OwnInv'
  BY <1>1, OwnSame DEF KeptInv
<1>3. \A x \in DOMAIN port' : Untouched(x)'
  BY <1>1, TendedSame DEF KeptInv, TendInv
<1>4. ASSUME main' = "start", NEW x \in DOMAIN port'
      PROVE  ~(Place(x) <= Len(StartUp) - Len(todo))'
  <2>1. StartUp' = StartUp /\ Place(x)' = Place(x)
    BY <1>1, Unchanged DEF Place
  <2>2. todo' = StartUp /\ x \in Ports /\ file \in Files
    BY <1>1, <1>4 DEF IInv, TypeInv
  <2>3. Place(x) \in 1..(4 * N + 4) /\ Len(StartUp) = 4 * N + 5 /\ N \in Nat
    BY <2>2, PlaceOfPort, StartUpType, BlocksType
  <2>4. QED  BY <2>1, <2>2, <2>3
<1>5. TendInv'
  BY <1>1, <1>3, <1>4 DEF TendInv
<1>6. QED  BY <1>2, <1>5 DEF KeptInv

LEMMA KeptStart == IInv /\ KeptInv /\ Start => KeptInv'
<1> SUFFICES ASSUME IInv, KeptInv, Start PROVE KeptInv'
  OBVIOUS
<1> DEFINE h == Head(todo)
           n == Len(StartUp) - Len(todo) + 1
<1>1. UNCHANGED <<file, link, main>> /\ main = "start" /\ Len(todo) > 1
      /\ todo' = Tail(todo) /\ file \in Files /\ DOMAIN port = Ports
  BY DEF Start, IInv, TypeInv
<1>2. Len(StartUp) = 4 * N + 5 /\ N \in Nat
  BY <1>1, StartUpType, BlocksType
<1>3. /\ h = StartUp[n] /\ Len(Tail(todo)) = Len(todo) - 1
      /\ Len(todo) \in 2..Len(StartUp)
  <2>1. IsRest(todo, StartUp) /\ todo # <<>>
    BY <1>1 DEF IInv, PhaseInv
  <2>2. /\ h = StartUp[n] /\ Len(Tail(todo)) = Len(todo) - 1
        /\ Len(todo) \in 1..Len(StartUp)
    BY <1>2, <2>1, RestOfRest
  <2>3. QED  BY <1>1, <1>2, <2>2
<1>4. n \in 1..(4 * N + 4) /\ Len(StartUp') - Len(todo') = n
  <2>1. n \in 1..(4 * N + 4) /\ n = Len(StartUp) - (Len(todo) - 1)
    BY <1>2, <1>3
  <2>2. Len(StartUp') = Len(StartUp) /\ Len(todo') = Len(todo) - 1
    BY <1>1, <1>3, Unchanged, Zenon
  <2> HIDE DEF n
  <2>3. QED  BY <2>1, <2>2
<1>5. \A x \in DOMAIN port : /\ Place(x) \in Nat /\ StartUp[Place(x)] = <<"port", x>>
                             /\ h[1] = "port" /\ h[2] = x => Place(x) = n
  BY <1>1, <1>2, <1>3, <1>4, PlaceOfPort
<1>6. \A x \in DOMAIN port :
          IF Place(x) <= n - 1 THEN Tended(x) ELSE Untouched(x)
  BY <1>1, <1>2, <1>3 DEF KeptInv, TendInv
<1>7. h[1] = "port" => h[2] \in DOMAIN port
  <2>1. CASE n <= 4 * N + 2
    BY <1>1, <1>3, <1>4, <2>1, StartUpType
  <2>2. CASE n = 4 * N + 3
    BY <1>1, <1>3, <2>2, StartUpType
  <2>3. CASE n = 4 * N + 4
    BY <1>1, <1>3, <2>3, StartUpType, PortsType
  <2>4. QED  BY <1>2, <1>4, <2>1, <2>2, <2>3
<1> HIDE DEF h, n
<1>8. /\ OwnInv' /\ DOMAIN port' = DOMAIN port
      /\ \A x \in DOMAIN port :
             IF Place(x) <= n THEN Tended(x)' ELSE Untouched(x)'
  <2>1. CASE h[1] = "port"
    <3>0. PICK y \in DOMAIN port : y = h[2]
      BY <1>7, <2>1
    <3>1. try_open(y) /\ Place(y) = n
      <4>1. try_open(h[2])
        BY <2>1 DEF Start, h
      <4>2. QED  BY <1>5, <2>1, <3>0, <4>1
    <3>2. port[y].fd = NoFd
      <4>1. ~(n <= n - 1)
        BY <1>4
      <4>2. QED  BY <1>6, <3>1, <4>1 DEF Untouched
    <3>3. /\ OwnInv' /\ Tended(y)'
          /\ \A z \in DOMAIN port : z # y => port'[z] = port[z]
      BY <3>1, <3>2, OwnOpen DEF IInv, KeptInv
    <3>4. DOMAIN port' = DOMAIN port
      BY <3>1, Opening DEF IInv
    <3>5. ASSUME NEW x \in DOMAIN port
          PROVE  IF Place(x) <= n THEN Tended(x)' ELSE Untouched(x)'
      <4>1. CASE x = y
        <5>1. Place(x) <= n
          BY <1>4, <3>1, <4>1
        <5>2. QED  BY <3>3, <4>1, <5>1
      <4>2. CASE x # y
        <5>1. (Tended(x)' <=> Tended(x)) /\ (Untouched(x)' <=> Untouched(x))
          BY <3>3, <4>2, TendedSame
        <5>2. Place(x) # n
          <6>1. StartUp[Place(x)][2] = x
            BY <1>5
          <6>2. QED  BY <1>3, <3>0, <4>2, <6>1 DEF n
        <5>3. Place(x) <= n <=> Place(x) <= n - 1
          BY <1>4, <1>5, <5>2
        <5>4. QED  BY <1>6, <5>1, <5>3
      <4>3. QED  BY <4>1, <4>2
    <3>6. QED  BY <3>3, <3>4, <3>5
  <2>2. CASE h[1] # "port"
    <3>1. /\ OwnInv' /\ DOMAIN port' = DOMAIN port
          /\ \A x \in DOMAIN port : /\ port'[x].fd = port[x].fd
                                    /\ port'[x].armed = port[x].armed
      <4>1. CASE UNCHANGED <<fdVars, port>>
        BY <4>1, OwnSame DEF KeptInv, fdVars
      <4>2. CASE ~UNCHANGED <<fdVars, port>>
        <5>1. h[1] # "none"
          BY <4>2 DEF Start, h
        <5>2. PICK fd \in Fds : IsNext(fd) /\ watch(fd, h)
          BY <2>2, <5>1 DEF Start, h
        <5>3. port' = IF h[1] = "reopen" THEN [port EXCEPT ![h[2]].dispatcher = TRUE]
                                         ELSE port
          BY <2>2, <5>1 DEF Start, h
        <5>4. /\ DOMAIN port' = DOMAIN port
              /\ \A x \in DOMAIN port : /\ port'[x].fd = port[x].fd
                                        /\ port'[x].armed = port[x].armed
          BY <5>3 DEF IInv, FdInv, Port
        <5>5. OwnInv'
          BY <2>2, <5>2, <5>4, OwnWatch DEF IInv, KeptInv
        <5>6. QED  BY <5>4, <5>5
      <4>3. QED  BY <4>1, <4>2
    <3>2. ASSUME NEW x \in DOMAIN port
          PROVE  IF Place(x) <= n THEN Tended(x)' ELSE Untouched(x)'
      <4>1. (Tended(x)' <=> Tended(x)) /\ (Untouched(x)' <=> Untouched(x))
        BY <3>1, TendedSame
      <4>2. Place(x) # n
        BY <1>3, <1>5, <2>2 DEF n
      <4>3. Place(x) <= n <=> Place(x) <= n - 1
        BY <1>4, <1>5, <4>2
      <4>4. QED  BY <1>6, <4>1, <4>3
    <3>3. QED  BY <3>1, <3>2
  <2>3. QED  BY <2>1, <2>2
<1>9. \A x : Place(x)' = Place(x)
  BY <1>1, Unchanged DEF Place
<1>10. TendInv'
  BY <1>1, <1>4, <1>8, <1>9 DEF TendInv
<1>11. QED  BY <1>8, <1>10 DEF KeptInv

LEMMA KeptStartHttp == IInv /\ KeptInv /\ StartHttp => KeptInv'
<1> SUFFICES ASSUME IInv, KeptInv, StartHttp PROVE KeptInv'
  OBVIOUS
<1>1. /\ UNCHANGED <<port, table>> /\ main = "start" /\ Len(todo) = 1
      /\ main' \in {"run", "aborted"}
  BY DEF StartHttp, fdVars
<1>2. OwnInv'
  BY <1>1, OwnSame DEF KeptInv
<1>3. ASSUME NEW x \in DOMAIN port PROVE Tended(x)'
  <2>1. x \in Ports /\ file \in Files
    BY DEF IInv, TypeInv
  <2>2. Place(x) \in 1..(4 * N + 4) /\ Len(StartUp) = 4 * N + 5 /\ N \in Nat
    BY <2>1, PlaceOfPort, StartUpType, BlocksType
  <2>3. Place(x) <= Len(StartUp) - Len(todo)
    BY <1>1, <2>2
  <2>4. QED  BY <1>1, <2>3, TendedSame DEF KeptInv, TendInv
<1>4. QED  BY <1>1, <1>2, <1>3 DEF KeptInv, TendInv

LEMMA KeptDispatch == IInv /\ KeptInv /\ Dispatch => KeptInv'
<1> SUFFICES ASSUME IInv, KeptInv, Dispatch PROVE KeptInv'
  OBVIOUS
<1>1. main = "run" /\ main' = "run" /\ DOMAIN port' = DOMAIN port
  <2>1. main = "run" /\ UNCHANGED <<file, link, main>>
    BY DEF Dispatch
  <2>2. IInv'
    BY DispatchStep
  <2>3. QED  BY <2>1, <2>2, Unchanged DEF IInv, TypeInv
<1>2. \A x \in DOMAIN port : Tended(x)
  BY <1>1 DEF KeptInv, TendInv
<1> DEFINE Kept == OwnInv' /\ \A x \in DOMAIN port : Tended(x)'
<1>3. ASSUME UNCHANGED <<fdVars, port>> PROVE Kept
  <2>1. OwnInv'
    BY <1>3, OwnSame DEF KeptInv, fdVars
  <2>2. QED  BY <1>2, <1>3, <2>1, TendedSame
<1>4. ASSUME NEW x \in DOMAIN port, on_readable(x) PROVE Kept
  <2>1. CASE close_fd(port[x].fd) /\ port' = [port EXCEPT ![x].fd = NoFd, ![x].armed = TRUE]
    <3>1. /\ port'[x].fd = NoFd /\ port'[x].armed = TRUE
          /\ \A y \in DOMAIN port : y # x => port'[y] = port[y]
      BY <1>1, <2>1 DEF IInv, FdInv, Port
    <3>2. unwatch({port[x].fd}, {port[x].fd})
      BY <2>1 DEF close_fd
    <3>3. \A y \in DOMAIN port : port'[y].fd = port[y].fd \/ port[y].fd \in {port[x].fd} \cup {NoFd}
      BY <3>1
    <3>4. OwnInv'
      BY <1>1, <3>2, <3>3, OwnClose DEF IInv, KeptInv
    <3>5. Tended(x)'
      BY <3>1 DEF Tended
    <3>6. \A y \in DOMAIN port : y # x => Tended(y)'
      BY <1>2, <3>1, TendedSame
    <3>7. QED  BY <3>4, <3>5, <3>6
  <2>2. QED  BY <1>3, <1>4, <2>1 DEF on_readable
<1>5. ASSUME NEW x \in DOMAIN port, on_reopen_tick(x) PROVE Kept
  <2>1. CASE port[x].fd # NoFd
    <3>1. port' = [port EXCEPT ![x].armed = FALSE] /\ UNCHANGED fdVars
      BY <1>5, <2>1 DEF on_reopen_tick
    <3>2. /\ \A y \in DOMAIN port : port'[y].fd = port[y].fd
          /\ \A y \in DOMAIN port : y # x => port'[y] = port[y]
          /\ port'[x].armed = FALSE
      BY <3>1 DEF IInv, FdInv, Port
    <3>3. OwnInv'
      BY <1>1, <3>1, <3>2, OwnSame DEF KeptInv, fdVars
    <3>4. Tended(x)'
      BY <2>1, <3>2 DEF Tended
    <3>5. \A y \in DOMAIN port : y # x => Tended(y)'
      BY <1>2, <3>2, TendedSame
    <3>6. QED  BY <3>3, <3>4, <3>5
  <2>2. CASE port[x].fd = NoFd
    <3>1. try_open(x)
      BY <1>5, <2>2 DEF on_reopen_tick
    <3>2. /\ OwnInv' /\ Tended(x)'
          /\ \A y \in DOMAIN port : y # x => port'[y] = port[y]
      BY <2>2, <3>1, OwnOpen DEF IInv, KeptInv
    <3>3. \A y \in DOMAIN port : y # x => Tended(y)'
      BY <1>2, <3>2, TendedSame
    <3>4. QED  BY <3>2, <3>3
  <2>3. QED  BY <2>1, <2>2
<1> HIDE DEF Kept
<1>6. ASSUME NEW h, Handle(h), h[1] \in {"port", "reopen"} => h[2] \in DOMAIN port
      PROVE  Kept
  <2>1. CASE h[1] = "port"
    BY <1>4, <1>6, <2>1 DEF Handle
  <2>2. CASE h[1] = "reopen"
    BY <1>5, <1>6, <2>2 DEF Handle
  <2>3. CASE h[1] \notin {"port", "reopen"}
    BY <1>3, <1>6, <2>3 DEF Handle
  <2>4. QED  BY <2>1, <2>2, <2>3
<1>7. PICK fd \in batch :
          CASE fd \in DOMAIN table /\ table[fd] = Signalfd -> OnSignal
            [] fd \in DOMAIN handlers -> Handle(handlers[fd])
            [] OTHER -> UNCHANGED <<fdVars, port, stopping, signal>>
  BY DEF Dispatch
<1>8. \/ UNCHANGED <<fdVars, port>>
      \/ fd \in DOMAIN handlers /\ Handle(handlers[fd])
  BY <1>7 DEF OnSignal
<1>9. fd \in DOMAIN handlers /\ Handle(handlers[fd]) => Kept
  BY <1>6 DEF IInv, FdInv
<1>10. Kept
  BY <1>3, <1>8, <1>9
<1>11. QED  BY <1>1, <1>10 DEF KeptInv, TendInv, Kept

LEMMA KeptStop == IInv /\ KeptInv /\ StopBattery => KeptInv'
<1> SUFFICES ASSUME IInv, KeptInv, StopBattery PROVE KeptInv'
  OBVIOUS
<1>1. main = "stop" /\ main' = "stop" /\ todo # <<>>
  BY DEF StopBattery
<1>2. PICK t : t = Head(todo)
  OBVIOUS
<1>3. CASE t[1] = "uart"
  <2>1. UartStop(t[2])
    BY <1>2, <1>3 DEF StopBattery
  <2>2. t[2] \in DOMAIN port
    <3>1. /\ Len(StopAll) = N /\ N \in Nat
          /\ \A i \in 1..N : StopAll[i][2] = i /\ (StopAll[i][1] = "uart" <=> i \in Ports \ {0})
      BY StopAllType DEF IInv, TypeInv
    <3>2. IsRest(todo, StopAll)
      BY <1>1 DEF IInv, PhaseInv
    <3>3. t = StopAll[N - Len(todo) + 1] /\ Len(todo) \in 1..N
      BY <1>1, <1>2, <3>1, <3>2, RestOfRest
    <3>4. N - Len(todo) + 1 \in 1..N
      BY <3>1, <3>3
    <3>5. QED  BY <1>3, <3>1, <3>3, <3>4 DEF IInv, TypeInv
  <2>3. OwnInv'
    BY <2>1, <2>2, OwnStop DEF IInv, KeptInv
  <2>4. QED  BY <1>1, <2>3 DEF KeptInv, TendInv
<1>4. CASE t[1] # "uart"
  <2>1. CASE t[1] = "ble"
    <3> DEFINE fds == {fd \in DOMAIN table : table[fd] = <<"queue", t[2]>>}
    <3>1. unwatch(fds, {}) /\ UNCHANGED port
      BY <1>2, <2>1 DEF StopBattery
    <3> HIDE DEF fds
    <3>2. OwnInv'
      BY <3>1, OwnClose DEF IInv, KeptInv
    <3>3. QED  BY <1>1, <3>2 DEF KeptInv, TendInv
  <2>2. CASE t[1] # "ble"
    <3>1. UNCHANGED <<table, port>>
      BY <1>2, <1>4, <2>2 DEF StopBattery, fdVars
    <3>2. OwnInv'
      BY <3>1, OwnSame DEF KeptInv
    <3>3. QED  BY <1>1, <3>2 DEF KeptInv, TendInv
  <2>3. QED  BY <2>1, <2>2
<1>5. QED  BY <1>3, <1>4

LEMMA KeptDestroy == IInv /\ KeptInv /\ Destroy => KeptInv'
<1> SUFFICES ASSUME IInv, KeptInv, Destroy PROVE KeptInv'
  OBVIOUS
<1>1. main' \in {"return", "end"}
  BY DEF Destroy
<1>2. OwnInv'
  <2>1. CASE Last(alive) = "inverter"
    <3>1. UartStop(0) /\ 0 \in DOMAIN port
      BY <2>1, PortsType DEF Destroy, IInv, TypeInv
    <3>2. QED  BY <3>1, OwnStop DEF IInv, KeptInv
  <2>2. CASE Last(alive) = "dispatcher"
    <3>1. unwatch(DOMAIN table, DOMAIN table) /\ UNCHANGED port
      BY <2>2 DEF Destroy
    <3>2. QED  BY <3>1, OwnClose DEF IInv, KeptInv
  <2>3. CASE Last(alive) \notin {"inverter", "dispatcher"}
    <3>1. UNCHANGED <<table, port>>
      BY <2>3 DEF Destroy, fdVars
    <3>2. QED  BY <3>1, OwnSame DEF KeptInv
  <2>4. QED  BY <2>1, <2>2, <2>3
<1>3. QED  BY <1>1, <1>2 DEF KeptInv, TendInv

\* The steps that touch no port.
LEMMA KeptOthers ==
    IInv /\ KeptInv /\ (LeaveLoop \/ StopHttp \/ Join \/ Return \/ epoll_wait \/ Signal
                          \/ HttpDispatch \/ HttpEnds \/ UNCHANGED vars) => KeptInv'
<1> SUFFICES ASSUME IInv, KeptInv,
                    LeaveLoop \/ StopHttp \/ Join \/ Return \/ epoll_wait \/ Signal
                      \/ HttpDispatch \/ HttpEnds \/ UNCHANGED vars
             PROVE  KeptInv'
  OBVIOUS
<1>1. UNCHANGED <<file, link, port, table>>
  BY DEF LeaveLoop, StopHttp, Join, Return, epoll_wait, Signal, HttpDispatch, HttpEnds,
         vars, fdVars
<1>2. \/ main = "run" /\ main' = "stop_http"
      \/ main = "stop_http" /\ main' = "join"
      \/ main' \in {"stop", "return"}
      \/ main' = main /\ todo' = todo
  BY DEF LeaveLoop, StopHttp, Join, Return, epoll_wait, Signal, HttpDispatch, HttpEnds, vars
<1>3. OwnInv'
  BY <1>1, OwnSame DEF KeptInv
<1>4. \A x : /\ Tended(x)' <=> Tended(x)
             /\ Untouched(x)' <=> Untouched(x)
             /\ Place(x)' = Place(x)
  BY <1>1, TendedSame, Unchanged DEF Place
<1>5. StartUp' = StartUp
  BY <1>1, Unchanged
<1>6. TendInv'
  BY <1>1, <1>2, <1>4, <1>5 DEF KeptInv, TendInv
<1>7. QED  BY <1>3, <1>6 DEF KeptInv

LEMMA KeptInductive == IInv /\ KeptInv /\ [Next]_vars => KeptInv'
BY KeptLoad, KeptStart, KeptStartHttp, KeptDispatch, KeptStop, KeptDestroy, KeptOthers
   DEF Next, Main

-----------------------------------------------------------------------------
(* Theorems *)

\* Dispatcher::watch() and unwatch() with close(): an event never reaches a handler
\* of another descriptor, however often ports are lost and numbers are reused.
THEOREM HandlersSafe == Spec => []HandlersAgree
<1>1. Spec => []IInv
  BY Invariance
<1>2. IInv => HandlersAgree
  BY Implied
<1>3. QED  BY <1>1, <1>2, PTL

\* main(): the order of its stops and of its destructors lets every user go before
\* what it uses, whatever the configuration and whenever the signal comes.
THEOREM OrderSafe == Spec => []UsersDieFirst
<1>1. Spec => []IInv
  BY Invariance
<1>2. IInv => UsersDieFirst
  BY Implied
<1>3. QED  BY <1>1, <1>2, PTL

\* UartTransport: however ports come and go, no descriptor of one is left open that
\* it does not hold, and while the loop runs each is open or will be tried again.
THEOREM PortsSafe == Spec => []PortsAreKept
<1>1. Init => KeptInv
  BY DEF Init, KeptInv, OwnInv, TendInv, Untouched
<1>2. Spec => []IInv
  BY Invariance
<1>3. IInv /\ KeptInv /\ [Next]_vars => KeptInv'
  BY KeptInductive
<1>4. IInv /\ KeptInv => PortsAreKept
  BY KeptImplies
<1>5. QED  BY <1>1, <1>2, <1>3, <1>4, PTL DEF Spec
=============================================================================
