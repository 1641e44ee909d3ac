----------------------------- MODULE Lifecycle -------------------------------
(***************************************************************************)
(* The life of the process: main() reads the configuration, builds the     *)
(* components and registers them with the Dispatcher, runs its loop until  *)
(* SIGINT or SIGTERM, stops the threads and destroys everything in the     *)
(* opposite order.                                                         *)
(*                                                                         *)
(* The Dispatcher's tables, the file descriptors of the process, the serial *)
(* ports that are closed and opened again under it, and the HTTP thread are *)
(* modelled; what the handlers do to the batteries is in the other modules. *)
(*                                                                         *)
(* A handler is named by what it serves: <<kind, x>> with x the number of  *)
(* the battery, 0 for the inverter and the process itself.                 *)
(***************************************************************************)
EXTENDS Config, SequencesExt

CONSTANTS
    Files,          \* configuration files
    Fds,            \* file descriptors that open() and the like return
    kMaxEvents,     \* of one epoll_wait()
    EarlySignals    \* whether a signal may come before the HTTP server runs

ASSUME FilesAssumption ==
    \A f \in Files : f.blocks \in Seq(Range(f.blocks))
ASSUME FdsAssumption   == Fds \subseteq Nat /\ kMaxEvents \in Nat \ {0}
ASSUME EarlyAssumption == EarlySignals \in BOOLEAN

VARIABLES
    file,       \* the configuration file
    link,       \* BatteryConfig::link of its batteries
    main,       \* where main() is
    todo,       \* what it does next there, in order
    alive,      \* its objects, in the order of their construction
    table,      \* the descriptors of the process: fd -> what it serves
    epoll,      \* the descriptors in the epoll set
    handlers,   \* Dispatcher::handlers_: fd -> what its handler serves
    batch,      \* events of the last epoll_wait() not handled yet
    stopping,   \* Dispatcher::stopping_
    port,       \* UartTransports: [fd, armed, dispatcher]
    signal,     \* a signal waits in the signalfd
    http        \* HttpServer: [thread, stopping, broken]

fdVars == <<table, epoll, handlers>>
vars == <<file, link, main, todo, alive, fdVars, batch, stopping, port, signal, http>>

NoFd     == -1
Signalfd == <<"signal", 0>>

\* The UartTransports: of the inverter and of the batteries on a serial line.
Ports == {0} \cup {i \in DOMAIN file.blocks : Transport(file.blocks[i], link[i]) = "uart"}

-----------------------------------------------------------------------------
(* What main() does, in order *)

\* Battery::start(), by transport; a port is opened between its timer and the
\* ones of the handler.
Opened(transport) ==
    CASE transport = "ble"  -> <<"queue", "none", "poll", "settings">>
      [] transport = "uart" -> <<"reopen", "port", "poll", "settings">>
      [] OTHER              -> <<"none", "none", "none", "none">>

StartBatteries ==
    [n \in 1..(4 * Len(file.blocks)) |->
        LET i == (n + 3) \div 4
        IN  <<Opened(Transport(file.blocks[i], link[i]))[n - 4 * (i - 1)], i>>]

\* From the Dispatcher to HttpServer::start().
StartUp == << Signalfd, <<"hourly", 0>> >> \o StartBatteries
               \o << <<"reopen", 0>>, <<"port", 0>>, <<"http", 0>> >>

\* Battery::stop(): the transports.
StopAll == [i \in DOMAIN file.blocks |->
                <<Transport(file.blocks[i], link[i]), i>>]

Objects == <<"history", "dispatcher", "batteries", "inverter", "http">>

-----------------------------------------------------------------------------
(* Dispatcher *)

\* std::map::emplace() leaves a handler that is there alone.
Emplace(f, fd, h) ==
    [x \in DOMAIN f \cup {fd} |-> IF x \in DOMAIN f THEN f[x] ELSE h]

Without(f, fds) == [x \in DOMAIN f \ fds |-> f[x]]

\* The kernel gives out the lowest number that is free.
IsNext(fd) ==
    fd \in Fds \ DOMAIN table /\ \A g \in Fds \ DOMAIN table : fd <= g

\* watch() a new descriptor; add_timer() does the same with its timer.  The
\* signalfd has no handler.
watch(fd, h) ==
    /\ table'    = Emplace(table, fd, h)
    /\ epoll'    = epoll \cup {fd}
    /\ handlers' = IF h = Signalfd THEN handlers ELSE Emplace(handlers, fd, h)

\* unwatch(), and close() of some of them.
unwatch(fds, closed) ==
    /\ handlers' = Without(handlers, fds)
    /\ epoll'    = epoll \ fds
    /\ table'    = Without(table, closed)

\* Faulty variant of close_fd: the handler of the descriptor stays.
close_fd_watched(fd) ==
    /\ handlers' = handlers
    /\ epoll'    = epoll \ {fd}
    /\ table'    = Without(table, {fd})

\* Faulty variant of close_fd: the descriptor stays open.
close_fd_leaking(fd) == unwatch({fd}, {})

\* UartTransport::close_fd().
close_fd(fd) == unwatch({fd}, {fd})

\* UartTransport::try_open().
try_open(x) ==
    \/ \E fd \in Fds : /\ IsNext(fd)
                       /\ watch(fd, <<"port", x>>)
                       /\ port' = [port EXCEPT ![x].fd = fd, ![x].armed = FALSE]
    \/ /\ port' = [port EXCEPT ![x].armed = TRUE]
       /\ UNCHANGED fdVars

\* UartTransport::on_readable(): data, or a read error.  The fd is the one the
\* transport holds, not the one epoll_wait() reported.
on_readable(x) ==
    \/ UNCHANGED <<fdVars, port>>
    \/ /\ close_fd(port[x].fd)
       /\ port' = [port EXCEPT ![x].fd = NoFd, ![x].armed = TRUE]

on_reopen_tick(x) ==
    IF port[x].fd # NoFd
      THEN port' = [port EXCEPT ![x].armed = FALSE] /\ UNCHANGED fdVars
      ELSE try_open(x)

\* epoll_wait() returns descriptors that have something to read: timers and
\* ports may at any time, a one-shot timer if it is armed.
Ready(fd) ==
    CASE table[fd] = Signalfd      -> signal
      [] table[fd][1] = "reopen"   -> port[table[fd][2]].armed
      [] OTHER                     -> TRUE

epoll_wait ==
    /\ main = "run" /\ batch = {} /\ ~stopping
    /\ batch' \in {b \in SUBSET {fd \in epoll : Ready(fd)} :
                      b # {} /\ Cardinality(b) <= kMaxEvents}
    /\ UNCHANGED <<file, link, main, todo, alive, fdVars, stopping, port, signal, http>>

OnSignal ==
    /\ stopping' = TRUE
    /\ signal' = FALSE
    /\ UNCHANGED <<fdVars, port>>

\* One event of the batch.
Handle(h) ==
    /\ CASE h[1] = "port"   -> on_readable(h[2])
         [] h[1] = "reopen" -> on_reopen_tick(h[2])
         [] OTHER           -> UNCHANGED <<fdVars, port>>
    /\ UNCHANGED <<stopping, signal>>

Dispatch ==
    /\ main = "run"
    /\ \E fd \in batch :
          /\ batch' = batch \ {fd}
          /\ CASE fd \in DOMAIN table /\ table[fd] = Signalfd -> OnSignal
               [] fd \in DOMAIN handlers -> Handle(handlers[fd])
               [] OTHER -> UNCHANGED <<fdVars, port, stopping, signal>>
    /\ UNCHANGED <<file, link, main, todo, alive, http>>

\* SIGINT or SIGTERM; before the Dispatcher blocks them they end the process.
Signal ==
    /\ Signalfd \in Range(table) /\ main \in {"start", "run"}
    /\ EarlySignals \/ http.thread = "looping"
    /\ signal' = TRUE
    /\ UNCHANGED <<file, link, main, todo, alive, fdVars, batch, stopping, port, http>>

-----------------------------------------------------------------------------
(* main() *)

LoadConfig ==
    /\ main = "load"
    /\ IF load_config(file, link)
         THEN /\ main' = "start" /\ todo' = StartUp
              /\ alive' = SubSeq(Objects, 1, 3)
         ELSE main' = "failed" /\ UNCHANGED <<todo, alive>>
    /\ UNCHANGED <<file, link, fdVars, batch, stopping, port, signal, http>>

Start ==
    /\ main = "start" /\ Len(todo) > 1
    /\ LET h == Head(todo)
       IN  /\ CASE h[1] = "none" -> UNCHANGED <<fdVars, port>>
                [] h[1] = "port" -> try_open(h[2])
                [] OTHER -> /\ \E fd \in Fds : IsNext(fd) /\ watch(fd, h)
                            /\ port' = IF h[1] = "reopen"
                                         THEN [port EXCEPT ![h[2]].dispatcher = TRUE]
                                         ELSE port
           /\ alive' = IF h = <<"reopen", 0>> THEN Append(alive, "inverter") ELSE alive
    /\ todo' = Tail(todo)
    /\ UNCHANGED <<file, link, main, batch, stopping, signal, http>>

\* The constructor of HttpServer throws if it cannot bind its port, and nobody
\* catches it; otherwise its thread is started and the loop entered.
StartHttp ==
    /\ main = "start" /\ Len(todo) = 1
    /\ todo' = <<>>
    /\ \/ /\ main' = "run"
          /\ alive' = Append(alive, "http")
          /\ http' = [http EXCEPT !.thread = "starting"]
       \/ main' = "aborted" /\ UNCHANGED <<alive, http>>
    /\ UNCHANGED <<file, link, fdVars, batch, stopping, port, signal>>

LeaveLoop ==
    /\ main = "run" /\ batch = {} /\ stopping
    /\ main' = "stop_http"
    /\ UNCHANGED <<file, link, todo, alive, fdVars, batch, stopping, port, signal, http>>

\* Faulty variant of on_stop: nobody wakes the loop of the thread.
on_stop_quiet == http' = [http EXCEPT !.stopping = TRUE]

\* Thread::stop() up to the join; event_base_loopbreak() sets a flag.
on_stop == http' = [http EXCEPT !.stopping = TRUE, !.broken = TRUE]

StopHttp ==
    /\ main = "stop_http"
    /\ on_stop
    /\ main' = "join"
    /\ UNCHANGED <<file, link, todo, alive, fdVars, batch, stopping, port, signal>>

\* Faulty variant of Joined: the thread is not waited for.
JoinedNever == TRUE

Joined == http.thread = "ended"

Join ==
    /\ main = "join" /\ Joined
    /\ main' = "stop" /\ todo' = StopAll
    /\ UNCHANGED <<file, link, alive, fdVars, batch, stopping, port, signal, http>>

\* UartTransport::stop(); its timer stays open.
UartStop(x) ==
    LET own == {port[x].fd} \ {NoFd}
    IN  /\ unwatch({fd \in DOMAIN table : table[fd] = <<"reopen", x>>} \cup own, own)
        /\ port' = [port EXCEPT ![x].fd = NoFd, ![x].dispatcher = FALSE]

\* BleTransport::stop() joins the client first, see BleClient.
StopBattery ==
    /\ main = "stop" /\ todo # <<>>
    /\ LET t == Head(todo)
       IN  CASE t[1] = "uart" -> UartStop(t[2])
             [] t[1] = "ble"  ->
                   /\ unwatch({fd \in DOMAIN table : table[fd] = <<"queue", t[2]>>}, {})
                   /\ UNCHANGED port
             [] OTHER         -> UNCHANGED <<fdVars, port>>
    /\ todo' = Tail(todo)
    /\ UNCHANGED <<file, link, main, alive, batch, stopping, signal, http>>

Return ==
    /\ main = "stop" /\ todo = <<>>
    /\ main' = "return"
    /\ UNCHANGED <<file, link, todo, alive, fdVars, batch, stopping, port, signal, http>>

\* The destructors; those of stopped transports find nothing to do.
Destroy ==
    /\ main = "return" /\ alive # <<>>
    /\ alive' = Front(alive)
    /\ CASE Last(alive) = "inverter"   -> UartStop(0)
         [] Last(alive) = "dispatcher" -> unwatch(DOMAIN table, DOMAIN table) /\ UNCHANGED port
         [] OTHER                      -> UNCHANGED <<fdVars, port>>
    /\ main' = IF Len(alive) = 1 THEN "end" ELSE main
    /\ UNCHANGED <<file, link, todo, batch, stopping, signal, http>>

-----------------------------------------------------------------------------
(* The HTTP thread *)

\* event_base_dispatch() clears the flag when it begins.
HttpDispatch ==
    /\ http.thread = "starting"
    /\ http' = [http EXCEPT !.thread = "looping", !.broken = FALSE]
    /\ UNCHANGED <<file, link, main, todo, alive, fdVars, batch, stopping, port, signal>>

HttpEnds ==
    /\ http.thread = "looping" /\ http.broken
    /\ http' = [http EXCEPT !.thread = "ended"]
    /\ UNCHANGED <<file, link, main, todo, alive, fdVars, batch, stopping, port, signal>>

-----------------------------------------------------------------------------

Init ==
    /\ file \in Files
    /\ link \in {l \in [DOMAIN file.blocks -> BatteryLink \cup {"unknown"}] :
                   \A i \in DOMAIN l : l[i] \in links_from_str(file.blocks[i].type)}
    /\ main = "load" /\ todo = <<>> /\ alive = <<>>
    /\ table = <<>> /\ epoll = {} /\ handlers = <<>>
    /\ batch = {} /\ stopping = FALSE
    /\ port = [x \in Ports |-> [fd |-> NoFd, armed |-> FALSE, dispatcher |-> FALSE]]
    /\ signal = FALSE
    /\ http = [thread |-> "none", stopping |-> FALSE, broken |-> FALSE]

Main == \/ LoadConfig \/ Start \/ StartHttp \/ Dispatch \/ LeaveLoop
        \/ StopHttp \/ Join \/ StopBattery \/ Return \/ Destroy

Next == Main \/ epoll_wait \/ Signal \/ HttpDispatch \/ HttpEnds

Spec == Init /\ [][Next]_vars

\* Threads run; epoll_wait() puts a descriptor it returned behind the others, so
\* that a pending signal is not passed over for ever.
FairSpec ==
    /\ Spec
    /\ WF_vars(Main) /\ WF_vars(HttpDispatch) /\ WF_vars(HttpEnds)
    /\ SF_vars(epoll_wait /\ \E fd \in batch' : table[fd] = Signalfd)

-----------------------------------------------------------------------------
(* Properties *)

\* Whatever epoll reports reaches its owner: a descriptor in the epoll set has the
\* handler of what it is open for, also after its number was given out again
\* (emplace() would leave an old handler in place), and a port holds the
\* descriptor that is open for it.
HandlersAgree ==
    /\ \A fd \in epoll : fd \in DOMAIN table
    /\ \A fd \in epoll : table[fd] # Signalfd =>
            fd \in DOMAIN handlers /\ handlers[fd] = table[fd]
    /\ DOMAIN handlers \subseteq epoll
    /\ \A x \in DOMAIN port : port[x].fd # NoFd =>
            port[x].fd \in epoll /\ table[port[x].fd] = <<"port", x>>

\* No object of main() is used after its destruction: the loop runs and the HTTP
\* thread serves while all is there, a transport is detached before the Dispatcher
\* dies, and the Inverter dies before the batteries its slots point to.
UsersDieFirst ==
    /\ main = "run" => alive = Objects
    /\ http.thread \in {"starting", "looping"} => alive = Objects
    /\ (\E x \in DOMAIN port : port[x].dispatcher) => "dispatcher" \in Range(alive)
    /\ "inverter" \in Range(alive) => "batteries" \in Range(alive)

\* However often adapters come and go, and whatever number the next open() returns,
\* no descriptor is lost: the ones open for a port are the one it holds.  And no port
\* is lost: while the loop runs, it is open or else its timer will try again
\* (close_fd(), try_open(), on_readable() and on_reopen_tick() of uart_transport.cpp).
PortsAreKept ==
    \A x \in DOMAIN port :
        /\ {fd \in DOMAIN table : table[fd] = <<"port", x>>} = {port[x].fd} \ {NoFd}
        /\ main \in {"run", "stop_http", "join"} => (port[x].fd = NoFd <=> port[x].armed)

\* A signal ends the process in an orderly way, with every thread joined: of every
\* thread, "Must poll stopping() and return when it becomes true" (thread.hpp).
ShutdownCompletes == signal ~> main \in {"end", "aborted"}
=============================================================================
