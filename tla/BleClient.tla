------------------------------ MODULE BleClient ------------------------------
(***************************************************************************)
(* The BLE side of the bridge: one management thread per Bluetooth battery *)
(* (ble_client.cpp) and the process-wide BleScanCoordinator that           *)
(* serialises their scan + connect phases (ble_scan_coordinator.cpp).      *)
(*                                                                         *)
(* A handler of a BleClient runs on the client's own thread, but it calls  *)
(* into the coordinator (a mutex) and into SimpleBLE (whose callbacks run  *)
(* on other threads), so a handler is cut at those calls and `pc' says     *)
(* which call comes next.  Everything between two cuts touches only the    *)
(* thread's own fields and is one step.  state_ is read by its own thread  *)
(* only.                                                                   *)
(***************************************************************************)
EXTENDS Integers, Sequences, FiniteSets

CONSTANTS
    Clients,    \* the BleClient objects, one per battery with [ble] settings
    None,       \* "no client": a null holder_, an empty grant
    Faults      \* which of AllFaults the environment may inject

\* stop:    the process is told to terminate while the clients run;
\* throw:   SimpleBLE's services() throws out of connect_to_peripheral();
\* late:    work_event_ is signalled late or by a failing write_command();
\* drop:    the link may drop before the client has settled in Online;
\* adapter: there is no adapter at a probe, or scan_start() throws.
AllFaults == {"stop", "throw", "late", "drop", "adapter"}

ASSUME NoneAssumption   == None \notin Clients
ASSUME FaultsAssumption == Faults \subseteq AllFaults

States == {"WaitAdapter", "WaitSlot", "Scan", "Connect", "Online",
           "Backoff", "Stopping"}

\* What the thread executes next: a call inside enter(), the epoll loop, or
\* nothing any more (run() returned, or an exception ended the thread).
PCs == {"probe", "request", "scan", "connect", "subscribe", "release",
        "settle", "loop", "done", "dead"}

Kinds == {"stop", "work", "slot", "timer"}      \* the four watched fds

VARIABLES
    holder,     \* BleScanCoordinator::holder_
    waiters,    \* BleScanCoordinator::waiters_, oldest first
    grant,      \* grant[c]: the callback c's thread still has to invoke after
                \* it left the coordinator's mutex (None: nothing to invoke)
    state,      \* state_
    pc,
    batch,      \* fds epoll_wait() returned and the loop has not handled yet
    events,     \* signalled eventfds: stop_event_, work_event_, slot_event_
    timer,      \* timer_: "off", "armed" or "expired" (readable)
    adapter,    \* adapter_ holds an adapter
    scanning,   \* the discovery this client started is running
    match,      \* scan_match_ holds the battery's peripheral
    link,       \* peripheral_: "none", "idle" (found), "up" or "down"
    told        \* the last connection event pushed to the BmsEventQueue

coordVars == <<holder, waiters, grant>>
radioVars == <<adapter, scanning, match, link>>
vars == <<coordVars, state, pc, batch, events, timer, radioVars, told>>

-----------------------------------------------------------------------------
(* Small helpers *)

Update(f, c, v) == [f EXCEPT ![c] = v]

Signal(c, k)  == events' = Update(events, c, events[c] \cup {k})
Consume(c, k) == events' = Update(events, c, events[c] \ {k})

Ready(c) == events[c] \cup (IF timer[c] = "expired" THEN {"timer"} ELSE {})

Within(s, c) == \E i \in DOMAIN s : s[i] = c

\* Faulty variant of Erase: the front leaves, whoever asked.
EraseFront(s, c) == IF s = <<>> THEN s ELSE Tail(s)

\* The coordinator's waiters_ without the entry of owner c.
Erase(s, c) ==
    IF Within(s, c)
      THEN LET k == CHOOSE i \in DOMAIN s : s[i] = c
           IN  [i \in 1..(Len(s) - 1) |-> IF i < k THEN s[i] ELSE s[i + 1]]
      ELSE s

Queued(c) == Within(waiters, c)

\* stop() was called on c: its event is signalled or has been handled.
StopRequested(c) == "stop" \in events[c] \/ state[c] = "Stopping"

Terminated(c) == pc[c] \in {"done", "dead"}

Init ==
    /\ holder = None
    /\ waiters = <<>>
    /\ grant = [c \in Clients |-> None]
    /\ state = [c \in Clients |-> "WaitAdapter"]
    /\ pc = [c \in Clients |-> "probe"]
    /\ batch = [c \in Clients |-> {}]
    /\ events = [c \in Clients |-> {}]
    /\ timer = [c \in Clients |-> "off"]
    /\ adapter = [c \in Clients |-> FALSE]
    /\ scanning = [c \in Clients |-> FALSE]
    /\ match = [c \in Clients |-> FALSE]
    /\ link = [c \in Clients |-> "none"]
    /\ told = [c \in Clients |-> "Disconnected"]

-----------------------------------------------------------------------------
(* enter(): the calls a state makes, in order *)

\* enter(WaitAdapter): probe_adapter() finds an adapter and the client goes on
\* to WaitSlot, or it finds none and the poll timer is armed.
ProbeAdapter(c) ==
    /\ pc[c] = "probe"
    /\ \/ /\ adapter' = Update(adapter, c, TRUE)
          /\ state' = Update(state, c, "WaitSlot")
          /\ pc' = Update(pc, c, "request")
          /\ UNCHANGED timer
       \/ /\ "adapter" \in Faults
          /\ timer' = Update(timer, c, "armed")
          /\ pc' = Update(pc, c, "loop")
          /\ UNCHANGED <<adapter, state>>
    /\ UNCHANGED <<coordVars, batch, events, scanning, match, link,
                   told>>

\* Faulty variant of RequestSlot: the slot is granted without looking whether
\* it is taken.
RequestSlotUnchecked(c) ==
    /\ pc[c] = "request"
    /\ holder' = c
    /\ grant' = Update(grant, c, c)
    /\ pc' = Update(pc, c, "settle")
    /\ UNCHANGED <<waiters, state, batch, events, timer, radioVars, told>>

\* enter(WaitSlot): the locked part of BleScanCoordinator::request().
RequestSlot(c) ==
    /\ pc[c] = "request"
    /\ IF holder \in {c, None}
         THEN /\ holder' = c
              /\ grant' = Update(grant, c, c)
              /\ UNCHANGED waiters
         ELSE /\ waiters' = IF Queued(c) THEN waiters ELSE Append(waiters, c)
              /\ UNCHANGED <<holder, grant>>
    /\ pc' = Update(pc, c, "settle")
    /\ UNCHANGED <<state, batch, events, timer, radioVars, told>>

\* Faulty variant of StartScan: the discovery starts without its time-out.
StartScanUntimed(c) ==
    /\ pc[c] = "scan"
    /\ Consume(c, "work")
    /\ match' = Update(match, c, FALSE)
    /\ scanning' = Update(scanning, c, TRUE)
    /\ pc' = Update(pc, c, "loop")
    /\ UNCHANGED <<coordVars, state, batch, timer, adapter, link, told>>

\* enter(Scan): work_event_ is drained, then start_scan() clears scan_match_,
\* installs its callback and starts the discovery.  A scan_start() that throws
\* drops the adapter, and enter(Backoff) follows.
StartScan(c) ==
    /\ pc[c] = "scan"
    /\ Consume(c, "work")
    /\ match' = Update(match, c, FALSE)
    /\ \/ /\ scanning' = Update(scanning, c, TRUE)
          /\ timer' = Update(timer, c, "armed")
          /\ pc' = Update(pc, c, "loop")
          /\ UNCHANGED <<adapter, state>>
       \/ /\ "adapter" \in Faults
          /\ adapter' = Update(adapter, c, FALSE)
          /\ state' = Update(state, c, "Backoff")
          /\ pc' = Update(pc, c, "release")
          /\ UNCHANGED <<scanning, timer>>
    /\ UNCHANGED <<coordVars, batch, link, told>>

\* enter(Connect), first half: the timer is off, the disconnect callback is
\* set and the blocking connect() returns connected, or fails and the
\* peripheral is dropped.
Connect(c) ==
    /\ pc[c] = "connect"
    /\ timer' = Update(timer, c, "off")
    /\ \/ /\ link' = Update(link, c, "up")
          /\ pc' = Update(pc, c, "subscribe")
          /\ UNCHANGED state
       \/ /\ link' = Update(link, c, "none")
          /\ state' = Update(state, c, "Backoff")
          /\ pc' = Update(pc, c, "release")
    /\ UNCHANGED <<coordVars, batch, events, adapter, scanning, match,
                   told>>

\* enter(Connect), second half, subscription succeeds: Connected is pushed and
\* enter(Online) begins.  A link that dropped meanwhile cannot be subscribed.
Subscribed(c) ==
    /\ pc[c] = "subscribe"
    /\ link[c] = "up"
    /\ told' = Update(told, c, "Connected")
    /\ state' = Update(state, c, "Online")
    /\ pc' = Update(pc, c, "release")
    /\ UNCHANGED <<coordVars, batch, events, timer, radioVars>>

\* enter(Connect), second half, is_connected() is false or notify() throws.
SubscribeFailed(c) ==
    /\ pc[c] = "subscribe"
    /\ link' = Update(link, c, "none")
    /\ state' = Update(state, c, "Backoff")
    /\ pc' = Update(pc, c, "release")
    /\ UNCHANGED <<coordVars, batch, events, timer, adapter, scanning, match,
                   told>>

\* services() throws: nothing between connect_to_peripheral() and
\* Thread::start() catches it, so the thread ends where it stands.
ServicesThrow(c) ==
    /\ "throw" \in Faults
    /\ pc[c] = "subscribe"
    /\ pc' = Update(pc, c, "dead")
    /\ UNCHANGED <<coordVars, state, batch, events, timer, radioVars, told>>

\* Faulty variants of ReleaseSlot: the youngest waiter is served first; the
\* served waiter stays in line; anybody's release() frees the slot.
ReleaseSlotLifo(c) ==
    /\ pc[c] = "release"
    /\ IF holder = c /\ waiters # <<>>
         THEN LET n == Len(waiters)
              IN  /\ holder' = waiters[n]
                  /\ waiters' = SubSeq(waiters, 1, n - 1)
                  /\ grant' = Update(grant, c, waiters[n])
         ELSE /\ holder' = IF holder = c THEN None ELSE holder
              /\ UNCHANGED <<waiters, grant>>
    /\ pc' = Update(pc, c, "settle")
    /\ UNCHANGED <<state, batch, events, timer, radioVars, told>>

ReleaseSlotNoPop(c) ==
    /\ pc[c] = "release"
    /\ IF holder = c /\ waiters # <<>>
         THEN /\ holder' = Head(waiters)
              /\ grant' = Update(grant, c, Head(waiters))
         ELSE /\ holder' = IF holder = c THEN None ELSE holder
              /\ UNCHANGED grant
    /\ pc' = Update(pc, c, "settle")
    /\ UNCHANGED <<waiters, state, batch, events, timer, radioVars, told>>

ReleaseSlotByAnyone(c) ==
    /\ pc[c] = "release"
    /\ IF waiters = <<>>
         THEN /\ holder' = None
              /\ UNCHANGED <<waiters, grant>>
         ELSE /\ holder' = Head(waiters)
              /\ waiters' = Tail(waiters)
              /\ grant' = Update(grant, c, Head(waiters))
    /\ pc' = Update(pc, c, "settle")
    /\ UNCHANGED <<state, batch, events, timer, radioVars, told>>

\* enter(Online), enter(Backoff), on_stop_event(): the locked part of
\* BleScanCoordinator::release().
ReleaseSlot(c) ==
    /\ pc[c] = "release"
    /\ IF holder = c
         THEN IF waiters = <<>>
                THEN /\ holder' = None
                     /\ UNCHANGED <<waiters, grant>>
                ELSE /\ holder' = Head(waiters)
                     /\ waiters' = Tail(waiters)
                     /\ grant' = Update(grant, c, Head(waiters))
         ELSE /\ waiters' = Erase(waiters, c)
              /\ UNCHANGED <<holder, grant>>
    /\ pc' = Update(pc, c, "settle")
    /\ UNCHANGED <<state, batch, events, timer, radioVars, told>>

\* Faulty variants of Settle: the grant callback is never called; a stopped
\* loop goes on.
SettleUngranted(c) ==
    /\ pc[c] = "settle"
    /\ events' = IF state[c] = "Online"
                   THEN Update(events, c, events[c] \ {"work"}) ELSE events
    /\ grant' = Update(grant, c, None)
    /\ timer' = IF state[c] = "Backoff" THEN Update(timer, c, "armed") ELSE timer
    /\ pc' = Update(pc, c, IF state[c] = "Stopping" THEN "done" ELSE "loop")
    /\ UNCHANGED <<holder, waiters, state, batch, radioVars, told>>

SettleUnstopped(c) ==
    /\ pc[c] = "settle"
    /\ events' = [d \in Clients |->
                    (events[d] \cup (IF grant[c] = d THEN {"slot"} ELSE {}))
                    \ (IF d = c /\ state[c] = "Online" THEN {"work"} ELSE {})]
    /\ grant' = Update(grant, c, None)
    /\ timer' = IF state[c] = "Backoff" THEN Update(timer, c, "armed") ELSE timer
    /\ pc' = Update(pc, c, "loop")
    /\ UNCHANGED <<holder, waiters, state, batch, radioVars, told>>

\* The rest of enter() once the mutex is free: the grant callback signals its
\* owner's slot_event_, then Online drains work_event_, Backoff arms the timer
\* and a stopped loop ends.
Settle(c) ==
    /\ pc[c] = "settle"
    /\ events' = [d \in Clients |->
                    (events[d] \cup (IF grant[c] = d THEN {"slot"} ELSE {}))
                    \ (IF d = c /\ state[c] = "Online" THEN {"work"} ELSE {})]
    /\ grant' = Update(grant, c, None)
    /\ timer' = IF state[c] = "Backoff" THEN Update(timer, c, "armed") ELSE timer
    /\ pc' = Update(pc, c, IF state[c] = "Stopping" THEN "done" ELSE "loop")
    /\ UNCHANGED <<holder, waiters, state, batch, radioVars, told>>

-----------------------------------------------------------------------------
(* run(): the epoll loop and its handlers *)

\* The loop takes the next fd of its batch, consumes it and calls the handler.
\* When the batch is used up, epoll_wait() fetches every fd that is ready now,
\* in an order the loop does not control; an empty one blocks.
Take(c, k) ==
    /\ pc[c] = "loop"
    /\ LET b == IF batch[c] = {} THEN Ready(c) ELSE batch[c]
       IN  /\ k \in b
           /\ batch' = Update(batch, c, IF k = "stop" THEN {} ELSE b \ {k})

\* on_stop_event(): tears the link down and leaves the coordinator.  A running
\* discovery is left running.
OnStopEvent(c) ==
    /\ Take(c, "stop")
    /\ Consume(c, "stop")
    /\ link' = Update(link, c, "none")
    /\ state' = Update(state, c, "Stopping")
    /\ pc' = Update(pc, c, "release")
    /\ UNCHANGED <<coordVars, timer, adapter, scanning, match, told>>

\* on_work_event() in Scan with a match: the scan ends and enter(Connect)
\* begins.
OnMatch(c) ==
    /\ Take(c, "work")
    /\ Consume(c, "work")
    /\ state[c] = "Scan"
    /\ match[c]
    /\ match' = Update(match, c, FALSE)
    /\ timer' = Update(timer, c, "off")
    /\ scanning' = Update(scanning, c, FALSE)
    /\ link' = Update(link, c, "idle")
    /\ state' = Update(state, c, "Connect")
    /\ pc' = Update(pc, c, "connect")
    /\ UNCHANGED <<coordVars, adapter, told>>

\* Faulty variant of OnLinkLost: Disconnected is not pushed.
OnLinkLostSilently(c) ==
    /\ Take(c, "work")
    /\ Consume(c, "work")
    /\ state[c] = "Online"
    /\ link' = Update(link, c, "none")
    /\ state' = Update(state, c, "Backoff")
    /\ pc' = Update(pc, c, "release")
    /\ UNCHANGED <<coordVars, timer, adapter, scanning, match, told>>

\* on_work_event() in Online: the link is lost (or a write failed).
OnLinkLost(c) ==
    /\ Take(c, "work")
    /\ Consume(c, "work")
    /\ state[c] = "Online"
    /\ told' = Update(told, c, "Disconnected")
    /\ link' = Update(link, c, "none")
    /\ state' = Update(state, c, "Backoff")
    /\ pc' = Update(pc, c, "release")
    /\ UNCHANGED <<coordVars, timer, adapter, scanning, match>>

\* on_work_event() otherwise: nothing to do.
OnIdleWork(c) ==
    /\ Take(c, "work")
    /\ Consume(c, "work")
    /\ state[c] # "Online"
    /\ ~(state[c] = "Scan" /\ match[c])
    /\ UNCHANGED <<coordVars, state, pc, timer, radioVars, told>>

\* Faulty variant of OnTimerExpired: a scan that times out backs off without
\* release_slot().
OnTimerExpiredKeepsSlot(c) ==
    /\ Take(c, "timer")
    /\ timer' = Update(timer, c, IF state[c] = "Scan" THEN "armed" ELSE "off")
    /\ scanning' = Update(scanning, c, FALSE)
    /\ state' = Update(state, c,
                       CASE state[c] = "Scan" -> "Backoff"
                         [] state[c] = "Backoff" -> "WaitSlot"
                         [] OTHER -> state[c])
    /\ pc' = Update(pc, c,
                    CASE state[c] = "WaitAdapter" -> "probe"
                      [] state[c] = "Backoff" -> "request"
                      [] OTHER -> "loop")
    /\ UNCHANGED <<coordVars, events, adapter, match, link, told>>

\* on_slot_event(): the slot is ours, enter(Scan); in any other state ignored.
OnSlotEvent(c) ==
    /\ Take(c, "slot")
    /\ Consume(c, "slot")
    /\ IF state[c] = "WaitSlot"
         THEN /\ state' = Update(state, c, "Scan")
              /\ pc' = Update(pc, c, "scan")
         ELSE UNCHANGED <<state, pc>>
    /\ UNCHANGED <<coordVars, timer, radioVars, told>>

\* on_timer_expired().  The handler runs because the fd was in the batch; an
\* earlier handler of the same batch may have re-armed or disarmed the timer,
\* and then the read finds nothing to consume.
OnTimerExpired(c) ==
    /\ Take(c, "timer")
    /\ timer' = IF timer[c] = "expired" THEN Update(timer, c, "off") ELSE timer
    /\ \/ /\ state[c] = "WaitAdapter"
          /\ pc' = Update(pc, c, "probe")
          /\ UNCHANGED <<state, scanning>>
       \/ /\ state[c] = "Scan"
          /\ scanning' = Update(scanning, c, FALSE)
          /\ state' = Update(state, c, "Backoff")
          /\ pc' = Update(pc, c, "release")
       \/ /\ state[c] = "Backoff"
          /\ adapter[c]
          /\ state' = Update(state, c, "WaitSlot")
          /\ pc' = Update(pc, c, "request")
          /\ UNCHANGED scanning
       \/ /\ state[c] = "Backoff"
          /\ ~adapter[c]
          /\ state' = Update(state, c, "WaitAdapter")
          /\ pc' = Update(pc, c, "probe")
          /\ UNCHANGED scanning
       \/ /\ state[c] \notin {"WaitAdapter", "Scan", "Backoff"}
          /\ UNCHANGED <<state, pc, scanning>>
    /\ UNCHANGED <<coordVars, events, adapter, match, link, told>>

-----------------------------------------------------------------------------
(* The other threads *)

\* The kernel: an armed timer expires.
TimerFires(c) ==
    /\ timer[c] = "armed"
    /\ timer' = Update(timer, c, "expired")
    /\ UNCHANGED <<coordVars, state, pc, batch, events, radioVars, told>>

\* The scan-found callback stores the battery's peripheral under match_mtx_ and
\* signals work_event_.
ScanFound(c) ==
    /\ scanning[c]
    /\ ~match[c]
    /\ match' = Update(match, c, TRUE)
    /\ Signal(c, "work")
    /\ UNCHANGED <<coordVars, state, pc, batch, timer, adapter, scanning, link,
                   told>>

\* Faulty variant of LinkDrops: no disconnect callback was installed.
LinkDropsUnnoticed(c) ==
    /\ link[c] = "up"
    /\ "drop" \in Faults \/ (state[c] = "Online" /\ pc[c] = "loop")
    /\ link' = Update(link, c, "down")
    /\ UNCHANGED <<coordVars, state, pc, batch, events, timer, adapter, scanning,
                   match, told>>

\* The remote side or the radio drops the link and the disconnect callback
\* signals work_event_.
LinkDrops(c) ==
    /\ link[c] = "up"
    /\ "drop" \in Faults \/ (state[c] = "Online" /\ pc[c] = "loop")
    /\ link' = Update(link, c, "down")
    /\ Signal(c, "work")
    /\ UNCHANGED <<coordVars, state, pc, batch, timer, adapter, scanning, match,
                   told>>

\* send(), on the dispatcher thread: the link is up but write_command() throws,
\* which asks for a reconnect.  (A send that is refused or succeeds changes
\* nothing here.)
WriteThrows(c) ==
    /\ "late" \in Faults
    /\ \A d \in Clients : ~StopRequested(d)
    /\ link[c] = "up"
    /\ Signal(c, "work")
    /\ UNCHANGED <<coordVars, state, pc, batch, timer, radioVars, told>>

\* A signal of another thread that arrives after what it was about: the
\* scan-found callback signals after it unlocked match_mtx_, the disconnect
\* callback also runs for a link the client itself closed, and send() checks
\* the link and writes in two unsynchronised steps.
LateSignal(c) ==
    /\ "late" \in Faults
    /\ ~Terminated(c)
    /\ Signal(c, "work")
    /\ UNCHANGED <<coordVars, state, pc, batch, timer, radioVars, told>>

\* Thread::stop(), called by main() for one battery after the other: the next
\* call is made when the previous one has joined its thread.
Stop(c) ==
    /\ "stop" \in Faults
    /\ ~StopRequested(c)
    /\ \A d \in Clients : StopRequested(d) => Terminated(d)
    /\ Signal(c, "stop")
    /\ UNCHANGED <<coordVars, state, pc, batch, timer, radioVars, told>>

-----------------------------------------------------------------------------

Enter(c) ==
    \/ ProbeAdapter(c) \/ RequestSlot(c) \/ StartScan(c) \/ Connect(c)
    \/ Subscribed(c) \/ SubscribeFailed(c) \/ ServicesThrow(c)
    \/ ReleaseSlot(c) \/ Settle(c)

Handle(c) ==
    \/ OnStopEvent(c) \/ OnMatch(c) \/ OnLinkLost(c) \/ OnIdleWork(c)
    \/ OnSlotEvent(c) \/ OnTimerExpired(c)

ThreadStep(c) == Enter(c) \/ Handle(c)

EnvironmentStep(c) ==
    \/ TimerFires(c) \/ ScanFound(c) \/ LinkDrops(c)
    \/ WriteThrows(c) \/ LateSignal(c) \/ Stop(c)

Next == \E c \in Clients : ThreadStep(c) \/ EnvironmentStep(c)

Spec == Init /\ [][Next]_vars

\* Every thread keeps running and armed timers expire.  Nothing makes a battery
\* be found or a link hold.
Fairness ==
    \A c \in Clients :
        /\ WF_vars(ThreadStep(c))
        /\ WF_vars(TimerFires(c))

FairSpec == Spec /\ Fairness

-----------------------------------------------------------------------------
(* Properties *)

\* Every variable has its type.
TypeOK ==
    /\ holder \in Clients \cup {None}
    /\ waiters \in Seq(Clients)
    /\ grant \in [Clients -> Clients \cup {None}]
    /\ state \in [Clients -> States]
    /\ pc \in [Clients -> PCs]
    /\ batch \in [Clients -> SUBSET Kinds]
    /\ events \in [Clients -> SUBSET {"stop", "work", "slot"}]
    /\ timer \in [Clients -> {"off", "armed", "expired"}]
    /\ adapter \in [Clients -> BOOLEAN]
    /\ scanning \in [Clients -> BOOLEAN]
    /\ match \in [Clients -> BOOLEAN]
    /\ link \in [Clients -> {"none", "idle", "up", "down"}]
    /\ told \in [Clients -> {"Connected", "Disconnected"}]

\* The client uses the shared adapter: its discovery runs, or its thread is
\* inside connect_to_peripheral().
Active(c) == scanning[c] \/ pc[c] \in {"connect", "subscribe"}

\* No two clients scan or connect at once ("only one owner may scan/connect at
\* a time", ble_scan_coordinator.hpp).
RadioExclusive ==
    \A c, d \in Clients : Active(c) /\ Active(d) => c = d

\* The same among the clients whose thread has not been told to stop.
RunningRadioExclusive ==
    \A c, d \in Clients :
        /\ Active(c) /\ state[c] # "Stopping"
        /\ Active(d) /\ state[d] # "Stopping"
        => c = d

\* A grant under way to c: recorded by some thread that has left the mutex and
\* not yet called the callback, or already signalled.
GrantUnderWay(c) ==
    \/ "slot" \in events[c]
    \/ \E d \in Clients : grant[d] = c

\* The slot is never lost: whoever is registered as its holder is waiting with
\* the grant on its way, is using it, is about to give it back, or died inside
\* connect_to_peripheral().  Clients that hold nothing are never the holder.
SlotNeverLost ==
    \A c \in Clients : holder = c =>
        \/ state[c] = "WaitSlot" /\ GrantUnderWay(c)
        \/ state[c] \in {"Scan", "Connect"}
        \/ pc[c] = "release"

\* A client in WaitSlot is known to the coordinator, as holder or as waiter, as
\* soon as request() has run, and then it is not both.
WaitingIsRegistered ==
    \A c \in Clients :
        state[c] = "WaitSlot" /\ pc[c] # "request" =>
            (holder = c <=> ~Queued(c))

\* The bridge hears Connected exactly while the client is in Online: what the
\* BmsEventQueue was told last agrees with the state the client is in.
ToldAgrees ==
    \A c \in Clients : state[c] # "Stopping" =>
        (told[c] = "Connected" <=> state[c] = "Online")

\* A running discovery always has its time-out pending: armed, or expired and
\* not yet handled.  Without it a battery that is out of range would keep the
\* slot for ever.
ScanHasTimeout ==
    \A c \in Clients : state[c] = "Scan" /\ pc[c] = "loop" =>
        scanning[c] /\ (timer[c] # "off" \/ "timer" \in batch[c])

\* A link lost while the client is settled in Online leaves a signal that the
\* loop will see.
LossIsNoticed ==
    \A c \in Clients :
        state[c] = "Online" /\ pc[c] = "loop" /\ link[c] = "down" =>
            "work" \in events[c]

\* The slot goes from a holder only by its own release(), and then to the head
\* of the line.
FifoHandover ==
    [][ \A c \in Clients : holder # c /\ holder' = c =>
            \/ holder = None /\ waiters = <<>>
            \/ waiters # <<>> /\ c = Head(waiters) ]_vars

\* Whoever waits for the slot gets it (or is stopped): every discovery times
\* out and every holder releases.
SlotIsGranted ==
    \A c \in Clients : state[c] = "WaitSlot" ~> state[c] # "WaitSlot"

\* The same, unless a thread died with an exception.
SlotIsGrantedUnlessDead ==
    \A c \in Clients :
        state[c] = "WaitSlot" ~>
            state[c] # "WaitSlot" \/ \E d \in Clients : pc[d] = "dead"

\* A client never sits in Online with a dead link: it notices, reports
\* Disconnected and goes to back off.
LinkLossIsHandled ==
    \A c \in Clients :
        (state[c] = "Online" /\ link[c] = "down") ~> state[c] # "Online"

\* stop() returns: after stop_event_ is signalled the thread ends, so the join
\* in Thread::stop() does.
StopCompletes ==
    \A c \in Clients : "stop" \in events[c] ~> Terminated(c)

-----------------------------------------------------------------------------
(* The inductive invariant behind the safety properties *)

\* Where a client's thread can stand in each state.
StageInv ==
    \A c \in Clients :
        /\ pc[c] = "probe" => state[c] = "WaitAdapter"
        /\ pc[c] = "request" => state[c] = "WaitSlot"
        /\ pc[c] = "scan" => state[c] = "Scan"
        /\ pc[c] \in {"connect", "subscribe", "dead"} => state[c] = "Connect"
        /\ pc[c] = "release" => state[c] \in {"Online", "Backoff", "Stopping"}
        /\ pc[c] = "settle" =>
               state[c] \in {"WaitSlot", "Online", "Backoff", "Stopping"}
        /\ pc[c] = "loop" => state[c] \notin {"Connect", "Stopping"}
        /\ pc[c] = "done" => state[c] = "Stopping"

\* A running discovery belongs to a client in Scan, or to a stopped one.
ScanInv ==
    \A c \in Clients : scanning[c] =>
        \/ state[c] = "Scan" /\ pc[c] = "loop"
        \/ state[c] = "Stopping"

\* Using the radio takes the slot, and only a client past request() has it.
HolderInv ==
    \A c \in Clients :
        /\ state[c] \in {"Scan", "Connect"} => holder = c
        /\ holder = c => \/ state[c] = "WaitSlot" /\ pc[c] # "request"
                         \/ state[c] \in {"Scan", "Connect"}
                         \/ pc[c] = "release"

\* The slot is not free while somebody waits.  The line has no client twice; who
\* is in it waits and is not the holder, or was stopped while it waited and is
\* about to be erased.
LineInv ==
    /\ holder = None => waiters = <<>>
    /\ \A i, j \in DOMAIN waiters : waiters[i] = waiters[j] => i = j
    /\ \A c \in Clients : Queued(c) =>
           /\ holder # c
           /\ \/ state[c] = "WaitSlot" /\ pc[c] # "request"
              \/ state[c] = "Stopping" /\ pc[c] = "release"

\* A grant under way is meant for the holder, and there is only one.
GrantInv ==
    /\ \A d \in Clients : grant[d] # None => pc[d] = "settle"
    /\ \A c \in Clients : GrantUnderWay(c) /\ state[c] # "Stopping" =>
           state[c] = "WaitSlot" /\ pc[c] # "request" /\ holder = c
    /\ \A c, d \in Clients : grant[d] = c /\ state[c] # "Stopping" =>
           /\ "slot" \notin events[c]
           /\ \A e \in Clients : grant[e] = c => e = d

\* Only a client's own thread consumes its slot_event_ and stop_event_: a fd in
\* the batch is still signalled.
BatchInv ==
    \A c \in Clients : batch[c] \cap {"slot", "stop"} \subseteq events[c]

\* Nobody stops unless the environment stops somebody.
StopInv ==
    "stop" \notin Faults =>
        \A c \in Clients : state[c] # "Stopping" /\ "stop" \notin events[c]

IndInv ==
    /\ TypeOK
    /\ StageInv
    /\ ScanInv
    /\ HolderInv
    /\ LineInv
    /\ GrantInv
    /\ BatchInv
    /\ StopInv
    /\ SlotNeverLost
    /\ WaitingIsRegistered

-----------------------------------------------------------------------------

Slot == INSTANCE ScanSlot WITH
            owner <- holder, line <- waiters,
            active <- {c \in Clients : Active(c)}

\* The coordinator and its clients implement the abstract slot: an owner, a FIFO
\* line, and a radio that only the owner uses (ble_scan_coordinator.hpp).
SlotRefinement == Slot!SlotSpec
=============================================================================
