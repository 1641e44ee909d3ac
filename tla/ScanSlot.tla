------------------------------ MODULE ScanSlot -------------------------------
(***************************************************************************)
(* What BleScanCoordinator promises to the clients of the single Bluetooth *)
(* adapter: "only one owner may scan/connect at a time; the rest wait      *)
(* FIFO" (ble_scan_coordinator.hpp).  The slot has an owner, the others    *)
(* wait in line, and only the owner uses the radio.                        *)
(***************************************************************************)
EXTENDS Sequences

CONSTANTS Clients, None

VARIABLES
    owner,      \* the client the slot belongs to, or None
    line,       \* the clients waiting for it, oldest first
    active      \* the clients that scan or connect

slotVars == <<owner, line, active>>

SlotInit ==
    /\ owner = None
    /\ line = <<>>
    /\ active = {}

\* A free slot goes to the client that asks first.
Acquire(c) ==
    /\ owner = None
    /\ line = <<>>
    /\ owner' = c
    /\ UNCHANGED <<line, active>>

\* While the slot is taken, a client that asks joins the end of the line, once.
Join(c) ==
    /\ owner \notin {None, c}
    /\ \A i \in DOMAIN line : line[i] # c
    /\ line' = Append(line, c)
    /\ UNCHANGED <<owner, active>>

\* The owner starts, and later stops, using the radio.
Begin(c) ==
    /\ owner = c
    /\ active' = active \cup {c}
    /\ UNCHANGED <<owner, line>>

End(c) ==
    /\ owner = c
    /\ active' = active \ {c}
    /\ UNCHANGED <<owner, line>>

\* An owner that left the radio passes the slot to the head of the line.
Pass(c) ==
    /\ owner = c
    /\ c \notin active
    /\ IF line = <<>>
         THEN owner' = None /\ UNCHANGED line
         ELSE owner' = Head(line) /\ line' = Tail(line)
    /\ UNCHANGED active

SlotNext ==
    \E c \in Clients : Acquire(c) \/ Join(c) \/ Begin(c) \/ End(c) \/ Pass(c)

SlotSpec == SlotInit /\ [][SlotNext]_slotVars
=============================================================================
