---------------------------- MODULE MCLifecycle -----------------------------
EXTENDS Lifecycle

Block(name, type, protocol, address, capacity, mirror) ==
    [name |-> name, type |-> type, protocol |-> protocol, capacity |-> capacity,
     address |-> "dev", pylontech_address |-> address, mirror |-> mirror]

File(blocks) == [uart |-> "/dev/ttyS0", blocks |-> blocks]

\* A first battery of each kind, with and without type, alone or before another.
First ==
    {Block("a", t, p, n, 0, "b") : t \in {"", "bluetooth", "ttl", "usb"},
                                   p \in {"", "jk_bt", "pylontech", "modbus"},
                                   n \in {0, 1}}
        \cup {Block("a", "reserve", "", 0, c, m) : c \in {0, 100}, m \in {"", "a", "b"}}

Second ==
    {Block("b", "ttl", "pylontech", 16, 0, ""), Block("b", "ttl", "pylontech", 17, 0, ""),
     Block("b", "reserve", "", 0, 100, "a"), Block("a", "bluetooth", "jk_bt", 0, 0, "")}

MCFiles ==
    {File(<<>>), [uart |-> "", blocks |-> <<Block("a", "bluetooth", "jk_bt", 0, 0, "")>>]}
        \cup {File(<<b>>) : b \in First}
        \cup {File(<<b, c>>) : b \in First, c \in Second}
=============================================================================
