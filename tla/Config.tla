------------------------------- MODULE Config --------------------------------
(***************************************************************************)
(* load_config() (config.cpp): which configuration files the bridge accepts. *)
(*                                                                         *)
(* A file is [uart, blocks]; a block is [name, type, address, capacity,    *)
(* protocol, pylontech_address, mirror], in the order of the file.  A      *)
(* string is the empty string where the option is missing or empty, which  *)
(* the code does not tell apart except for `type', a missing one of which  *)
(* is "".  Options that only carry a number elsewhere are left out.        *)
(***************************************************************************)
EXTENDS Integers, Sequences

BatteryLink == {"bluetooth", "ttl", "reserve"}

\* A missing type leaves BatteryConfig::link uninitialised.
links_from_str(type) ==
    IF type \in BatteryLink THEN {type} ELSE BatteryLink \cup {"unknown"}

is_supported_protocol(p) == p \in {"jk_bt", "pylontech"}

monitored(link) == link \in {"bluetooth", "ttl"}

\* The validations of libconfuse: an option is validated where it is given, a
\* block when it ends.
vf_type(b)     == b.type # "" => b.type \in BatteryLink
vf_protocol(b) == b.protocol # "" => is_supported_protocol(b.protocol)
vf_battery(b)  ==
    /\ b.protocol = "pylontech" => b.pylontech_address \in 1..16
    /\ b.type = "reserve" => b.mirror # ""

IsComplete(b, link) ==
    /\ b.name # "" /\ b.address # ""
    /\ IF monitored(link) THEN b.protocol # "" ELSE b.capacity > 0

Battery(blocks, name) == {i \in DOMAIN blocks : blocks[i].name = name}

MirrorsMonitored(blocks, link) ==
    \A i \in DOMAIN blocks :
        ~monitored(link[i]) =>
            \E j \in Battery(blocks, blocks[i].mirror) : monitored(link[j])

\* load_config() returns true; `link' is what it makes of the types.
load_config(file, link) ==
    LET blocks == file.blocks
    IN  /\ \A i \in DOMAIN blocks :
              vf_type(blocks[i]) /\ vf_protocol(blocks[i]) /\ vf_battery(blocks[i])
        /\ file.uart # "" /\ blocks # <<>>
        /\ \A i, j \in DOMAIN blocks : blocks[i].name = blocks[j].name => i = j
        /\ \A i \in DOMAIN blocks : IsComplete(blocks[i], link[i])
        /\ MirrorsMonitored(blocks, link)

\* The transport Battery::start() makes for an accepted block.
Transport(b, link) ==
    CASE link = "bluetooth" /\ b.protocol = "jk_bt"     -> "ble"
      [] link = "ttl"       /\ b.protocol = "pylontech" -> "uart"
      [] OTHER                                          -> "none"
=============================================================================
