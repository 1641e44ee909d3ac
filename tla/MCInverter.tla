----------------------------- MODULE MCInverter ------------------------------
EXTENDS Inverter

\* A reserve of 100 Ah (addresses 2 and 3), listed before the battery of 314 Ah
\* that it mirrors (addresses 4 to 8), and a battery of 50 Ah (address 9).
MCConfig == << [capacity |-> 100, mirror |-> 2], [capacity |-> 314, mirror |-> 0],
               [capacity |-> 50, mirror |-> 0] >>

\* The batteries, the addresses around them, each command and an unknown one.
MCRequests ==
    { [adr |-> 1, cid2 |-> "analog"],  [adr |-> 3, cid2 |-> "analog"],
      [adr |-> 4, cid2 |-> "chgmgmt"], [adr |-> 8, cid2 |-> "alarm"],
      [adr |-> 8, cid2 |-> "unknown"], [adr |-> 9, cid2 |-> "system_param"],
      [adr |-> 10, cid2 |-> "analog"] }

\* Charging and discharging, as large as configured, smaller and larger.
MCPacks ==
    { [total |-> 314000, remaining |-> 100001, soc |-> 31, current |-> -149999],
      [total |-> 100,    remaining |-> 99,     soc |-> 99, current |-> 99],
      [total |-> 700000, remaining |-> 700000, soc |-> 100, current |-> 200000] }

MCLimits == { [charge |-> 200000, discharge |-> 499] }

\* A read cuts the line anywhere, or returns the end of a frame and one more, or
\* two frames, the second of them always the same.
MCChunks ==
    {<<s>> : s \in Symbols} \cup {<<s, t>> : s \in Symbols, t \in {SOI, EOI}}
        \cup {<<EOI, SOI, r, EOI, SOI>> : r \in Requests}
        \cup {<<SOI, r, EOI, SOI, [adr |-> 4, cid2 |-> "chgmgmt"], EOI>> : r \in Requests}

\* Of a frame beyond repair only the length matters to what follows; chunk and
\* heard only matter to the step that sets them.
LineView == <<portVars, Essence(rx), Len(rx), sent, state>>
=============================================================================
