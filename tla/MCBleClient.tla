----------------------------- MODULE MCBleClient -----------------------------
EXTENDS BleClient, TLC

\* The clients are interchangeable; used by the runs that check no liveness.
ClientSymmetry == Permutations(Clients)
=============================================================================
