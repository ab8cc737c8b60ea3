------------------------- MODULE MCOperationsLedger -------------------------
(* Values of OperationsLedger's constants for TLC.                          *)
EXTENDS OperationsLedger

CONSTANTS server, monitor1

OneProcess == {server}
OneMonitor == { monitor1 }
Decided == [m \in OneMonitor |-> "acknowledged"]
Switch == {TRUE}
SwitchSeed == TRUE
=============================================================================
