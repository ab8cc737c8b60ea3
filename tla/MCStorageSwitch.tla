--------------------------- MODULE MCStorageSwitch ---------------------------
(* Values of StorageSwitch's constants for TLC.                              *)
EXTENDS StorageSwitch

CONSTANTS db1, db2, risk, custom

TwoDatabases == {db1, db2}
TwoWorkloads == {risk, custom}
OneBuiltin == {risk}
SecondRefused == {2}
=============================================================================
