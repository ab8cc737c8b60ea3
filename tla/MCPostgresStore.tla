--------------------------- MODULE MCPostgresStore ---------------------------
(* Values of PostgresStore's constants for TLC.                              *)
EXTENDS PostgresStore

CONSTANTS server1, server2, control1, control2, t1, t2, f1, f2

OneServer == {server1}
TwoServers == {server1, server2}
TwoControls == {control1, control2}
OneControl == {control1}
TwoTransactions == {t1, t2}
OneTransaction == {t1}
TwoFingerprints == {f1, f2}
=============================================================================
