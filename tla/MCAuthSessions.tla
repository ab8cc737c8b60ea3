--------------------------- MODULE MCAuthSessions ---------------------------
(***************************************************************************)
(* Two server processes over one database.                                 *)
(***************************************************************************)
EXTENDS AuthSessions, TLC

CONSTANTS p1, p2, e1, e2, e3, admin, operator

MCProcess == {p1, p2}
MCEmail == {e1, e2, e3}
MCRole == {admin, operator}
Symmetry == Permutations(MCProcess) \cup Permutations(MCEmail)
MCKeyExpiry == {1, Never}
=============================================================================
