---------------------------- MODULE MCTransport -----------------------------
(***************************************************************************)
(* Small instances of Transport.                                           *)
(***************************************************************************)
EXTENDS Transport

CONSTANTS q1, q2

OneCall == {q1}
TwoCalls == {q1, q2}
=============================================================================
