--------------------------- MODULE MCAuthServer ---------------------------
(***************************************************************************)
(* Constants for TLC.  Addresses and passwords are interchangeable.        *)
(***************************************************************************)
EXTENDS AuthServer

CONSTANTS s1, s2, ann, bob, x, y

TwoConns     == {s1, s2}
TwoEmails    == {ann, bob}
TwoPasswords == {x, y}
TwoAndNone   == [c \in Conns |-> IF c = s1 THEN 2 ELSE 0]
FinAndAny    == [c \in Conns |-> IF c = s1 THEN {"fin"} ELSE {"fin", "rst"}]
=============================================================================
