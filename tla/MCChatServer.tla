--------------------------- MODULE MCChatServer ---------------------------
(***************************************************************************)
(* Constants for TLC, and bounds that do not restrict what the server does *)
(* but how much the peers do.                                              *)
(***************************************************************************)
EXTENDS DocClaims, RoomRefinement

CONSTANTS c1, c2, c3, h0, h1, h2, h3

(* The peers are interchangeable; handles are not: Init chooses one.       *)
PeerSymmetry == Permutations(Conns)

TwoConns     == {c1, c2}
ThreeConns   == {c1, c2, c3}
ThreeHandles == {h0, h1, h2}
FourHandles  == {h0, h1, h2, h3}

OneRoom      == {"lobby"}
TwoRooms     == {"lobby", "den"}
OneName      == {"ann"}
TwoNames     == {"ann", "bob"}

NoEnding      == {}
AnyEnding     == {"fin", "rst"}
OnlyClose     == {"fin"}

One   == [c \in Conns |-> 1]
Two   == [c \in Conns |-> 2]
Three == [c \in Conns |-> 3]

JoinOnly  == [c \in Conns |-> {"JOIN"}]
LoginOnly == [c \in Conns |-> {"LOGIN"}]
JoinSend  == [c \in Conns |-> {"JOIN", "SEND"}]
LoginJoin == [c \in Conns |-> {"LOGIN", "JOIN"}]
AnyRoom   == [c \in Conns |-> {"JOIN", "LEAVE", "SEND"}]

(* c1 listens, c2 talks.                                                   *)
ListenAndTalk  == [c \in Conns |-> IF c = c1 THEN {"JOIN"} ELSE {"LOGIN", "SEND"}]
OneAndThree    == [c \in Conns |-> IF c = c1 THEN 1 ELSE 3]
MoveAndSend    == [c \in Conns |-> IF c = c1 THEN {"JOIN", "LEAVE"} ELSE {"SEND"}]
ThreeAndOne    == [c \in Conns |-> IF c = c1 THEN 3 ELSE 1]
RoomAndAny     == [c \in Conns |-> IF c = c1 THEN {"JOIN", "LEAVE"} ELSE {"LOGIN", "JOIN", "LEAVE", "SEND"}]
=============================================================================
