--------------------------- MODULE RoomRefinement ---------------------------
(***************************************************************************)
(* The chat server implements the room service as long as nobody joins a   *)
(* room twice: addMember does not look, and the promise is broken then     *)
(* (see DocClaims).                                                        *)
(***************************************************************************)
EXTENDS ChatServer

(* The notices of JOIN and LEAVE, and what client c may send to room r under *)
(* name n: a text of its own, or none when the SEND arrived cut.           *)
Joined(n, r) == RecieveMessage("server", r, << "joined", n >>)
Left(n, r)   == RecieveMessage("server", r, << "left", n >>)
ClientPosts(c, n, r) ==
  {RecieveMessage(n, r, x) : x \in {<< >>} \union ({c} \X (1 .. MaxSends[c]))}

(* What else comes on a connection: the answer to a LOGIN and, on a number *)
(* that was once AuthClient's, a request that was meant for the auth       *)
(* server.                                                                 *)
LoginAsides ==
  [type : {"REPLY"}, name : Names, room : {""}, text : Replies]
    \union [type : {"REQUEST"}, name : Names, room : {""}, text : {<< >>}]

Service == INSTANCE RoomService WITH
  Clients <- Conns,
  Names   <- Names \union {""},
  JoinNotice  <- Joined,
  LeaveNotice <- Left,
  PostsOf <- ClientPosts,
  Asides  <- LoginAsides,
  online  <- Range(clientArray),
  called  <- name,
  members <- [r \in Rooms |-> Range(MembersOf(rooms, r))],
  log     <- outbound

(* The behaviours in which no client joins a room it is in.                *)
TidySpec == Init /\ [][Next /\ rejoined' = {}]_vars

(* Every step of main is a step of the service or leaves it unchanged: an  *)
(* entry of ClientArray and its pointers in the rooms go in one step, the  *)
(* notice of a JOIN reaches the joiner and that of a LEAVE does not and    *)
(* both have the name of the client whose membership changed, a post is    *)
(* sent to each member once.                                               *)
ImplementsRoomService == Service!ServiceSpec
=============================================================================
