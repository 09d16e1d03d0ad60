----------------------------- MODULE DocClaims -----------------------------
(***************************************************************************)
(* What the README and the comments say of the chat server, as properties. *)
(* Each one is refuted by a run: the code does something else.             *)
(***************************************************************************)
EXTENDS ChatServer

(* RoomManager.h, line 15: deleteMember takes a client out of all rooms.   *)
RemovedFromAllRooms ==
  \A r \in DOMAIN rooms : Range(rooms[r]) \subseteq Range(clientArray)

(* README, line 40: LEAVE makes the client stop getting messages.          *)
LeaveStopsMessages ==
  [][\A c \in Conns : \A r \in DOMAIN rooms :
       Occurrences(rooms', r, c) < Occurrences(rooms, r, c) => Occurrences(rooms', r, c) = 0]_vars

(* README, line 42: SEND is broadcast to the clients of the room.          *)
SendIsBroadcast ==
  [][\A a \in Conns : \A k \in 1 .. Len(inbound[a]) - Len(inbound'[a]) :
       LET m == inbound[a][k] IN
       m.type = "SEND" /\ link'[a] = link[a] =>
         \A c \in Range(MembersOf(rooms, m.room)) :
           link[c] = "open" => m.text \in {outbound'[c][j].text : j \in 1 .. Len(outbound'[c])}]_vars

(* README, line 36: LOGIN registers the name under which other clients see *)
(* the client's messages.                                                  *)
LoginRegistersName ==
  \A c \in Conns : (\E u \in Names : << c, u >> \in asked) => << c, name[c] >> \in asked
=============================================================================
