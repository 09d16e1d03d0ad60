---------------------------- MODULE RoomManager ----------------------------
(***************************************************************************)
(* The class RoomManager of Server/RoomManager.cpp as operators on its one *)
(* field: a map from room names to the vector of the room's members.       *)
(*                                                                         *)
(* A value `rooms' is a function whose DOMAIN is the set of keys of the    *)
(* std::map and whose values are sequences of pointers to ClientInfo.  The *)
(* same client may occur several times in a sequence: push_back never      *)
(* looks for it first.                                                     *)
(***************************************************************************)
EXTENDS SequencesExt

(* A map from rooms in R to vectors of clients in C.                       *)
RoomMap(rooms, R, C) == DOMAIN rooms \subseteq R /\ rooms \in [DOMAIN rooms -> Seq(C)]

(* rooms[room_name].members, and the vector that broadcastMessage walks: a *)
(* missing room has no members.                                            *)
MembersOf(rooms, r) == IF r \in DOMAIN rooms THEN rooms[r] ELSE << >>

(* The map after rooms[room_name].members has become ms.                   *)
WithMembers(rooms, r, ms) ==
  [x \in DOMAIN rooms \union {r} |-> IF x = r THEN ms ELSE rooms[x]]

AddMemberTwice(rooms, r, c) ==                                     \* mutant
  WithMembers(rooms, r,
              Append(IF r \in DOMAIN rooms THEN rooms[r] ELSE << c >>, c))
AddMember(rooms, r, c) ==
  WithMembers(rooms, r, Append(MembersOf(rooms, r), c))

(* The loop erases the first pointer equal to client and returns.          *)
RemoveAnyMember(rooms, r, c) ==                                    \* mutant
  WithMembers(rooms, r, IF MembersOf(rooms, r) = << >> THEN << >> ELSE Tail(MembersOf(rooms, r)))
RemoveMember(rooms, r, c) ==
  WithMembers(rooms, r, RemoveFirst(MembersOf(rooms, r), c))

(* removeMember on every room of the map.                                  *)
DeleteFromOneRoom(rooms, c) ==                                     \* mutant
  IF \E r \in DOMAIN rooms : c \in Range(rooms[r])
    THEN [rooms EXCEPT ![CHOOSE r \in DOMAIN rooms : c \in Range(rooms[r])] = RemoveFirst(@, c)]
    ELSE rooms
DeleteMember(rooms, c) ==
  [r \in DOMAIN rooms |-> RemoveFirst(rooms[r], c)]

(* How often c occurs in a room.                                           *)
Occurrences(rooms, r, c) ==
  Cardinality({k \in DOMAIN MembersOf(rooms, r) : MembersOf(rooms, r)[k] = c})
=============================================================================
