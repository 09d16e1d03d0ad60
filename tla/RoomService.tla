---------------------------- MODULE RoomService ----------------------------
(***************************************************************************)
(* What the chat server promises to its clients: rooms are sets of clients *)
(* that are online; a message of a room goes, at most once, to clients     *)
(* that are in the room at that moment, and to nobody else; a room hears   *)
(* of a client's joining and leaving under the name the client has then,   *)
(* the client itself of the joining only.  A post says whose it is and     *)
(* cannot be made in another client's name.  Nothing else is sent but      *)
(* asides, which are no messages of rooms.                                 *)
(***************************************************************************)
EXTENDS Sequences, Integers

CONSTANTS Clients, Rooms, Names,
          JoinNotice(_, _), LeaveNotice(_, _),  \* of a name, to a room
          PostsOf(_, _, _),    \* what a client may post under a name to a room
          Asides               \* what a client may be told that is no room's

VARIABLES online, called, members, log
serviceVars == << online, called, members, log >>

ServiceInit ==
  /\ online = {}
  /\ called = [c \in Clients |-> ""]
  /\ members = [r \in Rooms |-> {}]
  /\ log = [c \in Clients |-> << >>]

(* Each of the addressees gets the message once; a connection that is going *)
(* down or that does not read may miss it.                                 *)
Deliver(m, addressees) ==
  \E to \in SUBSET addressees :
    log' = [c \in Clients |-> IF c \in to THEN Append(log[c], m) ELSE log[c]]

(* A client is told something, or nothing.                                 *)
Tell ==
  \/ UNCHANGED log
  \/ \E c \in Clients, m \in Asides : log' = [log EXCEPT ![c] = Append(@, m)]

Aside == Tell /\ UNCHANGED << online, called, members >>

ComeOnline(c) ==
  /\ c \notin online /\ online' = online \union {c}
  /\ UNCHANGED << called, members, log >>

Rename(c) ==
  /\ c \in online
  /\ \E n \in Names : called' = [called EXCEPT ![c] = n]
  /\ Tell
  /\ UNCHANGED << online, members >>

Join(c, r) ==
  /\ c \in online
  /\ members' = [members EXCEPT ![r] = @ \union {c}]
  /\ Deliver(JoinNotice(called[c], r), members'[r])
  /\ UNCHANGED << online, called >>

Leave(c, r) ==
  /\ c \in online
  /\ members' = [members EXCEPT ![r] = @ \ {c}]
  /\ Deliver(LeaveNotice(called[c], r), members'[r])
  /\ UNCHANGED << online, called >>

Post(c, r) ==
  /\ c \in online
  /\ \E m \in PostsOf(c, called[c], r) : Deliver(m, members[r])
  /\ UNCHANGED << online, called, members >>

GoOffline(c) ==
  /\ c \in online /\ online' = online \ {c}
  /\ members' = [r \in Rooms |-> members[r] \ {c}]
  /\ UNCHANGED << called, log >>

ServiceNext ==
  \/ Aside
  \/ \E c \in Clients :
       \/ ComeOnline(c) \/ Rename(c) \/ GoOffline(c)
       \/ \E r \in Rooms : Join(c, r) \/ Leave(c, r) \/ Post(c, r)

ServiceSpec == ServiceInit /\ [][ServiceNext]_serviceVars
=============================================================================
