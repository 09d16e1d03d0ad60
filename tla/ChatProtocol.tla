---------------------------- MODULE ChatProtocol ----------------------------
(***************************************************************************)
(* The chat messages (ProtocolManager/Message.h) and what readMessage      *)
(* (ProtocolManager.cpp) makes of the bytes of one recv call.              *)
(*                                                                         *)
(* A byte stream is a sequence of items.  An item is a whole encoded       *)
(* message or Remainder, the bytes left of a message whose first bytes     *)
(* went out with an earlier recv.  A recv returns the bytes of one or more *)
(* items; `cut' says that it stops inside the last of them.                *)
(***************************************************************************)
EXTENDS Sequences, Integers

(* One record for the five message classes: a message class leaves the     *)
(* fields it does not have empty.  "" and << >> are the empty string; a    *)
(* nonempty text is a tuple that identifies it.                            *)
Message(t, n, r, x) == [type |-> t, name |-> n, room |-> r, text |-> x]

LoginMessage(n)    == Message("LOGIN", n, "", << >>)
JoinMessage(r)     == Message("JOIN",  "", r, << >>)
LeaveMessage(r)    == Message("LEAVE", "", r, << >>)
UserMessage(r, x)  == Message("SEND",  "", r, x)

(* RecieveMessage: what the server sends to the members of a room.         *)
SwappedMessage(s, r, x) == Message("RECIEVE", r, s, x)             \* mutant
RecieveMessage(s, r, x) == Message("RECIEVE", s, r, x)

Remainder == Message("REMAINDER", "", "", << >>)

(* A message all of whose fields were read from an exhausted buffer:       *)
(* readInt and readString then return 0 and "".                            *)
Blank(t) == Message(t, "", "", << >>)

(* readMessage on a proper prefix of message m.  With fewer than 8 bytes   *)
(* the type is read as 0, which is LOGIN; otherwise the type is m's and    *)
(* the strings are empty from the cut on.                                  *)
ReadPrefix(m) ==
  {Blank("LOGIN"), Blank(m.type)}
    \union (IF m.type = "SEND" THEN {[m EXCEPT !.text = << >>]} ELSE {})

(* readMessage on bytes that start inside a message.                       *)
ReadRemainder == {Blank(t) : t \in {"LOGIN", "JOIN", "LEAVE", "SEND", "RECIEVE", "ERROR"}}

(* The results readMessage may return for the items of one recv.  Only the *)
(* first message is decoded: packet_length is read and never used, and the *)
(* read position starts from 0 again at the next recv.                     *)
ReadMessage(items, cut) ==
  CASE Head(items) = Remainder           -> ReadRemainder
    [] Head(items) # Remainder /\ Len(items) = 1 /\ cut -> ReadPrefix(Head(items))
    [] OTHER                             -> {Head(items)}

(* What stays in the stream s when a recv has taken its first n items.     *)
UnreadAgain(s, n, cut) == SubSeq(s, n, Len(s))                     \* mutant
Unread(s, n, cut) ==
  (IF cut THEN << Remainder >> ELSE << >>) \o SubSeq(s, n + 1, Len(s))
=============================================================================
