---------------------------- MODULE MCChatClient ----------------------------
(***************************************************************************)
(* Rooms, senders and texts of three and four letters: the lengths then    *)
(* read as the types SEND and RECIEVE when a recv begins inside a message. *)
(* The letters' codes are ASCII less 64, so that an int of four bytes of   *)
(* seven bits is a number of TLC's.                                        *)
(***************************************************************************)
EXTENDS ChatClient

Codes ==
  "" :> << >> @@ "ok" :> << 47, 43 >>
  @@ "anna secret 1" :> << 33, 46, 46, 33, 32, 51, 37, 35, 50, 37, 52, 32, 49 >>
  @@ "bo pw 1" :> << 34, 47, 32, 48, 55, 32, 49 >>
  @@ "anna" :> << 33, 46, 46, 33 >> @@ "bo" :> << 34, 47 >>
  @@ "pub" :> << 48, 53, 34 >> @@ "chat" :> << 35, 40, 33, 52 >>
  @@ "hi" :> << 40, 41 >> @@ "hiya" :> << 40, 41, 57, 33 >>
  @@ "yo" :> << 57, 47 >>
  @@ ".join" :> << 46, 42, 47, 41, 46 >> @@ ".send" :> << 46, 51, 37, 46, 36 >>

SomeLines == {<< ".join" >>, << ".send", "pub", "hiya" >>}

(* Between messages of rooms: the length of the room's name then reads as  *)
(* the type RECIEVE, when a recv begins in the name before it.             *)
Chatter == << RecieveMessage("bo", "chat", << "hi" >>), RecieveMessage("anna", "chat", << "yo" >>),
              RecieveMessage("bo", "chat", << "yo" >>) >>
No == << 46, 47 >>

(* What the proof of RestIsProtocol takes of the words holds of these.     *)
ASSUME LongAssumption == WordsAreLong
=============================================================================
