----------------------------- MODULE ChatClient -----------------------------
(***************************************************************************)
(* The client (Client2/main.cpp) and the bytes between it and the server.  *)
(* One thread: loginLoop asks for credentials, sends them and blocks in    *)
(* recv until something comes; then the loop of main takes at most one key *)
(* and makes one recv per round.  What the user types is made of words, a  *)
(* line being a tuple of them with single spaces in between.               *)
(*                                                                         *)
(* The server is seen from here: it reads any number of bytes at a time,   *)
(* decodes them as the client does, answers each login with "ok" or with   *)
(* the text of an error, and sends messages of rooms to a member.          *)
(***************************************************************************)
EXTENDS Wire

CONSTANTS
  Logins,           \* the strings "name password option" the user may enter
  Lines,            \* the lines the user may enter, all of them commands
  RoomMessages,     \* what the rooms send to the client, in this order
  ErrorText,        \* bytes of the answer to a refused login
  BufLen,           \* DEFAULT_BUFLEN, the most that one recv returns
  KeptLines,        \* how many messages receivedMessages keeps: 6
  MaxLogins,        \* bound: how often the user tries to log in
  MaxEntered        \* bound: how many lines the user enters

OkText == Bytes["ok"]

ASSUME ClientAssumption ==
  /\ {BufLen, KeptLines} \subseteq Nat \ {0} /\ {MaxLogins, MaxEntered} \subseteq Nat
  /\ BufLen * ByteBase <= Words
  /\ Lines \subseteq Seq(DOMAIN Bytes)
  /\ \A l \in Lines : l # << >> /\ l[1] \in {".send", ".join", ".leave"}
  /\ RoomMessages \in Seq([type : {"RECIEVE"}, name : DOMAIN Bytes, room : DOMAIN Bytes,
                           text : Seq(DOMAIN Bytes)])

(* A printed text with no "ok" in it, nor where one follows another.       *)
ASSUME AnswerAssumption ==
  /\ "ok" \in DOMAIN Bytes /\ Len(OkText) = 2
  /\ ErrorText \in Seq(Nat) /\ Len(ErrorText) >= Len(OkText)
  /\ \A k \in 1 .. 2 * Len(ErrorText) - 1 : SubSeq(ErrorText \o ErrorText, k, k + 1) # OkText

(* Three words of printable characters, short enough for the length of the *)
(* message to be a single byte (and not the number of a type).             *)
ASSUME LoginAssumption ==
  /\ Logins \subseteq DOMAIN Bytes
  /\ \A l, other \in Logins : Bytes[l] = Bytes[other] => l = other
  /\ \A l \in Logins :
       /\ Len(Bytes[l]) > TypeCode["JOIN"] /\ 3 * IntSize + Len(Bytes[l]) < ByteBase
       /\ \A k \in 1 .. Len(Bytes[l]) : Bytes[l][k] > TypeCode["JOIN"]

VARIABLES
  pc,               \* loginLoop: "option", "await"; main: "key", "recv", "leaving"; "ended"
  login,            \* client_name, client_password and client_option
  received,         \* receivedMessages
  entered,          \* history: how many lines were entered
  tries,            \* history: how many logins were sent
  link,             \* "open", "fin" (closed by the server) or "rst"
  toServer,         \* bytes on their way to the server
  toItems,          \* the messages these belong to, with the bytes left of each
  toClient,         \* bytes on their way to the client
  unanswered,       \* logins the server has read and not answered
  member,           \* whether the server has seen a JOIN
  approved,         \* history: logins answered with "ok"
  posted,           \* history: how many of RoomMessages the server has sent
  ragged,           \* history: an answer to a login was received in parts
  strayed           \* history: a recv began inside a message (not in loginLoop)

clientVars == << pc, login, received, entered, tries >>
serverVars == << unanswered, member, approved, posted >>
histories == << ragged, strayed >>
vars == << clientVars, serverVars, histories, link, toServer, toItems, toClient >>

NoLogin == ""

Init ==
  /\ pc = "option" /\ login = NoLogin /\ received = << >> /\ entered = 0 /\ tries = 0
  /\ link = "open" /\ toServer = << >> /\ toItems = << >> /\ toClient = << >>
  /\ unanswered = << >> /\ member = FALSE /\ approved = {} /\ posted = 0
  /\ ragged = FALSE /\ strayed = FALSE

-----------------------------------------------------------------------------
(* checkMessage: what is not found is not erased, since npos + 1 is 0.  So *)
(* a missing room is the command, and a missing text is what was left.     *)
WordOr(l, k) == IF k <= Len(l) THEN l[k] ELSE l[Len(l)]
RoomOf(l) == WordOr(l, 2)
TextOf(l) ==
  CASE Len(l) <= 1 -> l
    [] Len(l) = 2  -> << l[2] >>
    [] OTHER       -> SubSeq(l, 3, Len(l))

(* determineMsgType.                                                       *)
CommandMessage(l) ==
  CASE l[1] = ".send"  -> UserMessage(RoomOf(l), TextOf(l))
    [] l[1] = ".join"  -> JoinMessage(RoomOf(l))
    [] l[1] = ".leave" -> LeaveMessage(RoomOf(l))

(* All that is ever sent, and the SendBuffers written for it.              *)
Sendable ==
  {LoginMessage(l) : l \in Logins} \union {CommandMessage(l) : l \in Lines}
    \union {RoomMessages[k] : k \in 1 .. Len(RoomMessages)}
Written == [m \in Sendable |-> WriteMessage(m)]

(* A SendBuffer can double its size as often as a message needs.           *)
ASSUME SizeAssumption == \A m \in Sendable : 2 * Len(Written[m].bytes) <= Words

(* send.  The server's end answers bytes with a reset once it has closed.  *)
Transmit(m) ==
  LET b == Written[m] IN
  /\ link # "rst"
  /\ IF link = "open"
       THEN /\ toServer' = toServer \o b.bytes
            /\ toItems' = Append(toItems, [message |-> m, left |-> Len(b.bytes)])
            /\ UNCHANGED << link, toClient >>
       ELSE /\ link' = "rst" /\ toClient' = << >>
            /\ UNCHANGED << toServer, toItems >>

(* loginLoop: the user chooses, enters the credentials, and they are sent. *)
(* When send fails the loop is left like after an "ok".                    *)
EnterLogin ==
  /\ pc = "option" /\ tries < MaxLogins
  /\ \E l \in Logins :
       /\ login' = l
       /\ \/ Transmit(LoginMessage(l)) /\ pc' = "await" /\ tries' = tries + 1
          \/ /\ link = "rst" /\ pc' = "key"
             /\ UNCHANGED << tries, link, toServer, toItems, toClient >>
  /\ UNCHANGED << serverVars, histories, received, entered >>

(* How many bytes one recv may return, these bytes, and their taking.      *)
RecvLengths == 1 .. Min({Len(toClient), BufLen})
Recv(n) == SubSeq(toClient, 1, n)
Peek(n) == UNCHANGED toClient                                      \* mutant
Take(n) == toClient' = SubSeq(toClient, n + 1, Len(toClient))

(* The answer: anything but exactly "ok" is shown and the user is asked    *)
(* again.                                                                  *)
IsNoError(d)   == d # ErrorText                                    \* mutant
IsOk(d)        == d = OkText

AwaitAnswer ==
  /\ pc = "await"
  /\ UNCHANGED << serverVars, strayed, login, received, entered, tries,
                  link, toServer, toItems >>
  /\ \E n \in RecvLengths :
       LET d == Recv(n) IN
       /\ Take(n)
       /\ pc' = IF IsOk(d) THEN "key" ELSE "option"
       /\ ragged' = (ragged \/ d \notin {OkText, ErrorText})

(* recv returns 0 or fails: the loop is left like after an "ok".           *)
AwaitEnds ==
  /\ pc = "await" /\ pc' = "key"
  /\ link # "open" /\ toClient = << >>
  /\ UNCHANGED << serverVars, histories, login, received, entered, tries,
                  link, toServer, toItems, toClient >>

-----------------------------------------------------------------------------
(* The loop of main, first half: at most one key.  What is typed (and      *)
(* taken back with BACKSPACE) before RETURN is nobody else's business: the *)
(* user may enter any of Lines.  A line that is no command is not sent and *)
(* changes nothing.                                                        *)

(* RETURN with a command: it is sent, and a failing send ends the client.  *)
EnterCommand ==
  /\ pc = "key" /\ entered < MaxEntered /\ entered' = entered + 1
  /\ \/ /\ \E l \in Lines : Transmit(CommandMessage(l))
        /\ pc' = "recv"
     \/ /\ link = "rst" /\ pc' = "ended"
        /\ UNCHANGED << link, toServer, toItems, toClient >>
  /\ UNCHANGED << serverVars, histories, login, received, tries >>

(* ESCAPE: one more recv, then closesocket.                                *)
Escape ==
  /\ pc = "key" /\ pc' = "leaving"
  /\ UNCHANGED << serverVars, histories, login, received, entered, tries,
                  link, toServer, toItems, toClient >>

-----------------------------------------------------------------------------
(* The loop of main, second half: one recv.                                *)

Receiving == {"key", "recv", "leaving"}
NextRound == IF pc = "leaving" THEN "ended" ELSE "key"

(* The message is pushed back and, of too many, the first one erased.      *)
PushedFirst(ms, m) == SubSeq(<< m >> \o ms, 1, Min({Len(ms) + 1, KeptLines}))  \* mutant
PushedMore(ms, m) ==                                               \* mutant
  LET all == Append(ms, m) IN IF Len(all) > KeptLines + 1 THEN Tail(all) ELSE all
Pushed(ms, m) ==
  LET all == Append(ms, m) IN IF Len(all) > KeptLines THEN Tail(all) ELSE all

(* What is not read yet when the messages up to the k-th have been.        *)
Left(k) == FlattenSeq([j \in 1 .. posted - k |-> Written[RoomMessages[k + j]].bytes])

(* One message is decoded, whatever else has been received with it.        *)
Show ==
  /\ pc \in Receiving /\ pc' = NextRound
  /\ strayed' = (strayed \/ \A k \in 0 .. posted : toClient # Left(k))
  /\ UNCHANGED << serverVars, login, entered, tries, link, toServer, toItems, ragged >>
  /\ \E n \in RecvLengths :
       LET m == Decode(Recv(n)) IN
       /\ Take(n)
       /\ received' = IF m.type = "RECIEVE" THEN Pushed(received, m) ELSE received

(* ioctlsocket or recv fails.                                              *)
RecvFails ==
  /\ pc \in Receiving /\ link = "rst" /\ pc' = "ended"
  /\ UNCHANGED << serverVars, histories, login, received, entered, tries,
                  link, toServer, toItems, toClient >>

(* Nothing to read, or 0: "Connection closed" is printed and the loop goes *)
(* on.                                                                     *)
RecvNothing ==
  /\ pc \in Receiving /\ pc' = NextRound
  /\ toClient = << >> /\ link # "rst"
  /\ UNCHANGED << serverVars, histories, login, received, entered, tries,
                  link, toServer, toItems, toClient >>

-----------------------------------------------------------------------------
(* The server, seen from here.                                             *)

(* The items after the first n bytes have been taken from them.            *)
UpTo(items, k) ==
  LET Sum[j \in 0 .. k] == IF j = 0 THEN 0 ELSE Sum[j - 1] + items[j].left IN Sum[k]
Untaken(items, n) ==
  LET k == CHOOSE k \in 0 .. Len(items) :
             UpTo(items, k) <= n /\ (k = Len(items) \/ UpTo(items, k + 1) > n)
      rest == SubSeq(items, k + 1, Len(items))
  IN IF rest = << >> THEN << >> ELSE [rest EXCEPT ![1].left = @ - (n - UpTo(items, k))]

ServerReads ==
  /\ link = "open" /\ toServer # << >>
  /\ \E n \in 1 .. Min({Len(toServer), BufLen}) :
       LET m == Decode(SubSeq(toServer, 1, n)) IN
       /\ toServer' = SubSeq(toServer, n + 1, Len(toServer))
       /\ toItems' = Untaken(toItems, n)
       /\ unanswered' = IF m.type = "LOGIN" /\ \E l \in Logins : Bytes[l] = m.name
            THEN Append(unanswered, CHOOSE l \in Logins : Bytes[l] = m.name) ELSE unanswered
       /\ member' = (member \/ m.type = "JOIN")
  /\ strayed' = (strayed \/ toItems[1].left < Len(Written[toItems[1].message].bytes))
  /\ UNCHANGED << clientVars, approved, posted, link, toClient, ragged >>

ServerAnswers ==
  /\ link = "open" /\ unanswered # << >>
  /\ unanswered' = Tail(unanswered)
  /\ \/ toClient' = toClient \o OkText /\ approved' = approved \union {Head(unanswered)}
     \/ toClient' = toClient \o ErrorText /\ UNCHANGED approved
  /\ UNCHANGED << clientVars, histories, member, posted, link, toServer, toItems >>

ServerPosts ==
  /\ link = "open" /\ member /\ posted < Len(RoomMessages)
  /\ posted' = posted + 1
  /\ toClient' = toClient \o Written[RoomMessages[posted']].bytes
  /\ UNCHANGED << clientVars, histories, unanswered, member, approved,
                  link, toServer, toItems >>

ServerEnds ==
  /\ \/ link = "open" /\ link' = "fin" /\ UNCHANGED toClient
     \/ link \in {"open", "fin"} /\ link' = "rst" /\ toClient' = << >>
  /\ toServer' = << >> /\ toItems' = << >>
  /\ UNCHANGED << clientVars, serverVars, histories >>

-----------------------------------------------------------------------------
Keys       == EnterLogin \/ EnterCommand \/ Escape
ClientStep == AwaitAnswer \/ AwaitEnds \/ Show \/ RecvFails \/ RecvNothing
Server     == ServerReads \/ ServerAnswers \/ ServerPosts \/ ServerEnds

(* Nothing is modelled of the connection after the client has ended.       *)
Next ==
  \/ Keys
  \/ ClientStep
  \/ pc # "ended" /\ Server

Spec == Init /\ [][Next]_vars

(* The client's thread keeps running: in the loop of main no call waits    *)
(* and loginLoop's recv returns when there is something.  Nothing is       *)
(* assumed of the user or of the server.                                   *)
FairSpec == Spec /\ WF_vars(ClientStep)

-----------------------------------------------------------------------------
ClientTypeOK ==
  /\ pc \in {"option", "await", "key", "recv", "leaving", "ended"}
  /\ login \in Logins \union {NoLogin}
  /\ Len(received) <= KeptLines
  /\ entered \in 0 .. MaxEntered /\ tries \in 0 .. MaxLogins

(* The type invariant.                                                     *)
TypeOK ==
  /\ ClientTypeOK
  /\ link \in {"open", "fin", "rst"}
  /\ Len(toServer) = UpTo(toItems, Len(toItems))
  /\ \A k \in 1 .. Len(toItems) :
       toItems[k].left \in 1 .. Len(Written[toItems[k].message].bytes)
  /\ approved \subseteq Logins /\ posted \in 0 .. Len(RoomMessages)
  /\ {member, ragged, strayed} \subseteq BOOLEAN
  /\ unanswered \in Seq(Logins)

(* SendBuffer: the array is as large as what has been written to it,       *)
(* however much longer than the array a string is.                         *)
BufferHolds ==
  \A k \in 1 .. Len(toItems) :
    LET b == Written[toItems[k].message] IN Len(b.bytes) <= b.size

(* Wire: what the server's recv makes of the stream, wherever it ends, is  *)
(* one of the results that ChatProtocol's ReadMessage has for the messages *)
(* these bytes are of, which is all that the model of the chat server      *)
(* knows of them.  (Of a message that says it is a RecieveMessage the      *)
(* server looks at nothing but that.)                                      *)
SameMessage(d, m) == d.type = m.type /\ (m.type # "RECIEVE" => d = Spelled(m))
Whole(item) == item.left = Len(Written[item.message].bytes)
Abstract(items) ==
  [k \in 1 .. Len(items) |-> IF Whole(items[k]) THEN items[k].message ELSE Remainder]
Covering(items, n) == CHOOSE k \in 1 .. Len(items) : UpTo(items, k) >= n /\ UpTo(items, k - 1) < n
ReadAsProtocol ==
  \A n \in 1 .. Min({Len(toServer), BufLen}) :
    LET k       == Covering(toItems, n)
        results == ReadMessage(SubSeq(Abstract(toItems), 1, k), UpTo(toItems, k) # n)
    IN \E m \in results : SameMessage(Decode(SubSeq(toServer, 1, n)), m)

(* A recv that begins with a message reads that, or a prefix of it.        *)
WireIsProtocol == toItems # << >> /\ Whole(toItems[1]) => ReadAsProtocol

(* A recv that begins inside a message finds no strings: what it takes for *)
(* their lengths is nothing or has a letter in it.  (True of words that    *)
(* are long enough: the rest of SEND with a room of one letter may be read *)
(* as JOIN with a name as long as that letter's code and ByteBase.)        *)
RestIsProtocol == toItems # << >> /\ ~ Whole(toItems[1]) => ReadAsProtocol

(* Long enough: printable characters, a room of at least two of them, a    *)
(* text of at least one, and messages that are not huge.                   *)
WordsAreLong ==
  /\ IntSize = 4 /\ BufLen <= 2 * ByteBase /\ 2 * Space < ByteBase
  /\ \A s \in DOMAIN Bytes : \A k \in 1 .. Len(Bytes[s]) : Space <= Bytes[s][k]
  /\ \A m \in Sendable : ByteBase * (2 * Len(Written[m].bytes)) <= Words
  /\ \A l \in Lines :
       /\ Len(Bytes[CommandMessage(l).room]) >= 2
       /\ CommandMessage(l).type = "SEND" => TextBytes(CommandMessage(l).text) # << >>

(* loginLoop: while the connection is there, main's loop is only entered   *)
(* when a login has been approved, and, unless an answer came in parts,    *)
(* when the very login was that is shown in the greeting.                  *)
EntersApproved ==
  pc \in Receiving /\ link = "open" =>
    /\ approved # {}
    /\ ragged \/ login \in approved

(* One login at a time: unless an answer came in parts, nothing of an      *)
(* earlier login is left anywhere when the user is asked again, and when   *)
(* the client waits, its login is on its way, unanswered or answered once, *)
(* and with "ok" only when it is approved.                                 *)
OneAnswer ==
  link = "open" /\ ~ragged =>
    /\ pc = "option" => toServer \o unanswered \o toClient = << >>
    /\ pc = "await" =>
         \/ unanswered \o toClient = << >>
         \/ toServer \o toClient = << >> /\ unanswered = << login >>
         \/ /\ toServer \o unanswered = << >> /\ toClient \in {OkText, ErrorText}
            /\ toClient = OkText => login \in approved

(* While no recv begins inside a message, what is shown are messages the   *)
(* server has sent, each shown once and in the order of sending, although  *)
(* only the first message of a recv is looked at; one that the recv has    *)
(* cut is shown with its strings empty from the cut on.                    *)
ShownOf(m, s) ==
  m \in {s, [s EXCEPT !.text = << >>], [s EXCEPT !.text = << >>, !.room = << >>],
            [s EXCEPT !.text = << >>, !.room = << >>, !.name = << >>]}
ShownWasSent ==
  ~ragged /\ ~strayed =>
    \E place \in [1 .. Len(received) -> 1 .. posted] :
      /\ \A k \in DOMAIN place : ShownOf(received[k], Spelled(RoomMessages[place[k]]))
      /\ \A j, k \in DOMAIN place : j < k => place[j] < place[k]

(* What reaches a client is read, unless the client waits for credentials  *)
(* or has ended.                                                           *)
EverythingIsRead == []<>(toClient = << >> \/ pc \in {"ended", "option"})
=============================================================================
