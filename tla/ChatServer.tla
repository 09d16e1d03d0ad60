----------------------------- MODULE ChatServer -----------------------------
(***************************************************************************)
(* The chat server (Server/server_main.cpp with RoomManager.cpp and        *)
(* AuthClient.cpp): one thread that, for ever, polls the keyboard, selects *)
(* on its sockets, accepts at most one connection, serves every client     *)
(* whose socket select marked, and polls the connection to the auth        *)
(* server.  One action is one of these steps; the peers, the auth server   *)
(* and the network move between any two of them.                           *)
(*                                                                         *)
(* A connection c stands for its peer, for the two byte streams and for    *)
(* the ClientInfo the server allocates for it (which it never frees).      *)
(* Arrays are 1-based here and 0-based in the code.                        *)
(***************************************************************************)
EXTENDS RoomManager, ChatProtocol, AuthProtocol

CONSTANTS
  Conns,            \* the connections that may be made to port 5150
  Handles,          \* SOCKET values: the kernel gives a freed one out again
  RoomNames,        \* room names the peers use
  Names,            \* user names the peers use
  FD_SETSIZE,       \* capacity of a Winsock fd_set and of ClientArray
  None,             \* a handle that is not open
  AuthPeer,         \* the far end of the auth connection
  Commands,         \* the message types each peer of this instance sends
  MaxSends,         \* bound: how many messages each peer sends
  Endings,          \* how the peers may end: "fin", "rst"
  MaxBatch,         \* bound: messages (or their parts) returned by one recv
  MayCut,           \* whether a recv may end inside a message
  SendMayBlock,     \* whether a peer's receive window may be full
  AuthFaults,       \* whether the auth connection may end
  StickyLastError,  \* whether WSAGetLastError survives a successful recv
  Operator          \* whether somebody presses Escape at the server

ASSUME ConstantsAssumption ==
  /\ None \notin Conns \union {AuthPeer} /\ AuthPeer \notin Conns
  /\ Handles # {} /\ None \notin Handles
  /\ "" \notin RoomNames \union Names
  /\ "joined" \notin Conns /\ "left" \notin Conns  \* Notices are not texts of clients
  /\ MaxSends \in [Conns -> Nat]
  /\ FD_SETSIZE \in Nat \ {0} /\ MaxBatch \in Nat \ {0}
  /\ {MayCut, SendMayBlock, AuthFaults, StickyLastError, Operator} \subseteq BOOLEAN

VARIABLES
  \* the server's globals and the locals of main
  pc,               \* the step main is at
  i,                \* the loop variable of the loop over the clients
  shouldClose,      \* _should_close
  clientArray,      \* ClientArray[0 .. TotalClients - 1]
  rooms,            \* _room_m.rooms
  readSet,          \* ReadSet as select left it
  timeoutValid,     \* whether timeVal, of which tv_usec is never set, is valid
  \* the ClientInfo of each connection
  socket, name, loggedIn,
  \* AuthClient: its handle is never reset; WSAStartup calls not yet undone
  authSocket, wsaRefs,
  \* the kernel: what an open handle is connected to, and the accept queue
  peer, backlog,
  \* the connections: the peer's end, and what is on its way to the server
  link, inbound, sent,
  \* everything the kernel took from the server for an open peer, in order
  outbound,
  \* the auth connection
  authLink, toAuth, fromAuth,
  \* history: memberships, double ones, names presented, names approved
  joined, rejoined, asked, approved

serverVars == << pc, i, shouldClose, clientArray, rooms, readSet, timeoutValid >>
clientVars == << socket, name, loggedIn >>
authVars   == << authSocket, wsaRefs, authLink, toAuth, fromAuth >>
netVars    == << peer, backlog, link, inbound, sent, outbound >>
history    == << joined, rejoined, asked, approved >>
vars       == << serverVars, clientVars, authVars, netVars, history >>

Rooms == RoomNames \union {""}
Total == Len(clientArray)
AuthUp == peer[authSocket] = AuthPeer

Init ==
  /\ pc = "top" /\ i = 1 /\ shouldClose = FALSE
  /\ clientArray = << >> /\ rooms = [r \in {} |-> << >>] /\ readSet = {}
  /\ timeoutValid \in BOOLEAN
  /\ socket = [c \in Conns |-> None]
  /\ name = [c \in Conns |-> ""]
  /\ loggedIn = [c \in Conns |-> FALSE]
  /\ authSocket = CHOOSE h \in Handles : TRUE
  /\ wsaRefs = 2                       \* main and AuthClient::init
  /\ peer = [h \in Handles |-> IF h = authSocket THEN AuthPeer ELSE None]
  /\ backlog = << >>
  /\ link = [c \in Conns |-> "idle"]
  /\ inbound = [c \in Conns |-> << >>]
  /\ sent = [c \in Conns |-> 0]
  /\ outbound = [c \in Conns |-> << >>]
  /\ authLink = "up" /\ toAuth = << >> /\ fromAuth = << >>
  /\ joined = {} /\ rejoined = {} /\ asked = {} /\ approved = {}

-----------------------------------------------------------------------------
(* The peers.                                                              *)

Connect(c) ==
  /\ link[c] = "idle"
  /\ link' = [link EXCEPT ![c] = "open"]
  /\ backlog' = Append(backlog, c)
  /\ UNCHANGED << serverVars, clientVars, authVars, history, peer, inbound, sent, outbound >>

(* What a peer may write next; a text carries its author and a number.     *)
Requests(c) ==
  {m \in {LoginMessage(n) : n \in Names}
           \union {JoinMessage(r) : r \in RoomNames}
           \union {LeaveMessage(r) : r \in RoomNames}
           \union {UserMessage(r, << c, sent[c] + 1 >>) : r \in RoomNames}
     : m.type \in Commands[c]}

PeerSend(c, m) ==
  /\ link[c] = "open" /\ sent[c] < MaxSends[c]
  /\ sent' = [sent EXCEPT ![c] = @ + 1]
  /\ inbound' = [inbound EXCEPT ![c] = Append(@, m)]
  /\ UNCHANGED << serverVars, clientVars, authVars, history, peer, backlog, link, outbound >>

(* closesocket at the peer: what it has sent is still delivered.           *)
PeerClose(c) ==
  /\ "fin" \in Endings /\ link[c] = "open"
  /\ link' = [link EXCEPT ![c] = "fin"]
  /\ UNCHANGED << serverVars, clientVars, authVars, history, peer, backlog, inbound, sent, outbound >>

(* The peer's process or host dies: a reset, which discards unread data.   *)
PeerAbort(c) ==
  /\ "rst" \in Endings /\ link[c] \in {"open", "fin"}
  /\ link' = [link EXCEPT ![c] = "rst"]
  /\ inbound' = [inbound EXCEPT ![c] = << >>]
  /\ UNCHANGED << serverVars, clientVars, authVars, history, peer, backlog, sent, outbound >>

-----------------------------------------------------------------------------
(* The auth server, seen from here: it reads one or more requests at once, *)
(* answers the one that readAuthMessage makes of them, and may go away.    *)

AuthAnswer ==
  /\ authLink = "up" /\ toAuth # << >>
  /\ \E n \in 1 .. Len(toAuth) :
       /\ n <= MaxBatch
       /\ toAuth' = SubSeq(toAuth, n + 1, Len(toAuth))
       /\ LET req == ReadRequests(SubSeq(toAuth, 1, n)) IN
            \/ /\ fromAuth' = Append(fromAuth, ResponseOK(req.username, req.by))
               /\ approved' = approved \union {req.username}
            \/ /\ fromAuth' = Append(fromAuth, ResponseError(req.username, req.by))
               /\ UNCHANGED approved
  /\ UNCHANGED << serverVars, clientVars, authSocket, wsaRefs, authLink, netVars, joined, rejoined, asked >>

AuthEnds ==
  /\ AuthFaults
  /\ \/ authLink = "up" /\ authLink' = "fin" /\ UNCHANGED fromAuth
     \/ authLink \in {"up", "fin"} /\ authLink' = "rst" /\ fromAuth' = << >>
  /\ toAuth' = << >>
  /\ UNCHANGED << serverVars, clientVars, authSocket, wsaRefs, netVars, history >>

-----------------------------------------------------------------------------
(* The server: the top of the loop of main.                                *)

(* The handles FD_SET puts into ReadSet next to listenSocket: each one     *)
(* once, and none when the set is full.                                    *)
WatchedButFirst ==                                                 \* mutant
  {h \in Handles : \E k \in 2 .. Total : socket[clientArray[k]] = h}
Watched ==
  {h \in Handles : \E k \in 1 .. Total :
     /\ socket[clientArray[k]] = h
     /\ Cardinality({socket[clientArray[j]] : j \in 1 .. k - 1}) < FD_SETSIZE - 1}

(* A recv on a readable handle does not block.                             *)
Readable(h) == peer[h] \in Conns /\ (inbound[peer[h]] # << >> \/ link[peer[h]] # "open")

(* closeServer and the end of the process: every handle is closed.         *)
AllClosed == [h \in Handles |-> None]

Exit ==
  /\ pc = "top" /\ shouldClose
  /\ pc' = "exited" /\ peer' = AllClosed
  /\ UNCHANGED << i, shouldClose, clientArray, rooms, readSet, timeoutValid,
                  clientVars, authVars, history, backlog, link, inbound, sent, outbound >>

(* key_listen, then select: it fails when Winsock has been cleaned up, the *)
(* timeout is not a valid one or a handle is not a socket.                 *)
SelectFails == wsaRefs = 0 \/ ~timeoutValid \/ \E h \in Watched : peer[h] = None

(* listenSocket is marked.                                                 *)
PendingWhenAlone == backlog # << >> /\ Total = 0                   \* mutant
Pending == backlog # << >>

Select ==
  /\ pc = "top" /\ ~shouldClose
  /\ shouldClose' \in (IF Operator THEN BOOLEAN ELSE {FALSE})
  /\ \/ /\ SelectFails
        /\ pc' = "failed" /\ peer' = AllClosed
        /\ UNCHANGED readSet
     \/ /\ ~SelectFails
        /\ pc' = IF Pending THEN "accept" ELSE "serve"
        /\ readSet' = {h \in Watched : Readable(h)}
        /\ UNCHANGED peer
  /\ UNCHANGED << i, clientArray, rooms, timeoutValid, clientVars, authVars, history,
                  backlog, link, inbound, sent, outbound >>

(* accept gives the oldest pending connection some free handle; it may     *)
(* report that the peer has reset it, and then the process ends without    *)
(* closeServer.  ClientArray has FD_SETSIZE entries and no bound is        *)
(* checked: what follows a write past its end is undefined.                *)
Accept ==
  /\ pc = "accept"
  /\ \/ /\ link[Head(backlog)] = "rst"
        /\ pc' = "failed" /\ peer' = AllClosed
        /\ UNCHANGED << clientArray, socket, backlog >>
     \/ \E h \in Handles :
          /\ peer[h] = None
          /\ peer' = [peer EXCEPT ![h] = Head(backlog)]
          /\ socket' = [socket EXCEPT ![Head(backlog)] = h]
          /\ backlog' = Tail(backlog)
          /\ \/ /\ Total < FD_SETSIZE
                /\ clientArray' = Append(clientArray, Head(backlog))
                /\ pc' = "serve"
             \/ /\ Total = FD_SETSIZE
                /\ pc' = "undefined"
                /\ UNCHANGED clientArray
  /\ UNCHANGED << i, shouldClose, rooms, readSet, timeoutValid, name, loggedIn,
                  authVars, history, link, inbound, sent, outbound >>

-----------------------------------------------------------------------------
(* The server: the loop over the clients, one action per outcome of an     *)
(* iteration that finds its client marked.  The outcome WSAEWOULDBLOCK is  *)
(* not among them: nobody reads between select and WSARecv, and no two     *)
(* entries of ClientArray ever have the same open handle (SocketsOwned).   *)

(* Iteration k is the next one that has something to do.                   *)
Turn(k) ==
  /\ pc = "serve" /\ k \in i .. Total
  /\ socket[clientArray[k]] \in readSet
  /\ \A j \in i .. k - 1 : socket[clientArray[j]] \notin readSet
  /\ i' = k + 1

(* What WSARecv may leave of connection p when it stops at its n-th item:  *)
(* nothing of the item, or, inside a whole message, its remainder.         *)
Cuts(p, n) == IF MayCut /\ inbound[p][n] # Remainder THEN BOOLEAN ELSE {FALSE}

Reception(p, n, cut) ==
  {[message |-> m, inbound |-> [inbound EXCEPT ![p] = Unread(@, n, cut)]] :
     m \in ReadMessage(SubSeq(inbound[p], 1, n), cut)}

(* What WSARecv for client c may return: the message readMessage makes of  *)
(* the bytes, and the streams once the bytes are taken.                    *)
Receptions(c) ==
  LET p == peer[socket[c]] IN
  IF p \notin Conns \/ link[p] = "rst" THEN {}
  ELSE UNION {UNION {Reception(p, n, cut) : cut \in Cuts(p, n)} :
                n \in {n \in 1 .. Len(inbound[p]) : n <= MaxBatch}}

(* The sends of broadcastMessage that go to connection p: one for every    *)
(* occurrence of a member whose handle is connected to it.                 *)
Copies(rs, r, p) ==
  Cardinality({k \in 1 .. Len(MembersOf(rs, r)) : peer[socket[MembersOf(rs, r)[k]]] = p})

(* broadcastMessage.  A peer that is gone or whose window is full (Winsock *)
(* then takes none of the bytes) gets nothing, and nothing comes of it.    *)
Broadcast(rs, m, full) ==
  outbound' = [p \in Conns |->
    IF link[p] = "open" /\ p \notin full
      THEN outbound[p] \o [k \in 1 .. Copies(rs, m.room, p) |-> m]
      ELSE outbound[p]]

FullWindows == IF SendMayBlock THEN SUBSET Conns ELSE {{}}

(* closesocket and WSACleanup, with which AuthClient answers every error.  *)
(* The handle keeps its value; the last WSACleanup closes all sockets.     *)
CloseAuthSocketOnly ==                                             \* mutant
  /\ UNCHANGED wsaRefs
  /\ peer' = [peer EXCEPT ![authSocket] = None]
CleanUpUnchecked ==                                                \* mutant
  /\ wsaRefs' = wsaRefs - 1
  /\ peer' = IF wsaRefs = 1 THEN AllClosed ELSE [peer EXCEPT ![authSocket] = None]
CloseAuthSocket ==
  /\ wsaRefs' = IF wsaRefs = 0 THEN 0 ELSE wsaRefs - 1
  /\ peer' = IF wsaRefs <= 1 THEN AllClosed ELSE [peer EXCEPT ![authSocket] = None]

(* AuthClient::sendMessage: the handle may be connected to the auth server *)
(* (which may have closed its end: it then answers the bytes by a reset),  *)
(* be closed, or have been given out again to a connection of a client.    *)
AuthSendMessage(req) ==
  LET p == peer[authSocket] IN
  \/ /\ p = AuthPeer /\ authLink = "up"
     /\ toAuth' = Append(toAuth, req)
     /\ UNCHANGED << authLink, fromAuth, wsaRefs, peer, outbound >>
  \/ /\ p = AuthPeer /\ authLink = "fin"
     /\ authLink' = "rst" /\ fromAuth' = << >>
     /\ UNCHANGED << toAuth, wsaRefs, peer, outbound >>
  \/ /\ p \in Conns /\ link[p] # "rst"
     /\ outbound' = IF link[p] = "open"
                      THEN [outbound EXCEPT ![p] = Append(@, Message("REQUEST", req.username, "", << >>))]
                      ELSE outbound
     /\ UNCHANGED << authLink, toAuth, fromAuth, wsaRefs, peer >>
  \/ /\ \/ p = None
        \/ p = AuthPeer /\ (authLink = "rst" \/ SendMayBlock)
        \/ p \in Conns /\ link[p] = "rst"
     /\ CloseAuthSocket
     /\ UNCHANGED << authLink, toAuth, fromAuth, outbound >>

(* processMessages, case LOGIN: the request goes out when the string names *)
(* an action, the name is set whatever it says.                            *)
ServeLogin(k) ==
  LET c == clientArray[k] IN
  /\ Turn(k)
  /\ \E r \in Receptions(c) :
       /\ r.message.type = "LOGIN"
       /\ inbound' = r.inbound
       /\ name' = [name EXCEPT ![c] = r.message.name]
       /\ IF r.message.name = ""
            THEN UNCHANGED << asked, authLink, toAuth, fromAuth, wsaRefs, peer, outbound >>
            ELSE /\ AuthSendMessage(Request(r.message.name, c))
                 /\ asked' = asked \union {<< c, r.message.name >>}
  /\ UNCHANGED << pc, shouldClose, clientArray, rooms, readSet, timeoutValid, socket,
                  loggedIn, authSocket, backlog, link, sent, joined, rejoined, approved >>

(* Case JOIN: addMember, then the notice to the room, the new member       *)
(* included.                                                               *)
ServeJoin(k) ==
  LET c == clientArray[k] IN
  /\ Turn(k)
  /\ \E r \in Receptions(c), full \in FullWindows :
       LET room == r.message.room IN
       /\ r.message.type = "JOIN"
       /\ inbound' = r.inbound
       /\ rooms' = AddMember(rooms, room, c)
       /\ Broadcast(rooms', RecieveMessage("server", room, << "joined", name[c] >>), full)
       /\ joined' = joined \union {<< c, room >>}
       /\ rejoined' = IF c \in Range(MembersOf(rooms, room))
                        THEN rejoined \union {<< c, room >>} ELSE rejoined
  /\ UNCHANGED << pc, shouldClose, clientArray, readSet, timeoutValid, clientVars,
                  authVars, peer, backlog, link, sent, asked, approved >>

(* Case LEAVE: removeMember, whether or not there was a member to remove,  *)
(* then the notice to those who stay.                                      *)
ServeLeave(k) ==
  LET c == clientArray[k] IN
  /\ Turn(k)
  /\ \E r \in Receptions(c), full \in FullWindows :
       LET room == r.message.room IN
       /\ r.message.type = "LEAVE"
       /\ inbound' = r.inbound
       /\ rooms' = RemoveMember(rooms, room, c)
       /\ Broadcast(rooms', RecieveMessage("server", room, << "left", name[c] >>), full)
  /\ UNCHANGED << pc, shouldClose, clientArray, readSet, timeoutValid, clientVars,
                  authVars, peer, backlog, link, sent, history >>

(* Case SEND: broadcast to the room under the name the client has now.     *)
ServeSend(k) ==
  LET c == clientArray[k] IN
  /\ Turn(k)
  /\ \E r \in Receptions(c), full \in FullWindows :
       /\ r.message.type = "SEND"
       /\ inbound' = r.inbound
       /\ Broadcast(rooms, RecieveMessage(name[c], r.message.room, r.message.text), full)
  /\ UNCHANGED << pc, shouldClose, clientArray, rooms, readSet, timeoutValid, clientVars,
                  authVars, peer, backlog, link, sent, history >>

(* A type the switch has no case for.                                      *)
ServeOther(k) ==
  /\ Turn(k)
  /\ \E r \in Receptions(clientArray[k]) :
       /\ r.message.type \notin {"LOGIN", "JOIN", "LEAVE", "SEND"}
       /\ inbound' = r.inbound
  /\ UNCHANGED << pc, shouldClose, clientArray, rooms, readSet, timeoutValid, clientVars,
                  authVars, peer, backlog, link, sent, outbound, history >>

(* closesocket(client->socket): the number in ClientInfo, whoever it       *)
(* belongs to by now.                                                      *)
CloseNothing(c) == UNCHANGED peer                                  \* mutant
CloseSocket(c) == peer' = [peer EXCEPT ![socket[c]] = None]

(* The entries after the k-th move up.                                     *)
RemoveNextEntry(k) == clientArray' = RemoveAt(clientArray, k + 1)  \* mutant
RemoveEntry(k) == clientArray' = RemoveAt(clientArray, k)

(* WSARecv fails or returns 0 bytes: disconnectClient.  The array moves up *)
(* under the loop variable, which goes on all the same.                    *)
ServeGone(k) ==
  LET c == clientArray[k]
      p == peer[socket[c]] IN
  /\ Turn(k)
  /\ \/ p \notin Conns
     \/ p \in Conns /\ link[p] = "rst"
     \/ p \in Conns /\ link[p] = "fin" /\ inbound[p] = << >>
  /\ CloseSocket(c)
  /\ rooms' = DeleteMember(rooms, c)
  /\ RemoveEntry(k)
  /\ UNCHANGED << pc, shouldClose, readSet, timeoutValid, clientVars, authVars,
                  backlog, link, inbound, sent, outbound, history >>

(* The loop is over; i and ReadSet are set anew before they are read again.*)
EndServeAtI ==                                                     \* mutant
  /\ pc = "serve"
  /\ \A k \in i .. Total : socket[clientArray[k]] \notin readSet
  /\ pc' = "auth" /\ readSet' = {}
  /\ UNCHANGED << i, shouldClose, clientArray, rooms, timeoutValid, clientVars, authVars,
                  netVars, history >>
EndServe ==
  /\ pc = "serve"
  /\ \A k \in i .. Total : socket[clientArray[k]] \notin readSet
  /\ pc' = "auth" /\ i' = 1 /\ readSet' = {}
  /\ UNCHANGED << shouldClose, clientArray, rooms, timeoutValid, clientVars, authVars,
                  netVars, history >>

-----------------------------------------------------------------------------
(* The server: AuthClient::recieveMessage and processAuthMessage.          *)

(* findClientByUsername: the first client with that name.                  *)
Namesakes(u) == {k \in 1 .. Total : name[clientArray[k]] = u}
FoundOrFirst(u, c) ==                                              \* mutant
  \/ \E k \in Namesakes(u) : c = clientArray[k] /\ \A j \in Namesakes(u) : k <= j
  \/ Namesakes(u) = {} /\ c = clientArray[1]
FoundByUsername(u, c) ==
  \E k \in Namesakes(u) : c = clientArray[k] /\ \A j \in Namesakes(u) : k <= j

(* processAuthMessage for client c: only an OK changes the client; both    *)
(* answers are sent to it, as bare text, on the handle it has.             *)
Reply(c, a) ==
  LET p == peer[socket[c]] IN
  /\ loggedIn' = [loggedIn EXCEPT ![c] = @ \/ a.type = "ResponseOK"]
  /\ outbound' = IF p \in Conns /\ link[p] = "open"
       THEN [outbound EXCEPT ![p] =
               Append(@, Message("REPLY", a.username, "", << a.type, a.by >>))]
       ELSE outbound

PollAuthStep ==
  /\ pc = "auth" /\ pc' = "top"
  /\ UNCHANGED << i, shouldClose, clientArray, rooms, readSet, timeoutValid, socket, name,
                  authSocket, backlog, link, sent, toAuth, authLink, history >>

(* ioctlsocket or recv fails.                                              *)
PollAuthFails ==
  /\ PollAuthStep
  /\ \/ peer[authSocket] = None
     \/ AuthUp /\ authLink = "rst"
     \/ peer[authSocket] \in Conns /\ link[peer[authSocket]] = "rst"
  /\ CloseAuthSocket
  /\ UNCHANGED << loggedIn, outbound, inbound, fromAuth >>

(* Nothing to read, or the end of the stream, which nobody looks for.      *)
PollAuthNothing ==
  /\ PollAuthStep
  /\ \/ AuthUp /\ authLink # "rst" /\ fromAuth = << >>
     \/ /\ peer[authSocket] \in Conns /\ link[peer[authSocket]] # "rst"
        /\ inbound[peer[authSocket]] = << >>
  /\ UNCHANGED << loggedIn, outbound, inbound, fromAuth, peer, wsaRefs >>

(* Responses: recv returns the bytes of one or more of them.  They are     *)
(* thrown away when WSAGetLastError still holds an earlier WSAEWOULDBLOCK. *)
PollAuthResponse ==
  /\ PollAuthStep
  /\ AuthUp /\ authLink # "rst"
  /\ \E n \in 1 .. Len(fromAuth) :
       LET a == ReadResponses(SubSeq(fromAuth, 1, n)) IN
       /\ n <= MaxBatch
       /\ fromAuth' = SubSeq(fromAuth, n + 1, Len(fromAuth))
       /\ \/ \E k \in 1 .. Total : FoundByUsername(a.username, clientArray[k]) /\ Reply(clientArray[k], a)
          \/ Namesakes(a.username) = {} /\ UNCHANGED << loggedIn, outbound >>
          \/ StickyLastError /\ UNCHANGED << loggedIn, outbound >>
  /\ UNCHANGED << inbound, peer, wsaRefs >>

(* The stale handle is a client's now: its bytes are read here, are no     *)
(* protobuf message, and are lost.                                         *)
PollAuthSteals ==
  LET p == peer[authSocket] IN
  /\ PollAuthStep
  /\ p \in Conns /\ link[p] # "rst"
  /\ \E n \in 1 .. Len(inbound[p]) :
       n <= MaxBatch /\ inbound' = [inbound EXCEPT ![p] = SubSeq(@, n + 1, Len(@))]
  /\ UNCHANGED << loggedIn, outbound, fromAuth, peer, wsaRefs >>

PollNobody ==                                                      \* mutant
  PollAuthStep /\ UNCHANGED << loggedIn, outbound, inbound, fromAuth, peer, wsaRefs >>
PollAuth == PollAuthFails \/ PollAuthNothing \/ PollAuthResponse \/ PollAuthSteals

-----------------------------------------------------------------------------
Serve(k) ==
  ServeLogin(k) \/ ServeJoin(k) \/ ServeLeave(k) \/ ServeSend(k)
    \/ ServeOther(k) \/ ServeGone(k)

ServerStep ==
  Exit \/ Select \/ Accept \/ (\E k \in 1 .. FD_SETSIZE : Serve(k)) \/ EndServe \/ PollAuth

Environment ==
  \/ \E c \in Conns : \/ Connect(c) \/ PeerClose(c) \/ PeerAbort(c)
                      \/ \E m \in Requests(c) : PeerSend(c, m)
  \/ AuthAnswer \/ AuthEnds

Next == ServerStep \/ Environment

Spec == Init /\ [][Next]_vars

(* The server's thread keeps running: select waits for at most a second,   *)
(* and no call on a non-blocking socket waits.                             *)
FairSpec == Spec /\ WF_vars(ServerStep)

-----------------------------------------------------------------------------
(* Types.                                                                  *)

Notices == {"joined", "left"} \X (Names \union {""})
Replies == {"ResponseOK", "ResponseError"} \X Conns
Texts   == {<< >>} \union (Conns \X Nat) \union Notices \union Replies
Types   == {"LOGIN", "JOIN", "LEAVE", "SEND", "RECIEVE", "ERROR", "REMAINDER", "REQUEST", "REPLY"}
Messages == [type : Types, name : Names \union {"", "server"}, room : Rooms, text : Texts]

(* What can be on its way to the server.                                   *)
Items == [type : {"LOGIN", "JOIN", "LEAVE", "SEND", "RECIEVE", "ERROR", "REMAINDER"},
          name : Names \union {""}, room : Rooms, text : {<< >>} \union (Conns \X Nat)]

AuthRequests  == [type : {"Request"}, username : Names, by : Conns]
AuthResponses == [type : {"ResponseOK", "ResponseError"}, username : Names, by : Conns]

(* The type invariant.                                                     *)
ServerTypeOK ==
  /\ pc \in {"top", "accept", "serve", "auth", "exited", "failed", "undefined"}
  /\ i \in 1 .. FD_SETSIZE + 1
  /\ shouldClose \in BOOLEAN /\ timeoutValid \in BOOLEAN
  /\ clientArray \in Seq(Conns) /\ Total <= FD_SETSIZE
  /\ RoomMap(rooms, Rooms, Conns)
  /\ readSet \subseteq Handles
ClientTypeOK ==
  /\ socket \in [Conns -> Handles \union {None}]
  /\ name \in [Conns -> Names \union {""}]
  /\ loggedIn \in [Conns -> BOOLEAN]
AuthTypeOK ==
  /\ authSocket \in Handles /\ wsaRefs \in 0 .. 2
  /\ authLink \in {"up", "fin", "rst"}
  /\ toAuth \in Seq(AuthRequests) /\ fromAuth \in Seq(AuthResponses)
NetTypeOK ==
  /\ peer \in [Handles -> Conns \union {None, AuthPeer}]
  /\ backlog \in Seq(Conns)
  /\ link \in [Conns -> {"idle", "open", "fin", "rst"}]
  /\ inbound \in [Conns -> Seq(Items)]
  /\ sent \in [Conns -> Nat]
  /\ outbound \in [Conns -> Seq(Messages)]
HistoryTypeOK ==
  /\ joined \subseteq Conns \X Rooms /\ rejoined \subseteq Conns \X Rooms
  /\ asked \subseteq Conns \X Names /\ approved \subseteq Names
TypeOK == ServerTypeOK /\ ClientTypeOK /\ AuthTypeOK /\ NetTypeOK /\ HistoryTypeOK

(* main has neither returned nor left defined behaviour.                   *)
Live == pc \in {"top", "accept", "serve", "auth"}

-----------------------------------------------------------------------------
(* Safety.                                                                 *)

(* Until the second WSACleanup of AuthClient closes everything, every      *)
(* client of ClientArray has an open handle that is connected to that very *)
(* client.  AuthClient closes a number again that it has closed before     *)
(* (AuthClient.cpp 124, 140, 151) and the number may be a client's by then,*)
(* but that second time is also the last WSACleanup.                       *)
SocketsOwned ==
  Live /\ wsaRefs > 0 =>
    /\ wsaRefs = 2 => AuthUp
    /\ \A k \in 1 .. Total :
         /\ socket[clientArray[k]] \in Handles
         /\ peer[socket[clientArray[k]]] = clientArray[k]

(* A handle that is connected to a client belongs to an entry of           *)
(* ClientArray: disconnectClient closes what it drops, and nothing is left *)
(* open without an entry that would ever be read or closed.                *)
NoLeakedSockets ==
  Live => \A h \in Handles :
    peer[h] \in Conns => \E k \in 1 .. Total : clientArray[k] = peer[h] /\ socket[peer[h]] = h

(* A client that has left the array is still a member of a room only if it *)
(* joined the room while it was in it: deleteMember erases one pointer per *)
(* room, and addMember may have pushed more.                               *)
DepartedAreNoMembers ==
  \A r \in DOMAIN rooms : \A c \in Range(rooms[r]) :
    c \notin Range(clientArray) => << c, r >> \in rejoined

(* Occurrences beyond the first come from such a join only.                *)
MembersOnce ==
  \A c \in Conns : \A r \in DOMAIN rooms :
    Occurrences(rooms, r, c) > 1 => << c, r >> \in rejoined

(* Everybody a message of a room is sent to has joined the room: without   *)
(* double memberships, a departed client's number in the kernel never      *)
(* brings a message of its rooms to the connection that got the number.    *)
OnlyJoinersReceive ==
  rejoined = {} =>
    \A c \in Conns : \A k \in 1 .. Len(outbound[c]) :
      outbound[c][k].type = "RECIEVE" => << c, outbound[c][k].room >> \in joined

(* A text of a client among what a client is sent, with its author and its *)
(* number: not a notice of the server.                                     *)
IsPost(m) == m.type = "RECIEVE" /\ m.text # << >> /\ m.text[1] \in Conns

(* What a client gets of another one's texts it gets in the order in which *)
(* they were sent, whatever is lost, cut or coalesced on the way; and it   *)
(* gets none of them twice unless somebody is a member twice.              *)
OrderedDelivery ==
  \A c \in Conns : \A k \in 1 .. Len(outbound[c]) : \A j \in 1 .. k - 1 :
    LET m == outbound[c][j]
        n == outbound[c][k] IN
    IsPost(m) /\ IsPost(n) /\ m.text[1] = n.text[1] =>
      \/ m.text[2] < n.text[2]
      \/ m.text[2] = n.text[2] /\ rejoined # {}

(* A text goes out under a name that its author has presented, or under    *)
(* none; never under somebody else's, whatever handles are closed and      *)
(* given out again.                                                        *)
Attribution ==
  \A c \in Conns : \A k \in 1 .. Len(outbound[c]) :
    LET m == outbound[c][k] IN
    IsPost(m) => m.name = "" \/ << m.text[1], m.name >> \in asked

(* A client is marked as logged in only when the auth server has approved  *)
(* a name that this client has presented: an error is never taken for an   *)
(* OK, however requests and responses run together on the way.             *)
LoginIsApproved ==
  \A c \in Conns : loggedIn[c] => \E u \in approved : << c, u >> \in asked

(* The server does not end by itself unless select's timeout was never     *)
(* valid, the auth server's connection broke or would not take a request,  *)
(* or a peer reset a connection that was waiting in the accept queue.      *)
FailureHasCause ==
  pc = "failed" =>
    \/ ~timeoutValid
    \/ authLink # "up" \/ SendMayBlock
    \/ backlog # << >> /\ link[Head(backlog)] = "rst"

(* The answer to a login goes to a client that has presented the name.     *)
RepliesAreForAskedNames ==
  \A c \in Conns : \A k \in 1 .. Len(outbound[c]) :
    outbound[c][k].type = "REPLY" => << c, outbound[c][k].name >> \in asked

-----------------------------------------------------------------------------
(* Action properties.                                                      *)

(* Until Winsock has been cleaned up, the server drops a client only when  *)
(* its connection is over and all that it sent before closing has been     *)
(* read: no farewell message is lost by disconnectClient.                  *)
OnlyTheGoneAreDropped ==
  [][\A c \in Range(clientArray) \ Range(clientArray') :
       wsaRefs > 0 => link[c] \in {"fin", "rst"} /\ inbound[c] = << >>]_vars

-----------------------------------------------------------------------------
(* Liveness.                                                               *)

(* All bytes of a client that select looks at are read, unless the server  *)
(* stops.  That the iteration after a removal is skipped only delays it.   *)
WatchedClient(c) == c \in Range(clientArray) /\ socket[c] \in Watched
Served ==
  \A c \in Conns :
    Live /\ WatchedClient(c) /\ inbound[c] # << >> ~> ~Live \/ inbound[c] = << >>

(* A client whose connection is over is taken off the array and its handle *)
(* is given back.                                                          *)
Reaped ==
  \A c \in Conns :
    Live /\ WatchedClient(c) /\ link[c] \in {"fin", "rst"} ~> ~Live \/ c \notin Range(clientArray)

(* Every connection in the accept queue is accepted.                       *)
Accepted ==
  \A c \in Conns : Live /\ c \in Range(backlog) ~> ~Live \/ c \notin Range(backlog)

(* A client that select has no room for is read once those before it in    *)
(* ClientArray have gone: removals move it up, one iteration skipped or    *)
(* not.                                                                    *)
OthersBeforeGone(c) ==
  \A k \in 1 .. Total : c \in {clientArray[j] : j \in k + 1 .. Total} => link[clientArray[k]] \in {"fin", "rst"}
ServedWhenFirst ==
  \A c \in Conns :
    Live /\ c \in Range(clientArray) /\ inbound[c] # << >> /\ OthersBeforeGone(c)
      ~> ~Live \/ inbound[c] = << >>

(* An answer of the auth server is read.                                   *)
AnswersAreRead == Live /\ fromAuth # << >> ~> ~Live \/ fromAuth = << >>
=============================================================================
