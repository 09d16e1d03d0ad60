-------------------------- MODULE ChatServerProofs --------------------------
(***************************************************************************)
(* What the chat server preserves, for any number of connections, handles, *)
(* rooms and names and any capacity of the client array: types, and of the *)
(* clients of ClientArray which rooms they are in and which handle is      *)
(* whose.                                                                  *)
(***************************************************************************)
EXTENDS ChatServer, RoomManagerProofs

-----------------------------------------------------------------------------
(* Sequences.                                                              *)

(* A message repeated is a sequence of messages.                           *)
LEMMA RepeatedType ==
  ASSUME NEW S, NEW e \in S, NEW n \in Nat
  PROVE  [k \in 1 .. n |-> e] \in Seq(S)
OBVIOUS

(* Of a sequence only finitely many places satisfy a condition.            *)
LEMMA PlacesFinite ==
  ASSUME NEW S, NEW s \in Seq(S), NEW I, I \subseteq 1 .. Len(s)
  PROVE  IsFiniteSet(I) /\ Cardinality(I) \in Nat
<1>1. Len(s) \in Nat
  BY LenProperties
<1>2. IsFiniteSet(1 .. Len(s))
  BY <1>1, FS_Interval
<1> QED BY <1>2, FS_Subset, FS_CardinalityType

-----------------------------------------------------------------------------
(* Messages.                                                               *)

(* readMessage makes nothing of a client's bytes that a client could not   *)
(* have sent, wherever the bytes were cut.                                 *)
LEMMA ReadMessageType ==
  ASSUME NEW items \in Seq(Items), items # << >>, NEW cut \in BOOLEAN
  PROVE  ReadMessage(items, cut) \subseteq Items
<1>1. Head(items) \in Items
  BY HeadTailProperties
<1>2. \A t \in {"LOGIN", "JOIN", "LEAVE", "SEND", "RECIEVE", "ERROR"} : Blank(t) \in Items
  BY DEF Blank, Message, Items, Rooms
<1>3. ReadRemainder \subseteq Items
  BY <1>2 DEF ReadRemainder
<1>4. ReadPrefix(Head(items)) \subseteq Items
  <2>1. Head(items).type \in {"LOGIN", "JOIN", "LEAVE", "SEND", "RECIEVE", "ERROR"} => Blank(Head(items).type) \in Items
    BY <1>2
  <2>2. Head(items).type = "REMAINDER" => Blank(Head(items).type) \in Items
    BY DEF Blank, Message, Items, Rooms
  <2>3. [Head(items) EXCEPT !.text = << >>] \in Items
    BY <1>1 DEF Items
  <2> QED BY <1>1, <1>2, <2>1, <2>2, <2>3 DEF ReadPrefix, Items
<1> QED BY <1>1, <1>3, <1>4 DEF ReadMessage

(* What stays in the stream is still a stream of items.                    *)
LEMMA UnreadType ==
  ASSUME NEW s \in Seq(Items), NEW n \in 0 .. Len(s), NEW cut \in BOOLEAN
  PROVE  Unread(s, n, cut) \in Seq(Items)
<1>1. Remainder \in Items
  BY DEF Remainder, Message, Items, Rooms
<1>2. SubSeq(s, n + 1, Len(s)) \in Seq(Items)
  BY PartOfSeq, LenProperties
<1>3. << >> \in Seq(Items) /\ << Remainder >> \in Seq(Items)
  BY <1>1
<1> QED BY <1>2, <1>3, ConcatProperties DEF Unread

-----------------------------------------------------------------------------
(* Types of what the steps are made of.                                    *)

(* A turn of the loop over the clients is about an entry of ClientArray.   *)
LEMMA TurnType ==
  ASSUME TypeOK, NEW k, Turn(k)
  PROVE  /\ k \in 1 .. Total /\ clientArray[k] \in Conns
         /\ i' \in 1 .. FD_SETSIZE + 1
<1>1. /\ clientArray \in Seq(Conns) /\ Len(clientArray) <= FD_SETSIZE
      /\ i \in 1 .. FD_SETSIZE + 1
  BY DEF TypeOK, ServerTypeOK, Total
<1>2. Len(clientArray) \in Nat /\ FD_SETSIZE \in Nat
  BY <1>1, LenProperties, ConstantsAssumption
<1>3. k \in i .. Len(clientArray) /\ i' = k + 1
  BY DEF Turn, Total
<1>4. k \in 1 .. Len(clientArray) /\ i' \in 1 .. FD_SETSIZE + 1
  BY <1>1, <1>2, <1>3
<1> QED BY <1>1, <1>4, ElementOfSeq DEF Total

(* What a recv returns is a client's message, and the rest still a stream. *)
LEMMA ReceptionsType ==
  ASSUME TypeOK, NEW c \in Conns, NEW r \in Receptions(c)
  PROVE  r.message \in Items /\ r.inbound \in [Conns -> Seq(Items)]
<1> DEFINE p == peer[socket[c]]
<1>1. p \in Conns /\ link[p] # "rst"
  BY DEF Receptions
<1>2. PICK n \in 1 .. Len(inbound[p]), cut \in BOOLEAN : r \in Reception(p, n, cut)
  BY <1>1 DEF Receptions, Cuts
<1>3. inbound[p] \in Seq(Items) /\ Len(inbound[p]) \in Nat
  BY <1>1, LenProperties DEF TypeOK, NetTypeOK
<1> HIDE DEF p
<1>4. SubSeq(inbound[p], 1, n) \in Seq(Items) /\ SubSeq(inbound[p], 1, n) # << >>
  <2>1. 1 \in 1 .. Len(inbound[p]) + 1 /\ n \in 0 .. Len(inbound[p]) /\ 1 <= n
    BY <1>3
  <2>2. SubSeq(inbound[p], 1, n) \in Seq(Items) /\ Len(SubSeq(inbound[p], 1, n)) = n - 1 + 1
    BY <1>3, <2>1, PartOfSeq
  <2> QED BY <2>1, <2>2
<1>5. ReadMessage(SubSeq(inbound[p], 1, n), cut) \subseteq Items
  BY <1>4, ReadMessageType
<1>6. Unread(inbound[p], n, cut) \in Seq(Items)
  BY <1>3, UnreadType
<1>7. PICK m \in ReadMessage(SubSeq(inbound[p], 1, n), cut) :
        r = [message |-> m, inbound |-> [inbound EXCEPT ![p] = Unread(@, n, cut)]]
  BY <1>2 DEF Reception
<1> QED BY <1>1, <1>5, <1>6, <1>7 DEF TypeOK, NetTypeOK

(* A broadcast adds messages to the streams of clients.                    *)
LEMMA BroadcastType ==
  ASSUME TypeOK, NEW rs, RoomMap(rs, Rooms, Conns), NEW m \in Messages, NEW full,
         Broadcast(rs, m, full)
  PROVE  outbound' \in [Conns -> Seq(Messages)]
<1>1. MembersOf(rs, m.room) \in Seq(Conns)
  BY MembersOfType DEF Messages
<1>2. ASSUME NEW p \in Conns PROVE outbound[p] \o [k \in 1 .. Copies(rs, m.room, p) |-> m] \in Seq(Messages)
  <2>1. DOMAIN MembersOf(rs, m.room) = 1 .. Len(MembersOf(rs, m.room))
    BY <1>1, LenProperties
  <2>2. Copies(rs, m.room, p) \in Nat
    BY <1>1, <2>1, PlacesFinite DEF Copies
  <2>3. [k \in 1 .. Copies(rs, m.room, p) |-> m] \in Seq(Messages)
    BY <2>2, RepeatedType
  <2>4. outbound[p] \in Seq(Messages)
    BY DEF TypeOK, NetTypeOK
  <2> QED BY <2>3, <2>4, ConcatProperties
<1> QED BY <1>2 DEF Broadcast, TypeOK, NetTypeOK

(* Closing the auth socket leaves handles that are open or not, and never  *)
(* undoes more WSAStartups than there were.                                *)
LEMMA CloseAuthSocketType ==
  ASSUME TypeOK, CloseAuthSocket
  PROVE  wsaRefs' \in 0 .. 2 /\ peer' \in [Handles -> Conns \union {None, AuthPeer}]
<1>1. wsaRefs \in 0 .. 2 /\ peer \in [Handles -> Conns \union {None, AuthPeer}]
  BY DEF TypeOK, AuthTypeOK, NetTypeOK
<1>2. wsaRefs' \in 0 .. 2
  BY <1>1 DEF CloseAuthSocket
<1>3. peer' = AllClosed \/ peer' = [peer EXCEPT ![authSocket] = None]
  BY DEF CloseAuthSocket
<1>4. AllClosed \in [Handles -> Conns \union {None, AuthPeer}]
  BY DEF AllClosed
<1>5. [peer EXCEPT ![authSocket] = None] \in [Handles -> Conns \union {None, AuthPeer}]
  BY <1>1
<1> QED BY <1>2, <1>3, <1>4, <1>5

(* Whatever the auth handle is connected to, a request keeps the types.    *)
LEMMA AuthSendMessageType ==
  ASSUME TypeOK, NEW req \in AuthRequests, AuthSendMessage(req)
  PROVE  /\ authLink' \in {"up", "fin", "rst"} /\ wsaRefs' \in 0 .. 2
         /\ toAuth' \in Seq(AuthRequests) /\ fromAuth' \in Seq(AuthResponses)
         /\ peer' \in [Handles -> Conns \union {None, AuthPeer}]
         /\ outbound' \in [Conns -> Seq(Messages)]
<1>1. toAuth \in Seq(AuthRequests) /\ fromAuth \in Seq(AuthResponses)
  BY DEF TypeOK, AuthTypeOK
<1>2. Append(toAuth, req) \in Seq(AuthRequests) /\ << >> \in Seq(AuthResponses)
  BY <1>1, AppendProperties
<1>3. Message("REQUEST", req.username, "", << >>) \in Messages
  BY DEF AuthRequests, Message, Messages, Types, Rooms, Texts
<1>4. \A p \in Conns : Append(outbound[p], Message("REQUEST", req.username, "", << >>)) \in Seq(Messages)
  BY <1>3, AppendProperties DEF TypeOK, NetTypeOK
<1> QED BY <1>2, <1>4, CloseAuthSocketType DEF AuthSendMessage, TypeOK, AuthTypeOK, NetTypeOK

-----------------------------------------------------------------------------
(* Type correctness.  main calls accept only when select has marked        *)
(* listenSocket: the oldest pending connection exists.                     *)
AcceptHasBacklog == pc = "accept" => backlog # << >>
ITypeOK == TypeOK /\ AcceptHasBacklog

(* What a step leaves alone keeps its type.                                *)
LEMMA TypesUnchanged ==
  ASSUME TypeOK
  PROVE  /\ UNCHANGED serverVars => ServerTypeOK'
         /\ UNCHANGED clientVars => ClientTypeOK'
         /\ UNCHANGED authVars => AuthTypeOK'
         /\ UNCHANGED netVars => NetTypeOK'
         /\ UNCHANGED history => HistoryTypeOK'
         /\ UNCHANGED << clientArray, rooms >> =>
              /\ clientArray' \in Seq(Conns) /\ Total' <= FD_SETSIZE
              /\ RoomMap(rooms', Rooms, Conns)
<1> USE DEF TypeOK
<1>1. UNCHANGED serverVars => ServerTypeOK'
  BY DEF serverVars, ServerTypeOK, Total
<1>2. UNCHANGED clientVars => ClientTypeOK'
  BY DEF clientVars, ClientTypeOK
<1>3. UNCHANGED authVars => AuthTypeOK'
  BY DEF authVars, AuthTypeOK
<1>4. UNCHANGED netVars => NetTypeOK'
  BY DEF netVars, NetTypeOK
<1>5. UNCHANGED history => HistoryTypeOK'
  BY DEF history, HistoryTypeOK
<1> QED BY <1>1, <1>2, <1>3, <1>4, <1>5 DEF ServerTypeOK, Total

LEMMA InitTypeOK == Init => ITypeOK
<1> SUFFICES ASSUME Init PROVE ITypeOK
  OBVIOUS
<1>1. ServerTypeOK
  <2>1. FD_SETSIZE \in Nat \ {0}
    BY ConstantsAssumption
  <2>2. /\ pc = "top" /\ i = 1 /\ shouldClose = FALSE /\ timeoutValid \in BOOLEAN
        /\ clientArray = << >> /\ rooms = [r \in {} |-> << >>] /\ readSet = {}
    BY DEF Init
  <2>3. i \in 1 .. FD_SETSIZE + 1
    BY <2>1, <2>2
  <2>4. clientArray \in Seq(Conns) /\ Total <= FD_SETSIZE
    BY <2>1, <2>2 DEF Total
  <2>5. RoomMap(rooms, Rooms, Conns)
    BY <2>2 DEF RoomMap
  <2> QED BY <2>2, <2>3, <2>4, <2>5 DEF ServerTypeOK
<1>2. ClientTypeOK
  BY DEF Init, ClientTypeOK
<1>3. AuthTypeOK
  <2>1. authSocket = CHOOSE h \in Handles : TRUE
    BY DEF Init
  <2>2. wsaRefs = 2 /\ authLink = "up" /\ toAuth = << >> /\ fromAuth = << >>
    BY DEF Init
  <2>3. authSocket \in Handles
    BY <2>1, ConstantsAssumption
  <2> QED BY <2>2, <2>3 DEF AuthTypeOK
<1>4. NetTypeOK
  <2>1. /\ peer = [h \in Handles |-> IF h = authSocket THEN AuthPeer ELSE None]
        /\ backlog = << >> /\ link = [c \in Conns |-> "idle"]
        /\ inbound = [c \in Conns |-> << >>] /\ sent = [c \in Conns |-> 0]
        /\ outbound = [c \in Conns |-> << >>]
    BY DEF Init
  <2>2. << >> \in Seq(Conns) /\ << >> \in Seq(Items) /\ << >> \in Seq(Messages)
    OBVIOUS
  <2> QED BY <2>1, <2>2 DEF NetTypeOK
<1>5. HistoryTypeOK
  BY DEF Init, HistoryTypeOK
<1>6. AcceptHasBacklog
  BY DEF Init, AcceptHasBacklog
<1> QED BY <1>1, <1>2, <1>3, <1>4, <1>5, <1>6 DEF ITypeOK, TypeOK

(* The peers' steps.                                                       *)
LEMMA PeersTypeOK ==
  ASSUME ITypeOK, NEW c \in Conns,
         \/ Connect(c) \/ PeerClose(c) \/ PeerAbort(c)
         \/ \E m \in Requests(c) : PeerSend(c, m)
  PROVE  ITypeOK'
<1> USE TypesUnchanged DEF ITypeOK
<1>1. CASE Connect(c)
  <2>1. Append(backlog, c) \in Seq(Conns) /\ Append(backlog, c) # << >>
    <3>1. backlog \in Seq(Conns)
      BY DEF TypeOK, NetTypeOK
    <3> QED BY <3>1, AppendProperties
  <2>2. NetTypeOK'
    BY <1>1, <2>1 DEF Connect, TypeOK, NetTypeOK
  <2> QED BY <1>1, <2>1, <2>2 DEF Connect, TypeOK, AcceptHasBacklog
<1>2. CASE PeerClose(c)
  <2>1. NetTypeOK'
    BY <1>2 DEF PeerClose, TypeOK, NetTypeOK
  <2> QED BY <1>2, <2>1 DEF PeerClose, TypeOK, AcceptHasBacklog, serverVars
<1>3. CASE PeerAbort(c)
  <2>1. NetTypeOK'
    BY <1>3 DEF PeerAbort, TypeOK, NetTypeOK
  <2> QED BY <1>3, <2>1 DEF PeerAbort, TypeOK, AcceptHasBacklog, serverVars
<1>4. ASSUME NEW m \in Requests(c), PeerSend(c, m) PROVE ITypeOK'
  <2>1. sent[c] + 1 \in Nat /\ inbound[c] \in Seq(Items)
    BY DEF TypeOK, NetTypeOK
  <2>2. m \in Items
    <3>1. \/ \E n \in Names : m = LoginMessage(n)
          \/ \E r \in RoomNames : m \in {JoinMessage(r), LeaveMessage(r), UserMessage(r, << c, sent[c] + 1 >>)}
      BY DEF Requests
    <3>2. \A n \in Names : LoginMessage(n) \in Items
      BY DEF LoginMessage, Message, Items, Rooms
    <3>3. \A r \in RoomNames : JoinMessage(r) \in Items /\ LeaveMessage(r) \in Items
      BY DEF JoinMessage, LeaveMessage, Message, Items, Rooms
    <3>4. \A r \in RoomNames : UserMessage(r, << c, sent[c] + 1 >>) \in Items
      BY <2>1 DEF UserMessage, Message, Items, Rooms
    <3> QED BY <3>1, <3>2, <3>3, <3>4
  <2>3. Append(inbound[c], m) \in Seq(Items)
    BY <2>1, <2>2, AppendProperties
  <2>4. NetTypeOK'
    BY <1>4, <2>1, <2>3 DEF PeerSend, TypeOK, NetTypeOK
  <2> QED BY <1>4, <2>4 DEF PeerSend, TypeOK, AcceptHasBacklog, serverVars
<1> QED BY <1>1, <1>2, <1>3, <1>4

(* The auth server's steps.                                                *)
LEMMA AuthServerTypeOK ==
  ASSUME ITypeOK, AuthAnswer \/ AuthEnds
  PROVE  ITypeOK'
<1> USE TypesUnchanged DEF ITypeOK
<1>1. CASE AuthAnswer
  <2>1. PICK n \in 1 .. Len(toAuth) :
          LET req == ReadRequests(SubSeq(toAuth, 1, n)) IN
          /\ toAuth' = SubSeq(toAuth, n + 1, Len(toAuth))
          /\ \/ /\ fromAuth' = Append(fromAuth, ResponseOK(req.username, req.by))
                /\ approved' = approved \union {req.username}
             \/ /\ fromAuth' = Append(fromAuth, ResponseError(req.username, req.by))
                /\ UNCHANGED approved
    BY <1>1 DEF AuthAnswer
  <2> DEFINE req == ReadRequests(SubSeq(toAuth, 1, n))
  <2>2. toAuth \in Seq(AuthRequests) /\ Len(toAuth) \in Nat /\ fromAuth \in Seq(AuthResponses)
    BY LenProperties DEF TypeOK, AuthTypeOK
  <2>3. SubSeq(toAuth, n + 1, Len(toAuth)) \in Seq(AuthRequests)
    BY <2>2, PartOfSeq
  <2>4. req \in AuthRequests
    <3>1. Len(SubSeq(toAuth, 1, n)) = n /\ SubSeq(toAuth, 1, n) \in Seq(AuthRequests)
      BY <2>2, PartOfSeq
    <3> QED BY <2>2, <3>1, ElementOfSeq DEF ReadRequests
  <2>5. /\ ResponseOK(req.username, req.by) \in AuthResponses
        /\ ResponseError(req.username, req.by) \in AuthResponses
        /\ req.username \in Names
    BY <2>4 DEF ResponseOK, ResponseError, AuthRequests, AuthResponses
  <2> HIDE DEF req
  <2>6. fromAuth' \in Seq(AuthResponses)
    <3>1. \E a \in AuthResponses : fromAuth' = Append(fromAuth, a)
      BY <2>1, <2>5 DEF req
    <3> QED BY <2>2, <3>1, AppendProperties
  <2>7. AuthTypeOK'
    <3>1. UNCHANGED << authSocket, wsaRefs, authLink >>
      BY <1>1 DEF AuthAnswer
    <3> QED BY <2>1, <2>3, <2>6, <3>1 DEF TypeOK, AuthTypeOK
  <2>8. HistoryTypeOK'
    BY <1>1, <2>1, <2>5 DEF AuthAnswer, TypeOK, HistoryTypeOK, req
  <2> QED BY <1>1, <2>7, <2>8 DEF AuthAnswer, TypeOK, AcceptHasBacklog, serverVars, netVars
<1>2. CASE AuthEnds
  <2>1. AuthTypeOK'
    <3>1. /\ authLink' \in {"fin", "rst"} /\ toAuth' = << >>
          /\ fromAuth' = << >> \/ fromAuth' = fromAuth
          /\ UNCHANGED << authSocket, wsaRefs >>
      BY <1>2 DEF AuthEnds
    <3>2. << >> \in Seq(AuthRequests) /\ << >> \in Seq(AuthResponses)
      OBVIOUS
    <3> QED BY <3>1, <3>2 DEF TypeOK, AuthTypeOK
  <2> QED BY <1>2, <2>1 DEF AuthEnds, TypeOK, AcceptHasBacklog, serverVars, netVars
<1> QED BY <1>1, <1>2

(* The top of the loop of main.                                            *)
LEMMA TopTypeOK ==
  ASSUME ITypeOK, Exit \/ Select \/ Accept
  PROVE  ITypeOK'
<1> USE TypesUnchanged DEF ITypeOK
<1>1. /\ AllClosed \in [Handles -> Conns \union {None, AuthPeer}]
      /\ peer \in [Handles -> Conns \union {None, AuthPeer}]
  BY DEF AllClosed, TypeOK, NetTypeOK
<1>2. CASE Exit
  <2>1. ServerTypeOK'
    BY <1>2 DEF Exit, TypeOK, ServerTypeOK, Total
  <2>2. NetTypeOK'
    BY <1>1, <1>2 DEF Exit, TypeOK, NetTypeOK
  <2> QED BY <1>2, <2>1, <2>2 DEF Exit, TypeOK, AcceptHasBacklog
<1>3. CASE Select
  <2>1. /\ pc' \in {"failed", "accept", "serve"}
        /\ pc' = "accept" => backlog # << >>
        /\ shouldClose' \in BOOLEAN
        /\ peer' \in {peer, AllClosed}
        /\ readSet' = readSet \/ readSet' \subseteq Watched
    BY <1>3 DEF Select, Pending
  <2>2. UNCHANGED << i, clientArray, rooms, timeoutValid, clientVars, authVars, history,
                     backlog, link, inbound, sent, outbound >>
    BY <1>3 DEF Select
  <2>3. ServerTypeOK'
    BY <2>1, <2>2 DEF TypeOK, ServerTypeOK, Total, Watched
  <2>4. NetTypeOK'
    BY <1>1, <2>1, <2>2 DEF TypeOK, NetTypeOK
  <2> QED BY <2>1, <2>2, <2>3, <2>4 DEF TypeOK, AcceptHasBacklog
<1>4. CASE Accept
  <2>1. backlog \in Seq(Conns) /\ backlog # << >>
    BY <1>4 DEF Accept, AcceptHasBacklog, TypeOK, NetTypeOK
  <2>2. Head(backlog) \in Conns /\ Tail(backlog) \in Seq(Conns)
    BY <2>1, HeadTailProperties
  <2>3. UNCHANGED << i, shouldClose, rooms, readSet, timeoutValid, name, loggedIn,
                     authVars, history, link, inbound, sent, outbound >>
    BY <1>4 DEF Accept
  <2>4. CASE pc' = "failed" /\ peer' = AllClosed /\ UNCHANGED << clientArray, socket, backlog >>
    <3>1. ServerTypeOK'
      BY <2>3, <2>4 DEF TypeOK, ServerTypeOK, Total
    <3>2. NetTypeOK'
      BY <1>1, <2>3, <2>4 DEF TypeOK, NetTypeOK
    <3> QED BY <2>3, <2>4, <3>1, <3>2 DEF TypeOK, AcceptHasBacklog, clientVars
  <2>5. ASSUME NEW h \in Handles,
               peer' = [peer EXCEPT ![h] = Head(backlog)],
               socket' = [socket EXCEPT ![Head(backlog)] = h],
               backlog' = Tail(backlog),
               \/ /\ Total < FD_SETSIZE /\ pc' = "serve"
                  /\ clientArray' = Append(clientArray, Head(backlog))
               \/ pc' = "undefined" /\ UNCHANGED clientArray
        PROVE  ITypeOK'
    <3>1. clientArray \in Seq(Conns) /\ Len(clientArray) \in Nat /\ FD_SETSIZE \in Nat
      BY LenProperties, ConstantsAssumption DEF TypeOK, ServerTypeOK
    <3>2. /\ Append(clientArray, Head(backlog)) \in Seq(Conns)
          /\ Len(Append(clientArray, Head(backlog))) = Len(clientArray) + 1
      BY <2>2, <3>1, AppendProperties
    <3>3. clientArray' \in Seq(Conns) /\ Total' <= FD_SETSIZE
      <4>1. CASE UNCHANGED clientArray
        BY <3>1, <4>1 DEF TypeOK, ServerTypeOK, Total
      <4>2. CASE Total < FD_SETSIZE /\ clientArray' = Append(clientArray, Head(backlog))
        BY <3>1, <3>2, <4>2 DEF Total
      <4> QED BY <2>5, <4>1, <4>2
    <3>4. ServerTypeOK'
      BY <2>3, <2>5, <3>3 DEF TypeOK, ServerTypeOK
    <3>5. ClientTypeOK'
      BY <2>2, <2>3, <2>5 DEF TypeOK, ClientTypeOK
    <3>6. NetTypeOK'
      BY <2>2, <2>3, <2>5 DEF TypeOK, NetTypeOK
    <3> QED BY <2>3, <2>5, <3>4, <3>5, <3>6 DEF TypeOK, AcceptHasBacklog
  <2> QED BY <1>4, <2>4, <2>5 DEF Accept
<1> QED BY <1>2, <1>3, <1>4

(* The loop over the clients.                                              *)
LEMMA ServeTypeOK ==
  ASSUME ITypeOK, NEW k, Serve(k)
  PROVE  ITypeOK'
<1> USE TypesUnchanged DEF ITypeOK
<1> DEFINE c == clientArray[k]
<1>1. /\ Turn(k) /\ UNCHANGED << pc, shouldClose, readSet, timeoutValid, socket,
                                 authSocket, backlog, link, sent, approved >>
  BY DEF Serve, ServeLogin, ServeJoin, ServeLeave, ServeSend, ServeOther, ServeGone,
         clientVars, authVars, history
<1>2. k \in 1 .. Total /\ c \in Conns /\ i' \in 1 .. FD_SETSIZE + 1
  BY <1>1, TurnType
<1>3. pc' # "accept"
  BY <1>1 DEF Turn
<1>4. AcceptHasBacklog'
  BY <1>3 DEF AcceptHasBacklog
<1>5. RoomMap(rooms, Rooms, Conns) /\ name[c] \in Names \union {""}
  BY <1>2 DEF TypeOK, ServerTypeOK, ClientTypeOK
<1> HIDE DEF c
<1>6. CASE ServeLogin(k)
  <2>1. PICK r \in Receptions(c) :
          /\ inbound' = r.inbound
          /\ name' = [name EXCEPT ![c] = r.message.name]
          /\ IF r.message.name = ""
               THEN UNCHANGED << asked, authLink, toAuth, fromAuth, wsaRefs, peer, outbound >>
               ELSE /\ AuthSendMessage(Request(r.message.name, c))
                    /\ asked' = asked \union {<< c, r.message.name >>}
    BY <1>6 DEF ServeLogin, c
  <2>2. UNCHANGED << clientArray, rooms, loggedIn, joined, rejoined >>
    BY <1>6 DEF ServeLogin
  <2>3. r.inbound \in [Conns -> Seq(Items)] /\ r.message.name \in Names \union {""}
    BY <1>2, ReceptionsType DEF Items
  <2>4. ServerTypeOK'
    BY <1>1, <1>2, <2>2 DEF TypeOK, ServerTypeOK
  <2>5. ClientTypeOK'
    BY <1>1, <1>2, <2>1, <2>2, <2>3 DEF TypeOK, ClientTypeOK
  <2>6. CASE r.message.name = ""
    <3>1. UNCHANGED << asked, authLink, toAuth, fromAuth, wsaRefs, peer, outbound >>
      BY <2>1, <2>6
    <3>2. AuthTypeOK' /\ HistoryTypeOK'
      BY <1>1, <2>2, <3>1 DEF authVars, history
    <3>3. NetTypeOK'
      BY <1>1, <2>1, <2>3, <3>1 DEF TypeOK, NetTypeOK
    <3> QED BY <1>4, <2>4, <2>5, <3>2, <3>3 DEF TypeOK
  <2>7. CASE r.message.name \in Names /\ r.message.name # ""
    <3>1. Request(r.message.name, c) \in AuthRequests
      BY <1>2, <2>7 DEF Request, AuthRequests
    <3>2. /\ AuthSendMessage(Request(r.message.name, c))
          /\ asked' = asked \union {<< c, r.message.name >>}
      BY <2>1, <2>7
    <3>3. /\ authLink' \in {"up", "fin", "rst"} /\ wsaRefs' \in 0 .. 2
          /\ toAuth' \in Seq(AuthRequests) /\ fromAuth' \in Seq(AuthResponses)
          /\ peer' \in [Handles -> Conns \union {None, AuthPeer}]
          /\ outbound' \in [Conns -> Seq(Messages)]
      BY <3>1, <3>2, AuthSendMessageType
    <3>4. AuthTypeOK'
      BY <1>1, <3>3 DEF TypeOK, AuthTypeOK
    <3>5. NetTypeOK'
      BY <1>1, <2>1, <2>3, <3>3 DEF TypeOK, NetTypeOK
    <3>6. HistoryTypeOK'
      <4>1. << c, r.message.name >> \in Conns \X Names
        BY <1>2, <2>7
      <4>2. asked' \subseteq Conns \X Names
        BY <3>2, <4>1 DEF TypeOK, HistoryTypeOK
      <4> QED BY <1>1, <2>2, <4>2 DEF TypeOK, HistoryTypeOK
    <3> QED BY <1>4, <2>4, <2>5, <3>4, <3>5, <3>6 DEF TypeOK
  <2> QED BY <2>3, <2>6, <2>7
<1>7. ASSUME NEW r \in Receptions(c), inbound' = r.inbound,
             UNCHANGED << clientArray, clientVars, authVars, peer, asked >>,
             RoomMap(rooms', Rooms, Conns),
             outbound' \in [Conns -> Seq(Messages)],
             \/ UNCHANGED << joined, rejoined >>
             \/ /\ joined' = joined \union {<< c, r.message.room >>}
                /\ rejoined' \in {rejoined, rejoined \union {<< c, r.message.room >>}}
      PROVE  ITypeOK'
  <2>1. r.inbound \in [Conns -> Seq(Items)] /\ r.message.room \in Rooms
    BY <1>2, ReceptionsType DEF Items
  <2>2. ServerTypeOK'
    BY <1>1, <1>2, <1>7 DEF TypeOK, ServerTypeOK, Total
  <2>3. NetTypeOK'
    BY <1>1, <1>7, <2>1 DEF TypeOK, NetTypeOK
  <2>4. HistoryTypeOK'
    <3>1. << c, r.message.room >> \in Conns \X Rooms
      BY <1>2, <2>1
    <3>2. joined' \subseteq Conns \X Rooms /\ rejoined' \subseteq Conns \X Rooms
      BY <1>7, <3>1 DEF TypeOK, HistoryTypeOK
    <3>3. asked' \subseteq Conns \X Names /\ approved' \subseteq Names
      BY <1>1, <1>7 DEF TypeOK, HistoryTypeOK
    <3> QED BY <3>2, <3>3 DEF HistoryTypeOK
  <2> QED BY <1>4, <1>7, <2>2, <2>3, <2>4 DEF TypeOK
<1>8. CASE ServeJoin(k)
  <2>1. PICK r \in Receptions(c), full \in FullWindows :
          /\ inbound' = r.inbound
          /\ rooms' = AddMember(rooms, r.message.room, c)
          /\ Broadcast(rooms', RecieveMessage("server", r.message.room, << "joined", name[c] >>), full)
          /\ joined' = joined \union {<< c, r.message.room >>}
          /\ rejoined' \in {rejoined, rejoined \union {<< c, r.message.room >>}}
    BY <1>8 DEF ServeJoin, c
  <2>2. r.message.room \in Rooms
    BY <1>2, ReceptionsType DEF Items
  <2>3. RoomMap(rooms', Rooms, Conns)
    BY <1>2, <1>5, <2>1, <2>2, RoomOperationsType
  <2>4. RecieveMessage("server", r.message.room, << "joined", name[c] >>) \in Messages
    BY <1>5, <2>2 DEF RecieveMessage, Message, Messages, Types, Texts, Notices
  <2>5. outbound' \in [Conns -> Seq(Messages)]
    BY <2>1, <2>3, <2>4, BroadcastType
  <2> QED BY <1>7, <1>8, <2>1, <2>3, <2>5 DEF ServeJoin
<1>9. CASE ServeLeave(k)
  <2>1. PICK r \in Receptions(c), full \in FullWindows :
          /\ inbound' = r.inbound
          /\ rooms' = RemoveMember(rooms, r.message.room, c)
          /\ Broadcast(rooms', RecieveMessage("server", r.message.room, << "left", name[c] >>), full)
    BY <1>9 DEF ServeLeave, c
  <2>2. r.message.room \in Rooms
    BY <1>2, ReceptionsType DEF Items
  <2>3. RoomMap(rooms', Rooms, Conns)
    BY <1>2, <1>5, <2>1, <2>2, RoomOperationsType
  <2>4. RecieveMessage("server", r.message.room, << "left", name[c] >>) \in Messages
    BY <1>5, <2>2 DEF RecieveMessage, Message, Messages, Types, Texts, Notices
  <2>5. outbound' \in [Conns -> Seq(Messages)]
    BY <2>1, <2>3, <2>4, BroadcastType
  <2> QED BY <1>7, <1>9, <2>1, <2>3, <2>5 DEF ServeLeave, history
<1>10. CASE ServeSend(k)
  <2>1. PICK r \in Receptions(c), full \in FullWindows :
          /\ inbound' = r.inbound
          /\ Broadcast(rooms, RecieveMessage(name[c], r.message.room, r.message.text), full)
    BY <1>10 DEF ServeSend, c
  <2>2. r.message.room \in Rooms /\ r.message.text \in {<< >>} \union (Conns \X Nat)
    BY <1>2, ReceptionsType DEF Items
  <2>3. RecieveMessage(name[c], r.message.room, r.message.text) \in Messages
    BY <1>5, <2>2 DEF RecieveMessage, Message, Messages, Types, Texts
  <2>4. outbound' \in [Conns -> Seq(Messages)]
    BY <1>5, <2>1, <2>3, BroadcastType
  <2> QED BY <1>5, <1>7, <1>10, <2>1, <2>4 DEF ServeSend, history
<1>11. CASE ServeOther(k)
  <2>1. PICK r \in Receptions(c) : inbound' = r.inbound
    BY <1>11 DEF ServeOther, c
  <2>2. outbound' \in [Conns -> Seq(Messages)]
    BY <1>11 DEF ServeOther, TypeOK, NetTypeOK
  <2> QED BY <1>5, <1>7, <1>11, <2>1, <2>2 DEF ServeOther, history
<1>12. CASE ServeGone(k)
  <2>1. /\ peer' = [peer EXCEPT ![socket[c]] = None]
        /\ rooms' = DeleteMember(rooms, c)
        /\ clientArray' = RemoveAt(clientArray, k)
    BY <1>12 DEF ServeGone, CloseSocket, RemoveEntry, c
  <2>2. UNCHANGED << clientVars, authVars, inbound, outbound, history >>
    BY <1>12 DEF ServeGone
  <2>3. "" \in Rooms
    BY DEF Rooms
  <2>4. RoomMap(rooms', Rooms, Conns)
    BY <1>2, <1>5, <2>1, <2>3, RoomOperationsType
  <2>5. clientArray' \in Seq(Conns) /\ Total' <= FD_SETSIZE
    <3>1. /\ clientArray \in Seq(Conns) /\ Len(clientArray) <= FD_SETSIZE
          /\ FD_SETSIZE \in Nat /\ k \in 1 .. Len(clientArray)
      BY <1>2, ConstantsAssumption DEF TypeOK, ServerTypeOK, Total
    <3>2. /\ RemoveAt(clientArray, k) \in Seq(Conns) /\ Len(clientArray) \in Nat
          /\ Len(RemoveAt(clientArray, k)) = Len(clientArray) - 1
      BY <3>1, RemoveAtProperties, LenProperties
    <3> QED BY <2>1, <3>1, <3>2 DEF Total
  <2>6. ServerTypeOK'
    BY <1>1, <1>2, <2>4, <2>5 DEF TypeOK, ServerTypeOK
  <2>7. NetTypeOK'
    BY <1>1, <2>1, <2>2 DEF TypeOK, NetTypeOK
  <2> QED BY <1>4, <2>2, <2>6, <2>7 DEF TypeOK
<1> QED BY <1>6, <1>8, <1>9, <1>10, <1>11, <1>12 DEF Serve

(* The end of that loop, and the poll of the auth connection.              *)
LEMMA EndServeTypeOK ==
  ASSUME ITypeOK, EndServe
  PROVE  ITypeOK'
<1> USE TypesUnchanged DEF ITypeOK
<1>1. 1 \in 1 .. FD_SETSIZE + 1
  <2>1. FD_SETSIZE \in Nat
    BY ConstantsAssumption
  <2> QED BY <2>1
<1>2. ServerTypeOK'
  BY <1>1 DEF EndServe, TypeOK, ServerTypeOK, Total
<1> QED BY <1>2 DEF EndServe, TypeOK, AcceptHasBacklog

LEMMA PollAuthTypeOK ==
  ASSUME ITypeOK, PollAuth
  PROVE  ITypeOK'
<1> USE TypesUnchanged DEF ITypeOK
<1>1. pc' = "top" /\ UNCHANGED << i, shouldClose, clientArray, rooms, readSet, timeoutValid,
        socket, name, authSocket, backlog, link, sent, toAuth, authLink, history >>
  BY DEF PollAuth, PollAuthFails, PollAuthNothing, PollAuthResponse, PollAuthSteals, PollAuthStep
<1>2. ServerTypeOK' /\ AcceptHasBacklog'
  BY <1>1 DEF TypeOK, ServerTypeOK, Total, AcceptHasBacklog
<1>3. ASSUME UNCHANGED loggedIn PROVE ClientTypeOK'
  BY <1>1, <1>3 DEF clientVars
<1>4. ASSUME UNCHANGED << fromAuth, wsaRefs >> PROVE AuthTypeOK'
  BY <1>1, <1>4 DEF authVars
<1>5. CASE PollAuthFails
  <2>1. wsaRefs' \in 0 .. 2 /\ peer' \in [Handles -> Conns \union {None, AuthPeer}]
    BY <1>5, CloseAuthSocketType DEF PollAuthFails
  <2>2. UNCHANGED << loggedIn, outbound, inbound, fromAuth >>
    BY <1>5 DEF PollAuthFails
  <2>3. AuthTypeOK'
    BY <1>1, <2>1, <2>2 DEF TypeOK, AuthTypeOK
  <2>4. NetTypeOK'
    BY <1>1, <2>1, <2>2 DEF TypeOK, NetTypeOK
  <2> QED BY <1>1, <1>2, <1>3, <2>2, <2>3, <2>4 DEF TypeOK
<1>6. CASE PollAuthNothing
  <2>1. UNCHANGED << loggedIn, outbound, inbound, fromAuth, peer, wsaRefs >>
    BY <1>6 DEF PollAuthNothing
  <2> QED BY <1>1, <1>2, <1>3, <1>4, <2>1 DEF TypeOK, netVars
<1>7. CASE PollAuthResponse
  <2>1. PICK n \in 1 .. Len(fromAuth) :
          LET a == ReadResponses(SubSeq(fromAuth, 1, n)) IN
          /\ fromAuth' = SubSeq(fromAuth, n + 1, Len(fromAuth))
          /\ \/ \E k \in 1 .. Total : Reply(clientArray[k], a)
             \/ UNCHANGED << loggedIn, outbound >>
    BY <1>7 DEF PollAuthResponse
  <2> DEFINE a == ReadResponses(SubSeq(fromAuth, 1, n))
  <2>2. UNCHANGED << inbound, peer, wsaRefs >>
    BY <1>7 DEF PollAuthResponse
  <2>3. fromAuth \in Seq(AuthResponses) /\ Len(fromAuth) \in Nat
    BY LenProperties DEF TypeOK, AuthTypeOK
  <2>4. a \in AuthResponses
    <3>1. Len(SubSeq(fromAuth, 1, n)) = n /\ SubSeq(fromAuth, 1, n) \in Seq(AuthResponses)
      BY <2>3, PartOfSeq
    <3>2. SubSeq(fromAuth, 1, n)[n] \in AuthResponses
      BY <2>3, <3>1, ElementOfSeq
    <3> QED BY <3>1, <3>2 DEF ReadResponses, AuthResponses
  <2>5. AuthTypeOK'
    <3>1. SubSeq(fromAuth, n + 1, Len(fromAuth)) \in Seq(AuthResponses)
      BY <2>3, PartOfSeq
    <3> QED BY <1>1, <2>1, <2>2, <3>1 DEF TypeOK, AuthTypeOK
  <2> HIDE DEF a
  <2>6. ASSUME NEW k \in 1 .. Total, Reply(clientArray[k], a)
        PROVE  ClientTypeOK' /\ outbound' \in [Conns -> Seq(Messages)]
    <3>1. clientArray[k] \in Conns
      BY ElementOfSeq DEF TypeOK, ServerTypeOK, Total
    <3>2. Message("REPLY", a.username, "", << a.type, a.by >>) \in Messages
      BY <2>4 DEF AuthResponses, Message, Messages, Types, Rooms, Texts, Replies
    <3>3. \A p \in Conns : Append(outbound[p], Message("REPLY", a.username, "", << a.type, a.by >>)) \in Seq(Messages)
      BY <3>2, AppendProperties DEF TypeOK, NetTypeOK
    <3>4. outbound' \in [Conns -> Seq(Messages)]
      BY <2>6, <3>3 DEF Reply, TypeOK, NetTypeOK
    <3>5. loggedIn' \in [Conns -> BOOLEAN]
      BY <2>6, <3>1 DEF Reply, TypeOK, ClientTypeOK
    <3> QED BY <1>1, <3>4, <3>5 DEF TypeOK, ClientTypeOK
  <2>7. ClientTypeOK' /\ outbound' \in [Conns -> Seq(Messages)]
    <3>1. CASE UNCHANGED << loggedIn, outbound >>
      BY <1>3, <3>1 DEF TypeOK, NetTypeOK
    <3> QED BY <2>1, <2>6, <3>1 DEF a
  <2>8. NetTypeOK'
    BY <1>1, <2>2, <2>7 DEF TypeOK, NetTypeOK
  <2> QED BY <1>1, <1>2, <2>5, <2>7, <2>8 DEF TypeOK
<1>8. CASE PollAuthSteals
  <2> DEFINE p == peer[authSocket]
  <2>1. PICK n \in 1 .. Len(inbound[p]) : inbound' = [inbound EXCEPT ![p] = SubSeq(@, n + 1, Len(@))]
    BY <1>8 DEF PollAuthSteals
  <2>2. p \in Conns /\ UNCHANGED << loggedIn, outbound, fromAuth, peer, wsaRefs >>
    BY <1>8 DEF PollAuthSteals
  <2>3. inbound[p] \in Seq(Items) /\ Len(inbound[p]) \in Nat
    BY <2>2, LenProperties DEF TypeOK, NetTypeOK
  <2>4. SubSeq(inbound[p], n + 1, Len(inbound[p])) \in Seq(Items)
    BY <2>3, PartOfSeq
  <2>5. NetTypeOK'
    BY <1>1, <2>1, <2>2, <2>4 DEF TypeOK, NetTypeOK
  <2> QED BY <1>1, <1>2, <1>3, <1>4, <2>2, <2>5 DEF TypeOK
<1> QED BY <1>5, <1>6, <1>7, <1>8 DEF PollAuth

(* Every step preserves the types.                                         *)
LEMMA NextTypeOK == ITypeOK /\ [Next]_vars => ITypeOK'
<1> SUFFICES ASSUME ITypeOK, [Next]_vars PROVE ITypeOK'
  OBVIOUS
<1>1. CASE UNCHANGED vars
  BY <1>1, TypesUnchanged DEF vars, serverVars, ITypeOK, TypeOK, AcceptHasBacklog, netVars
<1>2. CASE Environment
  BY <1>2, PeersTypeOK, AuthServerTypeOK DEF Environment
<1>3. CASE ServerStep
  BY <1>3, TopTypeOK, ServeTypeOK, EndServeTypeOK, PollAuthTypeOK DEF ServerStep
<1> QED BY <1>1, <1>2, <1>3 DEF Next

(* Whatever the peers, the auth server and the network do, the server's    *)
(* state keeps its type; in particular the loop variable never passes the  *)
(* end of ClientArray by more than one, though entries are removed under   *)
(* it, and AuthClient never undoes more WSAStartups than there were.       *)
THEOREM TypeCorrect == Spec => []TypeOK
<1>1. ITypeOK => TypeOK
  BY DEF ITypeOK
<1> QED BY <1>1, InitTypeOK, NextTypeOK, PTL DEF Spec

-----------------------------------------------------------------------------
(* The clients of ClientArray.                                             *)
(*                                                                         *)
(* Rooms: with whatever interleaving of JOIN, LEAVE and disconnections,    *)
(* only a client that joins a room it is in can occur in it more than once *)
(* or stay in it after it has gone.                                        *)
(*                                                                         *)
(* Sockets: whatever is closed, closed again and given out again, every    *)
(* client of ClientArray owns the handle in its ClientInfo, and every      *)
(* handle that is connected to a client is in ClientArray.                 *)

(* The invariant, room by room: members have joined; who did not join      *)
(* twice occurs at most once (in terms of places, so that one erasure is   *)
(* seen to be enough), and is in ClientArray.                              *)
MembersJoined == \A r \in DOMAIN rooms : \A c \in Range(rooms[r]) : << c, r >> \in joined
SingleMembers ==
  \A r \in DOMAIN rooms : \A c \in Conns : << c, r >> \notin rejoined => AtMostOnce(rooms[r], c)
RoomsOK == MembersJoined /\ SingleMembers /\ DepartedAreNoMembers

(* Most steps change neither the rooms nor ClientArray.                    *)
LEMMA RoomsUnchanged ==
  ASSUME RoomsOK, UNCHANGED << clientArray, rooms, joined, rejoined >>
  PROVE  RoomsOK'
BY DEF RoomsOK, MembersJoined, SingleMembers, DepartedAreNoMembers

(* A new connection only adds to ClientArray.                              *)
LEMMA AcceptRooms ==
  ASSUME ITypeOK, RoomsOK, Accept
  PROVE  RoomsOK'
<1>1. backlog \in Seq(Conns) /\ backlog # << >> /\ clientArray \in Seq(Conns)
  BY DEF Accept, ITypeOK, AcceptHasBacklog, TypeOK, NetTypeOK, ServerTypeOK
<1>2. Head(backlog) \in Conns
  BY <1>1, HeadTailProperties
<1>3. UNCHANGED << rooms, joined, rejoined >>
  BY DEF Accept, history
<1>4. clientArray' = clientArray \/ clientArray' = Append(clientArray, Head(backlog))
  BY DEF Accept
<1>5. Range(clientArray) \subseteq Range(clientArray')
  <2>1. Range(Append(clientArray, Head(backlog))) = Range(clientArray) \union {Head(backlog)}
    BY <1>1, <1>2, AppendRange
  <2> QED BY <1>4, <2>1
<1> QED BY <1>3, <1>5 DEF RoomsOK, MembersJoined, SingleMembers, DepartedAreNoMembers

(* JOIN: the second one is what makes a client a double member.            *)
LEMMA JoinRooms ==
  ASSUME ITypeOK, RoomsOK, NEW k, ServeJoin(k)
  PROVE  RoomsOK'
<1> DEFINE c == clientArray[k]
<1>1. k \in 1 .. Total /\ c \in Conns
  BY TurnType DEF ServeJoin, ITypeOK
<1>2. c \in Range(clientArray)
  BY <1>1, RangeEquality DEF ITypeOK, TypeOK, ServerTypeOK, Total
<1>3. PICK r \in Receptions(c) :
        /\ rooms' = AddMember(rooms, r.message.room, c)
        /\ joined' = joined \union {<< c, r.message.room >>}
        /\ rejoined' = IF c \in Range(MembersOf(rooms, r.message.room))
                         THEN rejoined \union {<< c, r.message.room >>} ELSE rejoined
  BY DEF ServeJoin
<1>4. UNCHANGED clientArray
  BY DEF ServeJoin
<1> DEFINE room == r.message.room
           old  == MembersOf(rooms, room)
<1>5. room \in Rooms
  BY <1>1, ReceptionsType DEF ITypeOK, Items
<1>6. RoomMap(rooms, Rooms, Conns)
  BY DEF ITypeOK, TypeOK, ServerTypeOK
<1>7. old \in Seq(Conns) /\ (room \notin DOMAIN rooms => old = << >>)
      /\ (room \in DOMAIN rooms => old = rooms[room])
  BY <1>5, <1>6, MembersOfType DEF MembersOf
<1> HIDE DEF c, room
<1>8. Append(old, c) \in Seq(Conns) /\ Range(Append(old, c)) = Range(old) \union {c}
  BY <1>1, <1>7, AppendProperties, AppendRange
<1>9. /\ DOMAIN rooms' = DOMAIN rooms \union {room}
      /\ \A x \in DOMAIN rooms' : rooms'[x] = IF x = room THEN Append(old, c) ELSE rooms[x]
  <2>1. rooms' = WithMembers(rooms, room, Append(old, c))
    BY <1>3 DEF AddMember, room
  <2> QED BY <2>1 DEF WithMembers
<1>10. \A x \in Range(old) : room \in DOMAIN rooms /\ x \in Range(rooms[room])
  BY <1>7, RangeEquality
<1>11. MembersJoined'
  BY <1>3, <1>8, <1>9, <1>10 DEF RoomsOK, MembersJoined, room
<1>12. SingleMembers'
  <2> SUFFICES ASSUME NEW x \in DOMAIN rooms', NEW y \in Conns, << y, x >> \notin rejoined'
               PROVE  AtMostOnce(rooms'[x], y)
    BY DEF SingleMembers
  <2>1. << y, x >> \notin rejoined
    BY <1>3
  <2>2. CASE x # room
    BY <1>9, <2>1, <2>2 DEF RoomsOK, SingleMembers
  <2>3. CASE x = room
    <3>1. AtMostOnce(old, y)
      BY <1>7, <2>1, <2>3 DEF RoomsOK, SingleMembers, AtMostOnce
    <3>2. y = c => y \notin Range(old)
      BY <1>3, <2>3 DEF room
    <3>3. AtMostOnce(Append(old, c), y)
      BY <1>1, <1>7, <3>1, <3>2, AppendAtMostOnce
    <3> QED BY <1>9, <2>3, <3>3
  <2> QED BY <2>2, <2>3
<1>13. DepartedAreNoMembers'
  BY <1>2, <1>3, <1>4, <1>8, <1>9, <1>10 DEF RoomsOK, DepartedAreNoMembers, c
<1> QED BY <1>11, <1>12, <1>13 DEF RoomsOK

(* LEAVE erases at most one entry.                                         *)
LEMMA LeaveRooms ==
  ASSUME ITypeOK, RoomsOK, NEW k, ServeLeave(k)
  PROVE  RoomsOK'
<1> DEFINE c == clientArray[k]
<1>1. c \in Conns
  BY TurnType DEF ServeLeave, ITypeOK
<1>2. PICK r \in Receptions(c) : rooms' = RemoveMember(rooms, r.message.room, c)
  BY DEF ServeLeave
<1>3. UNCHANGED << clientArray, joined, rejoined >>
  BY DEF ServeLeave, history
<1> DEFINE room == r.message.room
           old  == MembersOf(rooms, room)
<1>4. room \in Rooms
  BY <1>1, ReceptionsType DEF ITypeOK, Items
<1>5. RoomMap(rooms, Rooms, Conns)
  BY DEF ITypeOK, TypeOK, ServerTypeOK
<1>6. old \in Seq(Conns) /\ (room \notin DOMAIN rooms => old = << >>)
      /\ (room \in DOMAIN rooms => old = rooms[room])
  BY <1>4, <1>5, MembersOfType DEF MembersOf
<1> HIDE DEF c, room
<1>7. RemoveFirst(old, c) \in Seq(Conns) /\ Range(RemoveFirst(old, c)) \subseteq Range(old)
  BY <1>6, RemoveFirstRange
<1>8. /\ DOMAIN rooms' = DOMAIN rooms \union {room}
      /\ \A x \in DOMAIN rooms' : rooms'[x] = IF x = room THEN RemoveFirst(old, c) ELSE rooms[x]
  <2>1. rooms' = WithMembers(rooms, room, RemoveFirst(old, c))
    BY <1>2 DEF RemoveMember, room
  <2> QED BY <2>1 DEF WithMembers
<1>9. \A x \in Range(old) : room \in DOMAIN rooms /\ x \in Range(rooms[room])
  BY <1>6, RangeEquality
<1>10. MembersJoined' /\ DepartedAreNoMembers'
  BY <1>3, <1>7, <1>8, <1>9 DEF RoomsOK, MembersJoined, DepartedAreNoMembers
<1>11. SingleMembers'
  <2> SUFFICES ASSUME NEW x \in DOMAIN rooms', NEW y \in Conns, << y, x >> \notin rejoined
               PROVE  AtMostOnce(rooms'[x], y)
    BY <1>3 DEF SingleMembers
  <2>1. CASE x # room
    BY <1>8, <2>1 DEF RoomsOK, SingleMembers
  <2>2. CASE x = room
    <3>1. AtMostOnce(old, y)
      BY <1>6, <2>2 DEF RoomsOK, SingleMembers, AtMostOnce
    <3>2. AtMostOnce(RemoveFirst(old, c), y)
      BY <1>6, <3>1, RemoveFirstAtMostOnce
    <3> QED BY <1>8, <2>2, <3>2
  <2> QED BY <2>1, <2>2
<1> QED BY <1>10, <1>11 DEF RoomsOK

(* disconnectClient takes its client out of the array and one pointer to   *)
(* it out of every room.                                                   *)
LEMMA GoneRooms ==
  ASSUME ITypeOK, RoomsOK, NEW k, ServeGone(k)
  PROVE  RoomsOK'
<1> DEFINE c == clientArray[k]
<1>1. k \in 1 .. Total /\ c \in Conns
  BY TurnType DEF ServeGone, ITypeOK
<1>2. /\ rooms' = DeleteMember(rooms, c) /\ clientArray' = RemoveAt(clientArray, k)
      /\ UNCHANGED << joined, rejoined >>
  BY DEF ServeGone, RemoveEntry, history
<1>3. RoomMap(rooms, Rooms, Conns) /\ clientArray \in Seq(Conns) /\ k \in 1 .. Len(clientArray)
  BY <1>1 DEF ITypeOK, TypeOK, ServerTypeOK, Total
<1>4. \A x \in Range(clientArray) : x = c \/ x \in Range(clientArray')
  <2>1. Range(clientArray) = {clientArray[j] : j \in 1 .. Len(clientArray)}
    BY <1>3, RangeEquality
  <2>2. Range(clientArray') = {clientArray[j] : j \in (1 .. Len(clientArray)) \ {k}}
    BY <1>2, <1>3, RemoveAtRange
  <2> QED BY <2>1, <2>2
<1> HIDE DEF c
<1>5. DOMAIN rooms' = DOMAIN rooms /\ \A x \in DOMAIN rooms : rooms'[x] = RemoveFirst(rooms[x], c)
  BY <1>2 DEF DeleteMember
<1>6. \A x \in DOMAIN rooms : rooms[x] \in Seq(Conns) /\ Range(rooms'[x]) \subseteq Range(rooms[x])
  BY <1>3, <1>5, RemoveFirstRange DEF RoomMap
<1>7. MembersJoined'
  BY <1>2, <1>5, <1>6 DEF RoomsOK, MembersJoined
<1>8. SingleMembers'
  BY <1>2, <1>5, <1>6, RemoveFirstAtMostOnce DEF RoomsOK, SingleMembers
<1>9. DepartedAreNoMembers'
  <2> SUFFICES ASSUME NEW x \in DOMAIN rooms, NEW y \in Range(rooms'[x]),
                      y \notin Range(clientArray'), << y, x >> \notin rejoined
               PROVE  FALSE
    BY <1>2, <1>5 DEF DepartedAreNoMembers
  <2>1. y \in Range(clientArray)
    BY <1>6 DEF RoomsOK, DepartedAreNoMembers
  <2>2. y = c
    BY <1>4, <2>1
  <2>3. AtMostOnce(rooms[x], c)
    BY <1>1, <2>2 DEF RoomsOK, SingleMembers
  <2>4. c \notin Range(rooms'[x])
    BY <1>5, <1>6, <2>3, RemoveFirstOfOne DEF AtMostOnce
  <2> QED BY <2>2, <2>4
<1> QED BY <1>7, <1>8, <1>9 DEF RoomsOK

-----------------------------------------------------------------------------
(* RoomsOK holds at the beginning and is preserved by every step.          *)
LEMMA RoomsInvariant == Spec => [](ITypeOK /\ RoomsOK)
<1>1. Init => RoomsOK
  BY DEF Init, RoomsOK, MembersJoined, SingleMembers, DepartedAreNoMembers
<1>2. ITypeOK /\ RoomsOK /\ [Next]_vars => RoomsOK'
  <2> SUFFICES ASSUME ITypeOK, RoomsOK, [Next]_vars PROVE RoomsOK'
    OBVIOUS
  <2>1. CASE UNCHANGED vars
    BY <2>1, RoomsUnchanged DEF vars, serverVars, history
  <2>2. CASE Environment
    BY <2>2, RoomsUnchanged
    DEF Environment, Connect, PeerClose, PeerAbort, PeerSend, AuthAnswer, AuthEnds, serverVars, history
  <2>3. CASE Exit \/ Select
    BY <2>3, RoomsUnchanged DEF Exit, Select, history
  <2>4. CASE Accept
    BY <2>4, AcceptRooms
  <2>5. ASSUME NEW k, Serve(k) PROVE RoomsOK'
    <3>1. CASE ServeLogin(k) \/ ServeSend(k) \/ ServeOther(k)
      BY <3>1, RoomsUnchanged DEF ServeLogin, ServeSend, ServeOther, history
    <3> QED BY <2>5, <3>1, JoinRooms, LeaveRooms, GoneRooms DEF Serve
  <2>6. CASE EndServe
    BY <2>6, RoomsUnchanged DEF EndServe, history
  <2>7. CASE PollAuth
    BY <2>7, RoomsUnchanged
    DEF PollAuth, PollAuthFails, PollAuthNothing, PollAuthResponse, PollAuthSteals, PollAuthStep, history
  <2> QED BY <2>2, <2>1, <2>3, <2>4, <2>5, <2>6, <2>7 DEF Next, ServerStep
<1>3. ITypeOK /\ [Next]_vars => ITypeOK'
  BY NextTypeOK
<1> QED BY <1>1, <1>2, <1>3, InitTypeOK, PTL DEF Spec

(* Every pointer to a client in a room is there because the client joined  *)
(* the room and, beyond the first one, because it joined it while it was   *)
(* in it: addMember is the only source of double entries.                  *)
THEOREM SingleMembership == Spec => []MembersOnce
<1>1. ITypeOK /\ RoomsOK => MembersOnce
  <2> SUFFICES ASSUME ITypeOK, RoomsOK, NEW c \in Conns, NEW r \in DOMAIN rooms,
                      << c, r >> \notin rejoined
               PROVE  ~ (Occurrences(rooms, r, c) > 1)
    BY DEF MembersOnce
  <2>1. RoomMap(rooms, Rooms, Conns)
    BY DEF ITypeOK, TypeOK, ServerTypeOK
  <2>2. AtMostOnce(rooms[r], c)
    BY DEF RoomsOK, SingleMembers
  <2> QED BY <2>1, <2>2, OccurrencesAtMostOne
<1> QED BY <1>1, RoomsInvariant, PTL

(* A client that has gone is a member only of rooms that it joined twice:  *)
(* disconnectClient, which erases one pointer per room, is enough for all  *)
(* others, for any number of clients and rooms.                            *)
THEOREM NoDepartedMembers == Spec => []DepartedAreNoMembers
<1>1. RoomsOK => DepartedAreNoMembers
  BY DEF RoomsOK
<1> QED BY <1>1, RoomsInvariant, PTL

-----------------------------------------------------------------------------
(* A connection is in the accept queue or in ClientArray, once, or in      *)
(* neither.                                                                *)
QueuesOK ==
  /\ \A c \in Conns : AtMostOnce(clientArray, c) /\ AtMostOnce(backlog, c)
  /\ \A c \in Range(backlog) : c \notin Range(clientArray)
  /\ \A c \in Conns : link[c] = "idle" => c \notin Range(backlog) \union Range(clientArray)

(* The handle of AuthClient may be given out again only after the first    *)
(* WSACleanup; the second one leaves no handle open.                       *)
HandlesOwned ==
  \A c \in Range(clientArray) : socket[c] \in Handles /\ (wsaRefs > 0 => peer[socket[c]] = c)
HandlesKept ==
  \A h \in Handles : peer[h] \in Conns => peer[h] \in Range(clientArray) /\ socket[peer[h]] = h
HandlesOK ==
  Live =>
    /\ wsaRefs = 2 => AuthUp
    /\ wsaRefs = 0 => \A h \in Handles : peer[h] \notin Conns
    /\ pc = "accept" => wsaRefs > 0
    /\ HandlesOwned /\ HandlesKept

(* Nothing of a connection that was reset is read.                         *)
StreamsOK == \A c \in Conns : link[c] = "rst" => inbound[c] = << >>

(* Winsock is cleaned up because of the auth connection.                   *)
CausesOK == FailureHasCause /\ (wsaRefs < 2 => authLink # "up" \/ SendMayBlock)

SocketsInv == QueuesOK /\ HandlesOK /\ StreamsOK /\ CausesOK

-----------------------------------------------------------------------------
(* Sequences in which nothing occurs twice.                                *)

(* Without its k-th entry, such a sequence lacks that element only.        *)
LEMMA RemoveAtOfDistinct ==
  ASSUME NEW S, NEW s \in Seq(S), NEW k \in 1 .. Len(s), \A x \in S : AtMostOnce(s, x)
  PROVE  /\ Range(RemoveAt(s, k)) = Range(s) \ {s[k]}
         /\ \A x \in S : AtMostOnce(RemoveAt(s, k), x)
<1>1. Len(s) \in Nat /\ \A j \in 1 .. Len(s) : s[j] \in S
  BY LenProperties, ElementOfSeq
<1>2. Range(s) = {s[j] : j \in 1 .. Len(s)}
  BY RangeEquality
<1>3. Range(RemoveAt(s, k)) = {s[j] : j \in (1 .. Len(s)) \ {k}}
  BY RemoveAtRange
<1>4. \A j \in (1 .. Len(s)) \ {k} : s[j] # s[k]
  BY <1>1 DEF AtMostOnce
<1>5. Len(RemoveAt(s, k)) = Len(s) - 1
      /\ \A j \in 1 .. Len(s) - 1 : RemoveAt(s, k)[j] = IF j < k THEN s[j] ELSE s[j + 1]
  BY RemoveAtProperties
<1>6. ASSUME NEW x \in S PROVE AtMostOnce(RemoveAt(s, k), x)
  <2> SUFFICES ASSUME NEW a \in 1 .. Len(s) - 1, NEW b \in 1 .. Len(s) - 1,
                      RemoveAt(s, k)[a] = x, RemoveAt(s, k)[b] = x
               PROVE  a = b
    BY <1>5 DEF AtMostOnce
  <2> DEFINE Old(j) == IF j < k THEN j ELSE j + 1
  <2>1. Old(a) \in 1 .. Len(s) /\ Old(b) \in 1 .. Len(s)
    BY <1>1
  <2>2. s[Old(a)] = x /\ s[Old(b)] = x
    BY <1>5
  <2>3. Old(a) = Old(b)
    BY <2>1, <2>2 DEF AtMostOnce
  <2> QED BY <1>1, <2>3
<1> QED BY <1>2, <1>3, <1>4, <1>6

(* The head of such a sequence is not in its tail.                         *)
LEMMA TailOfDistinct ==
  ASSUME NEW S, NEW s \in Seq(S), s # << >>, \A x \in S : AtMostOnce(s, x)
  PROVE  /\ Head(s) \in S /\ Head(s) \in Range(s) /\ Tail(s) \in Seq(S)
         /\ Range(Tail(s)) = Range(s) \ {Head(s)}
         /\ \A x \in S : AtMostOnce(Tail(s), x)
<1>1. /\ Len(s) \in Nat \ {0} /\ Head(s) \in S /\ Head(s) = s[1] /\ Tail(s) \in Seq(S)
      /\ Len(Tail(s)) = Len(s) - 1 /\ \A j \in 1 .. Len(s) - 1 : Tail(s)[j] = s[j + 1]
  BY HeadTailProperties, LenProperties, EmptySeq
<1>2. Range(s) = {s[j] : j \in 1 .. Len(s)} /\ Range(Tail(s)) = {Tail(s)[j] : j \in 1 .. Len(s) - 1}
  BY <1>1, RangeEquality
<1>3. \A j \in 2 .. Len(s) : s[j] # s[1]
  BY <1>1 DEF AtMostOnce
<1>4. Range(Tail(s)) = {s[j] : j \in 2 .. Len(s)}
  <2>1. \A j \in 2 .. Len(s) : j - 1 \in 1 .. Len(s) - 1 /\ s[j] = Tail(s)[j - 1]
    BY <1>1
  <2>2. \A j \in 1 .. Len(s) - 1 : j + 1 \in 2 .. Len(s) /\ Tail(s)[j] = s[j + 1]
    BY <1>1
  <2>3. Range(Tail(s)) \subseteq {s[j] : j \in 2 .. Len(s)}
    BY <1>2, <2>2
  <2>4. {s[j] : j \in 2 .. Len(s)} \subseteq Range(Tail(s))
    BY <1>2, <2>1
  <2> QED BY <2>3, <2>4
<1>5. Range(Tail(s)) = Range(s) \ {Head(s)}
  BY <1>1, <1>2, <1>3, <1>4
<1>6. ASSUME NEW x \in S PROVE AtMostOnce(Tail(s), x)
  <2> SUFFICES ASSUME NEW a \in 1 .. Len(s) - 1, NEW b \in 1 .. Len(s) - 1,
                      Tail(s)[a] = x, Tail(s)[b] = x
               PROVE  a = b
    BY <1>1 DEF AtMostOnce
  <2>1. a + 1 \in 1 .. Len(s) /\ b + 1 \in 1 .. Len(s) /\ s[a + 1] = x /\ s[b + 1] = x
    BY <1>1
  <2> QED BY <1>1, <2>1 DEF AtMostOnce
<1>7. Head(s) \in Range(s)
  BY <1>1, <1>2
<1> QED BY <1>1, <1>5, <1>6, <1>7

-----------------------------------------------------------------------------
(* Steps.                                                                  *)

(* Steps that touch neither handles nor queues.                            *)
LEMMA SocketsUntouched ==
  ASSUME SocketsInv, UNCHANGED << clientArray, socket, authSocket, wsaRefs, peer, backlog, timeoutValid, link >>,
         pc' = pc \/ (Live /\ pc' \in {"top", "serve", "auth"}),
         authLink' = authLink \/ authLink' # "up",
         \A c \in Conns : link[c] = "rst" => inbound'[c] = inbound[c]
  PROVE  SocketsInv'
<1>1. QueuesOK'
  BY DEF SocketsInv, QueuesOK
<1>2. HandlesOK'
  BY DEF SocketsInv, HandlesOK, HandlesOwned, HandlesKept, Live, AuthUp
<1>3. StreamsOK'
  BY DEF SocketsInv, StreamsOK
<1>4. CausesOK'
  BY DEF SocketsInv, CausesOK, FailureHasCause
<1> QED BY <1>1, <1>2, <1>3, <1>4 DEF SocketsInv

(* What a recv leaves: it is not from a connection that was reset.         *)
LEMMA ReceptionsSpareReset ==
  ASSUME TypeOK, NEW c, NEW r \in Receptions(c)
  PROVE  \A x \in Conns : link[x] = "rst" => r.inbound[x] = inbound[x]
<1>1. inbound \in [Conns -> Seq(Items)]
  BY DEF TypeOK, NetTypeOK
<1>2. link[peer[socket[c]]] # "rst"
  BY DEF Receptions
<1>3. PICK n, cut : r \in Reception(peer[socket[c]], n, cut)
  BY DEF Receptions
<1> QED BY <1>1, <1>2, <1>3 DEF Reception

(* A connection joins the accept queue once in its life, when it begins.   *)
LEMMA ConnectSockets ==
  ASSUME ITypeOK, SocketsInv, NEW c \in Conns, Connect(c)
  PROVE  SocketsInv'
<1>1. /\ backlog' = Append(backlog, c) /\ link[c] = "idle"
      /\ link' = [link EXCEPT ![c] = "open"]
      /\ UNCHANGED << pc, clientArray, socket, authSocket, wsaRefs, peer, timeoutValid, inbound, authLink >>
  BY DEF Connect, serverVars, clientVars, authVars
<1>2. backlog \in Seq(Conns) /\ link \in [Conns -> {"idle", "open", "fin", "rst"}]
  BY DEF ITypeOK, TypeOK, NetTypeOK
<1>3. Range(backlog') = Range(backlog) \union {c}
  BY <1>1, <1>2, AppendRange
<1>4. c \notin Range(backlog) /\ c \notin Range(clientArray)
  BY <1>1 DEF SocketsInv, QueuesOK
<1>5. \A x \in Conns : AtMostOnce(backlog', x)
  BY <1>1, <1>2, <1>4, AppendAtMostOnce DEF SocketsInv, QueuesOK
<1>6. QueuesOK'
  BY <1>1, <1>2, <1>3, <1>4, <1>5 DEF SocketsInv, QueuesOK
<1>7. HandlesOK'
  BY <1>1 DEF SocketsInv, HandlesOK, HandlesOwned, HandlesKept, Live, AuthUp
<1>8. StreamsOK'
  BY <1>1, <1>2 DEF SocketsInv, StreamsOK
<1>9. ASSUME backlog # << >>, link[Head(backlog)] = "rst"
      PROVE  backlog' # << >> /\ link'[Head(backlog')] = "rst"
  <2>1. Head(backlog) \in Conns /\ Head(backlog) = backlog[1] /\ Len(backlog) \in Nat \ {0}
    BY <1>2, <1>9, HeadTailProperties, EmptySeq
  <2>2. Len(backlog') = Len(backlog) + 1 /\ backlog'[1] = backlog[1]
    BY <1>1, <1>2, <2>1, AppendProperties
  <2>3. backlog' # << >> /\ Head(backlog') = backlog'[1]
    BY <2>1, <2>2
  <2> QED BY <1>1, <1>2, <1>9, <2>1, <2>2, <2>3
<1>10. CausesOK'
  BY <1>1, <1>9 DEF SocketsInv, CausesOK, FailureHasCause
<1> QED BY <1>6, <1>7, <1>8, <1>10 DEF SocketsInv

(* A peer ends its connection.                                             *)
LEMMA EndingsSockets ==
  ASSUME ITypeOK, SocketsInv, NEW c \in Conns, PeerClose(c) \/ PeerAbort(c)
  PROVE  SocketsInv'
<1>1. UNCHANGED << pc, clientArray, socket, authSocket, wsaRefs, peer, timeoutValid, backlog, authLink >>
  BY DEF PeerClose, PeerAbort, serverVars, clientVars, authVars
<1>2. link \in [Conns -> {"idle", "open", "fin", "rst"}] /\ inbound \in [Conns -> Seq(Items)]
  BY DEF ITypeOK, TypeOK, NetTypeOK
<1>3. \/ link[c] = "open" /\ link' = [link EXCEPT ![c] = "fin"] /\ inbound' = inbound
      \/ /\ link[c] \in {"open", "fin"} /\ link' = [link EXCEPT ![c] = "rst"]
         /\ inbound' = [inbound EXCEPT ![c] = << >>]
  BY DEF PeerClose, PeerAbort
<1>4. QueuesOK'
  BY <1>1, <1>2, <1>3 DEF SocketsInv, QueuesOK
<1>5. HandlesOK'
  BY <1>1 DEF SocketsInv, HandlesOK, HandlesOwned, HandlesKept, Live, AuthUp
<1>6. StreamsOK'
  BY <1>2, <1>3 DEF SocketsInv, StreamsOK
<1>7. CausesOK'
  <2>1. backlog \in Seq(Conns)
    BY DEF ITypeOK, TypeOK, NetTypeOK
  <2>2. backlog # << >> => Head(backlog) \in Conns
    BY <2>1, HeadTailProperties
  <2>3. backlog # << >> /\ link[Head(backlog)] = "rst" => link'[Head(backlog)] = "rst"
    BY <1>2, <1>3, <2>2
  <2> QED BY <1>1, <2>3 DEF SocketsInv, CausesOK, FailureHasCause
<1> QED BY <1>4, <1>5, <1>6, <1>7 DEF SocketsInv

(* select fails when its timeout is not valid or Winsock is cleaned up: no *)
(* handle of ClientArray is closed before that.                            *)
LEMMA SelectSockets ==
  ASSUME ITypeOK, SocketsInv, Exit \/ Select
  PROVE  SocketsInv'
<1>1. /\ pc = "top" /\ pc' \in {"exited", "failed", "accept", "serve"}
      /\ UNCHANGED << clientArray, socket, authSocket, wsaRefs, backlog, timeoutValid, link, inbound, authLink >>
  BY DEF Exit, Select, clientVars, authVars
<1>2. QueuesOK' /\ StreamsOK'
  BY <1>1 DEF SocketsInv, QueuesOK, StreamsOK
<1>3. HandlesOK'
  <2>1. CASE pc' \in {"accept", "serve"}
    <3>1. UNCHANGED peer /\ wsaRefs # 0
      BY <2>1 DEF Exit, Select, SelectFails
    <3>2. wsaRefs > 0
      BY <3>1 DEF ITypeOK, TypeOK, AuthTypeOK
    <3> QED BY <1>1, <3>1, <3>2 DEF SocketsInv, HandlesOK, HandlesOwned, HandlesKept, Live, AuthUp
  <2> QED BY <1>1, <2>1 DEF HandlesOK, Live
<1>4. CausesOK'
  <2> SUFFICES ASSUME pc' = "failed" PROVE ~timeoutValid \/ authLink # "up" \/ SendMayBlock
    BY <1>1 DEF SocketsInv, CausesOK, FailureHasCause
  <2>1. SelectFails
    BY <1>1 DEF Exit, Select
  <2>2. CASE wsaRefs = 0
    BY <2>2 DEF SocketsInv, CausesOK
  <2>3. CASE wsaRefs > 0
    <3>1. clientArray \in Seq(Conns)
      BY DEF ITypeOK, TypeOK, ServerTypeOK
    <3>2. \A k \in 1 .. Total : clientArray[k] \in Conns /\ clientArray[k] \in Range(clientArray)
      BY <3>1, ElementOfSeq, RangeEquality DEF Total
    <3>3. \A k \in 1 .. Total : peer[socket[clientArray[k]]] # None
      BY <1>1, <2>3, <3>2, ConstantsAssumption DEF SocketsInv, HandlesOK, HandlesOwned, Live
    <3>4. \A h \in Watched : peer[h] # None
      BY <3>3 DEF Watched
    <3> QED BY <2>1, <2>3, <3>4 DEF SelectFails
  <2> QED BY <2>2, <2>3 DEF ITypeOK, TypeOK, AuthTypeOK
<1> QED BY <1>2, <1>3, <1>4 DEF SocketsInv

(* accept: the connection moves from the queue to ClientArray, with a      *)
(* handle that nobody had.                                                 *)
LEMMA AcceptSockets ==
  ASSUME ITypeOK, SocketsInv, Accept
  PROVE  SocketsInv'
<1> DEFINE d == Head(backlog)
<1>1. /\ backlog \in Seq(Conns) /\ backlog # << >> /\ clientArray \in Seq(Conns)
      /\ socket \in [Conns -> Handles \union {None}] /\ peer \in [Handles -> Conns \union {None, AuthPeer}]
  BY DEF Accept, ITypeOK, AcceptHasBacklog, TypeOK, NetTypeOK, ServerTypeOK, ClientTypeOK
<1>2. /\ d \in Conns /\ d \in Range(backlog) /\ Tail(backlog) \in Seq(Conns)
      /\ Range(Tail(backlog)) = Range(backlog) \ {d}
      /\ \A x \in Conns : AtMostOnce(Tail(backlog), x)
  BY <1>1, TailOfDistinct DEF SocketsInv, QueuesOK
<1>3. d \notin Range(clientArray)
  BY <1>2 DEF SocketsInv, QueuesOK
<1>4. /\ pc = "accept" /\ wsaRefs > 0
      /\ UNCHANGED << authSocket, wsaRefs, timeoutValid, link, inbound, authLink >>
  BY DEF Accept, authVars, SocketsInv, HandlesOK, Live
<1>5. StreamsOK'
  BY <1>4 DEF SocketsInv, StreamsOK
<1>6. CASE /\ link[d] = "rst" /\ pc' = "failed" /\ UNCHANGED << clientArray, socket, backlog >>
  BY <1>1, <1>4, <1>5, <1>6
  DEF SocketsInv, QueuesOK, HandlesOK, Live, CausesOK, FailureHasCause
<1>7. CASE \E h \in Handles :
             /\ peer[h] = None /\ peer' = [peer EXCEPT ![h] = d]
             /\ socket' = [socket EXCEPT ![d] = h] /\ backlog' = Tail(backlog)
             /\ \/ clientArray' = Append(clientArray, d) /\ pc' = "serve"
                \/ pc' = "undefined" /\ UNCHANGED clientArray
  <2>1. PICK h \in Handles :
          /\ peer[h] = None /\ peer' = [peer EXCEPT ![h] = d]
          /\ socket' = [socket EXCEPT ![d] = h] /\ backlog' = Tail(backlog)
          /\ \/ clientArray' = Append(clientArray, d) /\ pc' = "serve"
             \/ pc' = "undefined" /\ UNCHANGED clientArray
    BY <1>7
  <2>2. /\ Range(Append(clientArray, d)) = Range(clientArray) \union {d}
        /\ \A x \in Conns : AtMostOnce(Append(clientArray, d), x)
    BY <1>1, <1>2, <1>3, AppendRange, AppendAtMostOnce DEF SocketsInv, QueuesOK
  <2>3. Range(clientArray) \subseteq Conns
    BY <1>1, RangeEquality, ElementOfSeq
  <2> HIDE DEF d
  <2>4. QueuesOK'
    BY <1>2, <1>3, <1>4, <2>1, <2>2 DEF SocketsInv, QueuesOK
  <2>5. CausesOK'
    BY <1>4, <2>1 DEF SocketsInv, CausesOK, FailureHasCause
  <2>6. HandlesOK'
    <3> SUFFICES ASSUME clientArray' = Append(clientArray, d), pc' = "serve"
                 PROVE  HandlesOK'
      BY <2>1 DEF HandlesOK, Live
    <3>1. AuthUp => AuthUp'
      BY <1>1, <1>4, <2>1, ConstantsAssumption DEF AuthUp, ITypeOK, TypeOK, AuthTypeOK
    <3>2. HandlesOwned'
      <4>1. \A c \in Range(clientArray) : socket[c] \in Handles /\ peer[socket[c]] = c
        BY <1>4 DEF SocketsInv, HandlesOK, HandlesOwned, Live
      <4>2. \A c \in Range(clientArray) : c # d /\ socket[c] # h
        BY <1>3, <2>1, <2>3, <4>1, ConstantsAssumption
      <4>3. \A c \in Range(clientArray) : socket'[c] = socket[c] /\ peer'[socket[c]] = c
        BY <1>1, <2>1, <2>3, <4>1, <4>2
      <4>4. socket'[d] = h /\ peer'[h] = d
        BY <1>1, <1>2, <2>1
      <4> QED BY <2>2, <4>1, <4>3, <4>4 DEF HandlesOwned
    <3>3. HandlesKept'
      <4> SUFFICES ASSUME NEW g \in Handles, peer'[g] \in Conns
                   PROVE  peer'[g] \in Range(clientArray') /\ socket'[peer'[g]] = g
        BY DEF HandlesKept
      <4>1. CASE g = h
        BY <1>1, <1>2, <2>1, <2>2, <4>1
      <4>2. CASE g # h
        <5>1. peer'[g] = peer[g]
          BY <1>1, <2>1, <4>2
        <5>2. peer[g] \in Range(clientArray) /\ socket[peer[g]] = g
          BY <1>4, <5>1 DEF SocketsInv, HandlesOK, HandlesKept, Live
        <5>3. peer[g] # d /\ peer[g] \in Conns
          BY <1>3, <5>1, <5>2
        <5> QED BY <1>1, <2>1, <2>2, <5>1, <5>2, <5>3
      <4> QED BY <4>1, <4>2
    <3> QED BY <1>4, <3>1, <3>2, <3>3 DEF SocketsInv, HandlesOK, Live
  <2> QED BY <1>5, <2>4, <2>5, <2>6 DEF SocketsInv
<1> QED BY <1>6, <1>7 DEF Accept

(* disconnectClient closes the handle of the entry that it takes out.      *)
LEMMA GoneSockets ==
  ASSUME ITypeOK, SocketsInv, NEW k, ServeGone(k)
  PROVE  SocketsInv'
<1> DEFINE c == clientArray[k]
<1>1. k \in 1 .. Total /\ c \in Conns
  BY TurnType DEF ServeGone, ITypeOK
<1>2. /\ clientArray \in Seq(Conns) /\ k \in 1 .. Len(clientArray)
      /\ socket \in [Conns -> Handles \union {None}] /\ peer \in [Handles -> Conns \union {None, AuthPeer}]
  BY <1>1 DEF ITypeOK, TypeOK, NetTypeOK, ServerTypeOK, ClientTypeOK, Total
<1>3. /\ pc = "serve" /\ pc' = pc /\ clientArray' = RemoveAt(clientArray, k)
      /\ peer' = [peer EXCEPT ![socket[c]] = None]
      /\ UNCHANGED << socket, authSocket, wsaRefs, timeoutValid, backlog, link, inbound, authLink >>
  BY DEF ServeGone, Turn, CloseSocket, RemoveEntry, clientVars, authVars
<1>4. /\ Range(clientArray') = Range(clientArray) \ {c}
      /\ \A x \in Conns : AtMostOnce(clientArray', x)
  BY <1>2, <1>3, RemoveAtOfDistinct DEF SocketsInv, QueuesOK
<1>5. c \in Range(clientArray) /\ Range(clientArray) \subseteq Conns
  BY <1>2, RangeEquality, ElementOfSeq
<1> HIDE DEF c
<1>6. QueuesOK' /\ StreamsOK' /\ CausesOK'
  BY <1>3, <1>4 DEF SocketsInv, QueuesOK, StreamsOK, CausesOK, FailureHasCause
<1>7. \A h \in Handles : peer'[h] = peer[h] \/ (h = socket[c] /\ peer'[h] = None)
  BY <1>2, <1>3
<1>8. CASE wsaRefs = 0
  <2>1. \A h \in Handles : peer'[h] \notin Conns
    BY <1>3, <1>7, <1>8, ConstantsAssumption DEF SocketsInv, HandlesOK, Live
  <2>2. HandlesOwned'
    BY <1>3, <1>4, <1>8 DEF SocketsInv, HandlesOK, HandlesOwned, Live
  <2>3. HandlesOK'
    BY <1>3, <1>8, <2>1, <2>2 DEF HandlesOK, HandlesKept
  <2> QED BY <1>6, <2>3 DEF SocketsInv
<1>9. CASE wsaRefs > 0
  <2>1. \A x \in Range(clientArray) : socket[x] \in Handles /\ peer[socket[x]] = x
    BY <1>3, <1>9 DEF SocketsInv, HandlesOK, HandlesOwned, Live
  <2>2. HandlesOwned'
    BY <1>3, <1>4, <1>5, <1>7, <2>1 DEF HandlesOwned
  <2>3. HandlesKept'
    <3> SUFFICES ASSUME NEW g \in Handles, peer'[g] \in Conns
                 PROVE  peer'[g] \in Range(clientArray') /\ socket'[peer'[g]] = g
      BY DEF HandlesKept
    <3>1. peer'[g] = peer[g] /\ g # socket[c]
      BY <1>2, <1>3, <1>7, ConstantsAssumption
    <3>2. peer[g] \in Range(clientArray) /\ socket[peer[g]] = g
      BY <1>3, <3>1 DEF SocketsInv, HandlesOK, HandlesKept, Live
    <3> QED BY <1>3, <1>4, <3>1, <3>2
  <2>4. AuthUp => AuthUp'
    <3>1. peer[socket[c]] = c /\ authSocket \in Handles
      BY <1>5, <2>1 DEF ITypeOK, TypeOK, AuthTypeOK
    <3>2. AuthUp => authSocket # socket[c]
      BY <1>5, <3>1, ConstantsAssumption DEF AuthUp
    <3> QED BY <1>3, <1>7, <3>1, <3>2 DEF AuthUp
  <2>5. HandlesOK'
    BY <1>3, <1>9, <2>2, <2>3, <2>4 DEF SocketsInv, HandlesOK, Live
  <2> QED BY <1>6, <2>5 DEF SocketsInv
<1> QED BY <1>8, <1>9 DEF ITypeOK, TypeOK, AuthTypeOK

(* closesocket and WSACleanup on an error of the auth connection: the      *)
(* first time the handle is the auth server's, the second time all handles *)
(* are closed.                                                             *)
LEMMA CloseAuthSockets ==
  ASSUME ITypeOK, SocketsInv, CloseAuthSocket, Live, pc' \in {"top", "serve"},
         UNCHANGED << clientArray, socket, authSocket, backlog, timeoutValid, link, authLink >>,
         AuthUp => authLink = "rst" \/ SendMayBlock,
         \A c \in Conns : link[c] = "rst" => inbound'[c] = inbound[c]
  PROVE  SocketsInv'
<1>1. /\ wsaRefs \in 0 .. 2 /\ peer \in [Handles -> Conns \union {None, AuthPeer}]
      /\ authSocket \in Handles
  BY DEF ITypeOK, TypeOK, AuthTypeOK, NetTypeOK
<1>2. QueuesOK' /\ StreamsOK'
  BY DEF SocketsInv, QueuesOK, StreamsOK
<1>3. CausesOK'
  BY <1>1 DEF CloseAuthSocket, SocketsInv, HandlesOK, CausesOK, FailureHasCause
<1>4. CASE wsaRefs \in 0 .. 1
  <2>1. wsaRefs' = 0 /\ peer' = AllClosed
    BY <1>4 DEF CloseAuthSocket
  <2>2. \A h \in Handles : peer'[h] \notin Conns
    BY <2>1, ConstantsAssumption DEF AllClosed
  <2>3. pc' # "accept"
    OBVIOUS
  <2>4. HandlesOK'
    BY <2>1, <2>2, <2>3 DEF SocketsInv, HandlesOK, HandlesOwned, HandlesKept
  <2> QED BY <1>2, <1>3, <2>4 DEF SocketsInv
<1>5. CASE wsaRefs = 2
  <2>1. wsaRefs' = 1 /\ peer' = [peer EXCEPT ![authSocket] = None]
    BY <1>5 DEF CloseAuthSocket
  <2>2. peer[authSocket] = AuthPeer
    BY <1>5 DEF SocketsInv, HandlesOK, AuthUp
  <2>3. clientArray \in Seq(Conns)
    BY DEF ITypeOK, TypeOK, ServerTypeOK
  <2>4. Range(clientArray) \subseteq Conns
    BY <2>3, RangeEquality, ElementOfSeq
  <2>5. HandlesOwned'
    <3>1. \A c \in Range(clientArray) : socket[c] \in Handles /\ peer[socket[c]] = c
      BY <1>5 DEF SocketsInv, HandlesOK, HandlesOwned
    <3>2. \A c \in Range(clientArray) : socket[c] # authSocket
      BY <2>2, <2>4, <3>1, ConstantsAssumption
    <3>3. \A c \in Range(clientArray) : peer'[socket[c]] = c
      BY <1>1, <2>1, <3>1, <3>2
    <3> QED BY <3>1, <3>3 DEF HandlesOwned
  <2>6. HandlesKept'
    BY <1>1, <2>1, ConstantsAssumption DEF SocketsInv, HandlesOK, HandlesKept
  <2>7. HandlesOK'
    BY <2>1, <2>5, <2>6 DEF HandlesOK
  <2> QED BY <1>2, <1>3, <2>7 DEF SocketsInv
<1> QED BY <1>1, <1>4, <1>5

(* LOGIN: the request is sent, is lost, or costs the auth connection.      *)
LEMMA LoginSockets ==
  ASSUME ITypeOK, SocketsInv, NEW k, ServeLogin(k)
  PROVE  SocketsInv'
<1>1. PICK r \in Receptions(clientArray[k]) :
        /\ inbound' = r.inbound
        /\ \/ UNCHANGED << authLink, wsaRefs, peer >>
           \/ AuthSendMessage(Request(r.message.name, clientArray[k]))
  BY DEF ServeLogin
<1>2. /\ pc = "serve" /\ Live
      /\ UNCHANGED << pc, clientArray, socket, authSocket, backlog, timeoutValid, link >>
  BY DEF ServeLogin, Turn, Live
<1>3. \A c \in Conns : link[c] = "rst" => inbound'[c] = inbound[c]
  BY <1>1, ReceptionsSpareReset DEF ITypeOK
<1>4. CASE UNCHANGED << wsaRefs, peer >> /\ (authLink' = authLink \/ authLink' = "rst")
  BY <1>2, <1>3, <1>4, SocketsUntouched
<1>5. CASE CloseAuthSocket /\ UNCHANGED authLink /\ (AuthUp => authLink = "rst" \/ SendMayBlock)
  BY <1>2, <1>3, <1>5, CloseAuthSockets
<1>6. ASSUME NEW req, AuthSendMessage(req)
      PROVE  \/ UNCHANGED << wsaRefs, peer >> /\ (authLink' = authLink \/ authLink' = "rst")
             \/ CloseAuthSocket /\ UNCHANGED authLink /\ (AuthUp => authLink = "rst" \/ SendMayBlock)
  BY <1>6, ConstantsAssumption DEF AuthSendMessage, AuthUp
<1> QED BY <1>1, <1>4, <1>5, <1>6

(* The auth poll.                                                          *)
LEMMA PollSockets ==
  ASSUME ITypeOK, SocketsInv, PollAuth
  PROVE  SocketsInv'
<1>1. /\ pc = "auth" /\ pc' = "top" /\ Live
      /\ UNCHANGED << clientArray, socket, authSocket, backlog, timeoutValid, link, authLink >>
  BY DEF PollAuth, PollAuthFails, PollAuthNothing, PollAuthResponse, PollAuthSteals, PollAuthStep, Live
<1>2. \A c \in Conns : link[c] = "rst" => inbound'[c] = inbound[c]
  <2>1. inbound \in [Conns -> Seq(Items)]
    BY DEF ITypeOK, TypeOK, NetTypeOK
  <2>2. UNCHANGED inbound \/ \E p : link[p] # "rst" /\ \E s : inbound' = [inbound EXCEPT ![p] = s]
    BY DEF PollAuth, PollAuthFails, PollAuthNothing, PollAuthResponse, PollAuthSteals
  <2> QED BY <2>1, <2>2
<1>3. CASE PollAuthFails
  <2>1. CloseAuthSocket /\ (AuthUp => authLink = "rst")
    BY <1>3, ConstantsAssumption DEF PollAuthFails, AuthUp
  <2> QED BY <1>1, <1>2, <2>1, CloseAuthSockets
<1>4. CASE PollAuthNothing \/ PollAuthResponse \/ PollAuthSteals
  <2>1. UNCHANGED << wsaRefs, peer >>
    BY <1>4 DEF PollAuthNothing, PollAuthResponse, PollAuthSteals
  <2> QED BY <1>1, <1>2, <2>1, SocketsUntouched
<1> QED BY <1>3, <1>4 DEF PollAuth

-----------------------------------------------------------------------------
(* SocketsInv holds at the beginning and is preserved by every step.       *)
LEMMA InitSockets == Init => SocketsInv
<1> SUFFICES ASSUME Init PROVE SocketsInv
  OBVIOUS
<1>1. /\ clientArray = << >> /\ backlog = << >> /\ wsaRefs = 2 /\ pc = "top"
      /\ inbound = [c \in Conns |-> << >>]
  BY DEF Init
<1>2. authSocket \in Handles /\ peer = [h \in Handles |-> IF h = authSocket THEN AuthPeer ELSE None]
  BY ConstantsAssumption DEF Init
<1>3. Range(<< >>) = {} /\ \A c : AtMostOnce(<< >>, c)
  BY DEF Range, AtMostOnce
<1>4. QueuesOK
  BY <1>1, <1>3 DEF QueuesOK
<1>5. HandlesOK
  BY <1>1, <1>2, <1>3, ConstantsAssumption DEF HandlesOK, HandlesOwned, HandlesKept, AuthUp
<1>6. StreamsOK /\ CausesOK
  BY <1>1 DEF StreamsOK, CausesOK, FailureHasCause
<1> QED BY <1>4, <1>5, <1>6 DEF SocketsInv

LEMMA NextSockets == ITypeOK /\ SocketsInv /\ [Next]_vars => SocketsInv'
<1> SUFFICES ASSUME ITypeOK, SocketsInv, [Next]_vars PROVE SocketsInv'
  OBVIOUS
<1>1. CASE UNCHANGED vars
  BY <1>1, SocketsUntouched DEF vars, serverVars, clientVars, authVars, netVars
<1>2. ASSUME NEW c \in Conns, NEW m, PeerSend(c, m) PROVE SocketsInv'
  <2>1. inbound \in [Conns -> Seq(Items)]
    BY DEF ITypeOK, TypeOK, NetTypeOK
  <2>2. \A x \in Conns : link[x] = "rst" => inbound'[x] = inbound[x]
    BY <1>2, <2>1 DEF PeerSend
  <2> QED BY <1>2, <2>2, SocketsUntouched DEF PeerSend, serverVars, clientVars, authVars
<1>3. CASE AuthAnswer \/ AuthEnds
  BY <1>3, SocketsUntouched DEF AuthAnswer, AuthEnds, serverVars, clientVars, netVars
<1>4. CASE Environment
  BY <1>2, <1>3, <1>4, ConnectSockets, EndingsSockets DEF Environment
<1>5. ASSUME NEW k, ServeJoin(k) \/ ServeLeave(k) \/ ServeSend(k) \/ ServeOther(k) PROVE SocketsInv'
  <2>1. PICK r \in Receptions(clientArray[k]) : inbound' = r.inbound
    BY <1>5 DEF ServeJoin, ServeLeave, ServeSend, ServeOther
  <2>2. UNCHANGED << pc, clientArray, clientVars, authVars, peer, backlog, timeoutValid, link >>
    BY <1>5 DEF ServeJoin, ServeLeave, ServeSend, ServeOther
  <2>3. \A c \in Conns : link[c] = "rst" => inbound'[c] = inbound[c]
    BY <2>1, ReceptionsSpareReset DEF ITypeOK
  <2> QED BY <2>2, <2>3, SocketsUntouched DEF clientVars, authVars
<1>6. CASE EndServe
  BY <1>6, SocketsUntouched DEF EndServe, Live, clientVars, authVars, netVars
<1>7. CASE ServerStep
  BY <1>5, <1>6, <1>7, SelectSockets, AcceptSockets, LoginSockets, GoneSockets, PollSockets
  DEF ServerStep, Serve
<1> QED BY <1>1, <1>4, <1>7 DEF Next

LEMMA SocketsInvariant == Spec => [](ITypeOK /\ SocketsInv)
BY InitTypeOK, NextTypeOK, InitSockets, NextSockets, PTL DEF Spec

-----------------------------------------------------------------------------
(* Whatever is closed and given out again, the handle in the ClientInfo of *)
(* a client of ClientArray is connected to that very client, until Winsock *)
(* is cleaned up for the last time.                                        *)
THEOREM OwnedSockets == Spec => []SocketsOwned
<1>1. ITypeOK /\ SocketsInv => SocketsOwned
  <2> SUFFICES ASSUME ITypeOK, SocketsInv, Live, wsaRefs > 0
               PROVE  /\ wsaRefs = 2 => AuthUp
                      /\ \A k \in 1 .. Total : /\ socket[clientArray[k]] \in Handles
                                               /\ peer[socket[clientArray[k]]] = clientArray[k]
    BY DEF SocketsOwned
  <2>1. clientArray \in Seq(Conns)
    BY DEF ITypeOK, TypeOK, ServerTypeOK
  <2>2. \A k \in 1 .. Total : clientArray[k] \in Range(clientArray)
    BY <2>1, RangeEquality DEF Total
  <2> QED BY <2>2 DEF SocketsInv, HandlesOK, HandlesOwned
<1> QED BY <1>1, SocketsInvariant, PTL

(* No handle that is connected to a client is ever lost: it is the one of  *)
(* an entry of ClientArray.                                                *)
THEOREM KeptSockets == Spec => []NoLeakedSockets
<1>1. ITypeOK /\ SocketsInv => NoLeakedSockets
  <2> SUFFICES ASSUME ITypeOK, SocketsInv, Live, NEW h \in Handles, peer[h] \in Conns
               PROVE  \E k \in 1 .. Total : clientArray[k] = peer[h] /\ socket[peer[h]] = h
    BY DEF NoLeakedSockets
  <2>1. clientArray \in Seq(Conns)
    BY DEF ITypeOK, TypeOK, ServerTypeOK
  <2>2. Range(clientArray) = {clientArray[k] : k \in 1 .. Total}
    BY <2>1, RangeEquality DEF Total
  <2> QED BY <2>2 DEF SocketsInv, HandlesOK, HandlesKept
<1> QED BY <1>1, SocketsInvariant, PTL

(* The server does not end without one of the causes named.                *)
THEOREM FailuresExplained == Spec => []FailureHasCause
<1>1. SocketsInv => FailureHasCause
  BY DEF SocketsInv, CausesOK
<1> QED BY <1>1, SocketsInvariant, PTL

(* disconnectClient takes out only clients whose connection is over and    *)
(* all of whose messages have been read.                                   *)
THEOREM OnlyEndedDropped == Spec => OnlyTheGoneAreDropped
<1>1. ITypeOK /\ SocketsInv /\ [Next]_vars =>
        [\A c \in Range(clientArray) \ Range(clientArray') :
           wsaRefs > 0 => link[c] \in {"fin", "rst"} /\ inbound[c] = << >>]_vars
  <2> SUFFICES ASSUME ITypeOK, SocketsInv, [Next]_vars,
                      NEW c \in Range(clientArray), c \notin Range(clientArray'), wsaRefs > 0
               PROVE  link[c] \in {"fin", "rst"} /\ inbound[c] = << >>
    OBVIOUS
  <2>1. clientArray \in Seq(Conns) /\ backlog \in Seq(Conns)
    BY DEF ITypeOK, TypeOK, ServerTypeOK, NetTypeOK
  <2>2. ~ Accept
    <3> SUFFICES ASSUME Accept PROVE FALSE
      OBVIOUS
    <3>1. backlog # << >>
      BY DEF Accept, ITypeOK, AcceptHasBacklog
    <3>2. Head(backlog) \in Conns
      BY <2>1, <3>1, HeadTailProperties
    <3>3. Range(Append(clientArray, Head(backlog))) = Range(clientArray) \union {Head(backlog)}
      BY <2>1, <3>2, AppendRange
    <3> QED BY <3>3 DEF Accept
  <2>3. ~ UNCHANGED clientArray
    OBVIOUS
  <2>4. ~ Environment
    BY <2>3 DEF Environment, Connect, PeerClose, PeerAbort, PeerSend, AuthAnswer, AuthEnds, serverVars
  <2>5. ~ (Exit \/ Select \/ EndServe \/ PollAuth)
    BY <2>3 DEF Exit, Select, EndServe, PollAuth, PollAuthFails, PollAuthNothing, PollAuthResponse,
                PollAuthSteals, PollAuthStep
  <2>6. PICK k : ServeGone(k)
    BY <2>2, <2>3, <2>4, <2>5
    DEF Next, ServerStep, Serve, ServeLogin, ServeJoin, ServeLeave, ServeSend, ServeOther, vars, serverVars
  <2>7. k \in 1 .. Len(clientArray) /\ pc = "serve"
    BY <2>6, TurnType DEF ServeGone, Turn, ITypeOK, Total
  <2>8. c = clientArray[k]
    BY <2>1, <2>6, <2>7, RemoveAtOfDistinct DEF ServeGone, RemoveEntry, SocketsInv, QueuesOK
  <2>9. peer[socket[c]] = c /\ c \in Conns
    BY <2>1, <2>7, <2>8, ElementOfSeq DEF SocketsInv, HandlesOK, HandlesOwned, Live
  <2> QED BY <2>6, <2>8, <2>9 DEF ServeGone, SocketsInv, StreamsOK
<1> QED BY <1>1, SocketsInvariant, PTL DEF Spec, OnlyTheGoneAreDropped

=============================================================================
