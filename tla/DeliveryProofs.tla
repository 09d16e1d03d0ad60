--------------------------- MODULE DeliveryProofs ---------------------------
(***************************************************************************)
(* What clients are sent: whose messages, under which names, of which      *)
(* rooms, and whose answers.  Rests on who is in a room and on which       *)
(* handle is whose (ChatServerProofs).                                     *)
(***************************************************************************)
EXTENDS ChatServerProofs

(* A client has presented the name it has.                                 *)
NamesAsked == \A c \in Conns : name[c] # "" => << c, name[c] >> \in asked

(* An answer OK on its way is about a name that was approved.              *)
Answers == {a \in AuthResponses : a.type = "ResponseOK" => a.username \in approved}
AnswersApproved == fromAuth \in Seq(Answers)

(* The texts on their way from a client are its own.                       *)
ItemsOf(c) == {m \in Items : m.text = << >> \/ m.text[1] = c}
OriginsOK == \A c \in Conns : inbound[c] \in Seq(ItemsOf(c))

(* What may be sent to a client.                                           *)
ReplyIsAsked(c, m) == m.type = "REPLY" => << c, m.name >> \in asked
AuthorIsNamed(m) ==
  IsPost(m) => m.name = "" \/ << m.text[1], m.name >> \in asked
ReaderHasJoined(c, m) ==
  rejoined = {} => (m.type = "RECIEVE" => << c, m.room >> \in joined)
GoodFor(c) == {m \in Messages : ReplyIsAsked(c, m) /\ AuthorIsNamed(m) /\ ReaderHasJoined(c, m)}
DeliveriesOK == \A c \in Conns : outbound[c] \in Seq(GoodFor(c))

DeliveryInv == NamesAsked /\ AnswersApproved /\ LoginIsApproved /\ OriginsOK /\ DeliveriesOK

AllInv == ITypeOK /\ RoomsOK /\ SocketsInv

-----------------------------------------------------------------------------
(* A broadcast adds its message to the streams of those connections only   *)
(* that a member's handle is connected to.                                 *)
LEMMA BroadcastOf ==
  ASSUME TypeOK, NEW rs, RoomMap(rs, Rooms, Conns), NEW m \in Messages, NEW full,
         Broadcast(rs, m, full), NEW G,
         \A p \in Conns : outbound[p] \in Seq(G[p]),
         \A p \in Conns : (\E x \in Range(MembersOf(rs, m.room)) : peer[socket[x]] = p) => m \in G[p]
  PROVE  \A p \in Conns : outbound'[p] \in Seq(G[p])
<1> SUFFICES ASSUME NEW p \in Conns PROVE outbound'[p] \in Seq(G[p])
  OBVIOUS
<1> DEFINE ms == MembersOf(rs, m.room)
           I  == {k \in 1 .. Len(ms) : peer[socket[ms[k]]] = p}
<1>1. ms \in Seq(Conns)
  BY MembersOfType DEF Messages
<1>2. outbound'[p] = outbound[p] \/ outbound'[p] = outbound[p] \o [k \in 1 .. Cardinality(I) |-> m]
  BY DEF Broadcast, Copies
<1>3. [k \in 1 .. Cardinality(I) |-> m] \in Seq(G[p])
  <2>1. I \subseteq 1 .. Len(ms)
    OBVIOUS
  <2>2. Cardinality(I) \in Nat
    BY <1>1, <2>1, PlacesFinite
  <2>3. CASE I = {}
    <3>1. Cardinality(I) = 0
      BY <2>3, FS_EmptySet
    <3> HIDE DEF I
    <3> QED BY <3>1, EmptySeq
  <2>4. CASE I # {}
    <3>1. \A k \in 1 .. Len(ms) : ms[k] \in Range(ms)
      BY <1>1, RangeEquality
    <3>2. m \in G[p]
      BY <2>4, <3>1
    <3> HIDE DEF I
    <3> QED BY <2>2, <3>2, RepeatedType
  <2> QED BY <2>3, <2>4
<1> HIDE DEF I
<1> QED BY <1>2, <1>3, ConcatProperties

(* The handle of an entry of ClientArray is connected to it or to nobody.  *)
LEMMA HandleOfEntry ==
  ASSUME ITypeOK, SocketsInv, Live, NEW c \in Range(clientArray), peer[socket[c]] \in Conns
  PROVE  peer[socket[c]] = c
BY DEF SocketsInv, HandlesOK, HandlesOwned, ITypeOK, TypeOK, AuthTypeOK

(* History only grows, and with it what is good for a client.              *)
LEMMA GoodGrows ==
  ASSUME asked \subseteq asked', joined \subseteq joined', rejoined \subseteq rejoined', NEW c
  PROVE  GoodFor(c) \subseteq GoodFor(c)'
BY DEF GoodFor, ReplyIsAsked, AuthorIsNamed, IsPost, ReaderHasJoined

(* Steps that send nothing.                                                *)
LEMMA NothingSent ==
  ASSUME DeliveryInv, asked \subseteq asked', joined \subseteq joined', rejoined \subseteq rejoined',
         UNCHANGED outbound
  PROVE  DeliveriesOK'
BY GoodGrows, SeqMonotonic DEF DeliveryInv, DeliveriesOK

(* The bytes that a recv returns, and those that it leaves.                *)
LEMMA ReceptionOrigins ==
  ASSUME AllInv, DeliveryInv, Live, NEW c \in Range(clientArray), NEW r \in Receptions(c)
  PROVE  /\ r.message \in ItemsOf(c)
         /\ \A x \in Conns : r.inbound[x] \in Seq(ItemsOf(x))
<1>1. peer[socket[c]] = c /\ c \in Conns
  BY HandleOfEntry DEF AllInv, Receptions
<1>2. PICK n \in 1 .. Len(inbound[c]), cut \in BOOLEAN : r \in Reception(c, n, cut)
  <2>1. \E n \in 1 .. Len(inbound[peer[socket[c]]]), cut \in BOOLEAN :
          r \in Reception(peer[socket[c]], n, cut)
    BY DEF Receptions, Cuts
  <2> QED BY <1>1, <2>1
<1>3. /\ inbound[c] \in Seq(ItemsOf(c)) /\ Len(inbound[c]) \in Nat
      /\ inbound \in [Conns -> Seq(Items)] /\ inbound[c] \in Seq(Items)
  BY <1>1, LenProperties DEF DeliveryInv, OriginsOK, AllInv, ITypeOK, TypeOK, NetTypeOK
<1>4. /\ Remainder \in ItemsOf(c)
      /\ \A t \in {"LOGIN", "JOIN", "LEAVE", "SEND", "RECIEVE", "ERROR"} : Blank(t) \in ItemsOf(c)
  BY DEF ItemsOf, Remainder, Blank, Message, Items, Rooms
<1> DEFINE part == SubSeq(inbound[c], 1, n)
<1>5. part \in Seq(ItemsOf(c)) /\ part # << >> /\ Head(part) \in ItemsOf(c)
  <2>1. 1 \in 1 .. Len(inbound[c]) + 1 /\ n \in 0 .. Len(inbound[c]) /\ 1 <= n
    BY <1>3
  <2>2. part \in Seq(ItemsOf(c)) /\ Len(part) = n - 1 + 1
    BY <1>3, <2>1, PartOfSeq
  <2>3. part # << >>
    BY <2>1, <2>2
  <2> QED BY <2>2, <2>3, HeadTailProperties
<1> HIDE DEF part
<1>6. ReadMessage(part, cut) \subseteq ItemsOf(c)
  <2>1. ReadRemainder \subseteq ItemsOf(c)
    BY <1>4 DEF ReadRemainder
  <2>2. Head(part) # Remainder => ReadPrefix(Head(part)) \subseteq ItemsOf(c) \union {Blank(Head(part).type)}
    BY <1>4, <1>5 DEF ReadPrefix, ItemsOf, Items
  <2>3. Head(part) # Remainder /\ Head(part).type = "REMAINDER" => Blank(Head(part).type) \in ItemsOf(c)
    BY DEF ItemsOf, Blank, Message, Items, Rooms
  <2>4. Head(part).type \in {"LOGIN", "JOIN", "LEAVE", "SEND", "RECIEVE", "ERROR", "REMAINDER"}
    BY <1>5 DEF ItemsOf, Items
  <2>5. Head(part) # Remainder => ReadPrefix(Head(part)) \subseteq ItemsOf(c)
    BY <1>4, <2>2, <2>3, <2>4
  <2> QED BY <1>5, <2>1, <2>5 DEF ReadMessage
<1>7. Unread(inbound[c], n, cut) \in Seq(ItemsOf(c))
  <2>1. SubSeq(inbound[c], n + 1, Len(inbound[c])) \in Seq(ItemsOf(c))
    BY <1>3, PartOfSeq
  <2>2. << >> \in Seq(ItemsOf(c)) /\ << Remainder >> \in Seq(ItemsOf(c))
    BY <1>4
  <2> QED BY <2>1, <2>2, ConcatProperties DEF Unread
<1>8. PICK m \in ReadMessage(part, cut) :
        r = [message |-> m, inbound |-> [inbound EXCEPT ![c] = Unread(@, n, cut)]]
  BY <1>2 DEF Reception, part
<1> QED BY <1>1, <1>3, <1>6, <1>7, <1>8 DEF DeliveryInv, OriginsOK

-----------------------------------------------------------------------------
(* Steps.                                                                  *)

(* The peers: what they send is their own, what they discard is gone.      *)
LEMMA PeersDelivery ==
  ASSUME AllInv, DeliveryInv, NEW c \in Conns,
         \/ Connect(c) \/ PeerClose(c) \/ PeerAbort(c)
         \/ \E m \in Requests(c) : PeerSend(c, m)
  PROVE  DeliveryInv'
<1>1. UNCHANGED << clientVars, authVars, history, outbound >>
  BY DEF Connect, PeerClose, PeerAbort, PeerSend
<1>2. DeliveriesOK'
  BY <1>1, NothingSent DEF history
<1>3. NamesAsked' /\ AnswersApproved' /\ LoginIsApproved'
  BY <1>1 DEF clientVars, authVars, history, DeliveryInv, NamesAsked, AnswersApproved, Answers, LoginIsApproved
<1>4. inbound \in [Conns -> Seq(Items)] /\ \A x \in Conns : inbound[x] \in Seq(ItemsOf(x))
  BY DEF AllInv, ITypeOK, TypeOK, NetTypeOK, DeliveryInv, OriginsOK
<1>5. \/ UNCHANGED inbound
      \/ inbound' = [inbound EXCEPT ![c] = << >>]
      \/ \E m \in Requests(c) : inbound' = [inbound EXCEPT ![c] = Append(inbound[c], m)]
  BY DEF Connect, PeerClose, PeerAbort, PeerSend
<1>6. ASSUME NEW m \in Requests(c) PROVE Append(inbound[c], m) \in Seq(ItemsOf(c))
  <2>1. sent[c] + 1 \in Nat
    BY DEF AllInv, ITypeOK, TypeOK, NetTypeOK
  <2> DEFINE t == << c, sent[c] + 1 >>
  <2>2. t \in Conns \X Nat /\ t[1] = c
    BY <2>1
  <2>3. \/ \E n \in Names : m = LoginMessage(n)
        \/ \E r \in RoomNames : m = JoinMessage(r) \/ m = LeaveMessage(r) \/ m = UserMessage(r, t)
    BY DEF Requests
  <2> HIDE DEF t
  <2>4. m \in Items /\ (m.text = << >> \/ m.text = t)
    <3>1. \A n \in Names : LoginMessage(n) \in Items /\ LoginMessage(n).text = << >>
      BY DEF LoginMessage, Message, Items, Rooms
    <3>2. \A r \in RoomNames : /\ JoinMessage(r) \in Items /\ JoinMessage(r).text = << >>
                               /\ LeaveMessage(r) \in Items /\ LeaveMessage(r).text = << >>
      BY DEF JoinMessage, LeaveMessage, Message, Items, Rooms
    <3>3. \A r \in RoomNames : UserMessage(r, t) \in Items /\ UserMessage(r, t).text = t
      BY <2>2 DEF UserMessage, Message, Items, Rooms
    <3> QED BY <2>3, <3>1, <3>2, <3>3
  <2>5. m \in ItemsOf(c)
    BY <2>2, <2>4 DEF ItemsOf
  <2> QED BY <1>4, <2>5, AppendProperties
<1>7. << >> \in Seq(ItemsOf(c))
  BY EmptySeq
<1>8. OriginsOK'
  <2>1. CASE \E m \in Requests(c) : inbound' = [inbound EXCEPT ![c] = Append(inbound[c], m)]
    BY <1>4, <1>6, <2>1 DEF OriginsOK, ItemsOf
  <2>2. CASE UNCHANGED inbound \/ inbound' = [inbound EXCEPT ![c] = << >>]
    BY <1>4, <1>7, <2>2 DEF OriginsOK, ItemsOf
  <2> QED BY <1>5, <2>1, <2>2
<1> QED BY <1>2, <1>3, <1>8 DEF DeliveryInv

(* The auth server answers OK only what it approves.                       *)
LEMMA AuthServerDelivery ==
  ASSUME AllInv, DeliveryInv, AuthAnswer \/ AuthEnds
  PROVE  DeliveryInv'
<1>1. /\ UNCHANGED << clientVars, netVars, asked, joined, rejoined >> /\ approved \subseteq approved'
  BY DEF AuthAnswer, AuthEnds, history
<1>2. DeliveriesOK'
  BY <1>1, NothingSent DEF netVars
<1>3. NamesAsked' /\ LoginIsApproved' /\ OriginsOK'
  BY <1>1 DEF clientVars, netVars, DeliveryInv, NamesAsked, LoginIsApproved, OriginsOK, ItemsOf
<1>4. Answers \subseteq Answers' /\ fromAuth \in Seq(Answers)
  BY <1>1 DEF Answers, DeliveryInv, AnswersApproved
<1>5. fromAuth \in Seq(Answers')
  BY <1>4, SeqMonotonic
<1>6. CASE AuthEnds
  <2>1. fromAuth' = fromAuth \/ fromAuth' = << >>
    BY <1>6 DEF AuthEnds
  <2>2. AnswersApproved'
    BY <1>5, <2>1, EmptySeq DEF AnswersApproved
  <2> QED BY <1>2, <1>3, <2>2 DEF DeliveryInv
<1>7. CASE AuthAnswer
  <2>1. PICK n \in 1 .. Len(toAuth) :
          LET req == ReadRequests(SubSeq(toAuth, 1, n)) IN
            \/ /\ fromAuth' = Append(fromAuth, ResponseOK(req.username, req.by))
               /\ approved' = approved \union {req.username}
            \/ fromAuth' = Append(fromAuth, ResponseError(req.username, req.by))
    BY <1>7 DEF AuthAnswer
  <2>2. ReadRequests(SubSeq(toAuth, 1, n)) \in AuthRequests
    <3>1. toAuth \in Seq(AuthRequests) /\ Len(toAuth) \in Nat
      BY LenProperties DEF AllInv, ITypeOK, TypeOK, AuthTypeOK
    <3>2. Len(SubSeq(toAuth, 1, n)) = n /\ SubSeq(toAuth, 1, n) \in Seq(AuthRequests)
      BY <3>1, PartOfSeq
    <3>3. SubSeq(toAuth, 1, n)[n] \in AuthRequests
      BY <3>1, <3>2, ElementOfSeq
    <3> QED BY <3>2, <3>3 DEF ReadRequests
  <2>3. \E a \in Answers' : fromAuth' = Append(fromAuth, a)
    BY <2>1, <2>2 DEF Answers, ResponseOK, ResponseError, AuthRequests, AuthResponses
  <2>4. AnswersApproved'
    BY <1>5, <2>3, AppendProperties DEF AnswersApproved
  <2> QED BY <1>2, <1>3, <2>4 DEF DeliveryInv
<1> QED BY <1>6, <1>7

(* A broadcast to the members of a room.                                   *)
LEMMA BroadcastDelivery ==
  ASSUME AllInv, DeliveryInv, Live, NEW rs, RoomMap(rs, Rooms, Conns),
         NEW m \in Messages, m.type = "RECIEVE", NEW full, Broadcast(rs, m, full),
         AuthorIsNamed(m), joined \subseteq joined', rejoined \subseteq rejoined', UNCHANGED asked,
         \A x \in Range(MembersOf(rs, m.room)) :
           rejoined' = {} => x \in Range(clientArray) /\ << x, m.room >> \in joined'
  PROVE  DeliveriesOK'
<1> DEFINE G == [p \in Conns |-> GoodFor(p)']
<1>1. \A p \in Conns : outbound[p] \in Seq(G[p])
  BY GoodGrows, SeqMonotonic DEF DeliveryInv, DeliveriesOK
<1>2. ASSUME NEW p \in Conns, NEW x \in Range(MembersOf(rs, m.room)), peer[socket[x]] = p
      PROVE  m \in G[p]
  <2>1. rejoined' = {} => p = x
    BY <1>2, HandleOfEntry DEF AllInv
  <2> QED BY <2>1 DEF GoodFor, ReplyIsAsked, AuthorIsNamed, IsPost, ReaderHasJoined
<1> HIDE DEF G
<1>3. \A p \in Conns : outbound'[p] \in Seq(G[p])
  BY <1>1, <1>2, BroadcastOf DEF AllInv, ITypeOK
<1> QED BY <1>3 DEF G, DeliveriesOK

(* LOGIN presents the name; a request that goes astray is no message of a  *)
(* room and no answer.                                                     *)
LEMMA LoginDelivery ==
  ASSUME AllInv, DeliveryInv, NEW k, ServeLogin(k)
  PROVE  DeliveryInv'
<1> DEFINE c == clientArray[k]
<1>1. k \in 1 .. Total /\ c \in Conns /\ Live /\ UNCHANGED << loggedIn, joined, rejoined, approved >>
  BY TurnType DEF ServeLogin, Turn, Live, AllInv, ITypeOK
<1>2. c \in Range(clientArray)
  BY <1>1, RangeEquality DEF AllInv, ITypeOK, TypeOK, ServerTypeOK, Total
<1>3. PICK r \in Receptions(c) :
        /\ inbound' = r.inbound
        /\ name' = [name EXCEPT ![c] = r.message.name]
        /\ IF r.message.name = ""
             THEN UNCHANGED << asked, fromAuth, outbound >>
             ELSE /\ AuthSendMessage(Request(r.message.name, c))
                  /\ asked' = asked \union {<< c, r.message.name >>}
  BY DEF ServeLogin
<1>4. r.message \in ItemsOf(c) /\ \A x \in Conns : r.inbound[x] \in Seq(ItemsOf(x))
  BY <1>1, <1>2, <1>3, ReceptionOrigins
<1>5. r.message.name \in Names \union {""}
  BY <1>4 DEF ItemsOf, Items
<1> HIDE DEF c
<1>6. asked \subseteq asked'
  BY <1>3
<1>7. OriginsOK'
  BY <1>3, <1>4 DEF OriginsOK, ItemsOf
<1>8. name \in [Conns -> Names \union {""}]
  BY DEF AllInv, ITypeOK, TypeOK, ClientTypeOK
<1>9. NamesAsked'
  BY <1>1, <1>3, <1>6, <1>8 DEF DeliveryInv, NamesAsked
<1>10. LoginIsApproved'
  BY <1>1, <1>6 DEF DeliveryInv, LoginIsApproved
<1>11. AnswersApproved'
  <2>1. fromAuth' = fromAuth \/ fromAuth' = << >>
    BY <1>3 DEF AuthSendMessage
  <2>2. fromAuth' \in Seq(Answers)
    BY <2>1, EmptySeq DEF DeliveryInv, AnswersApproved
  <2> QED BY <1>1, <2>2 DEF AnswersApproved, Answers
<1>12. DeliveriesOK'
  <2>1. CASE UNCHANGED outbound
    BY <1>1, <1>6, <2>1, NothingSent
  <2>2. CASE /\ r.message.name # ""
             /\ \E p \in Conns :
                  outbound' = [outbound EXCEPT ![p] = Append(@, Message("REQUEST", r.message.name, "", << >>))]
    <3> DEFINE m == Message("REQUEST", r.message.name, "", << >>)
    <3>1. m \in Messages /\ m.type = "REQUEST"
      BY <1>5, <2>2 DEF Message, Messages, Types, Rooms, Texts
    <3>2. \A p \in Conns : m \in GoodFor(p)'
      BY <3>1 DEF GoodFor, ReplyIsAsked, AuthorIsNamed, IsPost, ReaderHasJoined
    <3>3. \A p \in Conns : outbound[p] \in Seq(GoodFor(p)')
      BY <1>1, <1>6, GoodGrows, SeqMonotonic DEF DeliveryInv, DeliveriesOK
    <3>4. outbound \in [Conns -> Seq(Messages)]
      BY DEF AllInv, ITypeOK, TypeOK, NetTypeOK
    <3> HIDE DEF m
    <3>5. PICK p \in Conns : outbound' = [outbound EXCEPT ![p] = Append(outbound[p], m)]
      BY <2>2 DEF m
    <3>6. Append(outbound[p], m) \in Seq(GoodFor(p)')
      BY <3>2, <3>3, AppendProperties
    <3>7. \A x \in Conns : outbound'[x] \in Seq(GoodFor(x)')
      BY <3>3, <3>4, <3>5, <3>6
    <3> QED BY <3>7 DEF DeliveriesOK
  <2> QED BY <1>3, <2>1, <2>2 DEF AuthSendMessage, Request
<1> QED BY <1>7, <1>9, <1>10, <1>11, <1>12 DEF DeliveryInv

(* What JOIN, LEAVE and SEND leave alone.                                  *)
LEMMA RoomStepDelivery ==
  ASSUME DeliveryInv, UNCHANGED << clientVars, authVars, asked, approved >>, OriginsOK', DeliveriesOK'
  PROVE  DeliveryInv'
BY DEF DeliveryInv, NamesAsked, AnswersApproved, Answers, LoginIsApproved, clientVars, authVars

(* JOIN, LEAVE: the notice goes to members.                                *)
LEMMA NoticesDelivery ==
  ASSUME AllInv, RoomsOK', DeliveryInv, NEW k, ServeJoin(k) \/ ServeLeave(k)
  PROVE  DeliveryInv'
<1> DEFINE c == clientArray[k]
<1>1. k \in 1 .. Total /\ c \in Conns /\ Live
  BY TurnType DEF ServeJoin, ServeLeave, Turn, Live, AllInv, ITypeOK
<1>2. c \in Range(clientArray)
  BY <1>1, RangeEquality DEF AllInv, ITypeOK, TypeOK, ServerTypeOK, Total
<1>3. PICK r \in Receptions(c), full \in FullWindows, w \in {"joined", "left"} :
        /\ inbound' = r.inbound
        /\ \/ rooms' = AddMember(rooms, r.message.room, c)
           \/ rooms' = RemoveMember(rooms, r.message.room, c)
        /\ Broadcast(rooms', RecieveMessage("server", r.message.room, << w, name[c] >>), full)
  BY DEF ServeJoin, ServeLeave
<1>4. /\ UNCHANGED << clientArray, clientVars, authVars, asked, approved >>
      /\ joined \subseteq joined' /\ rejoined \subseteq rejoined'
  BY DEF ServeJoin, ServeLeave, history
<1>5. r.message \in ItemsOf(c) /\ \A x \in Conns : r.inbound[x] \in Seq(ItemsOf(x))
  BY <1>1, <1>2, <1>3, ReceptionOrigins
<1> DEFINE m == RecieveMessage("server", r.message.room, << w, name[c] >>)
<1>6. r.message.room \in Rooms /\ name[c] \in Names \union {""}
  BY <1>1, <1>5 DEF ItemsOf, Items, AllInv, ITypeOK, TypeOK, ClientTypeOK
<1>7. /\ m \in Messages /\ m.type = "RECIEVE" /\ m.room = r.message.room
      /\ m.text[1] \notin Conns
  <2>1. << w, name[c] >> \in Notices /\ << w, name[c] >>[1] = w
    BY <1>6 DEF Notices
  <2> QED BY <1>6, <2>1, ConstantsAssumption DEF RecieveMessage, Message, Messages, Types, Rooms, Texts
<1>8. AuthorIsNamed(m)
  BY <1>7 DEF AuthorIsNamed, IsPost
<1>9. RoomMap(rooms', Rooms, Conns)
  BY <1>1, <1>3, <1>6, RoomOperationsType DEF AllInv, ITypeOK, TypeOK, ServerTypeOK
<1> HIDE DEF m, c
<1>10. ASSUME NEW x \in Range(MembersOf(rooms', m.room)), rejoined' = {}
       PROVE  x \in Range(clientArray) /\ << x, m.room >> \in joined'
  <2>1. m.room \in DOMAIN rooms' /\ x \in Range(rooms'[m.room])
    BY <1>10 DEF MembersOf, Range
  <2> QED BY <1>4, <1>10, <2>1 DEF RoomsOK, MembersJoined, DepartedAreNoMembers
<1>11. DeliveriesOK'
  <2>1. Broadcast(rooms', m, full)
    BY <1>3 DEF m
  <2> DEFINE rs == rooms'
  <2>2. Broadcast(rs, m, full) /\ RoomMap(rs, Rooms, Conns)
        /\ \A x \in Range(MembersOf(rs, m.room)) :
             rejoined' = {} => x \in Range(clientArray) /\ << x, m.room >> \in joined'
    BY <1>9, <1>10, <2>1
  <2> HIDE DEF rs
  <2> QED BY <1>1, <1>4, <1>7, <1>8, <2>2, BroadcastDelivery
<1>12. OriginsOK'
  BY <1>3, <1>5 DEF OriginsOK, ItemsOf
<1> QED BY <1>4, <1>11, <1>12, RoomStepDelivery

(* SEND: the text is the sender's, and goes out under the name it has.     *)
LEMMA SendDelivery ==
  ASSUME AllInv, DeliveryInv, NEW k, ServeSend(k)
  PROVE  DeliveryInv'
<1> DEFINE c == clientArray[k]
<1>1. k \in 1 .. Total /\ c \in Conns /\ Live
  BY TurnType DEF ServeSend, Turn, Live, AllInv, ITypeOK
<1>2. c \in Range(clientArray)
  BY <1>1, RangeEquality DEF AllInv, ITypeOK, TypeOK, ServerTypeOK, Total
<1>3. PICK r \in Receptions(c), full \in FullWindows :
        /\ inbound' = r.inbound
        /\ Broadcast(rooms, RecieveMessage(name[c], r.message.room, r.message.text), full)
  BY DEF ServeSend
<1>4. UNCHANGED << clientArray, clientVars, authVars, history >>
  BY DEF ServeSend
<1>5. r.message \in ItemsOf(c) /\ \A x \in Conns : r.inbound[x] \in Seq(ItemsOf(x))
  BY <1>1, <1>2, <1>3, ReceptionOrigins
<1> DEFINE m == RecieveMessage(name[c], r.message.room, r.message.text)
<1>6. /\ r.message.room \in Rooms /\ name[c] \in Names \union {""}
      /\ r.message.text \in {<< >>} \union (Conns \X Nat)
      /\ r.message.text = << >> \/ r.message.text[1] = c
  BY <1>1, <1>5 DEF ItemsOf, Items, AllInv, ITypeOK, TypeOK, ClientTypeOK
<1>7. m \in Messages /\ m.type = "RECIEVE" /\ m.room = r.message.room
  BY <1>6 DEF RecieveMessage, Message, Messages, Types, Texts
<1>8. AuthorIsNamed(m)
  BY <1>1, <1>6 DEF AuthorIsNamed, IsPost, RecieveMessage, Message, DeliveryInv, NamesAsked
<1>9. RoomMap(rooms, Rooms, Conns)
  BY DEF AllInv, ITypeOK, TypeOK, ServerTypeOK
<1> HIDE DEF m, c
<1>10. \A x \in Range(MembersOf(rooms, m.room)) :
         rejoined' = {} => x \in Range(clientArray) /\ << x, m.room >> \in joined'
  <2> SUFFICES ASSUME NEW x \in Range(MembersOf(rooms, m.room)), rejoined' = {}
               PROVE  x \in Range(clientArray) /\ << x, m.room >> \in joined'
    OBVIOUS
  <2>1. m.room \in DOMAIN rooms /\ x \in Range(rooms[m.room])
    BY DEF MembersOf, Range
  <2> QED BY <1>4, <2>1 DEF AllInv, RoomsOK, MembersJoined, DepartedAreNoMembers, history
<1>11. DeliveriesOK'
  BY <1>1, <1>3, <1>4, <1>7, <1>8, <1>9, <1>10, BroadcastDelivery DEF m, history
<1>12. OriginsOK'
  BY <1>3, <1>5 DEF OriginsOK, ItemsOf
<1> QED BY <1>4, <1>11, <1>12, RoomStepDelivery DEF history

(* An answer of the auth server goes to the client that has the name it is *)
(* about, and marks it as logged in if it is an OK.                        *)
LEMMA AnswerDelivery ==
  ASSUME AllInv, DeliveryInv, PollAuthResponse
  PROVE  DeliveryInv'
<1>1. /\ UNCHANGED << name, inbound, asked, joined, rejoined, approved >> /\ Live
      /\ fromAuth \in Seq(AuthResponses) /\ fromAuth \in Seq(Answers) /\ Len(fromAuth) \in Nat
  BY LenProperties DEF PollAuthResponse, PollAuthStep, history, Live, AllInv, ITypeOK, TypeOK, AuthTypeOK,
                       DeliveryInv, AnswersApproved
<1>2. PICK n \in 1 .. Len(fromAuth) :
        LET a == ReadResponses(SubSeq(fromAuth, 1, n)) IN
        /\ fromAuth' = SubSeq(fromAuth, n + 1, Len(fromAuth))
        /\ \/ \E k \in 1 .. Total : FoundByUsername(a.username, clientArray[k]) /\ Reply(clientArray[k], a)
           \/ UNCHANGED << loggedIn, outbound >>
  BY DEF PollAuthResponse
<1> DEFINE a == ReadResponses(SubSeq(fromAuth, 1, n))
<1>3. a \in Answers
  <2>1. SubSeq(fromAuth, 1, n) \in Seq(Answers) /\ Len(SubSeq(fromAuth, 1, n)) = n
    BY <1>1, PartOfSeq
  <2>2. SubSeq(fromAuth, 1, n)[n] \in Answers
    BY <1>1, <2>1, ElementOfSeq
  <2> QED BY <2>1, <2>2 DEF ReadResponses, Answers, AuthResponses
<1> HIDE DEF a
<1>4. AnswersApproved'
  <2>1. SubSeq(fromAuth, n + 1, Len(fromAuth)) \in Seq(Answers)
    BY <1>1, PartOfSeq
  <2> QED BY <1>1, <1>2, <2>1 DEF AnswersApproved, Answers
<1>5. NamesAsked' /\ OriginsOK'
  BY <1>1 DEF DeliveryInv, NamesAsked, OriginsOK, ItemsOf
<1>6. CASE UNCHANGED << loggedIn, outbound >>
  <2>1. DeliveriesOK'
    BY <1>1, <1>6, NothingSent
  <2> QED BY <1>1, <1>4, <1>5, <1>6, <2>1 DEF DeliveryInv, LoginIsApproved
<1>7. ASSUME NEW k \in 1 .. Total, FoundByUsername(a.username, clientArray[k]), Reply(clientArray[k], a)
      PROVE  DeliveryInv'
  <2> DEFINE c == clientArray[k]
  <2>1. c \in Conns /\ c \in Range(clientArray)
    BY ElementOfSeq, RangeEquality DEF AllInv, ITypeOK, TypeOK, ServerTypeOK, Total
  <2>2. name[c] = a.username
    BY <1>7 DEF FoundByUsername, Namesakes
  <2>3. a.username \in Names /\ << c, a.username >> \in asked
    BY <1>3, <2>1, <2>2, ConstantsAssumption DEF Answers, AuthResponses, DeliveryInv, NamesAsked
  <2> DEFINE m == Message("REPLY", a.username, "", << a.type, a.by >>)
  <2>4. loggedIn' = [loggedIn EXCEPT ![c] = loggedIn[c] \/ a.type = "ResponseOK"]
    BY <1>7 DEF Reply
  <2>5. \/ UNCHANGED outbound
        \/ /\ peer[socket[c]] \in Conns
           /\ outbound' = [outbound EXCEPT ![peer[socket[c]]] = Append(outbound[peer[socket[c]]], m)]
    BY <1>7 DEF Reply
  <2>6. m \in GoodFor(c)
    <3>1. m \in Messages /\ m.type = "REPLY" /\ m.name = a.username
      BY <1>3, <2>3 DEF Answers, AuthResponses, Message, Messages, Types, Rooms, Texts, Replies
    <3> QED BY <2>3, <3>1 DEF GoodFor, ReplyIsAsked, AuthorIsNamed, IsPost, ReaderHasJoined
  <2> HIDE DEF c, m
  <2>7. LoginIsApproved'
    <3>1. loggedIn \in [Conns -> BOOLEAN]
      BY DEF AllInv, ITypeOK, TypeOK, ClientTypeOK
    <3>2. a.type = "ResponseOK" => a.username \in approved
      BY <1>3 DEF Answers
    <3> QED BY <1>1, <2>1, <2>3, <2>4, <3>1, <3>2 DEF DeliveryInv, LoginIsApproved
  <2>8. \A x \in Conns : outbound'[x] \in Seq(GoodFor(x))
    <3>1. outbound \in [Conns -> Seq(Messages)]
      BY DEF AllInv, ITypeOK, TypeOK, NetTypeOK
    <3>2. peer[socket[c]] \in Conns => peer[socket[c]] = c
      BY <1>1, <2>1, HandleOfEntry DEF AllInv
    <3>3. Append(outbound[c], m) \in Seq(GoodFor(c))
      BY <2>1, <2>6, AppendProperties DEF DeliveryInv, DeliveriesOK
    <3> QED BY <2>5, <3>1, <3>2, <3>3 DEF DeliveryInv, DeliveriesOK
  <2>9. \A x \in Conns : GoodFor(x)' = GoodFor(x)
    BY <1>1 DEF GoodFor, ReplyIsAsked, AuthorIsNamed, IsPost, ReaderHasJoined
  <2> QED BY <1>4, <1>5, <2>7, <2>8, <2>9 DEF DeliveryInv, DeliveriesOK
<1> QED BY <1>2, <1>6, <1>7 DEF a

(* The other outcomes of the auth poll; what it steals is lost.            *)
LEMMA PollDelivery ==
  ASSUME AllInv, DeliveryInv, PollAuthFails \/ PollAuthNothing \/ PollAuthSteals
  PROVE  DeliveryInv'
<1>1. UNCHANGED << clientVars, fromAuth, outbound, history >>
  BY DEF PollAuthFails, PollAuthNothing, PollAuthSteals, PollAuthStep, clientVars
<1>2. DeliveriesOK'
  BY <1>1, NothingSent DEF history
<1>3. OriginsOK'
  <2>1. CASE UNCHANGED inbound
    BY <2>1 DEF DeliveryInv, OriginsOK, ItemsOf
  <2>2. CASE PollAuthSteals
    <3> DEFINE p == peer[authSocket]
    <3>1. PICK n \in 1 .. Len(inbound[p]) :
            p \in Conns /\ inbound' = [inbound EXCEPT ![p] = SubSeq(inbound[p], n + 1, Len(inbound[p]))]
      BY <2>2 DEF PollAuthSteals
    <3> HIDE DEF p
    <3>2. inbound \in [Conns -> Seq(Items)] /\ inbound[p] \in Seq(ItemsOf(p)) /\ Len(inbound[p]) \in Nat
      BY <3>1, LenProperties DEF AllInv, ITypeOK, TypeOK, NetTypeOK, DeliveryInv, OriginsOK
    <3>3. SubSeq(inbound[p], n + 1, Len(inbound[p])) \in Seq(ItemsOf(p))
      BY <3>1, <3>2, PartOfSeq
    <3> QED BY <3>1, <3>2, <3>3 DEF DeliveryInv, OriginsOK, ItemsOf
  <2> QED BY <2>1, <2>2 DEF PollAuthFails, PollAuthNothing
<1> QED BY <1>1, <1>2, <1>3
    DEF DeliveryInv, NamesAsked, AnswersApproved, Answers, LoginIsApproved, clientVars, history

-----------------------------------------------------------------------------
LEMMA InitDelivery == Init => DeliveryInv
<1> SUFFICES ASSUME Init PROVE DeliveryInv
  OBVIOUS
<1>1. /\ name = [c \in Conns |-> ""] /\ loggedIn = [c \in Conns |-> FALSE] /\ fromAuth = << >>
      /\ inbound = [c \in Conns |-> << >>] /\ outbound = [c \in Conns |-> << >>]
  BY DEF Init
<1> QED BY <1>1, EmptySeq
    DEF DeliveryInv, NamesAsked, AnswersApproved, LoginIsApproved, OriginsOK, DeliveriesOK

LEMMA NextDelivery == AllInv /\ RoomsOK' /\ DeliveryInv /\ [Next]_vars => DeliveryInv'
<1> SUFFICES ASSUME AllInv, RoomsOK', DeliveryInv, [Next]_vars PROVE DeliveryInv'
  OBVIOUS
<1>1. ASSUME UNCHANGED << clientVars, authVars, history, inbound, outbound >> PROVE DeliveryInv'
  BY <1>1 DEF DeliveryInv, NamesAsked, AnswersApproved, Answers, LoginIsApproved, OriginsOK, ItemsOf, DeliveriesOK,
              GoodFor, ReplyIsAsked, AuthorIsNamed, IsPost, ReaderHasJoined, clientVars, authVars, history
<1>2. CASE UNCHANGED vars
  BY <1>1, <1>2 DEF vars, netVars
<1>3. CASE Environment
  BY <1>3, PeersDelivery, AuthServerDelivery DEF Environment
<1>4. CASE Exit \/ Select \/ EndServe
  BY <1>1, <1>4 DEF Exit, Select, EndServe, netVars
<1>5. CASE Accept
  <2>1. UNCHANGED << name, loggedIn, authVars, history, inbound, outbound >>
    BY <1>5 DEF Accept
  <2> QED BY <2>1 DEF DeliveryInv, NamesAsked, AnswersApproved, Answers, LoginIsApproved, OriginsOK, ItemsOf,
                      DeliveriesOK, GoodFor, ReplyIsAsked, AuthorIsNamed, IsPost, ReaderHasJoined, authVars, history
<1>6. ASSUME NEW k, ServeOther(k) PROVE DeliveryInv'
  <2>1. PICK r \in Receptions(clientArray[k]) : inbound' = r.inbound
    BY <1>6 DEF ServeOther
  <2>2. k \in 1 .. Total /\ Live
    BY <1>6, TurnType DEF ServeOther, Turn, Live, AllInv, ITypeOK
  <2>3. clientArray[k] \in Range(clientArray)
    BY <2>2, RangeEquality DEF AllInv, ITypeOK, TypeOK, ServerTypeOK, Total
  <2>4. OriginsOK'
    BY <2>1, <2>2, <2>3, ReceptionOrigins DEF OriginsOK, ItemsOf
  <2>5. UNCHANGED << clientVars, authVars, history, outbound >>
    BY <1>6 DEF ServeOther
  <2>6. DeliveriesOK'
    BY <2>5, NothingSent DEF history
  <2> QED BY <2>4, <2>5, <2>6, RoomStepDelivery DEF history
<1>7. ASSUME NEW k, ServeGone(k) PROVE DeliveryInv'
  BY <1>1, <1>7 DEF ServeGone
<1>8. ASSUME NEW k, Serve(k) PROVE DeliveryInv'
  BY <1>6, <1>7, <1>8, LoginDelivery, NoticesDelivery, SendDelivery DEF Serve
<1>9. CASE PollAuth
  BY <1>9, AnswerDelivery, PollDelivery DEF PollAuth
<1> QED BY <1>2, <1>3, <1>4, <1>5, <1>8, <1>9 DEF Next, ServerStep

LEMMA DeliveryInvariant == Spec => [](ITypeOK /\ DeliveryInv)
<1>1. Init => DeliveryInv
  BY InitDelivery
<1>2. ITypeOK /\ RoomsOK /\ SocketsInv /\ RoomsOK' /\ DeliveryInv /\ [Next]_vars => DeliveryInv'
  BY NextDelivery DEF AllInv
<1> QED BY <1>1, <1>2, RoomsInvariant, SocketsInvariant, PTL DEF Spec

-----------------------------------------------------------------------------
(* A client is marked as logged in only after the auth server has approved *)
(* a name that the client presented, whatever answers run together or are  *)
(* dropped and whatever happens to the connection.                         *)
THEOREM LoginsApproved == Spec => []LoginIsApproved
<1>1. DeliveryInv => LoginIsApproved
  BY DEF DeliveryInv
<1> QED BY <1>1, DeliveryInvariant, PTL

(* What is in a client's stream is good for it.                            *)
LEMMA StreamsAreGood ==
  ASSUME ITypeOK, DeliveryInv, NEW c \in Conns, NEW k \in 1 .. Len(outbound[c])
  PROVE  outbound[c][k] \in GoodFor(c)
BY ElementOfSeq DEF DeliveryInv, DeliveriesOK

(* An answer to a login is sent to clients only that presented the name.   *)
THEOREM RepliesToAskers == Spec => []RepliesAreForAskedNames
<1>1. ITypeOK /\ DeliveryInv => RepliesAreForAskedNames
  BY StreamsAreGood DEF RepliesAreForAskedNames, GoodFor, ReplyIsAsked
<1> QED BY <1>1, DeliveryInvariant, PTL

(* Nobody's text goes out under a name that its author has not presented.  *)
THEOREM TextsAttributed == Spec => []Attribution
<1>1. ITypeOK /\ DeliveryInv => Attribution
  BY StreamsAreGood DEF Attribution, GoodFor, AuthorIsNamed
<1> QED BY <1>1, DeliveryInvariant, PTL

(* As long as nobody joins a room twice, a room's messages reach clients   *)
(* only that have joined it: the numbers of closed sockets in ClientInfo   *)
(* are never used.                                                         *)
THEOREM RoomsArePrivate == Spec => []OnlyJoinersReceive
<1>1. ITypeOK /\ DeliveryInv => OnlyJoinersReceive
  BY StreamsAreGood DEF OnlyJoinersReceive, GoodFor, ReaderHasJoined
<1> QED BY <1>1, DeliveryInvariant, PTL
=============================================================================
