------------------------- MODULE RoomServiceProofs -------------------------
(***************************************************************************)
(* What a client gets of the others: their texts in the order in which     *)
(* they were sent, and, as long as nobody joins a room twice, everything   *)
(* that the abstract room service allows and nothing else.                 *)
(***************************************************************************)
EXTENDS DeliveryProofs, RoomRefinement

(* The order of deliveries.  The invariant: the numbers of the texts that  *)
(* are still to be read from a client rise and are at most that of the     *)
(* last one sent, and all those that anybody got of it are lower.          *)
Rising(s, hi) ==
  \A k \in 1 .. Len(s) : s[k].text # << >> =>
    /\ s[k].text[2] \in 1 .. hi
    /\ \A j \in 1 .. k - 1 : s[j].text # << >> => s[j].text[2] < s[k].text[2]
Beyond(s, n) == \A k \in 1 .. Len(s) : s[k].text # << >> => n < s[k].text[2]
Given(a, n) == n \in 0 .. sent[a] /\ Beyond(inbound[a], n)

NumbersOK == \A c \in Conns : Rising(inbound[c], sent[c]) /\ sent[c] <= MaxSends[c]
GivenOK ==
  \A d \in Conns : \A k \in 1 .. Len(outbound[d]) :
    IsPost(outbound[d][k]) => Given(outbound[d][k].text[1], outbound[d][k].text[2])
OrderOK == NumbersOK /\ GivenOK /\ OrderedDelivery

(* A text that a recv leaves, or half of the stream's bytes taken, keeps   *)
(* its place after those before it.                                        *)
LEMMA UnreadItems ==
  ASSUME NEW s \in Seq(Items), NEW n \in 0 .. Len(s), NEW cut \in BOOLEAN
  PROVE  LET t == Unread(s, n, cut)
             d == IF cut THEN n - 1 ELSE n
         IN  \A k \in 1 .. Len(t) : t[k].text # << >> => k + d \in n + 1 .. Len(s) /\ t[k] = s[k + d]
<1> DEFINE rest == SubSeq(s, n + 1, Len(s))
<1>1. Len(s) \in Nat /\ n + 1 \in 1 .. Len(s) + 1 /\ Len(s) \in 0 .. Len(s)
  BY LenProperties
<1>2. /\ rest \in Seq(Items) /\ Len(rest) = Len(s) - n
      /\ \A k \in 1 .. Len(s) - n : rest[k] = s[n + k]
  BY <1>1, PartOfSeq
<1> HIDE DEF rest
<1>3. CASE cut = FALSE
  <2>1. Unread(s, n, cut) = rest
    BY <1>2, <1>3, ConcatEmptySeq DEF Unread, rest
  <2> QED BY <1>1, <1>2, <1>3, <2>1
<1>4. CASE cut = TRUE
  <2>1. Unread(s, n, cut) = << Remainder >> \o rest
    BY <1>4 DEF Unread, rest
  <2>2. << Remainder >> \in Seq({Remainder}) /\ Len(<< Remainder >>) = 1 /\ << Remainder >>[1] = Remainder
    OBVIOUS
  <2> DEFINE t == << Remainder >> \o rest
  <2>3. /\ Len(t) = 1 + Len(rest)
        /\ \A k \in 1 .. Len(t) : t[k] = IF k <= 1 THEN << Remainder >>[k] ELSE rest[k - 1]
    BY <1>2, <2>2, ConcatProperties
  <2>4. Remainder.text = << >>
    BY DEF Remainder, Message
  <2> HIDE DEF t
  <2>5. ASSUME NEW k \in 1 .. Len(t), t[k].text # << >>
        PROVE  k + (n - 1) \in n + 1 .. Len(s) /\ t[k] = s[k + (n - 1)]
    <3>1. k # 1
      BY <1>1, <2>2, <2>3, <2>4, <2>5
    <3>2. k - 1 \in 1 .. Len(s) - n /\ t[k] = rest[k - 1]
      BY <1>1, <1>2, <2>3, <3>1
    <3> QED BY <1>1, <1>2, <3>2
  <2> QED BY <1>4, <2>1, <2>5 DEF t
<1> QED BY <1>3, <1>4

(* What is left of a stream rises as it did, and beyond what it did.       *)
LEMMA UnreadRises ==
  ASSUME NEW s \in Seq(Items), NEW n \in 0 .. Len(s), NEW cut \in BOOLEAN, NEW hi
  PROVE  /\ Rising(s, hi) => Rising(Unread(s, n, cut), hi)
         /\ \A v : Beyond(s, v) => Beyond(Unread(s, n, cut), v)
<1> DEFINE t == Unread(s, n, cut)
           d == IF cut THEN n - 1 ELSE n
<1>1. Len(s) \in Nat /\ d \in Int /\ n \in Nat /\ Len(t) \in Nat
  <2>1. t \in Seq(Items)
    BY UnreadType
  <2> HIDE DEF t
  <2> QED BY <2>1, LenProperties
<1>2. \A k \in 1 .. Len(t) : t[k].text # << >> => k + d \in n + 1 .. Len(s) /\ t[k] = s[k + d]
  BY UnreadItems
<1> HIDE DEF t, d
<1>3. Rising(s, hi) => Rising(t, hi)
  <2> SUFFICES ASSUME Rising(s, hi), NEW k \in 1 .. Len(t), t[k].text # << >>
               PROVE  /\ t[k].text[2] \in 1 .. hi
                      /\ \A j \in 1 .. k - 1 : t[j].text # << >> => t[j].text[2] < t[k].text[2]
    BY DEF Rising
  <2>1. k + d \in 1 .. Len(s) /\ t[k] = s[k + d]
    BY <1>1, <1>2
  <2>2. ASSUME NEW j \in 1 .. k - 1, t[j].text # << >> PROVE t[j].text[2] < t[k].text[2]
    <3>1. j \in 1 .. Len(t)
      BY <1>1
    <3>2. j + d \in 1 .. (k + d) - 1 /\ t[j] = s[j + d]
      BY <1>1, <1>2, <2>2, <3>1
    <3> QED BY <2>1, <2>2, <3>2 DEF Rising
  <2> QED BY <2>1, <2>2 DEF Rising
<1>4. ASSUME NEW v, Beyond(s, v) PROVE Beyond(t, v)
  <2> SUFFICES ASSUME NEW k \in 1 .. Len(t), t[k].text # << >> PROVE v < t[k].text[2]
    BY DEF Beyond
  <2>1. k + d \in 1 .. Len(s) /\ t[k] = s[k + d]
    BY <1>1, <1>2
  <2> QED BY <1>4, <2>1 DEF Beyond
<1> QED BY <1>3, <1>4 DEF t

(* What may become of a stream to the server when nothing is sent.         *)
Later(t, s) == \E n \in 0 .. Len(s), cut \in BOOLEAN : t = Unread(s, n, cut)

LEMMA RestIsLater ==
  ASSUME NEW s \in Seq(Items)
  PROVE  /\ \A n \in 0 .. Len(s) : Later(SubSeq(s, n + 1, Len(s)), s)
         /\ Later(s, s) /\ Later(<< >>, s)
<1>1. Len(s) \in Nat
  BY LenProperties
<1>2. ASSUME NEW n \in 0 .. Len(s) PROVE Later(SubSeq(s, n + 1, Len(s)), s)
  <2>1. SubSeq(s, n + 1, Len(s)) \in Seq(Items)
    BY <1>1, PartOfSeq
  <2>2. Unread(s, n, FALSE) = SubSeq(s, n + 1, Len(s))
    BY <2>1, ConcatEmptySeq DEF Unread
  <2> QED BY <2>2 DEF Later
<1>3. SubSeq(s, 0 + 1, Len(s)) = s
  <2>1. /\ SubSeq(s, 1, Len(s)) \in Seq(Items) /\ Len(SubSeq(s, 1, Len(s))) = Len(s)
        /\ \A j \in 1 .. Len(s) : SubSeq(s, 1, Len(s))[j] = s[j]
    BY <1>1, PartOfSeq
  <2> QED BY <2>1, SeqEqual
<1>4. SubSeq(s, Len(s) + 1, Len(s)) = << >>
  <2>1. SubSeq(s, Len(s) + 1, Len(s)) \in Seq(Items) /\ Len(SubSeq(s, Len(s) + 1, Len(s))) = 0
    BY <1>1, PartOfSeq
  <2> QED BY <2>1, EmptySeq
<1>5. Later(s, s)
  <2>1. Later(SubSeq(s, 0 + 1, Len(s)), s)
    BY <1>1, <1>2
  <2> QED BY <1>3, <2>1
<1>6. Later(<< >>, s)
  <2>1. Later(SubSeq(s, Len(s) + 1, Len(s)), s)
    BY <1>1, <1>2
  <2> QED BY <1>4, <2>1
<1> QED BY <1>2, <1>5, <1>6

(* A stream to a client after m has been sent, any number of times.        *)
Extends(t, s, m) ==
  Len(s) <= Len(t) /\ \A k \in 1 .. Len(t) : t[k] = IF k <= Len(s) THEN s[k] ELSE m

LEMMA AppendExtends ==
  ASSUME NEW S, NEW s \in Seq(S), NEW m \in S
  PROVE  Extends(Append(s, m), s, m) /\ Extends(s, s, m)
<1>1. Len(s) \in Nat /\ Len(Append(s, m)) = Len(s) + 1
      /\ \A k \in 1 .. Len(s) : Append(s, m)[k] = s[k]
      /\ Append(s, m)[Len(s) + 1] = m
  BY AppendProperties, LenProperties
<1> QED BY <1>1 DEF Extends

LEMMA BroadcastExtends ==
  ASSUME TypeOK, NEW rs, RoomMap(rs, Rooms, Conns), NEW m \in Messages, NEW full,
         Broadcast(rs, m, full), NEW d \in Conns
  PROVE  /\ Extends(outbound'[d], outbound[d], m)
         /\ Len(outbound'[d]) <= Len(outbound[d]) + Copies(rs, m.room, d)
<1> DEFINE n == Copies(rs, m.room, d)
           more == [k \in 1 .. n |-> m]
<1>1. n \in Nat
  <2>1. MembersOf(rs, m.room) \in Seq(Conns)
    BY MembersOfType DEF Messages
  <2>2. DOMAIN MembersOf(rs, m.room) = 1 .. Len(MembersOf(rs, m.room))
    BY <2>1, LenProperties
  <2> QED BY <2>1, <2>2, PlacesFinite DEF Copies
<1>2. outbound'[d] = outbound[d] \/ outbound'[d] = outbound[d] \o more
  BY DEF Broadcast
<1>3. outbound[d] \in Seq(Messages) /\ Len(outbound[d]) \in Nat
  BY LenProperties DEF TypeOK, NetTypeOK
<1> HIDE DEF n
<1>4. more \in Seq(Messages) /\ Len(more) = n /\ \A k \in 1 .. n : more[k] = m
  <2>1. more \in Seq(Messages)
    BY <1>1, RepeatedType
  <2>2. DOMAIN more = 1 .. n
    OBVIOUS
  <2> QED BY <1>1, <2>1, <2>2, LenProperties
<1> HIDE DEF more
<1>5. CASE outbound'[d] = outbound[d]
  BY <1>1, <1>3, <1>5 DEF Extends, n
<1>6. CASE outbound'[d] = outbound[d] \o more
  <2>1. /\ Len(outbound[d] \o more) = Len(outbound[d]) + n
        /\ \A k \in 1 .. Len(outbound[d]) + n :
             (outbound[d] \o more)[k] = IF k <= Len(outbound[d]) THEN outbound[d][k]
                                                                ELSE more[k - Len(outbound[d])]
    BY <1>3, <1>4, ConcatProperties
  <2> QED BY <1>1, <1>3, <1>4, <1>6, <2>1 DEF Extends, n
<1> QED BY <1>2, <1>5, <1>6

(* A member whose client occurs once in the room gets one copy, and nobody *)
(* else gets any.                                                          *)
LEMMA OneCopy ==
  ASSUME AllInv, Live, NEW rs, NEW r, MembersOf(rs, r) \in Seq(Conns), NEW p \in Conns,
         AtMostOnce(MembersOf(rs, r), p), Range(MembersOf(rs, r)) \subseteq Range(clientArray)
  PROVE  Copies(rs, r, p) = 0 \/ (Copies(rs, r, p) = 1 /\ p \in Range(MembersOf(rs, r)))
<1> DEFINE ms == MembersOf(rs, r)
           I  == {k \in 1 .. Len(ms) : peer[socket[ms[k]]] = p}
<1>1. ASSUME NEW k \in I PROVE ms[k] = p /\ p \in Range(ms)
  <2>1. ms[k] \in Range(ms)
    BY RangeEquality
  <2> QED BY <2>1, HandleOfEntry DEF AllInv
<1>2. Copies(rs, r, p) = Cardinality(I)
  <2>1. DOMAIN ms = 1 .. Len(ms)
    BY LenProperties
  <2> QED BY <2>1 DEF Copies
<1>3. ASSUME NEW k \in I PROVE I = {k}
  BY <1>1 DEF AtMostOnce
<1>4. CASE I = {}
  <2> HIDE DEF I
  <2> QED BY <1>2, <1>4, FS_EmptySet
<1>5. CASE I # {}
  <2>1. \E k : I = {k}
    BY <1>3, <1>5
  <2>2. p \in Range(ms)
    BY <1>1, <1>5
  <2> HIDE DEF I
  <2>3. Cardinality(I) = 1
    BY <2>1, FS_Singleton
  <2> QED BY <1>2, <2>2, <2>3 DEF ms
<1> QED BY <1>4, <1>5

(* Such are all rooms as long as nobody joins one twice.                   *)
LEMMA TidyRooms ==
  ASSUME AllInv, rejoined = {}, NEW r \in Rooms
  PROVE  /\ MembersOf(rooms, r) \in Seq(Conns)
         /\ \A p \in Conns : AtMostOnce(MembersOf(rooms, r), p)
         /\ Range(MembersOf(rooms, r)) \subseteq Range(clientArray)
<1>1. MembersOf(rooms, r) \in Seq(Conns)
  BY MembersOfType DEF AllInv, ITypeOK, TypeOK, ServerTypeOK
<1>2. CASE r \in DOMAIN rooms
  BY <1>1, <1>2 DEF AllInv, RoomsOK, SingleMembers, DepartedAreNoMembers, MembersOf
<1>3. CASE r \notin DOMAIN rooms
  BY <1>1, <1>3 DEF MembersOf, AtMostOnce, Range
<1> QED BY <1>2, <1>3

(* A recv takes from the front: a text it returns comes after all that     *)
(* were read before it and before all that it leaves.                      *)
LEMMA ReadInOrder ==
  ASSUME AllInv, DeliveryInv, NumbersOK, Live, NEW c \in Range(clientArray), NEW r \in Receptions(c)
  PROVE  /\ \A x \in Conns : Later(r.inbound[x], inbound[x])
         /\ r.message.text # << >> =>
              /\ r.message.text[2] \in 1 .. sent[c] /\ Beyond(r.inbound[c], r.message.text[2])
              /\ \A v : Beyond(inbound[c], v) => v < r.message.text[2]
<1>1. peer[socket[c]] = c /\ c \in Conns
  BY HandleOfEntry DEF AllInv, Receptions
<1>2. PICK n \in 1 .. Len(inbound[c]), cut \in BOOLEAN : r \in Reception(c, n, cut)
  <2>1. \E n \in 1 .. Len(inbound[peer[socket[c]]]), cut \in BOOLEAN :
          r \in Reception(peer[socket[c]], n, cut)
    BY DEF Receptions, Cuts
  <2> QED BY <1>1, <2>1
<1> DEFINE s == inbound[c]
<1>3. /\ s \in Seq(Items) /\ Len(s) \in Nat /\ n \in 0 .. Len(s) /\ 1 \in 1 .. Len(s) /\ sent[c] \in Nat
      /\ inbound \in [Conns -> Seq(Items)]
  BY <1>1, LenProperties DEF AllInv, ITypeOK, TypeOK, NetTypeOK
<1>4. PICK m \in ReadMessage(SubSeq(s, 1, n), cut) :
        r = [message |-> m, inbound |-> [inbound EXCEPT ![c] = Unread(s, n, cut)]]
  BY <1>2 DEF Reception
<1>5. r.inbound[c] = Unread(s, n, cut) /\ \A x \in Conns \ {c} : r.inbound[x] = inbound[x]
  BY <1>1, <1>3, <1>4
<1>6. Head(SubSeq(s, 1, n)) = s[1]
  <2>1. 1 \in 1 .. Len(s) + 1
    BY <1>3
  <2>2. SubSeq(s, 1, n) \in Seq(Items) /\ Len(SubSeq(s, 1, n)) = n /\ SubSeq(s, 1, n)[1] = s[1]
    BY <1>3, <2>1, PartOfSeq
  <2> QED BY <1>3, <2>2
<1> HIDE DEF s
<1>7. r.message.text # << >> => r.message = s[1]
  <2>1. \A t : Blank(t).text = << >>
    BY DEF Blank, Message
  <2>2. s[1] \in Items
    BY <1>3, ElementOfSeq
  <2>3. [s[1] EXCEPT !.text = << >>].text = << >>
    BY <2>2 DEF Items
  <2>4. \A x \in ReadRemainder : x.text = << >>
    BY <2>1 DEF ReadRemainder
  <2>5. \A x \in ReadPrefix(s[1]) : x.text = << >>
    BY <2>1, <2>3 DEF ReadPrefix
  <2> QED BY <1>4, <1>6, <2>4, <2>5 DEF ReadMessage
<1>8. ASSUME NEW x \in Conns PROVE Later(r.inbound[x], inbound[x])
  <2>1. CASE x = c
    BY <1>3, <1>5, <2>1 DEF Later, s
  <2>2. CASE x # c
    BY <1>3, <1>5, <2>2, RestIsLater
  <2> QED BY <2>1, <2>2
<1>9. ASSUME r.message.text # << >>
      PROVE  /\ r.message.text[2] \in 1 .. sent[c] /\ Beyond(r.inbound[c], r.message.text[2])
             /\ \A v : Beyond(inbound[c], v) => v < r.message.text[2]
  <2>1. r.message = s[1] /\ s[1].text # << >>
    BY <1>7, <1>9
  <2>2. s[1].text[2] \in Nat
    <3>1. s[1] \in Items
      BY <1>3, ElementOfSeq
    <3> QED BY <2>1, <3>1 DEF Items
  <2>3. Rising(s, sent[c])
    BY <1>1 DEF NumbersOK, s
  <2>4. s[1].text[2] \in 1 .. sent[c]
    BY <1>3, <2>1, <2>2, <2>3 DEF Rising
  <2>5. Beyond(r.inbound[c], s[1].text[2])
    <3> DEFINE t == Unread(s, n, cut)
               d == IF cut THEN n - 1 ELSE n
    <3>1. \A k \in 1 .. Len(t) : t[k].text # << >> => k + d \in n + 1 .. Len(s) /\ t[k] = s[k + d]
      BY <1>3, UnreadItems
    <3>2. \A j \in n + 1 .. Len(s) : s[j].text # << >> => s[1].text[2] < s[j].text[2]
      BY <1>3, <2>1, <2>3 DEF Rising
    <3> HIDE DEF t, d
    <3>3. Beyond(t, s[1].text[2])
      BY <3>1, <3>2 DEF Beyond
    <3> QED BY <1>5, <3>3 DEF t
  <2>6. ASSUME NEW v, Beyond(s, v) PROVE v < s[1].text[2]
    BY <1>3, <2>1, <2>6 DEF Beyond
  <2> QED BY <2>1, <2>4, <2>5, <2>6 DEF s
<1> QED BY <1>8, <1>9

(* A step that sends nothing to the server and at most one text, again or  *)
(* for the first time, to the clients.                                     *)
LEMMA StepInOrder ==
  ASSUME ITypeOK, ITypeOK', OrderOK, sent' = sent, rejoined \subseteq rejoined',
         \A x \in Conns : Later(inbound'[x], inbound[x]),
         NEW m, \A d \in Conns : Extends(outbound'[d], outbound[d], m),
         IsPost(m) =>
           /\ Given(m.text[1], m.text[2])'
           /\ \A v : Beyond(inbound[m.text[1]], v) => v < m.text[2]
           /\ rejoined' = {} => \A d \in Conns : Len(outbound'[d]) <= Len(outbound[d]) + 1
  PROVE  OrderOK'
<1>1. /\ \A d \in Conns : Len(outbound[d]) \in Nat /\ Len(outbound'[d]) \in Nat
      /\ inbound \in [Conns -> Seq(Items)] /\ sent \in [Conns -> Nat]
  BY LenProperties DEF ITypeOK, TypeOK, NetTypeOK
<1>2. NumbersOK'
  <2> SUFFICES ASSUME NEW c \in Conns PROVE Rising(inbound'[c], sent[c]) /\ sent[c] <= MaxSends[c]
    BY DEF NumbersOK
  <2> QED BY <1>1, UnreadRises DEF OrderOK, NumbersOK, Later
<1>3. ASSUME NEW a \in Conns, NEW v, Given(a, v) PROVE Given(a, v)'
  <2>1. Beyond(inbound'[a], v)
    BY <1>1, <1>3, UnreadRises DEF Given, Later
  <2> QED BY <1>3, <2>1 DEF Given
<1>4. ASSUME NEW d \in Conns, NEW k \in 1 .. Len(outbound'[d])
      PROVE  \/ k \in 1 .. Len(outbound[d]) /\ outbound'[d][k] = outbound[d][k]
             \/ k \notin 1 .. Len(outbound[d]) /\ outbound'[d][k] = m
  BY <1>1 DEF Extends
<1>5. GivenOK'
  <2> SUFFICES ASSUME NEW d \in Conns, NEW k \in 1 .. Len(outbound'[d]), IsPost(outbound'[d][k])
               PROVE  Given(outbound[d][k].text[1], outbound[d][k].text[2])'
    BY DEF GivenOK
  <2> PICK x : x = outbound'[d][k]
    OBVIOUS
  <2> PICK a, v : a = x.text[1] /\ v = x.text[2]
    OBVIOUS
  <2>1. Given(a, v)'
    <3>1. CASE x = m
      BY <3>1 DEF Given
    <3>2. CASE k \in 1 .. Len(outbound[d]) /\ x = outbound[d][k]
      BY <1>3, <3>2 DEF OrderOK, GivenOK, IsPost
    <3> QED BY <1>4, <3>1, <3>2
  <2> QED BY <2>1 DEF Given
<1>6. OrderedDelivery'
  <2> SUFFICES ASSUME NEW d \in Conns, NEW k \in 1 .. Len(outbound'[d]), NEW j \in 1 .. k - 1,
                      IsPost(outbound'[d][j]), IsPost(outbound'[d][k]),
                      outbound'[d][j].text[1] = outbound'[d][k].text[1]
               PROVE  \/ outbound'[d][j].text[2] < outbound'[d][k].text[2]
                      \/ outbound'[d][j].text[2] = outbound'[d][k].text[2] /\ rejoined' # {}
    BY DEF OrderedDelivery, IsPost
  <2>1. j \in 1 .. Len(outbound'[d])
    BY <1>1
  <2>2. CASE k \in 1 .. Len(outbound[d])
    <3>1. /\ j \in 1 .. Len(outbound[d]) /\ outbound'[d][j] = outbound[d][j] /\ outbound'[d][k] = outbound[d][k]
      BY <1>1, <1>4, <2>1, <2>2
    <3> QED BY <2>2, <3>1 DEF OrderOK, OrderedDelivery
  <2>3. CASE k \notin 1 .. Len(outbound[d]) /\ j \in 1 .. Len(outbound[d])
    <3>1. outbound'[d][k] = m /\ outbound'[d][j] = outbound[d][j]
      BY <1>4, <2>1, <2>3
    <3>2. Beyond(inbound[m.text[1]], outbound[d][j].text[2])
      BY <2>3, <3>1 DEF OrderOK, GivenOK, Given
    <3> QED BY <3>1, <3>2
  <2>4. CASE k \notin 1 .. Len(outbound[d]) /\ j \notin 1 .. Len(outbound[d])
    <3>1. outbound'[d][k] = m /\ outbound'[d][j] = m
      BY <1>4, <2>1, <2>4
    <3>2. ~ (Len(outbound'[d]) <= Len(outbound[d]) + 1)
      BY <1>1, <2>1, <2>4
    <3> QED BY <3>1, <3>2
  <2> QED BY <2>2, <2>3, <2>4
<1> QED BY <1>2, <1>5, <1>6 DEF OrderOK

(* Messages that are no client's text are sent without further ado.        *)
LEMMA NoticeInOrder ==
  ASSUME ITypeOK, ITypeOK', OrderOK, sent' = sent, rejoined \subseteq rejoined',
         \A x \in Conns : Later(inbound'[x], inbound[x]),
         NEW m, ~IsPost(m), \A d \in Conns : Extends(outbound'[d], outbound[d], m)
  PROVE  OrderOK'
BY StepInOrder

LEMMA SilentInOrder ==
  ASSUME ITypeOK, ITypeOK', OrderOK, sent' = sent, rejoined' = rejoined, outbound' = outbound,
         \A x \in Conns : Later(inbound'[x], inbound[x])
  PROVE  OrderOK'
<1> DEFINE m == Message("REQUEST", "", "", << >>)
<1>1. m \in Messages /\ ~IsPost(m)
  BY DEF Message, Messages, Types, Rooms, Texts, IsPost
<1> HIDE DEF m
<1>2. \A d \in Conns : Extends(outbound'[d], outbound[d], m)
  <2> SUFFICES ASSUME NEW d \in Conns PROVE Extends(outbound[d], outbound[d], m)
    OBVIOUS
  <2>1. outbound[d] \in Seq(Messages)
    BY DEF ITypeOK, TypeOK, NetTypeOK
  <2> QED BY <1>1, <2>1, AppendExtends
<1>3. PICK x : x = m
  OBVIOUS
<1> QED BY <1>1, <1>2, <1>3, NoticeInOrder

LEMMA StreamsStay ==
  ASSUME ITypeOK, inbound' = inbound
  PROVE  \A x \in Conns : Later(inbound'[x], inbound[x])
BY RestIsLater DEF ITypeOK, TypeOK, NetTypeOK

(* The peers: what they send next has the highest number.                  *)
LEMMA PeersInOrder ==
  ASSUME ITypeOK, ITypeOK', OrderOK, NEW c \in Conns,
         \/ Connect(c) \/ PeerClose(c) \/ PeerAbort(c)
         \/ \E m \in Requests(c) : PeerSend(c, m)
  PROVE  OrderOK'
<1>1. outbound' = outbound /\ rejoined' = rejoined
  BY DEF Connect, PeerClose, PeerAbort, PeerSend, history
<1>2. inbound \in [Conns -> Seq(Items)] /\ sent \in [Conns -> Nat]
  BY DEF ITypeOK, TypeOK, NetTypeOK
<1>3. CASE Connect(c) \/ PeerClose(c)
  BY <1>1, <1>3, StreamsStay, SilentInOrder DEF Connect, PeerClose
<1>4. CASE PeerAbort(c)
  <2>1. sent' = sent /\ inbound' = [inbound EXCEPT ![c] = << >>]
    BY <1>4 DEF PeerAbort
  <2>2. \A x \in Conns : Later(inbound'[x], inbound[x])
    BY <1>2, <2>1, RestIsLater
  <2> QED BY <1>1, <2>1, <2>2, SilentInOrder
<1>5. ASSUME NEW m \in Requests(c), PeerSend(c, m) PROVE OrderOK'
  <2> DEFINE s == inbound[c]
             t == Append(s, m)
             n == sent[c] + 1
  <2>1. inbound' = [inbound EXCEPT ![c] = t] /\ sent' = [sent EXCEPT ![c] = n]
    BY <1>5 DEF PeerSend
  <2>2. m.text # << >> => m.text[2] = n
    <3>1. \/ \E u \in Names : m = LoginMessage(u)
          \/ \E r \in RoomNames : m = JoinMessage(r) \/ m = LeaveMessage(r) \/ m = UserMessage(r, << c, n >>)
      BY DEF Requests
    <3> HIDE DEF n
    <3>2. /\ \A u : LoginMessage(u).text = << >> /\ JoinMessage(u).text = << >> /\ LeaveMessage(u).text = << >>
          /\ \A r, x : UserMessage(r, x).text = x
      BY DEF LoginMessage, JoinMessage, LeaveMessage, UserMessage, Message
    <3>3. m.text = << >> \/ m.text = << c, n >>
      BY <3>1, <3>2
    <3> QED BY <3>3
  <2>3. /\ Len(t) = Len(s) + 1 /\ Len(s) \in Nat /\ n \in Nat /\ sent[c] \in Nat
        /\ \A k \in 1 .. Len(s) : t[k] = s[k]
        /\ t[Len(s) + 1] = m
    BY <1>2, AppendProperties, LenProperties
  <2>4. \A k \in 1 .. Len(s) : s[k].text # << >> => s[k].text[2] \in Nat
    <3>1. \A k \in 1 .. Len(s) : s[k] \in Items
      BY <1>2, ElementOfSeq
    <3> QED BY <3>1 DEF Items
  <2> HIDE DEF s, t
  <2>5. Rising(s, sent[c])
    BY DEF OrderOK, NumbersOK, s
  <2>6. Rising(t, n)
    <3> SUFFICES ASSUME NEW k \in 1 .. Len(t), t[k].text # << >>
                 PROVE  /\ t[k].text[2] \in 1 .. n
                        /\ \A j \in 1 .. k - 1 : t[j].text # << >> => t[j].text[2] < t[k].text[2]
      BY DEF Rising
    <3>1. CASE k \in 1 .. Len(s)
      BY <2>3, <2>4, <2>5, <3>1, SMTT(30) DEF Rising
    <3>2. CASE k = Len(s) + 1
      BY <2>2, <2>3, <2>4, <2>5, <3>2 DEF Rising
    <3> QED BY <2>3, <3>1, <3>2
  <2>7. ASSUME NEW v \in 0 .. sent[c], Beyond(s, v) PROVE Beyond(t, v)
    BY <2>2, <2>3, <2>7 DEF Beyond
  <2>8. ASSUME NEW a \in Conns, NEW v, Given(a, v) PROVE Given(a, v)'
    <3>1. CASE a = c
      <4>1. v \in 0 .. sent[c] /\ Beyond(s, v)
        BY <1>5, <2>8, <3>1 DEF Given, s
      <4>2. v \in 0 .. n /\ Beyond(t, v)
        BY <2>3, <2>7, <4>1
      <4> QED BY <1>2, <2>1, <3>1, <4>2 DEF Given
    <3>2. CASE a # c
      BY <1>2, <2>1, <2>8, <3>2 DEF Given
    <3> QED BY <3>1, <3>2
  <2>9. NumbersOK'
    <3>1. n <= MaxSends[c]
      <4>1. sent[c] < MaxSends[c]
        BY <1>5 DEF PeerSend
      <4>2. MaxSends[c] \in Nat
        BY ConstantsAssumption
      <4> QED BY <2>3, <4>1, <4>2
    <3> QED BY <1>2, <2>1, <2>6, <3>1 DEF OrderOK, NumbersOK
  <2>10. GivenOK'
    <3> SUFFICES ASSUME NEW d \in Conns, NEW k \in 1 .. Len(outbound[d]), IsPost(outbound[d][k])
                 PROVE  Given(outbound[d][k].text[1], outbound[d][k].text[2])'
      BY <1>1 DEF GivenOK, IsPost
    <3> PICK a, v : a = outbound[d][k].text[1] /\ v = outbound[d][k].text[2]
      OBVIOUS
    <3>1. Given(a, v)'
      BY <2>8 DEF OrderOK, GivenOK, IsPost
    <3> QED BY <1>1, <3>1 DEF Given
  <2> QED BY <1>1, <2>9, <2>10 DEF OrderOK, OrderedDelivery, IsPost
<1> QED BY <1>3, <1>4, <1>5

(* LOGIN may send the auth server's request astray: no text of a client.   *)
LEMMA LoginInOrder ==
  ASSUME AllInv, ITypeOK', DeliveryInv, OrderOK, NEW k, ServeLogin(k)
  PROVE  OrderOK'
<1> DEFINE c == clientArray[k]
<1>1. k \in 1 .. Total /\ c \in Conns /\ Live /\ sent' = sent /\ rejoined' = rejoined
  BY TurnType DEF ServeLogin, Turn, Live, AllInv, ITypeOK
<1>2. c \in Range(clientArray)
  BY <1>1, RangeEquality DEF AllInv, ITypeOK, TypeOK, ServerTypeOK, Total
<1>3. PICK r \in Receptions(c) :
        /\ inbound' = r.inbound
        /\ \/ outbound' = outbound
           \/ \E p \in Conns :
                outbound' = [outbound EXCEPT ![p] = Append(@, Message("REQUEST", r.message.name, "", << >>))]
  BY DEF ServeLogin, AuthSendMessage, Request
<1> HIDE DEF c
<1>4. \A x \in Conns : Later(inbound'[x], inbound[x])
  BY <1>1, <1>2, <1>3, ReadInOrder DEF OrderOK
<1>5. PICK m : m = Message("REQUEST", r.message.name, "", << >>)
  OBVIOUS
<1>6. CASE outbound' = outbound
  BY <1>1, <1>4, <1>6, SilentInOrder DEF AllInv
<1>7. ASSUME NEW p \in Conns, outbound' = [outbound EXCEPT ![p] = Append(@, m)] PROVE OrderOK'
  <2>1. outbound \in [Conns -> Seq(Messages)] /\ m \in Messages
    <3>1. r.message \in Items
      BY <1>1, ReceptionsType DEF AllInv, ITypeOK
    <3> QED BY <1>5, <3>1 DEF AllInv, ITypeOK, TypeOK, NetTypeOK, Message, Messages, Types, Items, Rooms, Texts
  <2>2. ~IsPost(m)
    BY <1>5 DEF IsPost, Message
  <2>3. \A d \in Conns : Extends(outbound'[d], outbound[d], m)
    BY <1>7, <2>1, AppendExtends
  <2> QED BY <1>1, <1>4, <2>2, <2>3, NoticeInOrder DEF AllInv
<1> QED BY <1>3, <1>5, <1>6, <1>7

(* JOIN and LEAVE: the notices are the server's.                           *)
LEMMA NoticesInOrder ==
  ASSUME AllInv, ITypeOK', DeliveryInv, OrderOK, NEW k, ServeJoin(k) \/ ServeLeave(k)
  PROVE  OrderOK'
<1> DEFINE c == clientArray[k]
<1>1. k \in 1 .. Total /\ c \in Conns /\ Live /\ sent' = sent /\ rejoined \subseteq rejoined'
  BY TurnType DEF ServeJoin, ServeLeave, Turn, Live, AllInv, ITypeOK, history
<1>2. c \in Range(clientArray)
  BY <1>1, RangeEquality DEF AllInv, ITypeOK, TypeOK, ServerTypeOK, Total
<1>3. PICK r \in Receptions(c), full \in FullWindows, w \in {"joined", "left"} :
        /\ inbound' = r.inbound
        /\ Broadcast(rooms', RecieveMessage("server", r.message.room, << w, name[c] >>), full)
  BY DEF ServeJoin, ServeLeave
<1>4. \A x \in Conns : Later(inbound'[x], inbound[x])
  BY <1>1, <1>2, <1>3, ReadInOrder DEF OrderOK
<1>5. PICK m : m = RecieveMessage("server", r.message.room, << w, name[c] >>)
  OBVIOUS
<1>6. m \in Messages /\ ~IsPost(m)
  <2>1. r.message.room \in Rooms
    <3>1. r.message \in Items
      BY <1>1, ReceptionsType DEF AllInv, ITypeOK
    <3> QED BY <3>1 DEF Items
  <2>2. << w, name[c] >> \in Notices
    BY <1>1 DEF Notices, AllInv, ITypeOK, TypeOK, ClientTypeOK
  <2> QED BY <1>5, <2>1, <2>2, ConstantsAssumption
          DEF RecieveMessage, Message, Messages, Types, Texts, IsPost
<1> HIDE DEF c
<1>7. RoomMap(rooms', Rooms, Conns)
  BY DEF ITypeOK, TypeOK, ServerTypeOK
<1>8. PICK rs : rs = rooms'
  OBVIOUS
<1>9. RoomMap(rs, Rooms, Conns) /\ Broadcast(rs, m, full)
  BY <1>3, <1>5, <1>7, <1>8
<1>10. \A d \in Conns : Extends(outbound'[d], outbound[d], m)
  BY <1>6, <1>9, BroadcastExtends DEF AllInv, ITypeOK
<1> QED BY <1>1, <1>4, <1>6, <1>10, NoticeInOrder DEF AllInv

(* SEND: the text comes after all that anybody got of its author.          *)
LEMMA SendInOrder ==
  ASSUME AllInv, ITypeOK', DeliveryInv, OrderOK, NEW k, ServeSend(k)
  PROVE  OrderOK'
<1> DEFINE c == clientArray[k]
<1>1. k \in 1 .. Total /\ c \in Conns /\ Live /\ sent' = sent /\ rejoined' = rejoined
  BY TurnType DEF ServeSend, Turn, Live, AllInv, ITypeOK, history
<1>2. c \in Range(clientArray)
  BY <1>1, RangeEquality DEF AllInv, ITypeOK, TypeOK, ServerTypeOK, Total
<1>3. PICK r \in Receptions(c), full \in FullWindows :
        /\ inbound' = r.inbound
        /\ Broadcast(rooms, RecieveMessage(name[c], r.message.room, r.message.text), full)
  BY DEF ServeSend
<1>4. PICK m : m = RecieveMessage(name[c], r.message.room, r.message.text)
  OBVIOUS
<1> HIDE DEF c
<1>5. r.message \in ItemsOf(c)
  BY <1>1, <1>2, ReceptionOrigins
<1>6. m \in Messages /\ m.room \in Rooms /\ m.text = r.message.text /\ (m.text = << >> \/ m.text[1] = c)
  <2>1. name[c] \in Names \union {""}
    BY <1>1 DEF AllInv, ITypeOK, TypeOK, ClientTypeOK
  <2> QED BY <1>4, <1>5, <2>1 DEF ItemsOf, Items, RecieveMessage, Message, Messages, Types, Texts
<1>7. /\ \A x \in Conns : Later(inbound'[x], inbound[x])
      /\ m.text # << >> =>
           /\ m.text[2] \in 1 .. sent[c] /\ Beyond(inbound'[c], m.text[2])
           /\ \A v : Beyond(inbound[c], v) => v < m.text[2]
  BY <1>1, <1>2, <1>3, <1>6, ReadInOrder DEF OrderOK
<1>8. RoomMap(rooms, Rooms, Conns)
  BY DEF AllInv, ITypeOK, TypeOK, ServerTypeOK
<1>9. \A d \in Conns : /\ Extends(outbound'[d], outbound[d], m)
                       /\ Len(outbound'[d]) <= Len(outbound[d]) + Copies(rooms, m.room, d)
  BY <1>3, <1>4, <1>6, <1>8, BroadcastExtends DEF AllInv, ITypeOK
<1>10. ASSUME rejoined' = {} PROVE \A d \in Conns : Len(outbound'[d]) <= Len(outbound[d]) + 1
  <2> SUFFICES ASSUME NEW d \in Conns PROVE Len(outbound'[d]) <= Len(outbound[d]) + 1
    OBVIOUS
  <2>1. Copies(rooms, m.room, d) <= 1
    <3>1. rejoined = {}
      BY <1>1, <1>10
    <3> QED BY <1>1, <1>6, <3>1, TidyRooms, OneCopy
  <2>2. Len(outbound[d]) \in Nat /\ Len(outbound'[d]) \in Nat
    BY LenProperties DEF AllInv, ITypeOK, TypeOK, NetTypeOK
  <2>3. Copies(rooms, m.room, d) \in Nat
    <3>1. MembersOf(rooms, m.room) \in Seq(Conns)
      BY <1>6, <1>8, MembersOfType
    <3>2. DOMAIN MembersOf(rooms, m.room) = 1 .. Len(MembersOf(rooms, m.room))
      BY <3>1, LenProperties
    <3> QED BY <3>1, <3>2, PlacesFinite DEF Copies
  <2>4. Len(outbound'[d]) <= Len(outbound[d]) + Copies(rooms, m.room, d)
    BY <1>9
  <2> QED BY <2>1, <2>2, <2>3, <2>4
<1>11. IsPost(m) => m.text # << >> /\ m.text[1] = c /\ Given(m.text[1], m.text[2])'
  <2> PICK a, v : a = m.text[1] /\ v = m.text[2]
    OBVIOUS
  <2>1. m.text # << >> => Given(a, v)'
    BY <1>1, <1>6, <1>7 DEF Given
  <2> QED BY <1>6, <2>1 DEF IsPost, Given
<1> QED BY <1>1, <1>7, <1>9, <1>10, <1>11, StepInOrder DEF AllInv

(* The poll of the auth connection: an answer is no text of a client, and  *)
(* bytes of a client that are read there are lost.                         *)
LEMMA PollInOrder ==
  ASSUME AllInv, ITypeOK', OrderOK, PollAuth
  PROVE  OrderOK'
<1>1. sent' = sent /\ rejoined' = rejoined
  BY DEF PollAuth, PollAuthFails, PollAuthNothing, PollAuthResponse, PollAuthSteals, PollAuthStep, history
<1>2. CASE PollAuthFails \/ PollAuthNothing
  BY <1>1, <1>2, StreamsStay, SilentInOrder DEF PollAuthFails, PollAuthNothing, AllInv
<1>3. CASE PollAuthSteals
  <2> DEFINE p == peer[authSocket]
  <2>1. PICK n \in 1 .. Len(inbound[p]) :
          p \in Conns /\ inbound' = [inbound EXCEPT ![p] = SubSeq(inbound[p], n + 1, Len(inbound[p]))]
    BY <1>3 DEF PollAuthSteals
  <2>2. outbound' = outbound
    BY <1>3 DEF PollAuthSteals
  <2> HIDE DEF p
  <2>3. inbound \in [Conns -> Seq(Items)] /\ Len(inbound[p]) \in Nat
    BY <2>1, LenProperties DEF AllInv, ITypeOK, TypeOK, NetTypeOK
  <2>4. n \in 0 .. Len(inbound[p])
    BY <2>3
  <2>5. \A x \in Conns : Later(inbound'[x], inbound[x])
    BY <2>1, <2>3, <2>4, RestIsLater
  <2> QED BY <1>1, <2>2, <2>5, SilentInOrder DEF AllInv
<1>4. CASE PollAuthResponse
  <2>1. inbound' = inbound
    BY <1>4 DEF PollAuthResponse
  <2>2. PICK n \in 1 .. Len(fromAuth) :
          LET a == ReadResponses(SubSeq(fromAuth, 1, n)) IN
          \/ \E k \in 1 .. Total : Reply(clientArray[k], a)
          \/ UNCHANGED outbound
    BY <1>4 DEF PollAuthResponse
  <2> DEFINE a == ReadResponses(SubSeq(fromAuth, 1, n))
  <2>3. PICK m : m = Message("REPLY", a.username, "", << a.type, a.by >>)
    OBVIOUS
  <2>4. ~IsPost(m)
    BY <2>3 DEF Message, IsPost
  <2>5. \/ outbound' = outbound
        \/ \E p \in Conns : outbound' = [outbound EXCEPT ![p] = Append(@, m)]
    BY <2>2, <2>3 DEF Reply
  <2>6. \A x \in Conns : Later(inbound'[x], inbound[x])
    BY <2>1, StreamsStay DEF AllInv
  <2> HIDE DEF a
  <2>7. CASE outbound' = outbound
    BY <1>1, <2>6, <2>7, SilentInOrder DEF AllInv
  <2>8. ASSUME NEW p \in Conns, outbound' = [outbound EXCEPT ![p] = Append(@, m)] PROVE OrderOK'
    <3>1. \A d \in Conns : outbound[d] \in Seq(Messages \union {m})
      BY SeqMonotonic DEF AllInv, ITypeOK, TypeOK, NetTypeOK
    <3>2. outbound \in [Conns -> Seq(Messages)]
      BY DEF AllInv, ITypeOK, TypeOK, NetTypeOK
    <3>3. \A d \in Conns : Extends(outbound'[d], outbound[d], m)
      BY <2>8, <3>1, <3>2, AppendExtends
    <3> QED BY <1>1, <2>4, <2>6, <3>3, NoticeInOrder DEF AllInv
  <2> QED BY <2>5, <2>7, <2>8
<1> QED BY <1>2, <1>3, <1>4 DEF PollAuth

LEMMA NextInOrder ==
  ASSUME AllInv, ITypeOK', DeliveryInv, OrderOK, [Next]_vars
  PROVE  OrderOK'
<1>1. ASSUME UNCHANGED << inbound, sent, outbound, rejoined >> PROVE OrderOK'
  BY <1>1, StreamsStay, SilentInOrder DEF AllInv
<1>2. CASE UNCHANGED vars
  BY <1>1, <1>2 DEF vars, netVars, history
<1>3. CASE Environment
  <2>1. CASE AuthAnswer \/ AuthEnds
    BY <1>1, <2>1 DEF AuthAnswer, AuthEnds, netVars, history
  <2> QED BY <1>3, <2>1, PeersInOrder DEF Environment, AllInv
<1>4. CASE Exit \/ Select \/ Accept \/ EndServe
  BY <1>1, <1>4 DEF Exit, Select, Accept, EndServe, netVars, history
<1>5. ASSUME NEW k, ServeOther(k) PROVE OrderOK'
  <2>1. PICK r \in Receptions(clientArray[k]) : inbound' = r.inbound
    BY <1>5 DEF ServeOther
  <2>2. k \in 1 .. Total /\ Live
    BY <1>5, TurnType DEF ServeOther, Turn, Live, AllInv, ITypeOK
  <2>3. clientArray[k] \in Range(clientArray)
    BY <2>2, RangeEquality DEF AllInv, ITypeOK, TypeOK, ServerTypeOK, Total
  <2>4. \A x \in Conns : Later(inbound'[x], inbound[x])
    BY <2>1, <2>2, <2>3, ReadInOrder DEF OrderOK
  <2>5. UNCHANGED << sent, outbound, rejoined >>
    BY <1>5 DEF ServeOther, history
  <2> QED BY <2>4, <2>5, SilentInOrder DEF AllInv
<1>6. ASSUME NEW k, Serve(k) PROVE OrderOK'
  <2>1. CASE ServeGone(k)
    BY <1>1, <2>1 DEF ServeGone, history
  <2> QED BY <1>5, <1>6, <2>1, LoginInOrder, NoticesInOrder, SendInOrder DEF Serve
<1> QED BY <1>2, <1>3, <1>4, <1>6, PollInOrder DEF Next, ServerStep

LEMMA InitInOrder == Init => OrderOK
<1> SUFFICES ASSUME Init PROVE OrderOK
  OBVIOUS
<1>1. /\ inbound = [c \in Conns |-> << >>] /\ outbound = [c \in Conns |-> << >>]
      /\ sent = [c \in Conns |-> 0]
  BY DEF Init
<1>2. Len(<< >>) = 0
  BY EmptySeq
<1>3. \A c \in Conns : MaxSends[c] \in Nat
  BY ConstantsAssumption
<1> QED BY <1>1, <1>2, <1>3 DEF OrderOK, NumbersOK, GivenOK, OrderedDelivery, Rising

LEMMA OrderInvariant == Spec => [](AllInv /\ DeliveryInv /\ OrderOK)
<1>1. Init => OrderOK
  BY InitInOrder
<1>2. ITypeOK /\ ITypeOK' /\ RoomsOK /\ SocketsInv /\ DeliveryInv /\ OrderOK /\ [Next]_vars => OrderOK'
  BY NextInOrder DEF AllInv
<1>3. ITypeOK /\ RoomsOK /\ SocketsInv => AllInv
  BY DEF AllInv
<1> QED BY <1>1, <1>2, <1>3, RoomsInvariant, SocketsInvariant, DeliveryInvariant, PTL DEF Spec

(* What a client gets of another one's texts is in the order in which they *)
(* were sent, and nothing comes twice as long as nobody joins a room       *)
(* twice: for any number of clients and rooms, and whatever is coalesced,  *)
(* cut or lost.                                                            *)
THEOREM TextsInOrder == Spec => []OrderedDelivery
<1>1. OrderOK => OrderedDelivery
  BY DEF OrderOK
<1> QED BY <1>1, OrderInvariant, PTL

-----------------------------------------------------------------------------
(* The room service.                                                       *)
RoomSets == [r \in Rooms |-> Range(MembersOf(rooms, r))]
TidyInv == AllInv /\ DeliveryInv /\ OrderOK /\ rejoined = {}

(* A message that is sent to a room is delivered as the service says: each *)
(* member gets it once, or not at all.                                     *)
LEMMA BroadcastDelivers ==
  ASSUME AllInv, Live, NEW rs, NEW m \in Messages, NEW full, Broadcast(rs, m, full),
         MembersOf(rs, m.room) \in Seq(Conns),
         \A p \in Conns : AtMostOnce(MembersOf(rs, m.room), p),
         Range(MembersOf(rs, m.room)) \subseteq Range(clientArray)
  PROVE  \E to \in SUBSET Range(MembersOf(rs, m.room)) :
           outbound' = [c \in Conns |-> IF c \in to THEN Append(outbound[c], m) ELSE outbound[c]]
<1> DEFINE to == {p \in Range(MembersOf(rs, m.room)) :
                    p \in Conns /\ outbound'[p] = Append(outbound[p], m)}
<1>1. ASSUME NEW p \in Conns
      PROVE  outbound'[p] = outbound[p] \/ (p \in Range(MembersOf(rs, m.room)) /\ outbound'[p] = Append(outbound[p], m))
  <2>1. \/ outbound'[p] = outbound[p]
        \/ outbound'[p] = outbound[p] \o [k \in 1 .. Copies(rs, m.room, p) |-> m]
    BY DEF Broadcast
  <2>2. outbound[p] \in Seq(Messages)
    BY DEF AllInv, ITypeOK, TypeOK, NetTypeOK
  <2>3. CASE Copies(rs, m.room, p) = 0
    <3>1. [k \in 1 .. 0 |-> m] = << >>
      BY RepeatedType, EmptySeq
    <3> QED BY <2>1, <2>2, <2>3, <3>1, ConcatEmptySeq
  <2>4. CASE Copies(rs, m.room, p) = 1 /\ p \in Range(MembersOf(rs, m.room))
    <3>1. /\ outbound[p] \o [k \in 1 .. 1 |-> m] \in Seq(Messages)
          /\ Len(outbound[p] \o [k \in 1 .. 1 |-> m]) = Len(outbound[p]) + 1
          /\ \A j \in 1 .. Len(outbound[p]) + 1 :
               (outbound[p] \o [k \in 1 .. 1 |-> m])[j] = IF j <= Len(outbound[p]) THEN outbound[p][j] ELSE m
      <4>1. [k \in 1 .. 1 |-> m] \in Seq(Messages) /\ Len([k \in 1 .. 1 |-> m]) = 1
        OBVIOUS
      <4> QED BY <2>2, <4>1, ConcatProperties, LenProperties
    <3>2. /\ Append(outbound[p], m) \in Seq(Messages) /\ Len(Append(outbound[p], m)) = Len(outbound[p]) + 1
          /\ \A j \in 1 .. Len(outbound[p]) + 1 :
               Append(outbound[p], m)[j] = IF j <= Len(outbound[p]) THEN outbound[p][j] ELSE m
      BY <2>2, AppendProperties, LenProperties
    <3>3. outbound[p] \o [k \in 1 .. 1 |-> m] = Append(outbound[p], m)
      BY <3>1, <3>2, SeqEqual
    <3> QED BY <2>1, <2>4, <3>3
  <2> QED BY <2>3, <2>4, OneCopy
<1>2. outbound' = [c \in Conns |-> outbound'[c]]
  BY DEF Broadcast
<1>3. \A c \in Conns : outbound'[c] = IF c \in to THEN Append(outbound[c], m) ELSE outbound[c]
  BY <1>1
<1> HIDE DEF to
<1>4. outbound' = [c \in Conns |-> IF c \in to THEN Append(outbound[c], m) ELSE outbound[c]]
  BY <1>2, <1>3
<1> QED BY <1>4 DEF to

(* Steps that no client hears of.                                          *)
LEMMA SilentStep ==
  ASSUME UNCHANGED << clientArray, name, rooms, outbound >>
  PROVE  UNCHANGED Service!serviceVars
BY DEF Service!serviceVars

(* accept: a connection that was not in ClientArray comes online.          *)
LEMMA AcceptTidy ==
  ASSUME TidyInv, Accept
  PROVE  [Service!ServiceNext]_(Service!serviceVars)
<1>1. UNCHANGED << name, rooms, outbound >>
  BY DEF Accept
<1>2. CASE UNCHANGED clientArray
  BY <1>1, <1>2, SilentStep
<1>3. CASE clientArray' = Append(clientArray, Head(backlog))
  <2> DEFINE c == Head(backlog)
  <2>1. backlog \in Seq(Conns) /\ backlog # << >> /\ clientArray \in Seq(Conns)
    BY DEF TidyInv, AllInv, ITypeOK, TypeOK, NetTypeOK, ServerTypeOK, AcceptHasBacklog, Accept
  <2>2. c \in Conns /\ c \in Range(backlog)
    <3>1. c = backlog[1] /\ 1 \in 1 .. Len(backlog) /\ c \in Conns
      BY <2>1, HeadTailProperties, LenProperties, EmptySeq
    <3> QED BY <2>1, <3>1, RangeEquality
  <2>3. c \notin Range(clientArray)
    BY <2>2 DEF TidyInv, AllInv, SocketsInv, QueuesOK
  <2>4. Range(clientArray') = Range(clientArray) \union {c}
    BY <1>3, <2>1, <2>2, AppendRange
  <2>5. Service!ComeOnline(c)
    BY <1>1, <2>3, <2>4 DEF Service!ComeOnline
  <2> QED BY <2>2, <2>5 DEF Service!ServiceNext
<1> QED BY <1>2, <1>3 DEF Accept

(* LOGIN changes a name; its request may go astray.                        *)
LEMMA LoginTidy ==
  ASSUME TidyInv, NEW k, ServeLogin(k)
  PROVE  Service!ServiceNext
<1> DEFINE c == clientArray[k]
<1>1. k \in 1 .. Total /\ c \in Conns /\ UNCHANGED << clientArray, rooms >>
  BY TurnType DEF ServeLogin, Turn, TidyInv, AllInv, ITypeOK
<1>2. c \in Range(clientArray)
  BY <1>1, RangeEquality DEF TidyInv, AllInv, ITypeOK, TypeOK, ServerTypeOK, Total
<1>3. PICK r \in Receptions(c) :
        /\ name' = [name EXCEPT ![c] = r.message.name]
        /\ \/ outbound' = outbound
           \/ /\ r.message.name # ""
              /\ \E p \in Conns :
                   outbound' = [outbound EXCEPT ![p] = Append(@, Message("REQUEST", r.message.name, "", << >>))]
  BY DEF ServeLogin, AuthSendMessage, Request
<1>4. r.message.name \in Names \union {""}
  <2>1. r.message \in Items
    BY <1>1, ReceptionsType DEF TidyInv, AllInv, ITypeOK
  <2> QED BY <2>1 DEF Items
<1> HIDE DEF c
<1>5. Service!Tell
  <2>1. \A u \in Names : Message("REQUEST", u, "", << >>) \in LoginAsides
    BY DEF LoginAsides, Message
  <2>2. r.message.name # "" => Message("REQUEST", r.message.name, "", << >>) \in LoginAsides
    BY <1>4, <2>1
  <2> QED BY <1>3, <2>2 DEF Service!Tell
<1>6. Service!Rename(c)
  BY <1>1, <1>2, <1>3, <1>4, <1>5 DEF Service!Rename
<1> QED BY <1>1, <1>6 DEF Service!ServiceNext

(* JOIN: the joiner is new in the room and hears the notice too.           *)
LEMMA JoinTidy ==
  ASSUME TidyInv, ITypeOK', RoomsOK', rejoined' = {}, NEW k, ServeJoin(k)
  PROVE  Service!ServiceNext
<1> DEFINE c == clientArray[k]
<1>1. k \in 1 .. Total /\ c \in Conns /\ Live /\ UNCHANGED << clientArray, name >>
  BY TurnType DEF ServeJoin, Turn, Live, clientVars, TidyInv, AllInv, ITypeOK
<1>2. c \in Range(clientArray)
  BY <1>1, RangeEquality DEF TidyInv, AllInv, ITypeOK, TypeOK, ServerTypeOK, Total
<1>3. PICK r \in Receptions(c), full \in FullWindows :
        /\ rooms' = AddMember(rooms, r.message.room, c)
        /\ Broadcast(rooms', RecieveMessage("server", r.message.room, << "joined", name[c] >>), full)
  BY DEF ServeJoin
<1> DEFINE room == r.message.room
           m == Joined(name[c], room)
<1>4. room \in Rooms /\ name[c] \in Names \union {""}
  <2>1. r.message \in Items
    BY <1>1, ReceptionsType DEF TidyInv, AllInv, ITypeOK
  <2> QED BY <1>1, <2>1 DEF Items, TidyInv, AllInv, ITypeOK, TypeOK, ClientTypeOK
<1>5. m \in Messages /\ m.room = room
  <2>1. << "joined", name[c] >> \in Notices
    BY <1>4 DEF Notices
  <2> QED BY <1>4, <2>1 DEF Joined, RecieveMessage, Message, Messages, Types, Texts
<1> HIDE DEF c, room
<1>6. /\ MembersOf(rooms, room) \in Seq(Conns)
      /\ DOMAIN rooms' = DOMAIN rooms \union {room}
      /\ \A x \in DOMAIN rooms \union {room} :
           rooms'[x] = IF x = room THEN Append(MembersOf(rooms, room), c) ELSE rooms[x]
  <2>1. MembersOf(rooms, room) \in Seq(Conns) /\ RoomMap(rooms, Rooms, Conns)
    BY <1>4, MembersOfType DEF TidyInv, AllInv, ITypeOK, TypeOK, ServerTypeOK
  <2> QED BY <1>3, <2>1 DEF AddMember, WithMembers, room
<1>7. MembersOf(rooms', room) = Append(MembersOf(rooms, room), c)
  BY <1>6 DEF MembersOf
<1>8. Range(MembersOf(rooms', room)) = Range(MembersOf(rooms, room)) \union {c}
  BY <1>1, <1>6, <1>7, AppendRange
<1>9. RoomSets' = [RoomSets EXCEPT ![room] = @ \union {c}]
  BY <1>4, <1>6, <1>8 DEF RoomSets, MembersOf
<1>10. \E to \in SUBSET Range(MembersOf(rooms', room)) :
         outbound' = [x \in Conns |-> IF x \in to THEN Append(outbound[x], m) ELSE outbound[x]]
  <2> PICK rs : rs = rooms'
    OBVIOUS
  <2>1. MembersOf(rs, room) \in Seq(Conns) /\ \A p \in Conns : AtMostOnce(MembersOf(rs, room), p)
    <3>1. MembersOf(rs, room) = rooms'[room] /\ room \in DOMAIN rooms'
      BY <1>6 DEF MembersOf
    <3>2. \A p \in Conns : AtMostOnce(rooms'[room], p)
      BY <3>1 DEF RoomsOK, SingleMembers
    <3> QED BY <1>1, <1>6, <1>7, <3>1, <3>2, AppendProperties
  <2>2. Range(MembersOf(rs, room)) \subseteq Range(clientArray)
    BY <1>2, <1>4, <1>8, TidyRooms DEF TidyInv
  <2>3. Broadcast(rs, m, full)
    BY <1>3 DEF Joined, room, c
  <2> HIDE DEF m
  <2> QED BY <1>1, <1>5, <2>1, <2>2, <2>3, BroadcastDelivers DEF TidyInv
<1>11. Service!Join(c, room)
  BY <1>1, <1>2, <1>4, <1>9, <1>10 DEF Service!Join, Service!Deliver, RoomSets
<1> QED BY <1>1, <1>4, <1>11 DEF Service!ServiceNext

(* Erasing one entry of a client takes it out of a tidy room.              *)
LEMMA RemovedFromRoom ==
  ASSUME NEW s \in Seq(Conns), NEW c, AtMostOnce(s, c)
  PROVE  RemoveFirst(s, c) \in Seq(Conns) /\ Range(RemoveFirst(s, c)) = Range(s) \ {c}
<1>1. c \notin Range(RemoveFirst(s, c))
  BY RemoveFirstOfOne DEF AtMostOnce
<1> QED BY <1>1, RemoveFirstRange

(* LEAVE: those who stay hear the notice.                                  *)
LEMMA LeaveTidy ==
  ASSUME TidyInv, NEW k, ServeLeave(k)
  PROVE  Service!ServiceNext
<1> DEFINE c == clientArray[k]
<1>1. k \in 1 .. Total /\ c \in Conns /\ Live /\ UNCHANGED << clientArray, name >>
  BY TurnType DEF ServeLeave, Turn, Live, clientVars, TidyInv, AllInv, ITypeOK
<1>2. c \in Range(clientArray)
  BY <1>1, RangeEquality DEF TidyInv, AllInv, ITypeOK, TypeOK, ServerTypeOK, Total
<1>3. PICK r \in Receptions(c), full \in FullWindows :
        /\ rooms' = RemoveMember(rooms, r.message.room, c)
        /\ Broadcast(rooms', RecieveMessage("server", r.message.room, << "left", name[c] >>), full)
  BY DEF ServeLeave
<1> DEFINE room == r.message.room
           m == Left(name[c], room)
<1>4. room \in Rooms /\ name[c] \in Names \union {""}
  <2>1. r.message \in Items
    BY <1>1, ReceptionsType DEF TidyInv, AllInv, ITypeOK
  <2> QED BY <1>1, <2>1 DEF Items, TidyInv, AllInv, ITypeOK, TypeOK, ClientTypeOK
<1>5. m \in Messages /\ m.room = room
  <2>1. << "left", name[c] >> \in Notices
    BY <1>4 DEF Notices
  <2> QED BY <1>4, <2>1 DEF Left, RecieveMessage, Message, Messages, Types, Texts
<1> HIDE DEF c, room
<1> DEFINE ms == MembersOf(rooms, room)
<1>6. /\ ms \in Seq(Conns) /\ \A p \in Conns : AtMostOnce(ms, p)
      /\ Range(ms) \subseteq Range(clientArray)
  BY <1>4, TidyRooms DEF TidyInv
<1>7. /\ DOMAIN rooms' = DOMAIN rooms \union {room}
      /\ \A x \in DOMAIN rooms \union {room} :
           rooms'[x] = IF x = room THEN RemoveFirst(ms, c) ELSE rooms[x]
  BY <1>3 DEF RemoveMember, WithMembers, room
<1> HIDE DEF ms
<1>8. MembersOf(rooms', room) = RemoveFirst(ms, c)
  BY <1>7 DEF MembersOf
<1>9. RemoveFirst(ms, c) \in Seq(Conns) /\ Range(RemoveFirst(ms, c)) = Range(ms) \ {c}
  BY <1>1, <1>6, RemovedFromRoom
<1>10. RoomSets' = [RoomSets EXCEPT ![room] = @ \ {c}]
  BY <1>4, <1>7, <1>8, <1>9 DEF RoomSets, MembersOf, ms
<1>11. \E to \in SUBSET Range(MembersOf(rooms', room)) :
         outbound' = [x \in Conns |-> IF x \in to THEN Append(outbound[x], m) ELSE outbound[x]]
  <2> PICK rs : rs = rooms'
    OBVIOUS
  <2>1. \A p \in Conns : AtMostOnce(RemoveFirst(ms, c), p)
    BY <1>6, RemoveFirstAtMostOnce
  <2>2. Broadcast(rs, m, full)
    BY <1>3 DEF Left, room, c
  <2> HIDE DEF m
  <2>3. MembersOf(rs, m.room) = RemoveFirst(ms, c)
    BY <1>5, <1>8
  <2>4. /\ MembersOf(rs, m.room) \in Seq(Conns)
        /\ \A p \in Conns : AtMostOnce(MembersOf(rs, m.room), p)
        /\ Range(MembersOf(rs, m.room)) \subseteq Range(clientArray)
    BY <1>6, <1>9, <2>1, <2>3
  <2>5. \E to \in SUBSET Range(MembersOf(rs, m.room)) :
          outbound' = [x \in Conns |-> IF x \in to THEN Append(outbound[x], m) ELSE outbound[x]]
    BY <1>1, <1>5, <2>2, <2>4, BroadcastDelivers DEF TidyInv
  <2> QED BY <1>5, <2>5
<1>12. Service!Leave(c, room)
  BY <1>1, <1>2, <1>4, <1>10, <1>11 DEF Service!Leave, Service!Deliver, RoomSets
<1> QED BY <1>1, <1>4, <1>12 DEF Service!ServiceNext

(* SEND: the members hear the text, or what a cut has left of it.          *)
LEMMA SendTidy ==
  ASSUME TidyInv, NEW k, ServeSend(k)
  PROVE  Service!ServiceNext
<1> DEFINE c == clientArray[k]
<1>1. k \in 1 .. Total /\ c \in Conns /\ Live /\ UNCHANGED << clientArray, name, rooms >>
  BY TurnType DEF ServeSend, Turn, Live, clientVars, TidyInv, AllInv, ITypeOK
<1>2. c \in Range(clientArray)
  BY <1>1, RangeEquality DEF TidyInv, AllInv, ITypeOK, TypeOK, ServerTypeOK, Total
<1>3. PICK r \in Receptions(c), full \in FullWindows :
        Broadcast(rooms, RecieveMessage(name[c], r.message.room, r.message.text), full)
  BY DEF ServeSend
<1> DEFINE room == r.message.room
           m == RecieveMessage(name[c], room, r.message.text)
<1> HIDE DEF c
<1>4. /\ r.message \in ItemsOf(c)
      /\ r.message.text # << >> => r.message.text[2] \in 1 .. sent[c]
      /\ name[c] \in Names \union {""}
      /\ sent[c] \in Nat /\ MaxSends[c] \in Nat /\ sent[c] <= MaxSends[c]
  BY <1>1, <1>2, ReceptionOrigins, ReadInOrder, ConstantsAssumption
     DEF TidyInv, OrderOK, NumbersOK, AllInv, ITypeOK, TypeOK, ClientTypeOK, NetTypeOK
<1>5. room \in Rooms /\ r.message.text \in {<< >>} \union ({c} \X (1 .. MaxSends[c]))
  <2>1. r.message.text = << >> \/ (r.message.text \in Conns \X Nat /\ r.message.text[1] = c)
    BY <1>4 DEF ItemsOf, Items
  <2>2. \A n \in 1 .. sent[c] : n \in 1 .. MaxSends[c]
    <3>1. sent[c] \in Nat /\ MaxSends[c] \in Nat /\ sent[c] <= MaxSends[c]
      BY <1>4
    <3> QED BY <3>1
  <2>3. r.message.text # << >> => r.message.text \in {c} \X (1 .. MaxSends[c])
    BY <1>4, <2>1, <2>2
  <2> QED BY <1>4, <2>3 DEF ItemsOf, Items
<1>6. m \in Messages /\ m.room = room
  BY <1>4 DEF RecieveMessage, Message, Messages, Types, Texts, ItemsOf, Items
<1>7. m \in ClientPosts(c, name[c], room)
  BY <1>5 DEF ClientPosts
<1>8. /\ MembersOf(rooms, room) \in Seq(Conns) /\ \A p \in Conns : AtMostOnce(MembersOf(rooms, room), p)
      /\ Range(MembersOf(rooms, room)) \subseteq Range(clientArray)
  BY <1>5, TidyRooms DEF TidyInv
<1>9. \E to \in SUBSET Range(MembersOf(rooms, room)) :
        outbound' = [x \in Conns |-> IF x \in to THEN Append(outbound[x], m) ELSE outbound[x]]
  <2>1. Broadcast(rooms, m, full)
    BY <1>3
  <2> HIDE DEF m, room
  <2>2. \E to \in SUBSET Range(MembersOf(rooms, m.room)) :
          outbound' = [x \in Conns |-> IF x \in to THEN Append(outbound[x], m) ELSE outbound[x]]
    <3> PICK rs, a : rs = rooms /\ a = m
      OBVIOUS
    <3> QED BY <1>1, <1>6, <1>8, <2>1, BroadcastDelivers DEF TidyInv
  <2> QED BY <1>6, <2>2
<1> HIDE DEF m, room
<1>10. Service!Post(c, room)
  <2>1. RoomSets[room] = Range(MembersOf(rooms, room))
    BY <1>5 DEF RoomSets
  <2> QED BY <1>1, <1>2, <1>7, <1>9, <2>1 DEF Service!Post, Service!Deliver, RoomSets
<1> QED BY <1>1, <1>5, <1>10 DEF Service!ServiceNext

(* disconnectClient: the client leaves ClientArray and all of its rooms.   *)
LEMMA GoneTidy ==
  ASSUME TidyInv, NEW k, ServeGone(k)
  PROVE  Service!ServiceNext
<1> DEFINE c == clientArray[k]
<1>1. k \in 1 .. Total /\ c \in Conns /\ UNCHANGED << name, outbound >>
  BY TurnType DEF ServeGone, Turn, clientVars, TidyInv, AllInv, ITypeOK
<1>2. clientArray \in Seq(Conns) /\ c \in Range(clientArray) /\ k \in 1 .. Len(clientArray)
  BY <1>1, RangeEquality DEF TidyInv, AllInv, ITypeOK, TypeOK, ServerTypeOK, Total
<1>3. Range(clientArray') = Range(clientArray) \ {c}
  <2>1. clientArray' = RemoveAt(clientArray, k)
    BY DEF ServeGone, RemoveEntry
  <2>2. \A x \in Conns : AtMostOnce(clientArray, x)
    BY DEF TidyInv, AllInv, SocketsInv, QueuesOK
  <2> QED BY <1>2, <2>1, <2>2, RemoveAtOfDistinct
<1>4. rooms' = DeleteMember(rooms, c)
  BY DEF ServeGone
<1> HIDE DEF c
<1>5. RoomSets' = [r \in Rooms |-> RoomSets[r] \ {c}]
  <2> SUFFICES ASSUME NEW r \in Rooms
               PROVE  Range(MembersOf(rooms', r)) = Range(MembersOf(rooms, r)) \ {c}
    BY DEF RoomSets
  <2>1. CASE r \in DOMAIN rooms
    <3>1. MembersOf(rooms', r) = RemoveFirst(MembersOf(rooms, r), c)
      BY <1>4, <2>1 DEF DeleteMember, MembersOf
    <3>2. MembersOf(rooms, r) \in Seq(Conns) /\ AtMostOnce(MembersOf(rooms, r), c)
      BY <1>1, TidyRooms DEF TidyInv
    <3> QED BY <3>1, <3>2, RemovedFromRoom
  <2>2. CASE r \notin DOMAIN rooms
    BY <1>4, <2>2 DEF DeleteMember, MembersOf, Range
  <2> QED BY <2>1, <2>2
<1>6. Service!GoOffline(c)
  BY <1>1, <1>2, <1>3, <1>5 DEF Service!GoOffline, RoomSets
<1> QED BY <1>1, <1>6 DEF Service!ServiceNext

(* An answer of the auth server is an aside.                               *)
LEMMA PollTidy ==
  ASSUME TidyInv, PollAuth
  PROVE  [Service!ServiceNext]_(Service!serviceVars)
<1>1. UNCHANGED << clientArray, name, rooms >>
  BY DEF PollAuth, PollAuthFails, PollAuthNothing, PollAuthResponse, PollAuthSteals, PollAuthStep
<1>2. CASE UNCHANGED outbound
  BY <1>1, <1>2, SilentStep
<1>3. CASE PollAuthResponse
  <2>1. PICK n \in 1 .. Len(fromAuth) :
          LET a == ReadResponses(SubSeq(fromAuth, 1, n)) IN
          \/ \E j \in 1 .. Total : Reply(clientArray[j], a)
          \/ UNCHANGED outbound
    BY <1>3 DEF PollAuthResponse
  <2> DEFINE a == ReadResponses(SubSeq(fromAuth, 1, n))
             m == Message("REPLY", a.username, "", << a.type, a.by >>)
  <2>2. \/ outbound' = outbound
        \/ \E p \in Conns : outbound' = [outbound EXCEPT ![p] = Append(@, m)]
    BY <2>1 DEF Reply
  <2>3. a \in AuthResponses
    <3>1. fromAuth \in Seq(AuthResponses) /\ Len(fromAuth) \in Nat
      BY LenProperties DEF TidyInv, AllInv, ITypeOK, TypeOK, AuthTypeOK
    <3>2. SubSeq(fromAuth, 1, n) \in Seq(AuthResponses) /\ Len(SubSeq(fromAuth, 1, n)) = n
      BY <3>1, PartOfSeq
    <3>3. SubSeq(fromAuth, 1, n)[n] \in AuthResponses
      BY <3>1, <3>2, ElementOfSeq
    <3> QED BY <3>2, <3>3 DEF ReadResponses, AuthResponses
  <2> HIDE DEF a
  <2>4. m \in LoginAsides
    BY <2>3 DEF AuthResponses, LoginAsides, Message, Replies
  <2> HIDE DEF m
  <2>5. Service!Tell
    BY <2>2, <2>4 DEF Service!Tell
  <2>6. Service!Aside
    BY <1>1, <2>5 DEF Service!Aside
  <2> QED BY <2>6 DEF Service!ServiceNext
<1> QED BY <1>2, <1>3 DEF PollAuth, PollAuthFails, PollAuthNothing, PollAuthSteals

LEMMA NextTidy ==
  ASSUME TidyInv, AllInv', [Next /\ rejoined' = {}]_vars
  PROVE  [Service!ServiceNext]_(Service!serviceVars)
<1>1. CASE UNCHANGED vars
  BY <1>1, SilentStep DEF vars, serverVars, clientVars, netVars
<1>2. CASE Environment
  BY <1>2, SilentStep
     DEF Environment, Connect, PeerClose, PeerAbort, PeerSend, AuthAnswer, AuthEnds, serverVars, clientVars, netVars
<1>3. CASE Exit \/ Select \/ EndServe
  BY <1>3, SilentStep DEF Exit, Select, EndServe, clientVars, netVars
<1>4. ASSUME NEW k, Serve(k), rejoined' = {} PROVE [Service!ServiceNext]_(Service!serviceVars)
  <2>1. CASE ServeOther(k)
    BY <2>1, SilentStep DEF ServeOther, clientVars
  <2>2. ITypeOK' /\ RoomsOK'
    BY DEF AllInv
  <2> QED BY <1>4, <2>1, <2>2, LoginTidy, JoinTidy, LeaveTidy, SendTidy, GoneTidy DEF Serve
<1> QED BY <1>1, <1>2, <1>3, <1>4, AcceptTidy, PollTidy DEF Next, ServerStep

(* For any number of clients, rooms and messages, whatever interleaving of *)
(* requests, disconnections and answers, and whatever is lost or cut: as   *)
(* long as nobody joins a room twice, what the chat server does is what    *)
(* the room service may do.                                                *)
THEOREM RoomsAsPromised == TidySpec => ImplementsRoomService
<1>1. TidySpec => Spec
  BY PTL DEF TidySpec, Spec
<1>2. Init => rejoined = {}
  BY DEF Init
<1>3. rejoined = {} /\ [Next /\ rejoined' = {}]_vars => (rejoined = {})'
  BY DEF vars, history
<1>4. TidySpec => [](rejoined = {})
  BY <1>2, <1>3, PTL DEF TidySpec
<1>5. Init => Service!ServiceInit
  <2> SUFFICES ASSUME Init PROVE Service!ServiceInit
    OBVIOUS
  <2>1. /\ clientArray = << >> /\ DOMAIN rooms = {}
        /\ name = [c \in Conns |-> ""] /\ outbound = [c \in Conns |-> << >>]
    BY DEF Init
  <2>2. Range(<< >>) = {}
    BY DEF Range
  <2>3. RoomSets = [r \in Rooms |-> {}]
    BY <2>1, <2>2 DEF RoomSets, MembersOf
  <2> QED BY <2>1, <2>2, <2>3 DEF Service!ServiceInit, RoomSets
<1>6. AllInv /\ AllInv' /\ DeliveryInv /\ OrderOK /\ rejoined = {} /\ [Next /\ rejoined' = {}]_vars
        => [Service!ServiceNext]_(Service!serviceVars)
  BY NextTidy DEF TidyInv
<1> QED BY <1>1, <1>4, <1>5, <1>6, OrderInvariant, PTL
    DEF TidySpec, ImplementsRoomService, Service!ServiceSpec
=============================================================================
