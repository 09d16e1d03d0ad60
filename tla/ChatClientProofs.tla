-------------------------- MODULE ChatClientProofs --------------------------
(***************************************************************************)
(* Theorems about the client and the bytes between it and the server       *)
(* (ChatClient), for every set of logins, lines and messages.              *)
(***************************************************************************)
EXTENDS ChatClient, WireProofs

Item == [message : Sendable, left : Nat]

-----------------------------------------------------------------------------
(* Sums over the items of a stream.                                        *)

LEMMA Before ==
  ASSUME NEW N \in Nat, NEW k \in 0 .. N, NEW j \in 0 .. k, j # 0
  PROVE  j - 1 \in 0 .. N - 1 /\ j - 1 \in 0 .. k /\ (j - 1) + 1 = j
OBVIOUS

LEMMA UpToFolded ==
  ASSUME NEW items \in Seq(Item)
  PROVE  \E f \in [Nat -> Nat] :
           /\ f[0] = 0 /\ \A k \in 0 .. Len(items) - 1 : f[k + 1] = f[k] + items[k + 1].left
           /\ \A k \in 0 .. Len(items) : UpTo(items, k) = f[k]
<1> DEFINE N == Len(items)
           Size(k) == IF k < N THEN items[k + 1].left ELSE 0
           step == [k \in Nat |-> [x \in Nat |-> x + Size(k)]]
<1>1. N \in Nat /\ \A k \in 1 .. N : items[k].left \in Nat
  <2>1. ASSUME NEW k \in 1 .. N PROVE items[k] \in Item
    BY <2>1, ElementOfSeq
  <2> QED BY <2>1, LenProperties DEF Item
<1>2. ASSUME NEW k \in Nat PROVE Size(k) \in Nat
  <2>1. k < N => k + 1 \in 1 .. N
    BY <1>1
  <2> QED BY <1>1, <2>1
<1>3. PICK f \in [Nat -> Nat] : Recurs(f, 0, step)
  <2>1. step \in [Nat -> [Nat -> Nat]] /\ 0 \in Nat
    <3>1. \A k \in Nat, x \in Nat : x + Size(k) \in Nat
      <4> HIDE DEF Size
      <4> QED BY <1>2
    <3> HIDE DEF Size
    <3> QED BY <3>1
  <2> HIDE DEF step
  <2> QED BY <2>1, Recursion
<1>4. f[0] = 0 /\ \A k \in 0 .. N - 1 : f[k + 1] = f[k] + items[k + 1].left
  <2>1. f[0] = 0 /\ \A k \in Nat : f[k + 1] = f[k] + Size(k)
    <3> HIDE DEF Size
    <3> QED BY <1>3 DEF Recurs
  <2>2. ASSUME NEW k \in 0 .. N - 1 PROVE Size(k) = items[k + 1].left /\ k \in Nat
    BY <1>1
  <2> HIDE DEF Size, N
  <2> QED BY <2>1, <2>2
<1>5. ASSUME NEW k \in 0 .. N PROVE UpTo(items, k) = f[k]
  <2> DEFINE Body(P) == [j \in 0 .. k |-> IF j = 0 THEN 0 ELSE P[j - 1] + items[j].left]
             Sum == CHOOSE P : P = Body(P)
  <2>1. \E P : P = Body(P)
    <3> DEFINE q == [j \in 0 .. k |-> f[j]]
    <3>1. ASSUME NEW j \in 0 .. k PROVE q[j] = IF j = 0 THEN 0 ELSE q[j - 1] + items[j].left
      <4>1. CASE j = 0
        BY <1>4, <4>1
      <4>2. CASE j # 0
        <5>1. j - 1 \in 0 .. N - 1 /\ j - 1 \in 0 .. k /\ (j - 1) + 1 = j
          <6> HIDE DEF N, q
          <6> QED BY <1>1, <1>5, <4>2, Before
        <5>2. f[j] = f[j - 1] + items[j].left
          BY <1>4, <5>1
        <5>3. q[j] = f[j] /\ q[j - 1] = f[j - 1]
          BY <5>1
        <5> HIDE DEF q
        <5> QED BY <4>2, <5>2, <5>3
      <4> QED BY <4>1, <4>2
    <3>2. q = Body(q)
      BY <3>1
    <3> HIDE DEF q
    <3> QED BY <3>2
  <2>2. Sum = Body(Sum)
    BY <2>1
  <2>3. UpTo(items, k) = Sum[k]
    BY DEF UpTo
  <2> HIDE DEF Sum
  <2>4. \A j \in 0 .. k : Sum[j] = IF j = 0 THEN 0 ELSE Sum[j - 1] + items[j].left
    BY <2>2
  <2>5. k \in Nat /\ k <= N
    BY <1>1
  <2>6. Sum[0] = f[0]
    BY <1>4, <2>4, <2>5
  <2>7. ASSUME NEW j \in 0 .. k - 1, Sum[j] = f[j] PROVE Sum[j + 1] = f[j + 1]
    <3>1. j + 1 \in 0 .. k /\ j + 1 # 0 /\ (j + 1) - 1 = j /\ j \in 0 .. N - 1
      BY <1>1, <2>5
    <3>2. Sum[j + 1] = Sum[j] + items[j + 1].left
      BY <2>4, <3>1
    <3> QED BY <1>4, <2>7, <3>1, <3>2
  <2>8. \A j \in 0 .. k : Sum[j] = f[j]
    <3> HIDE DEF N
    <3> QED BY <2>5, <2>6, <2>7, SameFolds
  <2> QED BY <2>3, <2>5, <2>8
<1> QED BY <1>4, <1>5

LEMMA UpToSteps ==
  ASSUME NEW items \in Seq(Item)
  PROVE  /\ UpTo(items, 0) = 0 /\ \A k \in 0 .. Len(items) : UpTo(items, k) \in Nat
         /\ \A k \in 0 .. Len(items) - 1 : UpTo(items, k + 1) = UpTo(items, k) + items[k + 1].left
<1>1. PICK f \in [Nat -> Nat] :
        /\ f[0] = 0 /\ \A k \in 0 .. Len(items) - 1 : f[k + 1] = f[k] + items[k + 1].left
        /\ \A k \in 0 .. Len(items) : UpTo(items, k) = f[k]
  BY UpToFolded
<1>2. Len(items) \in Nat
  BY LenProperties
<1>3. 0 \in 0 .. Len(items)
  BY <1>2
<1>4. ASSUME NEW k \in 0 .. Len(items) - 1
      PROVE  UpTo(items, k + 1) = UpTo(items, k) + items[k + 1].left
  <2>1. k \in 0 .. Len(items) /\ k + 1 \in 0 .. Len(items)
    BY <1>2
  <2> QED BY <1>1, <2>1
<1>5. ASSUME NEW k \in 0 .. Len(items) PROVE UpTo(items, k) \in Nat
  BY <1>1
<1> QED BY <1>1, <1>3, <1>4, <1>5

(* Two streams of the same lengths, up to a shift.                         *)
LEMMA UpToShifted ==
  ASSUME NEW items \in Seq(Item), NEW others \in Seq(Item), NEW k \in 0 .. Len(items),
         NEW j \in Nat, k + j <= Len(items), j <= Len(others),
         \A i \in 1 .. j : others[i].left = items[k + i].left
  PROVE  UpTo(others, j) = UpTo(items, k + j) - UpTo(items, k)
<1> DEFINE f == [i \in Nat |-> UpTo(others, i)]
           g == [i \in Nat |-> UpTo(items, k + i) - UpTo(items, k)]
<1>1. Len(items) \in Nat /\ Len(others) \in Nat /\ k \in Nat
  BY LenProperties
<1>2. /\ UpTo(others, 0) = 0 /\ \A i \in 0 .. Len(others) : UpTo(others, i) \in Nat
      /\ \A i \in 0 .. Len(others) - 1 : UpTo(others, i + 1) = UpTo(others, i) + others[i + 1].left
  BY UpToSteps
<1>3. /\ \A i \in 0 .. Len(items) : UpTo(items, i) \in Nat
      /\ \A i \in 0 .. Len(items) - 1 : UpTo(items, i + 1) = UpTo(items, i) + items[i + 1].left
  BY UpToSteps
<1>4. f[0] = g[0]
  <2>1. k + 0 = k /\ UpTo(items, k) \in Nat
    BY <1>1, <1>3
  <2> QED BY <1>2, <2>1
<1>5. ASSUME NEW i \in 0 .. j - 1, f[i] = g[i] PROVE f[i + 1] = g[i + 1]
  <2>1. /\ i \in 0 .. Len(others) - 1 /\ k + i \in 0 .. Len(items) - 1 /\ i \in Nat /\ i + 1 \in Nat
        /\ (k + i) + 1 = k + (i + 1) /\ i + 1 \in 1 .. j /\ k + i \in 0 .. Len(items)
        /\ k + (i + 1) \in 1 .. Len(items)
    BY <1>1
  <2>2. UpTo(others, i + 1) = UpTo(others, i) + others[i + 1].left
    BY <1>2, <2>1
  <2>3. UpTo(items, k + (i + 1)) = UpTo(items, k + i) + items[k + (i + 1)].left
    BY <1>3, <2>1
  <2>4. others[i + 1].left = items[k + (i + 1)].left
    BY <2>1
  <2>5. items[k + (i + 1)].left \in Nat
    <3>1. items[k + (i + 1)] \in Item
      BY <2>1, ElementOfSeq
    <3> QED BY <3>1 DEF Item
  <2>6. UpTo(others, i) = UpTo(items, k + i) - UpTo(items, k)
    BY <1>5, <2>1
  <2>7. PICK a \in Nat, b \in Nat, c \in Nat :
          a = UpTo(items, k + i) /\ b = UpTo(items, k) /\ c = items[k + (i + 1)].left
    BY <1>3, <2>1, <2>5
  <2>8. (a - b) + c = (a + c) - b
    OBVIOUS
  <2>9. UpTo(others, i + 1) = UpTo(items, k + (i + 1)) - UpTo(items, k)
    <3>1. UpTo(others, i + 1) = (a - b) + c /\ UpTo(items, k + (i + 1)) - UpTo(items, k) = (a + c) - b
      BY <2>2, <2>3, <2>4, <2>6, <2>7
    <3> QED BY <2>8, <3>1
  <2> QED BY <2>1, <2>9
<1>6. f[j] = g[j]
  <2> HIDE DEF f, g
  <2>1. \A i \in 0 .. j : f[i] = g[i]
    BY <1>4, <1>5, SameFolds
  <2> QED BY <2>1
<1> QED BY <1>6

-----------------------------------------------------------------------------
(* What is sent.                                                           *)

LEMMA TypeCodes == TypeCode["JOIN"] = 1 /\ DOMAIN TypeCode = {"LOGIN", "JOIN", "LEAVE", "SEND", "RECIEVE"}
BY DEF TypeCode

LEMMA LoginProper ==
  ASSUME NEW l \in Logins
  PROVE  Proper(LoginMessage(l)) /\ LoginMessage(l) \in Sendable
<1>1. l \in DOMAIN Bytes /\ "" \in DOMAIN Bytes
  BY LoginAssumption, WireAssumption
<1>2. << >> \in Seq(DOMAIN Bytes)
  OBVIOUS
<1>3. "LOGIN" \in DOMAIN TypeCode
  BY TypeCodes
<1> QED BY <1>1, <1>2, <1>3 DEF Proper, Messages, LoginMessage, Message, Sendable

LEMMA CommandProper ==
  ASSUME NEW l \in Lines
  PROVE  /\ Proper(CommandMessage(l)) /\ CommandMessage(l) \in Sendable
         /\ CommandMessage(l).type \in {"SEND", "JOIN", "LEAVE"}
<1>1. l \in Seq(DOMAIN Bytes) /\ l # << >> /\ l[1] \in {".send", ".join", ".leave"}
  BY ClientAssumption
<1>2. Len(l) \in Nat /\ 1 <= Len(l)
  BY <1>1, LenProperties, EmptySeq
<1>3. RoomOf(l) \in DOMAIN Bytes
  <2>1. (IF 2 <= Len(l) THEN 2 ELSE Len(l)) \in 1 .. Len(l)
    BY <1>2
  <2>2. RoomOf(l) = l[IF 2 <= Len(l) THEN 2 ELSE Len(l)]
    BY DEF RoomOf, WordOr
  <2> QED BY <1>1, <2>1, <2>2, ElementOfSeq
<1>4. TextOf(l) \in Seq(DOMAIN Bytes)
  <2> DEFINE n == Len(l)
  <2>1. CASE n <= 1
    BY <1>1, <2>1 DEF TextOf
  <2>2. CASE n = 2
    <3>1. l[2] \in DOMAIN Bytes
      BY <1>1, <2>2, ElementOfSeq, SMTT(30)
    <3>2. TextOf(l) = << l[2] >>
      BY <2>2 DEF TextOf
    <3> QED BY <3>1, <3>2
  <2>3. CASE ~ (n <= 1) /\ n # 2
    <3>1. TextOf(l) = SubSeq(l, 3, Len(l))
      BY <2>3, Zenon DEF TextOf
    <3>2. SubSeq(l, 3, Len(l)) \in Seq(DOMAIN Bytes)
      <4>1. n \in Nat
        BY <1>2
      <4> HIDE DEF n
      <4>2. 3 \in 1 .. n + 1 /\ n \in 3 - 1 .. n
        BY <2>3, <4>1
      <4> QED BY <1>1, <4>2, SubSeqProperties DEF n
    <3> QED BY <3>1, <3>2
  <2> HIDE DEF n
  <2> QED BY <2>1, <2>2, <2>3
<1>5. "" \in DOMAIN Bytes /\ << >> \in Seq(DOMAIN Bytes)
  <2>1. "" \in DOMAIN Bytes
    BY WireAssumption
  <2>2. << >> \in Seq(DOMAIN Bytes)
    OBVIOUS
  <2> QED BY <2>1, <2>2
<1>6. {"SEND", "JOIN", "LEAVE"} \subseteq DOMAIN TypeCode
  BY TypeCodes
<1>7. CommandMessage(l) \in {UserMessage(RoomOf(l), TextOf(l)), JoinMessage(RoomOf(l)),
                             LeaveMessage(RoomOf(l))}
  BY <1>1 DEF CommandMessage
<1>8. CommandMessage(l) \in Sendable
  BY DEF Sendable
<1>9. ASSUME NEW t \in {"SEND", "JOIN", "LEAVE"}, NEW r \in DOMAIN Bytes,
             NEW x \in Seq(DOMAIN Bytes), t # "SEND" => x = << >>
      PROVE  Proper(Message(t, "", r, x)) /\ Message(t, "", r, x).type = t
  BY <1>5, <1>6, <1>9 DEF Proper, Messages, Message
<1>10. /\ Proper(UserMessage(RoomOf(l), TextOf(l))) /\ UserMessage(RoomOf(l), TextOf(l)).type = "SEND"
       /\ Proper(JoinMessage(RoomOf(l))) /\ JoinMessage(RoomOf(l)).type = "JOIN"
       /\ Proper(LeaveMessage(RoomOf(l))) /\ LeaveMessage(RoomOf(l)).type = "LEAVE"
  BY <1>3, <1>4, <1>5, <1>9 DEF UserMessage, JoinMessage, LeaveMessage
<1> QED BY <1>7, <1>8, <1>10

LEMMA PostedProper ==
  ASSUME NEW k \in 1 .. Len(RoomMessages)
  PROVE  /\ Proper(RoomMessages[k]) /\ RoomMessages[k] \in Sendable
         /\ RoomMessages[k].type = "RECIEVE"
<1>1. RoomMessages \in Seq([type : {"RECIEVE"}, name : DOMAIN Bytes, room : DOMAIN Bytes,
                            text : Seq(DOMAIN Bytes)])
  BY ClientAssumption
<1>2. RoomMessages[k] \in [type : {"RECIEVE"}, name : DOMAIN Bytes, room : DOMAIN Bytes,
                           text : Seq(DOMAIN Bytes)]
  BY <1>1, ElementOfSeq
<1>3. "RECIEVE" \in DOMAIN TypeCode
  BY TypeCodes
<1>4. RoomMessages[k] \in Sendable
  BY DEF Sendable
<1> QED BY <1>2, <1>3, <1>4 DEF Proper, Messages

LEMMA SendableProper ==
  ASSUME NEW m \in Sendable
  PROVE  Proper(m)
<1>1. CASE \E l \in Logins : m = LoginMessage(l)
  BY <1>1, LoginProper
<1>2. CASE \E l \in Lines : m = CommandMessage(l)
  BY <1>2, CommandProper
<1>3. CASE \E k \in 1 .. Len(RoomMessages) : m = RoomMessages[k]
  BY <1>3, PostedProper
<1> QED BY <1>1, <1>2, <1>3 DEF Sendable

(* The bytes of a message and the array they are written to.               *)
LEMMA SendableWritten ==
  ASSUME NEW m \in Sendable
  PROVE  LET b == Written[m]
         IN /\ b = WriteMessage(m) /\ b.bytes \in Seq(Nat) /\ Len(b.bytes) \in Nat
            /\ 3 * IntSize <= Len(b.bytes) /\ 1 <= Len(b.bytes)
            /\ 2 * Len(b.bytes) <= Words /\ 3 * IntSize < Words /\ Len(b.bytes) <= b.size
<1>1. Written[m] = WriteMessage(m)
  BY DEF Written
<1>2. m \in Messages
  BY SendableProper DEF Proper
<1>3. 2 * Len(Written[m].bytes) <= Words
  BY SizeAssumption
<1>4. /\ Written[m].bytes \in Seq(Nat) /\ 3 * IntSize <= Len(Written[m].bytes)
      /\ Len(Written[m].bytes) <= Written[m].size
  BY <1>1, <1>2, <1>3, WrittenFits
<1>5. PICK i \in Nat, l \in Nat, w \in Nat :
        i = IntSize /\ l = Len(Written[m].bytes) /\ w = Words /\ 1 <= i
  BY <1>4, LenProperties, Sizes, WordsType
<1>6. 1 <= l /\ 3 * i < w
  BY <1>3, <1>4, <1>5
<1> QED BY <1>1, <1>3, <1>4, <1>5, <1>6

-----------------------------------------------------------------------------
(* What is left of the items when bytes have been taken.                   *)

LEMMA UpToAppended ==
  ASSUME NEW items \in Seq(Item), NEW it \in Item
  PROVE  LET all == Append(items, it)
         IN /\ all \in Seq(Item) /\ Len(all) = Len(items) + 1
            /\ \A j \in 0 .. Len(items) : UpTo(all, j) = UpTo(items, j)
            /\ UpTo(all, Len(items) + 1) = UpTo(items, Len(items)) + it.left
<1> DEFINE all == Append(items, it)
<1>1. all \in Seq(Item) /\ Len(all) = Len(items) + 1 /\ Len(items) \in Nat
  BY AppendProperties, LenProperties
<1>2. (\A j \in 1 .. Len(items) : all[j] = items[j]) /\ all[Len(items) + 1] = it
  BY AppendProperties
<1> HIDE DEF all
<1>3. UpTo(all, 0) = 0 /\ \A j \in 0 .. Len(all) : UpTo(all, j) \in Nat
  BY <1>1, UpToSteps
<1>4. ASSUME NEW j \in 0 .. Len(items) PROVE UpTo(all, j) = UpTo(items, j)
  <2>1. 0 \in 0 .. Len(all) /\ j \in Nat /\ 0 + j = j /\ 0 + j <= Len(all) /\ j <= Len(items) /\ j \in 0 .. Len(all)
    BY <1>1
  <2>2. \A i \in 1 .. j : items[i].left = all[0 + i].left
    <3>1. ASSUME NEW i \in 1 .. j PROVE 0 + i = i /\ i \in 1 .. Len(items)
      BY <1>1
    <3> QED BY <1>2, <3>1
  <2>3. UpTo(items, j) = UpTo(all, 0 + j) - UpTo(all, 0)
    BY <1>1, <2>1, <2>2, UpToShifted
  <2> QED BY <1>3, <2>1, <2>3
<1>5. UpTo(all, Len(items) + 1) = UpTo(all, Len(items)) + all[Len(items) + 1].left
  <2>1. Len(items) \in 0 .. Len(all) - 1
    BY <1>1
  <2> QED BY <1>1, <2>1, UpToSteps
<1>6. Len(items) \in 0 .. Len(items)
  BY <1>1
<1> QED BY <1>1, <1>2, <1>4, <1>5, <1>6 DEF all

LEMMA UntakenPlace ==
  ASSUME NEW items \in Seq(Item), NEW n \in Nat
  PROVE  \E k \in 0 .. Len(items) :
           UpTo(items, k) <= n /\ (k = Len(items) \/ UpTo(items, k + 1) > n)
<1> SUFFICES ASSUME \A k \in 0 .. Len(items) : UpTo(items, k) <= n => k < Len(items) /\ UpTo(items, k + 1) <= n
             PROVE  FALSE
  <2>1. Len(items) \in Nat /\ \A k \in 0 .. Len(items) : UpTo(items, k) \in Nat
    BY LenProperties, UpToSteps
  <2>2. ASSUME NEW k \in 0 .. Len(items), k # Len(items)
        PROVE  k < Len(items) /\ UpTo(items, k + 1) \in Nat
    BY <2>1, <2>2
  <2> QED BY <2>1, <2>2
<1>1. Len(items) \in Nat /\ UpTo(items, 0) = 0
  BY LenProperties, UpToSteps
<1> DEFINE I == {k \in Nat : k \in 0 .. Len(items) => UpTo(items, k) <= n}
<1>2. 0 \in I
  BY <1>1
<1>3. ASSUME NEW k \in I PROVE k + 1 \in I
  <2>1. CASE k + 1 \in 0 .. Len(items)
    <3>1. k \in Nat /\ k \in 0 .. Len(items)
      BY <1>1, <2>1
    <3> QED BY <3>1
  <2> QED BY <2>1
<1>4. I = Nat
  <2>1. I \subseteq Nat
    OBVIOUS
  <2> HIDE DEF I
  <2> QED BY <1>2, <1>3, <2>1, SetInduction
<1>5. Len(items) \in 0 .. Len(items)
  BY <1>1
<1>6. UpTo(items, Len(items)) <= n
  BY <1>1, <1>4, <1>5
<1>7. Len(items) < Len(items)
  BY <1>5, <1>6
<1> QED BY <1>1, <1>7

LEMMA UntakenFacts ==
  ASSUME NEW items \in Seq(Item), NEW n \in Nat
  PROVE  \E k \in 0 .. Len(items) :
           /\ UpTo(items, k) <= n /\ (k = Len(items) \/ UpTo(items, k + 1) > n)
           /\ Untaken(items, n) \in Seq(Item) /\ Len(Untaken(items, n)) = Len(items) - k
           /\ \A j \in 1 .. Len(items) - k : Untaken(items, n)[j].message = items[k + j].message
           /\ \A j \in 2 .. Len(items) - k : Untaken(items, n)[j].left = items[k + j].left
           /\ k < Len(items) =>
                Untaken(items, n)[1].left = items[k + 1].left - (n - UpTo(items, k))
<1> DEFINE P(k) == UpTo(items, k) <= n /\ (k = Len(items) \/ UpTo(items, k + 1) > n)
           k == CHOOSE k \in 0 .. Len(items) : P(k)
           rest == SubSeq(items, k + 1, Len(items))
           by == n - UpTo(items, k)
           u == Untaken(items, n)
<1>1. k \in 0 .. Len(items) /\ P(k)
  BY UntakenPlace
<1>2. u = IF rest = << >> THEN << >> ELSE [rest EXCEPT ![1].left = @ - by]
  BY DEF Untaken
<1> HIDE DEF k, u
<1>3. Len(items) \in Nat /\ k \in Nat /\ k <= Len(items)
  BY <1>1, LenProperties
<1>4. /\ rest \in Seq(Item) /\ Len(rest) = Len(items) - k
      /\ \A j \in 1 .. Len(items) - k : rest[j] = items[k + j]
  <2>1. k + 1 \in 1 .. Len(items) + 1 /\ Len(items) \in (k + 1) - 1 .. Len(items)
    BY <1>3
  <2>2. rest \in Seq(Item) /\ Len(rest) = Len(items) - (k + 1) + 1
    BY <2>1, SubSeqProperties
  <2>3. ASSUME NEW j \in 1 .. Len(items) - k PROVE rest[j] = items[k + j]
    <3>1. j \in 1 .. Len(items) - (k + 1) + 1 /\ (k + 1) + j - 1 = k + j
      BY <1>3
    <3>2. rest[j] = items[(k + 1) + j - 1]
      BY <2>1, <3>1, SubSeqProperties
    <3> QED BY <3>1, <3>2
  <2>4. Len(items) - (k + 1) + 1 = Len(items) - k
    BY <1>3
  <2> QED BY <2>2, <2>3, <2>4
<1>5. CASE k = Len(items)
  <2>1. Len(rest) = 0 /\ rest = << >>
    <3>1. Len(rest) = 0
      BY <1>3, <1>4, <1>5
    <3> QED BY <1>4, <3>1, EmptySeq
  <2>2. u = << >> /\ u \in Seq(Item) /\ Len(u) = Len(items) - k
    BY <1>2, <1>4, <2>1
  <2>3. 1 .. Len(items) - k = {} /\ 2 .. Len(items) - k = {} /\ ~ (k < Len(items))
    BY <1>3, <1>5
  <2> QED BY <1>1, <2>2, <2>3 DEF u
<1>6. CASE k < Len(items)
  <2>1. 1 \in 1 .. Len(items) - k /\ 1 \in 1 .. Len(rest) /\ Len(rest) \in Nat
    BY <1>3, <1>4, <1>6
  <2>2. rest # << >>
    <3> HIDE DEF rest
    <3>1. Len(rest) # 0
      BY <2>1
    <3> QED BY <3>1, EmptySeq
  <2>3. u = [rest EXCEPT ![1].left = @ - by]
    BY <1>2, <2>2
  <2>4. rest[1] = items[k + 1] /\ items[k + 1] \in Item
    <3>1. k + 1 \in 1 .. Len(items)
      BY <1>3, <1>6
    <3> QED BY <1>4, <2>1, <3>1, ElementOfSeq
  <2>5. by \in Nat /\ by < items[k + 1].left /\ items[k + 1].left \in Nat
    <3>1. /\ UpTo(items, k) \in Nat /\ UpTo(items, k + 1) \in Nat
          /\ UpTo(items, k + 1) = UpTo(items, k) + items[k + 1].left
      <4>1. k \in 0 .. Len(items) - 1 /\ k + 1 \in 0 .. Len(items) /\ k \in 0 .. Len(items)
        BY <1>3, <1>6
      <4> QED BY <4>1, UpToSteps
    <3>2. UpTo(items, k + 1) > n /\ UpTo(items, k) <= n
      BY <1>1, <1>3, <1>6
    <3>3. items[k + 1].left \in Nat
      BY <2>4 DEF Item
    <3> QED BY <3>1, <3>2, <3>3
  <2>6. u = [rest EXCEPT ![1] = [rest[1] EXCEPT !.left = rest[1].left - by]]
    BY <2>3
  <2>7. rest[1].left - by \in Nat /\ rest[1] \in Item
    <3>1. rest[1].left = items[k + 1].left
      BY <2>4
    <3> HIDE DEF by, rest
    <3> QED BY <2>4, <2>5, <3>1
  <2> HIDE DEF by
  <2>8. /\ [rest[1] EXCEPT !.left = rest[1].left - by] \in Item
        /\ [rest[1] EXCEPT !.left = rest[1].left - by].left = rest[1].left - by
        /\ [rest[1] EXCEPT !.left = rest[1].left - by].message = rest[1].message
    BY <2>7 DEF Item
  <2>9. /\ u \in Seq(Item) /\ Len(u) = Len(rest) /\ u[1] = [rest[1] EXCEPT !.left = rest[1].left - by]
        /\ \A j \in 1 .. Len(rest) : j # 1 => u[j] = rest[j]
    <3> DEFINE r == rest
               new == [rest[1] EXCEPT !.left = rest[1].left - by]
    <3>1. new \in Item /\ r \in Seq(Item) /\ 1 \in 1 .. Len(r) /\ u = [r EXCEPT ![1] = new]
      BY <1>4, <2>1, <2>6, <2>8
    <3> HIDE DEF r, new
    <3>2. u \in Seq(Item) /\ Len(u) = Len(r) /\ u[1] = new /\ \A j \in 1 .. Len(r) : j # 1 => u[j] = r[j]
      BY <3>1, ExceptSeq
    <3> QED BY <3>2 DEF r, new
  <2>10. /\ Len(u) = Len(items) - k
         /\ u[1].message = items[k + 1].message /\ u[1].left = items[k + 1].left - by
    <3>1. u[1].message = rest[1].message /\ u[1].left = rest[1].left - by
      BY <2>8, <2>9
    <3> QED BY <1>4, <2>4, <2>9, <3>1
  <2>11. ASSUME NEW j \in 1 .. Len(items) - k, j # 1 PROVE u[j] = items[k + j]
    BY <1>4, <2>9, <2>11
  <2>12. \A j \in 2 .. Len(items) - k : j \in 1 .. Len(items) - k /\ j # 1
    BY <1>3
  <2>13. \A j \in 1 .. Len(items) - k : u[j].message = items[k + j].message
    BY <2>10, <2>11
  <2>14. \A j \in 2 .. Len(items) - k : u[j].left = items[k + j].left
    BY <2>11, <2>12
  <2> QED BY <1>1, <2>9, <2>10, <2>13, <2>14 DEF u, by
<1> QED BY <1>3, <1>5, <1>6

LEMMA UntakenSums ==
  ASSUME NEW items \in Seq(Item), NEW n \in Nat, NEW k \in 0 .. Len(items),
         UpTo(items, k) <= n, Untaken(items, n) \in Seq(Item),
         Len(Untaken(items, n)) = Len(items) - k,
         \A j \in 2 .. Len(items) - k : Untaken(items, n)[j].left = items[k + j].left,
         k < Len(items) => Untaken(items, n)[1].left = items[k + 1].left - (n - UpTo(items, k))
  PROVE  \A j \in 1 .. Len(items) - k : UpTo(Untaken(items, n), j) = UpTo(items, k + j) - n
<1> DEFINE u == Untaken(items, n)
<1>0. u \in Seq(Item) /\ Len(u) = Len(items) - k
  OBVIOUS
<1>1. Len(items) \in Nat /\ k \in Nat /\ k <= Len(items)
  BY LenProperties
<1>2. /\ UpTo(u, 0) = 0
      /\ \A i \in 0 .. Len(items) - k - 1 : UpTo(u, i + 1) = UpTo(u, i) + u[i + 1].left
  BY <1>0, UpToSteps
<1>3. /\ \A i \in 0 .. Len(items) : UpTo(items, i) \in Nat
      /\ \A i \in 0 .. Len(items) - 1 : UpTo(items, i + 1) = UpTo(items, i) + items[i + 1].left
  BY UpToSteps
<1>4. ASSUME NEW i \in 1 .. Len(items) PROVE items[i].left \in Nat
  <2>1. items[i] \in Item
    BY ElementOfSeq
  <2> QED BY <2>1 DEF Item
<1>5. /\ \A j \in 2 .. Len(items) - k : u[j].left = items[k + j].left
      /\ k < Len(items) => u[1].left = items[k + 1].left - (n - UpTo(items, k))
  OBVIOUS
<1> HIDE DEF u
<1> SUFFICES ASSUME NEW j \in 1 .. Len(items) - k
             PROVE  UpTo(u, j) = UpTo(items, k + j) - n
  BY DEF u
<1> DEFINE f == [i \in 0 .. j - 1 |-> UpTo(u, i + 1)]
           g == [i \in 0 .. j - 1 |-> UpTo(items, (k + i) + 1) - n]
<1>6. f[0] = g[0]
  <2>1. /\ 0 \in 0 .. j - 1 /\ 0 \in 0 .. Len(items) - k - 1 /\ 0 + 1 = 1 /\ (k + 0) + 1 = k + 1
        /\ k < Len(items) /\ k \in 0 .. Len(items) - 1 /\ k \in 0 .. Len(items) /\ k + 1 \in 1 .. Len(items)
    BY <1>1
  <2>2. UpTo(u, 1) = 0 + (items[k + 1].left - (n - UpTo(items, k)))
    BY <1>2, <1>5, <2>1
  <2>3. UpTo(items, k + 1) = UpTo(items, k) + items[k + 1].left
    BY <1>3, <2>1
  <2>4. UpTo(items, k) \in Nat /\ items[k + 1].left \in Nat
    BY <1>3, <1>4, <2>1
  <2>5. PICK a \in Nat, b \in Nat, c \in Int : a = UpTo(items, k) /\ b = items[k + 1].left /\ c = n
    BY <2>4
  <2>6. 0 + (b - (c - a)) = (a + b) - c
    OBVIOUS
  <2>7. UpTo(u, 1) = UpTo(items, k + 1) - n
    BY <2>2, <2>3, <2>5, <2>6
  <2> QED BY <2>1, <2>7
<1>7. ASSUME NEW i \in 0 .. (j - 1) - 1, f[i] = g[i] PROVE f[i + 1] = g[i + 1]
  <2>1. /\ i \in 0 .. j - 1 /\ i + 1 \in 0 .. j - 1 /\ i + 1 \in 0 .. Len(items) - k - 1
        /\ (i + 1) + 1 \in 2 .. Len(items) - k /\ (k + i) + 1 \in 0 .. Len(items) - 1
        /\ ((k + i) + 1) + 1 = k + ((i + 1) + 1) /\ (k + (i + 1)) + 1 = ((k + i) + 1) + 1
        /\ (k + i) + 1 \in 0 .. Len(items) /\ k + ((i + 1) + 1) \in 1 .. Len(items)
    BY <1>1
  <2>2. UpTo(u, (i + 1) + 1) = UpTo(u, i + 1) + items[k + ((i + 1) + 1)].left
    BY <1>2, <1>5, <2>1
  <2>3. UpTo(items, ((k + i) + 1) + 1) = UpTo(items, (k + i) + 1) + items[k + ((i + 1) + 1)].left
    BY <1>3, <2>1
  <2>4. UpTo(u, i + 1) = UpTo(items, (k + i) + 1) - n
    BY <1>7, <2>1
  <2>0. UpTo(items, (k + i) + 1) \in Nat /\ items[k + ((i + 1) + 1)].left \in Nat
    BY <1>3, <1>4, <2>1
  <2>5. PICK a \in Nat, b \in Nat, c \in Int :
          a = UpTo(items, (k + i) + 1) /\ b = items[k + ((i + 1) + 1)].left /\ c = n
    <3>1. n \in Int
      OBVIOUS
    <3> QED BY <2>0, <3>1, Zenon
  <2>6. (a - c) + b = (a + b) - c
    OBVIOUS
  <2>7. UpTo(u, (i + 1) + 1) = UpTo(items, ((k + i) + 1) + 1) - n
    BY <2>2, <2>3, <2>4, <2>5, <2>6
  <2> QED BY <2>1, <2>7
<1>8. j - 1 \in Nat /\ j - 1 \in 0 .. j - 1 /\ (j - 1) + 1 = j /\ (k + (j - 1)) + 1 = k + j
  BY <1>1
<1>9. f[j - 1] = g[j - 1]
  <2> HIDE DEF f, g
  <2>1. \A i \in 0 .. j - 1 : f[i] = g[i]
    BY <1>6, <1>7, <1>8, SameFolds
  <2> QED BY <1>8, <2>1
<1> QED BY <1>8, <1>9

-----------------------------------------------------------------------------
(* The inductive invariant: the streams are what the items say.            *)

Decoded == {Decode(d) : d \in Seq(Nat)}

Content(bytes, items) ==
  \A j \in 1 .. Len(items) : \A b \in 1 .. items[j].left :
    LET w == Written[items[j].message].bytes
    IN bytes[UpTo(items, j - 1) + b] = w[Len(w) - items[j].left + b]

Carries(bytes, items) ==
  /\ bytes \in Seq(Nat) /\ items \in Seq(Item)
  /\ Len(bytes) = UpTo(items, Len(items))
  /\ \A k \in 1 .. Len(items) : items[k].left \in 1 .. Len(Written[items[k].message].bytes)
  /\ Content(bytes, items)

Typed ==
  /\ ClientTypeOK
  /\ link \in {"open", "fin", "rst"}
  /\ approved \subseteq Logins /\ posted \in 0 .. Len(RoomMessages)
  /\ {member, ragged, strayed} \subseteq BOOLEAN
  /\ unanswered \in Seq(Logins)
  /\ toClient \in Seq(Nat) /\ received \in Seq(Decoded)
StreamInv == Typed /\ Carries(toServer, toItems)

LEMMA ItemLeft ==
  ASSUME NEW items \in Seq(Item), NEW j \in 1 .. Len(items)
  PROVE  /\ items[j].left \in Nat /\ items[j].message \in Sendable
         /\ UpTo(items, j - 1) \in Nat /\ UpTo(items, j) = UpTo(items, j - 1) + items[j].left
<1>1. items[j] \in Item
  BY ElementOfSeq
<1>2. Len(items) \in Nat
  BY LenProperties
<1>3. j - 1 \in 0 .. Len(items) - 1 /\ j - 1 \in 0 .. Len(items) /\ (j - 1) + 1 = j
  BY <1>2
<1>4. UpTo(items, j - 1) \in Nat /\ UpTo(items, (j - 1) + 1) = UpTo(items, j - 1) + items[(j - 1) + 1].left
  BY <1>3, UpToSteps
<1> QED BY <1>1, <1>3, <1>4 DEF Item

LEMMA UpToMonotone ==
  ASSUME NEW items \in Seq(Item), NEW j \in 0 .. Len(items), NEW to \in j .. Len(items)
  PROVE  UpTo(items, j) \in Nat /\ UpTo(items, to) \in Nat /\ UpTo(items, j) <= UpTo(items, to)
<1> DEFINE rest == SubSeq(items, j + 1, Len(items))
<1>1. Len(items) \in Nat /\ j \in Nat /\ j <= Len(items) /\ to \in Nat /\ j <= to /\ to <= Len(items)
  BY LenProperties
<1>2. j + 1 \in 1 .. Len(items) + 1 /\ Len(items) \in (j + 1) - 1 .. Len(items)
  BY <1>1
<1>3. rest \in Seq(Item) /\ Len(rest) = Len(items) - (j + 1) + 1
  BY <1>2, SubSeqProperties
<1>4. PICK l \in Nat : l = to - j
  BY <1>1
<1>5. j + l = to /\ j + l <= Len(items) /\ l <= Len(rest) /\ l \in 0 .. Len(rest)
  BY <1>1, <1>3, <1>4
<1>6. ASSUME NEW i \in 1 .. l PROVE rest[i].left = items[j + i].left
  <2>1. i \in 1 .. Len(items) - (j + 1) + 1 /\ (j + 1) + i - 1 = j + i
    BY <1>1, <1>4
  <2>2. rest[i] = items[(j + 1) + i - 1]
    BY <1>2, <2>1, SubSeqProperties
  <2> QED BY <2>1, <2>2
<1> HIDE DEF rest
<1>7. UpTo(rest, l) = UpTo(items, j + l) - UpTo(items, j)
  BY <1>3, <1>5, <1>6, UpToShifted
<1>8. UpTo(rest, l) \in Nat
  BY <1>3, <1>5, UpToSteps
<1>9. UpTo(items, j) \in Nat /\ UpTo(items, to) \in Nat
  <2>1. j \in 0 .. Len(items) /\ to \in 0 .. Len(items)
    BY <1>1
  <2> QED BY <2>1, UpToSteps
<1> QED BY <1>5, <1>7, <1>8, <1>9

LEMMA UpToGrows ==
  ASSUME NEW items \in Seq(Item), NEW j \in 0 .. Len(items)
  PROVE  /\ UpTo(items, j) \in Nat /\ UpTo(items, Len(items)) \in Nat
         /\ UpTo(items, j) <= UpTo(items, Len(items))
<1>1. Len(items) \in Nat
  BY LenProperties
<1>2. Len(items) \in j .. Len(items)
  BY <1>1
<1> QED BY <1>2, UpToMonotone

(* The place of a byte in its stream.                                      *)
(* Where byte b of what is left of item j is.                              *)
AtPlace(bytes, items, j, b) ==
  /\ UpTo(items, j - 1) + b \in 1 .. Len(bytes)
  /\ bytes[UpTo(items, j - 1) + b] =
       Written[items[j].message].bytes[Len(Written[items[j].message].bytes) - items[j].left + b]

LEMMA ContentPlace ==
  ASSUME NEW bytes, NEW items, Carries(bytes, items),
         NEW j \in 1 .. Len(items), NEW b \in 1 .. items[j].left
  PROVE  AtPlace(bytes, items, j, b)
<1>1. items \in Seq(Item) /\ Len(bytes) = UpTo(items, Len(items)) /\ Content(bytes, items)
  BY DEF Carries
<1>2. j \in 0 .. Len(items)
  OBVIOUS
<1>3. /\ items[j].left \in Nat /\ UpTo(items, j - 1) \in Nat
      /\ UpTo(items, j) = UpTo(items, j - 1) + items[j].left
  BY <1>1, ItemLeft
<1>4. UpTo(items, j) <= UpTo(items, Len(items)) /\ UpTo(items, Len(items)) \in Nat
  BY <1>1, <1>2, UpToGrows
<1>5. UpTo(items, j - 1) + b \in 1 .. Len(bytes)
  BY <1>1, <1>3, <1>4
<1> QED BY <1>1, <1>5 DEF Content, AtPlace

LEMMA CarriesNothing == Carries(<< >>, << >>)
<1>1. << >> \in Seq(Nat) /\ << >> \in Seq(Item) /\ Len(<< >>) = 0 /\ 1 .. 0 = {}
  OBVIOUS
<1>2. UpTo(<< >>, 0) = 0
  BY <1>1, UpToSteps
<1> QED BY <1>1, <1>2 DEF Carries, Content

LEMMA CarriesMore ==
  ASSUME NEW bytes, NEW items, Carries(bytes, items), NEW m \in Sendable
  PROVE  Carries(bytes \o Written[m].bytes,
                 Append(items, [message |-> m, left |-> Len(Written[m].bytes)]))
<1> DEFINE w == Written[m].bytes
           it == [message |-> m, left |-> Len(w)]
           all == Append(items, it)
           more == bytes \o w
<1>1. /\ bytes \in Seq(Nat) /\ items \in Seq(Item) /\ Len(bytes) = UpTo(items, Len(items))
      /\ \A k \in 1 .. Len(items) : items[k].left \in 1 .. Len(Written[items[k].message].bytes)
  BY DEF Carries
<1>2. w \in Seq(Nat) /\ Len(w) \in Nat /\ 1 <= Len(w)
  BY SendableWritten
<1>3. it \in Item /\ it.message = m /\ it.left = Len(w)
  BY <1>2 DEF Item
<1>4. more \in Seq(Nat) /\ Len(more) = Len(bytes) + Len(w)
  BY <1>1, <1>2, ConcatProperties
<1>5. /\ \A k \in 1 .. Len(bytes) : more[k] = bytes[k]
      /\ \A k \in 1 .. Len(w) : more[Len(bytes) + k] = w[k]
  <2>1. Len(bytes) \in Nat
    BY <1>1, LenProperties
  <2>2. ASSUME NEW k \in 1 .. Len(bytes) PROVE more[k] = bytes[k]
    BY <1>1, <1>2, ConcatProperties
  <2>3. ASSUME NEW k \in 1 .. Len(w) PROVE more[Len(bytes) + k] = w[k]
    <3>1. Len(bytes) + k \in Len(bytes) + 1 .. Len(bytes) + Len(w) /\ (Len(bytes) + k) - Len(bytes) = k
      BY <1>2, <2>1
    <3>2. more[Len(bytes) + k] = w[(Len(bytes) + k) - Len(bytes)]
      BY <1>1, <1>2, <3>1, ConcatProperties, SMTT(30)
    <3> QED BY <3>1, <3>2
  <2> QED BY <2>2, <2>3
<1>6. /\ all \in Seq(Item) /\ Len(all) = Len(items) + 1
      /\ \A j \in 0 .. Len(items) : UpTo(all, j) = UpTo(items, j)
      /\ UpTo(all, Len(items) + 1) = UpTo(items, Len(items)) + Len(w)
  <2> HIDE DEF it
  <2> QED BY <1>1, <1>3, UpToAppended
<1>7. (\A j \in 1 .. Len(items) : all[j] = items[j]) /\ all[Len(items) + 1] = it
  BY <1>1, AppendProperties
<1>8. Len(items) \in Nat
  BY <1>1, LenProperties
<1> HIDE DEF it, all, more, w
<1>9. Len(more) = UpTo(all, Len(all))
  BY <1>1, <1>4, <1>6
<1>10. ASSUME NEW k \in 1 .. Len(all) PROVE k \in 1 .. Len(items) \/ k = Len(items) + 1
  BY <1>6, <1>8
<1>11. ASSUME NEW k \in 1 .. Len(all)
       PROVE  all[k].left \in 1 .. Len(Written[all[k].message].bytes)
  <2>1. CASE k \in 1 .. Len(items)
    BY <1>1, <1>7, <2>1
  <2>2. CASE k = Len(items) + 1
    <3>1. all[k].left = Len(w) /\ Written[all[k].message].bytes = w
      BY <1>3, <1>7, <2>2 DEF w
    <3> QED BY <1>2, <3>1
  <2> QED BY <1>10, <2>1, <2>2
<1>12. ASSUME NEW j \in 1 .. Len(all), NEW b \in 1 .. all[j].left
       PROVE  more[UpTo(all, j - 1) + b] =
                Written[all[j].message].bytes[Len(Written[all[j].message].bytes) - all[j].left + b]
  <2>1. CASE j \in 1 .. Len(items)
    <3>1. j - 1 \in 0 .. Len(items) /\ all[j] = items[j]
      BY <1>7, <1>8, <2>1
    <3>2. b \in 1 .. items[j].left
      BY <3>1
    <3>3. /\ UpTo(items, j - 1) + b \in 1 .. Len(bytes)
          /\ bytes[UpTo(items, j - 1) + b] =
               Written[items[j].message].bytes[Len(Written[items[j].message].bytes) - items[j].left + b]
      <4>1. AtPlace(bytes, items, j, b)
        BY <2>1, <3>2, ContentPlace
      <4> QED BY <4>1, Zenon DEF AtPlace
    <3>4. UpTo(all, j - 1) = UpTo(items, j - 1)
      BY <1>6, <3>1
    <3> QED BY <1>5, <3>1, <3>3, <3>4
  <2>2. CASE j = Len(items) + 1
    <3>1. j - 1 = Len(items) /\ Len(items) \in 0 .. Len(items)
      BY <1>8, <2>2
    <3>2. UpTo(all, j - 1) = Len(bytes)
      BY <1>1, <1>6, <3>1
    <3>3. all[j].left = Len(w) /\ Written[all[j].message].bytes = w
      BY <1>3, <1>7, <2>2 DEF w
    <3>4. Len(w) - Len(w) + b = b /\ b \in 1 .. Len(w)
      <4>1. b \in 1 .. Len(w)
        BY <3>3
      <4> QED BY <1>2, <4>1
    <3> QED BY <1>5, <3>2, <3>3, <3>4
  <2> QED BY <1>10, <2>1, <2>2
<1>13. Content(more, all)
  BY <1>12 DEF Content
<1>14. Carries(more, all)
  BY <1>4, <1>6, <1>9, <1>11, <1>13 DEF Carries
<1> QED BY <1>14 DEF more, all, it, w

LEMMA TakenBytes ==
  ASSUME NEW n \in Nat, NEW a \in Nat, NEW l \in Nat, a <= n, a + l > n
  PROVE  l - (n - a) \in 1 .. l /\ n + 0 = a + (l - (l - (n - a)))
OBVIOUS

LEMMA ShiftedPlace ==
  ASSUME NEW n \in Nat, NEW a \in Nat, NEW l \in Nat, NEW y \in Nat, NEW v \in 1 .. l,
         NEW w \in Nat, NEW b \in 1 .. v, n + y = a + (l - v)
  PROVE  /\ (l - v) + b \in 1 .. l /\ w - l + ((l - v) + b) = w - v + b
         /\ a + ((l - v) + b) = n + (y + b) /\ y + b \in Nat /\ 1 <= y + b
OBVIOUS

LEMMA Within ==
  ASSUME NEW w \in Nat, NEW l \in 1 .. w
  PROVE  /\ \A v \in 1 .. l : v \in 1 .. w
         /\ \A n \in Nat, x \in Nat : 1 <= x /\ n + x \in 1 .. w => x \in 1 .. w - n
OBVIOUS

LEMMA CarriesLess ==
  ASSUME NEW bytes, NEW items, Carries(bytes, items), NEW n \in 0 .. Len(bytes)
  PROVE  Carries(SubSeq(bytes, n + 1, Len(bytes)), Untaken(items, n))
<1> DEFINE rest == SubSeq(bytes, n + 1, Len(bytes))
           u == Untaken(items, n)
<1>1. /\ bytes \in Seq(Nat) /\ items \in Seq(Item) /\ Len(bytes) = UpTo(items, Len(items))
      /\ \A k \in 1 .. Len(items) : items[k].left \in 1 .. Len(Written[items[k].message].bytes)
      /\ Len(bytes) \in Nat /\ Len(items) \in Nat /\ n \in Nat
  BY LenProperties DEF Carries
<1>2. /\ rest \in Seq(Nat) /\ Len(rest) = Len(bytes) - n
      /\ \A k \in 1 .. Len(bytes) - n : rest[k] = bytes[n + k]
  <2>1. n + 1 \in 1 .. Len(bytes) + 1 /\ Len(bytes) \in (n + 1) - 1 .. Len(bytes)
    BY <1>1
  <2>2. rest \in Seq(Nat) /\ Len(rest) = Len(bytes) - (n + 1) + 1
    BY <1>1, <2>1, SubSeqProperties
  <2>3. ASSUME NEW k \in 1 .. Len(bytes) - n PROVE rest[k] = bytes[n + k]
    <3>1. k \in 1 .. Len(bytes) - (n + 1) + 1 /\ (n + 1) + k - 1 = n + k
      BY <1>1
    <3>2. rest[k] = bytes[(n + 1) + k - 1]
      BY <1>1, <2>1, <3>1, SubSeqProperties
    <3> QED BY <3>1, <3>2
  <2>4. Len(bytes) - (n + 1) + 1 = Len(bytes) - n
    BY <1>1
  <2> QED BY <2>2, <2>3, <2>4
<1>3. PICK k \in 0 .. Len(items) :
        /\ UpTo(items, k) <= n /\ (k = Len(items) \/ UpTo(items, k + 1) > n)
        /\ u \in Seq(Item) /\ Len(u) = Len(items) - k
        /\ \A j \in 1 .. Len(items) - k : u[j].message = items[k + j].message
        /\ \A j \in 2 .. Len(items) - k : u[j].left = items[k + j].left
        /\ k < Len(items) => u[1].left = items[k + 1].left - (n - UpTo(items, k))
  BY <1>1, UntakenFacts
<1>4. \A j \in 1 .. Len(items) - k : UpTo(u, j) = UpTo(items, k + j) - n
  BY <1>1, <1>3, UntakenSums
<1> HIDE DEF rest, u
<1>5. k \in Nat /\ k <= Len(items) /\ UpTo(items, k) \in Nat /\ UpTo(u, 0) = 0
  BY <1>1, <1>3, UpToSteps
<1>6. Len(rest) = UpTo(u, Len(u))
  <2>1. CASE k = Len(items)
    <3>1. Len(u) = 0
      BY <1>1, <1>3, <2>1
    <3>2. Len(bytes) = n
      BY <1>1, <1>3, <2>1
    <3> QED BY <1>1, <1>2, <1>5, <3>1, <3>2
  <2>2. CASE k < Len(items)
    <3>1. Len(u) \in 1 .. Len(items) - k /\ k + Len(u) = Len(items)
      BY <1>1, <1>3, <1>5, <2>2
    <3> QED BY <1>1, <1>2, <1>4, <3>1
  <2> QED BY <1>1, <1>5, <2>1, <2>2
<1>7. ASSUME NEW j \in 1 .. Len(u)
      PROVE  /\ k + j \in 1 .. Len(items) /\ u[j].message = items[k + j].message
             /\ u[j].left \in 1 .. items[k + j].left /\ items[k + j].left \in Nat
             /\ UpTo(u, j - 1) \in Nat /\ UpTo(items, (k + j) - 1) \in Nat
             /\ n + UpTo(u, j - 1) = UpTo(items, (k + j) - 1) + (items[k + j].left - u[j].left)
  <2>1. k + j \in 1 .. Len(items) /\ j \in 1 .. Len(items) - k
    BY <1>1, <1>3, <1>5
  <2>2. /\ items[k + j].left \in Nat /\ UpTo(items, (k + j) - 1) \in Nat
        /\ UpTo(items, k + j) = UpTo(items, (k + j) - 1) + items[k + j].left
    BY <1>1, <2>1, ItemLeft
  <2>3. UpTo(u, j - 1) \in Nat
    BY <1>3, ItemLeft
  <2>4. CASE j = 1
    <3>1. k < Len(items) /\ j - 1 = 0 /\ (k + j) - 1 = k /\ k + j = k + 1
      BY <1>1, <1>5, <2>1, <2>4
    <3>2. u[1].left = items[k + 1].left - (n - UpTo(items, k)) /\ UpTo(items, k + 1) > n
      BY <1>1, <1>3, <1>5, <3>1
    <3>3. UpTo(items, k + 1) = UpTo(items, k) + items[k + 1].left
      BY <2>2, <3>1
    <3>4. u[1].left \in 1 .. items[k + 1].left /\ n + 0 = UpTo(items, k) + (items[k + 1].left - u[1].left)
      <4>1. /\ items[k + 1].left \in Nat /\ UpTo(items, k) \in Nat /\ n \in Nat
            /\ UpTo(items, k) <= n /\ UpTo(items, k) + items[k + 1].left > n
        BY <1>1, <1>3, <1>5, <2>2, <3>1, <3>2, <3>3
      <4>2. /\ items[k + 1].left - (n - UpTo(items, k)) \in 1 .. items[k + 1].left
            /\ n + 0 = UpTo(items, k)
                  + (items[k + 1].left - (items[k + 1].left - (n - UpTo(items, k))))
        BY <4>1, TakenBytes
      <4> QED BY <3>2, <4>2, Zenon
    <3> QED BY <1>3, <1>5, <2>1, <2>2, <2>3, <2>4, <3>1, <3>4
  <2>5. CASE j # 1
    <3>1. j \in 2 .. Len(items) - k /\ j - 1 \in 1 .. Len(items) - k /\ k + (j - 1) = (k + j) - 1
      BY <1>1, <1>5, <2>1, <2>5
    <3>2. u[j].left = items[k + j].left /\ UpTo(u, j - 1) = UpTo(items, (k + j) - 1) - n
      BY <1>3, <1>4, <3>1
    <3>3. items[k + j].left \in 1 .. items[k + j].left
      BY <1>1, <2>1, <2>2
    <3>4. n + UpTo(u, j - 1) = UpTo(items, (k + j) - 1) + (items[k + j].left - u[j].left)
      BY <1>1, <2>2, <2>3, <3>2
    <3>5. u[j].message = items[k + j].message
      BY <1>3, <2>1
    <3> QED BY <2>1, <2>2, <2>3, <3>2, <3>3, <3>4, <3>5
  <2> QED BY <2>4, <2>5
<1>8. ASSUME NEW j \in 1 .. Len(u)
      PROVE  u[j].left \in 1 .. Len(Written[u[j].message].bytes)
  <2>1. items[k + j].left \in 1 .. Len(Written[items[k + j].message].bytes)
    BY <1>1, <1>7
  <2>2. Len(Written[items[k + j].message].bytes) \in Nat
    BY <1>1, <1>7, ItemLeft, SendableWritten
  <2>3. u[j].left \in 1 .. items[k + j].left /\ u[j].message = items[k + j].message
    BY <1>7
  <2> QED BY <2>1, <2>2, <2>3, Within
<1>9. ASSUME NEW j \in 1 .. Len(u), NEW b \in 1 .. u[j].left
      PROVE  rest[UpTo(u, j - 1) + b] =
               Written[u[j].message].bytes[Len(Written[u[j].message].bytes) - u[j].left + b]
  <2> DEFINE w == Written[items[k + j].message].bytes
             c == (items[k + j].left - u[j].left) + b
  <2>1. Len(w) \in Nat
    BY <1>1, <1>7, ItemLeft, SendableWritten
  <2> HIDE DEF w
  <2>2. /\ c \in 1 .. items[k + j].left
        /\ Len(w) - items[k + j].left + c = Len(w) - u[j].left + b
        /\ UpTo(items, (k + j) - 1) + c = n + (UpTo(u, j - 1) + b)
        /\ UpTo(u, j - 1) + b \in Nat /\ 1 <= UpTo(u, j - 1) + b
    <3> DEFINE l == items[k + j].left
               v == u[j].left
               a == UpTo(items, (k + j) - 1)
               y == UpTo(u, j - 1)
               W == Len(w)
    <3>1. /\ n \in Nat /\ a \in Nat /\ l \in Nat /\ y \in Nat /\ v \in 1 .. l /\ W \in Nat
          /\ b \in 1 .. v /\ n + y = a + (l - v)
      BY <1>1, <1>7, <2>1
    <3>2. c = (l - v) + b
      OBVIOUS
    <3> HIDE DEF l, v, a, y, W, c
    <3>3. /\ (l - v) + b \in 1 .. l /\ W - l + ((l - v) + b) = W - v + b
          /\ a + ((l - v) + b) = n + (y + b) /\ y + b \in Nat /\ 1 <= y + b
      BY <3>1, ShiftedPlace
    <3>4. c \in 1 .. l /\ W - l + c = W - v + b /\ a + c = n + (y + b) /\ y + b \in Nat /\ 1 <= y + b
      BY <3>2, <3>3
    <3> QED BY <3>4 DEF l, v, a, y, W
  <2>0. k + j \in 1 .. Len(items) /\ u[j].message = items[k + j].message
    BY <1>7
  <2>3. /\ UpTo(items, (k + j) - 1) + c \in 1 .. Len(bytes)
        /\ bytes[UpTo(items, (k + j) - 1) + c] = w[Len(w) - items[k + j].left + c]
    <3> HIDE DEF c
    <3>1. PICK q \in 1 .. Len(items) : q = k + j
      BY <2>0
    <3>2. PICK e \in 1 .. items[q].left : e = c
      BY <2>2, <3>1
    <3>3. /\ UpTo(items, q - 1) + e \in 1 .. Len(bytes)
          /\ bytes[UpTo(items, q - 1) + e] =
               Written[items[q].message].bytes[Len(Written[items[q].message].bytes) - items[q].left + e]
      <4>1. AtPlace(bytes, items, q, e)
        BY ContentPlace
      <4> QED BY <4>1, Zenon DEF AtPlace
    <3> QED BY <3>1, <3>2, <3>3, Zenon DEF w
  <2> HIDE DEF c
  <2>4. UpTo(u, j - 1) + b \in 1 .. Len(bytes) - n
    <3>1. n + (UpTo(u, j - 1) + b) \in 1 .. Len(bytes)
      BY <2>2, <2>3
    <3> QED BY <1>1, <2>2, <3>1, Within
  <2>5. rest[UpTo(u, j - 1) + b] = bytes[n + (UpTo(u, j - 1) + b)]
    BY <1>2, <2>4
  <2>6. rest[UpTo(u, j - 1) + b] = w[Len(w) - u[j].left + b]
    BY <2>2, <2>3, <2>5
  <2> QED BY <1>7, <2>6 DEF w
<1>10. Content(rest, u)
  BY <1>9 DEF Content
<1>11. Carries(rest, u)
  BY <1>2, <1>3, <1>6, <1>8, <1>10 DEF Carries
<1> QED BY <1>11 DEF rest, u

-----------------------------------------------------------------------------
(* What one recv returns and what it leaves.                               *)

LEMMA SuffixFacts ==
  ASSUME NEW S, NEW s \in Seq(S), NEW n \in Nat, n <= Len(s)
  PROVE  /\ SubSeq(s, n + 1, Len(s)) \in Seq(S) /\ Len(SubSeq(s, n + 1, Len(s))) = Len(s) - n
         /\ \A k \in 1 .. Len(s) - n : SubSeq(s, n + 1, Len(s))[k] = s[n + k]
<1>1. Len(s) \in Nat
  BY LenProperties
<1>2. /\ n + 1 \in Int /\ Len(s) \in Int /\ Len(s) - (n + 1) + 1 = Len(s) - n
      /\ n + 1 <= Len(s) \/ Len(s) - n = 0
      /\ \A i \in n + 1 .. Len(s) : i \in 1 .. Len(s)
  BY <1>1
<1>3. \A i \in n + 1 .. Len(s) : s[i] \in S
  BY <1>2, ElementOfSeq
<1>4. \A a \in Int, b \in Int :
        (\A i \in a .. b : s[i] \in S) =>
          /\ SubSeq(s, a, b) \in Seq(S) /\ Len(SubSeq(s, a, b)) = IF a <= b THEN b - a + 1 ELSE 0
          /\ \A i \in 1 .. b - a + 1 : SubSeq(s, a, b)[i] = s[a + i - 1]
  BY SubSeqProperties
<1>5. /\ SubSeq(s, n + 1, Len(s)) \in Seq(S)
      /\ Len(SubSeq(s, n + 1, Len(s))) = IF n + 1 <= Len(s) THEN Len(s) - (n + 1) + 1 ELSE 0
      /\ \A i \in 1 .. Len(s) - (n + 1) + 1 : SubSeq(s, n + 1, Len(s))[i] = s[(n + 1) + i - 1]
  BY <1>2, <1>3, <1>4, Zenon
<1>6. \A k \in 1 .. Len(s) - n : (n + 1) + k - 1 = n + k
  BY <1>1
<1> DEFINE t == SubSeq(s, n + 1, Len(s))
<1> HIDE DEF t
<1>7. /\ t \in Seq(S) /\ Len(t) = IF n + 1 <= Len(s) THEN Len(s) - (n + 1) + 1 ELSE 0
      /\ \A i \in 1 .. Len(s) - (n + 1) + 1 : t[i] = s[(n + 1) + i - 1]
  BY <1>5, Zenon DEF t
<1>8. Len(t) = Len(s) - n
  BY <1>2, <1>7, ZenonT(30)
<1>9. \A k \in 1 .. Len(s) - n : t[k] = s[n + k]
  BY <1>2, <1>6, <1>7
<1> QED BY <1>7, <1>8, <1>9 DEF t

LEMMA CutFacts ==
  ASSUME NEW s \in Seq(Nat), NEW n \in 1 .. Min({Len(s), BufLen})
  PROVE  /\ n \in 1 .. Len(s) /\ n \in Nat /\ ByteBase * n <= Words
         /\ SubSeq(s, 1, n) \in Seq(Nat) /\ Len(SubSeq(s, 1, n)) = n
         /\ \A k \in 1 .. n : SubSeq(s, 1, n)[k] = s[k]
         /\ SubSeq(s, n + 1, Len(s)) \in Seq(Nat) /\ Len(SubSeq(s, n + 1, Len(s))) = Len(s) - n
         /\ \A k \in 1 .. Len(s) - n : SubSeq(s, n + 1, Len(s))[k] = s[n + k]
<1>1. Len(s) \in Nat /\ BufLen \in Nat /\ ByteBase \in Nat /\ BufLen * ByteBase <= Words
  BY LenProperties, ClientAssumption, Sizes
<1>2. Min({Len(s), BufLen}) \in {Len(s), BufLen} /\ Min({Len(s), BufLen}) <= Len(s)
        /\ Min({Len(s), BufLen}) <= BufLen
  <2> DEFINE S == {Len(s), BufLen}
  <2>1. \E x \in S : \A y \in S : x <= y
    BY <1>1
  <2>2. Min(S) \in S /\ \A y \in S : Min(S) <= y
    <3>1. Min(S) = CHOOSE x \in S : \A y \in S : x <= y
      BY DEF Min
    <3> HIDE DEF S
    <3> QED BY <2>1, <3>1
  <2> QED BY <2>2
<1>3. n \in 1 .. Len(s) /\ n \in Nat /\ n <= BufLen
  BY <1>1, <1>2
<1>4. ByteBase * n <= Words
  <2>1. n * ByteBase <= BufLen * ByteBase /\ n * ByteBase = ByteBase * n
    BY <1>1, <1>3, TimesMonotone, TimesSwap
  <2>2. n * ByteBase \in Nat /\ BufLen * ByteBase \in Nat /\ Words \in Nat
    BY <1>1, <1>3, TimesNat, WordsType
  <2> QED BY <1>1, <2>1, <2>2
<1>5. /\ SubSeq(s, 1, n) \in Seq(Nat) /\ Len(SubSeq(s, 1, n)) = n
      /\ \A k \in 1 .. n : SubSeq(s, 1, n)[k] = s[k]
  <2>1. 1 \in 1 .. Len(s) + 1 /\ n \in 1 - 1 .. Len(s) /\ n - 1 + 1 = n
    BY <1>1, <1>3
  <2>2. SubSeq(s, 1, n) \in Seq(Nat) /\ Len(SubSeq(s, 1, n)) = n - 1 + 1
    BY <2>1, SubSeqProperties
  <2>3. ASSUME NEW k \in 1 .. n PROVE SubSeq(s, 1, n)[k] = s[k]
    <3>1. k \in 1 .. n - 1 + 1 /\ 1 + k - 1 = k
      BY <1>3
    <3>2. SubSeq(s, 1, n)[k] = s[1 + k - 1]
      BY <2>1, <3>1, SubSeqProperties
    <3> QED BY <3>1, <3>2
  <2> QED BY <2>1, <2>2, <2>3
<1>6. /\ SubSeq(s, n + 1, Len(s)) \in Seq(Nat) /\ Len(SubSeq(s, n + 1, Len(s))) = Len(s) - n
      /\ \A k \in 1 .. Len(s) - n : SubSeq(s, n + 1, Len(s))[k] = s[n + k]
  <2>1. n <= Len(s)
    BY <1>1, <1>3
  <2> QED BY <1>3, <2>1, SuffixFacts
<1> QED BY <1>3, <1>4, <1>5, <1>6

LEMMA PushedType ==
  ASSUME NEW S, NEW ms \in Seq(S), NEW m \in S, Len(ms) <= KeptLines
  PROVE  Pushed(ms, m) \in Seq(S) /\ Len(Pushed(ms, m)) <= KeptLines
<1> DEFINE all == Append(ms, m)
<1>1. all \in Seq(S) /\ Len(all) = Len(ms) + 1 /\ Len(ms) \in Nat /\ KeptLines \in Nat
  BY AppendProperties, LenProperties, ClientAssumption
<1>2. Pushed(ms, m) = IF Len(all) > KeptLines THEN Tail(all) ELSE all
  BY DEF Pushed
<1> HIDE DEF all
<1>3. Tail(all) \in Seq(S) /\ Len(Tail(all)) = Len(all) - 1
  <2>1. all # << >>
    <3>1. Len(all) # 0
      BY <1>1
    <3> QED BY <3>1, EmptySeq
  <2> QED BY <1>1, <2>1, HeadTailProperties
<1> QED BY <1>1, <1>2, <1>3

LEMMA AnswerTexts ==
  /\ OkText \in Seq(Nat) /\ Len(OkText) = 2 /\ ErrorText \in Seq(Nat)
  /\ Len(ErrorText) \in Nat /\ 2 <= Len(ErrorText)
<1>1. OkText \in Seq(Nat)
  BY AnswerAssumption, BytesType DEF OkText
<1>2. Len(OkText) = 2 /\ ErrorText \in Seq(Nat) /\ Len(ErrorText) >= Len(OkText)
  BY AnswerAssumption
<1>3. Len(ErrorText) \in Nat
  BY <1>2, LenProperties
<1> QED BY <1>1, <1>2, <1>3

-----------------------------------------------------------------------------
(* The steps preserve it.                                                  *)

LEMMA TransmitStream ==
  ASSUME StreamInv, NEW m \in Sendable, Transmit(m)
  PROVE  /\ link' \in {"open", "fin", "rst"} /\ toClient' \in Seq(Nat)
         /\ Carries(toServer', toItems')
<1>1. link \in {"open", "fin", "rst"} /\ toClient \in Seq(Nat) /\ Carries(toServer, toItems)
  BY DEF StreamInv, Typed
<1>2. CASE link = "open"
  <2>1. /\ toServer' = toServer \o Written[m].bytes
        /\ toItems' = Append(toItems, [message |-> m, left |-> Len(Written[m].bytes)])
        /\ link' = link /\ toClient' = toClient
    BY <1>2 DEF Transmit
  <2>2. Carries(toServer \o Written[m].bytes,
                Append(toItems, [message |-> m, left |-> Len(Written[m].bytes)]))
    BY <1>1, CarriesMore
  <2> QED BY <1>1, <2>1, <2>2, Zenon
<1>3. CASE link # "open"
  <2>1. link' = "rst" /\ toClient' = << >> /\ toServer' = toServer /\ toItems' = toItems
    BY <1>3 DEF Transmit
  <2>2. << >> \in Seq(Nat)
    OBVIOUS
  <2> QED BY <1>1, <2>1, <2>2, Zenon
<1> QED BY <1>2, <1>3

LEMMA StreamInit ==
  ASSUME Init
  PROVE  StreamInv
<1>1. /\ toServer = << >> /\ toItems = << >> /\ pc = "option" /\ login = NoLogin /\ received = << >>
      /\ entered = 0 /\ tries = 0 /\ link = "open" /\ toClient = << >> /\ unanswered = << >>
      /\ member = FALSE /\ approved = {} /\ posted = 0 /\ ragged = FALSE /\ strayed = FALSE
  BY DEF Init
<1>2. Carries(toServer, toItems)
  BY <1>1, CarriesNothing
<1>3. /\ MaxEntered \in Nat /\ MaxLogins \in Nat /\ KeptLines \in Nat
      /\ Len(RoomMessages) \in Nat
  BY ClientAssumption, LenProperties
<1>4. ClientTypeOK
  BY <1>1, <1>3 DEF ClientTypeOK
<1>5. << >> \in Seq(Nat) /\ << >> \in Seq(Decoded) /\ << >> \in Seq(Logins)
  OBVIOUS
<1>6. 0 \in 0 .. Len(RoomMessages)
  BY <1>3
<1>7. Typed
  BY <1>1, <1>4, <1>5, <1>6 DEF Typed
<1> QED BY <1>2, <1>7 DEF StreamInv

LEMMA StreamParts ==
  ASSUME StreamInv
  PROVE  /\ pc \in {"option", "await", "key", "recv", "leaving", "ended"}
         /\ login \in Logins \union {NoLogin} /\ Len(received) <= KeptLines
         /\ entered \in 0 .. MaxEntered /\ tries \in 0 .. MaxLogins
         /\ link \in {"open", "fin", "rst"} /\ approved \subseteq Logins
         /\ posted \in 0 .. Len(RoomMessages) /\ member \in BOOLEAN /\ ragged \in BOOLEAN
         /\ strayed \in BOOLEAN /\ unanswered \in Seq(Logins) /\ toClient \in Seq(Nat)
         /\ received \in Seq(Decoded) /\ Carries(toServer, toItems)
         /\ Len(RoomMessages) \in Nat /\ MaxEntered \in Nat /\ MaxLogins \in Nat
BY ClientAssumption, LenProperties DEF StreamInv, Typed, ClientTypeOK

LEMMA StreamStep ==
  ASSUME StreamInv, [Next]_vars
  PROVE  StreamInv'
<1> USE StreamParts
<1>1. ASSUME Keys PROVE StreamInv'
  <2>1. ASSUME EnterLogin PROVE StreamInv'
    <3>1. /\ unanswered' = unanswered /\ member' = member /\ approved' = approved /\ posted' = posted
          /\ ragged' = ragged /\ strayed' = strayed /\ received' = received /\ entered' = entered
          /\ tries < MaxLogins
      BY <2>1 DEF EnterLogin, serverVars, histories
    <3>2. PICK l \in Logins :
            /\ login' = l
            /\ \/ Transmit(LoginMessage(l)) /\ pc' = "await" /\ tries' = tries + 1
               \/ /\ pc' = "key"
                  /\ UNCHANGED << tries, link, toServer, toItems, toClient >>
      BY <2>1 DEF EnterLogin
    <3>3. link' \in {"open", "fin", "rst"} /\ toClient' \in Seq(Nat) /\ Carries(toServer', toItems')
      <4>1. CASE Transmit(LoginMessage(l))
        BY <4>1, LoginProper, TransmitStream
      <4>2. CASE UNCHANGED << tries, link, toServer, toItems, toClient >>
        <5>1. link' = link /\ toServer' = toServer /\ toItems' = toItems /\ toClient' = toClient
          BY <4>2
        <5> QED BY <5>1, Zenon
      <4> QED BY <3>2, <4>1, <4>2
    <3>4. tries' \in 0 .. MaxLogins
      BY <3>1, <3>2
    <3>5. ClientTypeOK'
      BY <3>1, <3>2, <3>4 DEF ClientTypeOK
    <3> QED BY <3>1, <3>3, <3>5 DEF StreamInv, Typed
  <2>2. ASSUME EnterCommand PROVE StreamInv'
    <3>1. /\ unanswered' = unanswered /\ member' = member /\ approved' = approved /\ posted' = posted
          /\ ragged' = ragged /\ strayed' = strayed /\ received' = received
          /\ entered' = entered + 1 /\ entered < MaxEntered /\ tries' = tries /\ login' = login
          /\ pc' \in {"recv", "ended"}
      BY <2>2 DEF EnterCommand, serverVars, histories
    <3>2. link' \in {"open", "fin", "rst"} /\ toClient' \in Seq(Nat) /\ Carries(toServer', toItems')
      <4>1. CASE \E l \in Lines : Transmit(CommandMessage(l))
        BY <4>1, CommandProper, TransmitStream
      <4>2. CASE UNCHANGED << link, toServer, toItems, toClient >>
        <5>1. link' = link /\ toServer' = toServer /\ toItems' = toItems /\ toClient' = toClient
          BY <4>2
        <5> QED BY <5>1, Zenon
      <4> QED BY <2>2, <4>1, <4>2 DEF EnterCommand
    <3>3. entered' \in 0 .. MaxEntered
      BY <3>1
    <3>4. ClientTypeOK'
      BY <3>1, <3>3 DEF ClientTypeOK
    <3> QED BY <3>1, <3>2, <3>4 DEF StreamInv, Typed
  <2>3. ASSUME Escape PROVE StreamInv'
    BY <2>3 DEF Escape, StreamInv, Typed, ClientTypeOK, serverVars, histories
  <2> QED BY <1>1, <2>1, <2>2, <2>3 DEF Keys
<1>2. ASSUME ClientStep PROVE StreamInv'
  <2>1. ASSUME AwaitAnswer PROVE StreamInv'
    <3>1. /\ unanswered' = unanswered /\ member' = member /\ approved' = approved /\ posted' = posted
          /\ strayed' = strayed /\ received' = received /\ entered' = entered /\ tries' = tries
          /\ login' = login /\ link' = link /\ toServer' = toServer /\ toItems' = toItems
      BY <2>1 DEF AwaitAnswer, serverVars
    <3>2. PICK n \in RecvLengths :
            /\ Take(n) /\ pc' = IF IsOk(Recv(n)) THEN "key" ELSE "option"
            /\ ragged' = (ragged \/ Recv(n) \notin {OkText, ErrorText})
      BY <2>1 DEF AwaitAnswer
    <3>3. toClient' \in Seq(Nat)
      BY <3>2, CutFacts DEF RecvLengths, Take
    <3>4. ragged' \in BOOLEAN
      BY <3>2, Zenon
    <3>5. pc' \in {"option", "await", "key", "recv", "leaving", "ended"}
      BY <3>2
    <3> HIDE <3>2
    <3>6. ClientTypeOK'
      BY <3>1, <3>5 DEF ClientTypeOK
    <3> QED BY <3>1, <3>3, <3>4, <3>6 DEF StreamInv, Typed
  <2>2. ASSUME AwaitEnds PROVE StreamInv'
    BY <2>2 DEF AwaitEnds, StreamInv, Typed, ClientTypeOK, serverVars, histories
  <2>3. ASSUME Show PROVE StreamInv'
    <3>1. /\ unanswered' = unanswered /\ member' = member /\ approved' = approved /\ posted' = posted
          /\ ragged' = ragged /\ entered' = entered /\ tries' = tries
          /\ login' = login /\ link' = link /\ toServer' = toServer /\ toItems' = toItems
          /\ pc' \in {"ended", "key"}
      BY <2>3 DEF Show, serverVars, NextRound
    <3>2. PICK n \in RecvLengths :
            /\ Take(n)
            /\ received' = IF Decode(Recv(n)).type = "RECIEVE" THEN Pushed(received, Decode(Recv(n)))
                           ELSE received
      BY <2>3 DEF Show
    <3>3. toClient' \in Seq(Nat) /\ Recv(n) \in Seq(Nat)
      BY <3>2, CutFacts DEF RecvLengths, Take, Recv
    <3>4. strayed' \in BOOLEAN
      <4>1. strayed' = (strayed \/ \A k \in 0 .. posted : toClient # Left(k))
        BY <2>3 DEF Show
      <4> QED BY <4>1, Zenon
    <3>5. received' \in Seq(Decoded) /\ Len(received') <= KeptLines
      <4>1. Decode(Recv(n)) \in Decoded
        BY <3>3 DEF Decoded
      <4>2. Pushed(received, Decode(Recv(n))) \in Seq(Decoded)
              /\ Len(Pushed(received, Decode(Recv(n)))) <= KeptLines
        BY <4>1, PushedType
      <4> QED BY <3>2, <4>2
    <3>6. ClientTypeOK'
      BY <3>1, <3>5 DEF ClientTypeOK
    <3> QED BY <3>1, <3>3, <3>4, <3>5, <3>6 DEF StreamInv, Typed
  <2>4. ASSUME RecvFails PROVE StreamInv'
    BY <2>4 DEF RecvFails, StreamInv, Typed, ClientTypeOK, serverVars, histories
  <2>5. ASSUME RecvNothing PROVE StreamInv'
    BY <2>5 DEF RecvNothing, StreamInv, Typed, ClientTypeOK, serverVars, histories, NextRound
  <2> QED BY <1>2, <2>1, <2>2, <2>3, <2>4, <2>5 DEF ClientStep
<1>3. ASSUME Server PROVE StreamInv'
  <2>1. ASSUME ServerReads PROVE StreamInv'
    <3>1. /\ approved' = approved /\ posted' = posted /\ link' = link /\ toClient' = toClient
          /\ ragged' = ragged /\ UNCHANGED clientVars
      BY <2>1 DEF ServerReads
    <3>2. PICK n \in 1 .. Min({Len(toServer), BufLen}) :
            LET m == Decode(SubSeq(toServer, 1, n)) IN
            /\ toServer' = SubSeq(toServer, n + 1, Len(toServer))
            /\ toItems' = Untaken(toItems, n)
            /\ unanswered' = IF m.type = "LOGIN" /\ \E l \in Logins : Bytes[l] = m.name
                 THEN Append(unanswered, CHOOSE l \in Logins : Bytes[l] = m.name) ELSE unanswered
            /\ member' = (member \/ m.type = "JOIN")
      BY <2>1 DEF ServerReads
    <3>3. Carries(toServer', toItems')
      <4>1. toServer \in Seq(Nat)
        BY DEF Carries
      <4>2. n \in 1 .. Len(toServer) /\ Len(toServer) \in Nat
        BY <4>1, CutFacts, LenProperties
      <4>3. n \in 0 .. Len(toServer)
        BY <4>2
      <4>4. Carries(SubSeq(toServer, n + 1, Len(toServer)), Untaken(toItems, n))
        BY <4>3, CarriesLess
      <4> QED BY <3>2, <4>4
    <3> DEFINE d == Decode(SubSeq(toServer, 1, n))
               l == CHOOSE l \in Logins : Bytes[l] = d.name
    <3>4. unanswered' \in Seq(Logins)
      <4>1. CASE d.type = "LOGIN" /\ \E x \in Logins : Bytes[x] = d.name
        <5>1. unanswered' = Append(unanswered, l)
          BY <3>2, <4>1
        <5>2. l \in Logins
          BY <4>1
        <5> QED BY <5>1, <5>2, AppendProperties
      <4>2. CASE ~ (d.type = "LOGIN" /\ \E x \in Logins : Bytes[x] = d.name)
        <5>1. unanswered' = unanswered
          BY <3>2, <4>2
        <5> QED BY <5>1
      <4> QED BY <4>1, <4>2
    <3>5. member' \in BOOLEAN
      BY <3>2, Zenon
    <3>6. strayed' \in BOOLEAN
      <4>1. strayed' = (strayed \/ toItems[1].left < Len(Written[toItems[1].message].bytes))
        BY <2>1 DEF ServerReads
      <4> QED BY <4>1, Zenon
    <3>7. ClientTypeOK' /\ received' = received
      BY <3>1 DEF clientVars, ClientTypeOK
    <3> QED BY <3>1, <3>3, <3>4, <3>5, <3>6, <3>7 DEF StreamInv, Typed
  <2>2. ASSUME ServerAnswers PROVE StreamInv'
    <3>1. /\ member' = member /\ posted' = posted /\ link' = link /\ ragged' = ragged
          /\ strayed' = strayed /\ toServer' = toServer /\ toItems' = toItems /\ UNCHANGED clientVars
          /\ unanswered # << >> /\ unanswered' = Tail(unanswered)
      BY <2>2 DEF ServerAnswers, histories
    <3>2. Tail(unanswered) \in Seq(Logins) /\ Head(unanswered) \in Logins
      BY <3>1, HeadTailProperties
    <3>3. toClient' \in Seq(Nat) /\ approved' \subseteq Logins
      <4>1. /\ toClient' \in {toClient \o OkText, toClient \o ErrorText}
            /\ approved' \in {approved, approved \union {Head(unanswered)}}
        BY <2>2 DEF ServerAnswers
      <4>2. toClient \o OkText \in Seq(Nat) /\ toClient \o ErrorText \in Seq(Nat)
        BY AnswerTexts, ConcatProperties
      <4>3. toClient' \in Seq(Nat)
        BY <4>1, <4>2, Zenon
      <4> QED BY <3>2, <4>1, <4>3
    <3>4. ClientTypeOK' /\ received' = received
      BY <3>1 DEF clientVars, ClientTypeOK
    <3> QED BY <3>1, <3>2, <3>3, <3>4 DEF StreamInv, Typed
  <2>3. ASSUME ServerPosts PROVE StreamInv'
    <3>1. /\ unanswered' = unanswered /\ member' = member /\ approved' = approved /\ link' = link
          /\ ragged' = ragged /\ strayed' = strayed /\ toServer' = toServer /\ toItems' = toItems
          /\ UNCHANGED clientVars /\ posted < Len(RoomMessages) /\ posted' = posted + 1
          /\ toClient' = toClient \o Written[RoomMessages[posted']].bytes
      BY <2>3 DEF ServerPosts, histories
    <3>2. posted' \in 1 .. Len(RoomMessages) /\ posted' \in 0 .. Len(RoomMessages)
      BY <3>1
    <3>3. Written[RoomMessages[posted']].bytes \in Seq(Nat)
      BY <3>2, PostedProper, SendableWritten
    <3>4. toClient' \in Seq(Nat)
      BY <3>1, <3>3, ConcatProperties
    <3>5. ClientTypeOK' /\ received' = received
      BY <3>1 DEF clientVars, ClientTypeOK
    <3> QED BY <3>1, <3>2, <3>4, <3>5 DEF StreamInv, Typed
  <2>4. ASSUME ServerEnds PROVE StreamInv'
    <3>1. /\ UNCHANGED clientVars /\ UNCHANGED serverVars /\ UNCHANGED histories
          /\ toServer' = << >> /\ toItems' = << >> /\ link' \in {"open", "fin", "rst"}
          /\ toClient' \in {toClient, << >>}
      BY <2>4 DEF ServerEnds
    <3>2. Carries(toServer', toItems')
      BY <3>1, CarriesNothing
    <3>3. toClient' \in Seq(Nat)
      <4>1. << >> \in Seq(Nat)
        OBVIOUS
      <4> QED BY <3>1, <4>1, Zenon
    <3>4. ClientTypeOK' /\ received' = received
      BY <3>1 DEF clientVars, ClientTypeOK
    <3> QED BY <3>1, <3>2, <3>3, <3>4 DEF StreamInv, Typed, serverVars, histories
  <2> QED BY <1>3, <2>1, <2>2, <2>3, <2>4 DEF Server
<1>4. ASSUME UNCHANGED vars PROVE StreamInv'
  BY <1>4 DEF vars, clientVars, serverVars, histories, StreamInv, Typed, ClientTypeOK
<1> QED BY <1>1, <1>2, <1>3, <1>4 DEF Next

(* The streams, and the types of all variables.                            *)
THEOREM StreamInvariant == Spec => []StreamInv
<1>1. Init => StreamInv
  BY StreamInit
<1>2. StreamInv /\ [Next]_vars => StreamInv'
  BY StreamStep
<1> QED BY <1>1, <1>2, PTL DEF Spec

(* The type invariant of the client and the streams.                       *)
THEOREM ChatClientType == Spec => []TypeOK
<1>1. StreamInv => TypeOK
  BY DEF StreamInv, Typed, TypeOK, Carries
<1> QED BY <1>1, StreamInvariant, PTL

(* SendBuffer: no write passes the end of the array, however often it has  *)
(* to grow and however much longer than it a string is.                    *)
THEOREM BufferAlwaysHolds == Spec => []BufferHolds
<1>1. ASSUME StreamInv PROVE BufferHolds
  <2>1. toItems \in Seq(Item)
    BY <1>1 DEF StreamInv, Carries
  <2>2. ASSUME NEW k \in 1 .. Len(toItems)
        PROVE  Len(Written[toItems[k].message].bytes) <= Written[toItems[k].message].size
    BY <2>1, ItemLeft, SendableWritten
  <2> QED BY <2>2 DEF BufferHolds
<1> QED BY <1>1, StreamInvariant, PTL

-----------------------------------------------------------------------------
(* Reading a stream from its beginning.                                    *)

(* The items that n bytes cover.                                           *)
LEMMA CoveringFacts ==
  ASSUME NEW items \in Seq(Item), NEW n \in 1 .. UpTo(items, Len(items))
  PROVE  LET k == Covering(items, n)
         IN k \in 1 .. Len(items) /\ UpTo(items, k) >= n /\ UpTo(items, k - 1) < n
<1>1. /\ Len(items) \in Nat /\ \A k \in 0 .. Len(items) : UpTo(items, k) \in Nat
      /\ Len(items) \in 0 .. Len(items)
  BY LenProperties, UpToSteps
<1>2. n \in Nat /\ n - 1 \in Nat /\ UpTo(items, Len(items)) >= n
  BY <1>1
<1>3. PICK k \in 0 .. Len(items) :
        UpTo(items, k) <= n - 1 /\ (k = Len(items) \/ UpTo(items, k + 1) > n - 1)
  BY <1>2, UntakenPlace
<1>4. k # Len(items)
  BY <1>1, <1>2, <1>3
<1>5. k + 1 \in 1 .. Len(items) /\ (k + 1) - 1 = k /\ k + 1 \in 0 .. Len(items)
  BY <1>1, <1>4
<1>6. UpTo(items, k + 1) >= n /\ UpTo(items, (k + 1) - 1) < n
  BY <1>1, <1>2, <1>3, <1>4, <1>5
<1> QED BY <1>5, <1>6 DEF Covering

(* The bytes of the first item, when it is whole.                          *)
LEMMA FirstAgrees ==
  ASSUME NEW bytes, NEW items, Carries(bytes, items), items # << >>, Whole(items[1]),
         NEW n \in 1 .. Min({Len(bytes), BufLen})
  PROVE  LET m == items[1].message
             d == SubSeq(bytes, 1, n)
         IN /\ m \in Sendable /\ 1 \in 1 .. Len(items)
            /\ d \in Seq(Nat) /\ Len(d) = n /\ n \in Nat /\ n <= Len(bytes)
            /\ UpTo(items, 0) = 0 /\ UpTo(items, 1) = Len(Written[m].bytes)
            /\ Len(Written[m].bytes) <= n => Decode(d) = Spelled(m)
            /\ n < Len(Written[m].bytes) =>
                 /\ Decode(d) \in {EmptyLogin} \union Cuts(Spelled(m))
                 /\ m.type \in {"LOGIN", "JOIN", "LEAVE"} =>
                      Decode(d) \in {EmptyLogin, Read(m.type, << >>, << >>, << >>)}
<1> DEFINE m == items[1].message
           w == Written[m].bytes
           d == SubSeq(bytes, 1, n)
<1>1. items \in Seq(Item) /\ bytes \in Seq(Nat)
  BY DEF Carries
<1>2. 1 \in 1 .. Len(items) /\ 1 - 1 = 0
  <2>1. Len(items) \in Nat /\ Len(items) # 0
    BY <1>1, LenProperties, EmptySeq
  <2> QED BY <2>1
<1>3. m \in Sendable /\ UpTo(items, 0) = 0 /\ UpTo(items, 1) = Len(w)
  <2>1. m \in Sendable /\ UpTo(items, 1) = UpTo(items, 0) + items[1].left /\ items[1].left \in Nat
    BY <1>1, <1>2, ItemLeft
  <2>2. UpTo(items, 0) = 0
    BY <1>1, UpToSteps
  <2>3. items[1].left = Len(w)
    BY DEF Whole
  <2> HIDE DEF w
  <2> QED BY <2>1, <2>2, <2>3
<1>4. w = WriteMessage(m).bytes /\ w \in Seq(Nat) /\ Len(w) \in Nat /\ 2 * Len(w) <= Words
  BY <1>3, SendableWritten
<1>5. /\ n \in 1 .. Len(bytes) /\ n \in Nat /\ ByteBase * n <= Words /\ d \in Seq(Nat) /\ Len(d) = n
      /\ \A k \in 1 .. n : d[k] = bytes[k]
  BY <1>1, CutFacts
<1>6. Len(bytes) \in Nat /\ n <= Len(bytes)
  BY <1>1, <1>5, LenProperties
<1>7. ASSUME NEW k \in 1 .. Len(w), 0 + k <= Len(d) PROVE d[0 + k] = w[k]
  <2>1. k \in 1 .. n /\ 0 + k = k
    BY <1>4, <1>5, <1>7
  <2>2. items[1].left = Len(w) /\ Written[items[1].message].bytes = w
    BY DEF Whole
  <2>3. bytes[UpTo(items, 1 - 1) + k] = w[Len(w) - items[1].left + k]
    <3>1. k \in 1 .. items[1].left
      BY <2>2
    <3>2. AtPlace(bytes, items, 1, k)
      BY <1>2, <3>1, ContentPlace
    <3> QED BY <3>2, Zenon DEF AtPlace, w
  <2>4. Len(w) - Len(w) + k = k
    BY <1>4
  <2>5. bytes[k] = w[k]
    BY <1>2, <1>3, <2>1, <2>2, <2>3, <2>4
  <2> QED BY <1>5, <2>1, <2>5
<1>8. Agrees(d, 0, WriteMessage(m).bytes)
  <2> HIDE DEF d, w, m
  <2> QED BY <1>4, <1>7 DEF Agrees
<1>9. Proper(m)
  BY <1>3, SendableProper
<1>10. /\ Len(WriteMessage(m).bytes) <= Len(d) => Decode(d) = Spelled(m)
       /\ Len(d) < Len(WriteMessage(m).bytes) =>
            /\ Decode(d) \in {EmptyLogin} \union Cuts(Spelled(m))
            /\ m.type \in {"LOGIN", "JOIN", "LEAVE"} =>
                 Decode(d) \in {EmptyLogin, Read(m.type, << >>, << >>, << >>)}
  <2>1. ByteBase * Len(d) <= Words /\ 2 * Len(WriteMessage(m).bytes) <= Words
    BY <1>4, <1>5
  <2> HIDE DEF d, w, m
  <2> QED BY <1>5, <1>8, <1>9, <2>1, ReadBack
<1> HIDE DEF d, w
<1>11. /\ Len(w) <= n => Decode(d) = Spelled(m)
       /\ n < Len(w) =>
            /\ Decode(d) \in {EmptyLogin} \union Cuts(Spelled(m))
            /\ m.type \in {"LOGIN", "JOIN", "LEAVE"} =>
                 Decode(d) \in {EmptyLogin, Read(m.type, << >>, << >>, << >>)}
  BY <1>4, <1>5, <1>10
<1> QED BY <1>2, <1>3, <1>5, <1>6, <1>11 DEF d, w

LEMMA SpelledBlank ==
  ASSUME NEW t
  PROVE  Spelled(Blank(t)) = Read(t, << >>, << >>, << >>) /\ Blank(t).type = t
BY EmptyStrings DEF Spelled, Blank, Message, Read

LEMMA CutIsPrefix ==
  ASSUME NEW m \in Sendable, NEW d, d \in {EmptyLogin} \union Cuts(Spelled(m)),
         m.type \in {"LOGIN", "JOIN", "LEAVE"} =>
           d \in {EmptyLogin, Read(m.type, << >>, << >>, << >>)}
  PROVE  \E r \in ReadPrefix(m) : SameMessage(d, r)
<1>1. /\ m \in Messages /\ m.type \in {"LOGIN", "JOIN", "LEAVE", "SEND", "RECIEVE"}
      /\ m.type = "SEND" => m.name = ""
  <2>1. Proper(m)
    BY SendableProper
  <2> QED BY <2>1, TypeCodes DEF Proper, Messages
<1>2. Blank("LOGIN") \in ReadPrefix(m) /\ Blank(m.type) \in ReadPrefix(m)
  BY DEF ReadPrefix
<1>3. CASE d = EmptyLogin
  <2>1. EmptyLogin = Spelled(Blank("LOGIN")) /\ EmptyLogin.type = "LOGIN" /\ Blank("LOGIN").type = "LOGIN"
    BY SpelledBlank DEF EmptyLogin, Read
  <2>2. SameMessage(d, Blank("LOGIN"))
    BY <1>3, <2>1 DEF SameMessage
  <2> QED BY <1>2, <2>2
<1>4. ASSUME d = Read(m.type, << >>, << >>, << >>) PROVE \E r \in ReadPrefix(m) : SameMessage(d, r)
  <2>1. d.type = m.type /\ d = Spelled(Blank(m.type)) /\ Blank(m.type).type = m.type
    BY <1>4, SpelledBlank DEF Read
  <2>2. SameMessage(d, Blank(m.type))
    BY <2>1 DEF SameMessage
  <2> QED BY <1>2, <2>2
<1> DEFINE name == Bytes[m.name]
           room == Bytes[m.room]
           text == TextBytes(m.text)
<1>5. ASSUME d # EmptyLogin
      PROVE  d \in {Read(m.type, name, room, << >>), Read(m.type, name, << >>, << >>),
                    Read(m.type, << >>, << >>, << >>)}
  <2>1. Spelled(m) = Read(m.type, name, room, text)
    BY DEF Spelled, Read
  <2>2. d \in Cuts(Read(m.type, name, room, text))
    BY <1>5, <2>1
  <2> HIDE DEF name, room, text
  <2> QED BY <2>2, CutsOfRead
<1>6. CASE d # EmptyLogin /\ m.type \in {"LOGIN", "JOIN", "LEAVE"}
  BY <1>4, <1>6
<1>7. CASE d # EmptyLogin /\ m.type = "SEND"
  <2>1. name = << >>
    BY <1>1, <1>7, EmptyStrings
  <2>2. CASE d = Read(m.type, name, room, << >>)
    <3> DEFINE r == [m EXCEPT !.text = << >>]
    <3>1. r \in ReadPrefix(m)
      BY <1>7 DEF ReadPrefix
    <3>2. r.type = m.type /\ r.name = m.name /\ r.room = m.room /\ r.text = << >>
      BY <1>1 DEF Messages
    <3> HIDE DEF r
    <3>3. Spelled(r) = Read(m.type, name, room, << >>) /\ d.type = m.type
      BY <2>2, <3>2, EmptyStrings DEF Spelled, Read
    <3>4. SameMessage(d, r)
      BY <2>2, <3>2, <3>3 DEF SameMessage
    <3> QED BY <3>1, <3>4
  <2>3. CASE d = Read(m.type, << >>, << >>, << >>)
    BY <1>4, <2>3
  <2>4. d = Read(m.type, name, room, << >>) \/ d = Read(m.type, << >>, << >>, << >>)
    <3> HIDE DEF name, room
    <3> QED BY <1>5, <1>7, <2>1
  <2> QED BY <2>2, <2>3, <2>4
<1>8. CASE d # EmptyLogin /\ m.type = "RECIEVE"
  <2>1. d.type = "RECIEVE"
    <3> HIDE DEF name, room
    <3> QED BY <1>5, <1>8 DEF Read
  <2>2. SameMessage(d, Blank(m.type))
    BY <1>8, <2>1, SpelledBlank DEF SameMessage
  <2> QED BY <1>2, <2>2
<1> QED BY <1>1, <1>3, <1>6, <1>7, <1>8

(* What the first of the items is for ReadMessage.                         *)
LEMMA AbstractFirst ==
  ASSUME NEW items \in Seq(Item), items # << >>, Whole(items[1]), NEW k \in 1 .. Len(items)
  PROVE  LET s == SubSeq(Abstract(items), 1, k)
         IN Head(s) = items[1].message /\ Len(s) = k /\ items[1].message # Remainder
<1> DEFINE A == Abstract(items)
           S == Sendable \union {Remainder}
           s == SubSeq(A, 1, k)
<1>1. Len(items) \in Nat /\ 1 \in 1 .. Len(items)
  BY LenProperties
<1>2. ASSUME NEW j \in 1 .. Len(items) PROVE items[j].message \in S
  BY ItemLeft
<1>3. A \in [1 .. Len(items) -> S] /\ A[1] = items[1].message
  BY <1>1, <1>2 DEF Abstract
<1> HIDE DEF A, S
<1>4. \A j \in 1 .. Len(items) : A[j] \in S
  BY <1>3
<1>5. 1 \in Int /\ k \in Int /\ 1 <= k /\ k - 1 + 1 = k /\ \A j \in 1 .. k : j \in 1 .. Len(items)
  BY <1>1
<1>6. s \in Seq(S) /\ Len(s) = k /\ s[1] = A[1]
  <2>1. \A j \in 1 .. k : A[j] \in S
    BY <1>4, <1>5
  <2>2. /\ s \in Seq(S) /\ Len(s) = IF 1 <= k THEN k - 1 + 1 ELSE 0
        /\ \A i \in 1 .. k - 1 + 1 : s[i] = A[1 + i - 1]
    BY <1>5, <2>1, SubSeqProperties
  <2>3. 1 \in 1 .. k - 1 + 1 /\ 1 + 1 - 1 = 1
    BY <1>5
  <2>4. s[1] = A[1 + 1 - 1]
    BY <2>2, <2>3
  <2> HIDE DEF s
  <2> QED BY <1>5, <2>2, <2>3, <2>4
<1> HIDE DEF s
<1>7. Head(s) = s[1]
  BY <1>5, <1>6
<1>8. items[1].message # Remainder
  <2>1. items[1].message \in Messages
    BY <1>1, ItemLeft, SendableProper DEF Proper
  <2>2. items[1].message.type \in {"LOGIN", "JOIN", "LEAVE", "SEND", "RECIEVE"}
    BY <2>1, TypeCodes DEF Messages
  <2>3. Remainder.type = "REMAINDER"
    BY DEF Remainder, Message
  <2> QED BY <2>2, <2>3
<1> QED BY <1>3, <1>6, <1>7, <1>8 DEF s, A

(* Of the bytes of any recv that begins with a message, wherever it ends,  *)
(* readMessage makes what ChatProtocol says, on which the model of the     *)
(* chat server rests.                                                      *)
THEOREM WireAlwaysProtocol == Spec => []WireIsProtocol
<1>1. ASSUME StreamInv PROVE WireIsProtocol
  <2> SUFFICES ASSUME toItems # << >>, Whole(toItems[1]),
                      NEW n \in 1 .. Min({Len(toServer), BufLen})
               PROVE  LET k       == Covering(toItems, n)
                          results == ReadMessage(SubSeq(Abstract(toItems), 1, k),
                                                 UpTo(toItems, k) # n)
                      IN \E m \in results : SameMessage(Decode(SubSeq(toServer, 1, n)), m)
    BY DEF WireIsProtocol, ReadAsProtocol
  <2> DEFINE k == Covering(toItems, n)
             s == SubSeq(Abstract(toItems), 1, k)
             cut == UpTo(toItems, k) # n
             m == toItems[1].message
             w == Written[m].bytes
             d == Decode(SubSeq(toServer, 1, n))
  <2>1. Carries(toServer, toItems) /\ toItems \in Seq(Item) /\ Len(toServer) = UpTo(toItems, Len(toItems))
    BY <1>1 DEF StreamInv, Carries
  <2>2. /\ m \in Sendable /\ 1 \in 1 .. Len(toItems) /\ n \in Nat /\ n <= Len(toServer)
        /\ UpTo(toItems, 0) = 0 /\ UpTo(toItems, 1) = Len(w)
        /\ Len(w) <= n => d = Spelled(m)
        /\ n < Len(w) =>
             /\ d \in {EmptyLogin} \union Cuts(Spelled(m))
             /\ m.type \in {"LOGIN", "JOIN", "LEAVE"} =>
                  d \in {EmptyLogin, Read(m.type, << >>, << >>, << >>)}
    BY <2>1, FirstAgrees
  <2>3. k \in 1 .. Len(toItems) /\ UpTo(toItems, k) >= n /\ UpTo(toItems, k - 1) < n
    <3>1. n \in 1 .. UpTo(toItems, Len(toItems))
      BY <2>1, <2>2
    <3> QED BY <2>1, <3>1, CoveringFacts
  <2> HIDE DEF k
  <2>4. Head(s) = m /\ Len(s) = k /\ m # Remainder
    BY <2>1, <2>3, AbstractFirst
  <2>5. Len(w) \in Nat
    BY <2>2, SendableWritten
  <2> HIDE DEF s, d, m, w
  <2>6. CASE Len(w) <= n
    <3>1. ~ (k = 1 /\ cut)
      <4>1. ASSUME k = 1 PROVE UpTo(toItems, k) = n
        BY <2>2, <2>3, <2>5, <2>6, <4>1
      <4> QED BY <4>1
    <3>2. ReadMessage(s, cut) = {m}
      <4> HIDE DEF cut
      <4> QED BY <2>4, <3>1 DEF ReadMessage
    <3>3. d = Spelled(m)
      BY <2>2, <2>6
    <3>4. SameMessage(d, m)
      BY <3>3 DEF SameMessage, Spelled
    <3> QED BY <3>2, <3>4 DEF s, d, k
  <2>7. CASE n < Len(w)
    <3>1. k = 1
      <4> SUFFICES ASSUME k # 1 PROVE FALSE
        OBVIOUS
      <4>1. Len(toItems) \in Nat
        BY <2>1, LenProperties
      <4>2. 1 \in 0 .. Len(toItems) /\ k - 1 \in 1 .. Len(toItems)
        BY <2>3, <4>1
      <4>3. UpTo(toItems, 1) <= UpTo(toItems, k - 1) /\ UpTo(toItems, k - 1) \in Nat
        BY <2>1, <4>2, UpToMonotone
      <4> QED BY <2>2, <2>3, <2>5, <2>7, <4>3
    <3>2. cut
      BY <2>2, <2>5, <2>7, <3>1
    <3>3. ReadMessage(s, cut) = ReadPrefix(m)
      <4> HIDE DEF cut
      <4> QED BY <2>4, <3>1, <3>2 DEF ReadMessage
    <3>4. \E r \in ReadPrefix(m) : SameMessage(d, r)
      BY <2>2, <2>7, CutIsPrefix
    <3> QED BY <3>3, <3>4 DEF s, d, k
  <2> QED BY <2>2, <2>5, <2>6, <2>7
<1> QED BY <1>1, StreamInvariant, PTL

-----------------------------------------------------------------------------
(* The bytes of a login.                                                   *)

LoginBytes(l) == Written[LoginMessage(l)].bytes

(* No such byte is the number of a JoinMessage.                            *)
Plain == {b \in Nat : b # 1 /\ b < ByteBase}

LEMMA SmallIntBytes ==
  ASSUME NEW x \in Plain, 0 \in Plain
  PROVE  IntBytes(x) \in Seq(Plain) /\ Len(IntBytes(x)) = IntSize
<1>1. PICK f \in [Nat -> Nat] :
        /\ f[0] = x /\ \A k \in Nat : f[k + 1] = f[k] \div ByteBase
        /\ IntBytes(x) = [k \in 1 .. IntSize |-> f[k - 1] % ByteBase]
  BY IntBytesShifted DEF Plain
<1>2. x \in Nat /\ x < ByteBase /\ ByteBase \in Nat /\ 2 <= ByteBase /\ IntSize \in Nat
  BY Sizes DEF Plain
<1> DEFINE I == {k \in Nat : f[k] \in {0, x}}
<1>3. I = Nat
  <2>1. 0 \in I
    BY <1>1
  <2>2. ASSUME NEW k \in I PROVE k + 1 \in I
    <3>1. 0 \div ByteBase = 0 /\ x \div ByteBase = 0
      BY <1>2
    <3>2. f[k + 1] = f[k] \div ByteBase
      BY <1>1
    <3> QED BY <3>1, <3>2
  <2>3. I \subseteq Nat
    OBVIOUS
  <2> HIDE DEF I
  <2> QED BY <2>1, <2>2, <2>3, SetInduction
<1>4. ASSUME NEW k \in 1 .. IntSize PROVE f[k - 1] % ByteBase \in Plain
  <2>1. k - 1 \in Nat
    BY <1>2
  <2>2. f[k - 1] \in {0, x}
    BY <1>3, <2>1
  <2>3. 0 % ByteBase = 0 /\ x % ByteBase = x
    BY <1>2
  <2> QED BY <2>2, <2>3
<1>5. IntBytes(x) \in [1 .. IntSize -> Plain]
  <2> HIDE DEF I
  <2> QED BY <1>1, <1>4
<1> QED BY <1>2, <1>5, FunctionIsSeq

LEMMA LoginBytesFacts ==
  ASSUME NEW l \in Logins
  PROVE  /\ LoginBytes(l) \in Seq(Nat) /\ LoginBytes(l) \in Seq(Plain)
         /\ LoginBytes(l) = WriteMessage(LoginMessage(l)).bytes
         /\ Len(LoginBytes(l)) \in Nat /\ 1 <= Len(LoginBytes(l))
         /\ 2 * Len(LoginBytes(l)) <= Words /\ 3 * IntSize < Words
         /\ Bytes[l] # << >>
         /\ \A k \in 1 .. Len(LoginBytes(l)) : 3 * IntSize < k => IsLetter(LoginBytes(l)[k])
<1> DEFINE s == Bytes[l]
           W == LoginBytes(l)
           length == 3 * IntSize + Len(s)
           head == IntBytes(length) \o IntBytes(0)
           field == IntBytes(Len(s)) \o s
<1>1. l \in DOMAIN Bytes /\ s \in Seq(Nat) /\ Len(s) > 1 /\ length < ByteBase
      /\ \A k \in 1 .. Len(s) : s[k] > 1
  BY LoginAssumption, TypeCodes, BytesType
<1>2. Letters(s)
  BY <1>1, BytesLetters
<1>3. Len(s) \in Nat /\ IntSize \in Nat /\ 1 <= IntSize /\ ByteBase \in Nat /\ 2 <= ByteBase
  BY <1>1, LenProperties, Sizes
<1> HIDE DEF s
<1>4. length \in Plain /\ Len(s) \in Plain /\ 0 \in Plain
  BY <1>1, <1>3 DEF Plain
<1>5. s \in Seq(Plain)
  <2>1. ASSUME NEW k \in 1 .. Len(s) PROVE s[k] \in Plain
    <3>1. s[k] \in Nat /\ s[k] > 1
      BY <1>1, ElementOfSeq
    <3>2. 2 * s[k] < ByteBase
      BY <1>2 DEF Letters, IsLetter
    <3> QED BY <1>3, <3>1, <3>2 DEF Plain
  <2>2. s \in [1 .. Len(s) -> Plain]
    <3>1. s \in [1 .. Len(s) -> Nat]
      BY <1>1, LenProperties
    <3> QED BY <2>1, <3>1
  <2> QED BY <1>3, <2>2, FunctionIsSeq
<1>6. /\ LoginMessage(l) \in Sendable /\ LoginMessage(l) \in Messages
      /\ LoginMessage(l).type = "LOGIN" /\ LoginMessage(l).name = l
  BY LoginProper DEF Proper, LoginMessage, Message
<1>7. /\ W = WriteMessage(LoginMessage(l)).bytes /\ W \in Seq(Nat) /\ Len(W) \in Nat /\ 1 <= Len(W)
      /\ 2 * Len(W) <= Words /\ 3 * IntSize < Words
  BY <1>6, SendableWritten DEF LoginBytes
<1>8. W = head \o field
  <2>1. WriteMessage(LoginMessage(l)) = OneField(0, s)
    BY <1>6, WriteCases DEF s
  <2>2. OneField(0, s).bytes = HeaderBytes(length, 0) \o FieldBytes(s)
    <3>1. 0 \in Nat
      OBVIOUS
    <3> QED BY <1>1, <3>1, OneFieldHolds
  <2> QED BY <1>7, <2>1, <2>2 DEF HeaderBytes, FieldBytes
<1> HIDE DEF W
<1>9. /\ IntBytes(length) \in Seq(Plain) /\ Len(IntBytes(length)) = IntSize
      /\ IntBytes(0) \in Seq(Plain) /\ Len(IntBytes(0)) = IntSize
      /\ IntBytes(Len(s)) \in Seq(Plain) /\ Len(IntBytes(Len(s))) = IntSize
  <2> HIDE DEF length
  <2> QED BY <1>4, SmallIntBytes
<1>10. /\ head \in Seq(Plain) /\ Len(head) = 2 * IntSize
       /\ field \in Seq(Plain) /\ Len(field) = IntSize + Len(s)
       /\ \A k \in IntSize + 1 .. IntSize + Len(s) : field[k] = s[k - IntSize]
  <2>1. head \in Seq(Plain) /\ Len(head) = IntSize + IntSize
    <3> HIDE DEF length
    <3> QED BY <1>9, ConcatProperties, ZenonT(30)
  <2>2. field \in Seq(Plain) /\ Len(field) = IntSize + Len(s)
    BY <1>5, <1>9, ConcatProperties
  <2>3. \A k \in IntSize + 1 .. IntSize + Len(s) : field[k] = s[k - IntSize]
    BY <1>5, <1>9, ConcatProperties
  <2>4. IntSize + IntSize = 2 * IntSize
    BY <1>3
  <2> HIDE DEF head, field
  <2> QED BY <2>1, <2>2, <2>3, <2>4
<1> HIDE DEF head, field, length
<1>11. /\ W \in Seq(Plain) /\ Len(W) = 2 * IntSize + (IntSize + Len(s))
       /\ \A k \in 2 * IntSize + 1 .. 2 * IntSize + (IntSize + Len(s)) : W[k] = field[k - 2 * IntSize]
  <2>1. /\ head \o field \in Seq(Plain) /\ Len(head \o field) = Len(head) + Len(field)
        /\ \A k \in Len(head) + 1 .. Len(head) + Len(field) :
             (head \o field)[k] = field[k - Len(head)]
    BY <1>10, ConcatProperties
  <2>2. Len(head) = 2 * IntSize /\ Len(field) = IntSize + Len(s)
    BY <1>10
  <2> QED BY <1>8, <2>1, <2>2, Zenon
<1>12. ASSUME NEW k \in 1 .. Len(W), 3 * IntSize < k PROVE IsLetter(W[k])
  <2>1. PICK i \in Nat, j \in Nat : i = IntSize /\ j = Len(s)
    BY <1>3
  <2>2. k \in 1 .. 2 * i + (i + j) /\ 3 * i < k
    BY <1>11, <1>12, <2>1
  <2>3. /\ k \in 2 * i + 1 .. 2 * i + (i + j) /\ k - 2 * i \in i + 1 .. i + j
        /\ (k - 2 * i) - i \in 1 .. j
    BY <2>2
  <2>4. W[k] = field[k - 2 * i] /\ field[k - 2 * i] = s[(k - 2 * i) - i]
    BY <1>10, <1>11, <2>1, <2>3
  <2>5. IsLetter(s[(k - 2 * i) - i])
    BY <1>2, <2>1, <2>3 DEF Letters
  <2> QED BY <2>4, <2>5
<1>13. s # << >>
  BY <1>1
<1> QED BY <1>7, <1>11, <1>12, <1>13 DEF W, s

(* The rest of a login: only the whole of it has the name.                 *)
LEMMA LoginRead ==
  ASSUME NEW l \in Logins, NEW p \in 0 .. Len(LoginBytes(l)), NEW bytes,
         bytes = SubSeq(LoginBytes(l), p + 1, Len(LoginBytes(l))),
         NEW n \in 1 .. Min({Len(bytes), BufLen})
  PROVE  LET W == LoginBytes(l)
             m == Decode(SubSeq(bytes, 1, n))
             rest == SubSeq(bytes, n + 1, Len(bytes))
         IN /\ p + n \in 0 .. Len(W) /\ rest = SubSeq(W, (p + n) + 1, Len(W))
            /\ \/ rest = << >> /\ m.type = "LOGIN" /\ m.name = Bytes[l]
               \/ m.type # "LOGIN" \/ m.name = << >>
<1> DEFINE W == LoginBytes(l)
           d == SubSeq(bytes, 1, n)
           m == Decode(d)
           rest == SubSeq(bytes, n + 1, Len(bytes))
<1>1. /\ W \in Seq(Nat) /\ W \in Seq(Plain) /\ W = WriteMessage(LoginMessage(l)).bytes
      /\ Len(W) \in Nat /\ 1 <= Len(W) /\ 2 * Len(W) <= Words /\ 3 * IntSize < Words
      /\ \A k \in 1 .. Len(W) : 3 * IntSize < k => IsLetter(W[k])
  BY LoginBytesFacts
<1>2. p \in Nat /\ p <= Len(W) /\ p \in 0 .. Len(W) /\ bytes = SubSeq(W, p + 1, Len(W))
  BY <1>1
<1> HIDE DEF W
<1>3. /\ bytes \in Seq(Nat) /\ Len(bytes) = Len(W) - p
      /\ \A k \in 1 .. Len(W) - p : bytes[k] = W[p + k]
  BY <1>1, <1>2, SuffixFacts, SMTT(30)
<1>4. /\ n \in 1 .. Len(bytes) /\ n \in Nat /\ ByteBase * n <= Words
      /\ d \in Seq(Nat) /\ Len(d) = n /\ \A k \in 1 .. n : d[k] = bytes[k]
      /\ rest \in Seq(Nat) /\ Len(rest) = Len(bytes) - n
      /\ \A k \in 1 .. Len(bytes) - n : rest[k] = bytes[n + k]
  BY <1>3, CutFacts
<1> HIDE DEF d, rest
<1>5. p + n \in 0 .. Len(W) /\ p + n \in Nat /\ n <= Len(W) - p
  BY <1>1, <1>2, <1>3, <1>4
<1>6. rest = SubSeq(W, (p + n) + 1, Len(W))
  <2> DEFINE q == p + n
             t == SubSeq(W, q + 1, Len(W))
  <2>1. t \in Seq(Nat) /\ Len(t) = Len(W) - q /\ \A k \in 1 .. Len(W) - q : t[k] = W[q + k]
    <3>1. q \in Nat /\ q <= Len(W)
      BY <1>1, <1>5
    <3> HIDE DEF q
    <3> QED BY <1>1, <3>1, SuffixFacts
  <2>2. Len(rest) = Len(W) - q /\ Len(bytes) - n = Len(W) - q
    BY <1>1, <1>2, <1>3, <1>4, <1>5
  <2>3. ASSUME NEW k \in 1 .. Len(W) - q PROVE rest[k] = t[k]
    <3>1. k \in 1 .. Len(bytes) - n /\ n + k \in 1 .. Len(W) - p /\ p + (n + k) = q + k
      BY <1>1, <1>2, <1>3, <1>4, <1>5, <2>2, SMTT(30)
    <3>2. rest[k] = bytes[n + k] /\ bytes[n + k] = W[p + (n + k)]
      BY <1>3, <1>4, <3>1
    <3> HIDE DEF q, t
    <3> QED BY <2>1, <3>1, <3>2
  <2> HIDE DEF t
  <2>4. Len(rest) = Len(t)
    BY <2>1, <2>2
  <2>5. rest = t
    <3> HIDE DEF q
    <3>1. \A k \in 1 .. Len(rest) : rest[k] = t[k]
      BY <2>2, <2>3
    <3> QED BY <1>4, <2>1, <2>4, <3>1, SeqEqual
  <2> QED BY <2>5 DEF t
<1>7. ASSUME NEW k \in 1 .. n PROVE d[k] = W[p + k] /\ p + k \in 1 .. Len(W)
  <2>1. PICK a \in Nat : a = Len(W)
    BY <1>1
  <2>2. p \in Nat /\ p <= a /\ n \in Nat /\ n <= a - p /\ k \in 1 .. n
    BY <1>2, <1>4, <1>5, <2>1
  <2>3. k \in 1 .. a - p /\ p + k \in 1 .. a
    BY <2>2
  <2> QED BY <1>3, <1>4, <2>1, <2>3
<1>8. ASSUME p = 0
      PROVE  \/ rest = << >> /\ m.type = "LOGIN" /\ m.name = Bytes[l]
             \/ m.type # "LOGIN" \/ m.name = << >>
  <2>1. ASSUME NEW k \in 1 .. Len(W), 0 + k <= Len(d) PROVE d[0 + k] = W[k]
    <3>1. k \in 1 .. n /\ 0 + k = k /\ p + k = k
      BY <1>1, <1>4, <1>8, <2>1
    <3> QED BY <1>7, <3>1
  <2>2. Agrees(d, 0, WriteMessage(LoginMessage(l)).bytes)
    BY <1>1, <2>1 DEF Agrees
  <2>3. /\ Proper(LoginMessage(l)) /\ LoginMessage(l).type = "LOGIN"
        /\ Spelled(LoginMessage(l)).type = "LOGIN" /\ Spelled(LoginMessage(l)).name = Bytes[l]
    BY LoginProper DEF LoginMessage, Message, Spelled
  <2>4. ByteBase * Len(d) <= Words /\ 2 * Len(WriteMessage(LoginMessage(l)).bytes) <= Words
    BY <1>1, <1>4
  <2>5. /\ Len(W) <= n => m = Spelled(LoginMessage(l))
        /\ n < Len(W) => m \in {EmptyLogin, Read("LOGIN", << >>, << >>, << >>)}
    BY <1>1, <1>4, <2>2, <2>3, <2>4, ReadBack
  <2>6. CASE Len(W) <= n
    <3>1. Len(rest) = 0
      BY <1>1, <1>2, <1>3, <1>4, <1>5, <1>8, <2>6
    <3>2. rest = << >>
      BY <1>4, <3>1, EmptySeq
    <3> QED BY <2>3, <2>5, <2>6, <3>2
  <2>7. CASE n < Len(W)
    <3>1. EmptyLogin.name = << >> /\ Read("LOGIN", << >>, << >>, << >>).name = << >>
      BY DEF EmptyLogin, Read
    <3> QED BY <2>5, <2>7, <3>1
  <2> QED BY <1>1, <1>4, <2>6, <2>7
<1>9. ASSUME p # 0 PROVE m.type # "LOGIN" \/ m.name = << >>
  <2>1. ASSUME NEW k \in 1 .. Len(d) PROVE d[k] < ByteBase
    <3>1. k \in 1 .. n
      BY <1>4, <2>1
    <3>2. W[p + k] \in Plain
      BY <1>1, <1>7, <3>1, ElementOfSeq
    <3> QED BY <1>7, <3>1, <3>2 DEF Plain
  <2>2. ASSUME 3 * IntSize <= Len(d) PROVE IsLetter(d[3 * IntSize])
    <3>1. PICK i \in Nat : i = IntSize /\ 1 <= i
      BY Sizes
    <3>2. 3 * i \in 1 .. n /\ 3 * i < p + 3 * i
      BY <1>2, <1>4, <1>9, <2>2, <3>1
    <3>3. d[3 * i] = W[p + 3 * i] /\ p + 3 * i \in 1 .. Len(W)
      BY <1>7, <3>2
    <3>4. IsLetter(W[p + 3 * i])
      BY <1>1, <3>1, <3>2, <3>3
    <3> QED BY <3>1, <3>3, <3>4
  <2>3. ByteBase * Len(d) <= Words
    BY <1>4
  <2> QED BY <1>1, <1>4, <2>1, <2>2, <2>3, NoNameRead
<1> QED BY <1>5, <1>6, <1>8, <1>9 DEF W, d, rest

-----------------------------------------------------------------------------
(* In loginLoop: no JOIN is on its way and the server has seen none, "ok"  *)
(* is nowhere in what it has sent unless a login was approved, and the     *)
(* bytes on their way are of one login or of one answer.                   *)

InLogin == pc \in {"option", "await"}

NoJoin ==
  InLogin => member = FALSE /\ posted = 0 /\ received = << >> /\ toServer \in Seq(Plain)

OkAt(s, k) == s[k] = OkText[1] /\ s[k + 1] = OkText[2]
NoOk ==
  InLogin /\ approved = {} =>
    /\ \A k \in 1 .. Len(toClient) - 1 : ~ OkAt(toClient, k)
    /\ toClient # << >> => toClient[Len(toClient)] = ErrorText[Len(ErrorText)]

SentLogin ==
  /\ unanswered = << >> /\ toClient = << >>
  /\ \E p \in 0 .. Len(LoginBytes(login)) :
       toServer = SubSeq(LoginBytes(login), p + 1, Len(LoginBytes(login)))
ReadLogin == toServer = << >> /\ toClient = << >> /\ unanswered = << login >>
Answered  == toServer = << >> /\ unanswered = << >> /\ toClient # << >>

AskedAgain == toClient = << >> /\ (link = "open" => toServer = << >> /\ unanswered = << >>)
Awaited ==
  /\ login \in Logins /\ toClient \in {<< >>, OkText, ErrorText}
  /\ toClient = OkText => login \in approved
  /\ link = "open" => SentLogin \/ ReadLogin \/ Answered
OneLogin ==
  ~ ragged => (pc = "option" => AskedAgain) /\ (pc = "await" => Awaited)

LoginInv == NoJoin /\ NoOk /\ OneLogin /\ EntersApproved

LEMMA LoginInit ==
  ASSUME Init
  PROVE  LoginInv
<1>1. /\ toServer = << >> /\ pc = "option" /\ received = << >> /\ link = "open" /\ toClient = << >>
      /\ unanswered = << >> /\ member = FALSE /\ approved = {} /\ posted = 0
  BY DEF Init
<1>2. << >> \in Seq(Plain)
  OBVIOUS
<1>3. NoJoin
  BY <1>1, <1>2 DEF NoJoin
<1>4. NoOk
  <2>1. 1 .. Len(<< >>) - 1 = {}
    OBVIOUS
  <2> QED BY <1>1, <2>1 DEF NoOk
<1>5. OneLogin
  BY <1>1 DEF OneLogin, AskedAgain
<1>6. EntersApproved
  BY <1>1 DEF EntersApproved, Receiving
<1> QED BY <1>3, <1>4, <1>5, <1>6 DEF LoginInv

(* Nothing the server reads is a JOIN.                                     *)
LEMMA PlainRead ==
  ASSUME StreamInv, toServer \in Seq(Plain), toServer # << >>,
         NEW n \in 1 .. Min({Len(toServer), BufLen})
  PROVE  /\ Decode(SubSeq(toServer, 1, n)).type # "JOIN"
         /\ SubSeq(toServer, n + 1, Len(toServer)) \in Seq(Plain)
<1> DEFINE d == SubSeq(toServer, 1, n)
<1>1. toServer \in Seq(Nat) /\ toItems \in Seq(Item) /\ Len(toServer) = UpTo(toItems, Len(toItems))
  BY DEF StreamInv, Carries
<1>2. toItems # << >>
  <2> SUFFICES ASSUME toItems = << >> PROVE FALSE
    OBVIOUS
  <2>1. Len(toItems) = 0 /\ UpTo(toItems, 0) = 0
    BY <1>1, UpToSteps
  <2>2. Len(toServer) = 0
    BY <1>1, <2>1
  <2> QED BY <1>1, <2>2, EmptySeq
<1>3. 3 * IntSize <= Words
  <2>1. 1 \in 1 .. Len(toItems)
    <3>1. Len(toItems) \in Nat /\ Len(toItems) # 0
      BY <1>1, <1>2, LenProperties, EmptySeq
    <3> QED BY <3>1
  <2>2. toItems[1].message \in Sendable
    BY <1>1, <2>1, ItemLeft
  <2>3. 3 * IntSize < Words
    BY <2>2, SendableWritten
  <2>4. 3 * IntSize \in Nat /\ Words \in Nat
    BY Sizes, WordsType
  <2> QED BY <2>3, <2>4
<1>4. /\ n \in 1 .. Len(toServer) /\ n \in Nat /\ ByteBase * n <= Words /\ d \in Seq(Nat) /\ Len(d) = n
      /\ \A k \in 1 .. n : d[k] = toServer[k]
  BY <1>1, CutFacts
<1> HIDE DEF d
<1>5. Len(toServer) \in Nat /\ n <= Len(toServer)
  BY <1>1, <1>4, LenProperties
<1>6. ASSUME NEW k \in 1 .. Len(d) PROVE d[k] # 1
  <2>1. k \in 1 .. n /\ k \in 1 .. Len(toServer)
    BY <1>4, <1>5, <1>6
  <2>2. toServer[k] \in Plain
    BY <2>1, ElementOfSeq
  <2> QED BY <1>4, <2>1, <2>2 DEF Plain
<1>7. Decode(d).type # "JOIN"
  <2>1. ByteBase * Len(d) <= Words
    BY <1>4
  <2> QED BY <1>3, <1>4, <1>6, <2>1, NoJoinRead
<1>8. SubSeq(toServer, n + 1, Len(toServer)) \in Seq(Plain)
  BY <1>4, <1>5, SuffixFacts
<1> QED BY <1>7, <1>8 DEF d

(* An answer follows what has been sent before.                            *)
LEMMA ErrorFollows ==
  ASSUME NEW s \in Seq(Nat), \A k \in 1 .. Len(s) - 1 : ~ OkAt(s, k),
         s # << >> => s[Len(s)] = ErrorText[Len(ErrorText)]
  PROVE  LET t == s \o ErrorText
         IN /\ \A k \in 1 .. Len(t) - 1 : ~ OkAt(t, k)
            /\ t[Len(t)] = ErrorText[Len(ErrorText)]
<1> DEFINE e == ErrorText
           t == s \o e
           ee == e \o e
<1>1. OkText \in Seq(Nat) /\ Len(OkText) = 2 /\ e \in Seq(Nat) /\ Len(e) \in Nat /\ 2 <= Len(e)
  BY AnswerTexts
<1>2. \A k \in 1 .. 2 * Len(e) - 1 : SubSeq(ee, k, k + 1) # OkText
  BY AnswerAssumption
<1> HIDE DEF e
<1>3. Len(s) \in Nat
  BY LenProperties
<1>4. /\ t \in Seq(Nat) /\ Len(t) = Len(s) + Len(e)
      /\ \A k \in 1 .. Len(s) : t[k] = s[k]
      /\ \A k \in Len(s) + 1 .. Len(s) + Len(e) : t[k] = e[k - Len(s)]
  BY <1>1, ConcatProperties
<1>5. /\ ee \in Seq(Nat) /\ Len(ee) = Len(e) + Len(e)
      /\ \A k \in 1 .. Len(e) : ee[k] = e[k]
      /\ \A k \in Len(e) + 1 .. Len(e) + Len(e) : ee[k] = e[k - Len(e)]
  BY <1>1, ConcatProperties
<1> HIDE DEF t, ee
<1>6. ASSUME NEW k \in 1 .. 2 * Len(e) - 1 PROVE ~ OkAt(ee, k)
  <2> SUFFICES ASSUME OkAt(ee, k) PROVE FALSE
    OBVIOUS
  <2>1. k \in 1 .. Len(ee) /\ k + 1 \in 1 .. Len(ee) /\ k \in Int /\ k + 1 \in Int /\ (k + 1) - k + 1 = 2
        /\ k <= k + 1 /\ \A i \in k .. k + 1 : i \in 1 .. Len(ee)
    <3>1. PICK b \in Nat : b = Len(e) /\ b + b = Len(ee)
      BY <1>1, <1>5
    <3>2. k \in 1 .. 2 * b - 1
      BY <3>1
    <3>3. /\ k \in 1 .. b + b /\ k + 1 \in 1 .. b + b /\ k \in Int /\ k + 1 \in Int
          /\ (k + 1) - k + 1 = 2 /\ k <= k + 1 /\ \A i \in k .. k + 1 : i \in 1 .. b + b
      BY <3>2
    <3> QED BY <3>1, <3>3
  <2>2. \A i \in k .. k + 1 : ee[i] \in Nat
    BY <1>5, <2>1, ElementOfSeq
  <2> DEFINE pair == SubSeq(ee, k, k + 1)
  <2>3. /\ pair \in Seq(Nat) /\ Len(pair) = IF k <= k + 1 THEN (k + 1) - k + 1 ELSE 0
        /\ \A i \in 1 .. (k + 1) - k + 1 : pair[i] = ee[k + i - 1]
    <3>1. \A a \in Int, b \in Int :
            (\A i \in a .. b : ee[i] \in Nat) =>
              /\ SubSeq(ee, a, b) \in Seq(Nat) /\ Len(SubSeq(ee, a, b)) = IF a <= b THEN b - a + 1 ELSE 0
              /\ \A i \in 1 .. b - a + 1 : SubSeq(ee, a, b)[i] = ee[a + i - 1]
      BY SubSeqProperties
    <3> QED BY <2>1, <2>2, <3>1, Zenon
  <2> HIDE DEF pair
  <2>4. Len(pair) = 2 /\ pair[1] = ee[k] /\ pair[2] = ee[k + 1]
    <3>1. 1 \in 1 .. 2 /\ 2 \in 1 .. 2 /\ k + 1 - 1 = k /\ k + 2 - 1 = k + 1
      OBVIOUS
    <3> QED BY <2>1, <2>3, <3>1
  <2>5. pair[1] = OkText[1] /\ pair[2] = OkText[2]
    BY <2>4 DEF OkAt
  <2>6. \A i \in 1 .. Len(pair) : pair[i] = OkText[i]
    BY <2>4, <2>5
  <2>7. pair = OkText
    BY <1>1, <2>3, <2>4, <2>6, SeqEqual
  <2> QED BY <1>2, <2>7 DEF pair, ee
<1>7. ASSUME NEW k \in 1 .. Len(t) - 1 PROVE ~ OkAt(t, k)
  <2>1. PICK a \in Nat, b \in Nat : a = Len(s) /\ b = Len(e) /\ 2 <= b /\ Len(t) = a + b
    BY <1>1, <1>3, <1>4
  <2>2. k \in Nat /\ 1 <= k /\ k <= a + b - 1
    BY <2>1
  <2>3. CASE k + 1 <= a
    <3>1. k \in 1 .. a /\ k + 1 \in 1 .. a /\ k \in 1 .. a - 1
      BY <2>2, <2>3
    <3>2. t[k] = s[k] /\ t[k + 1] = s[k + 1] /\ ~ OkAt(s, k)
      BY <1>4, <2>1, <3>1
    <3> QED BY <3>2 DEF OkAt
  <2>4. CASE k = a
    <3>1. k \in 1 .. a /\ k + 1 \in a + 1 .. a + b /\ (k + 1) - a = 1 /\ 1 <= a
      BY <2>1, <2>2, <2>4
    <3>2. t[k] = s[a] /\ t[k + 1] = e[1]
      BY <1>4, <2>1, <2>4, <3>1
    <3>3. s # << >>
      BY <2>1, <3>1
    <3>4. s[a] = e[b]
      BY <2>1, <3>3 DEF e
    <3>5. /\ b \in 1 .. b /\ b + 1 \in b + 1 .. b + b /\ (b + 1) - b = 1 /\ b \in 1 .. 2 * b - 1
      BY <2>1
    <3>6. ee[b] = e[b] /\ ee[b + 1] = e[1] /\ ~ OkAt(ee, b)
      BY <1>5, <1>6, <2>1, <3>5
    <3> QED BY <3>2, <3>4, <3>6 DEF OkAt
  <2>5. CASE a < k
    <3>1. /\ k \in a + 1 .. a + b /\ k + 1 \in a + 1 .. a + b /\ k - a \in 1 .. b
          /\ (k + 1) - a = (k - a) + 1 /\ (k - a) + 1 \in 1 .. b /\ k - a \in 1 .. 2 * b - 1
      BY <2>2, <2>5
    <3>2. t[k] = e[k - a] /\ t[k + 1] = e[(k - a) + 1]
      BY <1>4, <2>1, <3>1
    <3>3. ee[k - a] = e[k - a] /\ ee[(k - a) + 1] = e[(k - a) + 1] /\ ~ OkAt(ee, k - a)
      BY <1>5, <1>6, <2>1, <3>1
    <3> QED BY <3>2, <3>3 DEF OkAt
  <2> QED BY <2>2, <2>3, <2>4, <2>5
<1>8. t[Len(t)] = e[Len(e)]
  <2>1. Len(t) \in Len(s) + 1 .. Len(s) + Len(e) /\ Len(t) - Len(s) = Len(e)
    BY <1>1, <1>3, <1>4
  <2> QED BY <1>4, <2>1
<1> QED BY <1>7, <1>8 DEF t, e

LEMMA OkIsNone ==
  /\ OkText # << >> /\ ErrorText # << >> /\ OkText # ErrorText
  /\ OkAt(OkText, 1)
<1>1. OkText # << >> /\ ErrorText # << >>
  <2>1. Len(OkText) # 0 /\ Len(ErrorText) # 0
    BY AnswerTexts
  <2> QED BY <2>1
<1>2. OkText # ErrorText
  <2> SUFFICES ASSUME OkText = ErrorText PROVE FALSE
    OBVIOUS
  <2>1. 1 \in 1 .. 2 * Len(ErrorText) - 1 /\ 1 + 1 = 2
    BY AnswerTexts
  <2>2. SubSeq(ErrorText \o ErrorText, 1, 2) # OkText
    BY <2>1, AnswerAssumption
  <2>3. SubSeq(ErrorText \o ErrorText, 1, 2) = ErrorText
    <3>1. Len(ErrorText) = 2 /\ ErrorText \in Seq(Nat)
      BY AnswerTexts
    <3>2. SubSeq(ErrorText \o ErrorText, 1, Len(ErrorText)) = ErrorText
      BY <3>1, SubSeqOfConcat1, SMTT(30)
    <3> QED BY <3>1, <3>2
  <2> QED BY <2>2, <2>3
<1> QED BY <1>1, <1>2 DEF OkAt

(* The recv of loginLoop: unless it returns a part, it returns an answer.  *)
LEMMA AnswerTaken ==
  ASSUME toClient \in {OkText, ErrorText}, NEW n \in RecvLengths,
         Recv(n) \in {OkText, ErrorText}
  PROVE  Recv(n) = toClient /\ SubSeq(toClient, n + 1, Len(toClient)) = << >>
<1> DEFINE s == toClient
           d == Recv(n)
<1>1. OkText \in Seq(Nat) /\ Len(OkText) = 2 /\ ErrorText \in Seq(Nat) /\ 2 <= Len(ErrorText)
      /\ Len(ErrorText) \in Nat
  BY AnswerTexts
<1>2. s \in Seq(Nat) /\ Len(s) \in Nat /\ 2 <= Len(s)
  <2>1. 2 <= Len(OkText) /\ Len(OkText) \in Nat
    BY <1>1
  <2> QED BY <1>1, <2>1, Zenon
<1>3. n \in 1 .. Min({Len(s), BufLen})
  BY DEF RecvLengths
<1>4. /\ n \in 1 .. Len(s) /\ n \in Nat /\ d \in Seq(Nat) /\ Len(d) = n
      /\ \A k \in 1 .. n : d[k] = s[k]
      /\ SubSeq(s, n + 1, Len(s)) \in Seq(Nat) /\ Len(SubSeq(s, n + 1, Len(s))) = Len(s) - n
  BY <1>2, <1>3, CutFacts DEF Recv
<1> HIDE DEF d
<1>5. n = Len(s)
  <2>1. CASE s = OkText
    <3>1. 2 <= n
      <4>1. d = OkText \/ d = ErrorText
        BY DEF d
      <4>2. 2 <= Len(OkText)
        BY <1>1
      <4> QED BY <1>1, <1>4, <4>1, <4>2, Zenon
    <3> QED BY <1>1, <1>4, <2>1, <3>1, SMTT(30)
  <2>2. CASE s = ErrorText /\ d = ErrorText
    BY <1>4, <2>2
  <2>3. CASE s = ErrorText /\ d = OkText
    <3>1. n = 2 /\ d[1] = OkText[1] /\ d[2] = OkText[2]
      BY <1>1, <1>4, <2>3
    <3>2. s[1] = OkText[1] /\ s[2] = OkText[2]
      BY <1>4, <3>1
    <3>3. OkAt(ErrorText, 1)
      BY <2>3, <3>2 DEF OkAt
    <3>4. FALSE
      <4>1. << >> \in Seq(Nat) /\ Len(<< >>) = 0 /\ 1 .. Len(<< >>) - 1 = {}
        OBVIOUS
      <4>2. \A k \in 1 .. Len(<< >> \o ErrorText) - 1 : ~ OkAt(<< >> \o ErrorText, k)
        BY <4>1, ErrorFollows
      <4>3. << >> \o ErrorText = ErrorText
        BY <1>1, ConcatEmptySeq
      <4>4. 1 \in 1 .. Len(ErrorText) - 1
        BY <1>1
      <4>5. ~ OkAt(ErrorText, 1)
        BY <4>2, <4>3, <4>4
      <4> QED BY <3>3, <4>5
    <3> QED BY <3>4
  <2> QED BY <2>1, <2>2, <2>3 DEF d
<1>6. d = s
  <2>1. Len(d) = Len(s) /\ \A k \in 1 .. Len(d) : d[k] = s[k]
    BY <1>4, <1>5
  <2> QED BY <1>2, <1>4, <2>1, SeqEqual
<1>7. SubSeq(s, n + 1, Len(s)) = << >>
  <2>1. Len(SubSeq(s, n + 1, Len(s))) = 0
    BY <1>2, <1>4, <1>5
  <2> QED BY <1>4, <2>1, EmptySeq
<1> QED BY <1>6, <1>7 DEF d

LEMMA LoginEntered ==
  ASSUME StreamInv, LoginInv, EnterLogin
  PROVE  LoginInv'
<1>1. /\ unanswered' = unanswered /\ member' = member /\ approved' = approved /\ posted' = posted
      /\ ragged' = ragged /\ received' = received /\ pc = "option" /\ InLogin
  BY DEF EnterLogin, serverVars, histories, InLogin
<1>2. PICK l \in Logins :
        /\ login' = l
        /\ \/ Transmit(LoginMessage(l)) /\ pc' = "await"
           \/ link = "rst" /\ pc' = "key" /\ link' = link
  BY DEF EnterLogin
<1>3. CASE link = "rst" /\ pc' = "key" /\ link' = link
  <2>1. ~ InLogin' /\ pc' # "option" /\ pc' # "await" /\ link' # "open"
    BY <1>3 DEF InLogin
  <2> QED BY <2>1 DEF LoginInv, NoJoin, NoOk, OneLogin, EntersApproved
<1>4. CASE Transmit(LoginMessage(l)) /\ pc' = "await"
  <2> DEFINE W == LoginBytes(l)
  <2>1. W \in Seq(Plain) /\ W \in Seq(Nat) /\ Len(W) \in Nat
    BY LoginBytesFacts
  <2>2. \/ /\ link = "open" /\ link' = "open" /\ toServer' = toServer \o W /\ toClient' = toClient
        \/ /\ link' = "rst" /\ toClient' = << >> /\ toServer' = toServer
    BY <1>4 DEF Transmit, LoginBytes
  <2> HIDE DEF W
  <2>3. NoJoin'
    <3>1. member = FALSE /\ posted = 0 /\ received = << >> /\ toServer \in Seq(Plain)
      BY <1>1 DEF LoginInv, NoJoin
    <3>2. toServer \o W \in Seq(Plain)
      BY <2>1, <3>1, ConcatProperties
    <3>3. toServer' \in Seq(Plain)
      BY <2>2, <3>1, <3>2, Zenon
    <3> QED BY <1>1, <3>1, <3>3 DEF NoJoin
  <2>4. NoOk'
    <3>1. ASSUME approved = {}
          PROVE  /\ \A k \in 1 .. Len(toClient) - 1 : ~ OkAt(toClient, k)
                 /\ toClient # << >> => toClient[Len(toClient)] = ErrorText[Len(ErrorText)]
      BY <1>1, <3>1 DEF LoginInv, NoOk
    <3>2. \A k \in 1 .. Len(<< >>) - 1 : ~ OkAt(<< >>, k)
      <4>1. 1 .. Len(<< >>) - 1 = {}
        OBVIOUS
      <4> QED BY <4>1
    <3>3. toClient' = toClient \/ toClient' = << >>
      BY <2>2
    <3> QED BY <1>1, <3>1, <3>2, <3>3, Zenon DEF NoOk
  <2>5. ASSUME ~ ragged PROVE Awaited'
    <3>1. toClient = << >> /\ (link = "open" => toServer = << >> /\ unanswered = << >>)
      BY <1>1, <2>5 DEF LoginInv, OneLogin, AskedAgain
    <3>2. toClient' = << >> /\ login' \in Logins /\ OkText # << >>
      BY <1>2, <2>2, <3>1, OkIsNone
    <3>3. ASSUME link' = "open" PROVE SentLogin'
      <4>1. toServer' = << >> \o W /\ unanswered' = << >>
        BY <1>1, <2>2, <3>1, <3>3
      <4>2. << >> \o W = W
        BY <2>1, ConcatEmptySeq
      <4>3. SubSeq(W, 0 + 1, Len(W)) = W
        <5>1. 0 + 1 = 1
          OBVIOUS
        <5>2. SubSeq(W, 1, Len(W)) = W
          BY <2>1, SubSeqFull
        <5> QED BY <5>1, <5>2
      <4>4. 0 \in 0 .. Len(W)
        BY <2>1
      <4>5. \E p \in 0 .. Len(W) : toServer' = SubSeq(W, p + 1, Len(W))
        BY <4>1, <4>2, <4>3, <4>4
      <4>6. LoginBytes(login)' = W
        BY <1>2 DEF W, LoginBytes
      <4> QED BY <3>2, <4>1, <4>5, <4>6 DEF SentLogin
    <3> QED BY <3>2, <3>3 DEF Awaited
  <2>6. OneLogin'
    BY <1>1, <1>4, <2>5 DEF OneLogin
  <2>7. EntersApproved'
    BY <1>4 DEF EntersApproved, Receiving
  <2> QED BY <2>3, <2>4, <2>6, <2>7 DEF LoginInv
<1> QED BY <1>2, <1>3, <1>4

LEMMA LoginAnswered ==
  ASSUME StreamInv, LoginInv, AwaitAnswer
  PROVE  LoginInv'
<1>1. /\ unanswered' = unanswered /\ member' = member /\ approved' = approved /\ posted' = posted
      /\ received' = received /\ pc = "await" /\ InLogin /\ link' = link /\ login' = login
      /\ toServer' = toServer
  BY DEF AwaitAnswer, serverVars, InLogin
<1>2. PICK n \in RecvLengths :
        /\ toClient' = SubSeq(toClient, n + 1, Len(toClient))
        /\ pc' = IF Recv(n) = OkText THEN "key" ELSE "option"
        /\ ragged' = (ragged \/ Recv(n) \notin {OkText, ErrorText})
  BY DEF AwaitAnswer, Take, IsOk
<1>3. toClient \in Seq(Nat) /\ Len(toClient) \in Nat
  BY StreamParts, LenProperties
<1>4. /\ n \in 1 .. Len(toClient) /\ n \in Nat /\ Len(Recv(n)) = n
      /\ \A k \in 1 .. n : Recv(n)[k] = toClient[k]
      /\ toClient' \in Seq(Nat) /\ Len(toClient') = Len(toClient) - n
      /\ \A k \in 1 .. Len(toClient) - n : toClient'[k] = toClient[n + k]
  BY <1>2, <1>3, CutFacts DEF RecvLengths, Recv
<1>5. NoJoin'
  <2>1. member = FALSE /\ posted = 0 /\ received = << >> /\ toServer \in Seq(Plain)
    BY <1>1 DEF LoginInv, NoJoin
  <2> QED BY <1>1, <2>1 DEF NoJoin
<1>6. NoOk'
  <2> SUFFICES ASSUME approved = {}
               PROVE  /\ \A k \in 1 .. Len(toClient') - 1 : ~ OkAt(toClient', k)
                      /\ toClient' # << >> => toClient'[Len(toClient')] = ErrorText[Len(ErrorText)]
    BY <1>1 DEF NoOk, OkAt
  <2>1. /\ \A k \in 1 .. Len(toClient) - 1 : ~ OkAt(toClient, k)
        /\ toClient # << >> => toClient[Len(toClient)] = ErrorText[Len(ErrorText)]
    BY <1>1 DEF LoginInv, NoOk
  <2>2. PICK l \in Nat : l = Len(toClient)
    BY <1>3
  <2>3. ASSUME NEW k \in 1 .. Len(toClient') - 1 PROVE ~ OkAt(toClient', k)
    <3>1. /\ k \in 1 .. l - n /\ k + 1 \in 1 .. l - n /\ n + k \in 1 .. l - 1
          /\ n + (k + 1) = (n + k) + 1
      BY <1>4, <2>2
    <3>2. toClient'[k] = toClient[n + k] /\ toClient'[k + 1] = toClient[(n + k) + 1]
      BY <1>4, <2>2, <3>1
    <3>3. ~ OkAt(toClient, n + k)
      BY <2>1, <2>2, <3>1
    <3> QED BY <3>2, <3>3 DEF OkAt
  <2>4. ASSUME toClient' # << >> PROVE toClient'[Len(toClient')] = ErrorText[Len(ErrorText)]
    <3>1. Len(toClient') # 0
      BY <1>4, <2>4, EmptySeq
    <3>2. l - n \in 1 .. l - n /\ n + (l - n) = l /\ Len(toClient') = l - n /\ l # 0
      BY <1>4, <2>2, <3>1
    <3>3. toClient # << >>
      BY <2>2, <3>2
    <3> QED BY <1>4, <2>1, <2>2, <3>2, <3>3
  <2> QED BY <2>3, <2>4
<1>7. ASSUME ~ ragged'
      PROVE  /\ ~ ragged /\ Recv(n) = toClient /\ toClient' = << >> /\ login \in Logins
             /\ link = "open" => Answered
             /\ toClient = OkText => login \in approved
  <2>1. ~ ragged /\ Recv(n) \in {OkText, ErrorText}
    BY <1>2, <1>7
  <2>2. Awaited
    BY <1>1, <2>1 DEF LoginInv, OneLogin
  <2>3. toClient # << >>
    <3>1. Len(toClient) # 0
      BY <1>3, <1>4
    <3> QED BY <3>1
  <2>4. toClient \in {OkText, ErrorText}
    BY <2>2, <2>3 DEF Awaited
  <2>5. Recv(n) = toClient /\ SubSeq(toClient, n + 1, Len(toClient)) = << >>
    BY <2>1, <2>4, AnswerTaken
  <2> QED BY <1>2, <2>1, <2>2, <2>3, <2>5 DEF Awaited, SentLogin, ReadLogin
<1>8. OneLogin'
  <2>1. ASSUME ~ ragged', pc' = "option" PROVE AskedAgain'
    BY <1>1, <1>7, <2>1 DEF AskedAgain, Answered
  <2>2. pc' # "await"
    BY <1>2
  <2> QED BY <2>1, <2>2 DEF OneLogin
<1>9. EntersApproved'
  <2> SUFFICES ASSUME pc' = "key" PROVE approved # {} /\ (ragged' \/ login \in approved)
    BY <1>1, <1>2 DEF EntersApproved, Receiving
  <2>1. Recv(n) = OkText
    BY <1>2
  <2>2. approved # {}
    <3> SUFFICES ASSUME approved = {} PROVE FALSE
      OBVIOUS
    <3>1. \A k \in 1 .. Len(toClient) - 1 : ~ OkAt(toClient, k)
      BY <1>1 DEF LoginInv, NoOk
    <3>2. n = 2
      BY <1>4, <2>1, AnswerTexts
    <3>3. 1 \in 1 .. Len(toClient) - 1 /\ 1 \in 1 .. n /\ 2 \in 1 .. n /\ 1 + 1 = 2
      BY <1>3, <1>4, <3>2
    <3>4. OkAt(toClient, 1)
      BY <1>4, <2>1, <3>3 DEF OkAt
    <3> QED BY <3>1, <3>3, <3>4
  <2>3. ragged' \/ login \in approved
    BY <1>7, <2>1
  <2> QED BY <2>2, <2>3
<1> QED BY <1>5, <1>6, <1>8, <1>9 DEF LoginInv

LEMMA LoginReads ==
  ASSUME StreamInv, LoginInv, ServerReads
  PROVE  LoginInv'
<1>1. /\ approved' = approved /\ posted' = posted /\ link' = link /\ toClient' = toClient
      /\ ragged' = ragged /\ pc' = pc /\ login' = login /\ received' = received
      /\ toServer # << >> /\ link = "open"
  BY DEF ServerReads, clientVars
<1>2. PICK n \in 1 .. Min({Len(toServer), BufLen}) :
        LET m == Decode(SubSeq(toServer, 1, n)) IN
        /\ toServer' = SubSeq(toServer, n + 1, Len(toServer))
        /\ unanswered' = IF m.type = "LOGIN" /\ \E l \in Logins : Bytes[l] = m.name
             THEN Append(unanswered, CHOOSE l \in Logins : Bytes[l] = m.name) ELSE unanswered
        /\ member' = (member \/ m.type = "JOIN")
  BY DEF ServerReads
<1> DEFINE m == Decode(SubSeq(toServer, 1, n))
<1>3. NoJoin'
  <2> SUFFICES ASSUME InLogin
               PROVE  /\ member' = FALSE /\ posted = 0 /\ received = << >>
                      /\ toServer' \in Seq(Plain)
    BY <1>1 DEF NoJoin, InLogin
  <2>1. member = FALSE /\ posted = 0 /\ received = << >> /\ toServer \in Seq(Plain)
    BY DEF LoginInv, NoJoin
  <2>2. m.type # "JOIN" /\ SubSeq(toServer, n + 1, Len(toServer)) \in Seq(Plain)
    BY <1>1, <2>1, PlainRead
  <2> QED BY <1>2, <2>1, <2>2, Zenon
<1>4. NoOk'
  BY <1>1 DEF LoginInv, NoOk, InLogin, OkAt
<1>5. OneLogin'
  <2> SUFFICES ASSUME ~ ragged PROVE (pc = "option" => AskedAgain') /\ (pc = "await" => Awaited')
    BY <1>1 DEF OneLogin
  <2>1. pc # "option"
    BY <1>1 DEF LoginInv, OneLogin, AskedAgain
  <2>2. ASSUME pc = "await" PROVE Awaited'
    <3>1. /\ login \in Logins /\ toClient \in {<< >>, OkText, ErrorText}
          /\ toClient = OkText => login \in approved
          /\ unanswered = << >> /\ toClient = << >>
      BY <1>1, <2>2 DEF LoginInv, OneLogin, Awaited, SentLogin, ReadLogin, Answered
    <3> DEFINE W == LoginBytes(login)
    <3>2. PICK p \in 0 .. Len(W) : toServer = SubSeq(W, p + 1, Len(W))
      BY <1>1, <2>2 DEF LoginInv, OneLogin, Awaited, SentLogin, ReadLogin, Answered
    <3>3. /\ p + n \in 0 .. Len(W) /\ toServer' = SubSeq(W, (p + n) + 1, Len(W))
          /\ \/ toServer' = << >> /\ m.type = "LOGIN" /\ m.name = Bytes[login]
             \/ m.type # "LOGIN" \/ m.name = << >>
      BY <1>2, <3>1, <3>2, LoginRead
    <3>4. (LoginBytes(login))' = W
      BY <1>1 DEF LoginBytes
    <3> HIDE DEF W
    <3>5. CASE toServer' = << >> /\ m.type = "LOGIN" /\ m.name = Bytes[login]
      <4>1. \A l \in Logins : Bytes[l] = m.name => l = login
        BY <3>1, <3>5, LoginAssumption
      <4>2. (CHOOSE l \in Logins : Bytes[l] = m.name) = login
        BY <3>1, <3>5, <4>1
      <4>3. unanswered' = Append(<< >>, login)
        BY <1>2, <3>1, <3>5, <4>2
      <4>4. unanswered' = << login >>
        BY <4>3
      <4>5. ReadLogin'
        BY <1>1, <3>1, <3>5, <4>4 DEF ReadLogin
      <4> QED BY <1>1, <3>1, <4>5 DEF Awaited
    <3>6. CASE m.type # "LOGIN" \/ m.name = << >>
      <4>1. ~ (m.type = "LOGIN" /\ \E l \in Logins : Bytes[l] = m.name)
        BY <3>6, LoginBytesFacts
      <4>2. unanswered' = << >>
        BY <1>2, <3>1, <4>1
      <4>3. SentLogin'
        BY <1>1, <3>1, <3>3, <3>4, <4>2 DEF SentLogin
      <4> QED BY <1>1, <3>1, <4>3 DEF Awaited
    <3> QED BY <3>3, <3>5, <3>6
  <2> QED BY <2>1, <2>2
<1>6. EntersApproved'
  BY <1>1 DEF LoginInv, EntersApproved, Receiving
<1> QED BY <1>3, <1>4, <1>5, <1>6 DEF LoginInv

LEMMA LoginReplied ==
  ASSUME StreamInv, LoginInv, ServerAnswers
  PROVE  LoginInv'
<1>1. /\ member' = member /\ posted' = posted /\ link' = link /\ ragged' = ragged /\ pc' = pc
      /\ login' = login /\ received' = received /\ toServer' = toServer
      /\ unanswered # << >> /\ unanswered' = Tail(unanswered) /\ link = "open"
      /\ \/ toClient' = toClient \o OkText /\ approved' = approved \union {Head(unanswered)}
         \/ toClient' = toClient \o ErrorText /\ approved' = approved
  BY DEF ServerAnswers, histories, clientVars
<1>2. toClient \in Seq(Nat)
  BY StreamParts
<1>3. NoJoin'
  BY <1>1 DEF LoginInv, NoJoin, InLogin
<1>4. NoOk'
  <2> SUFFICES ASSUME InLogin, approved' = {}
               PROVE  /\ \A k \in 1 .. Len(toClient') - 1 : ~ OkAt(toClient', k)
                      /\ toClient'[Len(toClient')] = ErrorText[Len(ErrorText)]
    BY <1>1 DEF NoOk, OkAt, InLogin
  <2>1. toClient' = toClient \o ErrorText /\ approved = {}
    BY <1>1
  <2>2. /\ \A k \in 1 .. Len(toClient) - 1 : ~ OkAt(toClient, k)
        /\ toClient # << >> => toClient[Len(toClient)] = ErrorText[Len(ErrorText)]
    BY <2>1 DEF LoginInv, NoOk
  <2>3. /\ \A k \in 1 .. Len(toClient \o ErrorText) - 1 : ~ OkAt(toClient \o ErrorText, k)
        /\ (toClient \o ErrorText)[Len(toClient \o ErrorText)] = ErrorText[Len(ErrorText)]
    BY <1>2, <2>2, ErrorFollows
  <2> QED BY <2>1, <2>3, Zenon
<1>5. OneLogin'
  <2> SUFFICES ASSUME ~ ragged PROVE (pc = "option" => AskedAgain') /\ (pc = "await" => Awaited')
    BY <1>1 DEF OneLogin
  <2>1. pc # "option"
    BY <1>1 DEF LoginInv, OneLogin, AskedAgain
  <2>2. ASSUME pc = "await" PROVE Awaited'
    <3>1. login \in Logins /\ toServer = << >> /\ toClient = << >> /\ unanswered = << login >>
      BY <1>1, <2>2 DEF LoginInv, OneLogin, Awaited, SentLogin, ReadLogin, Answered
    <3>2. Tail(<< login >>) = << >> /\ Head(<< login >>) = login
      OBVIOUS
    <3>3. << >> \o OkText = OkText /\ << >> \o ErrorText = ErrorText
      BY AnswerTexts, ConcatEmptySeq
    <3>4. \/ toClient' = OkText /\ login \in approved'
          \/ toClient' = ErrorText
      BY <1>1, <3>1, <3>2, <3>3
    <3>5. OkText # << >> /\ ErrorText # << >> /\ OkText # ErrorText
      BY OkIsNone
    <3>6. Answered'
      BY <1>1, <3>1, <3>2, <3>4, <3>5 DEF Answered
    <3> QED BY <1>1, <3>1, <3>4, <3>5, <3>6 DEF Awaited
  <2> QED BY <2>1, <2>2
<1>6. EntersApproved'
  BY <1>1 DEF LoginInv, EntersApproved, Receiving
<1> QED BY <1>3, <1>4, <1>5, <1>6 DEF LoginInv

LEMMA LoginEnds ==
  ASSUME StreamInv, LoginInv, ServerEnds
  PROVE  LoginInv'
<1>1. /\ UNCHANGED clientVars /\ UNCHANGED serverVars /\ UNCHANGED histories
      /\ toServer' = << >> /\ link' # "open" /\ (toClient' = toClient \/ toClient' = << >>)
  BY DEF ServerEnds
<1>2. /\ member' = member /\ posted' = posted /\ ragged' = ragged /\ pc' = pc /\ login' = login
      /\ received' = received /\ approved' = approved
  BY <1>1 DEF clientVars, serverVars, histories
<1>3. << >> \in Seq(Plain) /\ 1 .. Len(<< >>) - 1 = {}
  OBVIOUS
<1>4. NoJoin'
  BY <1>1, <1>2, <1>3 DEF LoginInv, NoJoin, InLogin
<1>5. NoOk'
  <2>1. CASE toClient' = toClient
    BY <1>2, <2>1 DEF LoginInv, NoOk, InLogin, OkAt
  <2>2. CASE toClient' = << >>
    <3>1. \A k \in 1 .. Len(<< >>) - 1 : ~ OkAt(<< >>, k)
      BY <1>3
    <3> QED BY <2>2, <3>1, Zenon DEF NoOk
  <2> QED BY <1>1, <2>1, <2>2
<1>6. OneLogin'
  <2> SUFFICES ASSUME ~ ragged PROVE (pc = "option" => AskedAgain') /\ (pc = "await" => Awaited')
    BY <1>2 DEF OneLogin
  <2>1. ASSUME pc = "option" PROVE AskedAgain'
    BY <1>1, <2>1 DEF LoginInv, OneLogin, AskedAgain
  <2>2. ASSUME pc = "await" PROVE Awaited'
    BY <1>1, <1>2, <2>2, OkIsNone DEF LoginInv, OneLogin, Awaited
  <2> QED BY <2>1, <2>2
<1>7. EntersApproved'
  BY <1>1 DEF EntersApproved
<1> QED BY <1>4, <1>5, <1>6, <1>7 DEF LoginInv

LEMMA LoginStep ==
  ASSUME StreamInv, LoginInv, [Next]_vars
  PROVE  LoginInv'
<1>1. ASSUME EnterCommand \/ Escape \/ Show \/ RecvFails \/ RecvNothing PROVE LoginInv'
  <2>1. /\ pc \in Receiving /\ pc' \in Receiving \union {"ended"} /\ approved' = approved
        /\ login' = login /\ ragged' = ragged /\ (link' = "open" => link = "open")
    <3>1. CASE EnterCommand
      BY <3>1 DEF EnterCommand, Transmit, serverVars, histories, Receiving
    <3>2. CASE Escape
      BY <3>2 DEF Escape, serverVars, histories, Receiving
    <3>3. CASE Show
      BY <3>3 DEF Show, serverVars, Receiving, NextRound
    <3>4. CASE RecvFails
      BY <3>4 DEF RecvFails, serverVars, histories, Receiving
    <3>5. CASE RecvNothing
      BY <3>5 DEF RecvNothing, serverVars, histories, Receiving, NextRound
    <3> QED BY <1>1, <3>1, <3>2, <3>3, <3>4, <3>5
  <2>2. ~ InLogin' /\ pc' # "option" /\ pc' # "await"
    BY <2>1 DEF InLogin, Receiving
  <2>3. EntersApproved'
    BY <2>1 DEF LoginInv, EntersApproved
  <2> QED BY <2>2, <2>3 DEF LoginInv, NoJoin, NoOk, OneLogin
<1>2. ASSUME AwaitEnds PROVE LoginInv'
  <2>1. pc' = "key" /\ link' # "open"
    BY <1>2 DEF AwaitEnds
  <2> QED BY <2>1 DEF LoginInv, NoJoin, NoOk, OneLogin, EntersApproved, InLogin
<1>3. ASSUME ServerPosts PROVE LoginInv'
  <2>1. /\ member /\ pc' = pc /\ approved' = approved /\ login' = login /\ ragged' = ragged
        /\ link' = link
    BY <1>3 DEF ServerPosts, histories, clientVars
  <2>2. ~ InLogin
    BY <2>1 DEF LoginInv, NoJoin
  <2>3. ~ InLogin' /\ pc' # "option" /\ pc' # "await"
    BY <2>1, <2>2 DEF InLogin
  <2>4. EntersApproved'
    BY <2>1 DEF LoginInv, EntersApproved, Receiving
  <2> QED BY <2>3, <2>4 DEF LoginInv, NoJoin, NoOk, OneLogin
<1>4. ASSUME UNCHANGED vars PROVE LoginInv'
  BY <1>4 DEF vars, clientVars, serverVars, histories, LoginInv, NoJoin, NoOk, OneLogin, EntersApproved,
              InLogin, OkAt, AskedAgain, Awaited, SentLogin, ReadLogin, Answered, Receiving, LoginBytes
<1> QED BY <1>1, <1>2, <1>3, <1>4, LoginEntered, LoginAnswered, LoginReads, LoginReplied, LoginEnds
        DEF Next, Keys, ClientStep, Server

(* The invariant of loginLoop.                                             *)
THEOREM LoginInvariant == Spec => []LoginInv
<1>1. Init => LoginInv
  BY LoginInit
<1>2. StreamInv /\ LoginInv /\ [Next]_vars => LoginInv'
  BY LoginStep
<1> QED BY <1>1, <1>2, StreamInvariant, PTL DEF Spec

(* loginLoop: while the connection is there, main's loop is entered only   *)
(* after an "ok" that was sent, however the answers are cut, and, when none *)
(* was, after that of the very login the user has entered.                 *)
THEOREM AlwaysApproved == Spec => []EntersApproved
<1>1. LoginInv => EntersApproved
  BY DEF LoginInv
<1> QED BY <1>1, LoginInvariant, PTL

(* loginLoop: as long as no answer is cut there is one login and one       *)
(* answer at a time, also when the server reads a login in parts.          *)
THEOREM AlwaysOneAnswer == Spec => []OneAnswer
<1>1. ASSUME LoginInv PROVE OneAnswer
  <2> SUFFICES ASSUME link = "open", ~ ragged
               PROVE  /\ pc = "option" => toServer \o unanswered \o toClient = << >>
                      /\ pc = "await" =>
                           \/ unanswered \o toClient = << >>
                           \/ toServer \o toClient = << >> /\ unanswered = << login >>
                           \/ /\ toServer \o unanswered = << >> /\ toClient \in {OkText, ErrorText}
                              /\ toClient = OkText => login \in approved
    BY DEF OneAnswer
  <2>1. << >> \o << >> = << >>
    OBVIOUS
  <2>2. ASSUME pc = "option" PROVE toServer \o unanswered \o toClient = << >>
    BY <1>1, <2>1, <2>2 DEF LoginInv, OneLogin, AskedAgain
  <2>3. ASSUME pc = "await"
        PROVE  \/ unanswered \o toClient = << >>
               \/ toServer \o toClient = << >> /\ unanswered = << login >>
               \/ /\ toServer \o unanswered = << >> /\ toClient \in {OkText, ErrorText}
                  /\ toClient = OkText => login \in approved
    <3>1. Awaited
      BY <1>1, <2>3 DEF LoginInv, OneLogin
    <3>2. CASE SentLogin
      BY <2>1, <3>2 DEF SentLogin
    <3>3. CASE ReadLogin
      BY <2>1, <3>3 DEF ReadLogin
    <3>4. CASE Answered
      BY <2>1, <3>1, <3>4 DEF Answered, Awaited
    <3> QED BY <3>1, <3>2, <3>3, <3>4 DEF Awaited
  <2> QED BY <2>2, <2>3
<1> QED BY <1>1, LoginInvariant, PTL

-----------------------------------------------------------------------------
(* What the client has not read.                                           *)

LeftOf(k, p) == FlattenSeq([j \in 1 .. p - k |-> Written[RoomMessages[k + j]].bytes])

Piece(f, k, p) == [j \in 1 .. p - k |-> f[k + j]]

LEMMA Pieces ==
  ASSUME NEW S, NEW N \in Nat, NEW f \in [1 .. N -> S], NEW p \in 0 .. N, NEW q \in 0 .. p,
         NEW k \in 0 .. q
  PROVE  /\ Piece(f, k, p) \in Seq(S) /\ Piece(f, k, q) \in Seq(S) /\ Piece(f, q, p) \in Seq(S)
         /\ Piece(f, k, p) = Piece(f, k, q) \o Piece(f, q, p)
<1>1. ASSUME NEW b \in 0 .. N, NEW a \in 0 .. b
      PROVE  Piece(f, a, b) \in Seq(S) /\ Len(Piece(f, a, b)) = b - a
  <2>1. b - a \in Nat /\ \A j \in 1 .. b - a : a + j \in 1 .. N
    OBVIOUS
  <2>2. Piece(f, a, b) \in [1 .. b - a -> S]
    BY <2>1 DEF Piece
  <2> QED BY <2>1, <2>2, FunctionIsSeq
<1>2. q \in 0 .. N /\ k \in 0 .. p /\ k \in Nat /\ q \in Nat /\ p \in Nat
  OBVIOUS
<1> DEFINE x == Piece(f, k, q)
           y == Piece(f, q, p)
           z == Piece(f, k, p)
<1>3. /\ x \in Seq(S) /\ Len(x) = q - k /\ y \in Seq(S) /\ Len(y) = p - q
      /\ z \in Seq(S) /\ Len(z) = p - k
  BY <1>1, <1>2
<1>4. /\ \A j \in 1 .. q - k : x[j] = f[k + j]
      /\ \A j \in 1 .. p - q : y[j] = f[q + j]
      /\ \A j \in 1 .. p - k : z[j] = f[k + j]
  BY DEF Piece
<1> HIDE DEF x, y, z
<1>5. /\ x \o y \in Seq(S) /\ Len(x \o y) = (q - k) + (p - q)
      /\ \A j \in 1 .. q - k : (x \o y)[j] = x[j]
      /\ \A j \in (q - k) + 1 .. (q - k) + (p - q) : (x \o y)[j] = y[j - (q - k)]
  <2>1. /\ x \o y \in Seq(S) /\ Len(x \o y) = Len(x) + Len(y)
        /\ \A j \in 1 .. Len(x) + Len(y) :
             (x \o y)[j] = IF j <= Len(x) THEN x[j] ELSE y[j - Len(x)]
    BY <1>3, ConcatProperties, Zenon
  <2> DEFINE xy == x \o y
  <2> HIDE DEF xy
  <2>2. xy \in Seq(S) /\ Len(xy) = Len(x) + Len(y)
        /\ \A j \in 1 .. Len(x) + Len(y) : xy[j] = IF j <= Len(x) THEN x[j] ELSE y[j - Len(x)]
    BY <2>1 DEF xy
  <2>3. xy \in Seq(S) /\ Len(xy) = (q - k) + (p - q)
        /\ (\A j \in 1 .. q - k : xy[j] = x[j])
        /\ (\A j \in (q - k) + 1 .. (q - k) + (p - q) : xy[j] = y[j - (q - k)])
    BY <1>2, <1>3, <2>2, SMTT(30)
  <2> QED BY <2>3 DEF xy
<1>6. (q - k) + (p - q) = p - k
  OBVIOUS
<1>7. ASSUME NEW j \in 1 .. p - k PROVE z[j] = (x \o y)[j]
  <2>1. CASE j <= q - k
    <3>1. j \in 1 .. q - k
      BY <2>1
    <3> QED BY <1>4, <1>5, <3>1
  <2>2. CASE q - k < j
    <3>1. /\ j \in (q - k) + 1 .. (q - k) + (p - q) /\ j - (q - k) \in 1 .. p - q
          /\ q + (j - (q - k)) = k + j
      BY <2>2
    <3> QED BY <1>4, <1>5, <3>1
  <2>3. j <= q - k \/ q - k < j
    OBVIOUS
  <2> QED BY <2>1, <2>2, <2>3
<1> DEFINE xy == x \o y
<1>8. z = xy
  <2>1. xy \in Seq(S) /\ Len(xy) = p - k /\ \A j \in 1 .. p - k : z[j] = xy[j]
    BY <1>5, <1>6, <1>7
  <2> HIDE DEF xy
  <2> QED BY <1>3, <2>1, SeqEqual
<1> QED BY <1>3, <1>8 DEF x, y, z

LEMMA LeftSplit ==
  ASSUME NEW p \in 0 .. Len(RoomMessages), NEW q \in 0 .. p, NEW k \in 0 .. q
  PROVE  /\ LeftOf(k, p) \in Seq(Nat) /\ LeftOf(k, q) \in Seq(Nat) /\ LeftOf(q, p) \in Seq(Nat)
         /\ LeftOf(k, p) = LeftOf(k, q) \o LeftOf(q, p)
         /\ LeftOf(k, k) = << >>
         /\ q = k + 1 => LeftOf(k, q) = Written[RoomMessages[q]].bytes
<1> DEFINE N == Len(RoomMessages)
           f == [i \in 1 .. N |-> Written[RoomMessages[i]].bytes]
           S == Seq(Nat)
<1>1. N \in Nat
  BY ClientAssumption, LenProperties
<1>2. f \in [1 .. N -> S]
  <2>1. ASSUME NEW i \in 1 .. N PROVE Written[RoomMessages[i]].bytes \in S
    BY PostedProper, SendableWritten
  <2> QED BY <2>1
<1>3. ASSUME NEW b \in 0 .. N, NEW a \in 0 .. b PROVE LeftOf(a, b) = FlattenSeq(Piece(f, a, b))
  <2>1. \A j \in 1 .. b - a : a + j \in 1 .. N
    BY <1>1
  <2>2. Piece(f, a, b) = [j \in 1 .. b - a |-> Written[RoomMessages[a + j]].bytes]
    BY <2>1 DEF Piece
  <2> QED BY <2>2 DEF LeftOf
<1>4. p \in 0 .. N /\ q \in 0 .. N /\ k \in 0 .. p /\ k \in 0 .. N /\ k \in 0 .. k
        /\ q \in 0 .. p /\ k \in 0 .. q
  BY <1>1
<1> HIDE DEF N
<1>5. LeftOf(k, p) = FlattenSeq(Piece(f, k, p)) /\ LeftOf(k, q) = FlattenSeq(Piece(f, k, q))
        /\ LeftOf(q, p) = FlattenSeq(Piece(f, q, p)) /\ LeftOf(k, k) = FlattenSeq(Piece(f, k, k))
  BY <1>3, <1>4
<1>6. /\ Piece(f, k, p) \in Seq(S) /\ Piece(f, k, q) \in Seq(S) /\ Piece(f, q, p) \in Seq(S)
      /\ Piece(f, k, p) = Piece(f, k, q) \o Piece(f, q, p)
  <2> HIDE DEF f, S
  <2>1. \A U : \A n \in Nat : \A g \in [1 .. n -> U], c \in 0 .. n : \A b \in 0 .. c : \A a \in 0 .. b :
          /\ Piece(g, a, c) \in Seq(U) /\ Piece(g, a, b) \in Seq(U) /\ Piece(g, b, c) \in Seq(U)
          /\ Piece(g, a, c) = Piece(g, a, b) \o Piece(g, b, c)
    BY Pieces, Zenon
  <2>2. \A n \in Nat : \A g \in [1 .. n -> S], c \in 0 .. n : \A b \in 0 .. c : \A a \in 0 .. b :
          /\ Piece(g, a, c) \in Seq(S) /\ Piece(g, a, b) \in Seq(S) /\ Piece(g, b, c) \in Seq(S)
          /\ Piece(g, a, c) = Piece(g, a, b) \o Piece(g, b, c)
    BY <2>1, Zenon
  <2>3. \A g \in [1 .. N -> S], c \in 0 .. N : \A b \in 0 .. c : \A a \in 0 .. b :
          /\ Piece(g, a, c) \in Seq(S) /\ Piece(g, a, b) \in Seq(S) /\ Piece(g, b, c) \in Seq(S)
          /\ Piece(g, a, c) = Piece(g, a, b) \o Piece(g, b, c)
    BY <1>1, <2>2, Zenon
  <2>4. \A c \in 0 .. N : \A b \in 0 .. c : \A a \in 0 .. b :
          /\ Piece(f, a, c) \in Seq(S) /\ Piece(f, a, b) \in Seq(S) /\ Piece(f, b, c) \in Seq(S)
          /\ Piece(f, a, c) = Piece(f, a, b) \o Piece(f, b, c)
    BY <1>2, <2>3, Zenon
  <2> QED BY <1>4, <2>4, Zenon
<1>7. Piece(f, k, k) = << >>
  <2>1. 1 .. k - k = {}
    OBVIOUS
  <2> QED BY <2>1 DEF Piece
<1>8. ASSUME q = k + 1 PROVE Piece(f, k, q) = << f[q] >>
  <2>1. 1 .. q - k = {1} /\ k + 1 = q
    BY <1>8
  <2>2. Piece(f, k, q) = [j \in {1} |-> f[k + j]]
    BY <2>1 DEF Piece
  <2> HIDE DEF f
  <2> QED BY <2>1, <2>2
<1>9. ASSUME q = k + 1 PROVE f[q] = Written[RoomMessages[q]].bytes /\ f[q] \in S
  <2>1. q \in 1 .. N
    BY <1>1, <1>4, <1>9
  <2> QED BY <1>2, <2>1
<1> HIDE DEF f
<1>10. /\ FlattenSeq(Piece(f, k, p)) \in Seq(Nat) /\ FlattenSeq(Piece(f, k, q)) \in Seq(Nat)
       /\ FlattenSeq(Piece(f, q, p)) \in Seq(Nat)
  BY <1>6, FlattenType
<1>11. FlattenSeq(Piece(f, k, q) \o Piece(f, q, p)) =
         FlattenSeq(Piece(f, k, q)) \o FlattenSeq(Piece(f, q, p))
  BY <1>6, FlattenConcat
<1>12. FlattenSeq(<< >>) = << >>
  <2>1. << >> \in Seq(Nat)
    OBVIOUS
  <2> QED BY <2>1, FlattenOne
<1>13. ASSUME q = k + 1 PROVE LeftOf(k, q) = Written[RoomMessages[q]].bytes
  <2>1. FlattenSeq(<< f[q] >>) = f[q]
    BY <1>9, <1>13, FlattenOne
  <2> QED BY <1>5, <1>8, <1>9, <1>13, <2>1
<1> QED BY <1>5, <1>6, <1>7, <1>10, <1>11, <1>12, <1>13, Zenon

LEMMA LeftShrinks ==
  ASSUME NEW p \in 0 .. Len(RoomMessages), NEW q \in 0 .. p, NEW k \in 0 .. q
  PROVE  /\ Len(LeftOf(k, p)) \in Nat /\ Len(LeftOf(q, p)) \in Nat
         /\ Len(LeftOf(q, p)) <= Len(LeftOf(k, p))
<1> DEFINE a == LeftOf(k, q)
           b == LeftOf(q, p)
<1>1. a \in Seq(Nat) /\ b \in Seq(Nat) /\ LeftOf(k, p) = a \o b
  BY LeftSplit
<1> HIDE DEF a, b
<1>2. Len(a) \in Nat /\ Len(b) \in Nat /\ Len(a \o b) = Len(a) + Len(b)
  BY <1>1, LenProperties, ConcatProperties
<1> QED BY <1>1, <1>2 DEF a, b

-----------------------------------------------------------------------------
(* Where the messages shown have been among those sent.  The last of them  *)
(* lies before all that has not been read yet.                             *)

Placed(place, rs, p) ==
  /\ place \in [1 .. Len(rs) -> 1 .. p]
  /\ \A k \in 1 .. Len(rs) : ShownOf(rs[k], Spelled(RoomMessages[place[k]]))
  /\ \A j \in 1 .. Len(rs) : \A k \in 1 .. Len(rs) : j < k => place[j] < place[k]
Behind(place, rs, p, size) == rs # << >> => size < Len(LeftOf(place[Len(rs)] - 1, p))
PlacedBefore(rs, p, size) == \E place : Placed(place, rs, p) /\ Behind(place, rs, p, size)

LEMMA PlacedEmpty ==
  ASSUME NEW rs, rs = << >>, NEW p, NEW size
  PROVE  PlacedBefore(rs, p, size)
<1> DEFINE place == [k \in 1 .. Len(rs) |-> 1]
<1>1. 1 .. Len(rs) = {}
  OBVIOUS
<1>2. Placed(place, rs, p)
  BY <1>1 DEF Placed
<1>3. Behind(place, rs, p, size)
  BY DEF Behind
<1> QED BY <1>2, <1>3 DEF PlacedBefore

LEMMA LastPlace ==
  ASSUME NEW S, NEW rs \in Seq(S), rs # << >>, NEW p \in 0 .. Len(RoomMessages), NEW place,
         Placed(place, rs, p)
  PROVE  /\ Len(rs) \in Nat /\ Len(rs) \in 1 .. Len(rs) /\ p \in Nat /\ Len(RoomMessages) \in Nat
         /\ place[Len(rs)] \in 1 .. p /\ place[Len(rs)] - 1 \in 0 .. p
         /\ Len(LeftOf(place[Len(rs)] - 1, p)) \in Nat
<1>1. Len(RoomMessages) \in Nat /\ Len(rs) \in Nat
  BY ClientAssumption, LenProperties
<1>2. Len(rs) # 0
  BY EmptySeq
<1>3. Len(rs) \in 1 .. Len(rs)
  BY <1>1, <1>2
<1>4. place[Len(rs)] \in 1 .. p
  BY <1>3 DEF Placed
<1>5. p \in Nat /\ place[Len(rs)] - 1 \in 0 .. p
  BY <1>1, <1>4
<1>6. p \in 0 .. p
  BY <1>5
<1>7. Len(LeftOf(place[Len(rs)] - 1, p)) \in Nat
  BY <1>5, <1>6, LeftShrinks
<1> QED BY <1>1, <1>3, <1>4, <1>5, <1>7

LEMMA PlacedKept ==
  ASSUME NEW S, NEW rs \in Seq(S), NEW p \in 0 .. Len(RoomMessages), NEW size \in Nat,
         NEW less \in Nat, less <= size, PlacedBefore(rs, p, size)
  PROVE  PlacedBefore(rs, p, less)
<1>1. PICK place : Placed(place, rs, p) /\ Behind(place, rs, p, size)
  BY DEF PlacedBefore
<1>2. ASSUME rs # << >> PROVE less < Len(LeftOf(place[Len(rs)] - 1, p))
  <2>1. size < Len(LeftOf(place[Len(rs)] - 1, p)) /\ Len(LeftOf(place[Len(rs)] - 1, p)) \in Nat
    BY <1>1, <1>2, LastPlace DEF Behind
  <2> QED BY <2>1
<1> QED BY <1>1, <1>2 DEF PlacedBefore, Behind

(* One more is shown: the first of what has not been read.                 *)
LEMMA PlacedMore ==
  ASSUME NEW S, NEW rs \in Seq(S), NEW p \in 0 .. Len(RoomMessages), NEW k \in 0 .. p, k # p,
         NEW m \in S, ShownOf(m, Spelled(RoomMessages[k + 1])),
         PlacedBefore(rs, p, Len(LeftOf(k, p))), NEW less \in Nat, less < Len(LeftOf(k, p))
  PROVE  PlacedBefore(Append(rs, m), p, less)
<1> DEFINE all == Append(rs, m)
           size == Len(LeftOf(k, p))
<1>1. PICK place : Placed(place, rs, p) /\ Behind(place, rs, p, size)
  BY DEF PlacedBefore
<1>2. Len(RoomMessages) \in Nat /\ Len(rs) \in Nat
  BY ClientAssumption, LenProperties
<1>3. p \in Nat /\ k \in Nat /\ k + 1 \in 1 .. p /\ (k + 1) - 1 = k
  BY <1>2
<1>4. /\ all \in Seq(S) /\ Len(all) = Len(rs) + 1 /\ all[Len(rs) + 1] = m
      /\ \A j \in 1 .. Len(rs) : all[j] = rs[j]
  BY <1>2, AppendProperties
<1> DEFINE new == [j \in 1 .. Len(rs) + 1 |-> IF j = Len(rs) + 1 THEN k + 1 ELSE place[j]]
<1>5. /\ new[Len(rs) + 1] = k + 1 /\ Len(rs) + 1 \in 1 .. Len(rs) + 1
      /\ \A j \in 1 .. Len(rs) : new[j] = place[j] /\ place[j] \in 1 .. p
  BY <1>1, <1>2 DEF Placed
<1>6. new \in [1 .. Len(rs) + 1 -> 1 .. p]
  <2>1. ASSUME NEW j \in 1 .. Len(rs) + 1
        PROVE  (IF j = Len(rs) + 1 THEN k + 1 ELSE place[j]) \in 1 .. p
    <3>1. j = Len(rs) + 1 \/ j \in 1 .. Len(rs)
      BY <1>2
    <3> HIDE DEF new
    <3> QED BY <1>3, <1>5, <3>1, Zenon
  <2> QED BY <2>1
<1>7. ASSUME NEW j \in 1 .. Len(rs) PROVE place[j] < k + 1
  <2>1. rs # << >>
    <3>1. Len(rs) # 0
      BY <1>2
    <3> QED BY <3>1, EmptySeq
  <2>2. /\ Len(rs) \in 1 .. Len(rs) /\ place[Len(rs)] \in 1 .. p /\ place[Len(rs)] - 1 \in 0 .. p
        /\ size < Len(LeftOf(place[Len(rs)] - 1, p)) /\ Len(LeftOf(place[Len(rs)] - 1, p)) \in Nat
    BY <1>1, <2>1, LastPlace DEF Behind
  <2> DEFINE q == place[Len(rs)] - 1
  <2>3. q \in Nat /\ place[Len(rs)] = q + 1 /\ place[Len(rs)] \in Nat
    BY <2>2
  <2>4. ~ (k <= q)
    <3> SUFFICES ASSUME k <= q PROVE FALSE
      OBVIOUS
    <3>1. k \in 0 .. q /\ q \in 0 .. p
      BY <1>3, <2>2, <2>3
    <3>2. Len(LeftOf(k, p)) \in Nat /\ Len(LeftOf(q, p)) \in Nat
            /\ Len(LeftOf(q, p)) <= Len(LeftOf(k, p))
      <4> HIDE DEF q
      <4> QED BY <3>1, LeftShrinks
    <3>3. size < Len(LeftOf(q, p))
      BY <2>2
    <3> HIDE DEF q
    <3> QED BY <3>2, <3>3
  <2>5. j = Len(rs) \/ place[j] < place[Len(rs)]
    <3>1. j = Len(rs) \/ j < Len(rs)
      BY <1>2
    <3> QED BY <1>1, <2>2, <3>1 DEF Placed
  <2>6. place[j] \in Nat
    <3>1. \A x \in 1 .. p : x \in Nat
      BY <1>3
    <3> HIDE DEF q, new
    <3> QED BY <1>5, <3>1, Zenon
  <2> HIDE DEF q
  <2> QED BY <1>3, <2>3, <2>4, <2>5, <2>6
<1> HIDE DEF all, new, size
<1>8. Placed(new, all, p)
  <2>1. ASSUME NEW j \in 1 .. Len(rs) + 1 PROVE ShownOf(all[j], Spelled(RoomMessages[new[j]]))
    <3>1. CASE j = Len(rs) + 1
      BY <1>4, <1>5, <3>1
    <3>2. CASE j \in 1 .. Len(rs)
      BY <1>1, <1>4, <1>5, <3>2 DEF Placed
    <3>3. j = Len(rs) + 1 \/ j \in 1 .. Len(rs)
      BY <1>2
    <3> QED BY <3>1, <3>2, <3>3
  <2>2. ASSUME NEW i \in 1 .. Len(rs) + 1, NEW j \in 1 .. Len(rs) + 1, i < j
        PROVE  new[i] < new[j]
    <3>1. i \in 1 .. Len(rs)
      BY <1>2, <2>2
    <3>2. CASE j = Len(rs) + 1
      BY <1>5, <1>7, <3>1, <3>2
    <3>3. CASE j \in 1 .. Len(rs)
      BY <1>1, <1>5, <2>2, <3>1, <3>3 DEF Placed
    <3>4. j = Len(rs) + 1 \/ j \in 1 .. Len(rs)
      BY <1>2
    <3> QED BY <3>2, <3>3, <3>4
  <2> QED BY <1>4, <1>6, <2>1, <2>2 DEF Placed
<1>9. Behind(new, all, p, less)
  BY <1>3, <1>4, <1>5 DEF Behind
<1> QED BY <1>8, <1>9 DEF PlacedBefore, all

(* The first of those shown is dropped.                                    *)
LEMMA PlacedTail ==
  ASSUME NEW S, NEW rs \in Seq(S), 1 < Len(rs), NEW p \in 0 .. Len(RoomMessages), NEW size,
         PlacedBefore(rs, p, size)
  PROVE  PlacedBefore(Tail(rs), p, size)
<1>1. PICK place : Placed(place, rs, p) /\ Behind(place, rs, p, size)
  BY DEF PlacedBefore
<1>2. Len(rs) \in Nat /\ rs # << >>
  <2>1. Len(rs) \in Nat /\ Len(rs) # 0
    BY LenProperties
  <2> QED BY <2>1, EmptySeq
<1> DEFINE l == Len(rs) - 1
           t == Tail(rs)
           new == [j \in 1 .. l |-> place[j + 1]]
<1>3. l \in Nat /\ l + 1 = Len(rs) /\ l \in 1 .. l
  BY <1>2
<1>4. t \in Seq(S) /\ Len(t) = l /\ \A j \in 1 .. l : t[j] = rs[j + 1]
  BY <1>2, HeadTailProperties
<1>5. \A j \in 1 .. l : new[j] = place[j + 1] /\ j + 1 \in 1 .. Len(rs) /\ j \in Nat
  BY <1>3
<1>6. new \in [1 .. l -> 1 .. p]
  <2>1. \A j \in 1 .. l : place[j + 1] \in 1 .. p
    BY <1>1, <1>5 DEF Placed
  <2> QED BY <2>1
<1> HIDE DEF l, t, new
<1>7. Placed(new, t, p)
  <2>1. ASSUME NEW j \in 1 .. l PROVE ShownOf(t[j], Spelled(RoomMessages[new[j]]))
    BY <1>1, <1>4, <1>5 DEF Placed
  <2>2. ASSUME NEW i \in 1 .. l, NEW j \in 1 .. l, i < j PROVE new[i] < new[j]
    <3>1. i + 1 < j + 1
      BY <1>5, <2>2
    <3> QED BY <1>1, <1>5, <3>1 DEF Placed
  <2> QED BY <1>4, <1>6, <2>1, <2>2 DEF Placed
<1>8. Behind(new, t, p, size)
  BY <1>1, <1>2, <1>3, <1>4, <1>5 DEF Behind
<1> QED BY <1>7, <1>8 DEF PlacedBefore, t

LEMMA PlacedPushed ==
  ASSUME NEW S, NEW rs \in Seq(S), NEW m \in S, NEW p \in 0 .. Len(RoomMessages), NEW size,
         PlacedBefore(Append(rs, m), p, size)
  PROVE  PlacedBefore(Pushed(rs, m), p, size)
<1> DEFINE all == Append(rs, m)
<1>1. all \in Seq(S) /\ KeptLines \in Nat /\ 1 <= KeptLines /\ Len(all) \in Nat
  BY AppendProperties, LenProperties, ClientAssumption
<1>2. Pushed(rs, m) = IF Len(all) > KeptLines THEN Tail(all) ELSE all
  BY DEF Pushed
<1> HIDE DEF all
<1>3. CASE Len(all) > KeptLines
  <2>1. 1 < Len(all)
    BY <1>1, <1>3
  <2>2. PlacedBefore(Tail(all), p, size)
    BY <1>1, <2>1, PlacedTail DEF all
  <2> QED BY <1>2, <1>3, <2>2
<1>4. CASE ~ (Len(all) > KeptLines)
  BY <1>2, <1>4 DEF all
<1> QED BY <1>3, <1>4

(* One more is sent.                                                       *)
LEMMA PlacedPosted ==
  ASSUME NEW S, NEW rs \in Seq(S), NEW p \in 0 .. Len(RoomMessages), p # Len(RoomMessages),
         NEW s \in Seq(Nat), PlacedBefore(rs, p, Len(s))
  PROVE  PlacedBefore(rs, p + 1, Len(s \o Written[RoomMessages[p + 1]].bytes))
<1> DEFINE w == Written[RoomMessages[p + 1]].bytes
<1>1. PICK place : Placed(place, rs, p) /\ Behind(place, rs, p, Len(s))
  BY DEF PlacedBefore
<1>2. Len(RoomMessages) \in Nat
  BY ClientAssumption, LenProperties
<1>3. p \in Nat /\ p + 1 \in 0 .. Len(RoomMessages) /\ p \in 0 .. p + 1
  BY <1>2
<1>4. Placed(place, rs, p + 1)
  <2>1. 1 .. p \subseteq 1 .. p + 1
    BY <1>3
  <2> QED BY <1>1, <2>1 DEF Placed
<1>5. ASSUME rs # << >>
      PROVE  Len(s \o w) < Len(LeftOf(place[Len(rs)] - 1, p + 1))
  <2> DEFINE q == place[Len(rs)] - 1
             a == LeftOf(q, p)
  <2>1. q \in 0 .. p /\ Len(s) < Len(a)
    BY <1>1, <1>5, LastPlace DEF Behind
  <2> HIDE DEF q, a
  <2>2. a \in Seq(Nat) /\ LeftOf(p, p + 1) \in Seq(Nat) /\ LeftOf(q, p + 1) = a \o LeftOf(p, p + 1)
        /\ LeftOf(p, p + 1) = w
    <3>1. /\ LeftOf(q, p + 1) = LeftOf(q, p) \o LeftOf(p, p + 1)
          /\ LeftOf(q, p) \in Seq(Nat) /\ LeftOf(p, p + 1) \in Seq(Nat)
      BY <1>3, <2>1, LeftSplit
    <3>2. LeftOf(p, p + 1) = w
      <4>1. p \in 0 .. p
        BY <1>3
      <4> QED BY <1>3, <4>1, LeftSplit
    <3> QED BY <3>1, <3>2 DEF a
  <2> HIDE DEF w
  <2>3. w \in Seq(Nat)
    BY <2>2
  <2>4. /\ Len(s \o w) = Len(s) + Len(w) /\ Len(a \o w) = Len(a) + Len(w)
        /\ Len(s) \in Nat /\ Len(a) \in Nat /\ Len(w) \in Nat
    BY <2>2, <2>3, ConcatProperties, LenProperties
  <2>5. Len(s \o w) < Len(a \o w)
    BY <2>1, <2>4
  <2>6. a \o w = LeftOf(q, p + 1)
    BY <2>2
  <2> QED BY <2>5, <2>6 DEF q
<1> QED BY <1>4, <1>5 DEF PlacedBefore, Behind

-----------------------------------------------------------------------------
(* In main's loop no login is anywhere, and what is shown lies before what *)
(* has not been read.                                                      *)

Quiet ==
  pc \in Receiving /\ link = "open" =>
    unanswered = << >> /\ \A k \in 1 .. Len(toItems) : toItems[k].message.type # "LOGIN"
ShownInv == ~ ragged /\ ~ strayed => Quiet /\ PlacedBefore(received, posted, Len(toClient))

LEMMA NoItems ==
  ASSUME NEW items, Carries(<< >>, items)
  PROVE  items = << >>
<1>1. items \in Seq(Item) /\ Len(<< >>) = UpTo(items, Len(items)) /\ Len(items) \in Nat
  BY LenProperties DEF Carries
<1>2. Len(<< >>) = 0
  OBVIOUS
<1>3. Len(items) = 0
  <2> SUFFICES ASSUME Len(items) # 0 PROVE FALSE
    OBVIOUS
  <2>1. Len(items) \in 1 .. Len(items)
    BY <1>1
  <2>2. items[Len(items)].left \in 1 .. Len(Written[items[Len(items)].message].bytes)
    BY <2>1 DEF Carries
  <2>3. /\ UpTo(items, Len(items) - 1) \in Nat /\ items[Len(items)].left \in Nat
        /\ UpTo(items, Len(items)) = UpTo(items, Len(items) - 1) + items[Len(items)].left
    BY <1>1, <2>1, ItemLeft
  <2>4. 1 <= items[Len(items)].left
    <3>1. \A x \in Nat : \A y : x \in 1 .. y => 1 <= x
      OBVIOUS
    <3> QED BY <2>2, <2>3, <3>1, Zenon
  <2> QED BY <1>1, <1>2, <2>3, <2>4
<1> QED BY <1>1, <1>3, EmptySeq

(* A recv that begins with a message shows it.                             *)
LEMMA FirstShown ==
  ASSUME NEW p \in 0 .. Len(RoomMessages), NEW k \in 0 .. p, NEW s, s = LeftOf(k, p),
         NEW n \in 1 .. Min({Len(s), BufLen}),
         Decode(SubSeq(s, 1, n)).type = "RECIEVE"
  PROVE  k # p /\ ShownOf(Decode(SubSeq(s, 1, n)), Spelled(RoomMessages[k + 1]))
<1> DEFINE d == SubSeq(s, 1, n)
           m == RoomMessages[k + 1]
           w == Written[m].bytes
           rest == LeftOf(k + 1, p)
<1>1. Len(RoomMessages) \in Nat
  BY ClientAssumption, LenProperties
<1>2. p \in Nat /\ k \in Nat
  BY <1>1
<1>3. k \in 0 .. k /\ p \in 0 .. p
  BY <1>2
<1>4. s \in Seq(Nat)
  BY <1>3, LeftSplit
<1>5. /\ n \in 1 .. Len(s) /\ n \in Nat /\ ByteBase * n <= Words /\ d \in Seq(Nat) /\ Len(d) = n
      /\ \A j \in 1 .. n : d[j] = s[j]
  BY <1>4, CutFacts
<1>6. k # p
  <2> SUFFICES ASSUME k = p PROVE FALSE
    OBVIOUS
  <2>1. s = << >>
    BY <1>3, LeftSplit
  <2>2. Len(s) = 0
    BY <2>1
  <2> QED BY <1>5, <2>2
<1>7. k + 1 \in 0 .. p /\ k \in 0 .. k + 1 /\ k + 1 \in 1 .. Len(RoomMessages)
  BY <1>1, <1>2, <1>6
<1>8. s = w \o rest /\ rest \in Seq(Nat)
  <2>1. LeftOf(k, p) = LeftOf(k, k + 1) \o LeftOf(k + 1, p) /\ LeftOf(k + 1, p) \in Seq(Nat)
        /\ LeftOf(k, k + 1) = w
    BY <1>7, LeftSplit
  <2> QED BY <2>1
<1>9. Proper(m) /\ m \in Sendable
  BY <1>7, PostedProper
<1>10. w = WriteMessage(m).bytes /\ w \in Seq(Nat) /\ Len(w) \in Nat /\ 2 * Len(w) <= Words
  BY <1>9, SendableWritten
<1> HIDE DEF d, m, w, rest
<1>11. \A j \in 1 .. Len(w) : s[j] = w[j]
  <2>1. /\ \A j \in 1 .. Len(w) + Len(rest) :
             (w \o rest)[j] = IF j <= Len(w) THEN w[j] ELSE rest[j - Len(w)]
        /\ Len(rest) \in Nat
    BY <1>8, <1>10, ConcatProperties, LenProperties
  <2> DEFINE t == w \o rest
  <2>2. s = t /\ \A j \in 1 .. Len(w) + Len(rest) : t[j] = IF j <= Len(w) THEN w[j] ELSE rest[j - Len(w)]
    BY <1>8, <2>1
  <2> HIDE DEF t
  <2> QED BY <1>10, <2>1, <2>2
<1>12. Agrees(d, 0, WriteMessage(m).bytes)
  <2>1. ASSUME NEW j \in 1 .. Len(w), 0 + j <= Len(d) PROVE d[0 + j] = w[j]
    <3>1. j \in 1 .. n /\ 0 + j = j
      BY <1>5, <1>10, <2>1
    <3> QED BY <1>5, <1>11, <3>1
  <2> QED BY <1>10, <2>1 DEF Agrees
<1>13. /\ Len(WriteMessage(m).bytes) <= Len(d) => Decode(d) = Spelled(m)
       /\ Len(d) < Len(WriteMessage(m).bytes) => Decode(d) \in {EmptyLogin} \union Cuts(Spelled(m))
  <2>1. ByteBase * Len(d) <= Words /\ 2 * Len(WriteMessage(m).bytes) <= Words
    BY <1>5, <1>10
  <2> QED BY <1>5, <1>9, <1>12, <2>1, ReadBack
<1>14. Decode(d) \in {EmptyLogin, Spelled(m)} \union Cuts(Spelled(m))
  <2>1. Len(w) <= Len(d) \/ Len(d) < Len(w)
    BY <1>5, <1>10
  <2> QED BY <1>10, <1>13, <2>1
<1>15. Decode(d) # EmptyLogin
  BY DEF EmptyLogin, d
<1>16. ShownOf(Decode(d), Spelled(m))
  BY <1>14, <1>15 DEF Cuts, ShownOf
<1> QED BY <1>6, <1>16 DEF d, m

LEMMA ShownInit ==
  ASSUME Init
  PROVE  ShownInv
<1>1. pc = "option" /\ received = << >>
  BY DEF Init
<1>2. Quiet
  BY <1>1 DEF Quiet, Receiving
<1> QED BY <1>1, <1>2, PlacedEmpty DEF ShownInv

(* Nothing is shown in loginLoop.                                          *)
LEMMA NothingShown ==
  ASSUME LoginInv, InLogin, received' = received,
         ~ ragged' /\ ~ strayed' => Quiet'
  PROVE  ShownInv'
<1>1. received' = << >>
  BY DEF LoginInv, NoJoin
<1>2. PlacedBefore(received', posted', Len(toClient)')
  BY <1>1, PlacedEmpty
<1> QED BY <1>2 DEF ShownInv

LEMMA ShownAwaited ==
  ASSUME StreamInv, LoginInv, AwaitAnswer
  PROVE  ShownInv'
<1>1. /\ unanswered' = unanswered /\ received' = received /\ pc = "await" /\ InLogin
      /\ link' = link /\ toItems' = toItems
  BY DEF AwaitAnswer, serverVars, InLogin
<1>2. ragged' \/ ~ ragged
  BY DEF AwaitAnswer
<1>3. toClient # << >>
  <2> SUFFICES ASSUME toClient = << >> PROVE FALSE
    OBVIOUS
  <2>1. PICK n \in RecvLengths : TRUE
    BY DEF AwaitAnswer
  <2>2. toClient \in Seq(Nat)
    BY StreamParts
  <2>3. n \in 1 .. Len(toClient)
    BY <2>1, <2>2, CutFacts DEF RecvLengths
  <2> QED BY <2>3
<1>4. ASSUME ~ ragged', link' = "open" PROVE unanswered' = << >> /\ toItems' = << >>
  <2>1. Answered
    BY <1>1, <1>2, <1>3, <1>4 DEF LoginInv, OneLogin, Awaited, SentLogin, ReadLogin
  <2>2. Carries(<< >>, toItems)
    BY <2>1, StreamParts DEF Answered
  <2> QED BY <1>1, <2>1, <2>2, NoItems DEF Answered
<1>5. ASSUME ~ ragged' PROVE Quiet'
  <2>1. 1 .. Len(<< >>) = {}
    OBVIOUS
  <2> QED BY <1>4, <1>5, <2>1 DEF Quiet
<1> QED BY <1>1, <1>5, NothingShown

LEMMA ShownShows ==
  ASSUME StreamInv, ShownInv, Show
  PROVE  ShownInv'
<1>1. /\ pc \in Receiving /\ unanswered' = unanswered /\ posted' = posted /\ ragged' = ragged
      /\ link' = link /\ toItems' = toItems
      /\ strayed' = (strayed \/ \A k \in 0 .. posted : toClient # Left(k))
  BY DEF Show, serverVars
<1>2. PICK n \in RecvLengths :
        /\ Take(n)
        /\ received' = IF Decode(Recv(n)).type = "RECIEVE" THEN Pushed(received, Decode(Recv(n)))
                       ELSE received
  BY DEF Show
<1>3. /\ toClient \in Seq(Nat) /\ received \in Seq(Decoded) /\ posted \in 0 .. Len(RoomMessages)
      /\ posted \in Nat
  <2>1. toClient \in Seq(Nat) /\ received \in Seq(Decoded) /\ posted \in 0 .. Len(RoomMessages)
        /\ Len(RoomMessages) \in Nat
    BY StreamParts
  <2> QED BY <2>1
<1> DEFINE d == Decode(Recv(n))
<1>4. /\ n \in 1 .. Len(toClient) /\ n \in Nat /\ Recv(n) \in Seq(Nat)
      /\ toClient' \in Seq(Nat) /\ Len(toClient') = Len(toClient) - n /\ Len(toClient) \in Nat
  BY <1>2, <1>3, CutFacts, LenProperties DEF RecvLengths, Recv, Take
<1>5. Len(toClient') \in Nat /\ Len(toClient') < Len(toClient)
  BY <1>4
<1>6. d \in Decoded
  BY <1>4 DEF Decoded
<1>7. ASSUME ~ ragged', ~ strayed' PROVE Quiet' /\ PlacedBefore(received, posted, Len(toClient))
  <2>1. Quiet /\ PlacedBefore(received, posted, Len(toClient))
    BY <1>1, <1>7 DEF ShownInv
  <2>2. Quiet'
    BY <1>1, <2>1 DEF Quiet
  <2> QED BY <2>1, <2>2
<1>8. ASSUME ~ ragged', ~ strayed' PROVE PlacedBefore(received', posted, Len(toClient'))
  <2>1. PlacedBefore(received, posted, Len(toClient))
    BY <1>7, <1>8
  <2>2. CASE d.type = "RECIEVE"
    <3>1. PICK k \in 0 .. posted : toClient = LeftOf(k, posted)
      BY <1>1, <1>8 DEF Left, LeftOf
    <3>2. k # posted /\ ShownOf(d, Spelled(RoomMessages[k + 1]))
      <4>1. n \in 1 .. Min({Len(toClient), BufLen})
        BY DEF RecvLengths
      <4> QED BY <1>3, <2>2, <3>1, <4>1, FirstShown DEF Recv
    <3> DEFINE more == Append(received, d)
               less == Len(toClient')
    <3>3. PlacedBefore(received, posted, Len(LeftOf(k, posted))) /\ less < Len(LeftOf(k, posted))
      BY <1>5, <2>1, <3>1
    <3>4. less \in Nat
      BY <1>5
    <3>5. PlacedBefore(more, posted, less)
      <4> HIDE DEF d, less
      <4> QED BY <1>3, <1>6, <3>2, <3>3, <3>4, PlacedMore
    <3>6. PlacedBefore(Pushed(received, d), posted, less)
      <4> HIDE DEF d, less
      <4> QED BY <1>3, <1>6, <3>5, PlacedPushed
    <3>7. received' = Pushed(received, d)
      BY <1>2, <2>2
    <3> QED BY <3>6, <3>7
  <2>3. CASE d.type # "RECIEVE"
    <3>1. received' = received
      BY <1>2, <2>3
    <3> DEFINE less == Len(toClient')
    <3>2. less \in Nat /\ less <= Len(toClient)
      BY <1>4, <1>5
    <3>3. PlacedBefore(received, posted, less)
      <4> HIDE DEF less
      <4> QED BY <1>3, <1>4, <2>1, <3>2, PlacedKept
    <3> QED BY <3>1, <3>3
  <2> QED BY <2>2, <2>3
<1>9. ASSUME ~ ragged', ~ strayed' PROVE ShownInv'
  BY <1>1, <1>7, <1>8, <1>9 DEF ShownInv
<1> QED BY <1>9 DEF ShownInv

(* What the server reads is no login, once main's loop is entered.         *)
LEMMA NoLoginRead ==
  ASSUME StreamInv, toItems # << >>, Whole(toItems[1]), toItems[1].message.type # "LOGIN",
         NEW n \in 1 .. Min({Len(toServer), BufLen})
  PROVE  LET m == Decode(SubSeq(toServer, 1, n))
         IN ~ (m.type = "LOGIN" /\ \E l \in Logins : Bytes[l] = m.name)
<1> DEFINE m == toItems[1].message
           d == Decode(SubSeq(toServer, 1, n))
<1>1. Carries(toServer, toItems)
  BY StreamParts
<1>2. /\ Len(Written[m].bytes) <= n => d = Spelled(m)
      /\ n < Len(Written[m].bytes) => d \in {EmptyLogin} \union Cuts(Spelled(m))
      /\ m \in Sendable /\ n \in Nat
  BY <1>1, FirstAgrees
<1>3. Len(Written[m].bytes) \in Nat
  BY <1>2, SendableWritten
<1>4. d \in {EmptyLogin, Spelled(m)} \union Cuts(Spelled(m))
  <2>1. Len(Written[m].bytes) <= n \/ n < Len(Written[m].bytes)
    BY <1>2, <1>3
  <2> HIDE DEF d, m
  <2> QED BY <1>2, <2>1
<1>5. m.type # "LOGIN"
  OBVIOUS
<1> HIDE DEF d, m
<1>6. CASE d = EmptyLogin
  <2>1. d.name = << >>
    BY <1>6 DEF EmptyLogin
  <2>2. \A l \in Logins : Bytes[l] # << >>
    BY LoginBytesFacts
  <2> QED BY <2>1, <2>2 DEF d
<1>7. CASE d \in {Spelled(m)} \union Cuts(Spelled(m))
  <2>1. Spelled(m) = Read(m.type, Bytes[m.name], Bytes[m.room], TextBytes(m.text))
    BY DEF Spelled, Read
  <2>2. d.type = m.type
    <3> DEFINE a == Bytes[m.name]
               b == Bytes[m.room]
               c == TextBytes(m.text)
    <3>1. d \in {Read(m.type, a, b, c)} \union Cuts(Read(m.type, a, b, c))
      BY <1>7, <2>1
    <3> HIDE DEF a, b, c
    <3>2. d \in {Read(m.type, a, b, c), Read(m.type, a, b, << >>), Read(m.type, a, << >>, << >>),
                 Read(m.type, << >>, << >>, << >>)}
      BY <3>1, CutsOfRead
    <3> QED BY <3>2 DEF Read
  <2> QED BY <1>5, <2>2 DEF d
<1> QED BY <1>4, <1>6, <1>7

LEMMA ShownReads ==
  ASSUME StreamInv, LoginInv, ShownInv, ServerReads
  PROVE  ShownInv'
<1>1. /\ pc' = pc /\ received' = received /\ posted' = posted /\ toClient' = toClient
      /\ link' = link /\ ragged' = ragged /\ toServer # << >>
      /\ strayed' = (strayed \/ toItems[1].left < Len(Written[toItems[1].message].bytes))
  BY DEF ServerReads, clientVars
<1>2. PICK n \in 1 .. Min({Len(toServer), BufLen}) :
        LET m == Decode(SubSeq(toServer, 1, n)) IN
        /\ toItems' = Untaken(toItems, n)
        /\ unanswered' = IF m.type = "LOGIN" /\ \E l \in Logins : Bytes[l] = m.name
             THEN Append(unanswered, CHOOSE l \in Logins : Bytes[l] = m.name) ELSE unanswered
  BY DEF ServerReads
<1>3. /\ toServer \in Seq(Nat) /\ toItems \in Seq(Item) /\ Carries(toServer, toItems)
      /\ Len(toServer) = UpTo(toItems, Len(toItems))
  BY StreamParts DEF Carries
<1>4. n \in Nat
  BY <1>2, <1>3, CutFacts
<1>5. ASSUME ~ ragged', ~ strayed', pc' \in Receiving, link' = "open"
      PROVE  unanswered' = << >> /\ \A k \in 1 .. Len(toItems') : toItems'[k].message.type # "LOGIN"
  <2>1. unanswered = << >> /\ \A k \in 1 .. Len(toItems) : toItems[k].message.type # "LOGIN"
    BY <1>1, <1>5 DEF ShownInv, Quiet
  <2>2. toItems # << >> /\ 1 \in 1 .. Len(toItems)
    <3>1. Len(toItems) \in Nat /\ Len(toServer) # 0 /\ UpTo(toItems, 0) = 0
      BY <1>1, <1>3, LenProperties, EmptySeq, UpToSteps
    <3>2. Len(toItems) # 0
      BY <1>3, <3>1
    <3> QED BY <3>1, <3>2, EmptySeq
  <2>3. Whole(toItems[1])
    <3>1. toItems[1].left \in 1 .. Len(Written[toItems[1].message].bytes)
      BY <1>3, <2>2 DEF Carries
    <3>2. ~ (toItems[1].left < Len(Written[toItems[1].message].bytes))
      BY <1>1, <1>5
    <3>3. toItems[1].left \in Nat /\ Len(Written[toItems[1].message].bytes) \in Nat
      BY <1>3, <2>2, ItemLeft, SendableWritten
    <3>4. \A x \in Nat, y \in Nat : x \in 1 .. y /\ ~ (x < y) => x = y
      OBVIOUS
    <3> QED BY <3>1, <3>2, <3>3, <3>4, Zenon DEF Whole
  <2>4. unanswered' = << >>
    <3>1. toItems[1].message.type # "LOGIN"
      BY <2>1, <2>2
    <3> QED BY <1>2, <2>1, <2>2, <2>3, <3>1, NoLoginRead
  <2>5. ASSUME NEW k \in 1 .. Len(toItems') PROVE toItems'[k].message.type # "LOGIN"
    <3>1. PICK q \in 0 .. Len(toItems) :
            /\ Len(Untaken(toItems, n)) = Len(toItems) - q
            /\ \A j \in 1 .. Len(toItems) - q : Untaken(toItems, n)[j].message = toItems[q + j].message
      BY <1>3, <1>4, UntakenFacts
    <3>2. Len(toItems) \in Nat
      BY <1>3, LenProperties
    <3>3. k \in 1 .. Len(toItems) - q
      BY <1>2, <2>5, <3>1
    <3>4. q + k \in 1 .. Len(toItems)
      BY <3>2, <3>3
    <3> QED BY <1>2, <2>1, <3>1, <3>3, <3>4
  <2> QED BY <2>4, <2>5
<1>6. ASSUME ~ ragged', ~ strayed' PROVE Quiet'
  BY <1>5, <1>6 DEF Quiet
<1>7. ASSUME ~ ragged', ~ strayed' PROVE PlacedBefore(received', posted', Len(toClient)')
  BY <1>1, <1>7 DEF ShownInv
<1> QED BY <1>6, <1>7 DEF ShownInv

LEMMA ShownEntered ==
  ASSUME StreamInv, ShownInv, EnterCommand
  PROVE  ShownInv'
<1>1. /\ unanswered' = unanswered /\ posted' = posted /\ ragged' = ragged /\ strayed' = strayed
      /\ received' = received /\ pc \in Receiving
  BY DEF EnterCommand, serverVars, histories, Receiving
<1>2. toItems \in Seq(Item) /\ Len(toItems) \in Nat
  BY StreamParts, LenProperties DEF Carries
<1>3. /\ toClient' = toClient \/ toClient' = << >>
      /\ link' = "open" =>
           /\ link = "open"
           /\ \A k \in 1 .. Len(toItems') :
                \/ k \in 1 .. Len(toItems) /\ toItems'[k] = toItems[k]
                \/ toItems'[k].message.type # "LOGIN"
  <2>1. CASE link = "rst" /\ UNCHANGED << link, toServer, toItems, toClient >>
    BY <2>1
  <2>2. CASE \E l \in Lines : Transmit(CommandMessage(l))
    <3>1. PICK l \in Lines : Transmit(CommandMessage(l))
      BY <2>2
    <3> DEFINE m == CommandMessage(l)
               it == [message |-> m, left |-> Len(Written[m].bytes)]
    <3>2. m.type \in {"SEND", "JOIN", "LEAVE"} /\ m \in Sendable
      BY CommandProper
    <3>3. it \in Item /\ it.message = m
      BY <3>2, SendableWritten DEF Item
    <3> HIDE DEF m
    <3>4. \/ link = "open" /\ toItems' = Append(toItems, it) /\ toClient' = toClient
          \/ link' = "rst" /\ toClient' = << >>
      BY <3>1 DEF Transmit, m
    <3> HIDE DEF it
    <3>5. /\ Len(Append(toItems, it)) = Len(toItems) + 1 /\ Append(toItems, it)[Len(toItems) + 1] = it
          /\ \A k \in 1 .. Len(toItems) : Append(toItems, it)[k] = toItems[k]
      BY <1>2, <3>3, AppendProperties
    <3>6. \A k \in 1 .. Len(toItems) + 1 : k \in 1 .. Len(toItems) \/ k = Len(toItems) + 1
      BY <1>2
    <3> DEFINE all == Append(toItems, it)
    <3>7. ASSUME NEW k \in 1 .. Len(all)
          PROVE  (k \in 1 .. Len(toItems) /\ all[k] = toItems[k]) \/ all[k].message.type # "LOGIN"
      BY <3>2, <3>3, <3>5, <3>6
    <3> HIDE DEF all
    <3> QED BY <3>4, <3>7 DEF all
  <2> QED BY <2>1, <2>2 DEF EnterCommand
<1>4. ASSUME ~ ragged', ~ strayed' PROVE Quiet'
  <2>1. Quiet
    BY <1>1, <1>4 DEF ShownInv
  <2> QED BY <1>1, <1>3, <2>1 DEF Quiet
<1>5. ASSUME ~ ragged', ~ strayed' PROVE PlacedBefore(received', posted', Len(toClient)')
  <2>1. PlacedBefore(received, posted, Len(toClient))
    BY <1>1, <1>5 DEF ShownInv
  <2>2. /\ received \in Seq(Decoded) /\ posted \in 0 .. Len(RoomMessages) /\ Len(toClient) \in Nat
    BY StreamParts, LenProperties
  <2>3. Len(<< >>) = 0
    OBVIOUS
  <2> DEFINE less == Len(toClient')
  <2>4. less \in Nat /\ less <= Len(toClient)
    BY <1>3, <2>2, <2>3
  <2> HIDE DEF less
  <2>5. PlacedBefore(received, posted, less)
    BY <2>1, <2>2, <2>4, PlacedKept
  <2> QED BY <1>1, <2>5 DEF less
<1> QED BY <1>4, <1>5 DEF ShownInv

LEMMA ShownPosted ==
  ASSUME StreamInv, ShownInv, ServerPosts
  PROVE  ShownInv'
<1>1. /\ unanswered' = unanswered /\ link' = link /\ ragged' = ragged /\ strayed' = strayed
      /\ toItems' = toItems /\ pc' = pc /\ received' = received
      /\ posted < Len(RoomMessages) /\ posted' = posted + 1
      /\ toClient' = toClient \o Written[RoomMessages[posted + 1]].bytes
  BY DEF ServerPosts, histories, clientVars
<1>2. /\ received \in Seq(Decoded) /\ toClient \in Seq(Nat) /\ posted \in 0 .. Len(RoomMessages)
      /\ Len(RoomMessages) \in Nat
  BY StreamParts
<1>3. posted # Len(RoomMessages)
  BY <1>1, <1>2
<1>4. ASSUME ~ ragged', ~ strayed' PROVE Quiet' /\ PlacedBefore(received', posted', Len(toClient'))
  <2>1. Quiet /\ PlacedBefore(received, posted, Len(toClient))
    BY <1>1, <1>4 DEF ShownInv
  <2>2. Quiet'
    BY <1>1, <2>1 DEF Quiet
  <2>3. PlacedBefore(received, posted + 1, Len(toClient \o Written[RoomMessages[posted + 1]].bytes))
    BY <1>2, <1>3, <2>1, PlacedPosted
  <2> QED BY <1>1, <2>2, <2>3, Zenon
<1> QED BY <1>4 DEF ShownInv

LEMMA ShownEnds ==
  ASSUME StreamInv, ShownInv, ServerEnds
  PROVE  ShownInv'
<1>1. /\ posted' = posted /\ ragged' = ragged /\ strayed' = strayed /\ received' = received
      /\ link' # "open" /\ (toClient' = toClient \/ toClient' = << >>)
  BY DEF ServerEnds, clientVars, serverVars, histories
<1>2. /\ received \in Seq(Decoded) /\ posted \in 0 .. Len(RoomMessages) /\ Len(toClient) \in Nat
  BY StreamParts, LenProperties
<1>3. ASSUME ~ ragged', ~ strayed' PROVE PlacedBefore(received', posted', Len(toClient'))
  <2>1. PlacedBefore(received, posted, Len(toClient))
    BY <1>1, <1>3 DEF ShownInv
  <2>2. Len(<< >>) = 0
    OBVIOUS
  <2> DEFINE less == Len(toClient')
  <2>3. less \in Nat /\ less <= Len(toClient)
    BY <1>1, <1>2, <2>2
  <2> HIDE DEF less
  <2>4. PlacedBefore(received, posted, less)
    BY <1>2, <2>1, <2>3, PlacedKept
  <2> QED BY <1>1, <2>4 DEF less
<1> QED BY <1>1, <1>3 DEF ShownInv, Quiet

LEMMA ShownStep ==
  ASSUME StreamInv, LoginInv, ShownInv, [Next]_vars
  PROVE  ShownInv'
<1>1. ASSUME EnterLogin PROVE ShownInv'
  <2>1. InLogin /\ received' = received
    BY <1>1 DEF EnterLogin, InLogin
  <2>2. Quiet'
    BY <1>1 DEF EnterLogin, Quiet, Receiving
  <2> QED BY <2>1, <2>2, NothingShown
<1>2. ASSUME AwaitEnds PROVE ShownInv'
  <2>1. InLogin /\ received' = received
    BY <1>2 DEF AwaitEnds, InLogin
  <2>2. Quiet'
    BY <1>2 DEF AwaitEnds, Quiet
  <2> QED BY <2>1, <2>2, NothingShown
<1>3. ASSUME Escape \/ RecvFails \/ RecvNothing PROVE ShownInv'
  <2>1. /\ pc \in Receiving /\ UNCHANGED << serverVars, histories, received, link, toItems, toClient >>
    BY <1>3 DEF Escape, RecvFails, RecvNothing, Receiving
  <2> QED BY <2>1 DEF ShownInv, Quiet, serverVars, histories
<1>4. ASSUME pc # "ended", ServerAnswers PROVE ShownInv'
  <2>1. /\ pc' = pc /\ received' = received /\ ragged' = ragged /\ strayed' = strayed
        /\ link = "open" /\ unanswered # << >>
    BY <1>4 DEF ServerAnswers, clientVars, histories
  <2>2. CASE InLogin
    <3>1. Quiet'
      BY <2>1, <2>2 DEF Quiet, InLogin, Receiving
    <3> QED BY <2>1, <2>2, <3>1, NothingShown
  <2>3. CASE ~ InLogin
    <3>1. pc \in Receiving
      BY <1>4, <2>3, StreamParts DEF InLogin, Receiving
    <3>2. ragged \/ strayed
      BY <2>1, <3>1 DEF ShownInv, Quiet
    <3> QED BY <2>1, <3>2 DEF ShownInv
  <2> QED BY <2>2, <2>3
<1>5. ASSUME UNCHANGED vars PROVE ShownInv'
  BY <1>5 DEF vars, clientVars, serverVars, histories, ShownInv, Quiet
<1> QED BY <1>1, <1>2, <1>3, <1>4, <1>5, ShownAwaited, ShownShows, ShownReads, ShownEntered,
           ShownPosted, ShownEnds
        DEF Next, Keys, ClientStep, Server

(* The invariant of main's loop.                                           *)
THEOREM ShownInvariant == Spec => []ShownInv
<1>1. Init => ShownInv
  BY ShownInit
<1>2. StreamInv /\ LoginInv /\ ShownInv /\ [Next]_vars => ShownInv'
  BY ShownStep
<1> QED BY <1>1, <1>2, StreamInvariant, LoginInvariant, PTL DEF Spec

(* What the client shows is what the rooms have sent it, in that order and *)
(* each once, as long as no recv begins inside a message.                  *)
THEOREM AlwaysShownSent == Spec => []ShownWasSent
<1>1. ASSUME ShownInv PROVE ShownWasSent
  <2> SUFFICES ASSUME ~ ragged, ~ strayed
               PROVE  \E place \in [1 .. Len(received) -> 1 .. posted] :
                        /\ \A k \in DOMAIN place : ShownOf(received[k], Spelled(RoomMessages[place[k]]))
                        /\ \A j, k \in DOMAIN place : j < k => place[j] < place[k]
    BY DEF ShownWasSent
  <2>1. PICK place : Placed(place, received, posted)
    BY <1>1 DEF ShownInv, PlacedBefore
  <2>2. place \in [1 .. Len(received) -> 1 .. posted] /\ DOMAIN place = 1 .. Len(received)
    BY <2>1 DEF Placed
  <2> QED BY <2>1, <2>2 DEF Placed
<1> QED BY <1>1, ShownInvariant, PTL

-----------------------------------------------------------------------------
(* A recv that begins inside a message: ints of four bytes.                *)

Value(b, x1, x2, x3, x4) == x1 + b * (x2 + b * (x3 + b * x4))

LEMMA DigitBelow ==
  ASSUME NEW b \in Nat, NEW l \in Nat, l < b, NEW x \in Nat, NEW y \in Nat, x < y
  PROVE  l + b * x \in Nat /\ l + b * x < b * y /\ x <= b * x /\ x <= l + b * x
<1>1. PICK p \in Nat : p = b * x
  BY TimesNat
<1>2. l + b * x < b * y
  BY TimesLess
<1>3. x <= p
  <2>1. x * 1 <= x * b
    BY TimesMonotone
  <2> QED BY <1>1, <2>1
<1> QED BY <1>1, <1>2, <1>3

LEMMA DigitGap ==
  ASSUME NEW b \in Nat, NEW l \in Nat, l < b, NEW x \in Nat, NEW y \in Nat, x + 1 < y
  PROVE  (l + b * x) + b < b * y
<1>1. PICK z \in Nat : z = x + 1
  OBVIOUS
<1>2. l + b * z < b * y
  BY <1>1, TimesLess
<1>3. b * (x + 1) = b * x + b
  OBVIOUS
<1>4. PICK p \in Nat : p = b * x
  BY TimesNat
<1>5. PICK q \in Nat : q = b * y
  BY TimesNat
<1>6. l + (p + b) < q
  BY <1>1, <1>2, <1>3, <1>4, <1>5
<1>7. (l + p) + b < q
  BY <1>6
<1> QED BY <1>4, <1>5, <1>7

(* A digit that is neither 0 (or 1) nor the greatest makes a number that   *)
(* is not small and not at the end of the range.                           *)
LEMMA DigitSkips ==
  ASSUME NEW b \in Nat, 17 <= b,
         NEW x1 \in Nat, NEW x2 \in Nat, NEW x3 \in Nat, NEW x4 \in Nat,
         x1 < b, x2 < b, x3 < b, x4 < b,
         (2 <= x2 /\ x2 + 1 < b) \/ (1 <= x3 /\ x3 + 1 < b) \/ (1 <= x4 /\ x4 + 1 < b)
  PROVE  /\ Value(b, x1, x2, x3, x4) \in Nat /\ 2 * b <= Value(b, x1, x2, x3, x4)
         /\ Value(b, x1, x2, x3, x4) + 16 < b * (b * (b * b))
<1>1. PICK y3 \in Nat : y3 = x3 + b * x4
  BY TimesNat, PlusNat
<1>2. PICK y2 \in Nat : y2 = x2 + b * y3
  BY TimesNat, PlusNat
<1>3. PICK v \in Nat : v = x1 + b * y2
  BY TimesNat, PlusNat
<1>4. PICK c2 \in Nat : c2 = b * b
  BY TimesNat
<1>5. PICK c3 \in Nat : c3 = b * c2
  BY TimesNat
<1>6. PICK c4 \in Nat : c4 = b * c3
  BY TimesNat
<1>7. y3 < c2 /\ x4 <= y3 /\ (1 <= x4 => b <= y3)
  <2>1. y3 < c2
    BY <1>1, <1>4, DigitBelow
  <2>2. x4 <= y3
    BY <1>1, DigitBelow
  <2>3. ASSUME 1 <= x4 PROVE b <= y3
    <3>1. b * 1 <= b * x4
      BY <2>3, TimesMonotone
    <3>2. PICK p \in Nat : p = b * x4
      BY TimesNat
    <3>3. b <= p
      BY <3>1, <3>2
    <3> QED BY <1>1, <3>2, <3>3
  <2> QED BY <2>1, <2>2, <2>3
<1>8. y2 < c3 /\ (1 <= y3 => b <= y2)
  <2>1. y2 < c3
    BY <1>2, <1>5, <1>7, DigitBelow
  <2>2. ASSUME 1 <= y3 PROVE b <= y2
    <3>1. b * 1 <= b * y3
      BY <2>2, TimesMonotone
    <3>2. PICK p \in Nat : p = b * y3
      BY TimesNat
    <3>3. b <= p
      BY <3>1, <3>2
    <3> QED BY <1>2, <3>2, <3>3
  <2> QED BY <2>1, <2>2
<1>9. 2 <= y2
  <2>1. CASE 2 <= x2
    <3>1. PICK p \in Nat : p = b * y3
      BY TimesNat
    <3> QED BY <1>2, <2>1, <3>1
  <2>2. CASE 1 <= x3
    <3>1. PICK p \in Nat : p = b * x4
      BY TimesNat
    <3>2. 1 <= y3
      BY <1>1, <2>2, <3>1
    <3> QED BY <1>8, <3>2
  <2>3. CASE 1 <= x4
    BY <1>7, <1>8, <2>3
  <2> QED BY <2>1, <2>2, <2>3
<1>10. 2 * b <= v
  <2>1. b * 2 <= b * y2
    BY <1>9, TimesMonotone
  <2>2. PICK p \in Nat : p = b * y2
    BY TimesNat
  <2>3. 2 * b <= p
    BY <2>1, <2>2
  <2> QED BY <1>3, <2>2, <2>3
<1>11. v + b < c4
  <2>1. y2 + 1 < c3
    <3>1. CASE x2 + 1 < b
      <4>1. PICK z \in Nat : z = x2 + 1
        OBVIOUS
      <4>2. z + b * y3 < b * c2
        BY <1>7, <3>1, <4>1, TimesLess
      <4>3. PICK p \in Nat : p = b * y3
        BY TimesNat
      <4> QED BY <1>2, <1>5, <4>1, <4>2, <4>3
    <3>2. CASE (x3 + 1 < b) \/ (x4 + 1 < b)
      <4>1. y3 + 1 < c2
        <5>1. CASE x3 + 1 < b
          <6>1. PICK z \in Nat : z = x3 + 1
            OBVIOUS
          <6>2. z + b * x4 < b * b
            BY <5>1, <6>1, TimesLess
          <6>3. PICK p \in Nat : p = b * x4
            BY TimesNat
          <6> QED BY <1>1, <1>4, <6>1, <6>2, <6>3
        <5>2. CASE x4 + 1 < b
          <6>1. (x3 + b * x4) + b < b * b
            BY <5>2, DigitGap
          <6> QED BY <1>1, <1>4, <6>1
        <5> QED BY <3>2, <5>1, <5>2
      <4>2. (x2 + b * y3) + b < b * c2
        BY <4>1, DigitGap
      <4> QED BY <1>2, <1>5, <4>2
    <3> QED BY <3>1, <3>2
  <2>2. (x1 + b * y2) + b < b * c3
    BY <2>1, DigitGap
  <2> QED BY <1>3, <1>6, <2>2
<1>12. v = Value(b, x1, x2, x3, x4) /\ c4 = b * (b * (b * b))
  <2>1. v = Value(b, x1, x2, x3, x4)
    BY <1>1, <1>2, <1>3, Zenon DEF Value
  <2>2. c4 = b * (b * (b * b))
    BY <1>4, <1>5, <1>6, Zenon
  <2> QED BY <2>1, <2>2
<1>13. 2 * b <= v /\ v + 16 < c4
  BY <1>10, <1>11
<1> QED BY <1>12, <1>13, Zenon

LEMMA ValueType ==
  ASSUME NEW b \in Nat, NEW x1 \in Nat, NEW x2 \in Nat, NEW x3 \in Nat, NEW x4 \in Nat
  PROVE  Value(b, x1, x2, x3, x4) \in Nat /\ x1 <= Value(b, x1, x2, x3, x4)
<1>1. PICK y3 \in Nat : y3 = x3 + b * x4
  BY TimesNat, PlusNat
<1>2. PICK y2 \in Nat : y2 = x2 + b * y3
  BY TimesNat, PlusNat
<1>3. PICK p \in Nat : p = b * y2
  BY TimesNat
<1>4. x1 + p = Value(b, x1, x2, x3, x4)
  BY <1>1, <1>2, <1>3, Zenon DEF Value
<1>5. x1 + p \in Nat /\ x1 <= x1 + p
  OBVIOUS
<1> QED BY <1>4, <1>5, Zenon

LEMMA ProductOne ==
  ASSUME NEW b \in Nat, NEW x \in Nat, NEW l \in Nat, l + b * x < b
  PROVE  x = 0 /\ l + b * x = l
<1>1. PICK p \in Nat : p = b * x
  BY TimesNat
<1>2. x = 0
  <2> SUFFICES ASSUME 1 <= x PROVE FALSE
    OBVIOUS
  <2>1. b * 1 <= b * x
    BY TimesMonotone
  <2>2. b <= p
    BY <1>1, <2>1
  <2> QED BY <1>1, <2>2
<1>3. b * 0 = 0
  OBVIOUS
<1>4. p = 0
  BY <1>1, <1>2, <1>3, Zenon
<1> QED BY <1>1, <1>2, <1>4

LEMMA ProductZero ==
  ASSUME NEW b \in Nat, 1 <= b, NEW x \in Nat, NEW l \in Nat, l + b * x = 0
  PROVE  x = 0 /\ l = 0
<1>1. PICK p \in Nat : p = b * x
  BY TimesNat
<1>2. p = 0 /\ l = 0
  BY <1>1
<1>3. x <= p
  <2>1. x * 1 <= x * b
    BY TimesMonotone
  <2> QED BY <1>1, <2>1
<1> QED BY <1>2, <1>3

LEMMA DigitsSmall ==
  ASSUME NEW b \in Nat, 1 <= b,
         NEW x1 \in Nat, NEW x2 \in Nat, NEW x3 \in Nat, NEW x4 \in Nat,
         Value(b, x1, x2, x3, x4) < b
  PROVE  x2 = 0 /\ x3 = 0 /\ x4 = 0 /\ Value(b, x1, x2, x3, x4) = x1
<1>1. PICK y3 \in Nat : y3 = x3 + b * x4
  BY TimesNat, PlusNat
<1>2. PICK y2 \in Nat : y2 = x2 + b * y3
  BY TimesNat, PlusNat
<1>3. x1 + b * y2 = Value(b, x1, x2, x3, x4)
  BY <1>1, <1>2, Zenon DEF Value
<1>4. y2 = 0 /\ x1 + b * y2 = x1
  <2>1. x1 + b * y2 < b
    BY <1>3, Zenon
  <2> QED BY <2>1, ProductOne, Zenon
<1>5. y3 = 0 /\ x2 = 0
  <2>1. x2 + b * y3 = 0
    BY <1>2, <1>4
  <2> QED BY <2>1, ProductZero, Zenon
<1>6. x4 = 0 /\ x3 = 0
  <2>1. x3 + b * x4 = 0
    BY <1>1, <1>5
  <2> QED BY <2>1, ProductZero, Zenon
<1> QED BY <1>3, <1>4, <1>5, <1>6, Zenon

(* A letter and the first three bytes of the length of a message.          *)
LEMMA LengthSkips ==
  ASSUME NEW b \in Nat, 17 <= b, NEW x \in Nat, x < b,
         NEW l1 \in Nat, NEW l2 \in Nat, NEW l3 \in Nat, NEW l4 \in Nat,
         NEW n \in Nat, n = Value(b, l1, l2, l3, l4), 2 <= n, b * (2 * n) <= b * (b * (b * b))
  PROVE  /\ Value(b, x, l1, l2, l3) \in Nat /\ 2 * b <= Value(b, x, l1, l2, l3)
         /\ Value(b, x, l1, l2, l3) + 16 < b * (b * (b * b))
<1>1. PICK y3 \in Nat : y3 = l3 + b * l4
  BY TimesNat, PlusNat
<1>2. PICK y2 \in Nat : y2 = l2 + b * y3
  BY TimesNat, PlusNat
<1>3. n = l1 + b * y2
  BY <1>1, <1>2, Zenon DEF Value
<1>4. PICK c2 \in Nat : c2 = b * b
  BY TimesNat
<1>5. PICK c3 \in Nat : c3 = b * c2
  BY TimesNat
<1>6. PICK c4 \in Nat : c4 = b * c3
  BY TimesNat
<1>7. c4 = b * (b * (b * b))
  BY <1>4, <1>5, <1>6, Zenon
<1>8. 2 * n <= c3
  <2>1. PICK m \in Nat : m = 2 * n
    OBVIOUS
  <2>2. b * m <= b * c3
    BY <1>6, <1>7, <2>1, Zenon
  <2>3. m <= c3
    BY <2>2, TimesRight
  <2> QED BY <2>1, <2>3
<1>9. l4 = 0
  <2> SUFFICES ASSUME 1 <= l4 PROVE FALSE
    OBVIOUS
  <2>1. b * 1 <= b * l4
    BY TimesMonotone
  <2>2. b <= y3
    <3>1. PICK p \in Nat : p = b * l4
      BY TimesNat
    <3>2. b <= p
      BY <2>1, <3>1
    <3> QED BY <1>1, <3>1, <3>2
  <2>3. c2 <= y2
    <3>1. b * b <= b * y3
      BY <2>2, TimesMonotone
    <3>2. PICK p \in Nat : p = b * y3
      BY TimesNat
    <3>3. c2 <= p
      BY <1>4, <3>1, <3>2
    <3> QED BY <1>2, <3>2, <3>3
  <2>4. c3 <= n
    <3>1. b * c2 <= b * y2
      BY <2>3, TimesMonotone
    <3>2. PICK p \in Nat : p = b * y2
      BY TimesNat
    <3>3. c3 <= p
      BY <1>5, <3>1, <3>2
    <3> QED BY <1>3, <3>2, <3>3
  <2> QED BY <1>8, <2>4
<1>10. y3 = l3
  <2>1. b * 0 = 0 /\ l3 + 0 = l3
    OBVIOUS
  <2> QED BY <1>1, <1>9, <2>1, Zenon
<1>11. Value(b, x, l1, l2, l3) = x + b * n
  BY <1>2, <1>3, <1>10, Zenon DEF Value
<1>12. PICK p \in Nat : p = b * n
  BY TimesNat
<1>13. 2 * b <= p
  <2>1. b * 2 <= b * n
    BY TimesMonotone
  <2> QED BY <1>12, <2>1
<1>14. (x + p) + b < c4
  <2>1. n + 1 < c3
    BY <1>8
  <2>2. (x + b * n) + b < b * c3
    BY <2>1, DigitGap
  <2> QED BY <1>6, <1>12, <2>2
<1>15. x + p \in Nat /\ 2 * b <= x + p /\ (x + p) + 16 < c4
  BY <1>13, <1>14
<1> QED BY <1>7, <1>11, <1>12, <1>15, Zenon

LEMMA WordsFour ==
  ASSUME IntSize = 4
  PROVE  Words = ByteBase * (ByteBase * (ByteBase * ByteBase))
<1>1. PICK p \in [Nat -> Nat] :
        p[0] = 1 /\ (\A k \in Nat : p[k + 1] = ByteBase * p[k]) /\ Words = p[IntSize]
  BY WordsPower
<1>2. 0 \in Nat /\ 1 \in Nat /\ 2 \in Nat /\ 3 \in Nat /\ 0 + 1 = 1 /\ 1 + 1 = 2 /\ 2 + 1 = 3 /\ 3 + 1 = 4
  OBVIOUS
<1>3. /\ p[1] = ByteBase * p[0] /\ p[2] = ByteBase * p[1] /\ p[3] = ByteBase * p[2]
      /\ p[4] = ByteBase * p[3]
  <2>1. p[0 + 1] = ByteBase * p[0] /\ p[1 + 1] = ByteBase * p[1]
    BY <1>1, <1>2, Zenon
  <2>2. p[2 + 1] = ByteBase * p[2] /\ p[3 + 1] = ByteBase * p[3]
    BY <1>1, <1>2, Zenon
  <2> QED BY <1>2, <2>1, <2>2, Zenon
<1>4. p[1] = ByteBase
  <2>1. ByteBase * 1 = ByteBase
    BY Sizes
  <2> QED BY <1>1, <1>3, <2>1, Zenon
<1> QED BY <1>1, <1>3, <1>4, Zenon

LEMMA IntOfFour ==
  ASSUME IntSize = 4, NEW bs \in Seq(Nat), Len(bs) = 4
  PROVE  IntOf(bs) = Value(ByteBase, bs[1], bs[2], bs[3], bs[4])
<1>1. bs \in Seq(Int)
  BY SeqMonotonic
<1>2. PICK f \in [Nat -> Int] :
        /\ f[0] = 0 /\ \A k \in 0 .. IntSize - 1 : f[k + 1] = bs[IntSize - k] + ByteBase * f[k]
        /\ IntOf(bs) = f[IntSize]
  BY <1>1, IntOfFolded
<1>3. /\ 0 \in 0 .. IntSize - 1 /\ 1 \in 0 .. IntSize - 1 /\ 2 \in 0 .. IntSize - 1 /\ 3 \in 0 .. IntSize - 1
      /\ IntSize - 0 = 4 /\ IntSize - 1 = 3 /\ IntSize - 2 = 2 /\ IntSize - 3 = 1
      /\ 0 + 1 = 1 /\ 1 + 1 = 2 /\ 2 + 1 = 3 /\ 3 + 1 = 4
  OBVIOUS
<1>4. /\ f[1] = bs[4] + ByteBase * f[0] /\ f[2] = bs[3] + ByteBase * f[1]
      /\ f[3] = bs[2] + ByteBase * f[2] /\ f[4] = bs[1] + ByteBase * f[3]
  <2>1. f[0 + 1] = bs[IntSize - 0] + ByteBase * f[0] /\ f[1 + 1] = bs[IntSize - 1] + ByteBase * f[1]
    BY <1>2, <1>3, Zenon
  <2>2. f[2 + 1] = bs[IntSize - 2] + ByteBase * f[2] /\ f[3 + 1] = bs[IntSize - 3] + ByteBase * f[3]
    BY <1>2, <1>3, Zenon
  <2> QED BY <1>3, <2>1, <2>2, Zenon
<1>5. bs[4] \in Nat
  <2>1. 4 \in 1 .. Len(bs)
    OBVIOUS
  <2> QED BY <2>1, ElementOfSeq, Zenon
<1>6. f[1] = bs[4]
  <2>1. ByteBase * 0 = 0 /\ bs[4] + 0 = bs[4]
    BY <1>5, Sizes
  <2> QED BY <1>2, <1>4, <2>1, Zenon
<1>7. IntOf(bs) = f[4]
  BY <1>2, Zenon
<1> QED BY <1>4, <1>6, <1>7, Zenon DEF Value

LEMMA FourBytes ==
  ASSUME IntSize = 4, NEW n \in Nat, n < Words
  PROVE  LET v == IntBytes(n)
         IN /\ v \in Seq(Nat) /\ Len(v) = 4 /\ \A k \in 1 .. 4 : v[k] \in Nat /\ v[k] < ByteBase
            /\ Value(ByteBase, v[1], v[2], v[3], v[4]) = n
<1> DEFINE v == IntBytes(n)
<1>1. v \in Seq(Nat) /\ Len(v) = 4 /\ \A k \in 1 .. 4 : v[k] < ByteBase
  BY IntBytesType
<1>2. IntOf(v) = n
  BY IntIsReadBack
<1> HIDE DEF v
<1>3. \A k \in 1 .. 4 : v[k] \in Nat
  BY <1>1, ElementOfSeq
<1>4. Value(ByteBase, v[1], v[2], v[3], v[4]) = n
  BY <1>1, <1>2, IntOfFour, Zenon
<1> QED BY <1>1, <1>3, <1>4 DEF v

-----------------------------------------------------------------------------
(* Where the bytes of a message are, when an int has four of them.         *)

IsChar(c) == c \in Nat /\ Space <= c /\ 2 * c < ByteBase
Char == {c \in Nat : IsChar(c)}

LEMMA TextChars ==
  ASSUME WordsAreLong, NEW ws \in Seq(DOMAIN Bytes)
  PROVE  TextBytes(ws) \in Seq(Char)
<1> DEFINE Spaced(k) == (IF k = 1 THEN << >> ELSE << Space >>) \o Bytes[ws[k]]
           pieces == [k \in 1 .. Len(ws) |-> Spaced(k)]
<1>1. ASSUME NEW s \in DOMAIN Bytes PROVE Bytes[s] \in Seq(Char)
  <2>1. Bytes[s] \in Seq(Nat) /\ Len(Bytes[s]) \in Nat
    BY BytesType, LenProperties
  <2>2. ASSUME NEW k \in 1 .. Len(Bytes[s]) PROVE Bytes[s][k] \in Char
    <3>1. Bytes[s][k] \in Nat
      BY <2>1, ElementOfSeq
    <3>2. Space <= Bytes[s][k] /\ 2 * Bytes[s][k] < ByteBase
      BY WireAssumption DEF WordsAreLong
    <3> QED BY <3>1, <3>2 DEF Char, IsChar
  <2>3. Bytes[s] \in [1 .. Len(Bytes[s]) -> Nat]
    BY <2>1, LenProperties
  <2>4. Bytes[s] \in [1 .. Len(Bytes[s]) -> Char]
    BY <2>2, <2>3
  <2> QED BY <2>1, <2>4, FunctionIsSeq
<1>2. Space \in Char
  BY DEF Char, IsChar, WordsAreLong, Space
<1>3. ASSUME NEW k \in 1 .. Len(ws) PROVE Spaced(k) \in Seq(Char)
  <2>1. ws[k] \in DOMAIN Bytes
    BY ElementOfSeq
  <2>2. Bytes[ws[k]] \in Seq(Char)
    BY <1>1, <2>1
  <2>3. (IF k = 1 THEN << >> ELSE << Space >>) \in Seq(Char)
    BY <1>2
  <2> QED BY <2>2, <2>3, ConcatProperties
<1>4. Len(ws) \in Nat /\ pieces \in [1 .. Len(ws) -> Seq(Char)]
  <2> HIDE DEF Spaced
  <2> QED BY <1>3, LenProperties
<1>5. TextBytes(ws) = FlattenSeq(pieces)
  BY DEF TextBytes
<1> HIDE DEF pieces
<1>6. pieces \in Seq(Seq(Char))
  BY <1>4, FunctionIsSeq
<1> QED BY <1>5, <1>6, FlattenType

LEMMA BytesChars ==
  ASSUME WordsAreLong, NEW s \in DOMAIN Bytes
  PROVE  Bytes[s] \in Seq(Char)
<1>1. Bytes[s] \in Seq(Nat) /\ Len(Bytes[s]) \in Nat
  BY BytesType, LenProperties
<1>2. ASSUME NEW k \in 1 .. Len(Bytes[s]) PROVE Bytes[s][k] \in Char
  <2>1. Bytes[s][k] \in Nat
    BY <1>1, ElementOfSeq
  <2>2. Space <= Bytes[s][k] /\ 2 * Bytes[s][k] < ByteBase
    BY WireAssumption DEF WordsAreLong
  <2> QED BY <2>1, <2>2 DEF Char, IsChar
<1>3. Bytes[s] \in [1 .. Len(Bytes[s]) -> Nat]
  BY <1>1, LenProperties
<1>4. Bytes[s] \in [1 .. Len(Bytes[s]) -> Char]
  BY <1>2, <1>3
<1> QED BY <1>1, <1>4, FunctionIsSeq

IsBytes(w) == w \in Seq(Nat) /\ Len(w) \in Nat /\ \A k \in 1 .. Len(w) : w[k] \in Nat /\ w[k] < ByteBase

LEMMA CharsAreBytes ==
  ASSUME NEW s \in Seq(Char)
  PROVE  IsBytes(s) /\ \A k \in 1 .. Len(s) : IsChar(s[k])
<1>1. Char \subseteq Nat
  BY DEF Char
<1>2. s \in Seq(Nat) /\ Len(s) \in Nat
  BY <1>1, SeqMonotonic, LenProperties
<1>3. ASSUME NEW k \in 1 .. Len(s) PROVE IsChar(s[k]) /\ s[k] \in Nat /\ s[k] < ByteBase
  <2>1. s[k] \in Char
    BY ElementOfSeq
  <2>2. IsChar(s[k]) /\ s[k] \in Nat /\ 2 * s[k] < ByteBase
    BY <2>1 DEF Char, IsChar
  <2> QED BY <2>2, Sizes
<1> QED BY <1>2, <1>3 DEF IsBytes

Joined(x, y, z) ==
  /\ IsBytes(z) /\ Len(z) = Len(x) + Len(y)
  /\ \A k \in 1 .. Len(x) : z[k] = x[k]
  /\ \A k \in 1 .. Len(y) : z[Len(x) + k] = y[k]

LEMMA JoinedBytes ==
  ASSUME NEW x, IsBytes(x), NEW y, IsBytes(y)
  PROVE  Joined(x, y, x \o y)
<1>1. x \in Seq(Nat) /\ y \in Seq(Nat) /\ Len(x) \in Nat /\ Len(y) \in Nat
  BY DEF IsBytes
<1> DEFINE z == x \o y
<1>2. /\ z \in Seq(Nat) /\ Len(z) = Len(x) + Len(y)
      /\ \A k \in 1 .. Len(x) + Len(y) : z[k] = IF k <= Len(x) THEN x[k] ELSE y[k - Len(x)]
  BY <1>1, ConcatProperties, Zenon
<1> HIDE DEF z
<1>3. ASSUME NEW k \in 1 .. Len(x) PROVE z[k] = x[k]
  BY <1>1, <1>2
<1>4. ASSUME NEW k \in 1 .. Len(y) PROVE z[Len(x) + k] = y[k]
  <2>1. Len(x) + k \in 1 .. Len(x) + Len(y) /\ ~ (Len(x) + k <= Len(x)) /\ (Len(x) + k) - Len(x) = k
    BY <1>1
  <2> QED BY <1>2, <2>1, Zenon
<1>5. ASSUME NEW k \in 1 .. Len(z) PROVE z[k] \in Nat /\ z[k] < ByteBase
  <2>1. CASE k \in 1 .. Len(x)
    BY <1>3, <2>1 DEF IsBytes
  <2>2. CASE k \notin 1 .. Len(x)
    <3>1. k - Len(x) \in 1 .. Len(y) /\ Len(x) + (k - Len(x)) = k
      BY <1>1, <1>2, <2>2
    <3>2. z[k] = y[k - Len(x)]
      BY <1>4, <3>1
    <3> QED BY <3>1, <3>2 DEF IsBytes
  <2> QED BY <2>1, <2>2
<1>6. IsBytes(z)
  BY <1>1, <1>2, <1>5 DEF IsBytes
<1>7. Joined(x, y, z)
  BY <1>2, <1>3, <1>4, <1>6 DEF Joined
<1> QED BY <1>7 DEF z

LEMMA IntIsBytes ==
  ASSUME IntSize = 4, NEW n \in Nat, n < Words
  PROVE  LET v == IntBytes(n)
         IN IsBytes(v) /\ Len(v) = 4 /\ Value(ByteBase, v[1], v[2], v[3], v[4]) = n
<1> DEFINE v == IntBytes(n)
<1>1. /\ v \in Seq(Nat) /\ Len(v) = 4 /\ (\A k \in 1 .. 4 : v[k] \in Nat /\ v[k] < ByteBase)
      /\ Value(ByteBase, v[1], v[2], v[3], v[4]) = n
  BY FourBytes
<1> HIDE DEF v
<1>2. IsBytes(v)
  BY <1>1 DEF IsBytes
<1> QED BY <1>1, <1>2 DEF v

(* The bytes of w up to the length of the first string.                    *)
ValueAt(w, k) == Value(ByteBase, w[k], w[k + 1], w[k + 2], w[k + 3])
Starts(w, length, code, room) ==
  /\ IsBytes(w) /\ ValueAt(w, 1) = length
  /\ w[5] = code /\ w[6] = 0 /\ w[7] = 0 /\ w[8] = 0
  /\ ValueAt(w, 9) = room

Begun(w, length, code, room, rest) ==
  /\ Starts(w, length, code, room) /\ Len(w) = 12 + Len(rest)
  /\ \A k \in 1 .. Len(rest) : w[12 + k] = rest[k]

LEMMA HeaderThen ==
  ASSUME IntSize = 4, NEW length \in Nat, length < Words, NEW code \in Nat, code < ByteBase,
         NEW room \in Nat, room < Words, NEW x, IsBytes(x)
  PROVE  Begun(HeaderBytes(length, code) \o (IntBytes(room) \o x), length, code, room, x)
<1> DEFINE u == IntBytes(length)
           v == IntBytes(code)
           r == IntBytes(room)
           h == u \o v
           y == r \o x
           w == h \o y
<1>1. IsBytes(u) /\ Len(u) = 4 /\ Value(ByteBase, u[1], u[2], u[3], u[4]) = length
  BY IntIsBytes
<1>2. IsBytes(v) /\ Len(v) = 4 /\ Value(ByteBase, v[1], v[2], v[3], v[4]) = code
  <2>1. code < Words
    BY WordsType, Sizes
  <2> QED BY <2>1, IntIsBytes
<1>3. IsBytes(r) /\ Len(r) = 4 /\ Value(ByteBase, r[1], r[2], r[3], r[4]) = room
  BY IntIsBytes
<1> HIDE DEF u, v, r
<1>4. IsBytes(h) /\ Len(h) = 4 + 4 /\ (\A k \in 1 .. 4 : h[k] = u[k]) /\ (\A k \in 1 .. 4 : h[4 + k] = v[k])
  <2>1. Joined(u, v, h)
    BY <1>1, <1>2, JoinedBytes, Zenon
  <2> HIDE DEF h
  <2> QED BY <1>1, <1>2, <2>1 DEF Joined
<1>5. IsBytes(y) /\ Len(y) = 4 + Len(x) /\ (\A k \in 1 .. 4 : y[k] = r[k]) /\ (\A k \in 1 .. Len(x) : y[4 + k] = x[k])
  <2>1. Joined(r, x, y)
    BY <1>3, JoinedBytes, Zenon
  <2> HIDE DEF y
  <2> QED BY <1>3, <2>1 DEF Joined
<1> HIDE DEF h, y
<1>6. IsBytes(w) /\ Len(w) = Len(h) + Len(y) /\ (\A k \in 1 .. Len(h) : w[k] = h[k])
      /\ (\A k \in 1 .. Len(y) : w[Len(h) + k] = y[k])
  <2>1. Joined(h, y, w)
    BY <1>4, <1>5, JoinedBytes, Zenon
  <2> HIDE DEF w
  <2> QED BY <2>1 DEF Joined
<1> HIDE DEF w
<1>7. Len(x) \in Nat
  BY DEF IsBytes
<1>8. w[1] = u[1] /\ w[2] = u[2] /\ w[3] = u[3] /\ w[4] = u[4]
  <2>1. \A k \in 1 .. 4 : w[k] = u[k]
    BY <1>4, <1>6
  <2> QED BY <2>1
<1>9. w[5] = v[1] /\ w[6] = v[2] /\ w[7] = v[3] /\ w[8] = v[4]
  <2>1. \A k \in 1 .. 4 : w[4 + k] = v[k]
    <3>1. \A k \in 1 .. 4 : 4 + k \in 1 .. Len(h)
      BY <1>4
    <3> QED BY <1>4, <1>6, <3>1
  <2> QED BY <2>1
<1>10. w[9] = r[1] /\ w[10] = r[2] /\ w[11] = r[3] /\ w[12] = r[4]
  <2>1. \A k \in 1 .. 4 : w[8 + k] = r[k]
    BY <1>4, <1>5, <1>6, <1>7
  <2> QED BY <2>1
<1>11. ASSUME NEW k \in 1 .. Len(x) PROVE w[12 + k] = x[k]
  <2>1. 4 + k \in 1 .. Len(y) /\ Len(h) + (4 + k) = 12 + k
    BY <1>4, <1>5, <1>7
  <2> QED BY <1>5, <1>6, <2>1
<1>12. v[1] = code /\ v[2] = 0 /\ v[3] = 0 /\ v[4] = 0
  <2>1. v[1] \in Nat /\ v[2] \in Nat /\ v[3] \in Nat /\ v[4] \in Nat
    BY <1>2 DEF IsBytes
  <2>2. ByteBase \in Nat /\ 1 <= ByteBase
    BY Sizes
  <2>3. Value(ByteBase, v[1], v[2], v[3], v[4]) < ByteBase
    BY <1>2, Zenon
  <2>4. v[2] = 0 /\ v[3] = 0 /\ v[4] = 0 /\ Value(ByteBase, v[1], v[2], v[3], v[4]) = v[1]
    BY <2>1, <2>2, <2>3, DigitsSmall, Zenon
  <2> QED BY <1>2, <2>4, Zenon
<1>13. ValueAt(w, 1) = length /\ ValueAt(w, 9) = room
  <2>1. 1 + 1 = 2 /\ 1 + 2 = 3 /\ 1 + 3 = 4 /\ 9 + 1 = 10 /\ 9 + 2 = 11 /\ 9 + 3 = 12
    OBVIOUS
  <2> QED BY <1>1, <1>3, <1>8, <1>10, <2>1, Zenon DEF ValueAt
<1>14. Starts(w, length, code, room)
  BY <1>6, <1>9, <1>12, <1>13, Zenon DEF Starts
<1>15. Len(w) = 12 + Len(x)
  BY <1>4, <1>5, <1>6, <1>7
<1>16. w = HeaderBytes(length, code) \o (IntBytes(room) \o x)
  BY Zenon DEF w, h, y, u, v, r, HeaderBytes
<1> HIDE DEF w
<1>17. Begun(w, length, code, room, x)
  BY <1>11, <1>14, <1>15, Zenon DEF Begun
<1> QED BY <1>16, <1>17, Zenon

Chars(w, from, to) == \A k \in from .. to : IsChar(w[k])

(* The bytes of a message a client sends: `room' characters of the first   *)
(* string and, of a SEND, `text' of the second.                            *)
Shape(w, room, text) ==
  /\ room \in Nat /\ text \in Nat /\ 2 <= room
  /\ w[5] \in 0 .. 3 /\ Starts(w, Len(w), w[5], room)
  /\ ByteBase * (2 * Len(w)) <= Words
  /\ Chars(w, 13, 12 + room)
  /\ w[5] = 0 => Len(w) < ByteBase
  /\ w[5] # 3 => Len(w) = 12 + room
  /\ w[5] = 3 => /\ 1 <= text /\ Len(w) = (16 + room) + text /\ ValueAt(w, 13 + room) = text
                 /\ Chars(w, 17 + room, (16 + room) + text)

LEMMA SizeBelow ==
  ASSUME NEW n \in Nat, 1 <= n, ByteBase * (2 * n) <= Words
  PROVE  n < Words
<1>1. PICK m \in Nat : m = 2 * n
  OBVIOUS
<1>2. PICK p \in Nat : p = ByteBase * m
  BY TimesNat, Sizes
<1>3. p <= Words
  BY <1>1, <1>2, Zenon
<1>4. 1 * m <= ByteBase * m
  <2>1. m * 1 <= m * ByteBase
    BY Sizes, TimesMonotone
  <2> QED BY <2>1, Sizes
<1>5. m <= p
  BY <1>2, <1>4
<1> QED BY <1>1, <1>3, <1>5, WordsType

LEMMA OneShape ==
  ASSUME WordsAreLong, NEW code \in 0 .. 2, NEW s \in Seq(Char), 2 <= Len(s),
         code = 0 => 12 + Len(s) < ByteBase,
         NEW w, w = HeaderBytes(12 + Len(s), code) \o FieldBytes(s),
         ByteBase * (2 * (12 + Len(s))) <= Words
  PROVE  Shape(w, Len(s), 0)
<1>1. IntSize = 4 /\ 64 < ByteBase
  BY DEF WordsAreLong, Space
<1>2. IsBytes(s) /\ Len(s) \in Nat /\ \A k \in 1 .. Len(s) : IsChar(s[k])
  BY CharsAreBytes DEF IsBytes
<1> DEFINE n == 12 + Len(s)
<1>3. n \in Nat /\ n < Words /\ Len(s) < Words
  <2>1. n \in Nat /\ 1 <= n /\ Len(s) <= n
    BY <1>2
  <2>2. n < Words
    BY <2>1, SizeBelow
  <2> HIDE DEF n
  <2> QED BY <1>2, <2>1, <2>2, WordsType
<1>4. code \in Nat /\ code < ByteBase
  BY <1>1, Sizes
<1> HIDE DEF n
<1>5. w = HeaderBytes(n, code) \o (IntBytes(Len(s)) \o s)
  BY Zenon DEF n, FieldBytes
<1>6. Starts(w, n, code, Len(s)) /\ Len(w) = 12 + Len(s) /\ \A k \in 1 .. Len(s) : w[12 + k] = s[k]
  <2>1. Begun(w, n, code, Len(s), s)
    BY <1>1, <1>2, <1>3, <1>4, <1>5, HeaderThen, Zenon
  <2> QED BY <2>1, Zenon DEF Begun
<1>7. Chars(w, 13, 12 + Len(s))
  <2>1. ASSUME NEW k \in 13 .. 12 + Len(s) PROVE IsChar(w[k])
    <3>1. k - 12 \in 1 .. Len(s) /\ 12 + (k - 12) = k
      BY <1>2
    <3>2. w[12 + (k - 12)] = s[k - 12]
      BY <1>6, <3>1, Zenon
    <3> QED BY <1>2, <3>1, <3>2, Zenon
  <2> QED BY <2>1 DEF Chars
<1>8. Len(w) = n
  BY <1>6 DEF n
<1>9. w[5] = code /\ Starts(w, Len(w), w[5], Len(s))
  BY <1>6, <1>8, Zenon DEF Starts
<1>10. ByteBase * (2 * Len(w)) <= Words
  BY <1>8, Zenon DEF n
<1>11. w[5] \in 0 .. 3 /\ w[5] # 3
  <2>1. code \in 0 .. 3 /\ code # 3
    OBVIOUS
  <2> QED BY <1>9, <2>1, Zenon
<1>12. w[5] = 0 => Len(w) < ByteBase
  BY <1>6, <1>9
<1>13. 0 \in Nat
  OBVIOUS
<1> QED BY <1>2, <1>6, <1>7, <1>9, <1>10, <1>11, <1>12, <1>13, Zenon DEF Shape

LEMMA TwoShape ==
  ASSUME WordsAreLong, NEW s \in Seq(Char), 2 <= Len(s), NEW t \in Seq(Char), t # << >>,
         NEW n \in Nat, n = (16 + Len(s)) + Len(t),
         NEW w, w = (HeaderBytes(n, 3) \o FieldBytes(s)) \o FieldBytes(t),
         ByteBase * (2 * n) <= Words
  PROVE  Shape(w, Len(s), Len(t))
<1>1. IntSize = 4 /\ 64 < ByteBase
  BY DEF WordsAreLong, Space
<1>2. IsBytes(s) /\ Len(s) \in Nat /\ \A k \in 1 .. Len(s) : IsChar(s[k])
  BY CharsAreBytes DEF IsBytes
<1>3. IsBytes(t) /\ Len(t) \in Nat /\ \A k \in 1 .. Len(t) : IsChar(t[k])
  BY CharsAreBytes DEF IsBytes
<1>4. 1 <= Len(t)
  BY <1>3, EmptySeq
<1>5. n < Words /\ Len(s) < Words /\ Len(t) < Words
  <2>1. 1 <= n /\ Len(s) <= n /\ Len(t) <= n
    BY <1>2, <1>3
  <2>2. n < Words
    BY <2>1, SizeBelow
  <2> QED BY <1>2, <1>3, <2>1, <2>2, WordsType
<1> DEFINE r == IntBytes(Len(s))
           h == HeaderBytes(n, 3)
           f == FieldBytes(t)
           x == s \o f
<1>6. /\ IsBytes(IntBytes(Len(t))) /\ Len(IntBytes(Len(t))) = 4
      /\ Value(ByteBase, IntBytes(Len(t))[1], IntBytes(Len(t))[2], IntBytes(Len(t))[3],
               IntBytes(Len(t))[4]) = Len(t)
  BY <1>1, <1>3, <1>5, IntIsBytes
<1>7. IsBytes(r) /\ Len(r) = 4
  BY <1>1, <1>2, <1>5, IntIsBytes
<1>8. Joined(IntBytes(Len(t)), t, f)
  BY <1>3, <1>6, JoinedBytes, Zenon DEF FieldBytes
<1> HIDE DEF r, f
<1>9. Joined(s, f, x)
  <2>1. IsBytes(f)
    BY <1>8, Zenon DEF Joined
  <2> QED BY <1>2, <2>1, JoinedBytes, Zenon
<1>10. w = h \o (r \o x)
  <2>1. h \in Seq(Nat) /\ r \in Seq(Nat) /\ s \in Seq(Nat) /\ f \in Seq(Nat)
    <3>1. 3 \in Nat /\ IntBytes(n) \in Seq(Nat) /\ IntBytes(3) \in Seq(Nat)
      BY IntBytesType, <1>1, WordsType
    <3>2. h \in Seq(Nat)
      BY <3>1, ConcatProperties DEF HeaderBytes
    <3> HIDE DEF h
    <3> QED BY <1>2, <1>7, <1>8, <3>2 DEF IsBytes, Joined
  <2> HIDE DEF h
  <2>2. w = (h \o (r \o s)) \o f
    BY Zenon DEF h, r, f, FieldBytes
  <2>3. r \o s \in Seq(Nat)
    BY <2>1, ConcatProperties
  <2>4. (h \o (r \o s)) \o f = h \o ((r \o s) \o f)
    <3>1. Associates(h, r \o s, f)
      BY <2>1, <2>3, Associative, Zenon
    <3> QED BY <3>1, Zenon DEF Associates
  <2>5. (r \o s) \o f = r \o (s \o f)
    <3>1. Associates(r, s, f)
      BY <2>1, Associative, Zenon
    <3> QED BY <3>1, Zenon DEF Associates
  <2> QED BY <2>2, <2>4, <2>5, Zenon
<1> HIDE DEF x
<1>11. IsBytes(x)
  BY <1>9, Zenon DEF Joined
<1>12. Starts(w, n, 3, Len(s)) /\ Len(w) = 12 + Len(x) /\ \A k \in 1 .. Len(x) : w[12 + k] = x[k]
  <2>1. 3 \in Nat /\ 3 < ByteBase
    BY <1>1, Sizes
  <2>2. w = HeaderBytes(n, 3) \o (IntBytes(Len(s)) \o x)
    BY <1>10, Zenon DEF h, r
  <2>3. Begun(w, n, 3, Len(s), x)
    BY <1>1, <1>2, <1>5, <1>11, <2>1, <2>2, HeaderThen, Zenon
  <2> QED BY <2>3, Zenon DEF Begun
<1> HIDE DEF h
<1>13. /\ Len(f) = 4 + Len(t) /\ (\A k \in 1 .. 4 : f[k] = IntBytes(Len(t))[k])
       /\ (\A k \in 1 .. Len(t) : f[4 + k] = t[k])
  BY <1>6, <1>8 DEF Joined
<1>14. /\ Len(x) = Len(s) + Len(f) /\ (\A k \in 1 .. Len(s) : x[k] = s[k])
       /\ (\A k \in 1 .. Len(f) : x[Len(s) + k] = f[k])
  BY <1>9 DEF Joined
<1>15. Len(w) = n
  BY <1>2, <1>3, <1>12, <1>13, <1>14
<1>16. Chars(w, 13, 12 + Len(s))
  <2>1. ASSUME NEW k \in 13 .. 12 + Len(s) PROVE IsChar(w[k])
    <3>1. k - 12 \in 1 .. Len(s) /\ k - 12 \in 1 .. Len(x) /\ 12 + (k - 12) = k
      BY <1>2, <1>3, <1>13, <1>14
    <3>2. w[12 + (k - 12)] = s[k - 12]
      BY <1>12, <1>14, <3>1, Zenon
    <3> QED BY <1>2, <3>1, <3>2, Zenon
  <2> QED BY <2>1 DEF Chars
<1>17. ASSUME NEW k \in 1 .. 4 + Len(t) PROVE w[(12 + Len(s)) + k] = f[k]
  <2>1. k \in 1 .. Len(f) /\ Len(s) + k \in 1 .. Len(x) /\ 12 + (Len(s) + k) = (12 + Len(s)) + k
    BY <1>2, <1>3, <1>13, <1>14
  <2>2. w[12 + (Len(s) + k)] = x[Len(s) + k] /\ x[Len(s) + k] = f[k]
    BY <1>12, <1>14, <2>1, Zenon
  <2> QED BY <2>1, <2>2, Zenon
<1>18. Chars(w, 17 + Len(s), (16 + Len(s)) + Len(t))
  <2>1. ASSUME NEW k \in 17 + Len(s) .. (16 + Len(s)) + Len(t) PROVE IsChar(w[k])
    <3>1. /\ k - (16 + Len(s)) \in 1 .. Len(t) /\ k - (12 + Len(s)) \in 1 .. 4 + Len(t)
          /\ (12 + Len(s)) + (k - (12 + Len(s))) = k
          /\ 4 + (k - (16 + Len(s))) = k - (12 + Len(s))
      BY <1>2, <1>3
    <3>2. w[(12 + Len(s)) + (k - (12 + Len(s)))] = f[k - (12 + Len(s))]
      BY <1>17, <3>1, Zenon
    <3>3. f[4 + (k - (16 + Len(s)))] = t[k - (16 + Len(s))]
      BY <1>13, <3>1, Zenon
    <3>4. w[k] = t[k - (16 + Len(s))]
      BY <3>1, <3>2, <3>3, Zenon
    <3> QED BY <1>3, <3>1, <3>4, Zenon
  <2> QED BY <2>1 DEF Chars
<1>19. ValueAt(w, 13 + Len(s)) = Len(t)
  <2>1. ASSUME NEW i \in 0 .. 3 PROVE w[(13 + Len(s)) + i] = IntBytes(Len(t))[1 + i]
    <3>1. 1 + i \in 1 .. 4 /\ 1 + i \in 1 .. 4 + Len(t) /\ (12 + Len(s)) + (1 + i) = (13 + Len(s)) + i
      BY <1>2, <1>3
    <3> QED BY <1>13, <1>17, <3>1, Zenon
  <2>2. 13 + Len(s) \in Nat /\ 1 \in Nat
    BY <1>2
  <2>3. ValueAt(w, 13 + Len(s)) = ValueAt(IntBytes(Len(t)), 1)
    <3> DEFINE v == IntBytes(Len(t))
               j == 13 + Len(s)
    <3>1. j \in Nat /\ \A i \in 0 .. 3 : w[j + i] = v[1 + i]
      BY <2>1, <2>2
    <3> HIDE DEF v, j
    <3>2. w[j] = v[1] /\ w[j + 1] = v[1 + 1] /\ w[j + 2] = v[1 + 2] /\ w[j + 3] = v[1 + 3]
      <4>1. /\ 0 \in 0 .. 3 /\ 1 \in 0 .. 3 /\ 2 \in 0 .. 3 /\ 3 \in 0 .. 3
            /\ j + 0 = j /\ 1 + 0 = 1
        BY <3>1
      <4>2. w[j + 0] = v[1 + 0] /\ w[j + 1] = v[1 + 1]
        BY <3>1, <4>1, Zenon
      <4>3. w[j + 2] = v[1 + 2] /\ w[j + 3] = v[1 + 3]
        BY <3>1, <4>1, Zenon
      <4> QED BY <4>1, <4>2, <4>3, Zenon
    <3>3. ValueAt(w, j) = ValueAt(v, 1)
      BY <3>2, Zenon DEF ValueAt
    <3> QED BY <3>3 DEF v, j
  <2>4. 1 + 1 = 2 /\ 1 + 2 = 3 /\ 1 + 3 = 4
    OBVIOUS
  <2> QED BY <1>6, <2>3, <2>4, Zenon DEF ValueAt
<1>20. w[5] = 3 /\ Starts(w, Len(w), w[5], Len(s))
  BY <1>12, <1>15, Zenon DEF Starts
<1>21. ByteBase * (2 * Len(w)) <= Words
  BY <1>15, Zenon
<1>22. w[5] \in 0 .. 3 /\ w[5] # 0
  <2>1. 3 \in 0 .. 3 /\ 3 # 0
    OBVIOUS
  <2> QED BY <1>20, <2>1, Zenon
<1>23. Len(w) = (16 + Len(s)) + Len(t)
  BY <1>15
<1> QED BY <1>2, <1>3, <1>4, <1>16, <1>18, <1>19, <1>20, <1>21, <1>22, <1>23, Zenon DEF Shape

LEMMA OneWritten ==
  ASSUME WordsAreLong, NEW code \in 0 .. 2, NEW s \in DOMAIN Bytes, 2 <= Len(Bytes[s]),
         code = 0 => 12 + Len(Bytes[s]) < ByteBase,
         NEW w, w = OneField(code, Bytes[s]).bytes, ByteBase * (2 * Len(w)) <= Words
  PROVE  \E room, text : Shape(w, room, text)
<1>1. Bytes[s] \in Seq(Char) /\ Bytes[s] \in Seq(Nat) /\ Len(Bytes[s]) \in Nat
  BY BytesChars, BytesType, LenProperties
<1>2. IntSize = 4 /\ code \in Nat
  BY DEF WordsAreLong
<1>3. w = HeaderBytes(3 * IntSize + Len(Bytes[s]), code) \o FieldBytes(Bytes[s])
      /\ Len(w) = 3 * IntSize + Len(Bytes[s])
  BY <1>1, <1>2, OneFieldHolds, Zenon
<1>4. 3 * IntSize + Len(Bytes[s]) = 12 + Len(Bytes[s])
  BY <1>1, <1>2
<1>5. w = HeaderBytes(12 + Len(Bytes[s]), code) \o FieldBytes(Bytes[s])
      /\ ByteBase * (2 * (12 + Len(Bytes[s]))) <= Words
  BY <1>3, <1>4, Zenon
<1>6. Shape(w, Len(Bytes[s]), 0)
  BY <1>1, <1>5, OneShape, Zenon
<1> QED BY <1>6, Zenon

LEMMA SendableShape ==
  ASSUME WordsAreLong, NEW m \in Sendable, m.type # "RECIEVE"
  PROVE  \E room, text : Shape(Written[m].bytes, room, text)
<1> DEFINE w == Written[m].bytes
<1>1. /\ w = WriteMessage(m).bytes /\ w \in Seq(Nat) /\ Len(w) \in Nat
      /\ ByteBase * (2 * Len(w)) <= Words
  BY SendableWritten DEF WordsAreLong
<1>2. m \in Messages /\ m.name \in DOMAIN Bytes /\ m.room \in DOMAIN Bytes /\ m.text \in Seq(DOMAIN Bytes)
  BY SendableProper DEF Proper, Messages
<1>3. IntSize = 4
  BY DEF WordsAreLong
<1> HIDE DEF w
<1>4. CASE \E l \in Logins : m = LoginMessage(l)
  <2>1. PICK l \in Logins : m = LoginMessage(l)
    BY <1>4
  <2>2. m.type = "LOGIN" /\ m.name = l /\ l \in DOMAIN Bytes
    BY <2>1, LoginAssumption DEF LoginMessage, Message
  <2>3. Len(Bytes[l]) \in Nat
    BY <2>2, BytesType, LenProperties
  <2>4. 2 <= Len(Bytes[l]) /\ 12 + Len(Bytes[l]) < ByteBase
    BY <1>3, <2>3, LoginAssumption, TypeCodes
  <2>5. w = OneField(0, Bytes[l]).bytes
    BY <1>1, <1>2, <2>2, WriteCases, Zenon
  <2>6. 0 \in 0 .. 2
    OBVIOUS
  <2>7. \E room, text : Shape(w, room, text)
    BY <1>1, <2>2, <2>4, <2>5, <2>6, OneWritten, Zenon
  <2> QED BY <2>7 DEF w
<1>5. CASE \E l \in Lines : m = CommandMessage(l)
  <2>1. PICK l \in Lines : m = CommandMessage(l)
    BY <1>5
  <2>2. m.type \in {"SEND", "JOIN", "LEAVE"}
    BY <2>1, CommandProper
  <2>3. 2 <= Len(Bytes[m.room]) /\ (m.type = "SEND" => TextBytes(m.text) # << >>)
    <3>1. Len(Bytes[m.room]) \in Nat
      BY <1>2, BytesType, LenProperties
    <3> QED BY <2>1, <3>1 DEF WordsAreLong
  <2>4. CASE m.type \in {"JOIN", "LEAVE"}
    <3>1. PICK code \in 1 .. 2 : w = OneField(code, Bytes[m.room]).bytes
      <4>1. 1 \in 1 .. 2 /\ 2 \in 1 .. 2
        OBVIOUS
      <4> QED BY <1>1, <1>2, <2>4, <4>1, WriteCases, Zenon
    <3>2. code \in 0 .. 2 /\ code # 0
      OBVIOUS
    <3>3. \E room, text : Shape(w, room, text)
      BY <1>1, <1>2, <2>3, <3>1, <3>2, OneWritten, Zenon
    <3> QED BY <3>3 DEF w
  <2>5. CASE m.type = "SEND"
    <3> DEFINE s == Bytes[m.room]
               t == TextBytes(m.text)
               n == (16 + Len(s)) + Len(t)
    <3>1. s \in Seq(Char) /\ t \in Seq(Char) /\ s \in Seq(Nat) /\ t \in Seq(Nat)
      BY <1>2, BytesChars, TextChars, BytesType, TextBytesType
    <3>2. w = TwoFields(3, s, t).bytes
      BY <1>1, <1>2, <2>5, WriteCases, Zenon
    <3>3. 2 <= Len(s) /\ t # << >>
      BY <2>3, <2>5
    <3> HIDE DEF s, t
    <3>4. Len(s) \in Nat /\ Len(t) \in Nat /\ 3 \in Nat
      BY <3>1, LenProperties
    <3>5. /\ w = (HeaderBytes(4 * IntSize + Len(s) + Len(t), 3) \o FieldBytes(s)) \o FieldBytes(t)
          /\ Len(w) = 4 * IntSize + Len(s) + Len(t)
      BY <3>1, <3>2, <3>4, TwoFieldsHold, Zenon
    <3>6. 4 * IntSize + Len(s) + Len(t) = n /\ n \in Nat
      BY <1>3, <3>4
    <3>7. w = (HeaderBytes(n, 3) \o FieldBytes(s)) \o FieldBytes(t) /\ ByteBase * (2 * n) <= Words
      BY <1>1, <3>5, <3>6, Zenon
    <3>8. n = (16 + Len(s)) + Len(t)
      OBVIOUS
    <3> HIDE DEF n
    <3>9. Shape(w, Len(s), Len(t))
      BY <3>1, <3>3, <3>6, <3>7, <3>8, TwoShape, Zenon
    <3>10. \E room, text : Shape(w, room, text)
      BY <3>9, Zenon
    <3> QED BY <3>10 DEF w
  <2> QED BY <2>2, <2>4, <2>5
<1>6. CASE \E k \in 1 .. Len(RoomMessages) : m = RoomMessages[k]
  BY <1>6, PostedProper
<1> QED BY <1>4, <1>5, <1>6 DEF Sendable

(* What is taken for the length of a string and leaves it empty.           *)
Skipped(n) == n \in Nat /\ (n = 0 \/ (2 * ByteBase <= n /\ n + 16 < Words))

LEMMA BytesAt ==
  ASSUME NEW d, IsBytes(d), NEW k \in Nat, 1 <= k, k + 3 <= Len(d)
  PROVE  /\ d[k] \in Nat /\ d[k + 1] \in Nat /\ d[k + 2] \in Nat /\ d[k + 3] \in Nat
         /\ d[k] < ByteBase /\ d[k + 1] < ByteBase /\ d[k + 2] < ByteBase /\ d[k + 3] < ByteBase
<1>1. Len(d) \in Nat /\ \A j \in 1 .. Len(d) : d[j] \in Nat /\ d[j] < ByteBase
  BY DEF IsBytes
<1>2. k \in 1 .. Len(d) /\ k + 1 \in 1 .. Len(d) /\ k + 2 \in 1 .. Len(d) /\ k + 3 \in 1 .. Len(d)
  BY <1>1
<1> QED BY <1>1, <1>2, Zenon

LEMMA MarkSkips ==
  ASSUME WordsAreLong, NEW d, IsBytes(d), NEW k \in Nat, 1 <= k, k + 3 <= Len(d),
         \/ 2 <= d[k + 1] /\ d[k + 1] + 1 < ByteBase
         \/ 1 <= d[k + 2] /\ d[k + 2] + 1 < ByteBase
         \/ 1 <= d[k + 3] /\ d[k + 3] + 1 < ByteBase
  PROVE  Skipped(ValueAt(d, k))
<1>1. /\ d[k] \in Nat /\ d[k + 1] \in Nat /\ d[k + 2] \in Nat /\ d[k + 3] \in Nat
      /\ d[k] < ByteBase /\ d[k + 1] < ByteBase /\ d[k + 2] < ByteBase /\ d[k + 3] < ByteBase
  BY BytesAt, Zenon
<1>2. ByteBase \in Nat /\ 17 <= ByteBase /\ IntSize = 4
  BY Sizes DEF WordsAreLong, Space
<1>3. /\ Value(ByteBase, d[k], d[k + 1], d[k + 2], d[k + 3]) \in Nat
      /\ 2 * ByteBase <= Value(ByteBase, d[k], d[k + 1], d[k + 2], d[k + 3])
      /\ Value(ByteBase, d[k], d[k + 1], d[k + 2], d[k + 3]) + 16
           < ByteBase * (ByteBase * (ByteBase * ByteBase))
  BY <1>1, <1>2, DigitSkips, Zenon
<1> QED BY <1>2, <1>3, WordsFour, Zenon DEF Skipped, ValueAt

LEMMA CharDigit ==
  ASSUME WordsAreLong, NEW c, IsChar(c)
  PROVE  c \in Nat /\ 32 <= c /\ 2 <= c /\ 1 <= c /\ c + 1 < ByteBase
<1>1. c \in Nat /\ 32 <= c /\ 2 * c < ByteBase
  BY DEF IsChar, Space
<1> QED BY <1>1, Sizes

LEMMA SmallPlaces ==
  ASSUME NEW d, IsBytes(d), NEW k \in Nat, 1 <= k, k + 3 <= Len(d), ValueAt(d, k) < ByteBase
  PROVE  d[k + 1] = 0 /\ d[k + 2] = 0 /\ d[k + 3] = 0 /\ ValueAt(d, k) = d[k]
<1>1. /\ d[k] \in Nat /\ d[k + 1] \in Nat /\ d[k + 2] \in Nat /\ d[k + 3] \in Nat
  BY BytesAt, Zenon
<1>2. ByteBase \in Nat /\ 1 <= ByteBase
  BY Sizes
<1> QED BY <1>1, <1>2, DigitsSmall, Zenon DEF ValueAt

(* The bytes d of a recv: `rest' bytes of the message w, then those of v.  *)
Follows(d, w, rest, v) ==
  /\ IsBytes(d) /\ IsBytes(w) /\ IsBytes(v) /\ rest \in Nat /\ 1 <= rest /\ rest < Len(w)
  /\ \A i \in 1 .. Len(d) : i <= rest => d[i] = w[(Len(w) - rest) + i]
  /\ \A i \in 1 .. Len(d) : rest < i /\ i - rest <= Len(v) => d[i] = v[i - rest]

(* The type and the two lengths that are read of them.                     *)
ReadsNothing(d) ==
  8 <= Len(d) /\ ValueAt(d, 5) <= 3 =>
    /\ 12 <= Len(d) => Skipped(ValueAt(d, 9))
    /\ 16 <= Len(d) /\ ValueAt(d, 5) = 3 => Skipped(ValueAt(d, 13))

LEMMA ShapeType ==
  ASSUME NEW w, NEW room, NEW text, Shape(w, room, text)
  PROVE  /\ room \in Nat /\ text \in Nat /\ 2 <= room /\ Len(w) \in Nat /\ IsBytes(w)
         /\ w[6] = 0 /\ w[7] = 0 /\ w[8] = 0 /\ 14 <= Len(w)
         /\ w[5] # 3 => Len(w) = 12 + room
         /\ w[5] = 3 => 1 <= text /\ Len(w) = (16 + room) + text
<1>1. /\ room \in Nat /\ text \in Nat /\ 2 <= room /\ Len(w) \in Nat /\ IsBytes(w)
      /\ w[6] = 0 /\ w[7] = 0 /\ w[8] = 0
      /\ w[5] # 3 => Len(w) = 12 + room
      /\ w[5] = 3 => 1 <= text /\ Len(w) = (16 + room) + text
  BY Zenon DEF Shape, Starts, IsBytes
<1>2. CASE w[5] = 3
  BY <1>1, <1>2
<1>3. CASE w[5] # 3
  BY <1>1, <1>3
<1> QED BY <1>1, <1>2, <1>3

(* The second to the fifth byte of a message: its type, or nothing.        *)
LEMMA NextType ==
  ASSUME WordsAreLong, NEW v, NEW room, NEW text, Shape(v, room, text), NEW d, IsBytes(d),
         16 <= Len(d), d[13] = v[2], d[14] = v[3], d[15] = v[4], d[16] = v[5]
  PROVE  Skipped(ValueAt(d, 13))
<1>1. 13 + 1 = 14 /\ 13 + 2 = 15 /\ 13 + 3 = 16 /\ 1 + 1 = 2 /\ 1 + 2 = 3 /\ 1 + 3 = 4
  OBVIOUS
<1>2. CASE v[5] = 0
  <2>1. ValueAt(v, 1) = Len(v) /\ Len(v) < ByteBase /\ IsBytes(v)
    BY <1>2, Zenon DEF Shape, Starts
  <2>2. 14 <= Len(v) /\ Len(v) \in Nat
    BY ShapeType
  <2>3. 1 \in Nat /\ 1 <= 1 /\ 1 + 3 <= Len(v)
    BY <2>2
  <2>4. v[2] = 0 /\ v[3] = 0 /\ v[4] = 0
    <3>1. ValueAt(v, 1) < ByteBase
      BY <2>1, Zenon
    <3>2. v[1 + 1] = 0 /\ v[1 + 2] = 0 /\ v[1 + 3] = 0
      BY <2>1, <2>3, <3>1, SmallPlaces, Zenon
    <3> QED BY <1>1, <3>2, Zenon
  <2>5. ValueAt(d, 13) = Value(ByteBase, 0, 0, 0, 0)
    BY <1>1, <1>2, <2>4, Zenon DEF ValueAt
  <2>6. Value(ByteBase, 0, 0, 0, 0) = 0
    <3>1. ByteBase * 0 = 0
      BY Sizes
    <3>2. 0 + 0 = 0
      OBVIOUS
    <3> QED BY <3>1, <3>2, Zenon DEF Value
  <2> QED BY <2>5, <2>6 DEF Skipped
<1>3. CASE v[5] # 0
  <2>1. v[5] \in 0 .. 3
    BY Zenon DEF Shape
  <2>2. 1 <= d[13 + 3] /\ d[13 + 3] + 1 < ByteBase
    BY <1>1, <1>3, <2>1, Sizes DEF WordsAreLong, Space
  <2>3. 13 \in Nat /\ 1 <= 13 /\ 13 + 3 <= Len(d)
    BY <1>1
  <2> QED BY <2>2, <2>3, MarkSkips, Zenon
<1> QED BY <1>2, <1>3

(* The start of a login: its length and the name's have one digit.         *)
LEMMA LoginStart ==
  ASSUME WordsAreLong, NEW v, NEW room, NEW text, Shape(v, room, text), v[5] = 0
  PROVE  /\ v[2] = 0 /\ v[3] = 0 /\ v[4] = 0 /\ v[9] \in Nat /\ 2 <= v[9] /\ v[9] + 1 < ByteBase
         /\ Len(v) = 12 + room /\ Len(v) \in Nat
<1>1. 1 + 1 = 2 /\ 1 + 2 = 3 /\ 1 + 3 = 4 /\ 1 \in Nat /\ 9 \in Nat /\ 1 <= 1 /\ 1 <= 9 /\ 9 + 3 = 12
  OBVIOUS
<1>2. /\ ValueAt(v, 1) = Len(v) /\ Len(v) < ByteBase /\ IsBytes(v) /\ ValueAt(v, 9) = room
  BY Zenon DEF Shape, Starts
<1>3. 14 <= Len(v) /\ Len(v) \in Nat /\ room \in Nat /\ 2 <= room /\ Len(v) = 12 + room
  <2>1. v[5] # 3
    OBVIOUS
  <2> QED BY <2>1, ShapeType
<1>4. 1 + 3 <= Len(v) /\ 9 + 3 <= Len(v) /\ room < ByteBase /\ room + 1 < ByteBase
  BY <1>2, <1>3, Sizes
<1>5. v[1 + 1] = 0 /\ v[1 + 2] = 0 /\ v[1 + 3] = 0
  <2>1. ValueAt(v, 1) < ByteBase
    BY <1>2, Zenon
  <2> QED BY <1>1, <1>2, <1>4, <2>1, SmallPlaces, Zenon
<1>6. ValueAt(v, 9) = v[9]
  <2>1. ValueAt(v, 9) < ByteBase
    BY <1>2, <1>4, Zenon
  <2> QED BY <1>1, <1>2, <1>4, <2>1, SmallPlaces, Zenon
<1> QED BY <1>1, <1>2, <1>3, <1>4, <1>5, <1>6, Zenon

(* A type is one digit.                                                    *)
LEMMA TypeDigit ==
  ASSUME WordsAreLong, NEW d, IsBytes(d), 8 <= Len(d), ValueAt(d, 5) <= 3
  PROVE  /\ d[6] = 0 /\ d[7] = 0 /\ d[8] = 0 /\ ValueAt(d, 5) = d[5]
         /\ d[5] \in Nat /\ d[5] <= 3 /\ Len(d) \in Nat
<1>1. 5 + 1 = 6 /\ 5 + 2 = 7 /\ 5 + 3 = 8 /\ 5 \in Nat /\ 1 <= 5 /\ 5 + 3 <= Len(d)
  OBVIOUS
<1>2. d[5] \in Nat /\ d[5 + 1] \in Nat /\ d[5 + 2] \in Nat /\ d[5 + 3] \in Nat
  BY <1>1, BytesAt, Zenon
<1>3. ValueAt(d, 5) < ByteBase
  <2>1. ValueAt(d, 5) \in Nat
    BY <1>2, ValueType, Sizes, Zenon DEF ValueAt
  <2> QED BY <2>1, Sizes DEF WordsAreLong, Space
<1>4. d[5 + 1] = 0 /\ d[5 + 2] = 0 /\ d[5 + 3] = 0 /\ ValueAt(d, 5) = d[5]
  BY <1>1, <1>3, SmallPlaces, Zenon
<1>5. Len(d) \in Nat
  BY DEF IsBytes
<1> QED BY <1>1, <1>2, <1>4, <1>5, Zenon

(* At most the first type of the next message is in the place of a type.   *)
LEMMA RestBeforeType ==
  ASSUME WordsAreLong, NEW w, NEW v, NEW room, NEW text, Shape(v, room, text),
         NEW d, NEW rest, Follows(d, w, rest, v), rest <= 4
  PROVE  ReadsNothing(d)
<1> SUFFICES ASSUME 8 <= Len(d), ValueAt(d, 5) <= 3
             PROVE  /\ 12 <= Len(d) => Skipped(ValueAt(d, 9))
                    /\ ValueAt(d, 5) # 3
  BY DEF ReadsNothing
<1>1. /\ IsBytes(d) /\ rest \in 1 .. 4 /\ Len(d) \in Nat /\ Len(v) \in Nat /\ IsBytes(v)
      /\ \A i \in 1 .. Len(d) : rest < i /\ i - rest <= Len(v) => d[i] = v[i - rest]
  BY DEF Follows, IsBytes
<1>2. 14 <= Len(v) /\ v[6] = 0 /\ v[7] = 0 /\ v[8] = 0 /\ v[5] \in 0 .. 3
  <2>1. v[5] \in 0 .. 3
    BY Zenon DEF Shape
  <2> QED BY <2>1, ShapeType
<1>3. d[6] = 0 /\ d[7] = 0 /\ d[8] = 0 /\ ValueAt(d, 5) = d[5]
  BY <1>1, TypeDigit, Zenon
<1>4. CASE rest = 4
  <2>1. d[5] = v[1] /\ d[6] = v[2] /\ d[7] = v[3] /\ d[8] = v[4]
    BY <1>1, <1>2, <1>4
  <2>2. ValueAt(d, 5) = ValueAt(v, 1)
    <3>1. 5 + 1 = 6 /\ 5 + 2 = 7 /\ 5 + 3 = 8 /\ 1 + 1 = 2 /\ 1 + 2 = 3 /\ 1 + 3 = 4
      OBVIOUS
    <3> QED BY <2>1, <3>1, Zenon DEF ValueAt
  <2>3. ValueAt(v, 1) = Len(v)
    BY Zenon DEF Shape, Starts
  <2> QED BY <1>1, <1>2, <2>2, <2>3
<1>5. CASE rest # 4
  <2>1. v[5] = 0
    <3>1. rest + 5 \in 6 .. 8 /\ rest + 5 \in 1 .. Len(d) /\ rest < rest + 5 /\ (rest + 5) - rest = 5
      BY <1>1, <1>5
    <3>2. 5 <= Len(v)
      BY <1>2
    <3>3. d[rest + 5] = v[5]
      BY <1>1, <3>1, <3>2, Zenon
    <3>4. rest + 5 = 6 \/ rest + 5 = 7 \/ rest + 5 = 8
      BY <3>1
    <3> QED BY <1>3, <3>3, <3>4, Zenon
  <2>2. /\ v[2] = 0 /\ v[3] = 0 /\ v[4] = 0 /\ v[9] \in Nat /\ 2 <= v[9] /\ v[9] + 1 < ByteBase
    BY <2>1, LoginStart, Zenon
  <2>3. d[5] = 0
    <3>1. d[5] = v[5 - rest]
      BY <1>1, <1>2
    <3>2. 5 - rest \in 2 .. 4
      BY <1>1, <1>5
    <3> QED BY <2>2, <3>1, <3>2
  <2>4. ValueAt(d, 5) # 3
    BY <1>3, <2>3
  <2>5. ASSUME 12 <= Len(d) PROVE Skipped(ValueAt(d, 9))
    <3>1. 9 + rest \in 10 .. 12 /\ d[9 + rest] = v[9]
      <4>1. 9 + rest \in 1 .. Len(d) /\ rest < 9 + rest /\ (9 + rest) - rest = 9 /\ 9 <= Len(v)
        BY <1>1, <1>2, <1>5, <2>5
      <4>2. d[9 + rest] = v[(9 + rest) - rest]
        BY <1>1, <4>1
      <4> QED BY <1>1, <1>5, <4>1, <4>2
    <3>2. \/ 2 <= d[9 + 1] /\ d[9 + 1] + 1 < ByteBase
          \/ 1 <= d[9 + 2] /\ d[9 + 2] + 1 < ByteBase
          \/ 1 <= d[9 + 3] /\ d[9 + 3] + 1 < ByteBase
      BY <1>1, <1>5, <2>2, <3>1, SMTT(30)
    <3>3. 9 \in Nat /\ 1 <= 9 /\ 9 + 3 <= Len(d)
      BY <2>5
    <3> QED BY <1>1, <3>2, <3>3, MarkSkips, Zenon
  <2> QED BY <2>4, <2>5
<1> QED BY <1>4, <1>5

LEMMA RestInType ==
  ASSUME WordsAreLong, NEW w, NEW room, NEW text, Shape(w, room, text), NEW v,
         NEW d, NEW rest, Follows(d, w, rest, v), 5 <= rest, rest <= 8
  PROVE  ReadsNothing(d)
<1> SUFFICES ASSUME 8 <= Len(d), ValueAt(d, 5) <= 3 PROVE FALSE
  BY DEF ReadsNothing
<1>1. /\ IsBytes(d) /\ rest \in 5 .. 8 /\ rest \in 1 .. Len(d) /\ Len(w) \in Nat
      /\ \A i \in 1 .. Len(d) : i <= rest => d[i] = w[(Len(w) - rest) + i]
  BY SMTT(30) DEF Follows, IsBytes
<1>2. d[6] = 0 /\ d[7] = 0 /\ d[8] = 0 /\ d[5] \in Nat /\ d[5] <= 3
  BY <1>1, TypeDigit, Zenon
<1>3. d[rest] = w[Len(w)]
  <2>1. (Len(w) - rest) + rest = Len(w) /\ rest <= rest
    BY <1>1
  <2> QED BY <1>1, <2>1, Zenon
<1>4. IsChar(w[Len(w)])
  <2>1. /\ room \in Nat /\ text \in Nat /\ 2 <= room
        /\ w[5] # 3 => Len(w) = 12 + room
        /\ w[5] = 3 => 1 <= text /\ Len(w) = (16 + room) + text
    BY ShapeType, Zenon
  <2>2. CASE w[5] = 3
    <3>1. Len(w) \in 17 + room .. (16 + room) + text
      BY <2>1, <2>2
    <3> QED BY <2>2, <3>1, Zenon DEF Shape, Chars
  <2>3. CASE w[5] # 3
    <3>1. Len(w) \in 13 .. 12 + room
      BY <2>1, <2>3
    <3> QED BY <3>1, Zenon DEF Shape, Chars
  <2> QED BY <2>2, <2>3
<1>5. d[rest] \in Nat /\ 32 <= d[rest]
  BY <1>3, <1>4, CharDigit, Zenon
<1> QED BY <1>1, <1>2, <1>5

(* A letter, and the length of the next message but for its last byte.     *)
LEMMA NextLength ==
  ASSUME WordsAreLong, NEW v, NEW room, NEW text, Shape(v, room, text), NEW d, IsBytes(d),
         12 <= Len(d), d[10] = v[1], d[11] = v[2], d[12] = v[3]
  PROVE  Skipped(ValueAt(d, 9))
<1>1. /\ ValueAt(v, 1) = Len(v) /\ IsBytes(v) /\ ByteBase * (2 * Len(v)) <= Words
  BY Zenon DEF Shape, Starts
<1>2. Len(v) \in Nat /\ 14 <= Len(v)
  BY ShapeType
<1>3. IntSize = 4 /\ ByteBase \in Nat /\ 17 <= ByteBase
  BY Sizes DEF WordsAreLong, Space
<1>4. v[1] \in Nat /\ v[2] \in Nat /\ v[3] \in Nat /\ v[4] \in Nat
  <2>1. /\ v[1] \in Nat /\ v[1 + 1] \in Nat /\ v[1 + 2] \in Nat /\ v[1 + 3] \in Nat
    BY <1>1, <1>2, BytesAt
  <2>2. 1 + 1 = 2 /\ 1 + 2 = 3 /\ 1 + 3 = 4
    OBVIOUS
  <2> QED BY <2>1, <2>2, Zenon
<1>5. d[9] \in Nat /\ d[9] < ByteBase
  <2>1. 9 \in 1 .. Len(d)
    BY DEF IsBytes
  <2> QED BY <2>1, Zenon DEF IsBytes
<1>6. Len(v) = Value(ByteBase, v[1], v[2], v[3], v[4])
  <2>1. 1 + 1 = 2 /\ 1 + 2 = 3 /\ 1 + 3 = 4
    OBVIOUS
  <2> QED BY <1>1, <2>1, Zenon DEF ValueAt
<1>7. 2 <= Len(v) /\ ByteBase * (2 * Len(v)) <= ByteBase * (ByteBase * (ByteBase * ByteBase))
  <2>1. 2 <= Len(v)
    BY <1>2
  <2> QED BY <1>1, <1>3, <2>1, WordsFour, Zenon
<1>8. /\ Value(ByteBase, d[9], v[1], v[2], v[3]) \in Nat
      /\ 2 * ByteBase <= Value(ByteBase, d[9], v[1], v[2], v[3])
      /\ Value(ByteBase, d[9], v[1], v[2], v[3]) + 16 < ByteBase * (ByteBase * (ByteBase * ByteBase))
  BY <1>2, <1>3, <1>4, <1>5, <1>6, <1>7, LengthSkips, Zenon
<1>9. ValueAt(d, 9) = Value(ByteBase, d[9], v[1], v[2], v[3])
  <2>1. 9 + 1 = 10 /\ 9 + 2 = 11 /\ 9 + 3 = 12
    OBVIOUS
  <2> QED BY <2>1, Zenon DEF ValueAt
<1> QED BY <1>3, <1>8, <1>9, WordsFour, Zenon DEF Skipped

(* The type is read inside of what is left of the message.                 *)
LEMMA RestAfterType ==
  ASSUME WordsAreLong, NEW w, NEW room, NEW text, Shape(w, room, text),
         NEW v, NEW room2, NEW text2, Shape(v, room2, text2),
         NEW d, NEW rest, Follows(d, w, rest, v), 9 <= rest
  PROVE  ReadsNothing(d)
<1> SUFFICES ASSUME 8 <= Len(d), ValueAt(d, 5) <= 3
             PROVE  /\ 12 <= Len(d) => Skipped(ValueAt(d, 9))
                    /\ 16 <= Len(d) /\ d[5] = 3 => Skipped(ValueAt(d, 13))
  BY TypeDigit DEF ReadsNothing, Follows
<1>1. /\ IsBytes(d) /\ rest \in Nat /\ 9 <= rest /\ rest < Len(w) /\ Len(d) \in Nat /\ Len(w) \in Nat
      /\ IsBytes(w) /\ IsBytes(v)
  BY DEF Follows, IsBytes
<1>2. PICK s \in Nat : s = Len(w) - rest /\ 1 <= s /\ s + rest = Len(w) /\ s + 9 <= Len(w)
  BY <1>1, SMTT(30)
<1>3. ASSUME NEW i \in 1 .. Len(d), i <= rest PROVE d[i] = w[s + i]
  BY <1>2, <1>3 DEF Follows
<1>4. ASSUME NEW i \in 1 .. Len(d), rest < i, i - rest <= Len(v) PROVE d[i] = v[i - rest]
  BY <1>4 DEF Follows
<1>5. /\ room \in Nat /\ text \in Nat /\ 2 <= room /\ 14 <= Len(w)
      /\ w[6] = 0 /\ w[7] = 0 /\ w[8] = 0
      /\ w[5] # 3 => Len(w) = 12 + room
      /\ w[5] = 3 => 1 <= text /\ Len(w) = (16 + room) + text
  BY ShapeType, Zenon
<1>6. Len(v) \in Nat /\ 14 <= Len(v)
  BY ShapeType, Zenon
<1>7. d[6] = 0 /\ d[7] = 0 /\ d[8] = 0 /\ d[5] \in Nat /\ d[5] <= 3 /\ ValueAt(d, 5) = d[5]
  BY <1>1, TypeDigit, Zenon
<1>8. ASSUME NEW k \in 13 .. 12 + room PROVE w[k] \in Nat /\ 32 <= w[k] /\ w[k] + 1 < ByteBase
  <2>1. IsChar(w[k])
    BY Zenon DEF Shape, Chars
  <2> QED BY <2>1, CharDigit, Zenon
<1>9. ASSUME w[5] = 3, NEW k \in 17 + room .. (16 + room) + text
      PROVE  w[k] \in Nat /\ 32 <= w[k] /\ w[k] + 1 < ByteBase
  <2>1. IsChar(w[k])
    BY <1>9, Zenon DEF Shape, Chars
  <2> QED BY <2>1, CharDigit, Zenon
<1>10. ASSUME NEW i \in 5 .. 8 PROVE d[i] \in Nat /\ d[i] <= 3 /\ d[i] = w[s + i]
  <2>1. i \in 1 .. Len(d) /\ i <= rest
    BY <1>1
  <2>2. d[i] = w[s + i]
    BY <1>3, <2>1
  <2> QED BY <1>7, <2>2
<1>11. ASSUME 12 <= Len(d),
              \/ 2 <= d[10] /\ d[10] + 1 < ByteBase
              \/ 1 <= d[11] /\ d[11] + 1 < ByteBase
              \/ 1 <= d[12] /\ d[12] + 1 < ByteBase
       PROVE  Skipped(ValueAt(d, 9))
  <2>1. 9 + 1 = 10 /\ 9 + 2 = 11 /\ 9 + 3 = 12 /\ 9 \in Nat /\ 1 <= 9 /\ 9 + 3 <= Len(d)
    BY <1>11
  <2>2. \/ 2 <= d[9 + 1] /\ d[9 + 1] + 1 < ByteBase
        \/ 1 <= d[9 + 2] /\ d[9 + 2] + 1 < ByteBase
        \/ 1 <= d[9 + 3] /\ d[9 + 3] + 1 < ByteBase
    BY <1>11, <2>1, Zenon
  <2> QED BY <1>1, <2>1, <2>2, MarkSkips, Zenon
<1>12. ASSUME 16 <= Len(d), rest = 11 PROVE Skipped(ValueAt(d, 13))
  <2>1. d[13] = v[2] /\ d[14] = v[3] /\ d[15] = v[4] /\ d[16] = v[5]
    <3>1. \A i \in 13 .. 16 : d[i] = v[i - 11]
      BY <1>1, <1>4, <1>6, <1>12
    <3> QED BY <3>1
  <2> QED BY <1>1, <1>12, <2>1, NextType, Zenon
<1>13. CASE s <= 3
  <2>1. d[5] = 0
    <3>1. d[5] = w[s + 5] /\ s + 5 \in 6 .. 8
      <4>1. d[5] = w[s + 5]
        BY <1>10
      <4>2. s + 5 \in 6 .. 8
        BY <1>2, <1>13
      <4> QED BY <4>1, <4>2
    <3> QED BY <1>5, <3>1
  <2>2. ASSUME 12 <= Len(d) PROVE Skipped(ValueAt(d, 9))
    <3>1. 13 - s \in 10 .. 12 /\ 13 - s \in 1 .. Len(d) /\ 13 - s <= rest /\ s + (13 - s) = 13
      BY <1>1, <1>2, <1>5, <1>13, <2>2, SMTT(30)
    <3>2. d[13 - s] = w[13]
      BY <1>3, <3>1
    <3>3. w[13] \in Nat /\ 32 <= w[13] /\ w[13] + 1 < ByteBase
      BY <1>5, <1>8
    <3>4. \/ 2 <= d[10] /\ d[10] + 1 < ByteBase
          \/ 1 <= d[11] /\ d[11] + 1 < ByteBase
          \/ 1 <= d[12] /\ d[12] + 1 < ByteBase
      <4> HIDE <1>8, <1>9, <1>3
      <4> QED BY <3>1, <3>2, <3>3
    <3> QED BY <1>11, <2>2, <3>4
  <2> QED BY <2>1, <2>2
<1>14. CASE s = 4
  <2>1. d[5] = room
    <3>1. d[5] = w[9] /\ d[6] = w[10] /\ d[7] = w[11] /\ d[8] = w[12]
      BY <1>10, <1>14
    <3>2. 5 + 1 = 6 /\ 5 + 2 = 7 /\ 5 + 3 = 8 /\ 9 + 1 = 10 /\ 9 + 2 = 11 /\ 9 + 3 = 12
      OBVIOUS
    <3>3. ValueAt(d, 5) = ValueAt(w, 9)
      BY <3>1, <3>2, Zenon DEF ValueAt
    <3>4. ValueAt(w, 9) = room
      BY Zenon DEF Shape, Starts
    <3> QED BY <1>7, <3>3, <3>4, Zenon
  <2>2. ASSUME 12 <= Len(d) PROVE Skipped(ValueAt(d, 9))
    <3>1. d[10] = w[14]
      BY <1>1, <1>2, <1>3, <1>5, <1>14, <2>2, SMTT(30)
    <3>2. w[14] \in Nat /\ 32 <= w[14] /\ w[14] + 1 < ByteBase
      BY <1>5, <1>8
    <3>3. 2 <= d[10] /\ d[10] + 1 < ByteBase
      BY <3>1, <3>2
    <3> QED BY <1>11, <2>2, <3>3
  <2>3. ASSUME 16 <= Len(d), d[5] = 3 PROVE Skipped(ValueAt(d, 13))
    <3>1. CASE w[5] = 3
      <4>1. d[16] = w[20]
        BY <1>1, <1>2, <1>3, <1>5, <1>14, <2>1, <2>3, <3>1
      <4>2. w[20] \in Nat /\ 32 <= w[20] /\ w[20] + 1 < ByteBase
        <5>1. 20 \in 17 + room .. (16 + room) + text
          BY <1>5, <2>1, <2>3, <3>1
        <5> QED BY <1>9, <3>1, <5>1
      <4>3. 13 + 3 = 16 /\ 13 \in Nat /\ 1 <= 13 /\ 13 + 3 <= Len(d)
        BY <2>3
      <4>4. 1 <= d[13 + 3] /\ d[13 + 3] + 1 < ByteBase
        BY <4>1, <4>2, <4>3
      <4> QED BY <1>1, <4>3, <4>4, MarkSkips, Zenon
    <3>2. CASE w[5] # 3
      <4>1. rest = 11
        <5>1. Len(w) = 12 + room /\ room = 3
          BY <1>5, <2>1, <2>3, <3>2
        <5> QED BY <1>1, <1>2, <1>14, <5>1
      <4> QED BY <1>12, <2>3, <4>1
    <3> QED BY <3>1, <3>2
  <2> QED BY <2>2, <2>3
<1>15. CASE s \in 5 .. 8
  <2>1. 13 - s \in 5 .. 8 /\ s + (13 - s) = 13 /\ 13 \in 13 .. 12 + room
    BY <1>5, <1>15
  <2>2. d[13 - s] <= 3 /\ d[13 - s] = w[13] /\ w[13] \in Nat /\ 32 <= w[13]
    BY <1>8, <1>10, <2>1
  <2> QED BY <2>2
<1>16. CASE 9 <= s
  <2>1. d[5] = w[s + 5] /\ d[8] = w[s + 8] /\ d[5] <= 3 /\ d[8] <= 3
    BY <1>10
  <2>2. 13 + room <= s + 5
    <3> SUFFICES ASSUME s + 5 < 13 + room PROVE FALSE
      BY <1>2, <1>5
    <3>1. s + 5 \in 13 .. 12 + room
      BY <1>2, <1>5, <1>16
    <3>2. w[s + 5] \in Nat /\ 32 <= w[s + 5]
      BY <1>8, <3>1
    <3> QED BY <2>1, <3>2
  <2>3. w[5] = 3 /\ 1 <= text /\ Len(w) = (16 + room) + text
    BY <1>2, <1>5, <2>2
  <2>4. s = 8 + room
    <3> SUFFICES ASSUME 8 + room < s PROVE FALSE
      BY <1>2, <1>5, <2>2
    <3>1. s + 8 \in 17 + room .. (16 + room) + text
      BY <1>2, <1>5, <2>3
    <3>2. w[s + 8] \in Nat /\ 32 <= w[s + 8]
      BY <1>9, <2>3, <3>1
    <3> QED BY <2>1, <3>2
  <2>5. rest = 8 + text
    BY <1>1, <1>2, <1>5, <2>3, <2>4
  <2>6. d[5] = text
    <3>1. s + 5 = 13 + room /\ s + 6 = (13 + room) + 1 /\ s + 7 = (13 + room) + 2 /\ s + 8 = (13 + room) + 3
      BY <1>5, <2>4
    <3>2. d[5] = w[s + 5] /\ d[6] = w[s + 6] /\ d[7] = w[s + 7] /\ d[8] = w[s + 8]
      BY <1>10
    <3>3. 5 + 1 = 6 /\ 5 + 2 = 7 /\ 5 + 3 = 8
      OBVIOUS
    <3>4. ValueAt(d, 5) = ValueAt(w, 13 + room)
      BY <3>1, <3>2, <3>3, Zenon DEF ValueAt
    <3>5. ValueAt(w, 13 + room) = text
      BY <2>3, Zenon DEF Shape
    <3> QED BY <1>7, <3>4, <3>5, Zenon
  <2>7. ASSUME 12 <= Len(d) PROVE Skipped(ValueAt(d, 9))
    <3>1. CASE text = 1
      <4>1. rest = 9
        BY <2>5, <3>1
      <4>2. \A i \in 10 .. 12 : d[i] = v[i - 9]
        BY <1>1, <1>4, <1>6, <2>7, <4>1
      <4>3. d[10] = v[1] /\ d[11] = v[2] /\ d[12] = v[3]
        BY <4>2
      <4> QED BY <1>1, <2>7, <4>3, NextLength, Zenon
    <3>2. CASE text # 1
      <4>1. 10 \in 1 .. Len(d) /\ 10 <= rest /\ s + 10 \in 17 + room .. (16 + room) + text
        BY <1>1, <1>5, <2>3, <2>4, <2>5, <2>7, <3>2
      <4>2. d[10] = w[s + 10] /\ w[s + 10] \in Nat /\ 32 <= w[s + 10] /\ w[s + 10] + 1 < ByteBase
        BY <1>3, <1>9, <2>3, <4>1
      <4>3. 2 <= d[10] /\ d[10] + 1 < ByteBase
        BY <4>2
      <4> QED BY <1>11, <2>7, <4>3
    <3> QED BY <3>1, <3>2
  <2>8. ASSUME 16 <= Len(d), d[5] = 3 PROVE Skipped(ValueAt(d, 13))
    <3>1. rest = 11
      BY <2>5, <2>6, <2>8
    <3> QED BY <1>12, <2>8, <3>1
  <2> QED BY <2>7, <2>8
<1> QED BY <1>2, <1>13, <1>14, <1>15, <1>16

-----------------------------------------------------------------------------
(* What is read of such bytes.                                             *)

LEMMA IntRead ==
  ASSUME IntSize = 4, NEW d, IsBytes(d), NEW r \in Nat, r + 4 <= Len(d), r + 4 < Words
  PROVE  ReadInt(d, r) = [result |-> ValueAt(d, r + 1), at |-> r + 4]
<1>1. d \in Seq(Nat) /\ Len(d) \in Nat
  BY DEF IsBytes
<1> DEFINE bs == SubSeq(d, r + 1, r + 4)
<1>2. /\ bs \in Seq(Nat) /\ Len(bs) = 4
      /\ bs[1] = d[r + 1] /\ bs[2] = d[r + 2] /\ bs[3] = d[r + 3] /\ bs[4] = d[r + 4]
  <2>1. r + 1 \in 1 .. Len(d) + 1 /\ r + 4 \in (r + 1) - 1 .. Len(d)
    BY <1>1
  <2>2. /\ bs \in Seq(Nat) /\ Len(bs) = (r + 4) - (r + 1) + 1
        /\ \A i \in 1 .. (r + 4) - (r + 1) + 1 : bs[i] = d[(r + 1) + i - 1]
    BY <1>1, <2>1, SubSeqProperties
  <2> HIDE DEF bs
  <2>3. Len(bs) = 4 /\ \A i \in 1 .. 4 : bs[i] = d[r + i]
    <3>1. (r + 4) - (r + 1) + 1 = 4 /\ \A i \in 1 .. 4 : (r + 1) + i - 1 = r + i
      OBVIOUS
    <3> QED BY <2>2, <3>1
  <2> QED BY <2>2, <2>3
<1> HIDE DEF bs
<1>3. IntOf(bs) = ValueAt(d, r + 1)
  <2>1. (r + 1) + 1 = r + 2 /\ (r + 1) + 2 = r + 3 /\ (r + 1) + 3 = r + 4
    OBVIOUS
  <2>2. IntOf(bs) = Value(ByteBase, bs[1], bs[2], bs[3], bs[4])
    BY <1>2, IntOfFour
  <2> QED BY <1>2, <2>1, <2>2, Zenon DEF ValueAt
<1>4. (r + IntSize) % Words = r + 4 /\ ~ (Len(d) < r + 4)
  <2>1. (r + 4) % Words = r + 4
    BY WordsType, ModBelow
  <2> QED BY <1>1, <2>1
<1>5. ReadInt(d, r) = [result |-> IntOf(bs), at |-> r + 4]
  <2>1. r + IntSize = r + 4
    OBVIOUS
  <2>2. ~ (Len(d) < (r + IntSize) % Words)
    BY <1>4, Zenon
  <2> QED BY <2>1, <2>2, Zenon DEF ReadInt, bs
<1> QED BY <1>3, <1>5, Zenon

Nothing(read) == read.result = << >>

LEMMA FieldSkipped ==
  ASSUME WordsAreLong, NEW d, IsBytes(d), ByteBase * Len(d) <= Words, Len(d) <= 2 * ByteBase,
         NEW r \in {8, 12}, r <= Len(d), 20 < Words,
         r + 4 <= Len(d) => Skipped(ValueAt(d, r + 1))
  PROVE  /\ Nothing(ReadField(d, r))
         /\ ReadField(d, r).at = IF r + 4 <= Len(d) THEN r + 4 ELSE r
<1>1. d \in Seq(Nat) /\ Len(d) \in Nat /\ IntSize = 4 /\ r \in Nat /\ r + 4 <= 16 /\ r + 4 \in Nat
  BY DEF IsBytes, WordsAreLong
<1>2. Len(d) < Words
  BY <1>1, LengthBelow
<1>3. CASE r + 4 <= Len(d)
  <2> DEFINE n == ValueAt(d, r + 1)
  <2>1. ReadInt(d, r) = [result |-> n, at |-> r + 4]
    <3>1. r + 4 < Words
      BY <1>1, WordsType
    <3> QED BY <1>1, <1>3, <3>1, IntRead
  <2>2. n \in Nat /\ (n = 0 \/ (2 * ByteBase <= n /\ n + 16 < Words))
    BY <1>3 DEF Skipped
  <2> HIDE DEF n
  <2>3. ReadString(d, r + 4, n) = [result |-> << >>, at |-> r + 4]
    <3>1. CASE n = 0
      BY <1>1, <1>2, <1>3, <3>1, ReadStringEmpty
    <3>2. CASE 2 * ByteBase <= n /\ n + 16 < Words
      <4>1. Len(d) < (r + 4) + n /\ (r + 4) + n < Words
        BY <1>1, <2>2, <3>2, WordsType, Sizes
      <4> QED BY <1>1, <2>2, <4>1, ReadStringShort, Zenon
    <3> QED BY <2>2, <3>1, <3>2
  <2>4. ReadField(d, r) = [result |-> << >>, at |-> r + 4]
    BY <2>1, <2>3 DEF ReadField
  <2> QED BY <1>3, <2>4 DEF Nothing
<1>4. CASE ~ (r + 4 <= Len(d))
  <2>1. ReadInt(d, r) = [result |-> 0, at |-> r]
    <3>1. Len(d) < r + IntSize /\ r + IntSize < Words
      BY <1>1, <1>4, WordsType
    <3> QED BY <1>1, <3>1, ReadIntShort
  <2>2. ReadString(d, r, 0) = [result |-> << >>, at |-> r]
    BY <1>1, <1>2, ReadStringEmpty
  <2>3. ReadField(d, r) = [result |-> << >>, at |-> r]
    BY <2>1, <2>2 DEF ReadField
  <2> QED BY <1>4, <2>3 DEF Nothing
<1> QED BY <1>3, <1>4

LEMMA RestDecoded ==
  ASSUME WordsAreLong, NEW d, IsBytes(d), ByteBase * Len(d) <= Words, Len(d) <= 2 * ByteBase,
         20 < Words, ReadsNothing(d)
  PROVE  \/ Decode(d).type = "RECIEVE"
         \/ \E t \in {"LOGIN", "JOIN", "LEAVE", "SEND", "ERROR"} :
              Decode(d) = Read(t, << >>, << >>, << >>)
<1>1. d \in Seq(Nat) /\ Len(d) \in Nat /\ IntSize = 4 /\ 3 * IntSize <= Words
  BY WordsType DEF IsBytes, WordsAreLong
<1>2. CASE Len(d) < 8
  <2>1. Len(d) < 2 * IntSize
    BY <1>1, <1>2
  <2>2. Decode(d) = EmptyLogin
    BY <1>1, <2>1, DecodeShort
  <2>3. EmptyLogin = Read("LOGIN", << >>, << >>, << >>)
    BY Zenon DEF EmptyLogin, Read
  <2> QED BY <2>2, <2>3
<1>3. CASE 8 <= Len(d)
  <2> DEFINE t == ValueAt(d, 5)
  <2>1. TypeRead(d) = [result |-> t, at |-> 8]
    <3> USE <1>1
    <3>5. /\ 0 \in Nat /\ 4 \in Nat /\ 0 + 4 <= Len(d) /\ 4 + 4 <= Len(d)
          /\ 0 + 4 < Words /\ 4 + 4 < Words
      BY <1>3, WordsType
    <3>1. ReadInt(d, 0) = [result |-> ValueAt(d, 0 + 1), at |-> 0 + 4]
      BY <3>5, IntRead, Zenon
    <3>2. ReadInt(d, 4) = [result |-> ValueAt(d, 4 + 1), at |-> 4 + 4]
      BY <3>5, IntRead, Zenon
    <3>3. 0 + 4 = 4 /\ 4 + 1 = 5 /\ 4 + 4 = 8
      OBVIOUS
    <3>4. ReadInt(d, 0).at = 4
      BY <3>1, <3>3
    <3> QED BY <3>2, <3>3, <3>4, Zenon DEF TypeRead
  <2>2. t \in Nat
    <3>1. 5 \in Nat /\ 1 <= 5 /\ 5 + 3 <= Len(d)
      BY <1>3
    <3>2. d[5] \in Nat /\ d[5 + 1] \in Nat /\ d[5 + 2] \in Nat /\ d[5 + 3] \in Nat
      BY <3>1, BytesAt, Zenon
    <3> QED BY <3>2, ValueType, Sizes, Zenon DEF ValueAt
  <2>3. t <= 3 => /\ 12 <= Len(d) => Skipped(ValueAt(d, 9))
                  /\ 16 <= Len(d) /\ t = 3 => Skipped(ValueAt(d, 13))
    BY <1>3 DEF ReadsNothing
  <2> HIDE DEF t
  <2>4. TypeRead(d).result = t /\ TypeRead(d).at = 8
    BY <2>1
  <2>5. ASSUME t <= 3
        PROVE  /\ Nothing(FirstField(d))
               /\ FirstField(d).at = IF 12 <= Len(d) THEN 12 ELSE 8
    <3>1. 8 + 4 = 12 /\ 8 + 1 = 9 /\ 8 \in {8, 12}
      OBVIOUS
    <3>2. 8 + 4 <= Len(d) => Skipped(ValueAt(d, 8 + 1))
      BY <2>3, <2>5, <3>1, Zenon
    <3>3. /\ Nothing(ReadField(d, 8))
          /\ ReadField(d, 8).at = IF 8 + 4 <= Len(d) THEN 8 + 4 ELSE 8
      BY <1>3, <3>1, <3>2, FieldSkipped, Zenon
    <3>4. FirstField(d) = ReadField(d, 8)
      BY <2>4, Zenon DEF FirstField
    <3> QED BY <3>1, <3>3, <3>4, Zenon
  <2>6. ASSUME t = 3 PROVE Nothing(SecondField(d))
    <3>1. t <= 3
      BY <2>6
    <3>2. FirstField(d).at = IF 12 <= Len(d) THEN 12 ELSE 8
      BY <2>5, <3>1, Zenon
    <3>3. SecondField(d) = ReadField(d, FirstField(d).at)
      BY Zenon DEF SecondField
    <3>4. CASE 12 <= Len(d)
      <4>1. 12 + 4 = 16 /\ 12 + 1 = 13 /\ 12 \in {8, 12}
        OBVIOUS
      <4>2. 12 + 4 <= Len(d) => Skipped(ValueAt(d, 12 + 1))
        BY <2>3, <2>6, <3>1, <4>1, Zenon
      <4>3. Nothing(ReadField(d, 12))
        BY <3>4, <4>1, <4>2, FieldSkipped, Zenon
      <4> QED BY <3>2, <3>3, <3>4, <4>3, Zenon
    <3>5. CASE ~ (12 <= Len(d))
      <4>1. 8 + 4 = 12 /\ 8 \in {8, 12}
        OBVIOUS
      <4>2. 8 + 4 <= Len(d) => Skipped(ValueAt(d, 8 + 1))
        BY <3>5, <4>1, Zenon
      <4>3. Nothing(ReadField(d, 8))
        BY <1>3, <4>1, <4>2, FieldSkipped, Zenon
      <4> QED BY <3>2, <3>3, <3>5, <4>3, Zenon
    <3> QED BY <3>4, <3>5
  <2>7. t \in {0, 1, 2, 3, 4} \/ t \notin 0 .. 4
    BY <2>2
  <2>8. CASE t = 0
    <3>1. Decode(d) = Read("LOGIN", << >>, << >>, << >>)
      BY <2>4, <2>5, <2>8, DecodeCases DEF Nothing
    <3> QED BY <3>1
  <2>9. CASE t = 1
    <3>1. Decode(d) = Read("JOIN", << >>, << >>, << >>)
      BY <2>4, <2>5, <2>9, DecodeCases DEF Nothing
    <3> QED BY <3>1
  <2>10. CASE t = 2
    <3>1. Decode(d) = Read("LEAVE", << >>, << >>, << >>)
      BY <2>4, <2>5, <2>10, DecodeCases DEF Nothing
    <3> QED BY <3>1
  <2>11. CASE t = 3
    <3>1. Decode(d) = Read("SEND", << >>, << >>, << >>)
      BY <2>4, <2>5, <2>6, <2>11, DecodeCases DEF Nothing
    <3> QED BY <3>1
  <2>12. CASE t = 4
    <3>1. Decode(d).type = "RECIEVE"
      BY <2>4, <2>12, DecodeCases DEF Read
    <3> QED BY <3>1
  <2>13. CASE t \notin 0 .. 4
    <3>1. Decode(d) = Read("ERROR", << >>, << >>, << >>)
      BY <2>4, <2>13, DecodeCases
    <3> QED BY <3>1
  <2> QED BY <2>7, <2>8, <2>9, <2>10, <2>11, <2>12, <2>13
<1> QED BY <1>1, <1>2, <1>3

-----------------------------------------------------------------------------
(* The items are messages of the client, and only the first of them may be *)
(* what is left of one.                                                    *)

FromClient(items) ==
  \A j \in 1 .. Len(items) :
    /\ items[j].message.type # "RECIEVE"
    /\ 2 <= j => Whole(items[j])

IsByteOf(c, items) ==
  \E j \in 1 .. Len(items) : \E b \in 1 .. Len(Written[items[j].message].bytes) :
    c = Written[items[j].message].bytes[b]

LEMMA ByteOfItem ==
  ASSUME NEW bytes, NEW items, Carries(bytes, items), NEW i \in 1 .. Len(bytes)
  PROVE  IsByteOf(bytes[i], items)
<1>1. items \in Seq(Item) /\ bytes \in Seq(Nat) /\ Len(bytes) = UpTo(items, Len(items))
  BY DEF Carries
<1>2. i \in 1 .. UpTo(items, Len(items))
  BY <1>1
<1>3. PICK j \in 1 .. Len(items) : UpTo(items, j) >= i /\ UpTo(items, j - 1) < i
  BY <1>1, <1>2, CoveringFacts
<1>4. /\ items[j].left \in Nat /\ items[j].message \in Sendable /\ UpTo(items, j - 1) \in Nat
      /\ UpTo(items, j) = UpTo(items, j - 1) + items[j].left
  BY <1>1, ItemLeft
<1> DEFINE w == Written[items[j].message].bytes
           l == items[j].left
           u == UpTo(items, j - 1)
           b == i - u
<1>5. l \in 1 .. Len(w) /\ Len(w) \in Nat
  BY <1>4, SendableWritten DEF Carries
<1>6. b \in 1 .. l /\ u + b = i
  BY <1>1, <1>3, <1>4
<1>7. bytes[u + b] = w[Len(w) - l + b]
  <2>1. AtPlace(bytes, items, j, b)
    BY <1>6, ContentPlace, Zenon
  <2> QED BY <2>1, Zenon DEF AtPlace
<1> HIDE DEF b, u, l
<1>8. Len(w) - l + b \in 1 .. Len(w)
  BY <1>5, <1>6
<1> HIDE DEF w
<1>9. \E c \in 1 .. Len(w) : bytes[i] = w[c]
  BY <1>6, <1>7, <1>8, Zenon
<1> QED BY <1>9, Zenon DEF w, IsByteOf

LEMMA RestIsNothing ==
  ASSUME WordsAreLong, NEW bytes, NEW items, Carries(bytes, items), FromClient(items),
         items # << >>, ~ Whole(items[1]), NEW n \in 1 .. Min({Len(bytes), BufLen})
  PROVE  LET d == SubSeq(bytes, 1, n)
         IN \/ Decode(d).type = "RECIEVE"
            \/ \E t \in {"LOGIN", "JOIN", "LEAVE", "SEND", "ERROR"} :
                 Decode(d) = Read(t, << >>, << >>, << >>)
<1> DEFINE d == SubSeq(bytes, 1, n)
           w == Written[items[1].message].bytes
           rest == items[1].left
<1>1. items \in Seq(Item) /\ bytes \in Seq(Nat) /\ Len(bytes) = UpTo(items, Len(items))
  BY DEF Carries
<1>2. /\ n \in 1 .. Len(bytes) /\ n \in Nat /\ ByteBase * n <= Words /\ d \in Seq(Nat) /\ Len(d) = n
      /\ (\A k \in 1 .. n : d[k] = bytes[k])
  BY <1>1, CutFacts
<1>3. 1 \in 1 .. Len(items) /\ 1 - 1 = 0 /\ Len(items) \in Nat
  <2>1. Len(items) \in Nat /\ Len(items) # 0
    BY <1>1, LenProperties, EmptySeq
  <2> QED BY <2>1
<1>4. ASSUME NEW j \in 1 .. Len(items)
      PROVE  /\ \E room, text : Shape(Written[items[j].message].bytes, room, text)
             /\ items[j].left \in Nat /\ UpTo(items, j - 1) \in Nat
             /\ UpTo(items, j) = UpTo(items, j - 1) + items[j].left
             /\ items[j].left \in 1 .. Len(Written[items[j].message].bytes)
             /\ Len(Written[items[j].message].bytes) \in Nat
  <2>1. /\ items[j].left \in Nat /\ items[j].message \in Sendable /\ UpTo(items, j - 1) \in Nat
        /\ UpTo(items, j) = UpTo(items, j - 1) + items[j].left
    BY <1>1, ItemLeft
  <2>2. items[j].message.type # "RECIEVE"
    BY DEF FromClient
  <2>3. \E room, text : Shape(Written[items[j].message].bytes, room, text)
    BY <2>1, <2>2, SendableShape, Zenon
  <2>4. items[j].left \in 1 .. Len(Written[items[j].message].bytes)
    BY Zenon DEF Carries
  <2>5. Len(Written[items[j].message].bytes) \in Nat
    BY <2>1, SendableWritten
  <2> QED BY <2>1, <2>3, <2>4, <2>5, Zenon
<1>5. IsBytes(d)
  <2>1. ASSUME NEW i \in 1 .. Len(d) PROVE d[i] \in Nat /\ d[i] < ByteBase
    <3>1. i \in 1 .. Len(bytes) /\ d[i] = bytes[i]
      BY <1>1, <1>2
    <3> HIDE DEF d
    <3>2. PICK j \in 1 .. Len(items) : \E b \in 1 .. Len(Written[items[j].message].bytes) :
            bytes[i] = Written[items[j].message].bytes[b]
      <4>1. IsByteOf(bytes[i], items)
        BY <3>1, ByteOfItem, Zenon
      <4> QED BY <4>1, Zenon DEF IsByteOf
    <3>3. IsBytes(Written[items[j].message].bytes)
      BY <1>4, ShapeType, Zenon
    <3> QED BY <3>1, <3>2, <3>3, Zenon DEF IsBytes
  <2> HIDE DEF d
  <2> QED BY <1>2, <2>1 DEF IsBytes
<1>6. UpTo(items, 0) = 0 /\ UpTo(items, 1) = rest
  <2>1. UpTo(items, 0) = 0
    BY <1>1, UpToSteps
  <2> QED BY <1>3, <1>4, <2>1
<1>7. rest \in Nat /\ 1 <= rest /\ rest < Len(w) /\ Len(w) \in Nat
  <2>1. rest # Len(w)
    BY DEF Whole
  <2>2. rest \in 1 .. Len(w) /\ Len(w) \in Nat
    BY <1>3, <1>4, Zenon
  <2> HIDE DEF w, rest
  <2> QED BY <2>1, <2>2
<1>8. ASSUME NEW i \in 1 .. Len(d), i <= rest PROVE d[i] = w[(Len(w) - rest) + i]
  <2>1. i \in 1 .. items[1].left /\ i \in 1 .. n /\ 0 + i = i
    BY <1>2, <1>7, <1>8
  <2>2. AtPlace(bytes, items, 1, i)
    BY <1>3, <2>1, ContentPlace, Zenon
  <2>3. bytes[UpTo(items, 1 - 1) + i] = w[Len(w) - rest + i]
    BY <2>2, Zenon DEF AtPlace
  <2>4. bytes[i] = w[Len(w) - rest + i]
    BY <1>3, <1>6, <2>1, <2>3, Zenon
  <2> HIDE DEF d, w, rest
  <2> QED BY <1>2, <2>1, <2>4
<1>9. \E v, room, text : Shape(v, room, text) /\ Follows(d, w, rest, v)
  <2>1. PICK room, text : Shape(w, room, text)
    BY <1>3, <1>4
  <2>2. IsBytes(w)
    BY <2>1, ShapeType, Zenon
  <2>3. CASE Len(items) = 1
    <3>1. Len(d) <= rest
      <4>1. Len(bytes) = rest
        BY <1>1, <1>6, <2>3
      <4> HIDE DEF d, rest
      <4> QED BY <1>2, <1>7, <4>1
    <3> HIDE DEF d, w, rest
    <3>2. Len(d) \in Nat
      BY <1>2
    <3>3. Follows(d, w, rest, w)
      BY <1>5, <1>7, <1>8, <2>2, <3>1, <3>2 DEF Follows
    <3> QED BY <2>1, <3>3
  <2>4. CASE Len(items) # 1
    <3> DEFINE v == Written[items[2].message].bytes
    <3>1. 2 \in 1 .. Len(items) /\ 2 - 1 = 1
      <4>1. \A k \in Nat : 1 \in 1 .. k /\ k # 1 => 2 \in 1 .. k
        OBVIOUS
      <4>2. 2 - 1 = 1
        OBVIOUS
      <4> QED BY <1>3, <2>4, <4>1, <4>2, Zenon
    <3>2. PICK room2, text2 : Shape(v, room2, text2)
      BY <1>4, <3>1
    <3>3. IsBytes(v) /\ Len(v) \in Nat
      BY <3>2, ShapeType, Zenon
    <3>4. items[2].left = Len(v)
      BY <3>1 DEF FromClient, Whole
    <3>5. ASSUME NEW i \in 1 .. Len(d), rest < i, i - rest <= Len(v) PROVE d[i] = v[i - rest]
      <4> DEFINE b == i - rest
      <4>1. b \in 1 .. Len(v) /\ rest + b = i /\ i \in 1 .. n /\ (Len(v) - Len(v)) + b = b
        <5> HIDE DEF d, rest, v
        <5> QED BY <1>2, <1>7, <3>3, <3>5
      <4> HIDE DEF b
      <4>2. b \in 1 .. items[2].left
        BY <3>4, <4>1, Zenon
      <4>3. AtPlace(bytes, items, 2, b)
        BY <3>1, <4>2, ContentPlace, Zenon
      <4>4. bytes[UpTo(items, 2 - 1) + b] = v[Len(v) - items[2].left + b]
        BY <4>3, Zenon DEF AtPlace
      <4>5. bytes[i] = v[b]
        BY <1>6, <3>1, <3>4, <4>1, <4>4, Zenon
      <4>6. d[i] = bytes[i]
        <5> HIDE DEF d
        <5> QED BY <1>2, <4>1
      <4> QED BY <4>5, <4>6, Zenon DEF b
    <3> HIDE DEF d, w, rest, v
    <3>6. Follows(d, w, rest, v)
      BY <1>5, <1>7, <1>8, <2>2, <3>3, <3>5 DEF Follows
    <3> QED BY <3>2, <3>6
  <2> QED BY <2>3, <2>4
<1>10. ReadsNothing(d)
  <2>1. PICK room, text : Shape(w, room, text)
    BY <1>3, <1>4
  <2>2. PICK v, room2, text2 : Shape(v, room2, text2) /\ Follows(d, w, rest, v)
    BY <1>9
  <2> HIDE DEF d, w, rest
  <2>3. CASE rest <= 4
    BY <2>2, <2>3, RestBeforeType, Zenon
  <2>4. CASE 5 <= rest /\ rest <= 8
    BY <2>1, <2>2, <2>4, RestInType, Zenon
  <2>5. CASE 9 <= rest
    BY <2>1, <2>2, <2>5, RestAfterType, Zenon
  <2> QED BY <1>7, <2>3, <2>4, <2>5
<1>11. ByteBase * Len(d) <= Words /\ Len(d) <= 2 * ByteBase /\ 20 < Words
  <2>1. n <= BufLen /\ BufLen \in Nat
    <3>1. n <= Min({Len(bytes), BufLen})
      OBVIOUS
    <3>2. BufLen \in Nat /\ Len(bytes) \in Nat
      BY <1>1, ClientAssumption, LenProperties
    <3>3. Min({Len(bytes), BufLen}) <= BufLen /\ Min({Len(bytes), BufLen}) \in Nat
      BY <3>2 DEF Min
    <3> QED BY <1>2, <3>1, <3>2, <3>3
  <2>2. Len(d) <= 2 * ByteBase /\ 20 < Words
    <3> HIDE DEF d
    <3> QED BY <1>2, <2>1, Sizes, WordsType DEF WordsAreLong, Space
  <2>3. ByteBase * Len(d) <= Words
    <3> HIDE DEF d
    <3> QED BY <1>2, Zenon
  <2> QED BY <2>2, <2>3
<1> HIDE DEF d
<1>12. \/ Decode(d).type = "RECIEVE"
       \/ \E t \in {"LOGIN", "JOIN", "LEAVE", "SEND", "ERROR"} :
            Decode(d) = Read(t, << >>, << >>, << >>)
  BY <1>5, <1>10, <1>11, RestDecoded, Zenon
<1> QED BY <1>12, Zenon DEF d

FromHere == FromClient(toItems)

LEMMA FromClientMore ==
  ASSUME NEW items \in Seq(Item), FromClient(items), NEW m \in Sendable, m.type # "RECIEVE",
         NEW it, it = [message |-> m, left |-> Len(Written[m].bytes)]
  PROVE  FromClient(Append(items, it))
<1>1. it \in Item /\ it.message = m /\ Whole(it)
  BY SendableWritten DEF Item, Whole
<1> DEFINE all == Append(items, it)
<1>2. /\ Len(items) \in Nat /\ Len(all) = Len(items) + 1 /\ all[Len(items) + 1] = it
      /\ \A k \in 1 .. Len(items) : all[k] = items[k]
  BY <1>1, AppendProperties, LenProperties
<1> HIDE DEF all
<1>3. ASSUME NEW j \in 1 .. Len(all)
      PROVE  all[j].message.type # "RECIEVE" /\ (2 <= j => Whole(all[j]))
  <2>1. CASE j \in 1 .. Len(items)
    BY <1>2, <2>1, Zenon DEF FromClient
  <2>2. CASE j \notin 1 .. Len(items)
    <3>1. j = Len(items) + 1
      BY <1>2, <2>2
    <3> QED BY <1>1, <1>2, <3>1, Zenon
  <2> QED BY <2>1, <2>2
<1> QED BY <1>3 DEF FromClient, all

LEMMA FromClientLess ==
  ASSUME NEW items \in Seq(Item), FromClient(items), NEW n \in Nat
  PROVE  FromClient(Untaken(items, n))
<1> DEFINE u == Untaken(items, n)
<1>1. PICK k \in 0 .. Len(items) :
        /\ Len(u) = Len(items) - k
        /\ \A j \in 1 .. Len(items) - k : u[j].message = items[k + j].message
        /\ \A j \in 2 .. Len(items) - k : u[j].left = items[k + j].left
  BY UntakenFacts
<1>2. Len(items) \in Nat
  BY LenProperties
<1> HIDE DEF u
<1>3. ASSUME NEW j \in 1 .. Len(u)
      PROVE  u[j].message.type # "RECIEVE" /\ (2 <= j => Whole(u[j]))
  <2>1. j \in 1 .. Len(items) - k /\ k + j \in 1 .. Len(items) /\ (2 <= j => 2 <= k + j)
    BY <1>1, <1>2
  <2>2. u[j].message = items[k + j].message /\ items[k + j].message.type # "RECIEVE"
    BY <1>1, <2>1 DEF FromClient
  <2>3. ASSUME 2 <= j PROVE Whole(u[j])
    <3>1. j \in 2 .. Len(items) - k
      BY <1>1, <1>2, <2>1, <2>3
    <3>2. u[j].left = items[k + j].left
      BY <1>1, <3>1
    <3>3. Whole(items[k + j])
      BY <2>1, <2>3 DEF FromClient
    <3> QED BY <2>2, <3>2, <3>3, Zenon DEF Whole
  <2> QED BY <2>2, <2>3
<1> QED BY <1>3 DEF FromClient, u

LEMMA FromHereSent ==
  ASSUME StreamInv, FromHere, NEW m \in Sendable, m.type # "RECIEVE", Transmit(m)
  PROVE  FromHere'
<1>1. toItems \in Seq(Item)
  BY DEF StreamInv, Carries
<1> DEFINE it == [message |-> m, left |-> Len(Written[m].bytes)]
<1>2. toItems' = Append(toItems, it) \/ toItems' = toItems
  BY DEF Transmit
<1>3. FromClient(Append(toItems, it))
  BY <1>1, FromClientMore, Zenon DEF FromHere
<1> HIDE DEF it
<1>4. FromClient(toItems)
  BY DEF FromHere
<1>5. FromClient(toItems')
  BY <1>2, <1>3, <1>4, Zenon
<1> QED BY <1>5 DEF FromHere

LEMMA FromHereStep ==
  ASSUME StreamInv, FromHere, [Next]_vars
  PROVE  FromHere'
<1>1. ASSUME toItems' = toItems PROVE FromHere'
  <2>1. FromClient(toItems')
    BY <1>1, Zenon DEF FromHere
  <2> QED BY <2>1 DEF FromHere
<1>2. ASSUME EnterLogin PROVE FromHere'
  <2>1. CASE \E l \in Logins : Transmit(LoginMessage(l))
    <3>1. PICK l \in Logins : Transmit(LoginMessage(l))
      BY <2>1
    <3>2. LoginMessage(l) \in Sendable /\ LoginMessage(l).type # "RECIEVE"
      BY LoginProper DEF LoginMessage, Message
    <3> QED BY <3>1, <3>2, FromHereSent
  <2>2. CASE toItems' = toItems
    BY <1>1, <2>2
  <2> QED BY <1>2, <2>1, <2>2 DEF EnterLogin
<1>3. ASSUME EnterCommand PROVE FromHere'
  <2>1. CASE \E l \in Lines : Transmit(CommandMessage(l))
    <3>1. PICK l \in Lines : Transmit(CommandMessage(l))
      BY <2>1
    <3>2. CommandMessage(l) \in Sendable /\ CommandMessage(l).type # "RECIEVE"
      BY CommandProper
    <3> QED BY <3>1, <3>2, FromHereSent
  <2>2. CASE toItems' = toItems
    BY <1>1, <2>2
  <2> QED BY <1>3, <2>1, <2>2 DEF EnterCommand
<1>4. ASSUME Escape PROVE FromHere'
  BY <1>1, <1>4 DEF Escape
<1>5. ASSUME ClientStep PROVE FromHere'
  <2>1. toItems' = toItems
    BY <1>5 DEF ClientStep, AwaitAnswer, AwaitEnds, Show, RecvFails, RecvNothing
  <2> QED BY <1>1, <2>1
<1>6. ASSUME ServerReads PROVE FromHere'
  <2>1. PICK n \in 1 .. Min({Len(toServer), BufLen}) : toItems' = Untaken(toItems, n)
    BY <1>6 DEF ServerReads
  <2>2. toItems \in Seq(Item) /\ toServer \in Seq(Nat)
    BY DEF StreamInv, Carries
  <2>3. n \in Nat
    BY <2>2, CutFacts
  <2>4. FromClient(Untaken(toItems, n))
    BY <2>2, <2>3, FromClientLess, Zenon DEF FromHere
  <2>5. FromClient(toItems')
    BY <2>1, <2>4, Zenon
  <2> QED BY <2>5 DEF FromHere
<1>7. ASSUME ServerAnswers \/ ServerPosts PROVE FromHere'
  <2>1. toItems' = toItems
    BY <1>7 DEF ServerAnswers, ServerPosts
  <2> QED BY <1>1, <2>1
<1>8. ASSUME ServerEnds PROVE FromHere'
  <2>1. toItems' = << >>
    BY <1>8 DEF ServerEnds
  <2>2. FromClient(<< >>)
    BY DEF FromClient
  <2>3. FromClient(toItems')
    BY <2>1, <2>2, Zenon
  <2> QED BY <2>3 DEF FromHere
<1>9. ASSUME UNCHANGED vars PROVE FromHere'
  <2>1. toItems' = toItems
    BY <1>9 DEF vars
  <2> QED BY <1>1, <2>1
<1> QED BY <1>2, <1>3, <1>4, <1>5, <1>6, <1>7, <1>8, <1>9 DEF Next, Keys, Server

LEMMA AbstractRest ==
  ASSUME NEW items \in Seq(Item), items # << >>, ~ Whole(items[1]), NEW k \in 1 .. Len(items)
  PROVE  Head(SubSeq(Abstract(items), 1, k)) = Remainder
<1> DEFINE A == Abstract(items)
           S == Sendable \union {Remainder}
           s == SubSeq(A, 1, k)
<1>1. Len(items) \in Nat /\ 1 \in 1 .. Len(items)
  BY LenProperties
<1>2. ASSUME NEW j \in 1 .. Len(items) PROVE items[j].message \in S
  BY ItemLeft
<1>3. A \in [1 .. Len(items) -> S] /\ A[1] = Remainder
  BY <1>1, <1>2 DEF Abstract
<1> HIDE DEF A, S
<1>4. 1 \in Int /\ k \in Int /\ 1 <= k /\ k - 1 + 1 = k /\ \A j \in 1 .. k : j \in 1 .. Len(items)
  BY <1>1
<1>5. s \in Seq(S) /\ Len(s) = k /\ s[1] = A[1]
  <2>1. \A j \in 1 .. k : A[j] \in S
    BY <1>3, <1>4
  <2>2. /\ s \in Seq(S) /\ Len(s) = IF 1 <= k THEN k - 1 + 1 ELSE 0
        /\ \A i \in 1 .. k - 1 + 1 : s[i] = A[1 + i - 1]
    BY <1>4, <2>1, SubSeqProperties
  <2>3. 1 \in 1 .. k - 1 + 1 /\ 1 + 1 - 1 = 1
    BY <1>4
  <2>4. s[1] = A[1 + 1 - 1]
    BY <2>2, <2>3
  <2> HIDE DEF s
  <2> QED BY <1>4, <2>2, <2>3, <2>4
<1> HIDE DEF s
<1>6. Head(s) = s[1]
  BY <1>4, <1>5
<1> QED BY <1>3, <1>5, <1>6 DEF s, A

(* A recv that begins inside a message finds no strings, when the words    *)
(* are not as short as one letter and the messages not as long as millions *)
(* of them: then what readMessage takes for a length is empty or points    *)
(* past the data, and never past the largest size.                         *)
THEOREM RestAlwaysProtocol ==
  ASSUME WordsAreLong
  PROVE  Spec => []RestIsProtocol
<1>1. Init => FromHere
  BY DEF Init, FromHere, FromClient
<1>2. StreamInv /\ FromHere /\ [Next]_vars => FromHere'
  BY FromHereStep
<1>3. ASSUME StreamInv, FromHere PROVE RestIsProtocol
  <2> SUFFICES ASSUME toItems # << >>, ~ Whole(toItems[1]),
                      NEW n \in 1 .. Min({Len(toServer), BufLen})
               PROVE  LET k       == Covering(toItems, n)
                          results == ReadMessage(SubSeq(Abstract(toItems), 1, k),
                                                 UpTo(toItems, k) # n)
                      IN \E m \in results : SameMessage(Decode(SubSeq(toServer, 1, n)), m)
    BY DEF RestIsProtocol, ReadAsProtocol
  <2> DEFINE k == Covering(toItems, n)
             s == SubSeq(Abstract(toItems), 1, k)
             cut == UpTo(toItems, k) # n
             d == Decode(SubSeq(toServer, 1, n))
  <2>1. Carries(toServer, toItems) /\ toItems \in Seq(Item) /\ Len(toServer) = UpTo(toItems, Len(toItems))
    BY <1>3 DEF StreamInv, Carries
  <2>2. k \in 1 .. Len(toItems)
    <3>1. n \in 1 .. Len(toServer)
      BY <2>1, CutFacts DEF Carries
    <3>2. n \in 1 .. UpTo(toItems, Len(toItems))
      BY <2>1, <3>1
    <3> QED BY <2>1, <3>2, CoveringFacts
  <2>3. /\ Head(s) = Remainder
    <3> HIDE DEF k
    <3> QED BY <2>1, <2>2, AbstractRest, Zenon
  <2>4. \/ d.type = "RECIEVE"
        \/ \E t \in {"LOGIN", "JOIN", "LEAVE", "SEND", "ERROR"} :
             d = Read(t, << >>, << >>, << >>)
    BY <1>3, <2>1, RestIsNothing, Zenon DEF FromHere
  <2> HIDE DEF s, k, d
  <2>5. ReadMessage(s, cut) = ReadRemainder
    <3> HIDE DEF cut
    <3> QED BY <2>3 DEF ReadMessage
  <2>6. \E m \in ReadRemainder : SameMessage(d, m)
    <3>1. CASE d.type = "RECIEVE"
      <4>1. Blank("RECIEVE") \in ReadRemainder /\ Blank("RECIEVE").type = "RECIEVE"
        BY SpelledBlank DEF ReadRemainder
      <4>2. SameMessage(d, Blank("RECIEVE"))
        BY <3>1, <4>1 DEF SameMessage
      <4> QED BY <4>1, <4>2
    <3>2. CASE \E t \in {"LOGIN", "JOIN", "LEAVE", "SEND", "ERROR"} : d = Read(t, << >>, << >>, << >>)
      <4>1. PICK t \in {"LOGIN", "JOIN", "LEAVE", "SEND", "ERROR"} : d = Read(t, << >>, << >>, << >>)
        BY <3>2
      <4>2. Blank(t) \in ReadRemainder /\ Blank(t).type = t /\ Spelled(Blank(t)) = d
        BY <4>1, SpelledBlank DEF ReadRemainder
      <4>3. d.type = t
        BY <4>1 DEF Read
      <4>4. SameMessage(d, Blank(t))
        BY <4>2, <4>3 DEF SameMessage
      <4> QED BY <4>2, <4>4
    <3> QED BY <2>4, <3>1, <3>2
  <2> QED BY <2>5, <2>6, Zenon DEF s, d, k
<1> QED BY <1>1, <1>2, <1>3, StreamInvariant, PTL DEF Spec

=============================================================================
