-------------------------------- MODULE Wire --------------------------------
(***************************************************************************)
(* The bytes of the chat messages: what writeMessage puts into a           *)
(* SendBuffer and what readMessage takes out of a RecieveBuffer            *)
(* (ProtocolManager.cpp, SendBuffer.cpp, RecieveBuffer.cpp).  ChatProtocol *)
(* says the same of whole messages and their parts.                        *)
(*                                                                         *)
(* A byte is a number below ByteBase and an int is IntSize of them, the    *)
(* lowest first: 256 and 4 in the code.  Arithmetic on sizes and indices   *)
(* is modulo Words, 2^32 in the code.                                      *)
(***************************************************************************)
EXTENDS ChatProtocol, SequencesExt, FiniteSetsExt

CONSTANTS
  ByteBase, IntSize,
  SendSize,         \* the size a SendBuffer starts with: 64
  Bytes             \* the characters of every string of the model

ASSUME WireAssumption ==
  /\ ByteBase \in Nat \ {0, 1} /\ IntSize \in Nat \ {0} /\ SendSize \in Nat \ {0}
  /\ Bytes \in [DOMAIN Bytes -> Seq(Nat)] /\ "" \in DOMAIN Bytes /\ Bytes[""] = << >>
  /\ \A s \in DOMAIN Bytes : \A k \in 1 .. Len(Bytes[s]) : Bytes[s][k] # 0 /\ 2 * Bytes[s][k] < ByteBase

(* How many ints there are: 2^32 in the code.                              *)
Words ==
  LET Power[k \in 0 .. IntSize] == IF k = 0 THEN 1 ELSE ByteBase * Power[k - 1]
  IN Power[IntSize]

-----------------------------------------------------------------------------
(* SendBuffer.                                                             *)

NewBuffer == [size |-> SendSize, bytes |-> << >>]

(* growBuffer, as often as it takes for `need' bytes to fit.  (Beyond the  *)
(* largest size the loop in the code would never end.)                     *)
GrownOnce(size, need) == IF size < need THEN (size * 2) % Words ELSE size  \* mutant
Grown(size, need) ==
  LET Grow[s \in Nat] == IF s < need THEN Grow[(s * 2) % Words] ELSE s
  IN Grow[size]

(* writeInt and writeString add these bytes; both make room first.         *)
Put(buffer, bs) ==
  [size  |-> Grown(buffer.size, Len(buffer.bytes) + Len(bs)),
   bytes |-> buffer.bytes \o bs]

(* Each byte is the lowest one of what is left when n is shifted.          *)
IntBytes(n) ==
  LET Shifted[k \in 1 .. IntSize] == IF k = 1 THEN n ELSE Shifted[k - 1] \div ByteBase
  IN [k \in 1 .. IntSize |-> Shifted[k] % ByteBase]

PutInt(buffer, n)     == Put(buffer, IntBytes(n))
PutString(buffer, bs) == Put(PutInt(buffer, Len(bs)), bs)

(* A text is a tuple of strings, with spaces between them.                 *)
Space == 32
TextBytes(ws) ==
  FlattenSeq([k \in 1 .. Len(ws) |-> (IF k = 1 THEN << >> ELSE << Space >>) \o Bytes[ws[k]]])

TypeCode == [LOGIN |-> 0, JOIN |-> 1, LEAVE |-> 2, SEND |-> 3, RECIEVE |-> 4]

(* writeMessage: the length of it all, the type, and every string after    *)
(* its length.                                                             *)
WriteMessage(m) ==
  LET name == Bytes[m.name]
      room == Bytes[m.room]
      text == TextBytes(m.text)
      Header(length) == PutInt(PutInt(NewBuffer, length), TypeCode[m.type])
  IN CASE m.type = "LOGIN" -> PutString(Header(3 * IntSize + Len(name)), name)
       [] m.type \in {"JOIN", "LEAVE"} -> PutString(Header(3 * IntSize + Len(room)), room)
       [] m.type = "SEND" ->
            PutString(PutString(Header(4 * IntSize + Len(room) + Len(text)), room), text)
       [] m.type = "RECIEVE" ->
            PutString(PutString(PutString(Header(5 * IntSize + Len(room) + Len(text) + Len(name)),
                                          name), room), text)

-----------------------------------------------------------------------------
(* RecieveBuffer: d is the data received, r the read index.  Each read     *)
(* gives what it returns and where the index is then.                      *)

IntOf(bs) ==
  LET From[k \in 1 .. IntSize + 1] == IF k > IntSize THEN 0 ELSE bs[k] + ByteBase * From[k + 1]
  IN From[1]

ReadInt(d, r) ==
  IF Len(d) < (r + IntSize) % Words
    THEN [result |-> 0, at |-> r]
    ELSE [result |-> IntOf(SubSeq(d, r + 1, r + IntSize)), at |-> r + IntSize]

(* The check passes, too, when the sum wraps around; the bytes read then   *)
(* are not the buffer's.                                                   *)
ReadPast(d, r, length) ==                                          \* mutant
  [result |-> SubSeq(d, r + 1, Min({r + length, Len(d)})), at |-> Min({r + length, Len(d)})]
ReadString(d, r, length) ==
  CASE Len(d) < (r + length) % Words -> [result |-> << >>, at |-> r]
    [] r + length <= Len(d)          -> [result |-> SubSeq(d, r + 1, r + length), at |-> r + length]
    [] OTHER                         -> [result |-> << -1 >>, at |-> r]

ReadField(d, r) == LET n == ReadInt(d, r) IN ReadString(d, n.at, n.result)

(* readMessage.                                                            *)
Decode(d) ==
  LET length == ReadInt(d, 0)
      type   == ReadInt(d, length.at)
      first  == ReadField(d, type.at)
      second == ReadField(d, first.at)
      third  == ReadField(d, second.at)
      Decoded(t, n, r, x) == [type |-> t, name |-> n, room |-> r, text |-> x]
  IN CASE type.result = 0 -> Decoded("LOGIN", first.result, << >>, << >>)
       [] type.result = 1 -> Decoded("JOIN",  << >>, first.result, << >>)
       [] type.result = 2 -> Decoded("LEAVE", << >>, first.result, << >>)
       [] type.result = 3 -> Decoded("SEND",  << >>, first.result, second.result)
       [] type.result = 4 -> Decoded("RECIEVE", first.result, second.result, third.result)
       [] OTHER           -> Decoded("ERROR", << >>, << >>, << >>)

(* A message of ChatProtocol as Decode gives it.                           *)
Spelled(m) ==
  [type |-> m.type, name |-> Bytes[m.name], room |-> Bytes[m.room], text |-> TextBytes(m.text)]
=============================================================================
