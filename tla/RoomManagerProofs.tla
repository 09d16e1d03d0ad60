------------------------- MODULE RoomManagerProofs -------------------------
(***************************************************************************)
(* Lemmas about the operators of RoomManager, for rooms and members of any *)
(* number.                                                                 *)
(***************************************************************************)
EXTENDS RoomManager, TLAPS, SequenceTheorems, FiniteSetTheorems, WellFoundedInduction

(* A part of a sequence that lies inside it.                               *)
LEMMA PartOfSeq ==
  ASSUME NEW S, NEW s \in Seq(S), NEW m \in 1 .. Len(s) + 1, NEW n \in 0 .. Len(s)
  PROVE  /\ SubSeq(s, m, n) \in Seq(S)
         /\ Len(SubSeq(s, m, n)) = IF m <= n THEN n - m + 1 ELSE 0
         /\ \A j \in 1 .. n - m + 1 : SubSeq(s, m, n)[j] = s[m + j - 1]
<1>1. Len(s) \in Nat /\ \A j \in 1 .. Len(s) : s[j] \in S
  BY LenProperties, ElementOfSeq
<1>2. m \in Int /\ n \in Int /\ \A j \in m .. n : s[j] \in S
  BY <1>1
<1> QED BY <1>2, SubSeqProperties

(* A nonempty set of naturals has a least element, and Min is it.  (Of the *)
(* intervals 1 .. k with k in the set, one is minimal under inclusion.)    *)
LEMMA MinOfNaturals ==
  ASSUME NEW I, I \subseteq Nat, I # {}
  PROVE  Min(I) \in I /\ \A k \in I : Min(I) <= k
<1> DEFINE R == StrictSubsetOrdering(Nat)
           T == {1 .. k : k \in I}
<1>1. T \subseteq FiniteSubsetsOf(Nat) /\ T # {}
  <2>1. ASSUME NEW k \in I PROVE 1 .. k \in FiniteSubsetsOf(Nat)
    <3>1. k \in Int /\ 1 .. k \subseteq Nat
      OBVIOUS
    <3> QED BY <3>1, FS_Interval DEF FiniteSubsetsOf
  <2> QED BY <2>1
<1>2. PICK t \in T : \A s \in T : << s, t >> \notin R
  <2>1. IsWellFoundedOn(R, FiniteSubsetsOf(Nat))
    BY FS_StrictSubsetOrderingWellFounded
  <2> HIDE DEF R, T
  <2> QED BY <1>1, <2>1, WFMin
<1>3. PICK x \in I : t = 1 .. x
  OBVIOUS
<1>4. ASSUME NEW y \in I PROVE x <= y
  <2>1. << 1 .. y, 1 .. x >> \notin R
    BY <1>2, <1>3
  <2>2. ~ (1 .. y \subseteq 1 .. x /\ 1 .. y # 1 .. x)
    BY <2>1 DEF StrictSubsetOrdering
  <2>3. SUFFICES ASSUME y < x PROVE FALSE
    OBVIOUS
  <2>4. x \in 1 .. x /\ x \notin 1 .. y /\ 1 .. y \subseteq 1 .. x
    BY <2>3
  <2> QED BY <2>2, <2>4
<1> QED BY <1>4 DEF Min

(* Taking out the k-th element of a sequence keeps the others in order.    *)
LEMMA RemoveAtProperties ==
  ASSUME NEW S, NEW s \in Seq(S), NEW k \in 1 .. Len(s)
  PROVE  /\ RemoveAt(s, k) \in Seq(S)
         /\ Len(RemoveAt(s, k)) = Len(s) - 1
         /\ \A j \in 1 .. Len(s) - 1 :
              RemoveAt(s, k)[j] = IF j < k THEN s[j] ELSE s[j + 1]
<1> DEFINE u == SubSeq(s, 1, k - 1)
           v == SubSeq(s, k + 1, Len(s))
<1>1. Len(s) \in Nat /\ \A j \in 1 .. Len(s) : s[j] \in S
  BY LenProperties, ElementOfSeq
<1>2. u \in Seq(S) /\ Len(u) = k - 1 /\ \A j \in 1 .. k - 1 : u[j] = s[j]
  <2>1. \A j \in 1 .. k - 1 : s[j] \in S
    BY <1>1
  <2>2. 1 \in Int /\ k - 1 \in Int
    BY <1>1
  <2> QED BY <1>1, <2>1, <2>2, SubSeqProperties
<1>3. v \in Seq(S) /\ Len(v) = Len(s) - k /\ \A j \in 1 .. Len(s) - k : v[j] = s[k + j]
  <2>1. \A j \in k + 1 .. Len(s) : s[j] \in S
    BY <1>1
  <2>2. k + 1 \in Int /\ Len(s) \in Int
    BY <1>1
  <2>3. /\ v \in Seq(S)
        /\ Len(v) = IF k + 1 <= Len(s) THEN Len(s) - (k + 1) + 1 ELSE 0
        /\ \A j \in 1 .. Len(s) - (k + 1) + 1 : v[j] = s[k + 1 + j - 1]
    BY <2>1, <2>2, SubSeqProperties
  <2> QED BY <1>1, <2>3
<1>4. RemoveAt(s, k) = u \o v
  BY DEF RemoveAt
<1> HIDE DEF u, v
<1>5. /\ u \o v \in Seq(S)
      /\ Len(u \o v) = Len(u) + Len(v)
      /\ \A j \in 1 .. Len(u) + Len(v) :
           (u \o v)[j] = IF j <= Len(u) THEN u[j] ELSE v[j - Len(u)]
  BY <1>2, <1>3, ConcatProperties
<1>6. ASSUME NEW j \in 1 .. Len(s) - 1
      PROVE  (u \o v)[j] = IF j < k THEN s[j] ELSE s[j + 1]
  <2>1. CASE j < k
    BY <1>1, <1>2, <1>3, <1>5, <2>1
  <2>2. CASE ~ (j < k)
    <3>1. (u \o v)[j] = v[j - Len(u)] /\ j - Len(u) \in 1 .. Len(s) - k
      BY <1>1, <1>2, <1>3, <1>5, <2>2
    <3>2. v[j - Len(u)] = s[k + (j - Len(u))] /\ k + (j - Len(u)) = j + 1
      BY <1>1, <1>2, <1>3, <3>1
    <3> QED BY <2>2, <3>1, <3>2
  <2> QED BY <2>1, <2>2
<1> QED BY <1>1, <1>2, <1>3, <1>4, <1>5, <1>6

(* The others are what is left.                                            *)
LEMMA RemoveAtRange ==
  ASSUME NEW S, NEW s \in Seq(S), NEW k \in 1 .. Len(s)
  PROVE  Range(RemoveAt(s, k)) = {s[j] : j \in (1 .. Len(s)) \ {k}}
<1> DEFINE t == RemoveAt(s, k)
<1>1. /\ t \in Seq(S) /\ Len(t) = Len(s) - 1 /\ Len(s) \in Nat
      /\ \A j \in 1 .. Len(s) - 1 : t[j] = IF j < k THEN s[j] ELSE s[j + 1]
  BY RemoveAtProperties, LenProperties
<1> HIDE DEF t
<1>2. Range(t) = {t[j] : j \in 1 .. Len(t)}
  BY <1>1, RangeEquality
<1>3. ASSUME NEW j \in 1 .. Len(t) PROVE \E l \in (1 .. Len(s)) \ {k} : t[j] = s[l]
  <2>1. CASE j < k
    <3>1. j \in (1 .. Len(s)) \ {k} /\ t[j] = s[j]
      BY <1>1, <2>1
    <3> QED BY <3>1
  <2>2. CASE ~ (j < k)
    <3>1. j + 1 \in (1 .. Len(s)) \ {k} /\ t[j] = s[j + 1]
      BY <1>1, <2>2
    <3> QED BY <3>1
  <2> QED BY <2>1, <2>2
<1>4. ASSUME NEW l \in (1 .. Len(s)) \ {k} PROVE \E j \in 1 .. Len(t) : t[j] = s[l]
  <2>1. CASE l < k
    <3>1. l \in 1 .. Len(t) /\ t[l] = s[l]
      BY <1>1, <2>1
    <3> QED BY <3>1
  <2>2. CASE ~ (l < k)
    <3>1. l - 1 \in 1 .. Len(t) /\ ~ (l - 1 < k) /\ (l - 1) + 1 = l
      BY <1>1, <2>2
    <3>2. t[l - 1] = s[l]
      BY <1>1, <3>1
    <3> QED BY <3>1, <3>2
  <2> QED BY <2>1, <2>2
<1>5. Range(t) = {s[j] : j \in (1 .. Len(s)) \ {k}}
  <2> DEFINE O == (1 .. Len(s)) \ {k}
  <2>1. \A j \in 1 .. Len(t) : \E l \in O : t[j] = s[l]
    BY <1>3
  <2>2. \A l \in O : \E j \in 1 .. Len(t) : t[j] = s[l]
    BY <1>4
  <2> HIDE DEF O
  <2>3. {t[j] : j \in 1 .. Len(t)} = {s[l] : l \in O}
    BY <2>1, <2>2
  <2> QED BY <1>2, <2>3 DEF O
<1> QED BY <1>5 DEF t

(* RemoveFirst takes out one occurrence, the first, or nothing.            *)
LEMMA RemoveFirstCases ==
  ASSUME NEW S, NEW s \in Seq(S), NEW e
  PROVE  \/ /\ \A k \in 1 .. Len(s) : s[k] # e
            /\ RemoveFirst(s, e) = s
         \/ \E k \in 1 .. Len(s) :
              /\ s[k] = e /\ \A j \in 1 .. Len(s) : s[j] = e => k <= j
              /\ RemoveFirst(s, e) = RemoveAt(s, k)
<1> DEFINE I == {j \in 1 .. Len(s) : s[j] = e}
<1>1. CASE I = {}
  BY <1>1 DEF RemoveFirst
<1>2. CASE I # {}
  <2>1. Min(I) \in I /\ \A k \in I : Min(I) <= k
    <3>1. I \subseteq Nat
      BY LenProperties
    <3> HIDE DEF I
    <3> QED BY <1>2, <3>1, MinOfNaturals
  <2>2. RemoveFirst(s, e) = RemoveAt(s, Min(I))
    BY <1>2 DEF RemoveFirst, SelectInSeq
  <2> QED BY <2>1, <2>2
<1> QED BY <1>1, <1>2

(* Whoever is not removed stays a member, and nobody becomes one.          *)
LEMMA RemoveFirstRange ==
  ASSUME NEW S, NEW s \in Seq(S), NEW e
  PROVE  /\ RemoveFirst(s, e) \in Seq(S)
         /\ Range(RemoveFirst(s, e)) \subseteq Range(s)
         /\ \A x \in Range(s) : x # e => x \in Range(RemoveFirst(s, e))
<1>1. Range(s) = {s[j] : j \in 1 .. Len(s)}
  BY RangeEquality
<1>2. CASE RemoveFirst(s, e) = s
  BY <1>2
<1>3. ASSUME NEW k \in 1 .. Len(s), s[k] = e, RemoveFirst(s, e) = RemoveAt(s, k)
      PROVE  /\ RemoveFirst(s, e) \in Seq(S)
             /\ Range(RemoveFirst(s, e)) \subseteq Range(s)
             /\ \A x \in Range(s) : x # e => x \in Range(RemoveFirst(s, e))
  <2>1. RemoveAt(s, k) \in Seq(S) /\ Range(RemoveAt(s, k)) = {s[j] : j \in (1 .. Len(s)) \ {k}}
    BY RemoveAtProperties, RemoveAtRange
  <2> QED BY <1>1, <1>3, <2>1
<1> QED BY <1>2, <1>3, RemoveFirstCases

(* A client that is in a room once is not in it any more.                  *)
LEMMA RemoveFirstOfOne ==
  ASSUME NEW S, NEW s \in Seq(S), NEW e,
         \A j, k \in 1 .. Len(s) : s[j] = e /\ s[k] = e => j = k
  PROVE  e \notin Range(RemoveFirst(s, e))
<1>1. CASE RemoveFirst(s, e) = s /\ \A k \in 1 .. Len(s) : s[k] # e
  <2>1. Range(s) = {s[j] : j \in 1 .. Len(s)}
    BY RangeEquality
  <2> QED BY <1>1, <2>1
<1>2. ASSUME NEW k \in 1 .. Len(s), s[k] = e, RemoveFirst(s, e) = RemoveAt(s, k)
      PROVE  e \notin Range(RemoveFirst(s, e))
  <2>1. Range(RemoveAt(s, k)) = {s[j] : j \in (1 .. Len(s)) \ {k}}
    BY RemoveAtRange
  <2> QED BY <1>2, <2>1
<1> QED BY <1>1, <1>2, RemoveFirstCases

-----------------------------------------------------------------------------
(* The map of rooms keeps its type under the operations of the class.      *)

(* The members of any room are a sequence of clients.                      *)
LEMMA MembersOfType ==
  ASSUME NEW R, NEW C, NEW rooms, RoomMap(rooms, R, C), NEW r \in R
  PROVE  MembersOf(rooms, r) \in Seq(C)
BY DEF RoomMap, MembersOf

(* A room's new members replace the old ones and no other room changes.    *)
LEMMA WithMembersType ==
  ASSUME NEW R, NEW C, NEW rooms, RoomMap(rooms, R, C), NEW r \in R, NEW ms \in Seq(C)
  PROVE  /\ RoomMap(WithMembers(rooms, r, ms), R, C)
         /\ DOMAIN WithMembers(rooms, r, ms) = DOMAIN rooms \union {r}
         /\ \A x \in DOMAIN rooms \union {r} :
              WithMembers(rooms, r, ms)[x] = IF x = r THEN ms ELSE rooms[x]
BY DEF RoomMap, WithMembers

(* JOIN, LEAVE and the end of a client leave a map of rooms.               *)
LEMMA RoomOperationsType ==
  ASSUME NEW R, NEW C, NEW rooms, RoomMap(rooms, R, C), NEW r \in R, NEW c \in C
  PROVE  /\ RoomMap(AddMember(rooms, r, c), R, C)
         /\ RoomMap(RemoveMember(rooms, r, c), R, C)
         /\ RoomMap(DeleteMember(rooms, c), R, C)
<1>1. MembersOf(rooms, r) \in Seq(C)
  BY MembersOfType
<1>2. Append(MembersOf(rooms, r), c) \in Seq(C)
  BY <1>1, AppendProperties
<1>3. RemoveFirst(MembersOf(rooms, r), c) \in Seq(C)
  BY <1>1, RemoveFirstRange
<1>4. \A x \in DOMAIN rooms : RemoveFirst(rooms[x], c) \in Seq(C)
  BY RemoveFirstRange DEF RoomMap
<1>5. RoomMap(DeleteMember(rooms, c), R, C)
  BY <1>4 DEF RoomMap, DeleteMember
<1> QED BY <1>2, <1>3, <1>5, WithMembersType DEF AddMember, RemoveMember

-----------------------------------------------------------------------------
(* Single membership: a client occurs in a vector of members at most once. *)
AtMostOnce(s, e) == \A j, k \in 1 .. Len(s) : s[j] = e /\ s[k] = e => j = k

(* push_back adds the one client.                                          *)
LEMMA AppendRange ==
  ASSUME NEW S, NEW s \in Seq(S), NEW e \in S
  PROVE  Range(Append(s, e)) = Range(s) \union {e}
<1>1. /\ Append(s, e) \in Seq(S) /\ Len(Append(s, e)) = Len(s) + 1 /\ Len(s) \in Nat
      /\ \A j \in 1 .. Len(s) : Append(s, e)[j] = s[j]
      /\ Append(s, e)[Len(s) + 1] = e
  BY AppendProperties, LenProperties
<1>2. 1 .. Len(s) + 1 = (1 .. Len(s)) \union {Len(s) + 1}
  BY <1>1
<1>3. /\ Range(s) = {s[j] : j \in 1 .. Len(s)}
      /\ Range(Append(s, e)) = {Append(s, e)[j] : j \in 1 .. Len(s) + 1}
  BY <1>1, RangeEquality
<1> QED BY <1>1, <1>2, <1>3

(* ... and makes nobody a member twice who was not a member before.        *)
LEMMA AppendAtMostOnce ==
  ASSUME NEW S, NEW s \in Seq(S), NEW e \in S, NEW x,
         AtMostOnce(s, x), x = e => x \notin Range(s)
  PROVE  AtMostOnce(Append(s, e), x)
<1>1. /\ Append(s, e) \in Seq(S) /\ Len(Append(s, e)) = Len(s) + 1 /\ Len(s) \in Nat
      /\ \A j \in 1 .. Len(s) : Append(s, e)[j] = s[j]
      /\ Append(s, e)[Len(s) + 1] = e
  BY AppendProperties, LenProperties
<1>2. Range(s) = {s[j] : j \in 1 .. Len(s)}
  BY RangeEquality
<1> QED BY <1>1, <1>2 DEF AtMostOnce

(* Erasing an entry makes nobody a member twice.                           *)
LEMMA RemoveFirstAtMostOnce ==
  ASSUME NEW S, NEW s \in Seq(S), NEW e, NEW x, AtMostOnce(s, x)
  PROVE  AtMostOnce(RemoveFirst(s, e), x)
<1>1. CASE RemoveFirst(s, e) = s
  BY <1>1
<1>2. ASSUME NEW k \in 1 .. Len(s), RemoveFirst(s, e) = RemoveAt(s, k)
      PROVE  AtMostOnce(RemoveFirst(s, e), x)
  <2>1. /\ Len(RemoveAt(s, k)) = Len(s) - 1 /\ Len(s) \in Nat
        /\ \A j \in 1 .. Len(s) - 1 :
             RemoveAt(s, k)[j] = IF j < k THEN s[j] ELSE s[j + 1]
    BY RemoveAtProperties, LenProperties
  <2> QED BY <1>2, <2>1 DEF AtMostOnce
<1> QED BY <1>1, <1>2, RemoveFirstCases

(* Who occurs at most once is counted at most once.                        *)
LEMMA OccurrencesAtMostOne ==
  ASSUME NEW R, NEW C, NEW rooms, RoomMap(rooms, R, C), NEW r \in DOMAIN rooms, NEW c,
         AtMostOnce(rooms[r], c)
  PROVE  ~ (Occurrences(rooms, r, c) > 1)
<1> DEFINE I == {k \in DOMAIN rooms[r] : rooms[r][k] = c}
<1>1. Occurrences(rooms, r, c) = Cardinality(I)
  BY DEF Occurrences, MembersOf
<1>2. DOMAIN rooms[r] = 1 .. Len(rooms[r])
  BY LenProperties DEF RoomMap
<1>3. CASE I = {}
  BY <1>1, <1>3, FS_EmptySet
<1>4. ASSUME NEW k \in I PROVE I = {k}
  BY <1>2 DEF AtMostOnce
<1>5. CASE I # {}
  <2>1. \E k : I = {k}
    BY <1>4, <1>5
  <2> HIDE DEF I
  <2>2. Cardinality(I) = 1
    BY <2>1, FS_Singleton
  <2> QED BY <1>1, <2>2
<1> QED BY <1>3, <1>5
=============================================================================
