----------------------------- MODULE WireProofs -----------------------------
(***************************************************************************)
(* Lemmas and theorems about the bytes of the messages: what the recursive *)
(* functions of Wire compute, that a SendBuffer holds what is written to   *)
(* it, and that readMessage gives back what writeMessage was given.        *)
(***************************************************************************)
EXTENDS Wire, TLAPS, SequenceTheorems, FiniteSetTheorems, WellFoundedInduction

(* Induction, said of a set.                                               *)
LEMMA SetInduction ==
  ASSUME NEW I, I \subseteq Nat, 0 \in I, \A n \in I : n + 1 \in I
  PROVE  I = Nat
<1> DEFINE R == StrictSubsetOrdering(Nat)
           T == {1 .. k : k \in Nat \ I}
<1>1. SUFFICES ASSUME Nat \ I # {} PROVE FALSE
  OBVIOUS
<1>2. T \subseteq FiniteSubsetsOf(Nat) /\ T # {}
  <2>1. ASSUME NEW k \in Nat PROVE 1 .. k \in FiniteSubsetsOf(Nat)
    <3>1. k \in Int /\ 1 .. k \subseteq Nat
      OBVIOUS
    <3> QED BY <3>1, FS_Interval DEF FiniteSubsetsOf
  <2> QED BY <1>1, <2>1
<1>3. PICK t \in T : \A s \in T : << s, t >> \notin R
  <2>1. IsWellFoundedOn(R, FiniteSubsetsOf(Nat))
    BY FS_StrictSubsetOrderingWellFounded
  <2> HIDE DEF R, T
  <2> QED BY <1>2, <2>1, WFMin
<1>4. PICK x \in Nat \ I : t = 1 .. x
  OBVIOUS
<1>5. x - 1 \in Nat /\ x - 1 \notin I
  <2>1. x - 1 \in Nat
    BY <1>4
  <2>2. x - 1 \in I => x \in I
    <3>1. x = (x - 1) + 1
      BY <1>4
    <3> QED BY <3>1
  <2> QED BY <1>4, <2>1, <2>2
<1>6. << 1 .. x - 1, 1 .. x >> \notin R
  BY <1>3, <1>4, <1>5
<1>7. x \in 1 .. x /\ x \notin 1 .. x - 1 /\ 1 .. x - 1 \subseteq 1 .. x
  BY <1>4, <1>5
<1> QED BY <1>6, <1>7 DEF StrictSubsetOrdering

(* A function on the first naturals is a sequence.                         *)
LEMMA FunctionIsSeq ==
  ASSUME NEW S, NEW n \in Nat, NEW f \in [1 .. n -> S]
  PROVE  f \in Seq(S) /\ Len(f) = n
<1>1. f = [i \in 1 .. n |-> f[i]]
  OBVIOUS
<1>2. \A i \in 1 .. n : f[i] \in S
  OBVIOUS
<1>3. [i \in 1 .. n |-> f[i]] \in Seq(S) /\ Len([i \in 1 .. n |-> f[i]]) = n
  BY <1>2
<1> QED BY <1>1, <1>3

(* The sizes are numbers.                                                  *)
LEMMA Sizes ==
  ByteBase \in Nat /\ 2 <= ByteBase /\ IntSize \in Nat /\ 1 <= IntSize
    /\ SendSize \in Nat /\ 1 <= SendSize
<1>1. ByteBase \in Nat \ {0, 1} /\ IntSize \in Nat \ {0} /\ SendSize \in Nat \ {0}
  BY WireAssumption
<1> QED BY <1>1

(* A function on the naturals given by its first value and by a step.      *)
Recurs(f, first, step) == f[0] = first /\ \A n \in Nat : f[n + 1] = step[n][f[n]]

LEMMA Recursion ==
  ASSUME NEW D, NEW first \in D, NEW step \in [Nat -> [D -> D]]
  PROVE  \E f \in [Nat -> D] : Recurs(f, first, step)
<1> DEFINE Fits(g, n) == g[0] = first /\ \A k \in 0 .. n - 1 : g[k + 1] = step[k][g[k]]
           Parts(n) == {g \in [0 .. n -> D] : Fits(g, n)}
           I == {n \in Nat : Parts(n) # {}}
<1>1. I = Nat
  <2>1. 0 \in I
    <3> DEFINE g == [k \in 0 .. 0 |-> first]
    <3>1. g \in Parts(0)
      OBVIOUS
    <3> QED BY <3>1
  <2>2. ASSUME NEW n \in I PROVE n + 1 \in I
    <3>1. PICK g \in [0 .. n -> D] : Fits(g, n)
      BY <2>2
    <3> DEFINE h == [k \in 0 .. n + 1 |-> IF k <= n THEN g[k] ELSE step[n][g[n]]]
    <3>2. n \in Nat
      OBVIOUS
    <3>3. h \in [0 .. n + 1 -> D]
      <4>1. g[n] \in D /\ step[n][g[n]] \in D
        BY <3>1, <3>2
      <4> QED BY <3>1, <3>2, <4>1
    <3>4. Fits(h, n + 1)
      <4>1. h[0] = first
        BY <3>1, <3>2
      <4>2. ASSUME NEW k \in 0 .. (n + 1) - 1 PROVE h[k + 1] = step[k][h[k]]
        <5>1. h[k] = g[k]
          BY <3>2
        <5>2. CASE k < n
          <6>1. k \in 0 .. n - 1 /\ h[k + 1] = g[k + 1]
            BY <3>2, <5>2
          <6> QED BY <3>1, <5>1, <6>1
        <5>3. CASE k = n
          <6>1. h[k + 1] = step[n][g[n]]
            BY <3>2, <5>3
          <6> QED BY <5>1, <5>3, <6>1
        <5> QED BY <3>2, <5>2, <5>3
      <4> QED BY <4>1, <4>2
    <3> HIDE DEF h
    <3>5. n + 1 \in Nat /\ h \in Parts(n + 1)
      BY <3>2, <3>3, <3>4
    <3> QED BY <3>5
  <2> HIDE DEF I
  <2>3. I \subseteq Nat
    BY DEF I
  <2> QED BY <2>1, <2>2, <2>3, SetInduction
<1>2. ASSUME NEW n \in Nat, NEW m \in Nat, n <= m, NEW g \in Parts(n), NEW h \in Parts(m)
      PROVE  \A k \in 0 .. n : g[k] = h[k]
  <2> DEFINE J == {k \in Nat : k <= n => g[k] = h[k]}
  <2>1. 0 \in J
    OBVIOUS
  <2>2. ASSUME NEW k \in J PROVE k + 1 \in J
    <3>1. SUFFICES ASSUME k + 1 <= n PROVE g[k + 1] = h[k + 1]
      OBVIOUS
    <3>2. g[k] = h[k] /\ k \in 0 .. n - 1 /\ k \in 0 .. m - 1
      BY <1>2, <2>2, <3>1
    <3> QED BY <3>2
  <2> HIDE DEF J
  <2>3. J \subseteq Nat
    BY DEF J
  <2>4. J = Nat
    BY <2>1, <2>2, <2>3, SetInduction
  <2>5. \A k \in Nat : k \in J
    BY <2>4
  <2> QED BY <2>5 DEF J
<1> DEFINE part(n) == CHOOSE g : g \in Parts(n)
           f == [n \in Nat |-> part(n)[n]]
<1>3. ASSUME NEW n \in Nat PROVE part(n) \in Parts(n)
  BY <1>1
<1>4. f \in [Nat -> D]
  <2>1. ASSUME NEW n \in Nat PROVE part(n)[n] \in D
    <3>1. part(n) \in [0 .. n -> D]
      BY <1>3
    <3> HIDE DEF part
    <3> QED BY <3>1
  <2> QED BY <2>1
<1>5. f[0] = first
  <2>1. part(0)[0] = first
    BY <1>3
  <2> QED BY <2>1
<1>6. ASSUME NEW n \in Nat PROVE f[n + 1] = step[n][f[n]]
  <2>1. part(n + 1) \in Parts(n + 1) /\ part(n) \in Parts(n) /\ n + 1 \in Nat
    <3>1. n + 1 \in Nat
      OBVIOUS
    <3> HIDE DEF part, Parts
    <3> QED BY <3>1, <1>3
  <2>2. part(n)[n] = part(n + 1)[n]
    <3> HIDE DEF part, Parts
    <3> QED BY <1>2, <2>1
  <2>3. part(n + 1)[n + 1] = step[n][part(n + 1)[n]]
    <3>1. n \in 0 .. (n + 1) - 1
      OBVIOUS
    <3>2. Fits(part(n + 1), n + 1)
      BY <2>1
    <3> HIDE DEF part
    <3> QED BY <3>1, <3>2
  <2> HIDE DEF part
  <2> QED BY <2>1, <2>2, <2>3
<1> HIDE DEF f
<1>7. Recurs(f, first, step)
  BY <1>5, <1>6 DEF Recurs
<1> QED BY <1>4, <1>7

-----------------------------------------------------------------------------
(* What each recursive function of Wire and of the library computes.       *)

LEMMA WordsPower ==
  \E p \in [Nat -> Nat] :
    /\ p[0] = 1 /\ \A k \in Nat : p[k + 1] = ByteBase * p[k]
    /\ Words = p[IntSize]
<1> DEFINE step == [k \in Nat |-> [x \in Nat |-> ByteBase * x]]
           Body(P) == [k \in 0 .. IntSize |-> IF k = 0 THEN 1 ELSE ByteBase * P[k - 1]]
           Power == CHOOSE P : P = Body(P)
<1>1. PICK p \in [Nat -> Nat] : Recurs(p, 1, step)
  <2>1. step \in [Nat -> [Nat -> Nat]] /\ 1 \in Nat
    BY Sizes
  <2> HIDE DEF step
  <2> QED BY <2>1, Recursion
<1>2. p[0] = 1 /\ \A k \in Nat : p[k + 1] = ByteBase * p[k]
  BY <1>1 DEF Recurs
<1>3. \E P : P = Body(P)
  <2> DEFINE q == [k \in 0 .. IntSize |-> p[k]]
  <2>1. ASSUME NEW k \in 0 .. IntSize
        PROVE  q[k] = IF k = 0 THEN 1 ELSE ByteBase * q[k - 1]
    <3>1. CASE k = 0
      BY <1>2, <3>1
    <3>2. CASE k # 0
      <4>1. k - 1 \in Nat /\ k - 1 \in 0 .. IntSize /\ (k - 1) + 1 = k
        BY <3>2, Sizes
      <4>2. p[k] = ByteBase * p[k - 1]
        BY <1>2, <4>1
      <4> QED BY <3>2, <4>1, <4>2
    <3> QED BY <3>1, <3>2
  <2>2. q = Body(q)
    BY <2>1
  <2> HIDE DEF q
  <2> QED BY <2>2
<1>4. Power = Body(Power)
  BY <1>3
<1>5. Words = Power[IntSize]
  BY DEF Words
<1> HIDE DEF Power
<1> DEFINE I == {k \in Nat : k <= IntSize => Power[k] = p[k]}
<1>6. Power[0] = 1 /\ \A k \in 1 .. IntSize : Power[k] = ByteBase * Power[k - 1]
  <2>1. \A k \in 0 .. IntSize : Power[k] = IF k = 0 THEN 1 ELSE ByteBase * Power[k - 1]
    BY <1>4
  <2> QED BY <2>1, Sizes
<1>7. 0 \in I
  BY <1>2, <1>6
<1>8. ASSUME NEW k \in I PROVE k + 1 \in I
  <2>1. SUFFICES ASSUME k + 1 <= IntSize PROVE Power[k + 1] = p[k + 1]
    OBVIOUS
  <2>2. k + 1 \in 1 .. IntSize /\ (k + 1) - 1 = k /\ Power[k] = p[k]
    BY <1>8, <2>1, Sizes
  <2> QED BY <1>2, <1>6, <2>2
<1>9. IntSize \in I
  <2> HIDE DEF I
  <2>1. I \subseteq Nat
    BY DEF I
  <2>2. I = Nat
    BY <1>7, <1>8, <2>1, SetInduction
  <2> QED BY <2>2, Sizes
<1> QED BY <1>2, <1>5, <1>9, Sizes

(* The bytes of an int: each is what is left of it, shifted, modulo the    *)
(* base.                                                                   *)
LEMMA IntBytesShifted ==
  ASSUME NEW n \in Nat
  PROVE  \E f \in [Nat -> Nat] :
           /\ f[0] = n /\ \A k \in Nat : f[k + 1] = f[k] \div ByteBase
           /\ IntBytes(n) = [k \in 1 .. IntSize |-> f[k - 1] % ByteBase]
<1> DEFINE step == [k \in Nat |-> [x \in Nat |-> x \div ByteBase]]
           Body(P) == [k \in 1 .. IntSize |-> IF k = 1 THEN n ELSE P[k - 1] \div ByteBase]
           Shifted == CHOOSE P : P = Body(P)
<1>1. PICK f \in [Nat -> Nat] : Recurs(f, n, step)
  <2>1. step \in [Nat -> [Nat -> Nat]]
    BY Sizes
  <2> HIDE DEF step
  <2> QED BY <2>1, Recursion
<1>2. f[0] = n /\ \A k \in Nat : f[k + 1] = f[k] \div ByteBase
  BY <1>1 DEF Recurs
<1>3. \E P : P = Body(P)
  <2> DEFINE q == [k \in 1 .. IntSize |-> f[k - 1]]
  <2>1. ASSUME NEW k \in 1 .. IntSize
        PROVE  q[k] = IF k = 1 THEN n ELSE q[k - 1] \div ByteBase
    <3>1. CASE k = 1
      BY <1>2, <3>1
    <3>2. CASE k # 1
      <4>1. k - 2 \in Nat /\ k - 1 \in 1 .. IntSize /\ (k - 2) + 1 = k - 1 /\ (k - 1) - 1 = k - 2
        BY <3>2, Sizes
      <4>2. f[k - 1] = f[k - 2] \div ByteBase
        BY <1>2, <4>1
      <4>3. q[k] = f[k - 1] /\ q[k - 1] = f[k - 2]
        BY <4>1
      <4> HIDE DEF q
      <4> QED BY <3>2, <4>2, <4>3
    <3> QED BY <3>1, <3>2
  <2>2. q = Body(q)
    BY <2>1
  <2> HIDE DEF q
  <2> QED BY <2>2
<1>4. Shifted = Body(Shifted)
  BY <1>3
<1>5. IntBytes(n) = [k \in 1 .. IntSize |-> Shifted[k] % ByteBase]
  BY DEF IntBytes
<1> HIDE DEF Shifted
<1>6. \A k \in 1 .. IntSize : Shifted[k] = IF k = 1 THEN n ELSE Shifted[k - 1] \div ByteBase
  BY <1>4
<1> DEFINE I == {k \in Nat : k < IntSize => Shifted[k + 1] = f[k]}
<1>7. 0 \in I
  BY <1>2, <1>6, Sizes
<1>8. ASSUME NEW k \in I PROVE k + 1 \in I
  <2>1. SUFFICES ASSUME k + 1 < IntSize PROVE Shifted[(k + 1) + 1] = f[k + 1]
    OBVIOUS
  <2>2. (k + 1) + 1 \in 1 .. IntSize /\ ((k + 1) + 1) - 1 = k + 1 /\ (k + 1) + 1 # 1 /\ k \in Nat
    BY <2>1, Sizes
  <2>3. Shifted[k + 1] = f[k]
    BY <1>8, <2>1, Sizes
  <2>4. Shifted[(k + 1) + 1] = Shifted[k + 1] \div ByteBase
    BY <1>6, <2>2
  <2> QED BY <1>2, <2>2, <2>3, <2>4
<1>9. I = Nat
  <2> HIDE DEF I
  <2>1. I \subseteq Nat
    BY DEF I
  <2> QED BY <1>7, <1>8, <2>1, SetInduction
<1>10. ASSUME NEW k \in 1 .. IntSize PROVE Shifted[k] = f[k - 1]
  <2>1. k - 1 \in Nat /\ k - 1 < IntSize /\ (k - 1) + 1 = k
    BY Sizes
  <2>2. k - 1 \in I
    BY <1>9, <2>1
  <2> QED BY <2>1, <2>2
<1>11. IntBytes(n) = [k \in 1 .. IntSize |-> f[k - 1] % ByteBase]
  BY <1>5, <1>10
<1> QED BY <1>2, <1>11

(* An int read from bytes, the highest byte first.                         *)
LEMMA IntOfFolded ==
  ASSUME NEW bs \in Seq(Int), Len(bs) = IntSize
  PROVE  \E f \in [Nat -> Int] :
           /\ f[0] = 0
           /\ \A k \in 0 .. IntSize - 1 : f[k + 1] = bs[IntSize - k] + ByteBase * f[k]
           /\ IntOf(bs) = f[IntSize]
<1> DEFINE Byte(k) == IF k < IntSize THEN bs[IntSize - k] ELSE 0
           step == [k \in Nat |-> [x \in Int |-> Byte(k) + ByteBase * x]]
           Body(P) == [k \in 1 .. IntSize + 1 |-> IF k > IntSize THEN 0 ELSE bs[k] + ByteBase * P[k + 1]]
           From == CHOOSE P : P = Body(P)
<1>1. ASSUME NEW k \in Nat PROVE Byte(k) \in Int
  <2>1. k < IntSize => IntSize - k \in 1 .. Len(bs)
    BY Sizes
  <2> QED BY <2>1, ElementOfSeq
<1>2. PICK f \in [Nat -> Int] : Recurs(f, 0, step)
  <2>1. \A k \in Nat, x \in Int : Byte(k) + ByteBase * x \in Int
    <3> HIDE DEF Byte
    <3> QED BY <1>1, Sizes
  <2>2. step \in [Nat -> [Int -> Int]] /\ 0 \in Int
    <3> HIDE DEF Byte
    <3> QED BY <2>1
  <2> HIDE DEF step
  <2> QED BY <2>2, Recursion
<1>3. f[0] = 0 /\ \A k \in 0 .. IntSize - 1 : f[k + 1] = bs[IntSize - k] + ByteBase * f[k]
  <2>1. \A k \in Nat : f[k + 1] = Byte(k) + ByteBase * f[k]
    <3> HIDE DEF Byte
    <3> QED BY <1>2 DEF Recurs
  <2>2. f[0] = 0
    BY <1>2 DEF Recurs
  <2>3. ASSUME NEW k \in 0 .. IntSize - 1 PROVE Byte(k) = bs[IntSize - k] /\ k \in Nat
    BY Sizes
  <2> HIDE DEF Byte
  <2> QED BY <2>1, <2>2, <2>3
<1>4. \E P : P = Body(P)
  <2> DEFINE q == [k \in 1 .. IntSize + 1 |-> f[(IntSize + 1) - k]]
  <2>1. ASSUME NEW k \in 1 .. IntSize + 1
        PROVE  q[k] = IF k > IntSize THEN 0 ELSE bs[k] + ByteBase * q[k + 1]
    <3>1. CASE k > IntSize
      <4>1. (IntSize + 1) - k = 0
        BY <3>1, Sizes
      <4> QED BY <1>3, <3>1, <4>1
    <3>2. CASE ~ (k > IntSize)
      <4>1. /\ k + 1 \in 1 .. IntSize + 1 /\ IntSize - k \in 0 .. IntSize - 1
            /\ (IntSize + 1) - (k + 1) = IntSize - k /\ (IntSize - k) + 1 = (IntSize + 1) - k
            /\ IntSize - (IntSize - k) = k
        BY <3>2, Sizes
      <4>2. f[(IntSize + 1) - k] = bs[k] + ByteBase * f[IntSize - k]
        BY <1>3, <4>1
      <4>3. q[k] = f[(IntSize + 1) - k] /\ q[k + 1] = f[IntSize - k]
        BY <4>1
      <4> HIDE DEF q
      <4> QED BY <3>2, <4>2, <4>3
    <3> QED BY <3>1, <3>2
  <2>2. q = Body(q)
    <3> HIDE DEF From
    <3> QED BY <2>1
  <2> HIDE DEF q
  <2> QED BY <2>2
<1>5. From = Body(From)
  BY <1>4
<1>6. IntOf(bs) = From[1]
  BY DEF IntOf
<1> HIDE DEF From
<1>7. /\ From[IntSize + 1] = 0
      /\ \A k \in 1 .. IntSize : From[k] = bs[k] + ByteBase * From[k + 1]
  <2>1. \A k \in 1 .. IntSize + 1 : From[k] = IF k > IntSize THEN 0 ELSE bs[k] + ByteBase * From[k + 1]
    BY <1>5
  <2> QED BY <2>1, Sizes
<1> DEFINE I == {k \in Nat : k <= IntSize => From[(IntSize + 1) - k] = f[k]}
<1>8. 0 \in I
  <2>1. (IntSize + 1) - 0 = IntSize + 1
    BY Sizes
  <2> QED BY <1>3, <1>7, <2>1
<1>9. ASSUME NEW k \in I PROVE k + 1 \in I
  <2>1. SUFFICES ASSUME k + 1 <= IntSize PROVE From[(IntSize + 1) - (k + 1)] = f[k + 1]
    OBVIOUS
  <2>2. /\ IntSize - k \in 1 .. IntSize /\ (IntSize + 1) - (k + 1) = IntSize - k
        /\ (IntSize - k) + 1 = (IntSize + 1) - k /\ k \in 0 .. IntSize - 1
    BY <2>1, Sizes
  <2>3. From[(IntSize + 1) - k] = f[k]
    BY <1>9, <2>1, Sizes
  <2>4. From[IntSize - k] = bs[IntSize - k] + ByteBase * From[(IntSize + 1) - k]
    BY <1>7, <2>2
  <2> QED BY <1>3, <2>2, <2>3, <2>4
<1>10. IntSize \in I
  <2> HIDE DEF I
  <2>1. I \subseteq Nat
    BY DEF I
  <2>2. I = Nat
    BY <1>8, <1>9, <2>1, SetInduction
  <2> QED BY <2>2, Sizes
<1>11. From[1] = f[IntSize]
  <2>1. (IntSize + 1) - IntSize = 1
    BY Sizes
  <2> QED BY <1>10, <2>1, Sizes
<1> QED BY <1>3, <1>6, <1>11

-----------------------------------------------------------------------------
(* Ints.                                                                   *)

LEMMA DivBelow ==
  ASSUME NEW b \in Nat, 1 <= b, NEW a \in Nat, NEW p \in Nat, a < b * p
  PROVE  a \div b < p
OBVIOUS

LEMMA DivMod ==
  ASSUME NEW b \in Nat, 1 <= b, NEW a \in Nat
  PROVE  (a % b) + b * (a \div b) = a /\ a % b \in 0 .. b - 1 /\ a \div b \in Nat
OBVIOUS

LEMMA TimesMonotone ==
  ASSUME NEW b \in Nat, NEW a \in Nat, NEW c \in Nat, a <= c
  PROVE  b * a \in Nat /\ b * a <= b * c
OBVIOUS

LEMMA TimesNat ==
  ASSUME NEW b \in Nat, NEW a \in Nat
  PROVE  b * a \in Nat
OBVIOUS

LEMMA PlusNat ==
  ASSUME NEW a \in Nat, NEW c \in Nat
  PROVE  a + c \in Nat /\ \A p \in Nat : p <= c => p <= a + c
OBVIOUS

LEMMA IntBytesType ==
  ASSUME NEW n \in Nat
  PROVE  /\ IntBytes(n) \in Seq(Nat) /\ Len(IntBytes(n)) = IntSize
         /\ \A k \in 1 .. IntSize : IntBytes(n)[k] < ByteBase
<1>1. PICK f \in [Nat -> Nat] : IntBytes(n) = [k \in 1 .. IntSize |-> f[k - 1] % ByteBase]
  BY IntBytesShifted
<1>2. ASSUME NEW k \in 1 .. IntSize PROVE f[k - 1] % ByteBase \in 0 .. ByteBase - 1
  <2>1. f[k - 1] \in Nat
    <3>1. k - 1 \in Nat
      BY Sizes
    <3> QED BY <3>1
  <2>2. ByteBase \in Nat /\ 1 <= ByteBase
    BY Sizes
  <2> QED BY <2>1, <2>2, DivMod
<1> DEFINE bs == [k \in 1 .. IntSize |-> f[k - 1] % ByteBase]
<1>3. \A k \in 1 .. IntSize : bs[k] \in 0 .. ByteBase - 1
  BY <1>2
<1>4. bs \in [1 .. IntSize -> Nat]
  <2>1. \A k \in 1 .. IntSize : f[k - 1] % ByteBase \in Nat
    BY <1>2, Sizes
  <2> QED BY <2>1
<1> HIDE DEF bs
<1>5. bs \in Seq(Nat) /\ Len(bs) = IntSize
  BY <1>4, Sizes, FunctionIsSeq
<1>6. IntBytes(n) = bs
  BY <1>1 DEF bs
<1> QED BY <1>3, <1>5, <1>6, Sizes

(* What is read from the bytes of a number is the number.                  *)
LEMMA IntIsReadBack ==
  ASSUME NEW n \in Nat, n < Words
  PROVE  IntOf(IntBytes(n)) = n
<1>1. PICK p \in [Nat -> Nat] :
        p[0] = 1 /\ (\A k \in Nat : p[k + 1] = ByteBase * p[k]) /\ Words = p[IntSize]
  BY WordsPower
<1>2. PICK f \in [Nat -> Nat] :
        /\ f[0] = n /\ \A k \in Nat : f[k + 1] = f[k] \div ByteBase
        /\ IntBytes(n) = [k \in 1 .. IntSize |-> f[k - 1] % ByteBase]
  BY IntBytesShifted
<1> DEFINE bs == IntBytes(n)
<1>3. bs \in Seq(Int) /\ Len(bs) = IntSize
  <2>1. bs \in Seq(Nat) /\ Len(bs) = IntSize
    BY IntBytesType
  <2> QED BY <2>1, SeqMonotonic
<1>4. PICK g \in [Nat -> Int] :
        /\ g[0] = 0 /\ \A k \in 0 .. IntSize - 1 : g[k + 1] = bs[IntSize - k] + ByteBase * g[k]
        /\ IntOf(bs) = g[IntSize]
  BY <1>3, IntOfFolded
<1> DEFINE I == {k \in Nat : k <= IntSize => f[k] < p[IntSize - k]}
           J == {k \in Nat : k <= IntSize => g[k] = f[IntSize - k]}
<1>5. I = Nat
  <2>1. 0 \in I
    <3>1. IntSize - 0 = IntSize
      BY Sizes
    <3> QED BY <1>1, <1>2, <3>1
  <2>2. ASSUME NEW k \in I PROVE k + 1 \in I
    <3>1. SUFFICES ASSUME k + 1 <= IntSize PROVE f[k + 1] < p[IntSize - (k + 1)]
      OBVIOUS
    <3>2. /\ k \in Nat /\ IntSize - (k + 1) \in Nat
          /\ (IntSize - (k + 1)) + 1 = IntSize - k /\ k <= IntSize
      BY <3>1, Sizes
    <3>3. f[k] < ByteBase * p[IntSize - (k + 1)]
      BY <1>1, <2>2, <3>2
    <3>4. f[k] \in Nat /\ p[IntSize - (k + 1)] \in Nat
      BY <3>2
    <3>5. f[k] \div ByteBase < p[IntSize - (k + 1)]
      <4>1. ByteBase \in Nat /\ 1 <= ByteBase
        BY Sizes
      <4> QED BY <3>3, <3>4, <4>1, DivBelow
    <3> QED BY <1>2, <3>2, <3>5
  <2> HIDE DEF I
  <2>3. I \subseteq Nat
    BY DEF I
  <2> QED BY <2>1, <2>2, <2>3, SetInduction
<1>6. f[IntSize] = 0
  <2>1. IntSize \in I /\ IntSize - IntSize = 0
    BY <1>5, Sizes
  <2>2. f[IntSize] < 1
    BY <1>1, <2>1, Sizes
  <2>3. f[IntSize] \in Nat
    BY Sizes
  <2> QED BY <2>2, <2>3
<1>7. J = Nat
  <2>1. 0 \in J
    <3>1. IntSize - 0 = IntSize
      BY Sizes
    <3> QED BY <1>4, <1>6, <3>1
  <2>2. ASSUME NEW k \in J PROVE k + 1 \in J
    <3>1. SUFFICES ASSUME k + 1 <= IntSize PROVE g[k + 1] = f[IntSize - (k + 1)]
      OBVIOUS
    <3>2. /\ k \in 0 .. IntSize - 1 /\ IntSize - (k + 1) \in Nat /\ k <= IntSize
          /\ (IntSize - (k + 1)) + 1 = IntSize - k /\ IntSize - k \in 1 .. IntSize
          /\ (IntSize - k) - 1 = IntSize - (k + 1)
      BY <3>1, Sizes
    <3>3. bs[IntSize - k] = f[IntSize - (k + 1)] % ByteBase
      BY <1>2, <3>2
    <3>4. f[IntSize - k] = f[IntSize - (k + 1)] \div ByteBase
      BY <1>2, <3>2
    <3>5. g[k] = f[IntSize - k]
      BY <2>2, <3>2
    <3>6. g[k + 1] = (f[IntSize - (k + 1)] % ByteBase) + ByteBase * (f[IntSize - (k + 1)] \div ByteBase)
      <4> HIDE DEF bs
      <4> QED BY <1>4, <3>2, <3>3, <3>4, <3>5
    <3>7. f[IntSize - (k + 1)] \in Nat
      BY <3>2
    <3>8. ByteBase \in Nat /\ 1 <= ByteBase
      BY Sizes
    <3> QED BY <3>6, <3>7, <3>8, DivMod
  <2> HIDE DEF J
  <2>3. J \subseteq Nat
    BY DEF J
  <2> QED BY <2>1, <2>2, <2>3, SetInduction
<1>8. g[IntSize] = f[0]
  <2>1. IntSize \in J /\ IntSize - IntSize = 0
    BY <1>7, Sizes
  <2> QED BY <2>1, Sizes
<1> QED BY <1>2, <1>4, <1>8

(* A number is its lowest byte and a multiple of the base, and it is large *)
(* when its highest byte is not 0.                                         *)
LEMMA IntOfBytes ==
  ASSUME NEW bs \in Seq(Nat), Len(bs) = IntSize
  PROVE  /\ IntOf(bs) \in Nat
         /\ \E x \in Nat : IntOf(bs) = bs[1] + ByteBase * x
         /\ bs[IntSize] # 0 => Words <= ByteBase * IntOf(bs)
<1>1. bs \in Seq(Int)
  BY SeqMonotonic
<1>2. PICK f \in [Nat -> Int] :
        /\ f[0] = 0 /\ \A k \in 0 .. IntSize - 1 : f[k + 1] = bs[IntSize - k] + ByteBase * f[k]
        /\ IntOf(bs) = f[IntSize]
  BY <1>1, IntOfFolded
<1>3. PICK p \in [Nat -> Nat] :
        p[0] = 1 /\ (\A k \in Nat : p[k + 1] = ByteBase * p[k]) /\ Words = p[IntSize]
  BY WordsPower
<1>4. ASSUME NEW k \in 1 .. IntSize PROVE bs[k] \in Nat
  BY <1>4, ElementOfSeq
<1> DEFINE I == {k \in Nat : k <= IntSize => f[k] \in Nat}
           J == {k \in Nat : k < IntSize => p[k] <= f[k + 1]}
<1>5. I = Nat
  <2>1. 0 \in I
    BY <1>2
  <2>2. ASSUME NEW k \in I PROVE k + 1 \in I
    <3>1. SUFFICES ASSUME k + 1 <= IntSize PROVE f[k + 1] \in Nat
      OBVIOUS
    <3>2. k \in 0 .. IntSize - 1 /\ IntSize - k \in 1 .. IntSize /\ f[k] \in Nat
      BY <2>2, <3>1, Sizes
    <3>3. f[k + 1] = bs[IntSize - k] + ByteBase * f[k] /\ bs[IntSize - k] \in Nat
      BY <1>2, <1>4, <3>2
    <3>4. ByteBase \in Nat /\ f[k] \in Nat
      BY <3>2, Sizes
    <3>5. ByteBase * f[k] \in Nat
      BY <3>4, TimesNat, Zenon
    <3> HIDE DEF I
    <3> QED BY <3>3, <3>5, PlusNat, Zenon
  <2> HIDE DEF I
  <2>3. I \subseteq Nat
    BY DEF I
  <2> QED BY <2>1, <2>2, <2>3, SetInduction
<1>6. ASSUME NEW k \in 0 .. IntSize PROVE f[k] \in Nat
  <2>1. k \in Nat /\ k <= IntSize
    BY Sizes
  <2>2. k \in I
    BY <1>5, <2>1
  <2> QED BY <2>1, <2>2
<1>7. IntOf(bs) = bs[1] + ByteBase * f[IntSize - 1] /\ f[IntSize - 1] \in Nat
  <2>1. IntSize - 1 \in 0 .. IntSize - 1 /\ (IntSize - 1) + 1 = IntSize /\ IntSize - (IntSize - 1) = 1
    BY Sizes
  <2>2. f[IntSize] = bs[1] + ByteBase * f[IntSize - 1]
    BY <1>2, <2>1
  <2>3. IntSize - 1 \in 0 .. IntSize
    BY Sizes
  <2> QED BY <1>2, <1>6, <2>2, <2>3
<1>8. bs[IntSize] # 0 => J = Nat
  <2> SUFFICES ASSUME bs[IntSize] # 0 PROVE J = Nat
    OBVIOUS
  <2>1. 0 \in J
    <3>1. 0 \in 0 .. IntSize - 1 /\ IntSize - 0 = IntSize /\ IntSize \in 1 .. IntSize
      BY Sizes
    <3>2. f[0 + 1] = bs[IntSize] + ByteBase * f[0] /\ f[0] = 0 /\ bs[IntSize] \in Nat
      BY <1>2, <1>4, <3>1
    <3>3. ByteBase * 0 = 0
      BY Sizes
    <3>4. 1 <= f[0 + 1]
      BY <3>2, <3>3, SMTT(30)
    <3> QED BY <1>3, <3>4
  <2>2. ASSUME NEW k \in J PROVE k + 1 \in J
    <3>1. SUFFICES ASSUME k + 1 < IntSize PROVE p[k + 1] <= f[(k + 1) + 1]
      OBVIOUS
    <3>2. k \in Nat /\ k + 1 \in 0 .. IntSize - 1 /\ k + 1 \in 0 .. IntSize /\ IntSize - (k + 1) \in 1 .. IntSize
      BY <3>1, Sizes
    <3>3. p[k] <= f[k + 1] /\ f[k + 1] \in Nat /\ p[k] \in Nat
      BY <1>6, <2>2, <3>1, <3>2, Sizes
    <3>4. f[(k + 1) + 1] = bs[IntSize - (k + 1)] + ByteBase * f[k + 1] /\ bs[IntSize - (k + 1)] \in Nat
      BY <1>2, <1>4, <3>2
    <3>5. p[k + 1] = ByteBase * p[k]
      BY <1>3, <3>2
    <3>6. ByteBase * p[k] <= ByteBase * f[k + 1] /\ ByteBase * f[k + 1] \in Nat /\ ByteBase * p[k] \in Nat
      <4>1. ByteBase \in Nat
        BY Sizes
      <4> QED BY <3>3, <4>1, TimesMonotone, TimesNat, Zenon
    <3> HIDE DEF J
    <3> QED BY <3>4, <3>5, <3>6, PlusNat, Zenon
  <2> HIDE DEF J
  <2>3. J \subseteq Nat
    BY DEF J
  <2> QED BY <2>1, <2>2, <2>3, SetInduction
<1>9. ASSUME bs[IntSize] # 0 PROVE Words <= ByteBase * IntOf(bs)
  <2>1. IntSize - 1 \in Nat /\ IntSize - 1 < IntSize /\ (IntSize - 1) + 1 = IntSize
    BY Sizes
  <2>2. p[IntSize - 1] <= f[IntSize]
    <3>1. IntSize - 1 \in J
      BY <1>8, <1>9, <2>1
    <3> QED BY <2>1, <3>1
  <2>3. Words = ByteBase * p[IntSize - 1] /\ p[IntSize - 1] \in Nat
    BY <1>3, <2>1
  <2>4. f[IntSize] \in Nat
    BY <1>6, Sizes
  <2>5. ByteBase * p[IntSize - 1] <= ByteBase * f[IntSize]
    BY <2>2, <2>3, <2>4, Sizes, TimesMonotone
  <2> QED BY <1>2, <2>3, <2>5
<1>10. IntOf(bs) \in Nat
  BY <1>2, <1>6, Sizes
<1> QED BY <1>7, <1>9, <1>10

-----------------------------------------------------------------------------
(* Concatenations of any number of sequences.                              *)

LEMMA NextIndices ==
  ASSUME NEW n \in Nat, NEW k \in Nat, k + 1 < n
  PROVE  /\ (k + 1) + 1 \in 1 .. n /\ ((k + 1) + 1) - 1 = k + 1 /\ (k + 1) + 1 # 1
         /\ k + 1 \in 0 .. n - 1 /\ k < n
OBVIOUS

LEMMA SumIndices ==
  ASSUME NEW a \in Nat, NEW b \in Nat, NEW k \in Nat, k < b
  PROVE  /\ a + k \in 0 .. (a + b) - 1 /\ (a + k) + 1 = a + (k + 1)
         /\ a + (k + 1) \in 1 .. a + b /\ ~ (a + (k + 1) <= a)
         /\ (a + (k + 1)) - a = k + 1 /\ k \in Nat /\ k + 1 \in Nat /\ k + 1 \in 1 .. b
OBVIOUS

Associates(x, y, z) == (x \o y) \o z = x \o (y \o z)
LEMMA Associative ==
  ASSUME NEW S, NEW x \in Seq(S), NEW y \in Seq(S), NEW z \in Seq(S)
  PROVE  Associates(x, y, z)
BY ConcatAssociative DEF Associates

LEMMA FlattenFolded ==
  ASSUME NEW S, NEW seqs \in Seq(Seq(S))
  PROVE  \E f \in [Nat -> Seq(S)] :
           /\ f[0] = << >> /\ \A k \in 0 .. Len(seqs) - 1 : f[k + 1] = f[k] \o seqs[k + 1]
           /\ FlattenSeq(seqs) = f[Len(seqs)]
<1> DEFINE N == Len(seqs)
           Piece(k) == IF k < N THEN seqs[k + 1] ELSE << >>
           step == [k \in Nat |-> [x \in Seq(S) |-> x \o Piece(k)]]
           Body(P) == [i \in 1 .. Len(seqs) |-> IF i = 1 THEN seqs[i] ELSE P[i - 1] \o seqs[i]]
           flatten == CHOOSE P : P = Body(P)
<1>1. N \in Nat /\ \A k \in 1 .. N : seqs[k] \in Seq(S)
  BY LenProperties, ElementOfSeq
<1>2. ASSUME NEW k \in Nat PROVE Piece(k) \in Seq(S)
  <2>1. << >> \in Seq(S)
    BY EmptySeq
  <2>2. k < N => k + 1 \in 1 .. N
    BY <1>1
  <2> QED BY <1>1, <2>1, <2>2
<1>3. PICK f \in [Nat -> Seq(S)] : Recurs(f, << >>, step)
  <2>1. << >> \in Seq(S)
    BY EmptySeq
  <2>2. \A k \in Nat, x \in Seq(S) : x \o Piece(k) \in Seq(S)
    <3> HIDE DEF Piece
    <3> QED BY <1>2, ConcatProperties
  <2>3. step \in [Nat -> [Seq(S) -> Seq(S)]]
    <3> HIDE DEF Piece
    <3> QED BY <2>2
  <2> HIDE DEF step
  <2> QED BY <2>1, <2>3, Recursion
<1>4. f[0] = << >> /\ \A k \in 0 .. N - 1 : f[k + 1] = f[k] \o seqs[k + 1]
  <2>1. f[0] = << >> /\ \A k \in Nat : f[k + 1] = f[k] \o Piece(k)
    <3> HIDE DEF Piece
    <3> QED BY <1>3 DEF Recurs
  <2>2. ASSUME NEW k \in 0 .. N - 1 PROVE Piece(k) = seqs[k + 1] /\ k \in Nat
    BY <1>1
  <2> HIDE DEF Piece, N
  <2> QED BY <2>1, <2>2
<1>5. CASE N = 0
  <2>1. FlattenSeq(seqs) = seqs
    BY <1>5 DEF FlattenSeq
  <2>2. seqs = << >>
    BY <1>5, EmptySeq
  <2> QED BY <1>4, <1>5, <2>1, <2>2
<1>6. CASE N # 0
  <2>1. \E P : P = Body(P)
    <3> DEFINE q == [i \in 1 .. Len(seqs) |-> f[i]]
    <3>1. ASSUME NEW i \in 1 .. Len(seqs)
          PROVE  q[i] = IF i = 1 THEN seqs[i] ELSE q[i - 1] \o seqs[i]
      <4>1. i - 1 \in 0 .. N - 1 /\ (i - 1) + 1 = i
        BY <1>1
      <4>2. f[i] = f[i - 1] \o seqs[i]
        BY <1>4, <4>1
      <4>3. CASE i = 1
        <5>1. i - 1 = 0
          BY <4>3
        <5>2. f[i] = << >> \o seqs[i] /\ seqs[i] \in Seq(S)
          BY <1>1, <1>4, <4>2, <5>1
        <5>3. f[i] = seqs[i]
          BY <5>2, ConcatEmptySeq
        <5> QED BY <4>3, <5>3
      <4>4. CASE i # 1
        <5>1. i - 1 \in 1 .. Len(seqs)
          BY <1>1, <4>4
        <5>2. q[i] = f[i] /\ q[i - 1] = f[i - 1]
          BY <5>1
        <5> HIDE DEF q
        <5> QED BY <4>2, <4>4, <5>2
      <4> QED BY <4>3, <4>4
    <3>2. q = Body(q)
      BY <3>1
    <3> HIDE DEF q
    <3> QED BY <3>2
  <2>2. flatten = Body(flatten)
    BY <2>1
  <2>3. FlattenSeq(seqs) = flatten[Len(seqs)]
    BY <1>6 DEF FlattenSeq
  <2> HIDE DEF flatten
  <2>4. \A i \in 1 .. Len(seqs) : flatten[i] = IF i = 1 THEN seqs[i] ELSE flatten[i - 1] \o seqs[i]
    BY <2>2
  <2> DEFINE I == {k \in Nat : k < N => flatten[k + 1] = f[k + 1]}
  <2>5. 0 \in I
    <3>1. 1 \in 1 .. Len(seqs) /\ 0 \in 0 .. N - 1
      BY <1>1, <1>6
    <3>2. flatten[1] = seqs[1] /\ seqs[1] \in Seq(S)
      BY <1>1, <2>4, <3>1
    <3>3. f[0 + 1] = << >> \o seqs[0 + 1]
      BY <1>4, <3>1
    <3>4. << >> \o seqs[1] = seqs[1]
      BY <3>2, ConcatEmptySeq
    <3> QED BY <3>2, <3>3, <3>4, SMTT(30)
  <2>6. ASSUME NEW k \in I PROVE k + 1 \in I
    <3>1. SUFFICES ASSUME k + 1 < N PROVE flatten[(k + 1) + 1] = f[(k + 1) + 1]
      OBVIOUS
    <3>2. /\ (k + 1) + 1 \in 1 .. Len(seqs) /\ ((k + 1) + 1) - 1 = k + 1 /\ (k + 1) + 1 # 1
          /\ k + 1 \in 0 .. N - 1 /\ k < N
      <4>1. k \in Nat /\ N \in Nat /\ N = Len(seqs)
        BY <1>1
      <4>2. /\ (k + 1) + 1 \in 1 .. N /\ ((k + 1) + 1) - 1 = k + 1 /\ (k + 1) + 1 # 1
            /\ k + 1 \in 0 .. N - 1 /\ k < N
        <5> HIDE DEF I, N
        <5> QED BY <3>1, <4>1, NextIndices
      <4> QED BY <4>1, <4>2
    <3>3. flatten[(k + 1) + 1] = flatten[k + 1] \o seqs[(k + 1) + 1]
      BY <2>4, <3>2
    <3>4. flatten[k + 1] = f[k + 1]
      BY <2>6, <3>2
    <3>5. f[(k + 1) + 1] = f[k + 1] \o seqs[(k + 1) + 1]
      BY <1>4, <3>2
    <3> QED BY <3>3, <3>4, <3>5
  <2>7. I = Nat
    <3> HIDE DEF I
    <3>1. I \subseteq Nat
      BY DEF I
    <3> QED BY <2>5, <2>6, <3>1, SetInduction
  <2>8. flatten[N] = f[N]
    <3>1. N - 1 \in Nat /\ N - 1 < N /\ (N - 1) + 1 = N
      BY <1>1, <1>6, SMTT(30)
    <3>2. N - 1 \in I
      BY <2>7, <3>1
    <3> QED BY <3>1, <3>2
  <2> QED BY <1>4, <2>3, <2>8
<1> QED BY <1>5, <1>6

(* Two functions with the same first value and the same steps up to n      *)
(* agree up to n.                                                          *)
LEMMA SameFolds ==
  ASSUME NEW f, NEW g, NEW n \in Nat, f[0] = g[0],
         \A k \in 0 .. n - 1 : f[k] = g[k] => f[k + 1] = g[k + 1]
  PROVE  \A k \in 0 .. n : f[k] = g[k]
<1> DEFINE I == {k \in Nat : k <= n => f[k] = g[k]}
<1>1. 0 \in I
  OBVIOUS
<1>2. ASSUME NEW k \in I PROVE k + 1 \in I
  <2>1. SUFFICES ASSUME k + 1 <= n PROVE f[k + 1] = g[k + 1]
    OBVIOUS
  <2>2. k \in 0 .. n - 1 /\ f[k] = g[k]
    BY <1>2, <2>1
  <2> QED BY <2>2
<1> HIDE DEF I
<1>3. I = Nat
  <2>1. I \subseteq Nat
    BY DEF I
  <2> QED BY <1>1, <1>2, <2>1, SetInduction
<1>4. \A k \in Nat : k \in I
  BY <1>3
<1> QED BY <1>4 DEF I

LEMMA FlattenType ==
  ASSUME NEW S, NEW seqs \in Seq(Seq(S))
  PROVE  FlattenSeq(seqs) \in Seq(S)
<1>1. PICK f \in [Nat -> Seq(S)] : FlattenSeq(seqs) = f[Len(seqs)]
  BY FlattenFolded
<1>2. Len(seqs) \in Nat
  BY LenProperties
<1> QED BY <1>1, <1>2

LEMMA FlattenOne ==
  ASSUME NEW S, NEW x \in Seq(S)
  PROVE  FlattenSeq(<< x >>) = x /\ FlattenSeq(<< >>) = << >>
<1>1. << x >> \in Seq(Seq(S)) /\ Len(<< x >>) = 1 /\ << x >>[1] = x
  OBVIOUS
<1>2. PICK f \in [Nat -> Seq(S)] :
        /\ f[0] = << >> /\ \A k \in 0 .. Len(<< x >>) - 1 : f[k + 1] = f[k] \o << x >>[k + 1]
        /\ FlattenSeq(<< x >>) = f[Len(<< x >>)]
  BY <1>1, FlattenFolded
<1>3. 0 \in 0 .. Len(<< x >>) - 1
  BY <1>1
<1>4. f[0 + 1] = << >> \o << x >>[0 + 1]
  BY <1>2, <1>3
<1>5. << >> \o x = x
  BY ConcatEmptySeq
<1>6. FlattenSeq(<< >>) = << >>
  BY DEF FlattenSeq
<1> QED BY <1>1, <1>2, <1>4, <1>5, <1>6

LEMMA FlattenConcat ==
  ASSUME NEW S, NEW s \in Seq(Seq(S)), NEW t \in Seq(Seq(S))
  PROVE  FlattenSeq(s \o t) = FlattenSeq(s) \o FlattenSeq(t)
<1> DEFINE u == s \o t
<1>1. /\ u \in Seq(Seq(S)) /\ Len(u) = Len(s) + Len(t) /\ Len(s) \in Nat /\ Len(t) \in Nat
      /\ \A i \in 1 .. Len(s) + Len(t) : u[i] = IF i <= Len(s) THEN s[i] ELSE t[i - Len(s)]
  BY ConcatProperties, LenProperties
<1>2. PICK f \in [Nat -> Seq(S)] :
        /\ f[0] = << >> /\ \A k \in 0 .. Len(s) - 1 : f[k + 1] = f[k] \o s[k + 1]
        /\ FlattenSeq(s) = f[Len(s)]
  BY FlattenFolded
<1>3. PICK g \in [Nat -> Seq(S)] :
        /\ g[0] = << >> /\ \A k \in 0 .. Len(t) - 1 : g[k + 1] = g[k] \o t[k + 1]
        /\ FlattenSeq(t) = g[Len(t)]
  BY FlattenFolded
<1> HIDE DEF u
<1>4. PICK h \in [Nat -> Seq(S)] :
        /\ h[0] = << >> /\ \A k \in 0 .. Len(u) - 1 : h[k + 1] = h[k] \o u[k + 1]
        /\ FlattenSeq(u) = h[Len(u)]
  BY <1>1, FlattenFolded
<1>5. h[Len(s)] = f[Len(s)]
  <2>1. ASSUME NEW k \in 0 .. Len(s) - 1, h[k] = f[k] PROVE h[k + 1] = f[k + 1]
    <3>1. k \in 0 .. Len(u) - 1 /\ k + 1 \in 1 .. Len(s) + Len(t) /\ k + 1 <= Len(s)
      BY <1>1
    <3>2. u[k + 1] = s[k + 1]
      BY <1>1, <3>1
    <3> QED BY <1>2, <1>4, <2>1, <3>1, <3>2
  <2>2. h[0] = f[0]
    BY <1>2, <1>4
  <2>3. \A k \in 0 .. Len(s) : h[k] = f[k]
    BY <1>1, <2>1, <2>2, SameFolds
  <2> QED BY <1>1, <2>3
<1> DEFINE p == [k \in Nat |-> h[Len(s) + k]]
           q == [k \in Nat |-> f[Len(s)] \o g[k]]
<1>6. f[Len(s)] \in Seq(S)
  BY <1>1
<1>7. p[0] = q[0]
  <2>1. f[Len(s)] \o << >> = f[Len(s)] /\ Len(s) + 0 = Len(s)
    BY <1>1, <1>6, ConcatEmptySeq
  <2> QED BY <1>3, <1>5, <2>1
<1>8. ASSUME NEW k \in 0 .. Len(t) - 1, p[k] = q[k] PROVE p[k + 1] = q[k + 1]
  <2>1. /\ Len(s) + k \in 0 .. Len(u) - 1 /\ (Len(s) + k) + 1 = Len(s) + (k + 1)
        /\ Len(s) + (k + 1) \in 1 .. Len(s) + Len(t) /\ ~ (Len(s) + (k + 1) <= Len(s))
        /\ (Len(s) + (k + 1)) - Len(s) = k + 1 /\ k \in Nat /\ k + 1 \in Nat /\ k + 1 \in 1 .. Len(t)
    <3>1. k \in Nat /\ k < Len(t) /\ Len(s) \in Nat /\ Len(t) \in Nat /\ Len(u) = Len(s) + Len(t)
      BY <1>1
    <3> HIDE DEF p, q
    <3> QED BY <3>1, SumIndices
  <2>2. u[Len(s) + (k + 1)] = t[k + 1] /\ t[k + 1] \in Seq(S) /\ g[k] \in Seq(S)
    BY <1>1, <2>1, ElementOfSeq
  <2>3. h[Len(s) + (k + 1)] = h[Len(s) + k] \o t[k + 1]
    BY <1>4, <2>1, <2>2
  <2>4. h[Len(s) + k] = f[Len(s)] \o g[k]
    BY <1>8, <2>1
  <2>5. (f[Len(s)] \o g[k]) \o t[k + 1] = f[Len(s)] \o (g[k] \o t[k + 1])
    <3> HIDE DEF p, q
    <3>1. Associates(f[Len(s)], g[k], t[k + 1])
      BY <1>6, <2>2, Associative, Zenon
    <3> QED BY <3>1 DEF Associates
  <2>6. g[k + 1] = g[k] \o t[k + 1]
    BY <1>3
  <2>7. p[k + 1] = h[Len(s) + (k + 1)] /\ q[k + 1] = f[Len(s)] \o g[k + 1]
    BY <2>1
  <2> HIDE DEF p, q
  <2> QED BY <2>3, <2>4, <2>5, <2>6, <2>7
<1>9. p[Len(t)] = q[Len(t)]
  <2> HIDE DEF p, q
  <2>1. \A k \in 0 .. Len(t) : p[k] = q[k]
    BY <1>1, <1>7, <1>8, SameFolds
  <2> QED BY <1>1, <2>1
<1>10. h[Len(u)] = f[Len(s)] \o g[Len(t)]
  BY <1>1, <1>9
<1> QED BY <1>2, <1>3, <1>4, <1>10 DEF u

-----------------------------------------------------------------------------
(* The size of a SendBuffer.                                               *)

LEMMA WordsType == Words \in Nat /\ ByteBase <= Words
<1>1. PICK p \in [Nat -> Nat] :
        p[0] = 1 /\ (\A k \in Nat : p[k + 1] = ByteBase * p[k]) /\ Words = p[IntSize]
  BY WordsPower
<1> DEFINE I == {k \in Nat : 1 <= p[k]}
<1>2. 0 \in I
  BY <1>1
<1>3. ASSUME NEW k \in I PROVE k + 1 \in I
  <2>1. p[k + 1] = ByteBase * p[k] /\ 1 <= p[k] /\ p[k] \in Nat /\ k + 1 \in Nat
    BY <1>1
  <2>2. ByteBase * 1 <= ByteBase * p[k] /\ ByteBase * 1 = ByteBase
    BY <2>1, Sizes, TimesMonotone
  <2>3. 1 <= p[k + 1]
    BY <2>1, <2>2, Sizes
  <2> QED BY <2>1, <2>3
<1>4. I = Nat
  <2> HIDE DEF I
  <2>1. I \subseteq Nat
    BY DEF I
  <2> QED BY <1>2, <1>3, <2>1, SetInduction
<1>5. IntSize - 1 \in I /\ IntSize - 1 \in Nat /\ (IntSize - 1) + 1 = IntSize
  BY <1>4, Sizes
<1>6. Words = ByteBase * p[IntSize - 1] /\ 1 <= p[IntSize - 1] /\ p[IntSize - 1] \in Nat
  BY <1>1, <1>5
<1>7. ByteBase * 1 <= ByteBase * p[IntSize - 1] /\ ByteBase * 1 = ByteBase
  BY <1>6, Sizes, TimesMonotone
<1>8. Words \in Nat
  BY <1>1, Sizes
<1> QED BY <1>6, <1>7, <1>8

LEMMA ModBelow ==
  ASSUME NEW w \in Nat, NEW a \in Nat, a < w
  PROVE  a % w = a
OBVIOUS

LEMMA ModType ==
  ASSUME NEW w \in Nat, 1 <= w, NEW a \in Nat
  PROVE  a % w \in Nat
OBVIOUS

(* What the doubling finds is a size, not below what is needed.            *)
LEMMA GrownHolds ==
  ASSUME NEW size \in Nat, 1 <= size, NEW need \in Nat, 2 * need <= Words
  PROVE  Grown(size, need) \in Nat /\ 1 <= Grown(size, need) /\ need <= Grown(size, need)
<1> DEFINE Step(x) == [s \in Nat |-> IF s < need THEN x[(s * 2) % Words] ELSE s]
           step == [k \in Nat |-> [x \in [Nat -> Nat] |-> Step(x)]]
           Grow == CHOOSE G : G = Step(G)
<1>1. ASSUME NEW s \in Nat PROVE (s * 2) % Words \in Nat
  <2>1. s * 2 \in Nat /\ 1 <= Words /\ Words \in Nat
    BY WordsType, Sizes
  <2> QED BY <2>1, ModType
<1>2. ASSUME NEW s \in Nat, s < need PROVE (s * 2) % Words = s * 2
  <2>1. s * 2 \in Nat /\ s * 2 < Words /\ Words \in Nat
    BY <1>2, WordsType
  <2> QED BY <2>1, ModBelow
<1>3. PICK h \in [Nat -> [Nat -> Nat]] : Recurs(h, [s \in Nat |-> s], step)
  <2>1. ASSUME NEW x \in [Nat -> Nat] PROVE Step(x) \in [Nat -> Nat]
    BY <1>1
  <2>2. step \in [Nat -> [[Nat -> Nat] -> [Nat -> Nat]]]
    <3> HIDE DEF Step
    <3> QED BY <2>1
  <2>3. [s \in Nat |-> s] \in [Nat -> Nat]
    OBVIOUS
  <2> HIDE DEF step
  <2> QED BY <2>2, <2>3, Recursion
<1>4. h[0] = [s \in Nat |-> s] /\ \A k \in Nat : h[k + 1] = Step(h[k])
  <2> HIDE DEF Step
  <2> QED BY <1>3 DEF Recurs
<1>5. /\ \A s \in Nat : h[0][s] = s
      /\ \A k, s \in Nat : h[k + 1][s] = IF s < need THEN h[k][(s * 2) % Words] ELSE s
  <2>1. ASSUME NEW s \in Nat PROVE h[0][s] = s
    <3>1. h[0] = [x \in Nat |-> x]
      BY <1>4, Zenon
    <3> HIDE DEF step, Step
    <3> QED BY <3>1
  <2>2. ASSUME NEW k \in Nat, NEW s \in Nat
        PROVE  h[k + 1][s] = IF s < need THEN h[k][(s * 2) % Words] ELSE s
    <3>1. h[k + 1] = Step(h[k])
      BY <1>4, Zenon
    <3>2. h[k + 1] = [x \in Nat |-> IF x < need THEN h[k][(x * 2) % Words] ELSE x]
      BY <3>1, Zenon DEF Step
    <3> HIDE DEF step, Step
    <3> QED BY <3>2
  <2> HIDE DEF step, Step
  <2> QED BY <2>1, <2>2, Zenon
<1> HIDE DEF Step, step, Grow
<1>6. \A k \in Nat : h[k][0] = 0
  <2> DEFINE I == {k \in Nat : h[k][0] = 0}
  <2>1. 0 \in I
    BY <1>5
  <2>2. ASSUME NEW k \in I PROVE k + 1 \in I
    <3>1. 0 * 2 = 0
      OBVIOUS
    <3>2. h[k + 1][0] = IF 0 < need THEN h[k][(0 * 2) % Words] ELSE 0
      BY <1>5
    <3>3. 0 < need => (0 * 2) % Words = 0 * 2
      <4>1. 0 \in Nat
        OBVIOUS
      <4> QED BY <4>1, <1>2, Zenon
    <3>4. 0 < need => h[k + 1][0] = h[k][0]
      BY <3>1, <3>2, <3>3
    <3>5. h[k][0] = 0 /\ k + 1 \in Nat
      OBVIOUS
    <3>6. h[k + 1][0] = 0
      <4> HIDE DEF I
      <4> QED BY <3>2, <3>4, <3>5
    <3> QED BY <3>5, <3>6
  <2> HIDE DEF I
  <2>3. I \subseteq Nat
    BY DEF I
  <2>4. I = Nat
    BY <2>1, <2>2, <2>3, SetInduction
  <2>5. \A k \in Nat : k \in I
    BY <2>4
  <2> QED BY <2>5 DEF I
<1> DEFINE Stable(k) == \A s \in Nat : 1 <= s /\ need <= s + k => h[k + 1][s] = h[k][s]
<1>7. \A k \in Nat : Stable(k)
  <2> DEFINE I == {k \in Nat : Stable(k)}
  <2>1. 0 \in I
    <3>1. ASSUME NEW s \in Nat, need <= s + 0 PROVE h[0 + 1][s] = h[0][s]
      <4>1. ~ (s < need) /\ 0 \in Nat
        BY <3>1
      <4>2. h[0 + 1][s] = IF s < need THEN h[0][(s * 2) % Words] ELSE s
        BY <1>5, <4>1, Zenon
      <4> QED BY <1>5, <4>1, <4>2, Zenon
    <3> QED BY <3>1
  <2>2. ASSUME NEW k \in I PROVE k + 1 \in I
    <3>1. SUFFICES ASSUME NEW s \in Nat, 1 <= s, need <= s + (k + 1)
                   PROVE  h[(k + 1) + 1][s] = h[k + 1][s]
      OBVIOUS
    <3>2. k \in Nat /\ k + 1 \in Nat
      OBVIOUS
    <3>3. h[(k + 1) + 1][s] = IF s < need THEN h[k + 1][(s * 2) % Words] ELSE s
      BY <1>5, <3>2
    <3>4. h[k + 1][s] = IF s < need THEN h[k][(s * 2) % Words] ELSE s
      BY <1>5, <3>2
    <3>5. CASE s < need
      <4>1. s * 2 \in Nat /\ 1 <= s * 2 /\ need <= s * 2 + k
        BY <3>1, <3>2
      <4>2. h[k + 1][s * 2] = h[k][s * 2]
        BY <2>2, <4>1
      <4> QED BY <1>2, <3>3, <3>4, <3>5, <4>2
    <3> QED BY <3>3, <3>4, <3>5
  <2> HIDE DEF I
  <2>3. I \subseteq Nat
    BY DEF I
  <2>4. I = Nat
    BY <2>1, <2>2, <2>3, SetInduction
  <2>5. \A k \in Nat : k \in I
    BY <2>4
  <2> QED BY <2>5 DEF I
<1>8. \E G : G = Step(G)
  <2>1. ASSUME NEW s \in Nat
        PROVE  h[need][s] = IF s < need THEN h[need][(s * 2) % Words] ELSE s
    <3>1. h[need + 1][s] = h[need][s]
      <4>1. need \in Nat /\ need + 1 \in Nat
        OBVIOUS
      <4>2. CASE s = 0
        BY <1>6, <4>1, <4>2
      <4>3. CASE s # 0
        <5>1. 1 <= s /\ need <= s + need
          BY <4>3
        <5> QED BY <1>7, <5>1
      <4> QED BY <4>2, <4>3
    <3> QED BY <1>5, <3>1
  <2>2. h[need] = Step(h[need])
    <3>1. h[need] \in [Nat -> Nat]
      OBVIOUS
    <3> QED BY <2>1, <3>1 DEF Step
  <2> QED BY <2>2
<1>9. Grow = Step(Grow)
  BY <1>8 DEF Grow
<1>10. \A s \in Nat : Grow[s] = IF s < need THEN Grow[(s * 2) % Words] ELSE s
  BY <1>9 DEF Step
<1>11. Grown(size, need) = Grow[size]
  BY DEF Grown, Grow, Step
<1> DEFINE Enough(k) ==
      \A s \in Nat : 1 <= s /\ need <= s + k => Grow[s] \in Nat /\ 1 <= Grow[s] /\ need <= Grow[s]
           J == {k \in Nat : Enough(k)}
<1>12. 0 \in J
  <2>1. ASSUME NEW s \in Nat, 1 <= s, need <= s + 0
        PROVE  Grow[s] \in Nat /\ 1 <= Grow[s] /\ need <= Grow[s]
    <3>1. ~ (s < need) /\ need <= s
      BY <2>1
    <3>2. Grow[s] = s
      BY <1>10, <3>1, Zenon
    <3> QED BY <2>1, <3>1, <3>2
  <2> QED BY <2>1
<1>13. ASSUME NEW k \in J PROVE k + 1 \in J
  <2>1. SUFFICES ASSUME NEW s \in Nat, 1 <= s, need <= s + (k + 1)
                 PROVE  Grow[s] \in Nat /\ 1 <= Grow[s] /\ need <= Grow[s]
    OBVIOUS
  <2>2. CASE s < need
    <3>1. s * 2 \in Nat /\ 1 <= s * 2 /\ need <= s * 2 + k
      BY <2>1
    <3>2. Grow[s] = Grow[s * 2]
      BY <1>2, <1>10, <2>2
    <3> QED BY <1>13, <3>1, <3>2
  <2>3. CASE ~ (s < need)
    BY <1>10, <2>1, <2>3
  <2> QED BY <2>2, <2>3
<1>14. J = Nat
  <2> HIDE DEF J
  <2>1. J \subseteq Nat
    BY DEF J
  <2> QED BY <1>12, <1>13, <2>1, SetInduction
<1>15. Enough(need)
  <2>1. need \in J
    <3> HIDE DEF J
    <3> QED BY <1>14
  <2> QED BY <2>1
<1>16. need <= size + need
  OBVIOUS
<1> QED BY <1>11, <1>15, <1>16

-----------------------------------------------------------------------------
(* What is written to a SendBuffer, and that it fits.                      *)

Holds(b) == b.size \in Nat /\ 1 <= b.size /\ b.bytes \in Seq(Nat) /\ Len(b.bytes) <= b.size

FieldBytes(s) == IntBytes(Len(s)) \o s
HeaderBytes(length, code) == IntBytes(length) \o IntBytes(code)

LEMMA PutHolds ==
  ASSUME NEW b, b.bytes \in Seq(Nat), NEW bs \in Seq(Nat)
  PROVE  /\ Put(b, bs).bytes = b.bytes \o bs /\ Put(b, bs).bytes \in Seq(Nat)
         /\ Len(Put(b, bs).bytes) = Len(b.bytes) + Len(bs)
         /\ Holds(b) /\ 2 * (Len(b.bytes) + Len(bs)) <= Words => Holds(Put(b, bs))
<1>1. /\ Put(b, bs).bytes = b.bytes \o bs
      /\ Put(b, bs).size = Grown(b.size, Len(b.bytes) + Len(bs))
  BY DEF Put
<1>2. b.bytes \o bs \in Seq(Nat) /\ Len(b.bytes \o bs) = Len(b.bytes) + Len(bs)
  BY ConcatProperties
<1>3. Len(b.bytes) + Len(bs) \in Nat
  BY LenProperties
<1>4. ASSUME Holds(b), 2 * (Len(b.bytes) + Len(bs)) <= Words PROVE Holds(Put(b, bs))
  <2>1. b.size \in Nat /\ 1 <= b.size
    BY <1>4 DEF Holds
  <2>2. PICK n \in Nat : n = Len(b.bytes) + Len(bs)
    BY <1>3
  <2>3. Grown(b.size, n) \in Nat /\ 1 <= Grown(b.size, n) /\ n <= Grown(b.size, n)
    BY <1>4, <2>1, <2>2, GrownHolds
  <2> QED BY <1>1, <1>2, <2>2, <2>3 DEF Holds
<1> QED BY <1>1, <1>2, <1>4

LEMMA PutIntHolds ==
  ASSUME NEW b, b.bytes \in Seq(Nat), NEW n \in Nat
  PROVE  /\ PutInt(b, n).bytes = b.bytes \o IntBytes(n) /\ PutInt(b, n).bytes \in Seq(Nat)
         /\ Len(PutInt(b, n).bytes) = Len(b.bytes) + IntSize
         /\ Holds(b) /\ 2 * (Len(b.bytes) + IntSize) <= Words => Holds(PutInt(b, n))
<1>1. IntBytes(n) \in Seq(Nat) /\ Len(IntBytes(n)) = IntSize
  BY IntBytesType
<1> QED BY <1>1, PutHolds DEF PutInt

LEMMA FieldBytesType ==
  ASSUME NEW s \in Seq(Nat)
  PROVE  FieldBytes(s) \in Seq(Nat) /\ Len(FieldBytes(s)) = IntSize + Len(s)
<1>1. Len(s) \in Nat
  BY LenProperties
<1>2. IntBytes(Len(s)) \in Seq(Nat) /\ Len(IntBytes(Len(s))) = IntSize
  BY <1>1, IntBytesType
<1> QED BY <1>2, ConcatProperties DEF FieldBytes

LEMMA PutStringHolds ==
  ASSUME NEW b, b.bytes \in Seq(Nat), NEW s \in Seq(Nat)
  PROVE  /\ PutString(b, s).bytes = b.bytes \o FieldBytes(s) /\ PutString(b, s).bytes \in Seq(Nat)
         /\ Len(PutString(b, s).bytes) = (Len(b.bytes) + IntSize) + Len(s)
         /\ Holds(b) /\ 2 * ((Len(b.bytes) + IntSize) + Len(s)) <= Words => Holds(PutString(b, s))
<1>1. Len(s) \in Nat /\ Len(b.bytes) \in Nat
  BY LenProperties
<1> DEFINE c == PutInt(b, Len(s))
<1>2. /\ c.bytes = b.bytes \o IntBytes(Len(s)) /\ c.bytes \in Seq(Nat)
      /\ Len(c.bytes) = Len(b.bytes) + IntSize
      /\ Holds(b) /\ 2 * (Len(b.bytes) + IntSize) <= Words => Holds(c)
  BY <1>1, PutIntHolds
<1>3. PutString(b, s) = Put(c, s)
  BY DEF PutString
<1> HIDE DEF c
<1>4. /\ Put(c, s).bytes = c.bytes \o s /\ Put(c, s).bytes \in Seq(Nat)
      /\ Len(Put(c, s).bytes) = Len(c.bytes) + Len(s)
      /\ Holds(c) /\ 2 * (Len(c.bytes) + Len(s)) <= Words => Holds(Put(c, s))
  BY <1>2, PutHolds
<1>5. Put(c, s).bytes = b.bytes \o FieldBytes(s)
  <2>1. IntBytes(Len(s)) \in Seq(Nat)
    BY <1>1, IntBytesType
  <2>2. Associates(b.bytes, IntBytes(Len(s)), s)
    BY <2>1, Associative, Zenon
  <2> QED BY <1>2, <1>4, <2>2 DEF Associates, FieldBytes
<1>6. ASSUME Holds(b), 2 * ((Len(b.bytes) + IntSize) + Len(s)) <= Words PROVE Holds(Put(c, s))
  <2>1. 2 * (Len(b.bytes) + IntSize) <= Words
    BY <1>1, <1>6, Sizes, WordsType
  <2> QED BY <1>2, <1>4, <1>6, <2>1
<1> QED BY <1>2, <1>3, <1>4, <1>5, <1>6

LEMMA HeaderHolds ==
  ASSUME NEW length \in Nat, NEW code \in Nat
  PROVE  LET b == PutInt(PutInt(NewBuffer, length), code)
         IN /\ b.bytes = HeaderBytes(length, code) /\ b.bytes \in Seq(Nat)
            /\ Len(b.bytes) = 2 * IntSize
            /\ 4 * IntSize <= Words => Holds(b)
<1> DEFINE a == PutInt(NewBuffer, length)
           b == PutInt(a, code)
<1>1. /\ NewBuffer.bytes = << >> /\ NewBuffer.bytes \in Seq(Nat) /\ Len(NewBuffer.bytes) = 0
      /\ Holds(NewBuffer)
  BY Sizes DEF NewBuffer, Holds
<1>2. /\ a.bytes = NewBuffer.bytes \o IntBytes(length) /\ a.bytes \in Seq(Nat)
      /\ Len(a.bytes) = Len(NewBuffer.bytes) + IntSize
      /\ Holds(NewBuffer) /\ 2 * (Len(NewBuffer.bytes) + IntSize) <= Words => Holds(a)
  BY <1>1, PutIntHolds
<1> HIDE DEF a
<1>3. /\ b.bytes = a.bytes \o IntBytes(code) /\ b.bytes \in Seq(Nat)
      /\ Len(b.bytes) = Len(a.bytes) + IntSize
      /\ Holds(a) /\ 2 * (Len(a.bytes) + IntSize) <= Words => Holds(b)
  BY <1>2, PutIntHolds
<1>4. a.bytes = IntBytes(length)
  <2>1. IntBytes(length) \in Seq(Nat)
    BY IntBytesType
  <2> QED BY <1>1, <1>2, <2>1, ConcatEmptySeq
<1>5. Len(b.bytes) = 2 * IntSize
  BY <1>1, <1>2, <1>3, Sizes
<1>6. 4 * IntSize <= Words => Holds(b)
  BY <1>1, <1>2, <1>3, Sizes, WordsType
<1> QED BY <1>3, <1>4, <1>5, <1>6 DEF a, HeaderBytes

(* The text of a message.                                                  *)
LEMMA BytesType ==
  ASSUME NEW s \in DOMAIN Bytes
  PROVE  Bytes[s] \in Seq(Nat)
BY WireAssumption

LEMMA TextBytesType ==
  ASSUME NEW ws \in Seq(DOMAIN Bytes)
  PROVE  TextBytes(ws) \in Seq(Nat)
<1> DEFINE Piece(k) == (IF k = 1 THEN << >> ELSE << Space >>) \o Bytes[ws[k]]
           pieces == [k \in 1 .. Len(ws) |-> Piece(k)]
<1>1. ASSUME NEW k \in 1 .. Len(ws) PROVE Piece(k) \in Seq(Nat)
  <2>1. ws[k] \in DOMAIN Bytes
    BY ElementOfSeq
  <2>2. Bytes[ws[k]] \in Seq(Nat)
    BY <2>1, BytesType
  <2>3. (IF k = 1 THEN << >> ELSE << Space >>) \in Seq(Nat)
    BY DEF Space
  <2> QED BY <2>2, <2>3, ConcatProperties
<1>2. Len(ws) \in Nat /\ pieces \in [1 .. Len(ws) -> Seq(Nat)]
  <2> HIDE DEF Piece
  <2> QED BY <1>1, LenProperties
<1>3. TextBytes(ws) = FlattenSeq(pieces)
  BY DEF TextBytes
<1> HIDE DEF pieces
<1>4. pieces \in Seq(Seq(Nat))
  BY <1>2, FunctionIsSeq
<1> QED BY <1>3, <1>4, FlattenType

-----------------------------------------------------------------------------
(* writeMessage: a header and the fields of the message's type.            *)

Messages ==
  [type : DOMAIN TypeCode, name : DOMAIN Bytes, room : DOMAIN Bytes, text : Seq(DOMAIN Bytes)]

OneField(code, s) ==
  PutString(PutInt(PutInt(NewBuffer, 3 * IntSize + Len(s)), code), s)
TwoFields(code, s, t) ==
  PutString(PutString(PutInt(PutInt(NewBuffer, 4 * IntSize + Len(s) + Len(t)), code), s), t)
ThreeFields(length, code, s, t, u) ==
  PutString(PutString(PutString(PutInt(PutInt(NewBuffer, length), code), s), t), u)

LEMMA OneFieldHolds ==
  ASSUME NEW code \in Nat, NEW s \in Seq(Nat)
  PROVE  LET b == OneField(code, s)
         IN /\ b.bytes = HeaderBytes(3 * IntSize + Len(s), code) \o FieldBytes(s)
            /\ b.bytes \in Seq(Nat) /\ Len(b.bytes) = 3 * IntSize + Len(s)
            /\ 2 * Len(b.bytes) <= Words => Len(b.bytes) <= b.size
<1> DEFINE h == PutInt(PutInt(NewBuffer, 3 * IntSize + Len(s)), code)
           b == PutString(h, s)
<1>1. Len(s) \in Nat /\ 3 * IntSize + Len(s) \in Nat
  BY LenProperties, Sizes
<1>2. /\ h.bytes = HeaderBytes(3 * IntSize + Len(s), code) /\ h.bytes \in Seq(Nat)
      /\ Len(h.bytes) = 2 * IntSize
      /\ 4 * IntSize <= Words => Holds(h)
  BY <1>1, HeaderHolds
<1>3. OneField(code, s) = b
  BY DEF OneField
<1> HIDE DEF h
<1>4. /\ b.bytes = h.bytes \o FieldBytes(s) /\ b.bytes \in Seq(Nat)
      /\ Len(b.bytes) = (Len(h.bytes) + IntSize) + Len(s)
      /\ Holds(h) /\ 2 * ((Len(h.bytes) + IntSize) + Len(s)) <= Words => Holds(b)
  BY <1>2, PutStringHolds
<1> HIDE DEF b
<1>5. Len(b.bytes) = 3 * IntSize + Len(s)
  <2>1. PICK i \in Nat, j \in Nat : i = IntSize /\ j = Len(s)
    BY <1>1, Sizes
  <2>2. Len(b.bytes) = (2 * i + i) + j
    BY <1>2, <1>4, <2>1
  <2>3. (2 * i + i) + j = 3 * i + j
    OBVIOUS
  <2> QED BY <2>1, <2>2, <2>3
<1>6. ASSUME 2 * Len(b.bytes) <= Words PROVE Len(b.bytes) <= b.size
  <2>1. 4 * IntSize <= Words /\ 2 * ((Len(h.bytes) + IntSize) + Len(s)) <= Words
    BY <1>1, <1>2, <1>4, <1>5, <1>6, Sizes, WordsType
  <2> QED BY <1>2, <1>4, <2>1 DEF Holds
<1> QED BY <1>2, <1>3, <1>4, <1>5, <1>6

LEMMA TwoFieldsHold ==
  ASSUME NEW code \in Nat, NEW s \in Seq(Nat), NEW t \in Seq(Nat)
  PROVE  LET b == TwoFields(code, s, t)
         IN /\ b.bytes = (HeaderBytes(4 * IntSize + Len(s) + Len(t), code) \o FieldBytes(s))
                           \o FieldBytes(t)
            /\ b.bytes \in Seq(Nat) /\ Len(b.bytes) = 4 * IntSize + Len(s) + Len(t)
            /\ 2 * Len(b.bytes) <= Words => Len(b.bytes) <= b.size
<1> DEFINE h == PutInt(PutInt(NewBuffer, 4 * IntSize + Len(s) + Len(t)), code)
           a == PutString(h, s)
           b == PutString(a, t)
<1>1. Len(s) \in Nat /\ Len(t) \in Nat /\ 4 * IntSize + Len(s) + Len(t) \in Nat
  BY LenProperties, Sizes
<1>2. /\ h.bytes = HeaderBytes(4 * IntSize + Len(s) + Len(t), code) /\ h.bytes \in Seq(Nat)
      /\ Len(h.bytes) = 2 * IntSize
      /\ 4 * IntSize <= Words => Holds(h)
  BY <1>1, HeaderHolds
<1>3. TwoFields(code, s, t) = b
  BY DEF TwoFields
<1> HIDE DEF h
<1>4. /\ a.bytes = h.bytes \o FieldBytes(s) /\ a.bytes \in Seq(Nat)
      /\ Len(a.bytes) = (Len(h.bytes) + IntSize) + Len(s)
      /\ Holds(h) /\ 2 * ((Len(h.bytes) + IntSize) + Len(s)) <= Words => Holds(a)
  BY <1>2, PutStringHolds
<1> HIDE DEF a
<1>5. /\ b.bytes = a.bytes \o FieldBytes(t) /\ b.bytes \in Seq(Nat)
      /\ Len(b.bytes) = (Len(a.bytes) + IntSize) + Len(t)
      /\ Holds(a) /\ 2 * ((Len(a.bytes) + IntSize) + Len(t)) <= Words => Holds(b)
  BY <1>4, PutStringHolds
<1> HIDE DEF b
<1>6. Len(b.bytes) = 4 * IntSize + Len(s) + Len(t)
  <2>1. PICK i \in Nat, j \in Nat, k \in Nat : i = IntSize /\ j = Len(s) /\ k = Len(t)
    BY <1>1, Sizes
  <2>2. Len(b.bytes) = (((2 * i + i) + j) + i) + k
    BY <1>2, <1>4, <1>5, <2>1
  <2>3. (((2 * i + i) + j) + i) + k = 4 * i + j + k
    OBVIOUS
  <2> QED BY <2>1, <2>2, <2>3
<1>7. ASSUME 2 * Len(b.bytes) <= Words PROVE Len(b.bytes) <= b.size
  <2>1. /\ 4 * IntSize <= Words /\ 2 * ((Len(h.bytes) + IntSize) + Len(s)) <= Words
        /\ 2 * ((Len(a.bytes) + IntSize) + Len(t)) <= Words
    BY <1>1, <1>2, <1>4, <1>5, <1>6, <1>7, Sizes, WordsType, SMTT(30)
  <2> QED BY <1>2, <1>4, <1>5, <2>1 DEF Holds
<1> QED BY <1>2, <1>3, <1>4, <1>5, <1>6, <1>7

ThreeFieldBytes(length, code, s, t, u) ==
  ((HeaderBytes(length, code) \o FieldBytes(s)) \o FieldBytes(t)) \o FieldBytes(u)

LEMMA ThreeFieldsHold ==
  ASSUME NEW code \in Nat, NEW s \in Seq(Nat), NEW t \in Seq(Nat), NEW u \in Seq(Nat),
         NEW length \in Nat
  PROVE  LET b == ThreeFields(length, code, s, t, u)
         IN /\ b.bytes = ThreeFieldBytes(length, code, s, t, u)
            /\ b.bytes \in Seq(Nat) /\ Len(b.bytes) = 5 * IntSize + Len(s) + Len(t) + Len(u)
            /\ 2 * Len(b.bytes) <= Words => Len(b.bytes) <= b.size
<1> DEFINE h == PutInt(PutInt(NewBuffer, length), code)
           a == PutString(h, s)
           c == PutString(a, t)
           b == PutString(c, u)
<1>1. Len(s) \in Nat /\ Len(t) \in Nat /\ Len(u) \in Nat
  BY LenProperties, Sizes
<1>2. /\ h.bytes = HeaderBytes(length, code) /\ h.bytes \in Seq(Nat)
      /\ Len(h.bytes) = 2 * IntSize
      /\ 4 * IntSize <= Words => Holds(h)
  BY HeaderHolds
<1>3. ThreeFields(length, code, s, t, u) = b
  BY DEF ThreeFields
<1> HIDE DEF h
<1>4. /\ a.bytes = h.bytes \o FieldBytes(s) /\ a.bytes \in Seq(Nat)
      /\ Len(a.bytes) = (Len(h.bytes) + IntSize) + Len(s)
      /\ Holds(h) /\ 2 * ((Len(h.bytes) + IntSize) + Len(s)) <= Words => Holds(a)
  BY <1>2, PutStringHolds
<1> HIDE DEF a
<1>5. /\ c.bytes = a.bytes \o FieldBytes(t) /\ c.bytes \in Seq(Nat)
      /\ Len(c.bytes) = (Len(a.bytes) + IntSize) + Len(t)
      /\ Holds(a) /\ 2 * ((Len(a.bytes) + IntSize) + Len(t)) <= Words => Holds(c)
  BY <1>4, PutStringHolds
<1> HIDE DEF c
<1>6. /\ b.bytes = c.bytes \o FieldBytes(u) /\ b.bytes \in Seq(Nat)
      /\ Len(b.bytes) = (Len(c.bytes) + IntSize) + Len(u)
      /\ Holds(c) /\ 2 * ((Len(c.bytes) + IntSize) + Len(u)) <= Words => Holds(b)
  BY <1>5, PutStringHolds
<1> HIDE DEF b
<1>7. Len(b.bytes) = 5 * IntSize + Len(s) + Len(t) + Len(u)
  BY <1>1, <1>2, <1>4, <1>5, <1>6, Sizes
<1>8. ASSUME 2 * Len(b.bytes) <= Words PROVE Len(b.bytes) <= b.size
  <2>1. /\ 4 * IntSize <= Words /\ 2 * ((Len(h.bytes) + IntSize) + Len(s)) <= Words
        /\ 2 * ((Len(a.bytes) + IntSize) + Len(t)) <= Words
        /\ 2 * ((Len(c.bytes) + IntSize) + Len(u)) <= Words
    <3>1. PICK i \in Nat, j \in Nat, k \in Nat, l \in Nat, w \in Nat :
            i = IntSize /\ j = Len(s) /\ k = Len(t) /\ l = Len(u) /\ w = Words
      BY <1>1, Sizes, WordsType
    <3>2. /\ Len(h.bytes) = 2 * i /\ Len(a.bytes) = (2 * i + i) + j
          /\ Len(c.bytes) = (((2 * i + i) + j) + i) + k /\ 2 * (5 * i + j + k + l) <= w
      BY <1>2, <1>4, <1>5, <1>7, <1>8, <3>1
    <3>3. /\ 4 * i <= w /\ 2 * ((2 * i + i) + j) <= w /\ 2 * ((((2 * i + i) + j) + i) + k) <= w
          /\ 2 * ((((((2 * i + i) + j) + i) + k) + i) + l) <= w
      BY <3>2
    <3> QED BY <3>1, <3>2, <3>3
  <2> QED BY <1>2, <1>4, <1>5, <1>6, <2>1 DEF Holds
<1>9. b.bytes = ThreeFieldBytes(length, code, s, t, u)
  BY <1>2, <1>4, <1>5, <1>6, Zenon DEF ThreeFieldBytes
<1> QED BY <1>3, <1>6, <1>7, <1>8, <1>9

(* What writeMessage puts, by the type of the message.                     *)
LEMMA WriteCases ==
  ASSUME NEW m \in Messages
  PROVE  LET name == Bytes[m.name]
             room == Bytes[m.room]
             text == TextBytes(m.text)
         IN /\ name \in Seq(Nat) /\ room \in Seq(Nat) /\ text \in Seq(Nat)
            /\ m.type \in {"LOGIN", "JOIN", "LEAVE", "SEND", "RECIEVE"}
            /\ m.type = "LOGIN" => WriteMessage(m) = OneField(0, name)
            /\ m.type = "JOIN" => WriteMessage(m) = OneField(1, room)
            /\ m.type = "LEAVE" => WriteMessage(m) = OneField(2, room)
            /\ m.type = "SEND" => WriteMessage(m) = TwoFields(3, room, text)
            /\ m.type = "RECIEVE" =>
                 WriteMessage(m) = ThreeFields(5 * IntSize + Len(room) + Len(text) + Len(name), 4,
                                               name, room, text)
<1>1. /\ m.name \in DOMAIN Bytes /\ m.room \in DOMAIN Bytes /\ m.text \in Seq(DOMAIN Bytes)
      /\ m.type \in {"LOGIN", "JOIN", "LEAVE", "SEND", "RECIEVE"}
  BY DEF Messages, TypeCode
<1>2. Bytes[m.name] \in Seq(Nat) /\ Bytes[m.room] \in Seq(Nat) /\ TextBytes(m.text) \in Seq(Nat)
  BY <1>1, BytesType, TextBytesType
<1>3. m.type = "LOGIN" => WriteMessage(m) = OneField(0, Bytes[m.name])
  BY DEF WriteMessage, OneField, TypeCode
<1>4. m.type = "JOIN" => WriteMessage(m) = OneField(1, Bytes[m.room])
  BY DEF WriteMessage, OneField, TypeCode
<1>5. m.type = "LEAVE" => WriteMessage(m) = OneField(2, Bytes[m.room])
  BY DEF WriteMessage, OneField, TypeCode
<1>6. m.type = "SEND" => WriteMessage(m) = TwoFields(3, Bytes[m.room], TextBytes(m.text))
  BY DEF WriteMessage, TwoFields, TypeCode
<1>7. m.type = "RECIEVE" =>
        WriteMessage(m) = ThreeFields(5 * IntSize + Len(Bytes[m.room]) + Len(TextBytes(m.text)) + Len(Bytes[m.name]), 4,
                                      Bytes[m.name], Bytes[m.room], TextBytes(m.text))
  BY DEF WriteMessage, ThreeFields, TypeCode
<1> QED BY <1>1, <1>2, <1>3, <1>4, <1>5, <1>6, <1>7

(* SendBuffer: whatever the message, the array is as large as what         *)
(* writeMessage has put into it, when it is not so long that the doubling  *)
(* of the size would overflow.                                             *)
THEOREM WrittenFits ==
  ASSUME NEW m \in Messages
  PROVE  LET b == WriteMessage(m)
         IN /\ b.bytes \in Seq(Nat) /\ 3 * IntSize <= Len(b.bytes)
            /\ 2 * Len(b.bytes) <= Words => Len(b.bytes) <= b.size
<1> DEFINE name == Bytes[m.name]
           room == Bytes[m.room]
           text == TextBytes(m.text)
           length == 5 * IntSize + Len(room) + Len(text) + Len(name)
           b == WriteMessage(m)
<1>1. /\ name \in Seq(Nat) /\ room \in Seq(Nat) /\ text \in Seq(Nat)
      /\ m.type \in {"LOGIN", "JOIN", "LEAVE", "SEND", "RECIEVE"}
      /\ m.type = "LOGIN" => b = OneField(0, name)
      /\ m.type = "JOIN" => b = OneField(1, room)
      /\ m.type = "LEAVE" => b = OneField(2, room)
      /\ m.type = "SEND" => b = TwoFields(3, room, text)
      /\ m.type = "RECIEVE" => b = ThreeFields(length, 4, name, room, text)
  BY WriteCases
<1> HIDE DEF name, room, text, b
<1>2. Len(name) \in Nat /\ Len(room) \in Nat /\ Len(text) \in Nat /\ length \in Nat
  BY <1>1, LenProperties, Sizes
<1> HIDE DEF length
<1> DEFINE Fits(x) == 2 * Len(x.bytes) <= Words => Len(x.bytes) <= x.size
<1>3. ASSUME NEW code \in Nat, NEW s \in Seq(Nat)
      PROVE  LET x == OneField(code, s)
             IN x.bytes \in Seq(Nat) /\ 3 * IntSize <= Len(x.bytes) /\ Fits(x)
  <2> DEFINE x == OneField(code, s)
  <2>1. x.bytes \in Seq(Nat) /\ Len(x.bytes) = 3 * IntSize + Len(s) /\ Fits(x)
    BY OneFieldHolds
  <2> HIDE DEF x, Fits
  <2>2. 3 * IntSize <= Len(x.bytes)
    BY <2>1, LenProperties, Sizes
  <2> QED BY <2>1, <2>2 DEF x
<1>4. LET x == TwoFields(3, room, text)
      IN x.bytes \in Seq(Nat) /\ 3 * IntSize <= Len(x.bytes) /\ Fits(x)
  <2> DEFINE x == TwoFields(3, room, text)
  <2>1. x.bytes \in Seq(Nat) /\ Len(x.bytes) = 4 * IntSize + Len(room) + Len(text) /\ Fits(x)
    <3>1. 3 \in Nat
      OBVIOUS
    <3> QED BY <1>1, <3>1, TwoFieldsHold
  <2> HIDE DEF x, Fits
  <2>2. 3 * IntSize <= Len(x.bytes)
    BY <1>2, <2>1, Sizes
  <2> QED BY <2>1, <2>2 DEF x
<1>5. LET x == ThreeFields(length, 4, name, room, text)
      IN x.bytes \in Seq(Nat) /\ 3 * IntSize <= Len(x.bytes) /\ Fits(x)
  <2> DEFINE x == ThreeFields(length, 4, name, room, text)
  <2>1. /\ x.bytes \in Seq(Nat) /\ Len(x.bytes) = 5 * IntSize + Len(name) + Len(room) + Len(text)
        /\ Fits(x)
    <3>1. 4 \in Nat
      OBVIOUS
    <3> QED BY <1>1, <1>2, <3>1, ThreeFieldsHold
  <2> HIDE DEF x, Fits
  <2>2. 3 * IntSize <= Len(x.bytes)
    BY <1>2, <2>1, Sizes
  <2> QED BY <2>1, <2>2 DEF x
<1> HIDE DEF Fits
<1>6. b.bytes \in Seq(Nat) /\ 3 * IntSize <= Len(b.bytes) /\ Fits(b)
  <2>1. 0 \in Nat /\ 1 \in Nat /\ 2 \in Nat
    OBVIOUS
  <2>2. CASE m.type = "LOGIN"
    BY <1>1, <1>3, <2>1, <2>2, Zenon
  <2>3. CASE m.type = "JOIN"
    BY <1>1, <1>3, <2>1, <2>3, Zenon
  <2>4. CASE m.type = "LEAVE"
    BY <1>1, <1>3, <2>1, <2>4, Zenon
  <2>5. CASE m.type = "SEND"
    BY <1>1, <1>4, <2>5, Zenon
  <2>6. CASE m.type = "RECIEVE"
    BY <1>1, <1>5, <2>6, Zenon
  <2> QED BY <1>1, <2>2, <2>3, <2>4, <2>5, <2>6
<1> QED BY <1>6 DEF b, Fits

-----------------------------------------------------------------------------
(* Reading.  A number whose highest byte is a printable character is       *)
(* larger than any buffer, and the sum of the two does not overflow.       *)

LEMMA TimesRight ==
  ASSUME NEW b \in Nat, 1 <= b, NEW x \in Nat, NEW y \in Nat, b * x <= b * y
  PROVE  x <= y
OBVIOUS

LEMMA TimesSwap ==
  ASSUME NEW a \in Nat, NEW b \in Nat, NEW c \in Nat
  PROVE  a * (b * c) = b * (a * c)
OBVIOUS

LEMMA TimesLess ==
  ASSUME NEW b \in Nat, NEW x \in Nat, NEW y \in Nat, NEW l \in Nat, l < b, x < y
  PROVE  l + b * x < b * y
<1>1. b * (x + 1) <= b * y
  BY TimesMonotone
<1>2. b * (x + 1) = b * x + b
  OBVIOUS
<1> QED BY <1>1, <1>2, TimesNat

LEMMA TimesOneLess ==
  ASSUME NEW b \in Nat, NEW a \in Nat, NEW y \in Nat, a + 1 <= b
  PROVE  a * y + y <= b * y
<1>1. y * (a + 1) <= y * b
  BY TimesMonotone
<1>2. y * (a + 1) = a * y + y /\ y * b = b * y
  OBVIOUS
<1> QED BY <1>1, <1>2

IsLetter(c) == c # 0 /\ 2 * c < ByteBase

LEMMA IntOfLetter ==
  ASSUME NEW bs \in Seq(Nat), Len(bs) = IntSize,
         \A k \in 1 .. IntSize : bs[k] < ByteBase, IsLetter(bs[IntSize]),
         NEW x \in Nat, ByteBase * x <= Words
  PROVE  IntOf(bs) \in Nat /\ x <= IntOf(bs) /\ IntOf(bs) + x < Words
<1>1. IntOf(bs) \in Nat /\ Words <= ByteBase * IntOf(bs)
  BY IntOfBytes DEF IsLetter
<1>2. x <= IntOf(bs)
  <2>1. ByteBase * x <= ByteBase * IntOf(bs)
    <3>1. ByteBase * x \in Nat /\ ByteBase * IntOf(bs) \in Nat /\ Words \in Nat
      BY <1>1, Sizes, WordsType, TimesNat
    <3> QED BY <1>1, <3>1
  <2>2. ByteBase \in Nat /\ 1 <= ByteBase
    BY Sizes
  <2> QED BY <1>1, <2>1, <2>2, TimesRight, Zenon
<1>3. bs \in Seq(Int)
  BY SeqMonotonic
<1>4. PICK f \in [Nat -> Int] :
        /\ f[0] = 0 /\ \A k \in 0 .. IntSize - 1 : f[k + 1] = bs[IntSize - k] + ByteBase * f[k]
        /\ IntOf(bs) = f[IntSize]
  BY <1>3, IntOfFolded
<1>5. PICK p \in [Nat -> Nat] :
        p[0] = 1 /\ (\A k \in Nat : p[k + 1] = ByteBase * p[k]) /\ Words = p[IntSize]
  BY WordsPower
<1>6. ASSUME NEW k \in 1 .. IntSize PROVE bs[k] \in Nat
  BY <1>6, ElementOfSeq
<1> DEFINE top == bs[IntSize] + 1
           I == {k \in Nat : k < IntSize => f[k + 1] \in Nat /\ f[k + 1] < top * p[k]}
<1>a. PICK c \in Nat : c = bs[IntSize]
  <2>1. IntSize \in 1 .. IntSize
    BY Sizes
  <2> QED BY <1>6, <2>1
<1>7. top \in Nat /\ c < top /\ top = c + 1
  <2>1. top = c + 1
    BY <1>a, Zenon
  <2> HIDE DEF top, I
  <2> QED BY <2>1
<1> HIDE DEF top
<1>8. 0 \in I
  <2>1. 0 \in 0 .. IntSize - 1 /\ IntSize - 0 = IntSize /\ IntSize \in 1 .. IntSize
    BY Sizes
  <2>2. f[0 + 1] = bs[IntSize] + ByteBase * f[0] /\ f[0] = 0 /\ bs[IntSize] \in Nat
    BY <1>4, <1>6, <2>1
  <2>3. ByteBase * 0 = 0 /\ top * 1 = top
    BY <1>7, Sizes
  <2>4. f[0 + 1] = bs[IntSize] /\ f[0 + 1] < top
    <3>1. f[0 + 1] = bs[IntSize] + 0
      BY <2>2, <2>3, Zenon
    <3>2. c + 0 = c
      OBVIOUS
    <3> QED BY <1>a, <1>7, <3>1, <3>2, Zenon
  <2>5. top * p[0] = top
    BY <1>5, <2>3
  <2> QED BY <2>2, <2>4, <2>5
<1>9. ASSUME NEW k \in I PROVE k + 1 \in I
  <2>1. SUFFICES ASSUME k + 1 < IntSize
                 PROVE  f[(k + 1) + 1] \in Nat /\ f[(k + 1) + 1] < top * p[k + 1]
    OBVIOUS
  <2>2. k \in Nat /\ k + 1 \in 0 .. IntSize - 1 /\ k < IntSize /\ IntSize - (k + 1) \in 1 .. IntSize
    BY <2>1, Sizes
  <2>3. f[k + 1] \in Nat /\ f[k + 1] < top * p[k] /\ p[k] \in Nat
    BY <1>9, <2>2
  <2>4. /\ f[(k + 1) + 1] = bs[IntSize - (k + 1)] + ByteBase * f[k + 1]
        /\ bs[IntSize - (k + 1)] \in Nat /\ bs[IntSize - (k + 1)] < ByteBase
    BY <1>4, <1>6, <2>2
  <2>5. p[k + 1] = ByteBase * p[k]
    BY <1>5, <2>2
  <2>6. top * (ByteBase * p[k]) = ByteBase * (top * p[k])
    BY <1>7, <2>3, Sizes, TimesSwap
  <2>7. PICK y \in Nat : y = top * p[k]
    BY <1>7, <2>3, TimesNat
  <2>8. PICK z \in Nat, l \in Nat : z = f[k + 1] /\ l = bs[IntSize - (k + 1)]
    BY <2>3, <2>4
  <2>9. l + ByteBase * z < ByteBase * y
    <3>1. ByteBase \in Nat /\ l < ByteBase /\ z < y
      BY <2>3, <2>4, <2>7, <2>8, Sizes
    <3> QED BY <3>1, TimesLess
  <2>10. l + ByteBase * z \in Nat
    <3>1. ByteBase \in Nat
      BY Sizes
    <3>2. ByteBase * z \in Nat
      BY <3>1, TimesNat, Zenon
    <3> QED BY <3>2, PlusNat, Zenon
  <2> HIDE DEF I
  <2> QED BY <2>4, <2>5, <2>6, <2>7, <2>8, <2>9, <2>10, Zenon
<1>10. I = Nat
  <2> HIDE DEF I
  <2>1. I \subseteq Nat
    BY DEF I
  <2> QED BY <1>8, <1>9, <2>1, SetInduction
<1>11. IntSize - 1 \in I /\ IntSize - 1 \in Nat /\ (IntSize - 1) + 1 = IntSize /\ IntSize - 1 < IntSize
  <2> HIDE DEF I
  <2> QED BY <1>10, Sizes
<1>12. IntOf(bs) < top * p[IntSize - 1] /\ p[IntSize - 1] \in Nat /\ Words = ByteBase * p[IntSize - 1]
  BY <1>4, <1>5, <1>11
<1> HIDE DEF I
<1>13. PICK y \in Nat : y = p[IntSize - 1]
  BY <1>12
<1>14. top + 1 <= ByteBase
  <2>1. bs[IntSize] \in Nat /\ bs[IntSize] # 0 /\ 2 * bs[IntSize] < ByteBase
    BY <1>6, Sizes DEF IsLetter
  <2> QED BY <2>1, Sizes, SMTT(30) DEF top
<1>15. top * y + y <= ByteBase * y
  BY <1>7, <1>14, Sizes, TimesOneLess
<1>16. x <= y
  <2>1. ByteBase * x <= ByteBase * y
    BY <1>12, <1>13
  <2> QED BY <2>1, Sizes, TimesRight
<1>17. top * y \in Nat /\ ByteBase * y \in Nat
  BY <1>7, Sizes, TimesNat
<1>18. IntOf(bs) + x < Words
  <2>1. PICK u \in Nat, w \in Nat : u = top * y /\ w = ByteBase * y
    BY <1>17
  <2>2. IntOf(bs) < u /\ u + y <= w /\ x <= y /\ w = Words
    BY <1>12, <1>13, <1>15, <1>16, <2>1
  <2> QED BY <1>1, <2>2
<1> QED BY <1>1, <1>2, <1>18

(* d has the bytes w from index r on, unless it ends before.               *)
Agrees(d, r, w) == \A k \in 1 .. Len(w) : r + k <= Len(d) => d[r + k] = w[k]

LEMMA AgreesParts ==
  ASSUME NEW d \in Seq(Nat), NEW r \in Nat, NEW x \in Seq(Nat), NEW w \in Seq(Nat),
         Agrees(d, r, x \o w)
  PROVE  Agrees(d, r, x) /\ Agrees(d, r + Len(x), w)
<1>1. /\ Len(x) \in Nat /\ Len(w) \in Nat /\ Len(d) \in Nat /\ Len(x \o w) = Len(x) + Len(w)
      /\ \A i \in 1 .. Len(x) + Len(w) : (x \o w)[i] = IF i <= Len(x) THEN x[i] ELSE w[i - Len(x)]
  BY LenProperties, ConcatProperties
<1>2. \A k \in 1 .. Len(x) + Len(w) : r + k <= Len(d) => d[r + k] = (x \o w)[k]
  BY <1>1 DEF Agrees
<1>3. ASSUME NEW k \in 1 .. Len(x), r + k <= Len(d) PROVE d[r + k] = x[k]
  <2>1. k \in 1 .. Len(x) + Len(w) /\ k <= Len(x)
    BY <1>1
  <2> QED BY <1>1, <1>2, <1>3, <2>1
<1>4. ASSUME NEW k \in 1 .. Len(w), (r + Len(x)) + k <= Len(d) PROVE d[(r + Len(x)) + k] = w[k]
  <2>1. /\ Len(x) + k \in 1 .. Len(x) + Len(w) /\ ~ (Len(x) + k <= Len(x))
        /\ (Len(x) + k) - Len(x) = k /\ r + (Len(x) + k) = (r + Len(x)) + k
    BY <1>1
  <2> QED BY <1>1, <1>2, <1>4, <2>1
<1> QED BY <1>3, <1>4 DEF Agrees

LEMMA AgreesWhole ==
  ASSUME NEW d \in Seq(Nat), NEW r \in Nat, NEW w \in Seq(Nat), Agrees(d, r, w),
         r + Len(w) <= Len(d)
  PROVE  SubSeq(d, r + 1, r + Len(w)) = w
<1>1. Len(w) \in Nat /\ Len(d) \in Nat
  BY LenProperties
<1> DEFINE v == SubSeq(d, r + 1, r + Len(w))
<1>2. /\ v \in Seq(Nat) /\ Len(v) = Len(w)
      /\ \A i \in 1 .. Len(w) : v[i] = d[r + i]
  <2>1. /\ v \in Seq(Nat)
        /\ Len(v) = IF r + 1 <= r + Len(w) THEN (r + Len(w)) - (r + 1) + 1 ELSE 0
        /\ \A i \in 1 .. (r + Len(w)) - (r + 1) + 1 : v[i] = d[(r + 1) + i - 1]
    BY <1>1, SubSeqProperties, SMTT(30)
  <2>2. (r + Len(w)) - (r + 1) + 1 = Len(w) /\ (r + 1 <= r + Len(w) <=> Len(w) # 0)
    BY <1>1
  <2>3. ASSUME NEW i \in 1 .. Len(w) PROVE (r + 1) + i - 1 = r + i
    BY <1>1
  <2> HIDE DEF v
  <2> QED BY <2>1, <2>2, <2>3
<1>3. ASSUME NEW i \in 1 .. Len(w) PROVE v[i] = w[i]
  <2>1. r + i <= Len(d)
    BY <1>1
  <2> HIDE DEF v
  <2> QED BY <1>2, <2>1 DEF Agrees
<1> HIDE DEF v
<1>4. v = w
  BY <1>2, <1>3, SeqEqual
<1> QED BY <1>4 DEF v

LEMMA ReadIntWhole ==
  ASSUME NEW d \in Seq(Nat), NEW r \in Nat, NEW n \in Nat, n < Words,
         Agrees(d, r, IntBytes(n)), r + IntSize <= Len(d), Len(d) < Words
  PROVE  ReadInt(d, r) = [result |-> n, at |-> r + IntSize]
<1>1. IntBytes(n) \in Seq(Nat) /\ Len(IntBytes(n)) = IntSize
  BY IntBytesType
<1>2. SubSeq(d, r + 1, r + IntSize) = IntBytes(n)
  BY <1>1, AgreesWhole
<1>3. (r + IntSize) % Words = r + IntSize
  <2>1. r + IntSize \in Nat /\ r + IntSize < Words /\ Words \in Nat
    BY Sizes, WordsType, LenProperties
  <2> QED BY <2>1, ModBelow
<1>4. ~ (Len(d) < (r + IntSize) % Words)
  BY <1>3, Sizes, LenProperties
<1>5. IntOf(IntBytes(n)) = n
  BY IntIsReadBack
<1> QED BY <1>2, <1>4, <1>5 DEF ReadInt

LEMMA ReadIntShort ==
  ASSUME NEW d \in Seq(Nat), NEW r \in Nat, Len(d) < r + IntSize, r + IntSize < Words
  PROVE  ReadInt(d, r) = [result |-> 0, at |-> r]
<1>1. (r + IntSize) % Words = r + IntSize
  <2>1. r + IntSize \in Nat /\ r + IntSize < Words /\ Words \in Nat
    BY Sizes, WordsType
  <2> QED BY <2>1, ModBelow
<1> QED BY <1>1 DEF ReadInt

LEMMA ReadStringWhole ==
  ASSUME NEW d \in Seq(Nat), NEW r \in Nat, NEW s \in Seq(Nat),
         Agrees(d, r, s), r + Len(s) <= Len(d), Len(d) < Words
  PROVE  ReadString(d, r, Len(s)) = [result |-> s, at |-> r + Len(s)]
<1>1. Len(s) \in Nat /\ Len(d) \in Nat
  BY LenProperties
<1>2. (r + Len(s)) % Words = r + Len(s)
  <2>1. r + Len(s) \in Nat /\ r + Len(s) < Words /\ Words \in Nat
    BY <1>1, WordsType
  <2> QED BY <2>1, ModBelow
<1>3. ~ (Len(d) < (r + Len(s)) % Words) /\ r + Len(s) <= Len(d)
  BY <1>1, <1>2
<1>4. SubSeq(d, r + 1, r + Len(s)) = s
  BY AgreesWhole
<1> QED BY <1>3, <1>4 DEF ReadString

LEMMA ReadStringShort ==
  ASSUME NEW d \in Seq(Nat), NEW r \in Nat, NEW n \in Nat, Len(d) < r + n, r + n < Words
  PROVE  ReadString(d, r, n) = [result |-> << >>, at |-> r]
<1>1. (r + n) % Words = r + n
  <2>1. r + n \in Nat /\ Words \in Nat
    BY WordsType
  <2> QED BY <2>1, ModBelow
<1> QED BY <1>1 DEF ReadString

LEMMA ReadStringEmpty ==
  ASSUME NEW d \in Seq(Nat), NEW r \in Nat, r <= Len(d), Len(d) < Words
  PROVE  ReadString(d, r, 0) = [result |-> << >>, at |-> r]
<1>1. Agrees(d, r, << >>)
  BY DEF Agrees
<1>2. << >> \in Seq(Nat) /\ Len(<< >>) = 0 /\ r + 0 = r
  OBVIOUS
<1>3. ReadString(d, r, Len(<< >>)) = [result |-> << >>, at |-> r + Len(<< >>)]
  BY <1>1, <1>2, ReadStringWhole
<1> QED BY <1>2, <1>3

LEMMA ReadFieldWhole ==
  ASSUME NEW d \in Seq(Nat), NEW r \in Nat, NEW s \in Seq(Nat),
         Agrees(d, r, FieldBytes(s)), (r + IntSize) + Len(s) <= Len(d), Len(d) < Words
  PROVE  ReadField(d, r) = [result |-> s, at |-> (r + IntSize) + Len(s)]
<1>1. Len(s) \in Nat /\ Len(d) \in Nat
  BY LenProperties
<1>2. IntBytes(Len(s)) \in Seq(Nat) /\ Len(IntBytes(Len(s))) = IntSize
  BY <1>1, IntBytesType
<1>3. Agrees(d, r, IntBytes(Len(s))) /\ Agrees(d, r + IntSize, s)
  BY <1>2, AgreesParts DEF FieldBytes
<1>4. Len(s) < Words /\ r + IntSize <= Len(d) /\ r + IntSize \in Nat
  BY <1>1, Sizes, WordsType
<1>5. ReadInt(d, r) = [result |-> Len(s), at |-> r + IntSize]
  BY <1>1, <1>3, <1>4, ReadIntWhole
<1>6. ReadString(d, r + IntSize, Len(s)) = [result |-> s, at |-> (r + IntSize) + Len(s)]
  BY <1>3, <1>4, ReadStringWhole
<1> QED BY <1>5, <1>6 DEF ReadField

(* Where nothing but characters follows, every field is read as empty.     *)
Dead(d, r) ==
  /\ r \in 0 .. Len(d)
  /\ Len(d) < r + IntSize \/ \A k \in r + 1 .. Len(d) : IsLetter(d[k])

LEMMA ReadFieldLetters ==
  ASSUME NEW d \in Seq(Nat), NEW r \in Nat, r + IntSize <= Len(d), ByteBase * Len(d) <= Words,
         \A k \in 1 .. IntSize : d[r + k] < ByteBase, IsLetter(d[r + IntSize])
  PROVE  ReadField(d, r) = [result |-> << >>, at |-> r + IntSize]
<1>1. Len(d) \in Nat
  BY LenProperties
<1>2. Len(d) < Words
  <2>1. PICK l \in Nat : l = Len(d) /\ 1 <= l
    BY <1>1, Sizes
  <2>2. l < ByteBase * l
    <3>1. l * 2 <= l * ByteBase /\ l * ByteBase = ByteBase * l
      BY <2>1, Sizes, TimesMonotone
    <3>2. l < l * 2
      BY <2>1
    <3> QED BY <3>1, <3>2, Sizes, TimesNat
  <2>3. PICK w \in Nat : w = ByteBase * l
    BY Sizes, TimesNat
  <2> QED BY <2>1, <2>2, <2>3, WordsType
<1> DEFINE bs == SubSeq(d, r + 1, r + IntSize)
<1>3. bs \in Seq(Nat) /\ Len(bs) = IntSize /\ \A k \in 1 .. IntSize : bs[k] = d[r + k]
  <2>1. /\ bs \in Seq(Nat)
        /\ Len(bs) = IF r + 1 <= r + IntSize THEN (r + IntSize) - (r + 1) + 1 ELSE 0
        /\ \A i \in 1 .. (r + IntSize) - (r + 1) + 1 : bs[i] = d[(r + 1) + i - 1]
    BY <1>1, Sizes, SubSeqProperties
  <2>2. (r + IntSize) - (r + 1) + 1 = IntSize /\ r + 1 <= r + IntSize
    BY Sizes
  <2>3. ASSUME NEW i \in 1 .. IntSize PROVE (r + 1) + i - 1 = r + i
    BY Sizes
  <2> HIDE DEF bs
  <2> QED BY <2>1, <2>2, <2>3
<1> DEFINE n == IntOf(bs)
<1>4. n \in Nat /\ Len(d) <= n /\ n + Len(d) < Words
  <2>1. IntSize \in 1 .. IntSize
    BY Sizes
  <2>2. (\A k \in 1 .. IntSize : bs[k] < ByteBase) /\ IsLetter(bs[IntSize])
    <3> HIDE DEF bs
    <3> QED BY <1>3, <2>1
  <2> HIDE DEF bs
  <2> QED BY <1>1, <1>3, <2>2, IntOfLetter
<1>5. ReadInt(d, r) = [result |-> n, at |-> r + IntSize]
  <2>1. (r + IntSize) % Words = r + IntSize
    <3>1. r + IntSize \in Nat /\ r + IntSize < Words /\ Words \in Nat
      BY <1>1, <1>2, Sizes, WordsType
    <3> QED BY <3>1, ModBelow
  <2>2. ~ (Len(d) < (r + IntSize) % Words)
    BY <1>1, <2>1, Sizes
  <2> QED BY <2>2 DEF ReadInt
<1> HIDE DEF n, bs
<1>6. ReadString(d, r + IntSize, n) = [result |-> << >>, at |-> r + IntSize]
  <2>1. PICK l \in Nat, i \in Nat : l = Len(d) /\ i = IntSize /\ 1 <= i
    BY <1>1, Sizes
  <2>2. r + i \in Nat /\ l < (r + i) + n /\ (r + i) + n < Words
    BY <1>4, <2>1, WordsType
  <2> QED BY <1>4, <2>1, <2>2, ReadStringShort
<1> QED BY <1>5, <1>6 DEF ReadField

LEMMA ReadFieldShort ==
  ASSUME NEW d \in Seq(Nat), NEW r \in Nat, r <= Len(d), Len(d) < r + IntSize, r + IntSize < Words
  PROVE  ReadField(d, r) = [result |-> << >>, at |-> r]
<1>1. ReadInt(d, r) = [result |-> 0, at |-> r]
  BY ReadIntShort
<1>2. Len(d) < Words
  BY LenProperties, Sizes, WordsType
<1>3. ReadString(d, r, 0) = [result |-> << >>, at |-> r]
  BY <1>2, ReadStringEmpty
<1> QED BY <1>1, <1>3 DEF ReadField

LEMMA ReadFieldDead ==
  ASSUME NEW d \in Seq(Nat), NEW r \in Nat, Dead(d, r), ByteBase * Len(d) <= Words,
         r + IntSize < Words
  PROVE  LET f == ReadField(d, r)
         IN /\ f.result = << >> /\ f.at \in Nat /\ Dead(d, f.at)
            /\ f.at \in {r, r + IntSize} /\ f.at <= Len(d)
<1>1. Len(d) \in Nat /\ r <= Len(d)
  BY LenProperties DEF Dead
<1>2. CASE Len(d) < r + IntSize
  <2>1. ReadField(d, r) = [result |-> << >>, at |-> r]
    BY <1>1, <1>2, ReadFieldShort
  <2> QED BY <1>1, <2>1
<1>3. CASE r + IntSize <= Len(d)
  <2>1. \A k \in r + 1 .. Len(d) : IsLetter(d[k])
    BY <1>1, <1>3, Sizes DEF Dead
  <2>2. r + IntSize \in r + 1 .. Len(d)
    BY <1>1, <1>3, Sizes
  <2>3. ASSUME NEW k \in 1 .. IntSize PROVE d[r + k] < ByteBase
    <3>1. r + k \in r + 1 .. Len(d) /\ r + k \in 1 .. Len(d)
      BY <1>1, <1>3, Sizes
    <3>2. PICK c \in Nat : c = d[r + k]
      BY <3>1, ElementOfSeq
    <3>3. 2 * c < ByteBase
      BY <2>1, <3>1, <3>2 DEF IsLetter
    <3> QED BY <3>2, <3>3, Sizes
  <2>4. ReadField(d, r) = [result |-> << >>, at |-> r + IntSize]
    BY <1>3, <2>1, <2>2, <2>3, ReadFieldLetters
  <2>5. \A k \in (r + IntSize) + 1 .. Len(d) : k \in r + 1 .. Len(d)
    BY <1>1, Sizes
  <2>6. Dead(d, r + IntSize)
    BY <1>1, <1>3, <2>1, <2>5, Sizes DEF Dead
  <2>7. r + IntSize \in Nat
    BY Sizes
  <2> QED BY <1>3, <2>4, <2>6, <2>7
<1> QED BY <1>1, <1>2, <1>3, Sizes

(* A field that the data end in is read as empty, and so is what would     *)
(* follow a string of characters.                                          *)
LEMMA ReadFieldCut ==
  ASSUME NEW d \in Seq(Nat), NEW r \in Nat, NEW s \in Seq(Nat),
         Agrees(d, r, FieldBytes(s)), r <= Len(d), Len(d) < (r + IntSize) + Len(s),
         (r + IntSize) + Len(s) < Words
  PROVE  LET f == ReadField(d, r)
         IN /\ f.result = << >> /\ f.at \in Nat /\ f.at <= Len(d) /\ f.at \in {r, r + IntSize}
            /\ (\A k \in 1 .. Len(s) : IsLetter(s[k])) => Dead(d, f.at)
<1>1. Len(d) \in Nat /\ Len(s) \in Nat
  BY LenProperties
<1>2. CASE Len(d) < r + IntSize
  <2>1. r + IntSize < Words
    BY <1>1, Sizes, WordsType
  <2>2. ReadField(d, r) = [result |-> << >>, at |-> r]
    BY <1>2, <2>1, ReadFieldShort
  <2>3. Dead(d, r)
    BY <1>1, <1>2 DEF Dead
  <2> QED BY <2>2, <2>3
<1>3. CASE r + IntSize <= Len(d)
  <2>1. IntBytes(Len(s)) \in Seq(Nat) /\ Len(IntBytes(Len(s))) = IntSize
    BY <1>1, IntBytesType
  <2>2. Agrees(d, r, IntBytes(Len(s))) /\ Agrees(d, r + IntSize, s)
    BY <2>1, AgreesParts DEF FieldBytes
  <2>3. Len(s) < Words /\ Len(d) < Words /\ r + IntSize \in Nat
    BY <1>1, Sizes, WordsType
  <2>4. ReadInt(d, r) = [result |-> Len(s), at |-> r + IntSize]
    BY <1>1, <1>3, <2>2, <2>3, ReadIntWhole
  <2>5. ReadString(d, r + IntSize, Len(s)) = [result |-> << >>, at |-> r + IntSize]
    BY <1>1, <2>3, ReadStringShort
  <2>6. ReadField(d, r) = [result |-> << >>, at |-> r + IntSize]
    BY <2>4, <2>5 DEF ReadField
  <2>7. ASSUME \A k \in 1 .. Len(s) : IsLetter(s[k]) PROVE Dead(d, r + IntSize)
    <3>1. ASSUME NEW k \in (r + IntSize) + 1 .. Len(d) PROVE IsLetter(d[k])
      <4>1. PICK i \in Nat : i = IntSize
        BY Sizes
      <4>2. /\ k - (r + IntSize) \in 1 .. Len(s) /\ (r + IntSize) + (k - (r + IntSize)) = k
            /\ (r + IntSize) + (k - (r + IntSize)) <= Len(d)
        BY <1>1, <4>1
      <4>3. d[(r + IntSize) + (k - (r + IntSize))] = s[k - (r + IntSize)]
        BY <2>2, <4>2 DEF Agrees
      <4> QED BY <2>7, <4>2, <4>3
    <3> QED BY <1>1, <1>3, <2>3, <3>1 DEF Dead
  <2> QED BY <1>3, <2>3, <2>6, <2>7
<1> QED BY <1>1, <1>2, <1>3, Sizes

-----------------------------------------------------------------------------
(* What readMessage makes of a message, of the first bytes of one, and of  *)
(* bytes that begin inside one.                                            *)

(* The header.                                                             *)
LEMMA HeaderRead ==
  ASSUME NEW d \in Seq(Nat), NEW length \in Nat, length < Words, NEW code \in Nat, code < Words,
         Agrees(d, 0, HeaderBytes(length, code)), 2 * IntSize <= Len(d), Len(d) < Words
  PROVE  LET l == ReadInt(d, 0) IN ReadInt(d, l.at) = [result |-> code, at |-> 2 * IntSize]
<1>1. IntBytes(length) \in Seq(Nat) /\ Len(IntBytes(length)) = IntSize /\ IntBytes(code) \in Seq(Nat)
  BY IntBytesType
<1>2. Agrees(d, 0, IntBytes(length)) /\ Agrees(d, 0 + IntSize, IntBytes(code))
  <2>1. 0 \in Nat
    OBVIOUS
  <2> QED BY <1>1, <2>1, AgreesParts DEF HeaderBytes
<1>3. PICK i \in Nat : i = IntSize /\ 0 + IntSize = i /\ i + i = 2 * i /\ 0 + i = i
  BY Sizes
<1>4. Len(d) \in Nat
  BY LenProperties
<1>5. 0 + IntSize <= Len(d) /\ i + IntSize <= Len(d) /\ i + IntSize = 2 * IntSize
  BY <1>3, <1>4
<1>6. ReadInt(d, 0) = [result |-> length, at |-> 0 + IntSize]
  BY <1>2, <1>5, ReadIntWhole
<1>7. ReadInt(d, i) = [result |-> code, at |-> i + IntSize]
  BY <1>2, <1>3, <1>5, ReadIntWhole
<1> QED BY <1>3, <1>5, <1>6, <1>7

(* Fewer bytes than a header has are a login without a name.               *)
EmptyLogin == [type |-> "LOGIN", name |-> << >>, room |-> << >>, text |-> << >>]

LEMMA DecodeShort ==
  ASSUME NEW d \in Seq(Nat), Len(d) < 2 * IntSize, 3 * IntSize <= Words
  PROVE  Decode(d) = EmptyLogin
<1>1. PICK i \in Nat, n \in Nat : i = IntSize /\ n = Len(d) /\ 1 <= i
  BY Sizes, LenProperties
<1>2. PICK w \in Nat : w = Words
  BY WordsType
<1>3. n < 2 * i /\ 3 * i <= w
  BY <1>1, <1>2
<1> DEFINE l == ReadInt(d, 0)
           t == ReadInt(d, l.at)
           f == ReadField(d, t.at)
<1>4. \E a \in Nat : l.at = a /\ a <= n /\ n < a + i /\ a + i < w
  <2>1. CASE n < i
    <3>1. 0 + IntSize < Words /\ Len(d) < 0 + IntSize /\ 0 \in Nat
      BY <1>1, <1>2, <1>3, <2>1
    <3>2. l = [result |-> 0, at |-> 0]
      BY <3>1, ReadIntShort
    <3> HIDE DEF l
    <3> QED BY <1>1, <1>3, <2>1, <3>2
  <2>2. CASE i <= n
    <3>1. l.at = 0 + IntSize
      <4>1. (0 + IntSize) % Words = 0 + IntSize
        <5>1. 0 + IntSize \in Nat /\ 0 + IntSize < Words /\ Words \in Nat
          BY <1>1, <1>2, <1>3
        <5> QED BY <5>1, ModBelow
      <4>2. ~ (Len(d) < (0 + IntSize) % Words)
        BY <1>1, <2>2, <4>1
      <4> QED BY <4>2 DEF ReadInt
    <3> HIDE DEF l
    <3>2. l.at = i
      BY <1>1, <3>1
    <3> QED BY <1>1, <1>3, <2>2, <3>2
  <2> QED BY <1>1, <2>1, <2>2
<1> HIDE DEF l
<1>5. PICK a \in Nat : l.at = a /\ a <= n /\ n < a + i /\ a + i < w
  BY <1>4
<1>6. a <= Len(d) /\ Len(d) < a + IntSize /\ a + IntSize < Words
  BY <1>1, <1>2, <1>5
<1>7. t = [result |-> 0, at |-> a]
  BY <1>5, <1>6, ReadIntShort
<1> HIDE DEF t
<1>8. f = [result |-> << >>, at |-> a]
  BY <1>6, <1>7, ReadFieldShort
<1> HIDE DEF f
<1> QED BY <1>7, <1>8 DEF Decode, EmptyLogin, f, t, l

Letters(s) == \A k \in 1 .. Len(s) : IsLetter(s[k])

(* Two fields, and three, from index r on.                                 *)
LEMMA TwoRead ==
  ASSUME NEW d \in Seq(Nat), NEW r \in Nat, r <= Len(d), ByteBase * Len(d) <= Words,
         NEW s \in Seq(Nat), NEW t \in Seq(Nat), Letters(s), NEW q \in Nat,
         q = (r + IntSize) + Len(s), (q + IntSize) + Len(t) < Words,
         Agrees(d, r, FieldBytes(s)), Agrees(d, q, FieldBytes(t))
  PROVE  LET first  == ReadField(d, r)
             second == ReadField(d, first.at)
         IN \/ /\ (q + IntSize) + Len(t) <= Len(d) /\ first.result = s
               /\ second = [result |-> t, at |-> (q + IntSize) + Len(t)]
            \/ /\ Len(d) < (q + IntSize) + Len(t) /\ second.result = << >>
               /\ \/ q <= Len(d) /\ first.result = s
                  \/ Len(d) < q /\ first.result = << >>
               /\ (Letters(t) \/ Len(d) < q) => Dead(d, second.at)
               /\ second.at \in Nat /\ second.at <= Len(d) /\ second.at <= q + IntSize
<1> DEFINE first == ReadField(d, r)
           second == ReadField(d, first.at)
<1>1. PICK i \in Nat, j \in Nat, k \in Nat, l \in Nat, w \in Nat :
        i = IntSize /\ j = Len(s) /\ k = Len(t) /\ l = Len(d) /\ w = Words
  BY LenProperties, Sizes, WordsType
<1>2. r <= l /\ q = (r + i) + j /\ (q + i) + k < w
  BY <1>1
<1>3. CASE l < q
  <2>1. Len(d) < (r + IntSize) + Len(s) /\ (r + IntSize) + Len(s) < Words
    BY <1>1, <1>2, <1>3
  <2>2. /\ first.result = << >> /\ first.at \in Nat /\ first.at <= Len(d)
        /\ first.at \in {r, r + IntSize} /\ Dead(d, first.at)
    BY <2>1, ReadFieldCut DEF Letters
  <2> HIDE DEF first
  <2>3. first.at + IntSize < Words
    BY <1>1, <1>2, <1>3, <2>2
  <2>4. /\ second.result = << >> /\ second.at \in Nat /\ Dead(d, second.at)
        /\ second.at \in {first.at, first.at + IntSize} /\ second.at <= Len(d)
    BY <2>2, <2>3, ReadFieldDead
  <2> HIDE DEF second
  <2>5. Len(d) < (q + IntSize) + Len(t) /\ Len(d) < q /\ second.at <= q + IntSize
    BY <1>1, <1>2, <1>3, <2>4
  <2> QED BY <2>2, <2>4, <2>5 DEF first, second
<1>4. CASE q <= l
  <2>1. (r + IntSize) + Len(s) <= Len(d) /\ Len(d) < Words
    <3>1. l < w
      <4>1. CASE l = 0
        BY <1>2, <4>1
      <4>2. CASE l # 0
        <5>1. l * 2 <= l * ByteBase /\ l * ByteBase = ByteBase * l
          BY Sizes, TimesMonotone
        <5>2. l < l * 2
          BY <4>2
        <5>3. PICK y \in Nat : y = ByteBase * l
          BY Sizes, TimesNat
        <5> QED BY <1>1, <5>1, <5>2, <5>3
      <4> QED BY <4>1, <4>2
    <3> QED BY <1>1, <1>2, <1>4, <3>1
  <2>2. first = [result |-> s, at |-> q]
    BY <2>1, ReadFieldWhole
  <2> HIDE DEF first
  <2>3. CASE (q + i) + k <= l
    <3>1. (q + IntSize) + Len(t) <= Len(d)
      BY <1>1, <2>3
    <3>2. ReadField(d, q) = [result |-> t, at |-> (q + IntSize) + Len(t)]
      BY <2>1, <3>1, ReadFieldWhole
    <3> QED BY <2>2, <3>1, <3>2 DEF first
  <2>4. CASE l < (q + i) + k
    <3>1. Len(d) < (q + IntSize) + Len(t) /\ q <= Len(d) /\ ~ (Len(d) < q)
      BY <1>1, <1>4, <2>4
    <3> DEFINE f == ReadField(d, q)
    <3>2. /\ f.result = << >> /\ f.at \in Nat /\ f.at <= Len(d) /\ f.at \in {q, q + IntSize}
          /\ Letters(t) => Dead(d, f.at)
      BY <3>1, ReadFieldCut DEF Letters
    <3>3. second = f
      BY <2>2
    <3> HIDE DEF f, second
    <3>4. f.at <= q + IntSize
      <4>1. PICK a \in Nat : a = f.at
        BY <3>2
      <4>2. a = q \/ a = q + i
        BY <1>1, <3>2, <4>1
      <4> QED BY <1>1, <4>1, <4>2
    <3> QED BY <2>2, <3>1, <3>2, <3>3, <3>4 DEF first, second
  <2> QED BY <1>1, <1>2, <2>3, <2>4
<1> QED BY <1>1, <1>2, <1>3, <1>4

LEMMA ThreeRead ==
  ASSUME NEW d \in Seq(Nat), NEW r \in Nat, r <= Len(d), ByteBase * Len(d) <= Words,
         NEW s \in Seq(Nat), NEW t \in Seq(Nat), NEW u \in Seq(Nat), Letters(s), Letters(t),
         NEW q \in Nat, q = (r + IntSize) + Len(s), NEW v \in Nat, v = (q + IntSize) + Len(t),
         (v + IntSize) + Len(u) < Words, Len(d) < Words,
         Agrees(d, r, FieldBytes(s)), Agrees(d, q, FieldBytes(t)), Agrees(d, v, FieldBytes(u))
  PROVE  LET first  == ReadField(d, r)
             second == ReadField(d, first.at)
             third  == ReadField(d, second.at)
         IN \/ /\ (v + IntSize) + Len(u) <= Len(d)
               /\ first.result = s /\ second.result = t /\ third.result = u
            \/ /\ Len(d) < (v + IntSize) + Len(u) /\ third.result = << >>
               /\ \/ first.result = s /\ second.result = t
                  \/ first.result = s /\ second.result = << >>
                  \/ first.result = << >> /\ second.result = << >>
<1> DEFINE first == ReadField(d, r)
           second == ReadField(d, first.at)
           third == ReadField(d, second.at)
<1>1. PICK i \in Nat, k \in Nat, m \in Nat, l \in Nat, w \in Nat :
        i = IntSize /\ k = Len(t) /\ m = Len(u) /\ l = Len(d) /\ w = Words
  BY LenProperties, Sizes, WordsType
<1>2. (v + i) + m < w /\ v = (q + i) + k /\ (q + IntSize) + Len(t) < Words
  BY <1>1
<1>3. \/ v <= Len(d) /\ first.result = s /\ second = [result |-> t, at |-> v]
      \/ /\ Len(d) < v /\ second.result = << >> /\ Dead(d, second.at)
         /\ first.result = s \/ first.result = << >>
         /\ second.at \in Nat /\ second.at <= Len(d) /\ second.at <= q + IntSize
  <2>1. \/ /\ (q + IntSize) + Len(t) <= Len(d) /\ first.result = s
           /\ second = [result |-> t, at |-> (q + IntSize) + Len(t)]
        \/ /\ Len(d) < (q + IntSize) + Len(t) /\ second.result = << >>
           /\ \/ q <= Len(d) /\ first.result = s
              \/ Len(d) < q /\ first.result = << >>
           /\ (Letters(t) \/ Len(d) < q) => Dead(d, second.at)
           /\ second.at \in Nat /\ second.at <= Len(d) /\ second.at <= q + IntSize
    <3> HIDE DEF first, second, third
    <3>1. /\ d \in Seq(Nat) /\ r \in Nat /\ r <= Len(d) /\ ByteBase * Len(d) <= Words
          /\ s \in Seq(Nat) /\ t \in Seq(Nat) /\ Letters(s) /\ q \in Nat
          /\ q = (r + IntSize) + Len(s) /\ (q + IntSize) + Len(t) < Words
          /\ Agrees(d, r, FieldBytes(s)) /\ Agrees(d, q, FieldBytes(t))
      BY <1>2, Zenon
    <3> QED BY <3>1, TwoRead, Zenon DEF first, second
  <2> HIDE DEF first, second
  <2> QED BY <2>1, Zenon
<1> HIDE DEF first, second
<1>4. CASE v <= Len(d) /\ first.result = s /\ second = [result |-> t, at |-> v]
  <2>1. CASE (v + IntSize) + Len(u) <= Len(d)
    <3>1. ReadField(d, v) = [result |-> u, at |-> (v + IntSize) + Len(u)]
      BY <2>1, ReadFieldWhole
    <3> QED BY <1>4, <2>1, <3>1 DEF first, second
  <2>2. CASE Len(d) < (v + IntSize) + Len(u)
    <3>1. ReadField(d, v).result = << >>
      BY <1>4, <2>2, ReadFieldCut
    <3> QED BY <1>4, <2>2, <3>1 DEF first, second
  <2>3. (v + IntSize) + Len(u) <= Len(d) \/ Len(d) < (v + IntSize) + Len(u)
    <3>1. (v + i) + m <= l \/ l < (v + i) + m
      OBVIOUS
    <3> QED BY <1>1, <3>1
  <2> QED BY <2>1, <2>2, <2>3
<1>5. CASE /\ Len(d) < v /\ second.result = << >> /\ Dead(d, second.at)
           /\ first.result = s \/ first.result = << >>
           /\ second.at \in Nat /\ second.at <= Len(d) /\ second.at <= q + IntSize
  <2>1. PICK a \in Nat : a = second.at
    BY <1>5
  <2>2. Len(d) < (v + IntSize) + Len(u) /\ a + IntSize < Words
    BY <1>1, <1>2, <1>5, <2>1
  <2>3. third.result = << >>
    BY <1>5, <2>1, <2>2, ReadFieldDead
  <2> QED BY <1>5, <2>2, <2>3 DEF first, second
<1> QED BY <1>3, <1>4, <1>5

TypeRead(d)    == ReadInt(d, ReadInt(d, 0).at)
FirstField(d)  == ReadField(d, TypeRead(d).at)
SecondField(d) == ReadField(d, FirstField(d).at)
ThirdField(d)  == ReadField(d, SecondField(d).at)
Read(t, n, r, x) == [type |-> t, name |-> n, room |-> r, text |-> x]

LEMMA DecodeCases ==
  ASSUME NEW d
  PROVE  /\ TypeRead(d).result = 0 => Decode(d) = Read("LOGIN", FirstField(d).result, << >>, << >>)
         /\ TypeRead(d).result = 1 => Decode(d) = Read("JOIN", << >>, FirstField(d).result, << >>)
         /\ TypeRead(d).result = 2 => Decode(d) = Read("LEAVE", << >>, FirstField(d).result, << >>)
         /\ TypeRead(d).result = 3 =>
              Decode(d) = Read("SEND", << >>, FirstField(d).result, SecondField(d).result)
         /\ TypeRead(d).result = 4 =>
              Decode(d) = Read("RECIEVE", FirstField(d).result, SecondField(d).result,
                               ThirdField(d).result)
         /\ TypeRead(d).result \notin 0 .. 4 => Decode(d) = Read("ERROR", << >>, << >>, << >>)
<1> DEFINE t == TypeRead(d).result
<1>1. Decode(d) =
        CASE t = 0 -> Read("LOGIN", FirstField(d).result, << >>, << >>)
          [] t = 1 -> Read("JOIN", << >>, FirstField(d).result, << >>)
          [] t = 2 -> Read("LEAVE", << >>, FirstField(d).result, << >>)
          [] t = 3 -> Read("SEND", << >>, FirstField(d).result, SecondField(d).result)
          [] t = 4 -> Read("RECIEVE", FirstField(d).result, SecondField(d).result,
                           ThirdField(d).result)
          [] OTHER -> Read("ERROR", << >>, << >>, << >>)
  BY Zenon DEF Decode, Read, TypeRead, FirstField, SecondField, ThirdField
<1> HIDE DEF t
<1>2. t \in 0 .. 4 <=> t = 0 \/ t = 1 \/ t = 2 \/ t = 3 \/ t = 4
  OBVIOUS
<1>3. /\ t = 0 => Decode(d) = Read("LOGIN", FirstField(d).result, << >>, << >>)
      /\ t = 1 => Decode(d) = Read("JOIN", << >>, FirstField(d).result, << >>)
      /\ t = 2 => Decode(d) = Read("LEAVE", << >>, FirstField(d).result, << >>)
      /\ t = 3 => Decode(d) = Read("SEND", << >>, FirstField(d).result, SecondField(d).result)
      /\ t = 4 => Decode(d) = Read("RECIEVE", FirstField(d).result, SecondField(d).result,
                                   ThirdField(d).result)
  BY <1>1
<1>4. t \notin 0 .. 4 => Decode(d) = Read("ERROR", << >>, << >>, << >>)
  BY <1>1, <1>2
<1> QED BY <1>3, <1>4 DEF t

(* The whole header has been received.                                     *)
LEMMA TypeWhole ==
  ASSUME NEW d \in Seq(Nat), ByteBase * Len(d) <= Words, 2 * IntSize <= Len(d),
         NEW length \in Nat, length < Words, NEW code \in 0 .. 4, 6 <= Words,
         NEW rest \in Seq(Nat), Agrees(d, 0, HeaderBytes(length, code) \o rest)
  PROVE  /\ TypeRead(d) = [result |-> code, at |-> 2 * IntSize]
         /\ Agrees(d, 2 * IntSize, rest) /\ Len(d) < Words
<1>1. Len(d) < Words
  <2>1. PICK l \in Nat : l = Len(d) /\ 1 <= l
    BY LenProperties, Sizes
  <2>2. l * 2 <= l * ByteBase /\ l * ByteBase = ByteBase * l
    BY Sizes, TimesMonotone
  <2>3. l < l * 2
    BY <2>1
  <2>4. PICK y \in Nat : y = ByteBase * l
    BY Sizes, TimesNat
  <2> QED BY <2>1, <2>2, <2>3, <2>4, WordsType
<1>2. IntBytes(length) \in Seq(Nat) /\ Len(IntBytes(length)) = IntSize
  BY IntBytesType
<1>3. IntBytes(code) \in Seq(Nat) /\ Len(IntBytes(code)) = IntSize
  <2>1. code \in Nat
    OBVIOUS
  <2> QED BY <2>1, IntBytesType
<1>4. HeaderBytes(length, code) \in Seq(Nat) /\ Len(HeaderBytes(length, code)) = 2 * IntSize
  <2>1. /\ IntBytes(length) \o IntBytes(code) \in Seq(Nat)
        /\ Len(IntBytes(length) \o IntBytes(code)) = IntSize + IntSize
    BY <1>2, <1>3, ConcatProperties
  <2>2. IntSize + IntSize = 2 * IntSize
    BY Sizes
  <2> QED BY <2>1, <2>2 DEF HeaderBytes
<1>5. Agrees(d, 0, HeaderBytes(length, code)) /\ Agrees(d, 0 + 2 * IntSize, rest)
  <2>1. 0 \in Nat
    OBVIOUS
  <2> QED BY <1>4, <2>1, AgreesParts
<1>6. 0 + 2 * IntSize = 2 * IntSize
  BY Sizes
<1>7. code \in Nat /\ code < Words
  BY WordsType
<1>8. ReadInt(d, ReadInt(d, 0).at) = [result |-> code, at |-> 2 * IntSize]
  BY <1>1, <1>5, <1>7, HeaderRead
<1> QED BY <1>1, <1>5, <1>6, <1>8 DEF TypeRead

(* A message with one field, or what has been received of it.              *)
LEMMA OneDecoded ==
  ASSUME NEW d \in Seq(Nat), ByteBase * Len(d) <= Words, NEW code \in 0 .. 2,
         NEW s \in Seq(Nat), 2 * (3 * IntSize + Len(s)) <= Words,
         Agrees(d, 0, OneField(code, s).bytes)
  PROVE  \/ Len(d) < 2 * IntSize /\ Decode(d) = EmptyLogin
         \/ /\ 2 * IntSize <= Len(d) /\ TypeRead(d).result = code
            /\ \/ 3 * IntSize + Len(s) <= Len(d) /\ FirstField(d).result = s
               \/ Len(d) < 3 * IntSize + Len(s) /\ FirstField(d).result = << >>
<1>1. PICK i \in Nat, j \in Nat, l \in Nat, w \in Nat :
        i = IntSize /\ j = Len(s) /\ l = Len(d) /\ w = Words /\ 1 <= i
  BY LenProperties, Sizes, WordsType
<1>2. 2 * (3 * i + j) <= w
  BY <1>1
<1>3. CASE l < 2 * i
  <2>1. Len(d) < 2 * IntSize /\ 3 * IntSize <= Words
    BY <1>1, <1>2, <1>3
  <2> QED BY <2>1, DecodeShort
<1>4. CASE 2 * i <= l
  <2>1. 2 * IntSize <= Len(d) /\ 6 <= Words
    BY <1>1, <1>2, <1>4
  <2>2. 3 * IntSize + Len(s) \in Nat /\ 3 * IntSize + Len(s) < Words /\ code \in Nat /\ code \in 0 .. 4
    BY <1>1, <1>2
  <2>3. OneField(code, s).bytes = HeaderBytes(3 * IntSize + Len(s), code) \o FieldBytes(s)
    BY <2>2, OneFieldHolds
  <2>4. FieldBytes(s) \in Seq(Nat)
    BY FieldBytesType
  <2>5. /\ TypeRead(d) = [result |-> code, at |-> 2 * IntSize]
        /\ Agrees(d, 2 * IntSize, FieldBytes(s)) /\ Len(d) < Words
    BY <2>1, <2>2, <2>3, <2>4, TypeWhole
  <2>6. PICK r \in Nat : r = 2 * IntSize
    BY <1>1
  <2>7. CASE 3 * i + j <= l
    <3>1. (r + IntSize) + Len(s) <= Len(d)
      BY <1>1, <2>6, <2>7
    <3>2. ReadField(d, r).result = s
      BY <2>5, <2>6, <3>1, ReadFieldWhole
    <3>3. 3 * IntSize + Len(s) <= Len(d)
      BY <1>1, <2>7
    <3> QED BY <2>1, <2>5, <2>6, <3>2, <3>3 DEF FirstField
  <2>8. CASE l < 3 * i + j
    <3>1. r <= Len(d) /\ Len(d) < (r + IntSize) + Len(s) /\ (r + IntSize) + Len(s) < Words
      BY <1>1, <1>2, <1>4, <2>6, <2>8
    <3>2. ReadField(d, r).result = << >>
      BY <2>5, <2>6, <3>1, ReadFieldCut
    <3>3. Len(d) < 3 * IntSize + Len(s)
      BY <1>1, <2>8
    <3> QED BY <2>1, <2>5, <2>6, <3>2, <3>3 DEF FirstField
  <2>9. 3 * i + j <= l \/ l < 3 * i + j
    OBVIOUS
  <2> QED BY <2>7, <2>8, <2>9
<1> QED BY <1>3, <1>4

(* A message with two fields.                                              *)
LEMMA TwoDecoded ==
  ASSUME NEW d \in Seq(Nat), ByteBase * Len(d) <= Words,
         NEW s \in Seq(Nat), NEW t \in Seq(Nat), Letters(s),
         2 * (4 * IntSize + Len(s) + Len(t)) <= Words,
         Agrees(d, 0, TwoFields(3, s, t).bytes)
  PROVE  \/ Len(d) < 2 * IntSize /\ Decode(d) = EmptyLogin
         \/ /\ 2 * IntSize <= Len(d) /\ TypeRead(d).result = 3
            /\ \/ /\ 4 * IntSize + Len(s) + Len(t) <= Len(d)
                  /\ FirstField(d).result = s /\ SecondField(d).result = t
               \/ /\ Len(d) < 4 * IntSize + Len(s) + Len(t) /\ SecondField(d).result = << >>
                  /\ FirstField(d).result \in {s, << >>}
<1>1. PICK i \in Nat, j \in Nat, k \in Nat, l \in Nat, w \in Nat :
        i = IntSize /\ j = Len(s) /\ k = Len(t) /\ l = Len(d) /\ w = Words /\ 1 <= i
  BY LenProperties, Sizes, WordsType
<1>2. 2 * (4 * i + j + k) <= w
  BY <1>1
<1>3. CASE l < 2 * i
  <2>1. Len(d) < 2 * IntSize /\ 3 * IntSize <= Words
    BY <1>1, <1>2, <1>3
  <2> QED BY <2>1, DecodeShort
<1>4. CASE 2 * i <= l
  <2>1. 2 * IntSize <= Len(d) /\ 6 <= Words
    BY <1>1, <1>2, <1>4
  <2>2. /\ 4 * IntSize + Len(s) + Len(t) \in Nat /\ 4 * IntSize + Len(s) + Len(t) < Words
        /\ 3 \in Nat /\ 3 \in 0 .. 4
    BY <1>1, <1>2
  <2> DEFINE h == HeaderBytes(4 * IntSize + Len(s) + Len(t), 3)
  <2>3. TwoFields(3, s, t).bytes = (h \o FieldBytes(s)) \o FieldBytes(t)
    BY <2>2, TwoFieldsHold
  <2>4. /\ FieldBytes(s) \in Seq(Nat) /\ FieldBytes(t) \in Seq(Nat)
        /\ Len(FieldBytes(s)) = IntSize + Len(s) /\ FieldBytes(s) \o FieldBytes(t) \in Seq(Nat)
    BY FieldBytesType, ConcatProperties
  <2>5. h \in Seq(Nat)
    <3>1. IntBytes(4 * IntSize + Len(s) + Len(t)) \in Seq(Nat) /\ IntBytes(3) \in Seq(Nat)
      BY <2>2, IntBytesType
    <3> QED BY <3>1, ConcatProperties DEF HeaderBytes
  <2>6. TwoFields(3, s, t).bytes = h \o (FieldBytes(s) \o FieldBytes(t))
    <3> HIDE DEF h
    <3>1. Associates(h, FieldBytes(s), FieldBytes(t))
      BY <2>4, <2>5, Associative, Zenon
    <3> QED BY <2>3, <3>1 DEF Associates
  <2>7. /\ TypeRead(d) = [result |-> 3, at |-> 2 * IntSize]
        /\ Agrees(d, 2 * IntSize, FieldBytes(s) \o FieldBytes(t)) /\ Len(d) < Words
    BY <2>1, <2>2, <2>4, <2>6, TypeWhole
  <2> HIDE DEF h
  <2>8. PICK r \in Nat : r = 2 * IntSize
    BY <1>1
  <2>9. PICK q \in Nat : q = (r + IntSize) + Len(s)
    BY <1>1
  <2>10. Agrees(d, r, FieldBytes(s)) /\ Agrees(d, r + (IntSize + Len(s)), FieldBytes(t))
    BY <2>4, <2>7, <2>8, AgreesParts
  <2>11. /\ r + (IntSize + Len(s)) = q /\ r <= Len(d) /\ (q + IntSize) + Len(t) < Words
         /\ (q + IntSize) + Len(t) = 4 * IntSize + Len(s) + Len(t)
    <3>1. r = 2 * i /\ q = (r + i) + j
      BY <1>1, <2>8, <2>9
    <3>2. r + (i + j) = q /\ r <= l /\ (q + i) + k < w /\ (q + i) + k = 4 * i + j + k
      BY <1>1, <1>2, <1>4, <3>1
    <3> QED BY <1>1, <3>2
  <2>12. LET first  == ReadField(d, r)
             second == ReadField(d, first.at)
         IN \/ /\ (q + IntSize) + Len(t) <= Len(d) /\ first.result = s /\ second.result = t
            \/ /\ Len(d) < (q + IntSize) + Len(t) /\ second.result = << >>
               /\ first.result \in {s, << >>}
    <3>1. Agrees(d, q, FieldBytes(t))
      BY <2>10, <2>11
    <3> DEFINE first  == ReadField(d, r)
               second == ReadField(d, first.at)
    <3>2. \/ /\ (q + IntSize) + Len(t) <= Len(d) /\ first.result = s
             /\ second = [result |-> t, at |-> (q + IntSize) + Len(t)]
          \/ /\ Len(d) < (q + IntSize) + Len(t) /\ second.result = << >>
             /\ first.result = s \/ first.result = << >>
      BY <2>9, <2>10, <2>11, <3>1, TwoRead
    <3> HIDE DEF first, second
    <3>3. \/ (q + IntSize) + Len(t) <= Len(d) /\ first.result = s /\ second.result = t
          \/ /\ Len(d) < (q + IntSize) + Len(t) /\ second.result = << >>
             /\ first.result \in {s, << >>}
      BY <3>2
    <3> QED BY <3>3 DEF first, second
  <2>13. ReadField(d, r) = FirstField(d) /\ ReadField(d, FirstField(d).at) = SecondField(d)
    BY <2>7, <2>8 DEF FirstField, SecondField
  <2> QED BY <2>1, <2>7, <2>11, <2>12, <2>13
<1> QED BY <1>3, <1>4

(* A message with three fields.                                            *)
LEMMA ThreeDecoded ==
  ASSUME NEW d \in Seq(Nat), ByteBase * Len(d) <= Words, NEW length \in Nat, length < Words,
         NEW s \in Seq(Nat), NEW t \in Seq(Nat), NEW u \in Seq(Nat), Letters(s), Letters(t),
         2 * (5 * IntSize + Len(s) + Len(t) + Len(u)) <= Words,
         Agrees(d, 0, ThreeFields(length, 4, s, t, u).bytes)
  PROVE  \/ Len(d) < 2 * IntSize /\ Decode(d) = EmptyLogin
         \/ /\ 2 * IntSize <= Len(d) /\ TypeRead(d).result = 4
            /\ \/ /\ 5 * IntSize + Len(s) + Len(t) + Len(u) <= Len(d)
                  /\ FirstField(d).result = s /\ SecondField(d).result = t
                  /\ ThirdField(d).result = u
               \/ /\ Len(d) < 5 * IntSize + Len(s) + Len(t) + Len(u)
                  /\ ThirdField(d).result = << >>
                  /\ \/ FirstField(d).result = s /\ SecondField(d).result = t
                     \/ FirstField(d).result = s /\ SecondField(d).result = << >>
                     \/ FirstField(d).result = << >> /\ SecondField(d).result = << >>
<1>1. PICK i \in Nat, j \in Nat, k \in Nat, m \in Nat, l \in Nat, w \in Nat :
        /\ i = IntSize /\ j = Len(s) /\ k = Len(t) /\ m = Len(u) /\ l = Len(d) /\ w = Words
        /\ 1 <= i
  BY LenProperties, Sizes, WordsType
<1>2. 2 * (5 * i + j + k + m) <= w
  BY <1>1
<1>3. CASE l < 2 * i
  <2>1. Len(d) < 2 * IntSize /\ 3 * IntSize <= Words
    BY <1>1, <1>2, <1>3
  <2> QED BY <2>1, DecodeShort
<1>4. CASE 2 * i <= l
  <2>1. 2 * IntSize <= Len(d) /\ 6 <= Words /\ 4 \in 0 .. 4 /\ 4 \in Nat
    BY <1>1, <1>2, <1>4
  <2>2. ThreeFields(length, 4, s, t, u).bytes = ThreeFieldBytes(length, 4, s, t, u)
    BY <2>1, ThreeFieldsHold
  <2> DEFINE h == HeaderBytes(length, 4)
             a == FieldBytes(s)
             b == FieldBytes(t)
             c == FieldBytes(u)
  <2>3. /\ a \in Seq(Nat) /\ b \in Seq(Nat) /\ c \in Seq(Nat)
        /\ Len(a) = IntSize + Len(s) /\ Len(b) = IntSize + Len(t)
    BY FieldBytesType
  <2>4. h \in Seq(Nat)
    <3>1. IntBytes(length) \in Seq(Nat) /\ IntBytes(4) \in Seq(Nat)
      BY <2>1, IntBytesType
    <3> QED BY <3>1, ConcatProperties DEF HeaderBytes
  <2> HIDE DEF a, b, c, h
  <2>5. h \o a \in Seq(Nat) /\ b \o c \in Seq(Nat) /\ a \o (b \o c) \in Seq(Nat)
    BY <2>3, <2>4, ConcatProperties
  <2>6. ThreeFields(length, 4, s, t, u).bytes = h \o (a \o (b \o c))
    <3>1. Associates(h \o a, b, c) /\ Associates(h, a, b \o c)
      BY <2>3, <2>4, <2>5, Associative, Zenon
    <3>2. ThreeFields(length, 4, s, t, u).bytes = ((h \o a) \o b) \o c
      BY <2>2 DEF h, a, b, c, ThreeFieldBytes
    <3> QED BY <3>1, <3>2, Zenon DEF Associates
  <2>7. /\ TypeRead(d) = [result |-> 4, at |-> 2 * IntSize]
        /\ Agrees(d, 2 * IntSize, a \o (b \o c)) /\ Len(d) < Words
    BY <2>1, <2>5, <2>6, TypeWhole DEF h
  <2>8. PICK r \in Nat : r = 2 * IntSize
    BY <1>1
  <2>9. PICK q \in Nat, v \in Nat : q = (r + IntSize) + Len(s) /\ v = (q + IntSize) + Len(t)
    BY <1>1, SMTT(30)
  <2>10. Agrees(d, r, a) /\ Agrees(d, r + (IntSize + Len(s)), b \o c)
    BY <2>3, <2>5, <2>7, <2>8, AgreesParts
  <2>11. /\ r + (IntSize + Len(s)) = q /\ r <= Len(d) /\ (v + IntSize) + Len(u) < Words
         /\ q + (IntSize + Len(t)) = v
         /\ (v + IntSize) + Len(u) = 5 * IntSize + Len(s) + Len(t) + Len(u)
    <3>1. r = 2 * i /\ q = (r + i) + j /\ v = (q + i) + k
      BY <1>1, <2>8, <2>9
    <3>2. /\ r + (i + j) = q /\ r <= l /\ (v + i) + m < w /\ q + (i + k) = v
          /\ (v + i) + m = 5 * i + j + k + m
      BY <1>1, <1>2, <1>4, <3>1
    <3> QED BY <1>1, <3>2
  <2>12. Agrees(d, q, b) /\ Agrees(d, v, c)
    <3>1. Agrees(d, q, b \o c)
      BY <2>10, <2>11
    <3>2. Agrees(d, q, b) /\ Agrees(d, q + (IntSize + Len(t)), c)
      BY <2>3, <3>1, AgreesParts
    <3> QED BY <2>11, <3>2
  <2>13. LET first  == ReadField(d, r)
             second == ReadField(d, first.at)
             third  == ReadField(d, second.at)
         IN \/ /\ (v + IntSize) + Len(u) <= Len(d)
               /\ first.result = s /\ second.result = t /\ third.result = u
            \/ /\ Len(d) < (v + IntSize) + Len(u) /\ third.result = << >>
               /\ \/ first.result = s /\ second.result = t
                  \/ first.result = s /\ second.result = << >>
                  \/ first.result = << >> /\ second.result = << >>
    <3>1. Agrees(d, r, FieldBytes(s)) /\ Agrees(d, q, FieldBytes(t)) /\ Agrees(d, v, FieldBytes(u))
      BY <2>10, <2>12 DEF a, b, c
    <3> QED BY <2>7, <2>9, <2>11, <3>1, ThreeRead
  <2>14. /\ ReadField(d, r) = FirstField(d) /\ ReadField(d, FirstField(d).at) = SecondField(d)
         /\ ReadField(d, SecondField(d).at) = ThirdField(d)
    BY <2>7, <2>8 DEF FirstField, SecondField, ThirdField
  <2> QED BY <2>1, <2>7, <2>11, <2>13, <2>14
<1> QED BY <1>3, <1>4

(* Every message of the program has only the fields of its type.           *)
Proper(m) ==
  /\ m \in Messages
  /\ m.type \in {"JOIN", "LEAVE", "SEND"} => m.name = ""
  /\ m.type = "LOGIN" => m.room = ""
  /\ m.type \in {"LOGIN", "JOIN", "LEAVE"} => m.text = << >>

(* What can be read of s when the data end too early.                      *)
Cuts(s) == {[s EXCEPT !.text = << >>], [s EXCEPT !.text = << >>, !.room = << >>],
            [s EXCEPT !.text = << >>, !.room = << >>, !.name = << >>]}

LEMMA CutsOfRead ==
  ASSUME NEW t, NEW n, NEW r, NEW x
  PROVE  Cuts(Read(t, n, r, x)) =
           {Read(t, n, r, << >>), Read(t, n, << >>, << >>), Read(t, << >>, << >>, << >>)}
<1> DEFINE s == Read(t, n, r, x)
<1>1. [s EXCEPT !.text = << >>] = Read(t, n, r, << >>)
  BY DEF Read
<1>2. [s EXCEPT !.text = << >>, !.room = << >>] = Read(t, n, << >>, << >>)
  <2>1. [Read(t, n, r, << >>) EXCEPT !.room = << >>] = Read(t, n, << >>, << >>)
    BY DEF Read
  <2> HIDE DEF s
  <2>2. [s EXCEPT !.text = << >>, !.room = << >>] = [[s EXCEPT !.text = << >>] EXCEPT !.room = << >>]
    OBVIOUS
  <2> QED BY <1>1, <2>1, <2>2
<1>3. [s EXCEPT !.text = << >>, !.room = << >>, !.name = << >>] = Read(t, << >>, << >>, << >>)
  <2>1. [Read(t, n, << >>, << >>) EXCEPT !.name = << >>] = Read(t, << >>, << >>, << >>)
    BY DEF Read
  <2> HIDE DEF s
  <2>2. [s EXCEPT !.text = << >>, !.room = << >>, !.name = << >>]
          = [[s EXCEPT !.text = << >>, !.room = << >>] EXCEPT !.name = << >>]
    OBVIOUS
  <2> QED BY <1>2, <2>1, <2>2
<1> HIDE DEF s
<1>4. Cuts(s) = {Read(t, n, r, << >>), Read(t, n, << >>, << >>), Read(t, << >>, << >>, << >>)}
  BY <1>1, <1>2, <1>3 DEF Cuts
<1> QED BY <1>4 DEF s

LEMMA EmptyStrings == Bytes[""] = << >> /\ TextBytes(<< >>) = << >>
<1>1. Bytes[""] = << >>
  BY WireAssumption
<1>2. [k \in 1 .. Len(<< >>) |-> (IF k = 1 THEN << >> ELSE << Space >>) \o Bytes[<< >>[k]]] = << >>
  OBVIOUS
<1>3. FlattenSeq(<< >>) = << >>
  BY DEF FlattenSeq
<1> QED BY <1>1, <1>2, <1>3 DEF TextBytes

LEMMA BytesLetters ==
  ASSUME NEW s \in DOMAIN Bytes
  PROVE  Letters(Bytes[s])
BY WireAssumption DEF Letters, IsLetter

(* readMessage and writeMessage: of data that begin with a whole message   *)
(* exactly this message is read; when only the first bytes of one have     *)
(* been received it is a login without a name, or the message with its     *)
(* strings empty from the cut on, and so without any when it has but one.  *)
THEOREM ReadBack ==
  ASSUME NEW m, Proper(m), NEW d \in Seq(Nat), ByteBase * Len(d) <= Words,
         2 * Len(WriteMessage(m).bytes) <= Words, Agrees(d, 0, WriteMessage(m).bytes)
  PROVE  /\ Len(WriteMessage(m).bytes) <= Len(d) => Decode(d) = Spelled(m)
         /\ Len(d) < Len(WriteMessage(m).bytes) =>
              /\ Decode(d) \in {EmptyLogin} \union Cuts(Spelled(m))
              /\ m.type \in {"LOGIN", "JOIN", "LEAVE"} =>
                   Decode(d) \in {EmptyLogin, Read(m.type, << >>, << >>, << >>)}
<1> DEFINE name == Bytes[m.name]
           room == Bytes[m.room]
           text == TextBytes(m.text)
           length == 5 * IntSize + Len(room) + Len(text) + Len(name)
           w == WriteMessage(m)
<1>1. m \in Messages
  BY DEF Proper
<1>2. /\ name \in Seq(Nat) /\ room \in Seq(Nat) /\ text \in Seq(Nat)
      /\ m.type \in {"LOGIN", "JOIN", "LEAVE", "SEND", "RECIEVE"}
      /\ m.type = "LOGIN" => w = OneField(0, name)
      /\ m.type = "JOIN" => w = OneField(1, room)
      /\ m.type = "LEAVE" => w = OneField(2, room)
      /\ m.type = "SEND" => w = TwoFields(3, room, text)
      /\ m.type = "RECIEVE" => w = ThreeFields(length, 4, name, room, text)
  BY <1>1, WriteCases
<1>3. Letters(name) /\ Letters(room)
  BY <1>1, BytesLetters DEF Messages
<1>4. Spelled(m) = Read(m.type, name, room, text)
  BY DEF Spelled, Read
<1>5. /\ m.type \in {"JOIN", "LEAVE", "SEND"} => name = << >>
      /\ m.type = "LOGIN" => room = << >>
      /\ m.type \in {"LOGIN", "JOIN", "LEAVE"} => text = << >>
  BY EmptyStrings DEF Proper
<1>6. /\ Len(name) \in Nat /\ Len(room) \in Nat /\ Len(text) \in Nat /\ length \in Nat
      /\ Len(d) \in Nat /\ 2 * IntSize \in Nat
  <2>1. Len(name) \in Nat /\ Len(room) \in Nat /\ Len(text) \in Nat /\ Len(d) \in Nat
    <3> HIDE DEF name, room, text
    <3> QED BY <1>2, LenProperties
  <2> HIDE DEF name, room, text
  <2> QED BY <2>1, Sizes
<1> HIDE DEF name, room, text
<1> DEFINE n == Len(w.bytes)
           whole == n <= Len(d)
<1>7. w.bytes \in Seq(Nat) /\ 3 * IntSize <= n /\ n \in Nat
  BY <1>1, WrittenFits, LenProperties
<1>8. 2 * n <= Words /\ Agrees(d, 0, w.bytes)
  OBVIOUS
<1> HIDE DEF w, n
<1>9. (Len(d) < n <=> ~ whole) /\ (Len(d) < 2 * IntSize => ~ whole)
  <2>1. PICK a \in Nat, i \in Nat : a = Len(d) /\ i = IntSize /\ 3 * i <= n
    BY <1>6, <1>7, Sizes
  <2>2. (a < n <=> ~ (n <= a)) /\ (a < 2 * i => ~ (n <= a))
    BY <1>7, <2>1
  <2> QED BY <2>1, <2>2
<1>10. ASSUME NEW code \in 0 .. 2, NEW s \in Seq(Nat), w = OneField(code, s)
       PROVE  \/ ~ whole /\ Decode(d) = EmptyLogin
              \/ TypeRead(d).result = code /\ FirstField(d).result = IF whole THEN s ELSE << >>
  <2>1. n = 3 * IntSize + Len(s)
    <3>1. code \in Nat
      OBVIOUS
    <3>2. Len(w.bytes) = 3 * IntSize + Len(s)
      BY <1>10, <3>1, OneFieldHolds
    <3> QED BY <3>2 DEF n
  <2>2. 2 * (3 * IntSize + Len(s)) <= Words /\ Agrees(d, 0, OneField(code, s).bytes)
    BY <1>8, <1>10, <2>1
  <2>3. \/ Len(d) < 2 * IntSize /\ Decode(d) = EmptyLogin
        \/ /\ 2 * IntSize <= Len(d) /\ TypeRead(d).result = code
           /\ \/ 3 * IntSize + Len(s) <= Len(d) /\ FirstField(d).result = s
              \/ Len(d) < 3 * IntSize + Len(s) /\ FirstField(d).result = << >>
    BY <2>2, OneDecoded
  <2>4. 3 * IntSize + Len(s) <= Len(d) => whole
    BY <2>1
  <2>5. Len(d) < 3 * IntSize + Len(s) => ~ whole
    BY <1>9, <2>1
  <2> HIDE DEF whole
  <2> QED BY <1>9, <2>3, <2>4, <2>5
<1> DEFINE Right ==
      /\ whole => Decode(d) = Read(m.type, name, room, text)
      /\ ~ whole => Decode(d) \in {EmptyLogin} \union Cuts(Read(m.type, name, room, text))
      /\ ~ whole /\ m.type \in {"LOGIN", "JOIN", "LEAVE"} =>
           Decode(d) \in {EmptyLogin, Read(m.type, << >>, << >>, << >>)}
<1>11. /\ Read(m.type, << >>, << >>, << >>) \in Cuts(Read(m.type, name, room, text))
       /\ Read(m.type, name, << >>, << >>) \in Cuts(Read(m.type, name, room, text))
       /\ Read(m.type, name, room, << >>) \in Cuts(Read(m.type, name, room, text))
  BY CutsOfRead
<1>12. ASSUME m.type = "LOGIN" PROVE Right
  <2>1. 0 \in 0 .. 2 /\ w = OneField(0, name)
    BY <1>2, <1>12
  <2>2. \/ ~ whole /\ Decode(d) = EmptyLogin
        \/ TypeRead(d).result = 0 /\ FirstField(d).result = IF whole THEN name ELSE << >>
    <3> HIDE DEF whole
    <3> QED BY <1>2, <1>10, <2>1, Zenon
  <2>3. TypeRead(d).result = 0 => Decode(d) = Read("LOGIN", FirstField(d).result, << >>, << >>)
    BY DecodeCases
  <2> HIDE DEF whole
  <2> QED BY <1>5, <1>11, <1>12, <2>2, <2>3
<1>13. ASSUME m.type = "JOIN" PROVE Right
  <2>1. 1 \in 0 .. 2 /\ w = OneField(1, room)
    BY <1>2, <1>13
  <2>2. \/ ~ whole /\ Decode(d) = EmptyLogin
        \/ TypeRead(d).result = 1 /\ FirstField(d).result = IF whole THEN room ELSE << >>
    <3> HIDE DEF whole
    <3> QED BY <1>2, <1>10, <2>1, Zenon
  <2>3. TypeRead(d).result = 1 => Decode(d) = Read("JOIN", << >>, FirstField(d).result, << >>)
    BY DecodeCases
  <2> HIDE DEF whole
  <2> QED BY <1>5, <1>11, <1>13, <2>2, <2>3
<1>14. ASSUME m.type = "LEAVE" PROVE Right
  <2>1. 2 \in 0 .. 2 /\ w = OneField(2, room)
    BY <1>2, <1>14
  <2>2. \/ ~ whole /\ Decode(d) = EmptyLogin
        \/ TypeRead(d).result = 2 /\ FirstField(d).result = IF whole THEN room ELSE << >>
    <3> HIDE DEF whole
    <3> QED BY <1>2, <1>10, <2>1, Zenon
  <2>3. TypeRead(d).result = 2 => Decode(d) = Read("LEAVE", << >>, FirstField(d).result, << >>)
    BY DecodeCases
  <2> HIDE DEF whole
  <2> QED BY <1>5, <1>11, <1>14, <2>2, <2>3
<1>15. ASSUME m.type = "SEND" PROVE Right
  <2>1. w = TwoFields(3, room, text)
    BY <1>2, <1>15
  <2>2. n = 4 * IntSize + Len(room) + Len(text)
    <3>1. 3 \in Nat
      OBVIOUS
    <3>2. Len(w.bytes) = 4 * IntSize + Len(room) + Len(text)
      BY <1>2, <2>1, <3>1, TwoFieldsHold
    <3> QED BY <3>2 DEF n
  <2>3. /\ 2 * (4 * IntSize + Len(room) + Len(text)) <= Words
        /\ Agrees(d, 0, TwoFields(3, room, text).bytes)
    BY <1>8, <2>1, <2>2
  <2>4. \/ Len(d) < 2 * IntSize /\ Decode(d) = EmptyLogin
        \/ /\ TypeRead(d).result = 3
           /\ \/ /\ 4 * IntSize + Len(room) + Len(text) <= Len(d)
                 /\ FirstField(d).result = room /\ SecondField(d).result = text
              \/ /\ Len(d) < 4 * IntSize + Len(room) + Len(text) /\ SecondField(d).result = << >>
                 /\ FirstField(d).result \in {room, << >>}
    BY <1>2, <1>3, <2>3, TwoDecoded
  <2>5. 4 * IntSize + Len(room) + Len(text) <= Len(d) => whole
    BY <2>2
  <2>6. Len(d) < 4 * IntSize + Len(room) + Len(text) => ~ whole
    BY <1>9, <2>2
  <2>7. TypeRead(d).result = 3 =>
          Decode(d) = Read("SEND", << >>, FirstField(d).result, SecondField(d).result)
    BY DecodeCases
  <2> HIDE DEF whole
  <2>8. \/ ~ whole /\ Decode(d) = EmptyLogin
        \/ whole /\ Decode(d) = Read("SEND", << >>, room, text)
        \/ ~ whole /\ Decode(d) = Read("SEND", << >>, room, << >>)
        \/ ~ whole /\ Decode(d) = Read("SEND", << >>, << >>, << >>)
    BY <1>9, <2>4, <2>5, <2>6, <2>7
  <2> QED BY <1>5, <1>11, <1>15, <2>8
<1>16. ASSUME m.type = "RECIEVE" PROVE Right
  <2>1. w = ThreeFields(length, 4, name, room, text)
    BY <1>2, <1>16
  <2>2. n = 5 * IntSize + Len(name) + Len(room) + Len(text) /\ n = length
    <3>1. 4 \in Nat
      OBVIOUS
    <3>2. Len(w.bytes) = 5 * IntSize + Len(name) + Len(room) + Len(text)
      BY <1>2, <1>6, <2>1, <3>1, ThreeFieldsHold
    <3>3. 5 * IntSize + Len(name) + Len(room) + Len(text) = length
      BY <1>6, Sizes
    <3> QED BY <3>2, <3>3 DEF n
  <2>3. /\ 2 * (5 * IntSize + Len(name) + Len(room) + Len(text)) <= Words /\ length < Words
        /\ Agrees(d, 0, ThreeFields(length, 4, name, room, text).bytes)
    <3>1. n < Words
      <4>1. 1 <= n
        BY <1>7, Sizes
      <4> QED BY <1>7, <1>8, <4>1, WordsType
    <3> QED BY <1>8, <2>1, <2>2, <3>1
  <2> HIDE DEF length
  <2>4. \/ Len(d) < 2 * IntSize /\ Decode(d) = EmptyLogin
        \/ /\ TypeRead(d).result = 4
           /\ \/ /\ 5 * IntSize + Len(name) + Len(room) + Len(text) <= Len(d)
                 /\ FirstField(d).result = name /\ SecondField(d).result = room
                 /\ ThirdField(d).result = text
              \/ /\ Len(d) < 5 * IntSize + Len(name) + Len(room) + Len(text)
                 /\ ThirdField(d).result = << >>
                 /\ \/ FirstField(d).result = name /\ SecondField(d).result = room
                    \/ FirstField(d).result = name /\ SecondField(d).result = << >>
                    \/ FirstField(d).result = << >> /\ SecondField(d).result = << >>
    BY <1>2, <1>3, <1>6, <2>3, ThreeDecoded
  <2>5. 5 * IntSize + Len(name) + Len(room) + Len(text) <= Len(d) => whole
    BY <2>2
  <2>6. Len(d) < 5 * IntSize + Len(name) + Len(room) + Len(text) => ~ whole
    BY <1>9, <2>2
  <2>7. TypeRead(d).result = 4 =>
          Decode(d) = Read("RECIEVE", FirstField(d).result, SecondField(d).result,
                           ThirdField(d).result)
    BY DecodeCases
  <2> HIDE DEF whole
  <2>8. \/ ~ whole /\ Decode(d) = EmptyLogin
        \/ whole /\ Decode(d) = Read("RECIEVE", name, room, text)
        \/ ~ whole /\ Decode(d) = Read("RECIEVE", name, room, << >>)
        \/ ~ whole /\ Decode(d) = Read("RECIEVE", name, << >>, << >>)
        \/ ~ whole /\ Decode(d) = Read("RECIEVE", << >>, << >>, << >>)
    BY <1>9, <2>4, <2>5, <2>6, <2>7
  <2> QED BY <1>11, <1>16, <2>8
<1>17. Right
  <2> HIDE DEF Right
  <2> QED BY <1>2, <1>12, <1>13, <1>14, <1>15, <1>16
<1> QED BY <1>4, <1>9, <1>17 DEF w, n

(* The bytes of an int, and that they are no more than a byte when it is   *)
(* small.                                                                  *)
LEMMA LengthBelow ==
  ASSUME NEW d \in Seq(Nat), ByteBase * Len(d) <= Words
  PROVE  Len(d) < Words
<1>1. PICK l \in Nat : l = Len(d)
  BY LenProperties
<1>2. CASE l = 0
  BY <1>1, <1>2, Sizes, WordsType
<1>3. CASE l # 0
  <2>1. l * 2 <= l * ByteBase /\ l * ByteBase = ByteBase * l
    BY Sizes, TimesMonotone
  <2>2. l < l * 2
    BY <1>3
  <2>3. PICK y \in Nat : y = ByteBase * l
    BY Sizes, TimesNat
  <2> QED BY <1>1, <2>1, <2>2, <2>3, WordsType
<1> QED BY <1>2, <1>3

(* Where the type is read.                                                 *)
LEMMA TypePlace ==
  ASSUME NEW d \in Seq(Nat), ByteBase * Len(d) <= Words, 3 * IntSize <= Words,
         2 * IntSize <= Len(d)
  PROVE  TypeRead(d) = [result |-> IntOf(SubSeq(d, IntSize + 1, 2 * IntSize)), at |-> 2 * IntSize]
<1>1. PICK i \in Nat, l \in Nat, w \in Nat :
        i = IntSize /\ l = Len(d) /\ w = Words /\ 1 <= i /\ l < w
  BY LenProperties, Sizes, WordsType, LengthBelow
<1>2. 3 * i <= w /\ 2 * i <= l
  BY <1>1
<1>3. (0 + IntSize) % Words = 0 + IntSize /\ (i + IntSize) % Words = i + IntSize
  <2>1. /\ 0 + IntSize \in Nat /\ 0 + IntSize < Words /\ Words \in Nat
        /\ i + IntSize \in Nat /\ i + IntSize < Words
    BY <1>1, <1>2
  <2> QED BY <2>1, ModBelow
<1>4. ~ (Len(d) < (0 + IntSize) % Words) /\ ~ (Len(d) < (i + IntSize) % Words)
  BY <1>1, <1>2, <1>3
<1>5. 0 + IntSize = i /\ i + IntSize = 2 * IntSize /\ i + 1 = IntSize + 1
  BY <1>1
<1>6. ReadInt(d, 0).at = i
  BY <1>4, <1>5 DEF ReadInt
<1>7. ReadInt(d, i) = [result |-> IntOf(SubSeq(d, i + 1, i + IntSize)), at |-> i + IntSize]
  BY <1>4 DEF ReadInt
<1> QED BY <1>5, <1>6, <1>7 DEF TypeRead

(* Bytes none of which is the number of a JOIN are not read as one.        *)
LEMMA NoJoinRead ==
  ASSUME NEW d \in Seq(Nat), ByteBase * Len(d) <= Words, 3 * IntSize <= Words,
         \A k \in 1 .. Len(d) : d[k] # 1
  PROVE  Decode(d).type # "JOIN"
<1>1. CASE Len(d) < 2 * IntSize
  BY <1>1, DecodeShort DEF EmptyLogin
<1>2. CASE 2 * IntSize <= Len(d)
  <2> DEFINE bs == SubSeq(d, IntSize + 1, 2 * IntSize)
  <2>1. bs \in Seq(Nat) /\ Len(bs) = IntSize /\ bs[1] = d[IntSize + 1]
    <3>1. PICK i \in Nat, l \in Nat : i = IntSize /\ l = Len(d) /\ 1 <= i /\ 2 * i <= l
      BY <1>2, LenProperties, Sizes
    <3>2. i + 1 \in 1 .. Len(d) + 1 /\ 2 * i \in 0 .. Len(d)
      BY <3>1
    <3>3. /\ SubSeq(d, i + 1, 2 * i) \in Seq(Nat)
          /\ Len(SubSeq(d, i + 1, 2 * i)) = IF i + 1 <= 2 * i THEN 2 * i - (i + 1) + 1 ELSE 0
          /\ \A j \in 1 .. 2 * i - (i + 1) + 1 : SubSeq(d, i + 1, 2 * i)[j] = d[(i + 1) + j - 1]
      BY <3>2, SubSeqProperties
    <3>4. i + 1 <= 2 * i /\ 2 * i - (i + 1) + 1 = i /\ 1 \in 1 .. 2 * i - (i + 1) + 1 /\ (i + 1) + 1 - 1 = i + 1
      BY <3>1
    <3> QED BY <3>1, <3>3, <3>4
  <2> HIDE DEF bs
  <2>2. d[IntSize + 1] \in Nat /\ d[IntSize + 1] # 1
    <3>1. IntSize + 1 \in 1 .. Len(d)
      BY <1>2, LenProperties, Sizes
    <3> QED BY <3>1, ElementOfSeq
  <2>3. PICK x \in Nat : IntOf(bs) = bs[1] + ByteBase * x
    BY <2>1, IntOfBytes
  <2>4. PICK c \in Nat, y \in Nat : c = bs[1] /\ y = ByteBase * x /\ c # 1
    BY <2>1, <2>2, Sizes, TimesNat
  <2>5. y = 0 \/ 2 <= y
    <3>1. CASE x = 0
      BY <2>4, <3>1, Sizes
    <3>2. CASE x # 0
      <4>1. ByteBase * 1 <= ByteBase * x /\ ByteBase * 1 = ByteBase
        BY <3>2, Sizes, TimesMonotone
      <4> QED BY <2>4, <4>1, Sizes
    <3> QED BY <3>1, <3>2
  <2>6. c + y # 1 /\ c + y \in Nat
    BY <2>4, <2>5
  <2>7. TypeRead(d).result = c + y
    <3>1. TypeRead(d).result = IntOf(bs)
      BY <1>2, TypePlace DEF bs
    <3> QED BY <2>3, <2>4, <3>1, Zenon
  <2>8. PICK t \in Nat : t = TypeRead(d).result /\ t # 1
    BY <2>6, <2>7
  <2>9. t = 0 \/ t = 2 \/ t = 3 \/ t = 4 \/ t \notin 0 .. 4
    BY <2>8
  <2>10. Decode(d).type \in {"LOGIN", "LEAVE", "SEND", "RECIEVE", "ERROR"}
    BY <2>8, <2>9, DecodeCases DEF Read
  <2> QED BY <2>10
<1>3. Len(d) < 2 * IntSize \/ 2 * IntSize <= Len(d)
  BY LenProperties, Sizes
<1> QED BY <1>1, <1>2, <1>3

(* Bytes in which the length of a name would end with a character are not  *)
(* read as a login with a name.                                            *)
LEMMA NoNameRead ==
  ASSUME NEW d \in Seq(Nat), ByteBase * Len(d) <= Words, 3 * IntSize < Words,
         \A k \in 1 .. Len(d) : d[k] < ByteBase,
         3 * IntSize <= Len(d) => IsLetter(d[3 * IntSize])
  PROVE  Decode(d).name = << >> \/ Decode(d).type # "LOGIN"
<1>1. PICK i \in Nat, l \in Nat : i = IntSize /\ l = Len(d) /\ 1 <= i
  BY LenProperties, Sizes
<1>2. CASE l < 2 * i
  <2>1. Len(d) < 2 * IntSize /\ 3 * IntSize <= Words
    BY <1>1, <1>2, WordsType
  <2> QED BY <2>1, DecodeShort DEF EmptyLogin
<1>3. CASE 2 * i <= l
  <2>1. 2 * IntSize <= Len(d) /\ 3 * IntSize <= Words
    BY <1>1, <1>3, WordsType
  <2>2. PICK r \in Nat : r = 2 * i /\ TypeRead(d).at = r
    BY <1>1, <2>1, TypePlace
  <2>3. FirstField(d).result = << >>
    <3>1. CASE l < 3 * i
      <4>1. r <= Len(d) /\ Len(d) < r + IntSize /\ r + IntSize < Words
        BY <1>1, <1>3, <2>2, <3>1, WordsType
      <4>2. ReadField(d, r) = [result |-> << >>, at |-> r]
        BY <4>1, ReadFieldShort
      <4> QED BY <2>2, <4>2 DEF FirstField
    <3>2. CASE 3 * i <= l
      <4>1. r + IntSize <= Len(d) /\ r + IntSize = 3 * IntSize
        BY <1>1, <2>2, <3>2
      <4>2. ASSUME NEW k \in 1 .. IntSize PROVE d[r + k] < ByteBase
        <5>1. r + k \in 1 .. Len(d)
          BY <1>1, <2>2, <4>1
        <5> QED BY <5>1
      <4>3. ReadField(d, r) = [result |-> << >>, at |-> r + IntSize]
        BY <4>1, <4>2, ReadFieldLetters
      <4> QED BY <2>2, <4>3 DEF FirstField
    <3> QED BY <3>1, <3>2
  <2>5. TypeRead(d).result \in Nat
    <3>1. SubSeq(d, IntSize + 1, 2 * IntSize) \in Seq(Nat) /\ Len(SubSeq(d, IntSize + 1, 2 * IntSize)) = IntSize
      <4>1. i + 1 \in 1 .. Len(d) + 1 /\ 2 * i \in 0 .. Len(d)
        BY <1>1, <1>3
      <4>2. /\ SubSeq(d, i + 1, 2 * i) \in Seq(Nat)
            /\ Len(SubSeq(d, i + 1, 2 * i)) = IF i + 1 <= 2 * i THEN 2 * i - (i + 1) + 1 ELSE 0
        BY <4>1, SubSeqProperties
      <4>3. i + 1 <= 2 * i /\ 2 * i - (i + 1) + 1 = i
        BY <1>1
      <4> QED BY <1>1, <4>2, <4>3
    <3>2. IntOf(SubSeq(d, IntSize + 1, 2 * IntSize)) \in Nat
      BY <3>1, IntOfBytes
    <3> QED BY <2>1, <3>2, TypePlace
  <2>6. \/ TypeRead(d).result = 0 \/ TypeRead(d).result = 1 \/ TypeRead(d).result = 2
        \/ TypeRead(d).result = 3 \/ TypeRead(d).result = 4 \/ TypeRead(d).result \notin 0 .. 4
    BY <2>5
  <2>7. Decode(d) = Read("LOGIN", << >>, << >>, << >>) \/ Decode(d).type # "LOGIN"
    BY <2>3, <2>6, DecodeCases DEF Read
  <2> QED BY <2>7 DEF Read
<1> QED BY <1>2, <1>3

=============================================================================
