---------------------------- MODULE PacketsProofs ----------------------------
(***************************************************************************)
(* Theorems about the packets of the earlier protocol: for numbers and     *)
(* texts of any size and any number of fields, what is written is read.    *)
(***************************************************************************)
EXTENDS Packets, SequenceTheorems, TLAPS

(* How much a byte of a wired number counts, from the second one on. *)
Weight(k) == Digit ^ k
-----------------------------------------------------------------------------
(* Numbers. *)

LEMMA Weights ==
    /\ Digit \in Nat /\ Digit > 1
    /\ \A k \in 0 .. 5 : Weight(k) \in Nat \ {0}
    /\ Weight(0) = 1 /\ Digit ^ 2 = Digit * Digit
    /\ \A k \in 0 .. 4 : Weight(k + 1) = Weight(k) * Digit
    /\ \A j, k \in 0 .. 5 : j <= k => Weight(j) <= Weight(k)
    /\ Weight(1) = Digit /\ Weight(2) = Digit ^ 2
    /\ Span = 4 * Weight(5) /\ Span \in Nat /\ Span \div 2 = 2 * Weight(5)
<1>1. CASE Digit = 2
  BY <1>1 DEF Weight, Span, WiredSize
<1>2. CASE Digit = 4
  BY <1>2 DEF Weight, Span, WiredSize
<1>3. CASE Digit = 8
  BY <1>3 DEF Weight, Span, WiredSize
<1>4. CASE Digit = 16
  BY <1>4 DEF Weight, Span, WiredSize
<1>5. CASE Digit = 32
  BY <1>5 DEF Weight, Span, WiredSize
<1>6. CASE Digit = 64
  BY <1>6 DEF Weight, Span, WiredSize
<1> QED
  BY <1>1, <1>2, <1>3, <1>4, <1>5, <1>6, PacketsAssumption

(* A character holds a digit above its 64.                                 *)
LEMMA Sixtyfour ==
    ASSUME NEW x \in 0 .. Digit - 1
    PROVE  (64 + x) % Digit = x /\ Char(64 + x) = x /\ 64 + x \in 64 .. 127
<1>1. Char(64 + x) = x /\ 64 + x \in 64 .. 127
  BY PacketsAssumption DEF Char
<1>2. (64 + x) % Digit = x
  <2>1. CASE Digit = 2
    BY <2>1
  <2>2. CASE Digit = 4
    BY <2>2
  <2>3. CASE Digit = 8
    BY <2>3
  <2>4. CASE Digit = 16
    BY <2>4
  <2>5. CASE Digit = 32
    BY <2>5
  <2>6. CASE Digit = 64
    BY <2>6
  <2> QED
    BY <2>1, <2>2, <2>3, <2>4, <2>5, <2>6, PacketsAssumption
<1> QED
  BY <1>1, <1>2

LEMMA Divided ==
    ASSUME NEW m \in Nat \ {0}, NEW q \in Nat, NEW r \in 0 .. m - 1
    PROVE  (m * q + r) % m = r /\ (m * q + r) \div m = q
  OBVIOUS

LEMMA DividedTwice ==
    ASSUME NEW a \in Nat, NEW m \in Nat \ {0}, NEW d \in Nat \ {0}
    PROVE  (a \div m) \div d = a \div (m * d)
  OBVIOUS

LEMMA DividedByFour ==
    ASSUME NEW a \in Nat, NEW d \in Nat \ {0}
    PROVE  /\ a \div 4 < d <=> a < 4 * d
           /\ (a \div 4) \div d = a \div (4 * d)
<1>1. 4 \in Nat \ {0}
  OBVIOUS
<1>2. (a \div 4) \div d = a \div (4 * d)
  BY <1>1, DividedTwice, Zenon
<1> QED
  BY <1>2

(* The digits below some place, and the digit there.                       *)
LEMMA OneDigitMore ==
    ASSUME NEW a \in Nat, NEW m \in Nat \ {0}, NEW d \in Nat \ {0}
    PROVE  a % (m * d) = (a % m) + ((a \div m) % d) * m
<1> DEFINE q == a \div m
           r == a % m
           high == q \div d
           low == q % d
<1>1. a = m * q + r /\ r \in 0 .. m - 1 /\ q \in Nat
  OBVIOUS
<1>2. q = d * high + low /\ low \in 0 .. d - 1 /\ high \in Nat
  BY <1>1
<1>3. a % (m * d) = m * low + r
  <2> HIDE DEF q, r, high, low
  <2>1. a = (m * d) * high + (m * low + r)
    <3>1. a = m * (d * high + low) + r
      BY <1>1, <1>2
    <3> QED
      BY <1>1, <1>2, <3>1
  <2>2. m * low + r \in 0 .. m * d - 1
    <3>1. m * low <= m * (d - 1) /\ m * low \in Nat
      BY <1>1, <1>2
    <3>2. m * (d - 1) = m * d - m
      OBVIOUS
    <3> QED
      BY <1>1, <1>2, <3>1, <3>2
  <2>3. m * d \in Nat \ {0}
    OBVIOUS
  <2> DEFINE whole == m * d
             rest  == m * low + r
  <2>4. whole \in Nat \ {0} /\ rest \in 0 .. whole - 1 /\ a = whole * high + rest
    BY <2>1, <2>2, <2>3
  <2> HIDE DEF whole, rest
  <2>5. a % whole = rest
    BY <1>2, <2>4, Divided
  <2> QED
    BY <2>5 DEF whole, rest
<1> QED
  BY <1>3

(* The numbers an int can hold are what it makes of them.                  *)
LEMMA IntRange ==
    ASSUME NEW v \in Int
    PROVE  /\ ToInt(v) \in Int
           /\ Abs(v) < Span \div 2 => ToInt(v) = v
           /\ v \in 0 .. Span - 1 => ToUint(ToInt(v)) = v
<1> DEFINE h == 2 * Weight(5)
<1>1. h \in Nat \ {0} /\ Span = 2 * h /\ Span \div 2 = h
  BY Weights
<1> HIDE DEF h
<1>2. ToInt(v) = ((v + h) % (2 * h)) - h
  BY <1>1 DEF ToInt
<1>3. ToInt(v) \in Int
  BY <1>1, <1>2
<1>4. ASSUME Abs(v) < h PROVE ToInt(v) = v
  BY <1>1, <1>2, <1>4 DEF Abs
<1>5. ASSUME v \in 0 .. 2 * h - 1 PROVE ToUint(ToInt(v)) = v
  <2>1. CASE v < h
    BY <1>1, <1>2, <1>5, <2>1 DEF ToUint
  <2>2. CASE v >= h
    <3>1. v + h = (2 * h) * 1 + (v - h) /\ v - h \in 0 .. 2 * h - 1
      BY <1>1, <1>5, <2>2
    <3>2. (v + h) % (2 * h) = v - h
      BY <1>1, <1>5, <2>2, <3>1
    <3>3. ToInt(v) = v - 2 * h
      BY <1>1, <1>2, <3>2
    <3> QED
      BY <1>1, <1>5, <3>3 DEF ToUint
  <2> QED
    BY <1>1, <1>5, <2>1, <2>2
<1> QED
  BY <1>1, <1>3, <1>4, <1>5
-----------------------------------------------------------------------------
(* The base-64 numbers. *)

LEMMA AtMostTwo ==
    ASSUME NEW k \in Nat, k <= 2 PROVE k \in {0, 1, 2}
  OBVIOUS

LEMMA CharInt ==
    ASSUME NEW y \in 0 .. 255 PROVE Char(y) \in Int
<1> DEFINE d == (y - 64) % 256
<1>1. d \in Int
  <2>1. y - 64 \in Int
    OBVIOUS
  <2> QED
    BY <2>1
<1>2. Char(y) = IF d < 128 THEN d ELSE d - 256
  BY DEF Char
<1> HIDE DEF d
<1> QED
  BY <1>1, <1>2

(* The loop of DecodeBase64 over the buffers it is given.                  *)
LEMMA DecodedBase64 ==
    ASSUME NEW b \in Seq(0 .. 255), Len(b) <= 2
    PROVE  /\ DecodeBase64(b) \in Int
           /\ Len(b) = 1 => DecodeBase64(b) = Char(b[1])
           /\ Len(b) = 2 => DecodeBase64(b) = Digit * Char(b[1]) + Char(b[2])
<1> DEFINE Loop(F) == F = [x \in 0 .. Len(b) |->
                              IF x = 0 THEN 0 ELSE Digit * F[x - 1] + Char(b[x])]
           total == [x \in 0 .. Len(b) |->
                        IF x = 0 THEN 0
                        ELSE IF x = 1 THEN Char(b[1])
                        ELSE Digit * Char(b[1]) + Char(b[2])]
<1>1. Len(b) \in {0, 1, 2} /\ \A x \in 1 .. Len(b) : Char(b[x]) \in Int
  <2>1. Len(b) \in {0, 1, 2}
    <3>1. Len(b) \in Nat
      BY LenProperties, Zenon
    <3> QED
      BY <3>1, AtMostTwo
  <2>2. ASSUME NEW x \in 1 .. Len(b) PROVE Char(b[x]) \in Int
    <3>1. b[x] \in 0 .. 255
      BY ElementOfSeq
    <3> QED
      BY <3>1, CharInt
  <2> QED
    BY <2>1, <2>2
<1>2. Digit \in Int
  BY Weights
<1>3. Loop(total)
  <2>1. total = [x \in 0 .. Len(b) |->
                    IF x = 0 THEN 0 ELSE Digit * total[x - 1] + Char(b[x])]
    BY <1>1, <1>2
  <2> QED
    BY <2>1
<1>4. PICK F : Loop(F) /\ F = CHOOSE G : Loop(G)
  BY <1>3, Zenon
<1>5. DecodeBase64(b) = F[Len(b)]
  BY <1>4 DEF DecodeBase64
<1>6. F[0] = 0 /\ \A x \in 1 .. Len(b) : F[x] = Digit * F[x - 1] + Char(b[x])
  BY <1>1, <1>4
<1> HIDE DEF Loop
<1>7. Len(b) >= 1 => F[1] = Char(b[1])
  BY <1>1, <1>2, <1>6
<1>8. Len(b) = 2 => F[2] = Digit * Char(b[1]) + Char(b[2])
  BY <1>1, <1>6, <1>7
<1> QED
  BY <1>1, <1>2, <1>5, <1>6, <1>7, <1>8

LEMMA EncodedBase64 ==
    ASSUME NEW u \in Nat
    PROVE  /\ EncodeBase64(u) \in Seq(64 .. 127) /\ Len(EncodeBase64(u)) = 2
           /\ \A b : b \in Seq(0 .. 255) /\ Len(b) = 2 /\ b[1] = EncodeBase64(u)[1]
                      /\ b[2] = EncodeBase64(u)[2] => DecodeBase64(b) = u % (Digit ^ 2)
<1> DEFINE high == (u \div Digit) % Digit
           low == u % Digit
<1>1. /\ Digit \in Nat \ {0} /\ high \in 0 .. Digit - 1 /\ low \in 0 .. Digit - 1
      /\ EncodeBase64(u) = <<64 + high, 64 + low>>
  BY Weights DEF EncodeBase64
<1>2. u % (Digit ^ 2) = low + high * Digit
  <2>1. u % (Digit * Digit) = (u % Digit) + ((u \div Digit) % Digit) * Digit
    BY <1>1, OneDigitMore
  <2>2. Digit ^ 2 = Digit * Digit
    BY Weights
  <2> QED
    BY <2>1, <2>2, Zenon
<1> HIDE DEF high, low
<1>3. /\ 64 + high \in 64 .. 127 /\ 64 + low \in 64 .. 127
      /\ Char(64 + high) = high /\ Char(64 + low) = low
  BY <1>1, Sixtyfour
<1>4. ASSUME NEW b \in Seq(0 .. 255), Len(b) = 2, b[1] = EncodeBase64(u)[1],
             b[2] = EncodeBase64(u)[2]
      PROVE  DecodeBase64(b) = u % (Digit ^ 2)
  <2>1. b[1] = 64 + high /\ b[2] = 64 + low
    BY <1>1, <1>4
  <2>2. DecodeBase64(b) = Digit * Char(b[1]) + Char(b[2])
    <3>1. Len(b) <= 2
      BY <1>4
    <3> QED
      BY <1>4, <3>1, DecodedBase64
  <2>3. Digit * high + low = low + high * Digit
    BY <1>1
  <2> QED
    BY <1>2, <1>3, <2>1, <2>2, <2>3, Zenon
<1> QED
  BY <1>1, <1>3, <1>4
-----------------------------------------------------------------------------
(* The wired numbers. *)

LEMMA WiredLengths ==
    ASSUME NEW v
    PROVE  /\ WiredLength(v) \in 1 .. WiredSize + 1
           /\ WiredLength(v) <= WiredSize => Abs(v) \div 4 < Weight(WiredLength(v) - 1)
           /\ WiredLength(v) > WiredSize => ~(Abs(v) \div 4 < Weight(WiredSize - 1))
<1> DEFINE lengths == {n \in 1 .. WiredSize : Abs(v) \div 4 < Digit ^ (n - 1)}
                          \union {WiredSize + 1}
<1>1. WiredSize = 6
  BY DEF WiredSize
<1>2. lengths \subseteq 1 .. 7 /\ 7 \in lengths
  BY <1>1
<1>3. WiredLength(v) = CHOOSE n \in lengths : \A m \in lengths : n <= m
  BY DEF WiredLength, Min
<1>4. \A n \in lengths : n = 7 \/ (n \in 1 .. 6 /\ Abs(v) \div 4 < Weight(n - 1))
  BY <1>1 DEF Weight
<1>5. 6 \notin lengths => ~(Abs(v) \div 4 < Weight(5))
  BY <1>1 DEF Weight
<1> HIDE DEF lengths
<1>6. \E n \in lengths : \A m \in lengths : n <= m
  <2>1. CASE 1 \in lengths
    BY <1>2, <2>1
  <2>2. CASE 1 \notin lengths /\ 2 \in lengths
    BY <1>2, <2>2
  <2>3. CASE lengths \subseteq 3 .. 7 /\ 3 \in lengths
    BY <1>2, <2>3
  <2>4. CASE lengths \subseteq 4 .. 7 /\ 4 \in lengths
    BY <1>2, <2>4
  <2>5. CASE lengths \subseteq 5 .. 7 /\ 5 \in lengths
    BY <1>2, <2>5
  <2>6. CASE lengths \subseteq 6 .. 7
    BY <1>2, <2>6
  <2> QED
    BY <1>2, <2>1, <2>2, <2>3, <2>4, <2>5, <2>6
<1>7. WiredLength(v) \in lengths /\ \A m \in lengths : WiredLength(v) <= m
  BY <1>3, <1>6
<1>8. CASE WiredLength(v) = 7
  <2>1. 6 \notin lengths
    BY <1>2, <1>7, <1>8
  <2> QED
    BY <1>1, <1>5, <1>8, <2>1
<1>9. CASE WiredLength(v) # 7
  <2>1. WiredLength(v) \in 1 .. 6 /\ Abs(v) \div 4 < Weight(WiredLength(v) - 1)
    BY <1>4, <1>7, <1>9
  <2> QED
    BY <1>1, <2>1
<1> QED
  BY <1>8, <1>9

LEMMA WiredFits ==
    ASSUME NEW v \in Int
    PROVE  /\ Abs(v) \in Nat
           /\ WiredLength(v) <= WiredSize => Abs(v) < 4 * Weight(WiredLength(v) - 1)
           /\ WiredLength(v) > WiredSize => Abs(v) >= Span
<1>1. Abs(v) \in Nat
  BY DEF Abs
<1>2. WiredSize = 6
  BY DEF WiredSize
<1>3. ASSUME NEW k \in 0 .. 5
      PROVE  Abs(v) \div 4 < Weight(k) <=> Abs(v) < 4 * Weight(k)
  <2>1. Weight(k) \in Nat \ {0}
    BY Weights
  <2> QED
    BY <1>1, <2>1, DividedByFour
<1>4. ASSUME WiredLength(v) <= WiredSize PROVE Abs(v) < 4 * Weight(WiredLength(v) - 1)
  <2>1. WiredLength(v) - 1 \in 0 .. 5
    BY <1>2, <1>4, WiredLengths
  <2> QED
    BY <1>3, <1>4, <2>1, WiredLengths
<1>5. ASSUME WiredLength(v) > WiredSize PROVE Abs(v) >= Span
  BY <1>1, <1>2, <1>3, <1>5, WiredLengths, Weights
<1> QED
  BY <1>1, <1>4, <1>5

FirstByte(v) == 64 + 8 * WiredLength(v) + (IF v < 0 THEN 4 ELSE 0) + (Abs(v) % 4)

NextByte(v, i) == 64 + (((Abs(v) \div 4) \div Weight(i - 2)) % Digit)

LEMMA EncodedWired ==
    ASSUME NEW v \in Int
    PROVE  /\ EncodeWired(v) \in Seq(64 .. 127) /\ Len(EncodeWired(v)) = WiredLength(v)
           /\ EncodeWired(v)[1] = FirstByte(v)
           /\ \A i \in 2 .. WiredLength(v) : EncodeWired(v)[i] = NextByte(v, i)
<1> DEFINE n == WiredLength(v)
           bytes == [i \in 1 .. n |-> IF i = 1 THEN FirstByte(v) ELSE NextByte(v, i)]
<1>1. n \in 1 .. 7
  BY WiredLengths DEF WiredSize
<1>2. EncodeWired(v) = bytes
  BY DEF EncodeWired, FirstByte, NextByte, Weight
<1>3. FirstByte(v) \in 64 .. 127
  BY <1>1, WiredFits DEF FirstByte
<1>4. ASSUME NEW i \in 2 .. n PROVE NextByte(v, i) \in 64 .. 127
  <2>1. i - 2 \in 0 .. 5
    BY <1>1
  <2>2. ((Abs(v) \div 4) \div Weight(i - 2)) % Digit \in 0 .. Digit - 1
    BY <2>1, WiredFits, Weights
  <2> QED
    BY <2>2, Sixtyfour DEF NextByte
<1>5. bytes \in [1 .. n -> 64 .. 127]
  BY <1>1, <1>3, <1>4
<1>6. bytes[1] = FirstByte(v) /\ \A i \in 2 .. n : bytes[i] = NextByte(v, i)
  BY <1>1
<1> HIDE DEF n, bytes
<1>7. bytes \in Seq(64 .. 127) /\ Len(bytes) = n
  BY <1>1, <1>5
<1> QED
  BY <1>2, <1>6, <1>7 DEF n

(* A first byte tells the length and the sign.                             *)
LEMMA FirstByteTells ==
    ASSUME NEW v \in Int, NEW buffer, ByteAt(buffer, 1) = FirstByte(v)
    PROVE  /\ WiredBytes(buffer) = WiredLength(v)
           /\ ByteAt(buffer, 1) % 4 = Abs(v) % 4
           /\ (ByteAt(buffer, 1) \div 4) % 2 = 1 <=> v < 0
<1>1. WiredLength(v) \in 1 .. 7 /\ Abs(v) \in Nat
  BY WiredLengths, WiredFits DEF WiredSize
<1> QED
  BY <1>1 DEF FirstByte, WiredBytes

(* The loop of DecodeWired over what EncodeWired wrote: after i bytes it    *)
(* has the number but for its higher digits.                                *)
LEMMA DecodedWired ==
    ASSUME NEW v \in Int, WiredLength(v) <= WiredSize, NEW buffer,
           \A i \in 1 .. WiredLength(v) : ByteAt(buffer, i) = EncodeWired(v)[i]
    PROVE  DecodeWired(buffer) = IF v < 0 THEN ToInt(-ToInt(Abs(v))) ELSE ToInt(Abs(v))
<1> DEFINE n == WiredBytes(buffer)
           first == ByteAt(buffer, 1)
           Loop(F) == F = [i \in 0 .. n |->
               IF i <= 1 THEN first % 4
               ELSE F[i - 1] + (ByteAt(buffer, i) % Digit) * 4 * Digit ^ (i - 2)]
           low == [i \in 0 .. n |->
                      IF i <= 1 THEN Abs(v) % 4 ELSE Abs(v) % (4 * Weight(i - 1))]
<1>0. /\ WiredLength(v) \in 1 .. 6 /\ Abs(v) \in Nat
      /\ EncodeWired(v) \in Seq(64 .. 127) /\ Len(EncodeWired(v)) = WiredLength(v)
      /\ EncodeWired(v)[1] = FirstByte(v)
      /\ \A i \in 2 .. WiredLength(v) : EncodeWired(v)[i] = NextByte(v, i)
  <2>1. WiredLength(v) \in 1 .. 6
    BY WiredLengths DEF WiredSize
  <2>2. Abs(v) \in Nat
    BY WiredFits
  <2> QED
    BY <2>1, <2>2, EncodedWired
<1>1. first = FirstByte(v)
  <2>1. ByteAt(buffer, 1) = EncodeWired(v)[1]
    BY <1>0
  <2> QED
    BY <1>0, <2>1
<1>2. /\ n = WiredLength(v) /\ n \in 1 .. 6
      /\ first % 4 = Abs(v) % 4 /\ ((first \div 4) % 2 = 1 <=> v < 0)
  BY <1>0, <1>1, FirstByteTells
<1> HIDE DEF n, first
<1>a. ASSUME NEW i \in 2 .. n
      PROVE  ByteAt(buffer, i) = NextByte(v, i) /\ ByteAt(buffer, i) \in 64 .. 127
  <2>1. i \in 1 .. WiredLength(v) /\ i \in 2 .. WiredLength(v)
    BY <1>2
  <2>2. ByteAt(buffer, i) = EncodeWired(v)[i]
    BY <2>1
  <2>3. EncodeWired(v)[i] \in 64 .. 127
    BY <1>0, <2>1, ElementOfSeq
  <2> QED
    BY <1>0, <2>1, <2>2, <2>3
<1>3. ASSUME NEW i \in 2 .. n
      PROVE  Abs(v) % (4 * Weight(i - 1)) = (Abs(v) % (4 * Weight(i - 2)))
                 + (ByteAt(buffer, i) % Digit) * (4 * Weight(i - 2))
  <2>1. i - 2 \in 0 .. 4 /\ (i - 2) + 1 = i - 1
    BY <1>0, <1>2
  <2>2. /\ Weight(i - 2) \in Nat \ {0} /\ Weight(i - 1) = Weight(i - 2) * Digit
        /\ Digit \in Nat \ {0}
    BY <2>1, Weights
  <2>3. ByteAt(buffer, i) = NextByte(v, i)
    BY <1>a
  <2> DEFINE w == Weight(i - 2)
             m == 4 * w
  <2>4. m \in Nat \ {0} /\ 4 * Weight(i - 1) = m * Digit
    BY <2>2
  <2>5. ByteAt(buffer, i) % Digit = (Abs(v) \div m) % Digit
    <3>1. (Abs(v) \div 4) \div w = Abs(v) \div m
      BY <1>0, <1>2, <2>2, DividedByFour
    <3>2. (Abs(v) \div m) % Digit \in 0 .. Digit - 1
      <4> HIDE DEF m
      <4>1. Abs(v) \div m \in Nat
        BY <1>0, <2>4
      <4> QED
        BY <2>2, <4>1
    <3> QED
      BY <2>3, <3>1, <3>2, Sixtyfour DEF NextByte
  <2> HIDE DEF m, w
  <2>6. Abs(v) % (m * Digit) = (Abs(v) % m) + ((Abs(v) \div m) % Digit) * m
    BY <1>0, <1>2, <2>2, <2>4, OneDigitMore
  <2> QED
    BY <2>4, <2>5, <2>6 DEF m, w
<1>4. ASSUME NEW i \in 2 .. n
      PROVE  low[i] = low[i - 1] + (ByteAt(buffer, i) % Digit) * 4 * Digit ^ (i - 2)
  <2>1. low[i] = Abs(v) % (4 * Weight(i - 1))
    BY <1>0, <1>2
  <2>2. low[i - 1] = Abs(v) % (4 * Weight(i - 2))
    <3>1. CASE i = 2
      BY <1>0, <1>2, <3>1, Weights
    <3>2. CASE i > 2
      <4>1. i - 1 \in 0 .. n /\ ~(i - 1 <= 1) /\ (i - 1) - 1 = i - 2
        BY <1>2, <3>2
      <4> QED
        BY <4>1
    <3> QED
      BY <3>1, <3>2
  <2>3. /\ i - 2 \in 0 .. 5 /\ Weight(i - 2) \in Nat /\ ByteAt(buffer, i) \in Nat
        /\ Digit \in Nat \ {0}
    <3>1. ByteAt(buffer, i) \in 64 .. 127
      BY <1>a
    <3>2. i - 2 \in 0 .. 5
      BY <1>2
    <3>3. Weight(i - 2) \in Nat /\ Digit \in Nat \ {0}
      BY <3>2, Weights
    <3> QED
      BY <3>1, <3>2, <3>3
  <2>4. (ByteAt(buffer, i) % Digit) * (4 * Weight(i - 2))
            = (ByteAt(buffer, i) % Digit) * 4 * Digit ^ (i - 2)
    BY <2>3 DEF Weight
  <2> HIDE DEF low
  <2> QED
    BY <1>3, <2>1, <2>2, <2>4
<1>5. low[0] = Abs(v) % 4 /\ low[1] = Abs(v) % 4 /\ DOMAIN low = 0 .. n
  BY <1>0, <1>2
<1>6. Loop(low)
  <2>1. low = [i \in 0 .. n |-> low[i]]
    BY <1>5
  <2>2. ASSUME NEW i \in 0 .. n
        PROVE  low[i] = IF i <= 1 THEN first % 4
                        ELSE low[i - 1] + (ByteAt(buffer, i) % Digit) * 4 * Digit ^ (i - 2)
    <3> HIDE DEF low
    <3> QED
      BY <1>0, <1>2, <1>4, <1>5
  <2> HIDE DEF low
  <2> QED
    BY <2>1, <2>2
<1>7. PICK F : Loop(F) /\ F = CHOOSE G : Loop(G)
  BY <1>6, Zenon
<1>8. DecodeWired(buffer) = IF v < 0 THEN ToInt(-ToInt(F[n])) ELSE ToInt(F[n])
  <2>1. DecodeWired(buffer) = IF (first \div 4) % 2 = 1 THEN ToInt(-ToInt(F[n])) ELSE ToInt(F[n])
    <3> DEFINE loop == CHOOSE G : Loop(G)
    <3> HIDE DEF low
    <3>1. DecodeWired(buffer) = IF (first \div 4) % 2 = 1 THEN ToInt(-ToInt(loop[n]))
                                ELSE ToInt(loop[n])
      BY DEF DecodeWired, n, first
    <3>2. F = loop
      BY <1>7
    <3> HIDE DEF loop
    <3> QED
      BY <3>1, <3>2
  <2> QED
    BY <1>2, <2>1
<1>9. F[1] = low[1]
  BY <1>0, <1>2, <1>5, <1>7
<1>10. ASSUME NEW i \in 2 .. n, F[i - 1] = low[i - 1] PROVE F[i] = low[i]
  <2>1. F[i] = F[i - 1] + (ByteAt(buffer, i) % Digit) * 4 * Digit ^ (i - 2)
    BY <1>0, <1>2, <1>7
  <2> QED
    BY <1>4, <1>10, <2>1
<1>11. F[n] = low[n]
  <2> HIDE DEF Loop, n
  <2>1. \A i \in 1 .. 5 : i + 1 <= n /\ F[i] = low[i] => F[i + 1] = low[i + 1]
    <3> SUFFICES ASSUME NEW i \in 1 .. 5, i + 1 <= n, F[i] = low[i]
                 PROVE  F[i + 1] = low[i + 1]
      OBVIOUS
    <3>1. i + 1 \in 2 .. n /\ (i + 1) - 1 = i
      BY <1>0, <1>2
    <3> QED
      BY <1>10, <3>1
  <2>2. n >= 2 => F[2] = low[2]
    BY <1>9, <2>1
  <2>3. n >= 3 => F[3] = low[3]
    BY <1>0, <1>2, <2>1, <2>2
  <2>4. n >= 4 => F[4] = low[4]
    BY <1>0, <1>2, <2>1, <2>3
  <2>5. n >= 5 => F[5] = low[5]
    BY <1>0, <1>2, <2>1, <2>4
  <2>6. n >= 6 => F[6] = low[6]
    BY <1>0, <1>2, <2>1, <2>5
  <2> QED
    BY <1>0, <1>2, <1>9, <2>2, <2>3, <2>4, <2>5, <2>6
<1>12. low[n] = Abs(v)
  <2>1. Abs(v) < 4 * Weight(n - 1)
    BY <1>2, WiredFits
  <2>2. low[n] = Abs(v) % (4 * Weight(n - 1))
    <3>1. CASE n = 1
      BY <1>0, <3>1, Weights DEF low
    <3>2. CASE n > 1
      BY <1>2, <3>2 DEF low
    <3> QED
      BY <1>2, <3>1, <3>2
  <2>3. 4 * Weight(n - 1) \in Nat \ {0}
    <3>1. n - 1 \in 0 .. 5
      BY <1>2
    <3>2. Weight(n - 1) \in Nat \ {0}
      BY <3>1, Weights
    <3> QED
      BY <3>2
  <2> DEFINE m == 4 * Weight(n - 1)
  <2> HIDE DEF m, low
  <2>4. m \in Nat \ {0} /\ Abs(v) < m /\ low[n] = Abs(v) % m
    BY <2>1, <2>2, <2>3 DEF m
  <2> QED
    BY <1>0, <2>4
<1> QED
  BY <1>8, <1>11, <1>12

(* What comes back of a number that its reader can hold.                   *)
THEOREM WiredInverse ==
    ASSUME NEW v \in Int, WiredLength(v) <= WiredSize, NEW buffer,
           \A i \in 1 .. WiredLength(v) : ByteAt(buffer, i) = EncodeWired(v)[i]
    PROVE  /\ DecodeWired(buffer) \in Int
           /\ Abs(v) < Span \div 2 => DecodeWired(buffer) = v
           /\ v \in 0 .. Span - 1 => ToUint(DecodeWired(buffer)) = v
<1>1. Abs(v) \in Nat /\ ToInt(Abs(v)) \in Int /\ -ToInt(Abs(v)) \in Int
  BY WiredFits, IntRange
<1>2. DecodeWired(buffer) = IF v < 0 THEN ToInt(-ToInt(Abs(v))) ELSE ToInt(Abs(v))
  BY DecodedWired
<1>3. DecodeWired(buffer) \in Int
  BY <1>1, <1>2, IntRange
<1>4. ASSUME Abs(v) < Span \div 2 PROVE DecodeWired(buffer) = v
  <2>1. Abs(Abs(v)) = Abs(v) /\ Abs(-Abs(v)) = Abs(v) /\ (v < 0 => -Abs(v) = v)
        /\ (v >= 0 => Abs(v) = v) /\ -Abs(v) \in Int
    BY DEF Abs
  <2>2. ToInt(Abs(v)) = Abs(v) /\ ToInt(-Abs(v)) = -Abs(v)
    BY <1>1, <1>4, <2>1, IntRange
  <2> QED
    BY <1>2, <2>1, <2>2
<1>5. ASSUME v \in 0 .. Span - 1 PROVE ToUint(DecodeWired(buffer)) = v
  <2>1. ~(v < 0) /\ Abs(v) = v
    BY <1>5, Weights DEF Abs
  <2> QED
    BY <1>2, <1>5, <2>1, IntRange
<1> QED
  BY <1>3, <1>4, <1>5
-----------------------------------------------------------------------------
(* What packets are made of. *)

FieldOf(kind, values) == [kind : {kind}, value : values, end : Nat]

FieldType ==
    FieldOf("wired", Int) \union FieldOf("base64", Nat)
        \union FieldOf("string", Seq(32 .. 126)) \union FieldOf("flag", {0, 1})

Bytes(f) ==
    CASE f.kind = "wired"  -> EncodeWired(f.value)
      [] f.kind = "base64" -> EncodeBase64(f.value)
      [] f.kind = "string" -> EncodeBase64(Len(f.value)) \o f.value
      [] f.kind = "flag"   -> <<64 + f.value>>

(* How many bytes are before a field. *)
Start(k) == IF k = 1 THEN 2 ELSE fields[k - 1].end

Overrun(f) == f.kind = "wired" /\ WiredLength(f.value) > WiredSize

ReadBy(function) ==
    CASE function \in {"int", "uint", "bool"} -> "wired"
      [] function \in {"base64", "skip"} -> "base64"
      [] function = "string" -> "string"
      [] function = "flag" -> "flag"

Functions == {"int", "uint", "bool", "base64", "skip", "string", "flag"}

IsSequence(s) == Len(s) \in Nat /\ s = [i \in 1 .. Len(s) |-> s[i]]

(* Field k is where it ends less its bytes. *)
Placed(k) ==
    /\ Start(k) \in 2 .. Len(m_Storage)
    /\ fields[k].end = Start(k) + Len(Bytes(fields[k])) /\ fields[k].end <= Len(m_Storage)
    /\ \A j \in 1 .. Len(Bytes(fields[k])) : m_Storage[Start(k) + j] = Bytes(fields[k])[j]

(* The storage is the header and the fields, one behind the other. *)
Written ==
    /\ header \in Nat /\ m_Storage \in Seq(0 .. 255) /\ Len(m_Storage) >= 2
    /\ \A j \in 1 .. 2 : m_Storage[j] = EncodeBase64(header)[j]
    /\ fields \in Seq(FieldType) /\ Len(fields) <= MaxFields
    /\ Start(Len(fields) + 1) = Len(m_Storage)
    /\ \A k \in 1 .. Len(fields) : Placed(k)
    /\ \A k \in 1 .. Len(fields) : Overrun(fields[k]) <=> stage = "overrun" /\ k = Len(fields)
    /\ stage = "overrun" => Len(fields) > 0

Unsent == m_Header = 0 /\ m_Content = <<>> /\ m_ReadPosition = 0 /\ results = <<>>

Received ==
    /\ m_Header = header % (Digit ^ 2)
    /\ m_Content = SubSeq(m_Storage, 3, Len(m_Storage))

(* The packet the client holds is that storage. *)
Parsed ==
    /\ stage \in {"writing", "reading", "thrown", "overrun", "overread", "unterminated"}
    /\ stage \in {"writing", "overrun"} => Unsent
    /\ stage \in {"reading", "thrown", "overread"} => Received
    /\ stage = "unterminated" => Unsent \/ Received

(* The reader is at the field whose turn it is, if what it read did fit.   *)
Followed ==
    /\ IsSequence(results) /\ Len(results) <= Len(fields) /\ m_ReadPosition \in Int
    /\ \A i \in 1 .. Len(results) :
           results[i].by \in Functions /\ ReadBy(results[i].by) = fields[i].kind
    /\ AllFit => /\ stage \notin {"thrown", "overread"}
                 /\ stage = "reading" => m_ReadPosition = Start(Len(results) + 1) - 2
                 /\ stage = "unterminated" /\ results # <<>> =>
                        m_ReadPosition = Start(Len(results) + 1) - 2
                 /\ \A i \in 1 .. Len(results) : results[i].value = Meant(i)

IInv == Written /\ Parsed /\ Followed
-----------------------------------------------------------------------------
(* Sequences. *)

LEMMA SeqWider ==
    ASSUME NEW S, NEW T, S \subseteq T, NEW s \in Seq(S)
    PROVE  s \in Seq(T)
<1>1. Len(s) \in Nat /\ s \in [1 .. Len(s) -> S]
  BY LenProperties
<1>2. s \in [1 .. Len(s) -> T]
  BY <1>1
<1> QED
  BY <1>1, <1>2

LEMMA Elements ==
    ASSUME NEW S, NEW s \in Seq(S)
    PROVE  \A i \in DOMAIN s : s[i] \in S
  BY LenProperties

LEMMA AppendedAny ==
    ASSUME NEW s, IsSequence(s), NEW r
    PROVE  /\ IsSequence(Append(s, r)) /\ Len(Append(s, r)) = Len(s) + 1
           /\ DOMAIN s = 1 .. Len(s) /\ DOMAIN Append(s, r) = 1 .. Len(s) + 1
           /\ \A i \in 1 .. Len(s) : Append(s, r)[i] = s[i]
           /\ Append(s, r)[Len(s) + 1] = r
<1> DEFINE S == {s[i] : i \in 1 .. Len(s)} \union {r}
<1>1. s \in [1 .. Len(s) -> S] /\ Len(s) \in Nat
  BY DEF IsSequence
<1>2. s \in Seq(S) /\ r \in S
  BY <1>1
<1> HIDE DEF S
<1>3. /\ Append(s, r) \in Seq(S) /\ Len(Append(s, r)) = Len(s) + 1
      /\ \A i \in 1 .. Len(s) : Append(s, r)[i] = s[i]
      /\ Append(s, r)[Len(s) + 1] = r
  BY <1>2, AppendProperties
<1>4. DOMAIN s = 1 .. Len(s)
  BY <1>2, LenProperties
<1>5. Append(s, r) \in [1 .. Len(Append(s, r)) -> S] /\ Len(Append(s, r)) \in Nat
  BY <1>3, LenProperties
<1>6. DOMAIN Append(s, r) = 1 .. Len(s) + 1 /\ IsSequence(Append(s, r))
  BY <1>3, <1>5 DEF IsSequence
<1> QED
  BY <1>3, <1>4, <1>6

(* A part of a text from position p on, and its rest.                      *)
LEMMA Parts ==
    ASSUME NEW S, NEW s \in Seq(S), NEW p \in 0 .. Len(s), NEW q \in p .. Len(s)
    PROVE  /\ SubSeq(s, p + 1, q) \in Seq(S) /\ Len(SubSeq(s, p + 1, q)) = q - p
           /\ \A j \in 1 .. q - p : SubSeq(s, p + 1, q)[j] = s[p + j]
<1>1. Len(s) \in Nat
  BY LenProperties
<1>2. p + 1 \in Int /\ q \in Int
  BY <1>1
<1>3. \A i \in p + 1 .. q : s[i] \in S
  BY <1>1, ElementOfSeq
<1>4. /\ SubSeq(s, p + 1, q) \in Seq(S)
      /\ Len(SubSeq(s, p + 1, q)) = IF p + 1 <= q THEN q - (p + 1) + 1 ELSE 0
      /\ \A i \in 1 .. q - (p + 1) + 1 : SubSeq(s, p + 1, q)[i] = s[(p + 1) + i - 1]
  BY <1>2, <1>3, SubSeqProperties
<1>5. ASSUME NEW j \in 1 .. q - p PROVE SubSeq(s, p + 1, q)[j] = s[p + j]
  <2>1. j \in 1 .. q - (p + 1) + 1 /\ (p + 1) + j - 1 = p + j
    BY <1>1
  <2>2. SubSeq(s, p + 1, q)[j] = s[(p + 1) + j - 1]
    BY <1>4, <2>1
  <2> QED
    BY <2>1, <2>2
<1>6. Len(SubSeq(s, p + 1, q)) = q - p
  BY <1>1, <1>4
<1> QED
  BY <1>4, <1>5, <1>6
-----------------------------------------------------------------------------
(* Fields. *)

LEMMA FieldFacts ==
    ASSUME NEW f \in FieldType
    PROVE  /\ f.kind \in {"wired", "base64", "string", "flag"} /\ f.end \in Nat
           /\ f.kind = "wired" => f.value \in Int /\ Bytes(f) = EncodeWired(f.value)
           /\ f.kind = "base64" => f.value \in Nat /\ Bytes(f) = EncodeBase64(f.value)
           /\ f.kind = "string" => /\ f.value \in Seq(32 .. 126)
                                   /\ Bytes(f) = EncodeBase64(Len(f.value)) \o f.value
           /\ f.kind = "flag" => f.value \in {0, 1} /\ Bytes(f) = <<64 + f.value>>
<1>1. CASE f \in FieldOf("wired", Int)
  BY <1>1 DEF FieldOf, Bytes
<1>2. CASE f \in FieldOf("base64", Nat)
  BY <1>2 DEF FieldOf, Bytes
<1>3. CASE f \in FieldOf("string", Seq(32 .. 126))
  BY <1>3 DEF FieldOf, Bytes
<1>4. CASE f \in FieldOf("flag", {0, 1})
  BY <1>4 DEF FieldOf, Bytes
<1> QED
  BY <1>1, <1>2, <1>3, <1>4 DEF FieldType

(* The bytes of a string: its length, and the text behind it.              *)
LEMMA StringBytes ==
    ASSUME NEW text \in Seq(32 .. 126)
    PROVE  /\ EncodeBase64(Len(text)) \o text \in Seq(0 .. 255)
           /\ Len(EncodeBase64(Len(text)) \o text) = 2 + Len(text)
           /\ \A j \in 1 .. 2 : (EncodeBase64(Len(text)) \o text)[j]
                                    = EncodeBase64(Len(text))[j]
           /\ \A j \in 1 .. Len(text) : (EncodeBase64(Len(text)) \o text)[2 + j] = text[j]
<1>1. Len(text) \in Nat
  BY LenProperties
<1> DEFINE code == EncodeBase64(Len(text))
<1>2. code \in Seq(64 .. 127) /\ Len(code) = 2
  BY <1>1, EncodedBase64
<1> HIDE DEF code
<1>3. code \in Seq(0 .. 255) /\ text \in Seq(0 .. 255)
  <2>1. 64 .. 127 \subseteq 0 .. 255 /\ 32 .. 126 \subseteq 0 .. 255
    OBVIOUS
  <2> QED
    BY <1>2, <2>1, SeqWider
<1>4. /\ code \o text \in Seq(0 .. 255) /\ Len(code \o text) = 2 + Len(text)
      /\ \A i \in 1 .. 2 + Len(text) : (code \o text)[i] =
                IF i <= 2 THEN code[i] ELSE text[i - 2]
  <2>1. /\ code \o text \in Seq(0 .. 255) /\ Len(code \o text) = Len(code) + Len(text)
        /\ \A i \in 1 .. Len(code) + Len(text) : (code \o text)[i] =
                  IF i <= Len(code) THEN code[i] ELSE text[i - Len(code)]
    BY <1>3, ConcatProperties
  <2> QED
    BY <1>2, <2>1
<1>5. \A j \in 1 .. 2 : (code \o text)[j] = code[j]
  BY <1>1, <1>4
<1>6. ASSUME NEW j \in 1 .. Len(text) PROVE (code \o text)[2 + j] = text[j]
  <2>1. 2 + j \in 1 .. 2 + Len(text) /\ ~(2 + j <= 2) /\ (2 + j) - 2 = j
    BY <1>1
  <2> QED
    BY <1>4, <2>1
<1> QED
  BY <1>4, <1>5, <1>6 DEF code

LEMMA BytesFacts ==
    ASSUME NEW f \in FieldType
    PROVE  Bytes(f) \in Seq(0 .. 255) /\ Len(Bytes(f)) \in Nat \ {0}
<1>1. 64 .. 127 \subseteq 0 .. 255
  OBVIOUS
<1>2. CASE f.kind = "wired"
  <2>1. EncodeWired(f.value) \in Seq(64 .. 127)
        /\ Len(EncodeWired(f.value)) = WiredLength(f.value)
    BY <1>2, FieldFacts, EncodedWired
  <2>2. WiredLength(f.value) \in 1 .. 7
    BY WiredLengths DEF WiredSize
  <2>3. EncodeWired(f.value) \in Seq(0 .. 255)
    BY <1>1, <2>1, SeqWider
  <2>4. Bytes(f) = EncodeWired(f.value)
    BY <1>2, FieldFacts
  <2> QED
    BY <2>1, <2>2, <2>3, <2>4
<1>3. CASE f.kind = "base64"
  <2>1. EncodeBase64(f.value) \in Seq(64 .. 127) /\ Len(EncodeBase64(f.value)) = 2
    BY <1>3, FieldFacts, EncodedBase64
  <2>2. EncodeBase64(f.value) \in Seq(0 .. 255)
    BY <1>1, <2>1, SeqWider
  <2>3. Bytes(f) = EncodeBase64(f.value)
    BY <1>3, FieldFacts
  <2> QED
    BY <2>1, <2>2, <2>3
<1>4. CASE f.kind = "string"
  <2>1. f.value \in Seq(32 .. 126) /\ Bytes(f) = EncodeBase64(Len(f.value)) \o f.value
    BY <1>4, FieldFacts
  <2>2. Len(f.value) \in Nat
    BY <2>1, LenProperties
  <2> DEFINE bytes == EncodeBase64(Len(f.value)) \o f.value
  <2>3. bytes \in Seq(0 .. 255) /\ Len(bytes) = 2 + Len(f.value)
    BY <2>1, StringBytes
  <2> HIDE DEF bytes
  <2>4. Bytes(f) = bytes
    BY <2>1 DEF bytes
  <2> QED
    BY <2>2, <2>3, <2>4
<1>5. CASE f.kind = "flag"
  <2>1. f.value \in {0, 1} /\ Bytes(f) = <<64 + f.value>>
    BY <1>5, FieldFacts
  <2> QED
    BY <2>1
<1>6. f.kind \in {"wired", "base64", "string", "flag"}
  BY FieldFacts
<1> QED
  BY <1>2, <1>3, <1>4, <1>5, <1>6
-----------------------------------------------------------------------------
(* Writing. *)

LEMMA Begun == Init => IInv
<1> SUFFICES ASSUME Init PROVE IInv
  OBVIOUS
<1>1. header \in Nat /\ EncodeBase64(header) \in Seq(64 .. 127) /\ Len(EncodeBase64(header)) = 2
  <2>1. header \in Nat
    BY PacketsAssumption DEF Init
  <2> QED
    BY <2>1, EncodedBase64
<1>2. m_Storage \in Seq(0 .. 255) /\ Len(m_Storage) = 2
  <2>1. 64 .. 127 \subseteq 0 .. 255
    OBVIOUS
  <2>2. EncodeBase64(header) \in Seq(0 .. 255)
    BY <1>1, <2>1, SeqWider
  <2> QED
    BY <1>1, <2>2 DEF Init
<1>3. fields = <<>> /\ Len(fields) = 0 /\ fields \in Seq(FieldType)
  BY DEF Init
<1>4. Written
  <2>1. Start(Len(fields) + 1) = Len(m_Storage)
    BY <1>2, <1>3 DEF Start
  <2>2. MaxFields \in Nat
    BY PacketsAssumption
  <2> QED
    BY <1>1, <1>2, <1>3, <2>1, <2>2 DEF Written, Init
<1>5. Parsed
  BY DEF Parsed, Unsent, Init
<1>6. Followed
  <2>1. IsSequence(results) /\ Len(results) = 0
    BY DEF Init, IsSequence
  <2> QED
    BY <1>3, <2>1 DEF Followed, Init
<1> QED
  BY <1>4, <1>5, <1>6 DEF IInv

NewField(kind, value, bytes) ==
    [kind |-> kind, value |-> value, end |-> Len(m_Storage) + Len(bytes)]

LEMMA FieldAppended ==
    ASSUME IInv, NEW kind, NEW value, NEW bytes,
           NewField(kind, value, bytes) \in FieldType,
           bytes = Bytes(NewField(kind, value, bytes)),
           AppendField(kind, value, bytes),
           stage' = IF Overrun(NewField(kind, value, bytes)) THEN "overrun" ELSE stage
    PROVE  IInv'
<1> DEFINE f == NewField(kind, value, bytes)
<1>0. PICK n : n = Len(fields)
  OBVIOUS
<1>1. /\ header \in Nat /\ m_Storage \in Seq(0 .. 255) /\ Len(m_Storage) >= 2
      /\ \A j \in 1 .. 2 : m_Storage[j] = EncodeBase64(header)[j]
      /\ fields \in Seq(FieldType) /\ n <= MaxFields
      /\ Start(n + 1) = Len(m_Storage)
      /\ \A k \in 1 .. n : Placed(k)
      /\ \A k \in 1 .. n : ~Overrun(fields[k])
      /\ stage = "writing" /\ n < MaxFields
      /\ m_Header = 0 /\ m_Content = <<>> /\ m_ReadPosition = 0 /\ results = <<>>
  BY <1>0 DEF IInv, Written, Parsed, Unsent, AppendField
<1>2. f \in FieldType /\ bytes = Bytes(f) /\ bytes \in Seq(0 .. 255) /\ Len(bytes) \in Nat \ {0}
      /\ f.end = Len(m_Storage) + Len(bytes)
  <2>1. f \in FieldType /\ bytes = Bytes(f)
    OBVIOUS
  <2>2. bytes \in Seq(0 .. 255) /\ Len(bytes) \in Nat \ {0}
    BY <2>1, BytesFacts
  <2> QED
    BY <2>1, <2>2 DEF NewField
<1>3. Len(m_Storage) \in Nat /\ n \in Nat
  BY <1>0, <1>1, LenProperties
<1>4. /\ m_Storage' \in Seq(0 .. 255) /\ Len(m_Storage') = Len(m_Storage) + Len(bytes)
      /\ \A i \in 1 .. Len(m_Storage) : m_Storage'[i] = m_Storage[i]
      /\ \A j \in 1 .. Len(bytes) : m_Storage'[Len(m_Storage) + j] = bytes[j]
  <2>1. m_Storage' = m_Storage \o bytes
    BY DEF AppendField
  <2>2. /\ m_Storage' \in Seq(0 .. 255) /\ Len(m_Storage') = Len(m_Storage) + Len(bytes)
        /\ \A i \in 1 .. Len(m_Storage) + Len(bytes) : m_Storage'[i] =
                  IF i <= Len(m_Storage) THEN m_Storage[i] ELSE bytes[i - Len(m_Storage)]
    BY <1>1, <1>2, <2>1, ConcatProperties
  <2>3. ASSUME NEW j \in 1 .. Len(bytes) PROVE m_Storage'[Len(m_Storage) + j] = bytes[j]
    <3>1. /\ Len(m_Storage) + j \in 1 .. Len(m_Storage) + Len(bytes)
          /\ ~(Len(m_Storage) + j <= Len(m_Storage))
          /\ (Len(m_Storage) + j) - Len(m_Storage) = j
      BY <1>2, <1>3
    <3> QED
      BY <2>2, <3>1
  <2>4. \A i \in 1 .. Len(m_Storage) : m_Storage'[i] = m_Storage[i]
    BY <1>2, <1>3, <2>2
  <2> QED
    BY <2>2, <2>3, <2>4
<1>5. /\ fields' \in Seq(FieldType) /\ Len(fields') = n + 1
      /\ \A k \in 1 .. n : fields'[k] = fields[k]
      /\ fields'[n + 1] = f
  <2>1. fields' = Append(fields, f)
    BY <1>4 DEF AppendField, NewField
  <2> HIDE DEF f
  <2> QED
    BY <1>0, <1>1, <1>2, <2>1, AppendProperties
<1> HIDE DEF f
<1>6. ASSUME NEW k \in 1 .. n + 1 PROVE Start(k)' = Start(k)
  <2>1. k # 1 => k - 1 \in 1 .. n
    BY <1>3
  <2> QED
    BY <1>5, <2>1 DEF Start
<1>7. Start(n + 2)' = f.end
  <2>1. n + 2 # 1 /\ (n + 2) - 1 = n + 1
    BY <1>3
  <2> QED
    BY <1>5, <2>1 DEF Start
<1>8. ASSUME NEW k \in 1 .. n PROVE Placed(k)'
  <2>1. /\ Start(k) \in 2 .. Len(m_Storage)
        /\ fields[k].end = Start(k) + Len(Bytes(fields[k])) /\ fields[k].end <= Len(m_Storage)
        /\ \A j \in 1 .. Len(Bytes(fields[k])) : m_Storage[Start(k) + j] = Bytes(fields[k])[j]
    BY <1>1 DEF Placed
  <2>2. Len(Bytes(fields[k])) \in Nat /\ fields[k].end \in Nat
    <3>1. fields[k] \in FieldType
      <4>1. k \in 1 .. Len(fields)
        BY <1>0
      <4> QED
        BY <1>1, <4>1, ElementOfSeq
    <3> QED
      BY <3>1, BytesFacts, FieldFacts
  <2>3. Start(k)' = Start(k) /\ fields'[k] = fields[k]
    BY <1>3, <1>5, <1>6
  <2>4. ASSUME NEW j \in 1 .. Len(Bytes(fields[k]))
        PROVE  m_Storage'[Start(k) + j] = Bytes(fields[k])[j]
    <3>1. Start(k) + j \in 1 .. Len(m_Storage)
      BY <1>3, <2>1, <2>2
    <3> QED
      BY <1>4, <2>1, <3>1
  <2>5. Bytes(fields[k])' = Bytes(fields[k])
    BY <2>3 DEF Bytes
  <2>6. Start(k) \in 2 .. Len(m_Storage') /\ fields[k].end <= Len(m_Storage')
    BY <1>2, <1>3, <1>4, <2>1, <2>2
  <2> QED
    BY <2>1, <2>3, <2>4, <2>5, <2>6 DEF Placed
<1>9. Placed(n + 1)'
  <2>1. Start(n + 1)' = Len(m_Storage)
    <3>1. n + 1 \in 1 .. n + 1
      BY <1>3
    <3> QED
      BY <1>1, <1>6, <3>1
  <2>2. fields'[n + 1] = f /\ Bytes(fields[n + 1])' = bytes
    BY <1>2, <1>5 DEF Bytes
  <2>3. Len(m_Storage) \in 2 .. Len(m_Storage') /\ f.end <= Len(m_Storage')
    BY <1>1, <1>2, <1>3, <1>4
  <2> QED
    BY <1>2, <1>4, <2>1, <2>2, <2>3 DEF Placed
<1>10. Overrun(fields[n + 1])' <=> stage' = "overrun"
  BY <1>1, <1>5 DEF Overrun, f
<1>11. ASSUME NEW k \in 1 .. n PROVE ~Overrun(fields[k])'
  BY <1>1, <1>5, <1>11 DEF Overrun
<1>12. Written'
  <2>1. header' = header
    BY DEF AppendField
  <2>2. \A j \in 1 .. 2 : m_Storage'[j] = EncodeBase64(header)[j]
    BY <1>1, <1>3, <1>4
  <2>3. Start(Len(fields) + 1)' = Len(m_Storage')
    <3>1. Len(fields') + 1 = n + 2
      BY <1>3, <1>5
    <3>2. Start(n + 2)' = Len(m_Storage')
      BY <1>2, <1>4, <1>7
    <3>3. Start(Len(fields) + 1)' = Start(n + 2)'
      BY <1>5, <1>7, <3>1 DEF Start
    <3> QED
      BY <3>2, <3>3
  <2>4. \A k \in 1 .. Len(fields') : Placed(k)'
    <3>1. \A k \in 1 .. Len(fields') : k \in 1 .. n \/ k = n + 1
      BY <1>3, <1>5
    <3> QED
      BY <1>8, <1>9, <3>1
  <2>5. \A k \in 1 .. Len(fields') :
            Overrun(fields[k])' <=> stage' = "overrun" /\ k = Len(fields')
    <3>1. \A k \in 1 .. Len(fields') : (k \in 1 .. n /\ k # n + 1) \/ k = n + 1
      BY <1>3, <1>5
    <3> QED
      BY <1>5, <1>10, <1>11, <3>1
  <2>6. Len(m_Storage') >= 2 /\ Len(fields') <= MaxFields /\ Len(fields') > 0
    <3>1. MaxFields \in Nat
      BY PacketsAssumption
    <3> QED
      BY <1>1, <1>2, <1>3, <1>4, <1>5, <3>1
  <2> QED
    BY <1>1, <1>4, <1>5, <2>1, <2>2, <2>3, <2>4, <2>5, <2>6 DEF Written
<1>13. Parsed'
  BY <1>1 DEF Parsed, Unsent, AppendField, reader
<1>14. Followed'
  <2>1. results' = <<>> /\ m_ReadPosition' = 0 /\ stage' \in {"writing", "overrun"}
    BY <1>1 DEF AppendField, reader
  <2>2. IsSequence(results)' /\ Len(results') = 0 /\ Len(results') <= Len(fields')
    BY <1>3, <1>5, <2>1 DEF IsSequence
  <2> QED
    BY <2>1, <2>2 DEF Followed
<1> QED
  BY <1>12, <1>13, <1>14 DEF IInv

LEMMA WrittenKept ==
    ASSUME Written, UNCHANGED writer, stage = "overrun" <=> stage' = "overrun"
    PROVE  Written'
<1>1. UNCHANGED <<m_Storage, header, fields>>
  BY DEF writer
<1>2. \A k : Start(k)' = Start(k)
  BY <1>1 DEF Start
<1>3. \A k : Placed(k)' <=> Placed(k)
  BY <1>1, <1>2 DEF Placed, Bytes
<1>4. \A k : Overrun(fields[k])' <=> Overrun(fields[k])
  BY <1>1 DEF Overrun
<1>5. Start(Len(fields) + 1)' = Start(Len(fields) + 1)
  BY <1>1 DEF Start
<1> QED
  BY <1>1, <1>3, <1>4, <1>5 DEF Written

LEMMA Constructed ==
    ASSUME IInv, Construct PROVE IInv'
<1>1. /\ stage = "writing" /\ stage' = "reading"
      /\ m_Header' = DecodeBase64(SubSeq(m_Storage, 1, 2))
      /\ m_Content' = SubSeq(m_Storage, 3, Len(m_Storage))
      /\ UNCHANGED <<m_ReadPosition, results, m_Storage, header, fields>>
  BY DEF Construct, writer
<1>2. Written'
  BY <1>1, WrittenKept DEF IInv, writer
<1>3. m_Header' = header % (Digit ^ 2)
  <2>1. /\ header \in Nat /\ m_Storage \in Seq(0 .. 255) /\ Len(m_Storage) >= 2
        /\ \A j \in 1 .. 2 : m_Storage[j] = EncodeBase64(header)[j]
    BY DEF IInv, Written
  <2> DEFINE b == SubSeq(m_Storage, 1, 2)
  <2>2. b \in Seq(0 .. 255) /\ Len(b) = 2 /\ b[1] = m_Storage[1] /\ b[2] = m_Storage[2]
    <3>1. Len(m_Storage) \in Nat
      BY <2>1, LenProperties
    <3>2. \A i \in 1 .. 2 : m_Storage[i] \in 0 .. 255
      <4>1. \A i \in 1 .. 2 : i \in 1 .. Len(m_Storage)
        BY <2>1, <3>1
      <4> QED
        BY <2>1, <4>1, ElementOfSeq
    <3>3. /\ b \in Seq(0 .. 255) /\ Len(b) = 2
          /\ \A i \in 1 .. 2 - 1 + 1 : b[i] = m_Storage[1 + i - 1]
      BY <3>2, SubSeqProperties
    <3> QED
      BY <3>3
  <2> HIDE DEF b
  <2>3. DecodeBase64(b) = header % (Digit ^ 2)
    <3>1. b[1] = EncodeBase64(header)[1] /\ b[2] = EncodeBase64(header)[2]
      BY <2>1, <2>2
    <3> QED
      BY <2>1, <2>2, <3>1, EncodedBase64
  <2> QED
    BY <1>1, <2>3 DEF b
<1>4. Parsed'
  BY <1>1, <1>3 DEF Parsed, Received
<1>5. Followed'
  <2>1. /\ results = <<>> /\ m_ReadPosition = 0 /\ IsSequence(results) /\ Len(results) = 0
        /\ Len(results) <= Len(fields)
    BY <1>1 DEF IInv, Parsed, Unsent, Followed, IsSequence
  <2>2. Start(Len(results) + 1)' = 2
    BY <1>1, <2>1 DEF Start
  <2>3. IsSequence(results)'
    BY <1>1, <2>1 DEF IsSequence
  <2> QED
    BY <1>1, <2>1, <2>2, <2>3 DEF Followed
<1> QED
  BY <1>2, <1>4, <1>5 DEF IInv
-----------------------------------------------------------------------------
(* Where the reader is. *)

LEMMA ContentFacts ==
    ASSUME IInv
    PROVE  /\ m_Content \in Seq(0 .. 255) /\ Len(m_Content) \in Nat
           /\ stage = "reading" =>
                  /\ Len(m_Content) = Len(m_Storage) - 2
                  /\ \A x \in 1 .. Len(m_Content) : m_Content[x] = m_Storage[x + 2]
<1>1. CASE ~Received
  <2>1. m_Content = <<>> /\ stage # "reading"
    BY <1>1 DEF IInv, Parsed, Unsent
  <2> QED
    BY <1>1, <2>1
<1>2. CASE Received
  <2>1. /\ m_Content = SubSeq(m_Storage, 3, Len(m_Storage))
        /\ m_Storage \in Seq(0 .. 255) /\ Len(m_Storage) >= 2
    BY <1>2 DEF IInv, Received, Written
  <2>2. Len(m_Storage) \in Nat
    BY <2>1, LenProperties
  <2>3. \A i \in 3 .. Len(m_Storage) : m_Storage[i] \in 0 .. 255
    <3>1. \A i \in 3 .. Len(m_Storage) : i \in 1 .. Len(m_Storage)
      BY <2>2
    <3> QED
      BY <2>1, <3>1, ElementOfSeq
  <2>4. /\ m_Content \in Seq(0 .. 255)
        /\ Len(m_Content) = IF 3 <= Len(m_Storage) THEN Len(m_Storage) - 3 + 1 ELSE 0
        /\ \A i \in 1 .. Len(m_Storage) - 3 + 1 : m_Content[i] = m_Storage[3 + i - 1]
    BY <2>1, <2>2, <2>3, SubSeqProperties
  <2>5. Len(m_Content) = Len(m_Storage) - 2
    <3> DEFINE all  == Len(m_Storage)
               left == Len(m_Content)
    <3>1. all \in Nat /\ all >= 2 /\ left = IF 3 <= all THEN all - 3 + 1 ELSE 0
      BY <2>1, <2>2, <2>4
    <3> HIDE DEF all, left
    <3>2. left = all - 2
      <4>1. CASE 3 <= all
        BY <3>1, <4>1
      <4>2. CASE all = 2
        BY <3>1, <4>2
      <4> QED
        BY <3>1, <4>1, <4>2
    <3> QED
      BY <3>2 DEF all, left
  <2>6. ASSUME NEW x \in 1 .. Len(m_Content) PROVE m_Content[x] = m_Storage[x + 2]
    <3>1. x \in 1 .. Len(m_Storage) - 3 + 1 /\ 3 + x - 1 = x + 2
      BY <2>2, <2>5
    <3> QED
      BY <2>4, <3>1
  <2>7. Len(m_Content) \in Nat
    BY <2>1, <2>2, <2>5
  <2> QED
    BY <2>4, <2>5, <2>6, <2>7
<1> QED
  BY <1>1, <1>2

LEMMA Aligned ==
    ASSUME IInv, AllFit, stage = "reading", Len(results) < Len(fields)
    PROVE  /\ Field \in FieldType /\ ~Overrun(Field) /\ Len(Bytes(Field)) \in Nat \ {0}
           /\ m_ReadPosition \in 0 .. Len(m_Content)
           /\ m_ReadPosition + Len(Bytes(Field)) = Field.end - 2
           /\ m_ReadPosition + Len(Bytes(Field)) <= Len(m_Content)
           /\ \A j \in 1 .. Len(Bytes(Field)) :
                  m_Content[m_ReadPosition + j] = Bytes(Field)[j]
<1> DEFINE k == Len(results) + 1
           p == m_ReadPosition
<1>1. k \in 1 .. Len(fields)
  <2>1. Len(fields) \in Nat /\ Len(results) \in Nat
    BY LenProperties DEF IInv, Written, Followed, IsSequence
  <2> QED
    BY <2>1
<1>2. Field = fields[k] /\ Field \in FieldType
  BY <1>1, ElementOfSeq DEF IInv, Written, Field
<1>3. /\ Start(k) \in 2 .. Len(m_Storage)
      /\ Field.end = Start(k) + Len(Bytes(Field)) /\ Field.end <= Len(m_Storage)
      /\ \A j \in 1 .. Len(Bytes(Field)) : m_Storage[Start(k) + j] = Bytes(Field)[j]
      /\ ~Overrun(Field) /\ p = Start(k) - 2
  <2>1. Placed(k) /\ ~Overrun(fields[k])
    BY <1>1 DEF IInv, Written
  <2>2. p = Start(k) - 2
    BY DEF IInv, Followed
  <2> QED
    BY <1>2, <2>1, <2>2 DEF Placed
<1>4. Len(Bytes(Field)) \in Nat \ {0}
  BY <1>2, BytesFacts
<1>5. Len(m_Storage) \in Nat
  BY LenProperties DEF IInv, Written
<1>6. /\ Len(m_Content) = Len(m_Storage) - 2
      /\ \A x \in 1 .. Len(m_Content) : m_Content[x] = m_Storage[x + 2]
  BY ContentFacts
<1> HIDE DEF k, p
<1>7. ASSUME NEW j \in 1 .. Len(Bytes(Field)) PROVE m_Content[p + j] = Bytes(Field)[j]
  <2>1. p + j \in 1 .. Len(m_Content) /\ (p + j) + 2 = Start(k) + j
    BY <1>3, <1>4, <1>5, <1>6
  <2> QED
    BY <1>3, <1>6, <2>1
<1>8. p \in 0 .. Len(m_Content) /\ p + Len(Bytes(Field)) = Field.end - 2
      /\ p + Len(Bytes(Field)) <= Len(m_Content)
  BY <1>3, <1>4, <1>5, <1>6
<1> QED
  BY <1>2, <1>3, <1>4, <1>7, <1>8 DEF p

(* The parts of the content that the reading functions look at.            *)
LEMMA Looked ==
    ASSUME IInv, NEW p \in 0 .. Len(m_Content)
    PROVE  /\ Rest(p) \in Seq(0 .. 255) /\ Len(Rest(p)) = Len(m_Content) - p
           /\ \A j \in 1 .. Len(m_Content) - p : Rest(p)[j] = m_Content[p + j]
           /\ \A n \in Nat : Substr(p, n) \in Seq(0 .. 255)
           /\ \A n \in Nat : Len(Substr(p, n)) <= n
           /\ \A n \in Nat : p + n <= Len(m_Content) =>
                  /\ Len(Substr(p, n)) = n
                  /\ \A j \in 1 .. n : Substr(p, n)[j] = m_Content[p + j]
<1>1. m_Content \in Seq(0 .. 255) /\ Len(m_Content) \in Nat
  BY ContentFacts
<1>2. Len(m_Content) \in p .. Len(m_Content)
  BY <1>1
<1>3. /\ Rest(p) \in Seq(0 .. 255) /\ Len(Rest(p)) = Len(m_Content) - p
      /\ \A j \in 1 .. Len(m_Content) - p : Rest(p)[j] = m_Content[p + j]
  BY <1>1, <1>2, Parts DEF Rest
<1>4. ASSUME NEW n \in Nat
      PROVE  /\ Substr(p, n) \in Seq(0 .. 255) /\ Len(Substr(p, n)) <= n
             /\ p + n <= Len(m_Content) =>
                    /\ Len(Substr(p, n)) = n
                    /\ \A j \in 1 .. n : Substr(p, n)[j] = m_Content[p + j]
  <2> DEFINE q == IF p + n > Len(m_Content) THEN Len(m_Content) ELSE p + n
  <2>1. q \in p .. Len(m_Content) /\ q - p <= n /\ (p + n <= Len(m_Content) => q - p = n)
    BY <1>1
  <2>2. Substr(p, n) = SubSeq(m_Content, p + 1, q)
    BY DEF Substr
  <2> HIDE DEF q
  <2>3. /\ Substr(p, n) \in Seq(0 .. 255) /\ Len(Substr(p, n)) = q - p
        /\ \A j \in 1 .. q - p : Substr(p, n)[j] = m_Content[p + j]
    <3> DEFINE part == SubSeq(m_Content, p + 1, q)
    <3>1. /\ part \in Seq(0 .. 255) /\ Len(part) = q - p
          /\ \A j \in 1 .. q - p : part[j] = m_Content[p + j]
      BY <1>1, <2>1, Parts
    <3> HIDE DEF part
    <3>2. Substr(p, n) = part
      BY <2>2 DEF part
    <3> QED
      BY <3>1, <3>2
  <2> QED
    BY <2>1, <2>3
<1> QED
  BY <1>3, <1>4
-----------------------------------------------------------------------------
(* Reading. *)

(* A field just read: what it fits and what it should be.                  *)
LEMMA JustRead ==
    ASSUME IInv, NEW function \in Functions, NEW value, NEW n \in Int,
           Read(ReadBy(function), function, value, n), NEW i, i = Len(results) + 1
    PROVE  /\ Fits(i)' =>
                  /\ function \in {"int", "bool"} => Abs(Field.value) < Span \div 2
                  /\ function = "uint" => Field.value \in 0 .. Span - 1
                  /\ function \in {"base64", "skip"} => Field.value < Digit ^ 2
                  /\ function = "string" => Len(Field.value) < Digit ^ 2
           /\ Meant(i)' = CASE function = "bool" -> IF Field.value = 1 THEN 1 ELSE 0
                            [] function = "skip" -> 0
                            [] OTHER -> Field.value
<1>1. results'[i] = [by |-> function, value |-> value]
  <2>1. IsSequence(results) /\ results' = Append(results, [by |-> function, value |-> value])
    BY DEF IInv, Followed, Read
  <2> QED
    BY <2>1, AppendedAny
<1>2. fields'[i] = Field /\ results'[i].by = function
  BY <1>1 DEF Read, writer, Field
<1>3. Fits(i)' =>
                  /\ function \in {"int", "bool"} => Abs(Field.value) < Span \div 2
                  /\ function = "uint" => Field.value \in 0 .. Span - 1
                  /\ function \in {"base64", "skip"} => Field.value < Digit ^ 2
                  /\ function = "string" => Len(Field.value) < Digit ^ 2
  BY <1>2 DEF Fits, Abs, Span
<1>4. Meant(i)' = CASE function = "bool" -> IF Field.value = 1 THEN 1 ELSE 0
                            [] function = "skip" -> 0
                            [] OTHER -> Field.value
  BY <1>2 DEF Meant, Functions
<1> QED
  BY <1>3, <1>4

(* Reading keeps the invariant if, for what fits, the value is the one     *)
(* meant and the bytes are the field's.                                    *)
LEMMA Moved ==
    ASSUME IInv, NEW function \in Functions, NEW value, NEW n \in Int,
           Read(ReadBy(function), function, value, n),
           \A i \in Nat : i = Len(results) + 1 /\ AllFit /\ Fits(i)'
               => n = Len(Bytes(Field)) /\ value = Meant(i)'
    PROVE  IInv'
<1>1. PICK i : i = Len(results) + 1
  OBVIOUS
<1>2. /\ stage = "reading" /\ stage' = stage
      /\ Len(results) < Len(fields) /\ Field.kind = ReadBy(function)
      /\ m_ReadPosition' = m_ReadPosition + n
      /\ results' = Append(results, [by |-> function, value |-> value])
      /\ UNCHANGED <<m_Header, m_Content, m_Storage, header, fields>>
  BY DEF Read, writer
<1>3. Written'
  BY <1>2, WrittenKept DEF IInv, writer
<1>4. Parsed'
  BY <1>2 DEF IInv, Parsed, Received
<1>5. /\ Len(results) \in Nat /\ i \in Nat /\ Len(fields) \in Nat /\ i <= Len(fields)
      /\ IsSequence(results') /\ Len(results') = i
      /\ DOMAIN results = 1 .. Len(results) /\ DOMAIN results' = 1 .. i
      /\ \A j \in 1 .. Len(results) : results'[j] = results[j]
      /\ results'[i] = [by |-> function, value |-> value]
  <2>1. IsSequence(results) /\ Len(fields) \in Nat
    BY LenProperties DEF IInv, Followed, Written
  <2>2. Len(results) \in Nat
    BY <2>1 DEF IsSequence
  <2>3. i \in Nat /\ i <= Len(fields)
    BY <1>1, <1>2, <2>1, <2>2
  <2>4. /\ IsSequence(results') /\ Len(results') = i
        /\ DOMAIN results = 1 .. Len(results) /\ DOMAIN results' = 1 .. i
        /\ \A j \in 1 .. Len(results) : results'[j] = results[j]
        /\ results'[i] = [by |-> function, value |-> value]
    BY <1>1, <1>2, <2>1, AppendedAny
  <2> QED
    BY <2>1, <2>2, <2>3, <2>4
<1>6. \A j \in 1 .. i : j \in 1 .. Len(results) \/ j = i
  BY <1>1, <1>5
<1>7. ASSUME NEW j \in 1 .. Len(results)
      PROVE  (Fits(j)' <=> Fits(j)) /\ Meant(j)' = Meant(j) /\ results'[j] = results[j]
  <2>1. results'[j] = results[j] /\ fields' = fields
    BY <1>2, <1>5
  <2> QED
    BY <2>1 DEF Fits, Meant
<1>8. \A j \in 1 .. i :
          results'[j].by \in Functions /\ ReadBy(results'[j].by) = fields'[j].kind
  <2>1. /\ \A j \in 1 .. Len(results) :
               results[j].by \in Functions /\ ReadBy(results[j].by) = fields[j].kind
    BY DEF IInv, Followed
  <2>2. fields[i] = Field
    BY <1>1 DEF Field
  <2>3. results'[i].by = function
    BY <1>5
  <2> QED
    BY <1>2, <1>6, <1>7, <2>1, <2>2, <2>3
<1>9. ASSUME AllFit'
      PROVE  /\ m_ReadPosition' = Start(i + 1)' - 2
             /\ \A j \in 1 .. i : results'[j].value = Meant(j)'
  <2>1. AllFit /\ Fits(i)'
    <3>1. \A j \in 1 .. i : Fits(j)'
      BY <1>5, <1>9 DEF AllFit
    <3>2. Fits(i)'
      BY <1>1, <1>5, <3>1
    <3>3. \A j \in 1 .. Len(results) : Fits(j)
      BY <1>1, <1>5, <1>7, <3>1
    <3> QED
      BY <1>5, <3>2, <3>3 DEF AllFit
  <2>2. n = Len(Bytes(Field)) /\ value = Meant(i)'
    BY <1>1, <1>5, <2>1
  <2>3. m_ReadPosition + Len(Bytes(Field)) = Field.end - 2
    BY <1>2, <2>1, Aligned
  <2>4. Start(i + 1)' = Field.end
    <3>1. i + 1 # 1 /\ (i + 1) - 1 = i
      BY <1>1, <1>5
    <3>2. fields'[i] = Field
      BY <1>1, <1>2 DEF Field
    <3> QED
      BY <3>1, <3>2 DEF Start
  <2>5. \A j \in 1 .. Len(results) : results[j].value = Meant(j)
    BY <2>1 DEF IInv, Followed
  <2>6. results'[i].value = value
    BY <1>5
  <2>7. m_ReadPosition' = Start(i + 1)' - 2
    BY <1>2, <2>2, <2>3, <2>4
  <2> QED
    BY <1>6, <1>7, <2>2, <2>5, <2>6, <2>7
<1>10. Followed'
  <2>1. m_ReadPosition' \in Int
    BY <1>2 DEF IInv, Followed
  <2>2. IsSequence(results)' /\ Len(results') = i /\ Len(results') <= Len(fields')
    BY <1>2, <1>5 DEF IsSequence
  <2>3. Start(Len(results) + 1)' = Start(i + 1)'
    BY <2>2 DEF Start
  <2>4. stage' \notin {"thrown", "overread"}
    BY <1>2
  <2> QED
    BY <1>8, <1>9, <2>1, <2>2, <2>3, <2>4 DEF Followed
<1> QED
  BY <1>3, <1>4, <1>10 DEF IInv

(* A wired field, where the reader is.                                     *)
LEMMA WiredHere ==
    ASSUME IInv, AllFit, stage = "reading", Len(results) < Len(fields), Field.kind = "wired"
    PROVE  /\ ~Short(Rest(m_ReadPosition)) /\ Field.value \in Int
           /\ Len(Bytes(Field)) = WiredLength(Field.value)
           /\ Abs(Field.value) < Span \div 2
                  => DecodeWired(Rest(m_ReadPosition)) = Field.value
           /\ Field.value \in 0 .. Span - 1
                  => ToUint(DecodeWired(Rest(m_ReadPosition))) = Field.value
<1> DEFINE v == Field.value
           p == m_ReadPosition
           size == WiredLength(v)
<1>1. /\ Field \in FieldType /\ ~Overrun(Field) /\ p \in 0 .. Len(m_Content)
      /\ p + Len(Bytes(Field)) <= Len(m_Content)
      /\ \A j \in 1 .. Len(Bytes(Field)) : m_Content[p + j] = Bytes(Field)[j]
  BY Aligned
<1>2. v \in Int /\ Bytes(Field) = EncodeWired(v)
  BY <1>1, FieldFacts
<1>3. Len(Bytes(Field)) = size
  BY <1>2, EncodedWired
<1>4. size \in 1 .. 6 /\ size <= WiredSize
  <2>1. size \in 1 .. 7 /\ ~(size > 6)
    BY <1>1, WiredLengths DEF Overrun, WiredSize
  <2> QED
    BY <2>1 DEF WiredSize
<1> DEFINE buffer == Rest(p)
<1>5. /\ Len(m_Content) \in Nat /\ Len(buffer) = Len(m_Content) - p
      /\ \A j \in 1 .. Len(m_Content) - p : buffer[j] = m_Content[p + j]
  BY <1>1, ContentFacts, Looked
<1> HIDE DEF buffer, p, v, size
<1>6. ASSUME NEW j \in 1 .. size PROVE ByteAt(buffer, j) = EncodeWired(v)[j]
  <2>1. j \in 1 .. Len(m_Content) - p /\ j <= Len(buffer)
    BY <1>1, <1>3, <1>4, <1>5
  <2>2. m_Content[p + j] = EncodeWired(v)[j]
    BY <1>1, <1>2, <1>3
  <2> QED
    BY <1>5, <2>1, <2>2 DEF ByteAt
<1>7. WiredBytes(buffer) = size
  <2>1. ByteAt(buffer, 1) = EncodeWired(v)[1]
    BY <1>4, <1>6
  <2>2. EncodeWired(v)[1] = FirstByte(v)
    BY <1>2, EncodedWired
  <2> QED
    BY <1>2, <2>1, <2>2, FirstByteTells DEF size
<1>8. ~Short(buffer)
  <2>1. size <= Len(buffer)
    BY <1>1, <1>3, <1>4, <1>5
  <2>2. Len(buffer) \in Int
    BY <1>1, <1>5
  <2> QED
    BY <1>4, <1>7, <2>1, <2>2 DEF Short
<1>9. /\ Abs(v) < Span \div 2 => DecodeWired(buffer) = v
      /\ v \in 0 .. Span - 1 => ToUint(DecodeWired(buffer)) = v
  <2>1. \A i \in 1 .. WiredLength(v) : ByteAt(buffer, i) = EncodeWired(v)[i]
    BY <1>6 DEF size
  <2> QED
    BY <1>2, <1>4, <2>1, WiredInverse DEF size
<1> QED
  BY <1>2, <1>3, <1>8, <1>9 DEF buffer, p, v, size

(* A base-64 number, of a field or in front of a text, where the reader is. *)
LEMMA NumberHere ==
    ASSUME IInv, AllFit, stage = "reading", Len(results) < Len(fields),
           Field.kind \in {"base64", "string"}, NEW u \in Nat,
           Field.kind = "base64" => u = Field.value,
           Field.kind = "string" => u = Len(Field.value)
    PROVE  /\ DecodeBase64(Substr(m_ReadPosition, 2)) = u % (Digit ^ 2)
           /\ m_ReadPosition + 2 <= Len(m_Content)
<1> DEFINE p == m_ReadPosition
           b == Substr(p, 2)
<1>1. /\ Field \in FieldType /\ p \in 0 .. Len(m_Content) /\ Len(Bytes(Field)) \in Nat
      /\ p + Len(Bytes(Field)) <= Len(m_Content)
      /\ \A j \in 1 .. Len(Bytes(Field)) : m_Content[p + j] = Bytes(Field)[j]
  BY Aligned
<1>2. Len(Bytes(Field)) >= 2 /\ \A j \in 1 .. 2 : Bytes(Field)[j] = EncodeBase64(u)[j]
  <2>1. CASE Field.kind = "base64"
    <3>1. Bytes(Field) = EncodeBase64(u) /\ Len(EncodeBase64(u)) = 2
      BY <1>1, <2>1, FieldFacts, EncodedBase64
    <3> QED
      BY <3>1
  <2>2. CASE Field.kind = "string"
    <3>1. Field.value \in Seq(32 .. 126)
          /\ Bytes(Field) = EncodeBase64(Len(Field.value)) \o Field.value
      BY <1>1, <2>2, FieldFacts
    <3> DEFINE text  == Field.value
               bytes == EncodeBase64(Len(text)) \o text
    <3>2. Len(bytes) = 2 + Len(text) /\ \A j \in 1 .. 2 : bytes[j] = EncodeBase64(Len(text))[j]
      BY <3>1, StringBytes
    <3>3. Len(text) \in Nat
      BY <3>1, LenProperties
    <3>4. Bytes(Field) = bytes /\ Len(text) = u
      BY <2>2, <3>1
    <3> HIDE DEF bytes, text
    <3> QED
      BY <3>2, <3>3, <3>4
  <2> QED
    BY <2>1, <2>2
<1>3. Len(m_Content) \in Nat
  BY ContentFacts
<1> HIDE DEF p
<1>4. p + 2 <= Len(m_Content)
  BY <1>1, <1>2, <1>3
<1>5. b \in Seq(0 .. 255) /\ Len(b) = 2 /\ \A j \in 1 .. 2 : b[j] = m_Content[p + j]
  BY <1>1, <1>4, Looked
<1> HIDE DEF b
<1>6. \A j \in 1 .. 2 : b[j] = EncodeBase64(u)[j]
  <2>1. \A j \in 1 .. 2 : j \in 1 .. Len(Bytes(Field))
    BY <1>1, <1>2
  <2> QED
    BY <1>1, <1>2, <1>5, <2>1
<1>7. DecodeBase64(b) = u % (Digit ^ 2)
  <2>1. b[1] = EncodeBase64(u)[1] /\ b[2] = EncodeBase64(u)[2]
    BY <1>6
  <2> QED
    BY <1>5, <2>1, EncodedBase64
<1> QED
  BY <1>4, <1>7 DEF p, b

(* Less than the reader can hold is what it holds.                         *)
LEMMA TwoDigits ==
    ASSUME NEW u \in Nat
    PROVE  Digit ^ 2 \in Nat \ {0} /\ u % (Digit ^ 2) \in 0 .. Digit ^ 2 - 1
           /\ (u < Digit ^ 2 => u % (Digit ^ 2) = u)
<1> DEFINE m == Digit ^ 2
<1>1. m \in Nat \ {0}
  <2>1. 2 \in 0 .. 5
    OBVIOUS
  <2> QED
    BY <2>1, Weights
<1> HIDE DEF m
<1>2. u % m \in 0 .. m - 1 /\ (u < m => u % m = u)
  BY <1>1
<1> QED
  BY <1>1, <1>2 DEF m

LEMMA ReadWiredIntKeeps ==
    ASSUME IInv, ReadWiredInt PROVE IInv'
<1> DEFINE value == DecodeWired(Rest(m_ReadPosition))
           n == WiredLength(value)
<1>1. n \in Int
  BY WiredLengths DEF WiredSize
<1>2. "int" \in Functions /\ Read(ReadBy("int"), "int", value, n)
  BY DEF ReadWiredInt, ReadWired, ReadBy, Functions
<1>3. stage = "reading" /\ Len(results) < Len(fields) /\ Field.kind = "wired"
  BY DEF ReadWiredInt, ReadWired, Read
<1>4. ASSUME NEW i \in Nat, i = Len(results) + 1, AllFit, Fits(i)'
      PROVE  n = Len(Bytes(Field)) /\ value = Meant(i)'
  <2>1. Meant(i)' = Field.value /\ Abs(Field.value) < Span \div 2
    <3> HIDE DEF value, n
    <3> QED
      BY <1>1, <1>2, <1>4, JustRead
  <2>2. value = Field.value /\ Len(Bytes(Field)) = WiredLength(Field.value)
    BY <1>3, <1>4, <2>1, WiredHere
  <2> QED
    BY <2>1, <2>2
<1> HIDE DEF value, n
<1> QED
  BY <1>1, <1>2, <1>4, Moved

LEMMA ReadWiredUintKeeps ==
    ASSUME IInv, ReadWiredUint PROVE IInv'
<1> DEFINE value == ToUint(DecodeWired(Rest(m_ReadPosition)))
           n == WiredLength(value)
<1>1. n \in Int
  BY WiredLengths DEF WiredSize
<1>2. "uint" \in Functions /\ Read(ReadBy("uint"), "uint", value, n)
  BY DEF ReadWiredUint, ReadWired, ReadBy, Functions
<1>3. stage = "reading" /\ Len(results) < Len(fields) /\ Field.kind = "wired"
  BY DEF ReadWiredUint, ReadWired, Read
<1>4. ASSUME NEW i \in Nat, i = Len(results) + 1, AllFit, Fits(i)'
      PROVE  n = Len(Bytes(Field)) /\ value = Meant(i)'
  <2>1. Meant(i)' = Field.value /\ Field.value \in 0 .. Span - 1
    <3> HIDE DEF value, n
    <3> QED
      BY <1>1, <1>2, <1>4, JustRead
  <2>2. value = Field.value /\ Len(Bytes(Field)) = WiredLength(Field.value)
    BY <1>3, <1>4, <2>1, WiredHere
  <2> QED
    BY <2>1, <2>2
<1> HIDE DEF value, n
<1> QED
  BY <1>1, <1>2, <1>4, Moved

LEMMA ReadWiredBoolKeeps ==
    ASSUME IInv, ReadWiredBool PROVE IInv'
<1> DEFINE v == DecodeWired(Rest(m_ReadPosition))
           value == IF v = 1 THEN 1 ELSE 0
           n == WiredLength(v)
<1>1. n \in Int
  BY WiredLengths DEF WiredSize
<1>2. "bool" \in Functions /\ Read(ReadBy("bool"), "bool", value, n)
  BY DEF ReadWiredBool, ReadBy, Functions
<1>3. stage = "reading" /\ Len(results) < Len(fields) /\ Field.kind = "wired"
  BY DEF ReadWiredBool, Read
<1>4. ASSUME NEW i \in Nat, i = Len(results) + 1, AllFit, Fits(i)'
      PROVE  n = Len(Bytes(Field)) /\ value = Meant(i)'
  <2>1. Meant(i)' = (IF Field.value = 1 THEN 1 ELSE 0) /\ Abs(Field.value) < Span \div 2
    <3> HIDE DEF value, n
    <3> QED
      BY <1>1, <1>2, <1>4, JustRead
  <2>2. v = Field.value /\ Len(Bytes(Field)) = WiredLength(Field.value)
    BY <1>3, <1>4, <2>1, WiredHere
  <2> QED
    BY <2>1, <2>2
<1> HIDE DEF value, n
<1> QED
  BY <1>1, <1>2, <1>4, Moved

LEMMA ReadBase64Keeps ==
    ASSUME IInv, ReadBase64 \/ ReadSkip PROVE IInv'
<1>1. CASE ReadBase64
  <2> DEFINE value == DecodeBase64(Substr(m_ReadPosition, 2))
  <2>1. "base64" \in Functions /\ Read(ReadBy("base64"), "base64", value, 2)
    BY <1>1 DEF ReadBase64, ReadBy, Functions
  <2>2. stage = "reading" /\ Len(results) < Len(fields) /\ Field.kind = "base64"
    BY <1>1 DEF ReadBase64, Read
  <2>3. ASSUME NEW i \in Nat, i = Len(results) + 1, AllFit, Fits(i)'
        PROVE  2 = Len(Bytes(Field)) /\ value = Meant(i)'
    <3>1. Meant(i)' = Field.value /\ Field.value < Digit ^ 2
      <4> HIDE DEF value
      <4> QED
        BY <2>1, <2>3, JustRead
    <3>2. Field.value \in Nat /\ Bytes(Field) = EncodeBase64(Field.value)
      BY <2>2, <2>3, Aligned, FieldFacts
    <3>3. value = Field.value % (Digit ^ 2)
      BY <2>2, <2>3, <3>2, NumberHere
    <3>4. Field.value % (Digit ^ 2) = Field.value /\ Len(EncodeBase64(Field.value)) = 2
      BY <3>1, <3>2, TwoDigits, EncodedBase64
    <3> QED
      BY <3>1, <3>2, <3>3, <3>4
  <2> DEFINE n == 2
  <2>4. n \in Int /\ n = 2
    OBVIOUS
  <2> HIDE DEF value, n
  <2> QED
    BY <2>1, <2>3, <2>4, Moved
<1>2. CASE ReadSkip
  <2>1. "skip" \in Functions /\ Read(ReadBy("skip"), "skip", 0, 2)
    BY <1>2 DEF ReadSkip, ReadBy, Functions
  <2>2. stage = "reading" /\ Len(results) < Len(fields) /\ Field.kind = "base64"
    BY <1>2 DEF ReadSkip, Read
  <2>3. ASSUME NEW i \in Nat, i = Len(results) + 1, AllFit, Fits(i)'
        PROVE  2 = Len(Bytes(Field)) /\ 0 = Meant(i)'
    <3>1. Meant(i)' = 0
      BY <2>1, <2>3, JustRead
    <3>2. Field.value \in Nat /\ Bytes(Field) = EncodeBase64(Field.value)
      BY <2>2, <2>3, Aligned, FieldFacts
    <3> QED
      BY <3>1, <3>2, EncodedBase64
  <2> DEFINE value == 0
             n == 2
  <2>4. n \in Int /\ n = 2 /\ value = 0
    OBVIOUS
  <2> HIDE DEF value, n
  <2> QED
    BY <2>1, <2>3, <2>4, Moved
<1> QED
  BY <1>1, <1>2

LEMMA ReadBase64BoolKeeps ==
    ASSUME IInv, ReadBase64Bool PROVE IInv'
<1> DEFINE v == DecodeBase64(Substr(m_ReadPosition, 1))
           value == IF v = 1 THEN 1 ELSE 0
<1>1. "flag" \in Functions /\ Read(ReadBy("flag"), "flag", value, 1)
  BY DEF ReadBase64Bool, ReadBy, Functions
<1>2. stage = "reading" /\ Len(results) < Len(fields) /\ Field.kind = "flag"
  BY DEF ReadBase64Bool, Read
<1>3. ASSUME NEW i \in Nat, i = Len(results) + 1, AllFit, Fits(i)'
      PROVE  1 = Len(Bytes(Field)) /\ value = Meant(i)'
  <2>1. Meant(i)' = Field.value
    <3> HIDE DEF value
    <3> QED
      BY <1>1, <1>3, JustRead
  <2>2. /\ Field \in FieldType /\ m_ReadPosition \in 0 .. Len(m_Content)
        /\ m_ReadPosition + Len(Bytes(Field)) <= Len(m_Content)
        /\ \A j \in 1 .. Len(Bytes(Field)) : m_Content[m_ReadPosition + j] = Bytes(Field)[j]
    BY <1>2, <1>3, Aligned
  <2>3. Field.value \in {0, 1} /\ Bytes(Field) = <<64 + Field.value>>
    BY <1>2, <2>2, FieldFacts
  <2> DEFINE b == Substr(m_ReadPosition, 1)
  <2>4. b \in Seq(0 .. 255) /\ Len(b) = 1 /\ b[1] = m_Content[m_ReadPosition + 1]
    <3>1. m_ReadPosition + 1 <= Len(m_Content)
      BY <2>2, <2>3
    <3>2. /\ b \in Seq(0 .. 255)
          /\ Len(b) = 1 /\ \A j \in 1 .. 1 : b[j] = m_Content[m_ReadPosition + j]
      BY <2>2, <3>1, Looked
    <3> QED
      BY <3>2
  <2>5. m_Content[m_ReadPosition + 1] = 64 + Field.value
    BY <2>2, <2>3
  <2> HIDE DEF b
  <2>6. DecodeBase64(b) = Char(64 + Field.value)
    <3>1. Len(b) <= 2
      BY <2>4
    <3> QED
      BY <2>4, <2>5, <3>1, DecodedBase64
  <2>7. Char(64 + Field.value) = Field.value
    <3>1. Field.value \in 0 .. Digit - 1
      BY <2>3, Weights
    <3> QED
      BY <3>1, Sixtyfour
  <2>8. v = Field.value
    BY <2>6, <2>7 DEF b
  <2> QED
    BY <2>1, <2>3, <2>8
<1> DEFINE n == 1
<1>4. n \in Int /\ n = 1
  OBVIOUS
<1> HIDE DEF value, n
<1> QED
  BY <1>1, <1>3, <1>4, Moved

LEMMA ReadStringKeeps ==
    ASSUME IInv, ReadString PROVE IInv'
<1> DEFINE p == m_ReadPosition
           n == DecodeBase64(Substr(p, 2))
           text == IF n < 0 THEN Rest(p + 2) ELSE Substr(p + 2, n)
<1>1. "string" \in Functions /\ Read(ReadBy("string"), "string", text, n + 2)
  BY DEF ReadString, ReadBy, Functions
<1>2. /\ stage = "reading" /\ Len(results) < Len(fields) /\ Field.kind = "string"
      /\ p \in 0 .. Len(m_Content)
  BY DEF ReadString, Read, Outside
<1>3. n \in Int
  <2> DEFINE b == Substr(p, 2)
  <2>1. b \in Seq(0 .. 255) /\ Len(b) <= 2
    BY <1>2, Looked
  <2> HIDE DEF b
  <2>2. DecodeBase64(b) \in Int
    BY <2>1, DecodedBase64
  <2> QED
    BY <2>2 DEF b
<1>4. ASSUME NEW i \in Nat, i = Len(results) + 1, AllFit, Fits(i)'
      PROVE  n + 2 = Len(Bytes(Field)) /\ text = Meant(i)'
  <2> DEFINE value == Field.value
  <2>1. Meant(i)' = value /\ Len(value) < Digit ^ 2
    <3> HIDE DEF text, n
    <3>1. n + 2 \in Int
      BY <1>3
    <3> QED
      BY <1>1, <1>4, <3>1, JustRead
  <2>2. /\ Field \in FieldType
        /\ p + Len(Bytes(Field)) <= Len(m_Content)
        /\ \A j \in 1 .. Len(Bytes(Field)) : m_Content[p + j] = Bytes(Field)[j]
    BY <1>2, <1>4, Aligned
  <2>3. value \in Seq(32 .. 126) /\ Bytes(Field) = EncodeBase64(Len(value)) \o value
    BY <1>2, <2>2, FieldFacts
  <2>4. Len(value) \in Nat
    BY <2>3, LenProperties
  <2> HIDE DEF value
  <2>5. /\ Len(Bytes(Field)) = 2 + Len(value)
        /\ \A j \in 1 .. Len(value) : Bytes(Field)[2 + j] = value[j]
    BY <2>3, StringBytes
  <2>6. n = Len(value)
    <3>1. n = Len(value) % (Digit ^ 2)
      BY <1>2, <1>4, <2>4, NumberHere DEF value
    <3>2. Len(value) % (Digit ^ 2) = Len(value)
      BY <2>1, <2>4, TwoDigits
    <3> QED
      BY <3>1, <3>2
  <2>7. /\ Len(m_Content) \in Nat
        /\ p + 2 \in 0 .. Len(m_Content) /\ (p + 2) + Len(value) <= Len(m_Content)
    <3>1. Len(m_Content) \in Nat
      BY ContentFacts
    <3> QED
      BY <1>2, <2>2, <2>4, <2>5, <3>1
  <2> DEFINE back == Substr(p + 2, Len(value))
  <2>8. /\ back \in Seq(0 .. 255) /\ Len(back) = Len(value)
        /\ \A j \in 1 .. Len(value) : back[j] = m_Content[(p + 2) + j]
    BY <2>4, <2>7, Looked
  <2>9. text = back
    BY <2>4, <2>6
  <2> HIDE DEF back, text, n
  <2>10. ASSUME NEW j \in 1 .. Len(value) PROVE back[j] = value[j]
    <3>1. (p + 2) + j = p + (2 + j) /\ 2 + j \in 1 .. Len(Bytes(Field))
      BY <1>2, <2>4, <2>5
    <3> QED
      BY <2>2, <2>5, <2>8, <3>1
  <2>11. back = value
    <3>1. back \in [1 .. Len(value) -> 0 .. 255]
      BY <2>8, LenProperties
    <3>2. value \in [1 .. Len(value) -> 32 .. 126]
      BY <2>3, LenProperties
    <3> QED
      BY <2>10, <3>1, <3>2
  <2> QED
    BY <2>1, <2>4, <2>5, <2>6, <2>9, <2>11
<1>5. n + 2 \in Int
  BY <1>3
<1> HIDE DEF text, n
<1> QED
  BY <1>1, <1>4, <1>5, Moved

(* Where the reader is lost, something did not fit.                        *)
LEMMA LostKeeps ==
    ASSUME IInv, ReadThrows \/ ReadBeyond PROVE IInv'
<1>1. /\ stage = "reading" /\ Len(results) < Len(fields)
      /\ stage' \in {"thrown", "overread"}
      /\ UNCHANGED <<m_Header, m_Content, m_ReadPosition, results, m_Storage, header, fields>>
  BY DEF ReadThrows, ReadBeyond, reader, writer
<1>2. ~AllFit
  <2> SUFFICES ASSUME AllFit PROVE FALSE
    OBVIOUS
  <2>1. /\ m_ReadPosition \in 0 .. Len(m_Content) /\ Len(m_Content) \in Nat
        /\ Field \in FieldType
    BY <1>1, Aligned, ContentFacts
  <2>2. CASE ReadThrows
    <3>1. Field.kind = "string" /\ Outside(m_ReadPosition + 2)
      BY <2>1, <2>2 DEF ReadThrows, Outside
    <3>2. Field.value \in Seq(32 .. 126)
      BY <2>1, <3>1, FieldFacts
    <3>3. Len(Field.value) \in Nat
      BY <3>2, LenProperties
    <3>4. m_ReadPosition + 2 <= Len(m_Content)
      BY <1>1, <3>1, <3>3, NumberHere
    <3> QED
      BY <2>1, <3>1, <3>4 DEF Outside
  <2>3. CASE ReadBeyond
    BY <1>1, <2>3, WiredHere DEF ReadBeyond
  <2> QED
    BY <2>2, <2>3
<1>3. Written'
  BY <1>1, WrittenKept DEF IInv, writer
<1>4. Parsed'
  BY <1>1 DEF IInv, Parsed, Received
<1>5. Followed'
  <2>1. ~AllFit'
    <3>1. \A i : Fits(i)' <=> Fits(i)
      BY <1>1 DEF Fits
    <3> QED
      BY <1>1, <1>2, <3>1 DEF AllFit
  <2>2. IsSequence(results)'
    BY <1>1 DEF IInv, Followed, IsSequence
  <2> QED
    BY <1>1, <2>1, <2>2 DEF IInv, Followed
<1> QED
  BY <1>3, <1>4, <1>5 DEF IInv
(* Where EncodeWired does not return, everything else is as it was.        *)
LEMMA UnterminatedKeeps ==
    ASSUME IInv, Unterminated PROVE IInv'
<1>1. /\ stage \in {"writing", "reading"} /\ stage' = "unterminated"
      /\ UNCHANGED <<m_Header, m_Content, m_ReadPosition, results, m_Storage, header, fields>>
  BY DEF Unterminated, reader, writer
<1>2. Written'
  BY <1>1, WrittenKept DEF IInv, writer
<1>3. Parsed'
  BY <1>1 DEF IInv, Parsed, Received, Unsent
<1>4. Followed'
  <2>1. /\ \A i : (Fits(i)' <=> Fits(i)) /\ Meant(i)' = Meant(i)
        /\ Start(Len(results) + 1)' = Start(Len(results) + 1)
        /\ IsSequence(results)' <=> IsSequence(results)
    BY <1>1 DEF Fits, Meant, Start, IsSequence
  <2>2. AllFit' <=> AllFit
    BY <1>1, <2>1 DEF AllFit
  <2>3. stage = "writing" => results = <<>>
    BY DEF IInv, Parsed, Unsent
  <2> QED
    BY <1>1, <2>1, <2>2, <2>3 DEF IInv, Followed
<1> QED
  BY <1>2, <1>3, <1>4 DEF IInv
-----------------------------------------------------------------------------
(* What holds of every packet. *)

(* The writing functions add the field that Bytes says they add.           *)
LEMMA WritingKeeps ==
    ASSUME IInv,
           \/ \E v \in Values : AppendWired(v)
           \/ \E b \in BOOLEAN : AppendWiredBool(b) \/ AppendFlag(b)
           \/ \E u \in Numbers : AppendBase64(u)
           \/ \E text \in Texts : AppendString(text)
    PROVE  IInv'
<1>0. Len(m_Storage) \in Nat
  BY LenProperties DEF IInv, Written
<1>1. ASSUME NEW v \in Int, AppendField("wired", v, EncodeWired(v)),
             stage' = IF WiredLength(v) > WiredSize THEN "overrun" ELSE stage
      PROVE  IInv'
  <2> DEFINE bytes == EncodeWired(v)
             f == NewField("wired", v, bytes)
  <2>1. Len(bytes) \in Nat
    <3>1. Len(bytes) = WiredLength(v) /\ WiredLength(v) \in 1 .. 7
      BY EncodedWired, WiredLengths DEF WiredSize
    <3> QED
      BY <3>1
  <2>2. f.kind = "wired" /\ f.value = v /\ f \in FieldType
    BY <1>0, <2>1 DEF NewField, FieldType, FieldOf
  <2>3. bytes = Bytes(f) /\ (Overrun(f) <=> WiredLength(v) > WiredSize)
    <3> HIDE DEF f
    <3> QED
      BY <2>2 DEF Bytes, Overrun
  <2>4. AppendField("wired", v, bytes) /\ stage' = IF Overrun(f) THEN "overrun" ELSE stage
    <3> HIDE DEF f
    <3> QED
      BY <1>1, <2>3
  <2> HIDE DEF bytes
  <2> QED
    BY <2>2, <2>3, <2>4, FieldAppended
<1>2. CASE \E v \in Values : AppendWired(v)
  <2>1. PICK v \in Values : AppendWired(v)
    BY <1>2
  <2>2. v \in Int
    BY PacketsAssumption
  <2> QED
    BY <1>1, <2>1, <2>2 DEF AppendWired
<1>3. CASE \E b \in BOOLEAN : AppendWiredBool(b)
  <2>1. PICK b \in BOOLEAN : AppendWiredBool(b)
    BY <1>3
  <2> DEFINE v == IF b THEN 1 ELSE 0
  <2>2. v \in Int /\ v \in {0, 1}
    OBVIOUS
  <2>3. AppendField("wired", v, EncodeWired(v)) /\ stage' = stage
    BY <2>1 DEF AppendWiredBool
  <2> HIDE DEF v
  <2>4. ~(WiredLength(v) > WiredSize)
    <3>1. Abs(v) \in {0, 1}
      BY <2>2 DEF Abs
    <3>2. Weight(5) \in Nat \ {0}
      BY Weights
    <3>3. Abs(v) < Span
      BY <3>1, <3>2, Weights
    <3>4. WiredLength(v) > WiredSize => Abs(v) >= Span
      BY <2>2, WiredFits
    <3>5. Span \in Nat
      BY Weights
    <3> QED
      BY <3>1, <3>3, <3>4, <3>5
  <2> QED
    BY <1>1, <2>2, <2>3, <2>4
<1>4. CASE \E b \in BOOLEAN : AppendFlag(b)
  <2>1. PICK b \in BOOLEAN : AppendFlag(b)
    BY <1>4
  <2> DEFINE v == IF b THEN 1 ELSE 0
             bytes == <<64 + v>>
             f == NewField("flag", v, bytes)
  <2>2. v \in {0, 1}
    OBVIOUS
  <2>3. AppendField("flag", v, bytes) /\ stage' = stage
    BY <2>1 DEF AppendFlag
  <2> HIDE DEF v
  <2>4. f.kind = "flag" /\ f.value = v /\ f \in FieldType
    BY <1>0, <2>2 DEF NewField, FieldType, FieldOf
  <2>5. bytes = Bytes(f) /\ ~Overrun(f)
    <3> HIDE DEF f
    <3> QED
      BY <2>4 DEF Bytes, Overrun
  <2>6. stage' = IF Overrun(f) THEN "overrun" ELSE stage
    BY <2>3, <2>5
  <2> HIDE DEF bytes
  <2> QED
    BY <2>3, <2>4, <2>5, <2>6, FieldAppended
<1>5. CASE \E u \in Numbers : AppendBase64(u)
  <2>1. PICK u \in Numbers : AppendBase64(u)
    BY <1>5
  <2> DEFINE bytes == EncodeBase64(u)
             f == NewField("base64", u, bytes)
  <2>2. u \in Nat
    BY PacketsAssumption
  <2>3. AppendField("base64", u, bytes) /\ stage' = stage
    BY <2>1 DEF AppendBase64
  <2>4. Len(bytes) = 2
    BY <2>2, EncodedBase64
  <2>5. f.kind = "base64" /\ f.value = u /\ f \in FieldType
    <3> HIDE DEF bytes
    <3> QED
      BY <1>0, <2>2, <2>4 DEF NewField, FieldType, FieldOf
  <2>6. bytes = Bytes(f) /\ ~Overrun(f)
    <3> HIDE DEF f
    <3> QED
      BY <2>5 DEF Bytes, Overrun
  <2>7. stage' = IF Overrun(f) THEN "overrun" ELSE stage
    BY <2>3, <2>6
  <2> HIDE DEF bytes
  <2> QED
    BY <2>3, <2>5, <2>6, <2>7, FieldAppended
<1>6. CASE \E text \in Texts : AppendString(text)
  <2>1. PICK text \in Texts : AppendString(text)
    BY <1>6
  <2> DEFINE bytes == EncodeBase64(Len(text)) \o text
             f == NewField("string", text, bytes)
  <2>2. text \in Seq(32 .. 126)
    BY PacketsAssumption
  <2>3. AppendField("string", text, bytes) /\ stage' = stage
    BY <2>1 DEF AppendString
  <2>4. Len(bytes) \in Nat
    <3>1. Len(bytes) = 2 + Len(text) /\ Len(text) \in Nat
      BY <2>2, StringBytes, LenProperties
    <3> QED
      BY <3>1
  <2>5. f.kind = "string" /\ f.value = text /\ f \in FieldType
    <3> HIDE DEF bytes
    <3> QED
      BY <1>0, <2>2, <2>4 DEF NewField, FieldType, FieldOf
  <2>6. bytes = Bytes(f) /\ ~Overrun(f)
    <3> HIDE DEF f
    <3> QED
      BY <2>5 DEF Bytes, Overrun
  <2>7. stage' = IF Overrun(f) THEN "overrun" ELSE stage
    BY <2>3, <2>6
  <2> HIDE DEF bytes
  <2> QED
    BY <2>3, <2>5, <2>6, <2>7, FieldAppended
<1> QED
  BY <1>2, <1>3, <1>4, <1>5, <1>6

(* The packet's storage, its parsing and its reader fit together in every  *)
(* reachable state: see Written, Parsed and Followed.                      *)
THEOREM PacketsInvariance == Spec => []IInv
<1>1. Init => IInv
  BY Begun
<1>2. IInv /\ [Next]_vars => IInv'
  <2> SUFFICES ASSUME IInv, [Next]_vars PROVE IInv'
    OBVIOUS
  <2>1. CASE UNCHANGED vars
    <3>1. UNCHANGED <<stage, m_Storage, header, fields, m_Header, m_Content,
                      m_ReadPosition, results>>
      BY <2>1 DEF vars, writer, reader
    <3>2. Written'
      BY <3>1, WrittenKept DEF IInv, writer
    <3>3. Parsed'
      BY <3>1 DEF IInv, Parsed, Received, Unsent
    <3>4. Followed'
      <4>1. /\ \A i : (Fits(i)' <=> Fits(i)) /\ Meant(i)' = Meant(i)
            /\ Start(Len(results) + 1)' = Start(Len(results) + 1)
            /\ IsSequence(results)' <=> IsSequence(results)
        BY <3>1 DEF Fits, Meant, Start, IsSequence
      <4>2. AllFit' <=> AllFit
        BY <3>1, <4>1 DEF AllFit
      <4> QED
        BY <3>1, <4>1, <4>2 DEF IInv, Followed
    <3> QED
      BY <3>2, <3>3, <3>4 DEF IInv
  <2>2. CASE Over
    BY <2>1, <2>2 DEF Over
  <2>3. CASE Construct
    BY <2>3, Constructed
  <2>4. CASE ReadWiredInt \/ ReadWiredUint \/ ReadWiredBool
    BY <2>4, ReadWiredIntKeeps, ReadWiredUintKeeps, ReadWiredBoolKeeps
  <2>5. CASE ReadBase64 \/ ReadSkip \/ ReadBase64Bool \/ ReadString
    BY <2>5, ReadBase64Keeps, ReadBase64BoolKeeps, ReadStringKeeps
  <2>6. CASE ReadThrows \/ ReadBeyond
    BY <2>6, LostKeeps
  <2>7. CASE \/ \E v \in Values : AppendWired(v)
             \/ \E b \in BOOLEAN : AppendWiredBool(b) \/ AppendFlag(b)
             \/ \E u \in Numbers : AppendBase64(u)
             \/ \E text \in Texts : AppendString(text)
    BY <2>7, WritingKeeps
  <2>8. CASE Unterminated
    BY <2>8, UnterminatedKeeps
  <2> QED
    BY <2>1, <2>2, <2>3, <2>4, <2>5, <2>6, <2>7, <2>8 DEF Next
<1> QED
  BY <1>1, <1>2, PTL DEF Spec

(* The types of the variables, for any values, numbers and texts.          *)
THEOREM PacketsTypeCorrect == Spec => []TypeOK
<1>1. IInv => TypeOK
  <2> SUFFICES ASSUME IInv PROVE TypeOK
    OBVIOUS
  <2>1. stage \in {"writing", "reading", "thrown", "overrun", "overread", "unterminated"}
    BY DEF IInv, Parsed
  <2>2. \A i \in DOMAIN m_Storage : m_Storage[i] \in 0 .. 255
    BY Elements DEF IInv, Written
  <2>3. \A i \in DOMAIN m_Content : m_Content[i] \in 0 .. 255
    BY ContentFacts, Elements
  <2>4. m_Header \in 0 .. Digit ^ 2 - 1
    <3>1. header \in Nat /\ (m_Header = 0 \/ m_Header = header % (Digit ^ 2))
      BY DEF IInv, Written, Parsed, Unsent, Received
    <3>2. 0 % (Digit ^ 2) = 0 /\ 0 < Digit ^ 2 /\ Digit ^ 2 \in Nat
      <4> DEFINE m == Digit ^ 2
      <4>1. m \in Nat \ {0}
        BY TwoDigits
      <4> HIDE DEF m
      <4>2. 0 % m = 0 /\ 0 < m /\ m \in Nat
        BY <4>1
      <4> QED
        BY <4>2 DEF m
    <3>3. header % (Digit ^ 2) \in 0 .. Digit ^ 2 - 1
      BY <3>1, TwoDigits
    <3> QED
      BY <3>1, <3>2, <3>3
  <2>5. m_ReadPosition \in Int /\ Len(results) <= Len(fields) /\ Len(fields) <= MaxFields
    BY DEF IInv, Written, Followed
  <2> QED
    BY <2>1, <2>2, <2>3, <2>4, <2>5 DEF TypeOK
<1> QED
  BY <1>1, PacketsInvariance, PTL

(* What is written is read back, the header and each field, if the reader  *)
(* can hold it: the decoders are the inverses of the encoders.             *)
THEOREM ReadsBackHolds == Spec => []ReadsBack
<1>1. IInv => ReadsBack
  <2> SUFFICES ASSUME IInv PROVE ReadsBack
    OBVIOUS
  <2>1. ASSUME stage \in {"reading", "thrown", "overread"}, header < Digit ^ 2
        PROVE  m_Header = header
    <3>1. header \in Nat
      BY DEF IInv, Written
    <3>2. header % (Digit ^ 2) = header
      BY <2>1, <3>1, TwoDigits
    <3> QED
      BY <2>1, <3>2 DEF IInv, Parsed, Received
  <2>2. AllFit => \A i \in DOMAIN results : results[i].value = Meant(i)
    <3>1. DOMAIN results = 1 .. Len(results)
      BY DEF IInv, Followed, IsSequence
    <3> QED
      BY <3>1 DEF IInv, Followed
  <2> QED
    BY <2>1, <2>2 DEF ReadsBack
<1> QED
  BY <1>1, PacketsInvariance, PTL

(* The reader, which measures what it read by encoding it again, is at the *)
(* end of the last field as long as the fields fit; it then never reads    *)
(* past the end of the packet.                                             *)
THEOREM InStepHolds == Spec => []InStep
<1>1. IInv => InStep
  <2> SUFFICES ASSUME IInv PROVE InStep
    OBVIOUS
  <2>0. /\ IsSequence(results) /\ Len(results) \in Nat
        /\ Len(fields) \in Nat
    BY LenProperties DEF IInv, Written, Followed, IsSequence
  <2>1. ASSUME AllFit, results # <<>>
        PROVE  m_ReadPosition = fields[Len(results)].end - 2
    <3>1. stage \in {"reading", "unterminated"}
      BY <2>1 DEF IInv, Parsed, Unsent, Followed
    <3>2. Len(results) # 0
      <4>1. results = [i \in 1 .. Len(results) |-> results[i]]
        BY <2>0 DEF IsSequence
      <4>2. ASSUME Len(results) = 0 PROVE results = <<>>
        BY <4>1, <4>2
      <4> QED
        BY <2>1, <4>2
    <3>3. Start(Len(results) + 1) = fields[Len(results)].end
      <4>1. Len(results) + 1 # 1 /\ (Len(results) + 1) - 1 = Len(results)
        BY <2>0, <3>2
      <4> QED
        BY <4>1 DEF Start
    <3> QED
      BY <2>1, <3>1, <3>3 DEF IInv, Followed
  <2>2. AllFit => stage \notin {"thrown", "overread"}
    BY DEF IInv, Followed
  <2> QED
    BY <2>1, <2>2 DEF InStep
<1> QED
  BY <1>1, PacketsInvariance, PTL
=============================================================================
