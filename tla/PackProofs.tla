----------------------------- MODULE PackProofs -----------------------------
(***************************************************************************)
(* Proofs about module Pack, for bytes of any even number of values (256 in *)
(* the code), every format, every value a field can have and every size of  *)
(* the buffer: neither trip_pack nor trip_unpack goes beyond its buffer,    *)
(* what is read is what was written, a packet that was cut short is         *)
(* refused, and trip_pack_len is enough.                                   *)
(***************************************************************************)
EXTENDS Pack, ProofFacts

-----------------------------------------------------------------------------
(* Division.                                                               *)

\* Quotient and remainder.
LEMMA DivMod ==
  ASSUME NEW B \in Nat \ {0}, NEW i \in Int
  PROVE  /\ i = (i \div B) * B + (i % B)
         /\ i % B \in 0..(B - 1)
         /\ i \div B \in Int
  BY SMT

\* A product with a factor that is bounded.
LEMMA ProductIsBounded ==
  ASSUME NEW B \in Nat, NEW C \in Nat, NEW a \in 0..(C - 1)
  PROVE  a * B <= (C - 1) * B /\ a * B >= 0
  <1>1. (C - 1 - a) * B >= 0
    BY SMT
  <1> QED
    BY <1>1, SMT

\* There is one quotient and one remainder.
LEMMA DivModIsUnique ==
  ASSUME NEW M \in Nat \ {0}, NEW q \in Int, NEW r \in 0..(M - 1)
  PROVE  (q * M + r) % M = r /\ (q * M + r) \div M = q
  <1> DEFINE i == q * M + r
  <1>1. /\ i = (i \div M) * M + (i % M)
        /\ i % M \in 0..(M - 1)
        /\ i \div M \in Int
    <2>1. i \in Int
      BY SMT
    <2> HIDE DEF i
    <2> QED
      BY <2>1, DivMod
  <1>2. ((i \div M) - q) * M = r - (i % M)
    BY <1>1, SMT
  <1>3. (i \div M) - q = 0
    <2> SUFFICES ASSUME NEW d \in Int, d * M = r - (i % M)
                 PROVE  d = 0
      BY <1>1, <1>2
    <2>1. r - (i % M) < M /\ -M < r - (i % M)
      BY <1>1, SMT
    <2>2. d >= 1 => d * M >= M
      BY SMT
    <2>3. d <= -1 => d * M <= -M
      BY SMT
    <2> QED
      BY <2>1, <2>2, <2>3, SMT
  <1> QED
    BY <1>1, <1>3, SMT

\* Dividing by a product is dividing twice.
LEMMA DivModOfProduct ==
  ASSUME NEW B \in Nat \ {0}, NEW C \in Nat \ {0}, NEW i \in Int
  PROVE  i % (C * B) = ((i \div B) % C) * B + (i % B)
  <1> DEFINE h == i \div B
             q == h \div C
             r == (h % C) * B + (i % B)
  <1>1. i = h * B + (i % B) /\ i % B \in 0..(B - 1) /\ h \in Int
    BY DivMod
  <1>2. h = q * C + (h % C) /\ h % C \in 0..(C - 1) /\ q \in Int
    BY <1>1, DivMod
  <1> HIDE DEF h, q
  <1>3. i = q * (C * B) + r
    <2>1. h * B = (q * C) * B + (h % C) * B
      BY <1>2, SMT
    <2>2. (q * C) * B = q * (C * B)
      BY <1>2, SMT
    <2> QED
      BY <2>1, <2>2, <1>1, <1>2, SMT
  <1>4. r \in 0..(C * B - 1) /\ C * B \in Nat \ {0}
    <2>1. (h % C) * B <= (C - 1) * B /\ (h % C) * B >= 0
      <3>1. \A a \in 0..(C - 1) : a * B <= (C - 1) * B /\ a * B >= 0
        BY ProductIsBounded
      <3> QED
        BY <1>2, <3>1, Zenon
    <2>2. (C - 1) * B = C * B - B /\ C * B >= 1
      BY SMT
    <2> QED
      BY <2>1, <2>2, <1>1, <1>2, SMT
  <1>5. (q * (C * B) + r) % (C * B) = r
    BY <1>2, <1>4, DivModIsUnique
  <1> QED
    BY <1>3, <1>5 DEF h

-----------------------------------------------------------------------------
(* Integers of fixed width.                                                *)

\* The number of values of each width.
LEMMA Widths ==
  /\ Byte \in Nat \ {0}
  /\ Byte2 \in Nat \ {0}
  /\ Byte4 \in Nat \ {0}
  /\ Byte8 \in Nat \ {0}
  <1>1. \A B \in Nat \ {0} : B * B \in Nat \ {0}
    BY SMT
  <1> QED
    BY <1>1, ByteIsEven, Zenon DEF Byte2, Byte4, Byte8

\* Two sequences of known length, and their concatenation.
LEMMA Halves ==
  ASSUME NEW s \in Seq(Nat), NEW t \in Seq(Nat)
  PROVE  /\ s \o t \in Seq(Nat)
         /\ Len(s \o t) = Len(s) + Len(t)
         /\ SubSeq(s \o t, 1, Len(s)) = s
         /\ SubSeq(s \o t, Len(s) + 1, Len(s) + Len(t)) = t
  BY SMT

\* 16 bits of any integer.
LEMMA Pack16 ==
  ASSUME NEW i \in Int
  PROVE  /\ packi16(i) \in Seq(Nat) /\ Len(packi16(i)) = 2
         /\ unpacku16(packi16(i)) = i % Byte2
  <1>1. i % Byte \in Nat /\ (i \div Byte) % Byte \in Nat
    <2>1. i % Byte \in 0..(Byte - 1) /\ i \div Byte \in Int
      BY Widths, DivMod
    <2>2. (i \div Byte) % Byte \in 0..(Byte - 1)
      BY <2>1, Widths, DivMod
    <2> QED
      BY <2>1, <2>2, Widths, SMT
  <1>2. packi16(i)[1] = (i \div Byte) % Byte /\ packi16(i)[2] = i % Byte
    BY DEF packi16
  <1>3. i % (Byte * Byte) = ((i \div Byte) % Byte) * Byte + (i % Byte)
    BY Widths, DivModOfProduct
  <1>4. unpacku16(packi16(i)) = i % Byte2
    BY <1>2, <1>3 DEF unpacku16, Byte2
  <1>5. packi16(i) \in Seq(Nat) /\ Len(packi16(i)) = 2
    BY <1>1 DEF packi16
  <1> QED
    BY <1>4, <1>5

\* 32 bits.
LEMMA Pack32 ==
  ASSUME NEW i \in Int
  PROVE  /\ packi32(i) \in Seq(Nat) /\ Len(packi32(i)) = 4
         /\ unpacku32(packi32(i)) = i % Byte4
  <1> DEFINE h == i \div Byte2
             s == packi16(h)
             t == packi16(i)
  <1>1. h \in Int
    BY Widths, DivMod
  <1>2. /\ s \in Seq(Nat) /\ Len(s) = 2 /\ unpacku16(s) = h % Byte2
        /\ t \in Seq(Nat) /\ Len(t) = 2 /\ unpacku16(t) = i % Byte2
    BY <1>1, Pack16
  <1>3. packi32(i) = s \o t
    BY DEF packi32
  <1>4. i % (Byte2 * Byte2) = (h % Byte2) * Byte2 + (i % Byte2)
    BY Widths, DivModOfProduct
  <1> HIDE DEF h, s, t
  <1>5. /\ s \o t \in Seq(Nat) /\ Len(s \o t) = Len(s) + Len(t)
        /\ SubSeq(s \o t, 1, Len(s)) = s
        /\ SubSeq(s \o t, Len(s) + 1, Len(s) + Len(t)) = t
    <2>1. s \in Seq(Nat) /\ t \in Seq(Nat)
      BY <1>2
    <2> QED
      BY <2>1, Halves, Zenon
  <1>6. /\ s \o t \in Seq(Nat) /\ Len(s \o t) = 4
        /\ SubSeq(s \o t, 1, 2) = s /\ SubSeq(s \o t, 3, 4) = t
    <2>1. Len(s) = 2 /\ Len(s) + 1 = 3 /\ Len(s) + Len(t) = 4
      BY <1>2, SMT
    <2> QED
      BY <2>1, <1>5, Zenon
  <1>7. unpacku32(s \o t) = unpacku16(s) * Byte2 + unpacku16(t)
    BY <1>6 DEF unpacku32
  <1> QED
    BY <1>2, <1>3, <1>4, <1>6, <1>7 DEF Byte4

\* 64 bits.
LEMMA Pack64 ==
  ASSUME NEW i \in Int
  PROVE  /\ packi64(i) \in Seq(Nat) /\ Len(packi64(i)) = 8
         /\ unpacku64(packi64(i)) = i % Byte8
  <1> DEFINE h == i \div Byte4
             s == packi32(h)
             t == packi32(i)
  <1>1. h \in Int
    BY Widths, DivMod
  <1>2. /\ s \in Seq(Nat) /\ Len(s) = 4 /\ unpacku32(s) = h % Byte4
        /\ t \in Seq(Nat) /\ Len(t) = 4 /\ unpacku32(t) = i % Byte4
    BY <1>1, Pack32
  <1>3. packi64(i) = s \o t
    BY DEF packi64
  <1>4. i % (Byte4 * Byte4) = (h % Byte4) * Byte4 + (i % Byte4)
    BY Widths, DivModOfProduct
  <1> HIDE DEF h, s, t
  <1>5. /\ s \o t \in Seq(Nat) /\ Len(s \o t) = Len(s) + Len(t)
        /\ SubSeq(s \o t, 1, Len(s)) = s
        /\ SubSeq(s \o t, Len(s) + 1, Len(s) + Len(t)) = t
    <2>1. s \in Seq(Nat) /\ t \in Seq(Nat)
      BY <1>2
    <2> QED
      BY <2>1, Halves, Zenon
  <1>6. /\ s \o t \in Seq(Nat) /\ Len(s \o t) = 8
        /\ SubSeq(s \o t, 1, 4) = s /\ SubSeq(s \o t, 5, 8) = t
    <2>1. Len(s) = 4 /\ Len(s) + 1 = 5 /\ Len(s) + Len(t) = 8
      BY <1>2, SMT
    <2> QED
      BY <2>1, <1>5, Zenon
  <1>7. unpacku64(s \o t) = unpacku32(s) * Byte4 + unpacku32(t)
    BY <1>6 DEF unpacku64
  <1> QED
    BY <1>2, <1>3, <1>4, <1>6, <1>7 DEF Byte8

\* An unsigned integer is its own remainder.
LEMMA UnsignedIsRead ==
  ASSUME NEW R \in Nat \ {0}, NEW i \in 0..(R - 1)
  PROVE  i \in Int /\ i % R = i
  BY SMT

\* "Restore sign." undoes the two's complement.
LEMMA SignIsRestored ==
  ASSUME NEW H \in Nat \ {0}, NEW i \in (-H)..(H - 1)
  PROVE  Signed(i % (2 * H), 2 * H) = i
  <1>1. (2 * H) \div 2 = H
    BY SMT
  <1>2. CASE i >= 0
    <2>1. i % (2 * H) = i
      BY <1>2, SMT
    <2> QED
      BY <1>1, <1>2, <2>1 DEF Signed
  <1>3. CASE i < 0
    <2>1. (-1) * (2 * H) + (i + 2 * H) = i /\ i + 2 * H \in 0..(2 * H - 1)
      BY <1>3, SMT
    <2>2. ((-1) * (2 * H) + (i + 2 * H)) % (2 * H) = i + 2 * H
      BY <2>1, DivModIsUnique
    <2>3. i % (2 * H) = i + 2 * H
      BY <2>1, <2>2
    <2> QED
      BY <1>1, <1>3, <2>3, SMT DEF Signed
  <1> QED
    BY <1>2, <1>3, SMT

\* A number of values that can be halved, and its square.
LEMMA Even ==
  ASSUME NEW R \in Nat \ {0}, R % 2 = 0
  PROVE  /\ R \div 2 \in Nat \ {0} /\ R = 2 * (R \div 2)
         /\ (R * R) % 2 = 0
  <1> DEFINE H == R \div 2
  <1>1. H \in Nat \ {0} /\ R = 2 * H
    BY SMT
  <1> HIDE DEF H
  <1>2. R * R = 2 * (H * R) /\ H * R \in Nat
    BY <1>1, SMT
  <1>3. \A n \in Nat : (2 * n) % 2 = 0
    BY SMT
  <1>4. (R * R) % 2 = 0
    BY <1>2, <1>3
  <1> QED
    BY <1>1, <1>4 DEF H

LEMMA WidthsAreEven ==
  /\ Byte % 2 = 0
  /\ Byte2 % 2 = 0
  /\ Byte4 % 2 = 0
  /\ Byte8 % 2 = 0
  <1>1. Byte2 % 2 = 0
    BY ByteIsEven, Even DEF Byte2
  <1>2. Byte4 % 2 = 0
    BY <1>1, Widths, Even DEF Byte4
  <1>3. Byte8 % 2 = 0
    BY <1>2, Widths, Even DEF Byte8
  <1> QED
    BY <1>1, <1>2, <1>3, ByteIsEven

\* A signed integer of R values.
LEMMA SignedIsRead ==
  ASSUME NEW R \in Nat \ {0}, R % 2 = 0, NEW v \in (-(R \div 2))..(R \div 2 - 1)
  PROVE  v \in Int /\ Signed(v % R, R) = v
  <1> DEFINE H == R \div 2
  <1>1. H \in Nat \ {0} /\ R = 2 * H
    BY Even
  <1> HIDE DEF H
  <1>2. v \in (-H)..(H - 1)
    BY DEF H
  <1>3. Signed(v % (2 * H), 2 * H) = v
    BY <1>1, <1>2, SignIsRestored
  <1> QED
    BY <1>1, <1>2, <1>3

LEMMA FixedLetters == Fixed = {"c", "C", "h", "H", "i", "I", "q", "Q"}
  BY DEF Fixed, Width

\* What is said of each letter.
LEMMA FixedRanges ==
  /\ FieldRange("c") = (-(Byte \div 2))..(Byte \div 2 - 1)
  /\ FieldRange("C") = 0..(Byte - 1)
  /\ FieldRange("h") = (-(Byte2 \div 2))..(Byte2 \div 2 - 1)
  /\ FieldRange("H") = 0..(Byte2 - 1)
  /\ FieldRange("i") = (-(Byte4 \div 2))..(Byte4 \div 2 - 1)
  /\ FieldRange("I") = 0..(Byte4 - 1)
  /\ FieldRange("q") = (-(Byte8 \div 2))..(Byte8 \div 2 - 1)
  /\ FieldRange("Q") = 0..(Byte8 - 1)
  BY SMT DEF FieldRange, Blocks

LEMMA FixedPacked ==
  ASSUME NEW v
  PROVE  /\ Packed("c", v) = <<v % Byte>>
         /\ Packed("C", v) = <<v % Byte>>
         /\ Packed("h", v) = packi16(v)
         /\ Packed("H", v) = packi16(v)
         /\ Packed("i", v) = packi32(v)
         /\ Packed("I", v) = packi32(v)
         /\ Packed("q", v) = packi64(v)
         /\ Packed("Q", v) = packi64(v)
  BY DEF Packed, Blocks

LEMMA FixedValues ==
  ASSUME NEW b
  PROVE  /\ FixedValue("c", b) = Signed(b[1], Byte)
         /\ FixedValue("C", b) = b[1]
         /\ FixedValue("h", b) = Signed(unpacku16(b), Byte2)
         /\ FixedValue("H", b) = unpacku16(b)
         /\ FixedValue("i", b) = Signed(unpacku32(b), Byte4)
         /\ FixedValue("I", b) = unpacku32(b)
         /\ FixedValue("q", b) = Signed(unpacku64(b), Byte8)
         /\ FixedValue("Q", b) = unpacku64(b)
  BY DEF FixedValue

\* Every integer of fixed width is read as it was written: packi16, packi32 and
\* packi64, the unpacking of each half, and "Restore sign." (pack.c:34-68, 73-190).
THEOREM FixedRoundTrip ==
  \A l \in Fixed : \A v \in FieldRange(l) : FixedValue(l, Packed(l, v)) = v
  <1> SUFFICES ASSUME NEW l \in Fixed, NEW v \in FieldRange(l)
               PROVE  FixedValue(l, Packed(l, v)) = v
    OBVIOUS
  <1>1. CASE l = "c"
    <2>1. v \in (-(Byte \div 2))..(Byte \div 2 - 1)
      BY <1>1, FixedRanges, Zenon
    <2>2. v \in Int /\ Signed(v % Byte, Byte) = v
      BY <2>1, Widths, WidthsAreEven, SignedIsRead, Zenon
    <2> QED
      BY <1>1, <2>2, FixedPacked, FixedValues
  <1>2. CASE l = "C"
    <2>1. v \in 0..(Byte - 1)
      BY <1>2, FixedRanges, Zenon
    <2>2. v \in Int /\ v % Byte = v
      BY <2>1, Widths, UnsignedIsRead, Zenon
    <2> QED
      BY <1>2, <2>2, FixedPacked, FixedValues
  <1>3. CASE l = "h"
    <2>1. v \in (-(Byte2 \div 2))..(Byte2 \div 2 - 1)
      BY <1>3, FixedRanges, Zenon
    <2>2. v \in Int /\ Signed(v % Byte2, Byte2) = v
      BY <2>1, Widths, WidthsAreEven, SignedIsRead, Zenon
    <2> QED
      BY <1>3, <2>2, Pack16, FixedPacked, FixedValues
  <1>4. CASE l = "H"
    <2>1. v \in 0..(Byte2 - 1)
      BY <1>4, FixedRanges, Zenon
    <2>2. v \in Int /\ v % Byte2 = v
      BY <2>1, Widths, UnsignedIsRead, Zenon
    <2> QED
      BY <1>4, <2>2, Pack16, FixedPacked, FixedValues
  <1>5. CASE l = "i"
    <2>1. v \in (-(Byte4 \div 2))..(Byte4 \div 2 - 1)
      BY <1>5, FixedRanges, Zenon
    <2>2. v \in Int /\ Signed(v % Byte4, Byte4) = v
      BY <2>1, Widths, WidthsAreEven, SignedIsRead, Zenon
    <2> QED
      BY <1>5, <2>2, Pack32, FixedPacked, FixedValues
  <1>6. CASE l = "I"
    <2>1. v \in 0..(Byte4 - 1)
      BY <1>6, FixedRanges, Zenon
    <2>2. v \in Int /\ v % Byte4 = v
      BY <2>1, Widths, UnsignedIsRead, Zenon
    <2> QED
      BY <1>6, <2>2, Pack32, FixedPacked, FixedValues
  <1>7. CASE l = "q"
    <2>1. v \in (-(Byte8 \div 2))..(Byte8 \div 2 - 1)
      BY <1>7, FixedRanges, Zenon
    <2>2. v \in Int /\ Signed(v % Byte8, Byte8) = v
      BY <2>1, Widths, WidthsAreEven, SignedIsRead, Zenon
    <2> QED
      BY <1>7, <2>2, Pack64, FixedPacked, FixedValues
  <1>8. CASE l = "Q"
    <2>1. v \in 0..(Byte8 - 1)
      BY <1>8, FixedRanges, Zenon
    <2>2. v \in Int /\ v % Byte8 = v
      BY <2>1, Widths, UnsignedIsRead, Zenon
    <2> QED
      BY <1>8, <2>2, Pack64, FixedPacked, FixedValues
  <1> QED
    BY <1>1, <1>2, <1>3, <1>4, <1>5, <1>6, <1>7, <1>8, FixedLetters

-----------------------------------------------------------------------------
(* The buffers.                                                            *)

\* A variable integer is a sequence of bytes: their number, and the bytes.
LEMMA VarIsSeq ==
  ASSUME NEW n \in Nat
  PROVE  /\ PackVar(n) \in Seq(Nat)
         /\ _trip_uvar_len(n) \in 0..8
         /\ Len(PackVar(n)) = 1 + _trip_uvar_len(n)
         /\ PackVar(n)[1] = _trip_uvar_len(n)
         /\ \A k \in 1.._trip_uvar_len(n) : PackVar(n)[1 + k] = (n \div Shift[k]) % Byte
  <1> DEFINE m == _trip_uvar_len(n)
             d == [k \in 1..m |-> (n \div Shift[k]) % Byte]
  <1>1. m \in 0..8
    <2> DEFINE S == {k \in 1..8 : n >= Shift[k]}
    <2>1. IsFiniteSet(1..8) /\ Cardinality(1..8) = 8
      <3>1. \A b \in Int : /\ IsFiniteSet(1..b)
                           /\ Cardinality(1..b) = IF 1 > b THEN 0 ELSE b - 1 + 1
        <4>1. 1 \in Int
          BY SMT
        <4> QED
          BY <4>1, FS_Interval, Zenon
      <3>2. 8 \in Int /\ 8 = IF 1 > 8 THEN 0 ELSE 8 - 1 + 1
        BY SMT
      <3> QED
        BY <3>1, <3>2, Zenon
    <2>2. S \subseteq 1..8
      OBVIOUS
    <2>3. IsFiniteSet(S) /\ Cardinality(S) <= 8
      BY <2>1, <2>2, FS_Subset, Zenon
    <2>4. Cardinality(S) \in Nat
      BY <2>3, FS_CardinalityType, Zenon
    <2> QED
      BY <2>3, <2>4 DEF _trip_uvar_len
  <1>2. ASSUME NEW k \in 1..m PROVE (n \div Shift[k]) % Byte \in Nat
    <2>1. \A a, b \in Nat \ {0} : a * b \in Nat \ {0}
      BY SMT
    <2>2. /\ Byte2 * Byte \in Nat \ {0} /\ Byte4 * Byte \in Nat \ {0}
          /\ Byte4 * Byte2 \in Nat \ {0} /\ Byte4 * Byte2 * Byte \in Nat \ {0}
      BY <2>1, Widths, Zenon
    <2>3. k \in 1..8 /\ 1 \in Nat \ {0}
      BY <1>1, SMT
    <2>4. Shift[k] \in Nat \ {0}
      <3> DEFINE a == Byte2 * Byte
                 b == Byte4 * Byte
                 c == Byte4 * Byte2
                 e == Byte4 * Byte2 * Byte
      <3>1. Shift = <<1, Byte, Byte2, a, Byte4, b, c, e>>
        BY DEF Shift
      <3> HIDE DEF a, b, c, e
      <3>2. a \in Nat \ {0} /\ b \in Nat \ {0} /\ c \in Nat \ {0} /\ e \in Nat \ {0}
        BY <2>2 DEF a, b, c, e
      <3> QED
        BY <2>3, <3>1, <3>2, Widths
    <2>5. n \div Shift[k] \in Int
      <3>1. n \in Int
        BY SMT
      <3> QED
        BY <2>4, <3>1, DivMod, Zenon
    <2>6. (n \div Shift[k]) % Byte \in 0..(Byte - 1)
      BY <2>5, Widths, DivMod
    <2> QED
      BY <2>6, Widths, SMT
  <1>3. PackVar(n) = <<m>> \o d
    BY DEF PackVar
  <1> HIDE DEF m
  <1>4. d \in [1..m -> Nat] /\ m \in Nat
    BY <1>1, <1>2
  <1>5. /\ d \in Seq(Nat) /\ Len(d) = m /\ <<m>> \in Seq(Nat) /\ Len(<<m>>) = 1
        /\ \A k \in 1..m : d[k] = (n \div Shift[k]) % Byte
    BY <1>4
  <1> HIDE DEF d
  <1>6. <<m>> \o d \in Seq(Nat) /\ Len(<<m>> \o d) = 1 + m
    BY <1>5, Halves, Zenon
  <1>7. (<<m>> \o d)[1] = m /\ \A k \in 1..m : (<<m>> \o d)[1 + k] = d[k]
    BY <1>4, <1>5
  <1> QED
    BY <1>1, <1>3, <1>5, <1>6, <1>7 DEF m

\* What is said of the other letters.
LEMMA OtherLetters ==
  ASSUME NEW v
  PROVE  /\ FieldRange("V") = 0..(Byte4 - 1) /\ FieldRange("W") = 0..(Byte8 - 1)
         /\ FieldRange("b") = {w \in Seq(0..(Byte - 1)) : Len(w) < Byte4 - 1 - MaxVar["b"]}
         /\ FieldRange("n") = [1..Block -> 0..(Byte - 1)]
         /\ FieldRange("k") = [1..Block -> 0..(Byte - 1)]
         /\ Packed("V", v) = PackVar(v) /\ Packed("W", v) = PackVar(v)
         /\ Packed("b", v) = PackVar(Len(v)) \o v
         /\ Packed("n", v) = v /\ Packed("k", v) = v
         /\ Packed("o", v) = Zeros /\ Packed("S", v) = Zeros
         /\ Packed("O", v) = <<>> /\ Packed("e", v) = <<>>
         /\ Packed("E", v) = <<>> /\ Packed("s", v) = <<>>
  BY DEF FieldRange, Packed, Blocks, Fixed, Width

LEMMA PackedIsSeq ==
  ASSUME NEW l \in CanPack, NEW v \in FieldRange(l)
  PROVE  Packed(l, v) \in Seq(Nat)
  <1>1. CASE l \in Fixed
    <2>1. v \in Int
      BY <1>1, FixedLetters, FixedRanges, Widths
    <2>2. v % Byte \in Nat
      <3>1. v % Byte \in 0..(Byte - 1)
        BY <2>1, Widths, DivMod, Zenon
      <3> QED
        BY <3>1, Widths, SMT
    <2>3. <<v % Byte>> \in Seq(Nat)
      BY <2>2
    <2>4. /\ packi16(v) \in Seq(Nat)
          /\ packi32(v) \in Seq(Nat)
          /\ packi64(v) \in Seq(Nat)
      BY <2>1, Pack16, Pack32, Pack64, Zenon
    <2> QED
      BY <1>1, <2>3, <2>4, FixedLetters, FixedPacked
  <1>2. CASE l \in {"V", "W"}
    <2>1. v \in Nat
      <3>1. v \in 0..(Byte4 - 1) \/ v \in 0..(Byte8 - 1)
        BY <1>2, OtherLetters
      <3> QED
        BY <3>1, Widths, SMT
    <2>2. PackVar(v) \in Seq(Nat)
      BY <2>1, VarIsSeq
    <2> QED
      BY <1>2, <2>2, OtherLetters
  <1>3. CASE l = "b"
    <2>1. v \in Seq(Nat) /\ Len(v) \in Nat
      <3>1. v \in Seq(0..(Byte - 1))
        BY <1>3, OtherLetters
      <3> QED
        BY <3>1, Widths
    <2>2. PackVar(Len(v)) \in Seq(Nat)
      BY <2>1, VarIsSeq
    <2>3. PackVar(Len(v)) \o v \in Seq(Nat)
      BY <2>1, <2>2, Halves, Zenon
    <2> QED
      BY <1>3, <2>3, OtherLetters
  <1>4. CASE l \in Blocks
    <2>1. v \in [1..Block -> 0..(Byte - 1)]
      BY <1>4, OtherLetters DEF Blocks
    <2>2. v \in Seq(Nat)
      BY <2>1, SizesAreNat, Widths
    <2> QED
      BY <1>4, <2>2, OtherLetters DEF Blocks
  <1>5. CASE l \in {"o", "O", "e", "E", "s", "S"}
    <2>1. Zeros \in Seq(Nat) /\ <<>> \in Seq(Nat)
      BY SizesAreNat DEF Zeros
    <2> QED
      BY <1>5, <2>1, OtherLetters
  <1> QED
    BY <1>1, <1>2, <1>3, <1>4, <1>5 DEF CanPack

-----------------------------------------------------------------------------
(* Lengths.                                                                *)

\* The bytes of an integer are counted from the highest one that is not zero.
LEMMA Shifts ==
  /\ Byte >= 2
  /\ Byte2 >= Byte /\ Byte2 * Byte >= Byte /\ Byte4 >= Byte /\ Byte4 * Byte >= Byte4
  /\ Byte4 * Byte2 >= Byte4 /\ Byte4 * Byte2 * Byte >= Byte4
  <1>1. Byte >= 2
    BY ByteIsEven, SMT
  <1>2. \A a, b \in Nat \ {0} : a * b >= a /\ a * b >= b
    <2> SUFFICES ASSUME NEW a \in Nat \ {0}, NEW b \in Nat \ {0}
                 PROVE  a * b >= a /\ a * b >= b
      OBVIOUS
    <2>1. a * b = a + a * (b - 1) /\ a * b = b + b * (a - 1)
      BY SMT
    <2>2. a * (b - 1) >= 0 /\ b * (a - 1) >= 0
      BY SMT
    <2> QED
      BY <2>1, <2>2, SMT
  <1>3. \A a, b \in Nat \ {0} : a * b \in Nat \ {0}
    BY SMT
  <1>4. Byte2 * Byte \in Nat \ {0} /\ Byte4 * Byte2 \in Nat \ {0}
    BY <1>3, Widths, Zenon
  <1>5. Byte2 >= Byte /\ Byte2 * Byte >= Byte /\ Byte4 * Byte >= Byte4 /\ Byte4 * Byte2 >= Byte4
    BY <1>2, Widths, Zenon DEF Byte2
  <1>6. Byte4 >= Byte2
    BY <1>2, Widths, Zenon DEF Byte4
  <1>7. Byte4 * Byte2 * Byte >= Byte4 * Byte2
    BY <1>2, <1>4, Widths, Zenon
  <1> DEFINE b == Byte4 * Byte2
             c == Byte4 * Byte2 * Byte
  <1>8. b \in Nat /\ c \in Nat /\ c >= b /\ b >= Byte4
    BY <1>3, <1>4, <1>5, <1>7, Widths, Zenon
  <1> HIDE DEF b, c
  <1>9. c >= Byte4 /\ Byte4 >= Byte
    BY <1>5, <1>6, <1>8, Widths
  <1> QED
    BY <1>1, <1>5, <1>9 DEF b, c

LEMMA FewBytes ==
  ASSUME NEW n \in Nat
  PROVE  /\ n < Byte4 => _trip_uvar_len(n) \in 0..4
         /\ n < Byte => _trip_uvar_len(n) = IF n = 0 THEN 0 ELSE 1
  <1> DEFINE S == {k \in 1..8 : n >= Shift[k]}
             a == Byte2 * Byte
             b == Byte4 * Byte
             c == Byte4 * Byte2
             e == Byte4 * Byte2 * Byte
  <1>1. Shift = <<1, Byte, Byte2, a, Byte4, b, c, e>>
    BY DEF Shift
  <1>2. /\ Byte >= 2 /\ Byte2 >= Byte /\ a >= Byte /\ Byte4 >= Byte /\ b >= Byte4
        /\ c >= Byte4 /\ e >= Byte4
    BY Shifts
  <1>3. a \in Nat /\ b \in Nat /\ c \in Nat /\ e \in Nat
    <2>1. \A x, y \in Nat \ {0} : x * y \in Nat \ {0}
      BY SMT
    <2>2. c \in Nat \ {0}
      BY <2>1, Widths, Zenon
    <2>3. a \in Nat \ {0} /\ b \in Nat \ {0} /\ e \in Nat \ {0}
      BY <2>1, <2>2, Widths, Zenon
    <2> QED
      BY <2>2, <2>3
  <1> HIDE DEF a, b, c, e
  <1>4. \A m \in Nat : IsFiniteSet(1..m) /\ Cardinality(1..m) = m
    <2> SUFFICES ASSUME NEW m \in Nat
                 PROVE  IsFiniteSet(1..m) /\ Cardinality(1..m) = m
      OBVIOUS
    <2>1. IsFiniteSet(1..m) /\ Cardinality(1..m) = IF 1 > m THEN 0 ELSE m - 1 + 1
      <3>1. 1 \in Int /\ m \in Int
        BY SMT
      <3> QED
        BY <3>1, FS_Interval, Zenon
    <2> QED
      BY <2>1
  <1>5. ASSUME n < Byte4 PROVE Cardinality(S) \in 0..4
    <2>1. S \subseteq 1..4
      <3>1. \A k \in 5..8 : k \in {5, 6, 7, 8}
        OBVIOUS
      <3>2. \A k \in 5..8 : Shift[k] >= Byte4
        BY <1>1, <1>2, <3>1, Widths
      <3>3. \A k \in 5..8 : Shift[k] \in Nat
        BY <1>1, <1>3, <3>1, Widths
      <3>4. \A k \in 1..8 : k \in 1..4 \/ k \in 5..8
        OBVIOUS
      <3>5. \A k \in 5..8 : ~(n >= Shift[k])
        BY <1>5, <3>2, <3>3, Widths
      <3> QED
        BY <3>4, <3>5
    <2>2. IsFiniteSet(1..4) /\ Cardinality(1..4) = 4
      <3>1. 4 \in Nat
        OBVIOUS
      <3> QED
        BY <1>4, <3>1, Zenon
    <2>3. IsFiniteSet(S) /\ Cardinality(S) <= 4
      <3> HIDE DEF S
      <3>1. IsFiniteSet(S) /\ Cardinality(S) <= Cardinality(1..4)
        BY <2>1, <2>2, FS_Subset, Zenon
      <3> QED
        BY <2>2, <3>1
    <2>4. Cardinality(S) \in Nat
      BY <2>3, FS_CardinalityType, Zenon
    <2> QED
      BY <2>3, <2>4
  <1>6. ASSUME n < Byte PROVE Cardinality(S) = IF n = 0 THEN 0 ELSE 1
    <2>1. \A k \in 2..8 : ~(n >= Shift[k])
      <3>1. \A k \in 2..8 : k \in {2, 3, 4, 5, 6, 7, 8}
        OBVIOUS
      <3>2. b >= Byte /\ c >= Byte /\ e >= Byte
        BY <1>2, <1>3, Widths
      <3>3. \A k \in 2..8 : Shift[k] >= Byte /\ Shift[k] \in Nat
        BY <1>1, <1>2, <1>3, <3>1, <3>2, Widths
      <3> QED
        BY <1>6, <3>3, Widths
    <2>2. Shift[1] = 1
      BY <1>1
    <2>3. CASE n = 0
      <3>1. S = {}
        <4>1. \A k \in 1..8 : k = 1 \/ k \in 2..8
          OBVIOUS
        <4> QED
          BY <2>1, <2>2, <2>3, <4>1
      <3> QED
        BY <2>3, <3>1, FS_EmptySet, Zenon
    <2>4. CASE n # 0
      <3>1. S = {1}
        <4>1. \A k \in 1..8 : k = 1 \/ k \in 2..8
          OBVIOUS
        <4>2. n >= 1
          BY <2>4
        <4> QED
          BY <2>1, <2>2, <4>1, <4>2
      <3>2. Cardinality({1}) = 1
        BY FS_Singleton, Zenon
      <3> QED
        BY <2>4, <3>1, <3>2
    <2> QED
      BY <2>3, <2>4
  <1> QED
    BY <1>5, <1>6 DEF _trip_uvar_len

\* Reading no byte, and one.
LEMMA VarValues ==
  /\ VarValue(<<>>) = 0
  /\ \A b : b \in Nat => VarValue(<<b>>) = b
  <1>1. VarValue(<<>>) = 0
    <2> DEFINE IsRead(r) == r = [k \in 0..Len(<<>>) |-> IF k = 0 THEN 0 ELSE r[k - 1] * Byte + <<>>[k]]
               r == [k \in 0..0 |-> 0]
    <2>1. Len(<<>>) = 0 /\ \A k \in 0..0 : k = 0
      OBVIOUS
    <2>2. IsRead(r)
      BY <2>1
    <2>3. IsRead(CHOOSE s : IsRead(s))
      BY <2>2
    <2>4. VarValue(<<>>) = (CHOOSE s : IsRead(s))[Len(<<>>)]
      BY DEF VarValue
    <2>5. \A s : IsRead(s) => s[0] = 0
      BY <2>1
    <2> HIDE DEF IsRead
    <2> QED
      BY <2>1, <2>3, <2>4, <2>5
  <1>2. ASSUME NEW b \in Nat PROVE VarValue(<<b>>) = b
    <2> DEFINE IsRead(r) == r = [k \in 0..Len(<<b>>) |-> IF k = 0 THEN 0 ELSE r[k - 1] * Byte + <<b>>[k]]
               r == [k \in 0..1 |-> IF k = 0 THEN 0 ELSE b]
    <2>1. Len(<<b>>) = 1 /\ <<b>>[1] = b /\ 0 * Byte + b = b
      BY Widths
    <2>2. IsRead(r)
      <3>1. \A k \in 0..1 : r[k] = IF k = 0 THEN 0 ELSE r[k - 1] * Byte + <<b>>[k]
        <4>1. r[0] = 0 /\ r[1] = b /\ \A k \in 0..1 : k = 0 \/ k = 1
          OBVIOUS
        <4>2. r[1 - 1] = 0
          BY <4>1
        <4> HIDE DEF r
        <4> QED
          BY <2>1, <4>1, <4>2
      <3>2. r = [k \in 0..1 |-> r[k]]
        OBVIOUS
      <3> HIDE DEF r
      <3> QED
        BY <2>1, <3>1, <3>2
    <2>3. IsRead(CHOOSE s : IsRead(s))
      <3> HIDE DEF IsRead
      <3> QED
        BY <2>2
    <2>4. VarValue(<<b>>) = (CHOOSE s : IsRead(s))[Len(<<b>>)]
      BY DEF VarValue
    <2>5. \A s : IsRead(s) => s[1] = b
      <3> SUFFICES ASSUME NEW s, IsRead(s) PROVE s[1] = b
        OBVIOUS
      <3>1. s[0] = 0 /\ s[1] = s[1 - 1] * Byte + <<b>>[1]
        BY <2>1
      <3> QED
        BY <2>1, <3>1
    <2> HIDE DEF IsRead
    <2> QED
      BY <2>1, <2>3, <2>4, <2>5
  <1> QED
    BY <1>1, <1>2

\* The bytes of a variable integer are read as a number, whatever they are.
LEMMA VarValueIsNat ==
  ASSUME NEW b \in Seq(Nat)
  PROVE  VarValue(b) \in Nat
  <1> DEFINE n == Len(b)
             IsRead(r, m) == r = [k \in 0..m |-> IF k = 0 THEN 0 ELSE r[k - 1] * Byte + b[k]]
             Reads(m) == \E r \in [0..m -> Nat] : IsRead(r, m)
             N == {m \in Nat : m <= n => Reads(m)}
  <1>1. n \in Nat /\ \A k \in 1..n : b[k] \in Nat
    OBVIOUS
  <1>2. 0 \in N
    <2> DEFINE r == [k \in 0..0 |-> 0]
    <2>1. r \in [0..0 -> Nat] /\ IsRead(r, 0)
      OBVIOUS
    <2> QED
      BY <2>1
  <1>3. ASSUME NEW m \in N PROVE m + 1 \in N
    <2> SUFFICES ASSUME m + 1 <= n
                 PROVE  Reads(m + 1)
      <3> HIDE DEF Reads
      <3> QED
        OBVIOUS
    <2>1. m \in Nat /\ m <= n /\ Reads(m)
      <3> HIDE DEF Reads
      <3> QED
        BY <1>1
    <2> PICK r \in [0..m -> Nat] : IsRead(r, m)
      BY <2>1
    <2> DEFINE x == r[m] * Byte + b[m + 1]
               t == [k \in 0..(m + 1) |-> IF k <= m THEN r[k] ELSE x]
    <2>2. m \in 0..m /\ m + 1 \in 1..n /\ r[m] \in Nat /\ b[m + 1] \in Nat
      BY <1>1, <2>1
    <2>3. x \in Nat
      <3>1. \A y, z \in Nat : y * z \in Nat
        BY SMT
      <3>2. r[m] * Byte \in Nat
        BY <2>2, <3>1, Widths, Zenon
      <3> QED
        BY <2>2, <3>2
    <2> HIDE DEF x
    <2>4. t \in [0..(m + 1) -> Nat]
      BY <2>1, <2>3
    <2>5. \A k \in 0..(m + 1) : t[k] = IF k <= m THEN r[k] ELSE x
      OBVIOUS
    <2>6. \A k \in 0..m : r[k] = IF k = 0 THEN 0 ELSE r[k - 1] * Byte + b[k]
      OBVIOUS
    <2> HIDE DEF t
    <2>7. ASSUME NEW k \in 0..(m + 1)
          PROVE  t[k] = IF k = 0 THEN 0 ELSE t[k - 1] * Byte + b[k]
      <3>1. CASE k = 0
        BY <2>1, <2>5, <2>6, <3>1
      <3>2. CASE k \in 1..m
        <4>1. k \in 0..m /\ k <= m /\ k - 1 <= m /\ k - 1 \in 0..(m + 1) /\ k # 0
          BY <2>1, <3>2
        <4>2. t[k] = r[k] /\ t[k - 1] = r[k - 1]
          BY <2>5, <4>1
        <4>3. r[k] = r[k - 1] * Byte + b[k]
          BY <2>6, <4>1, Zenon
        <4> QED
          BY <4>1, <4>2, <4>3, Zenon
      <3>3. CASE k = m + 1
        <4>1. ~(k <= m) /\ k - 1 = m /\ m \in 0..(m + 1) /\ m <= m /\ k # 0
          BY <2>1, <3>3
        <4>2. t[k] = x /\ t[m] = r[m]
          BY <2>5, <4>1
        <4>3. x = t[k - 1] * Byte + b[k]
          BY <3>3, <4>1, <4>2, Zenon DEF x
        <4> QED
          BY <4>1, <4>2, <4>3, Zenon
      <3> QED
        BY <2>1, <3>1, <3>2, <3>3
    <2>8. IsRead(t, m + 1)
      <3>1. t = [k \in 0..(m + 1) |-> t[k]]
        BY <2>4
      <3> QED
        BY <2>7, <3>1
    <2> QED
      BY <2>4, <2>8
  <1>4. N = Nat
    <2>1. N \in SUBSET Nat
      OBVIOUS
    <2> HIDE DEF N
    <2> QED
      BY <1>2, <1>3, <2>1, AllNumbers
  <1>5. \E r : IsRead(r, n)
    <2>1. Reads(n)
      <3> HIDE DEF Reads
      <3> QED
        BY <1>1, <1>4
    <2> QED
      BY <2>1
  <1> DEFINE q == CHOOSE r : IsRead(r, n)
  <1>6. IsRead(q, n)
    <2> HIDE DEF IsRead
    <2> QED
      BY <1>5, Zenon
  <1>7. VarValue(b) = q[n]
    BY DEF VarValue
  <1>8. \A k \in 0..n : q[k] = IF k = 0 THEN 0 ELSE q[k - 1] * Byte + b[k]
    <2> HIDE DEF q
    <2> QED
      BY <1>6
  <1> HIDE DEF q
  <1> DEFINE M == {m \in Nat : m <= n => q[m] \in Nat}
  <1>9. 0 \in M
    <2>1. 0 \in 0..n
      BY <1>1
    <2> QED
      BY <1>8, <2>1
  <1>10. ASSUME NEW m \in M PROVE m + 1 \in M
    <2> SUFFICES ASSUME m + 1 <= n
                 PROVE  q[m + 1] \in Nat
      OBVIOUS
    <2>1. m \in Nat /\ q[m] \in Nat /\ m + 1 \in 0..n /\ m + 1 # 0 /\ (m + 1) - 1 = m
      BY <1>1
    <2>2. q[m + 1] = q[m] * Byte + b[m + 1] /\ b[m + 1] \in Nat
      <3>1. m + 1 \in 1..n
        BY <1>1, <2>1
      <3> QED
        BY <1>1, <1>8, <2>1, <3>1
    <2>3. q[m] * Byte \in Nat
      <3>1. \A y, z \in Nat : y * z \in Nat
        BY SMT
      <3> QED
        BY <2>1, <3>1, Widths, Zenon
    <2> QED
      BY <2>2, <2>3
  <1>11. M = Nat
    <2>1. M \in SUBSET Nat
      OBVIOUS
    <2> HIDE DEF M
    <2> QED
      BY <1>9, <1>10, <2>1, AllNumbers
  <1> QED
    BY <1>1, <1>7, <1>11

-----------------------------------------------------------------------------
(* A field is read where it is.                                            *)

\* b has the bytes of p behind its first n.
HasAt(b, n, p) ==
  /\ n + Len(p) <= Len(b)
  /\ \A i \in 1..Len(p) : b[n + i] = p[i]

LEMMA Segment ==
  ASSUME NEW b \in Seq(Nat), NEW n \in Nat, NEW p \in Seq(Nat), HasAt(b, n, p)
  PROVE  SubSeq(b, n + 1, n + Len(p)) = p
  <1> DEFINE s == SubSeq(b, n + 1, n + Len(p))
             m == Len(p)
  <1>1. m \in Nat /\ p \in [1..m -> Nat] /\ n + m <= Len(b) /\ Len(b) \in Nat
    BY DEF HasAt
  <1>2. s = [k \in 1..m |-> b[n + k]]
    <2>1. (n + Len(p)) - (n + 1) + 1 = Len(p)
      BY <1>1
    <2>2. s = [k \in 1..((n + Len(p)) - (n + 1) + 1) |-> b[(n + 1) + k - 1]]
      BY <1>1
    <2>3. \A k \in 1..m : (n + 1) + k - 1 = n + k
      BY <1>1
    <2> HIDE DEF s
    <2> QED
      BY <1>1, <2>1, <2>2, <2>3
  <1>3. p = [k \in 1..m |-> p[k]]
    BY <1>1
  <1>4. \A k \in 1..m : b[n + k] = p[k]
    BY DEF HasAt
  <1> HIDE DEF s, m
  <1>5. s = p
    BY <1>2, <1>3, <1>4
  <1> QED
    BY <1>5 DEF s

LEMMA HasBoth ==
  ASSUME NEW b \in Seq(Nat), NEW n \in Nat, NEW s \in Seq(Nat), NEW t \in Seq(Nat),
         HasAt(b, n, s \o t)
  PROVE  HasAt(b, n, s) /\ HasAt(b, n + Len(s), t)
  <1>1. Len(s \o t) = Len(s) + Len(t) /\ Len(s) \in Nat /\ Len(t) \in Nat
    BY Halves
  <1>2. \A i \in 1..Len(s) : (s \o t)[i] = s[i] /\ i \in 1..Len(s \o t)
    BY <1>1
  <1>3. \A i \in 1..Len(t) : /\ (s \o t)[Len(s) + i] = t[i]
                             /\ Len(s) + i \in 1..Len(s \o t)
                             /\ n + (Len(s) + i) = (n + Len(s)) + i
    BY <1>1
  <1>4. /\ n + Len(s \o t) <= Len(b)
        /\ \A i \in 1..Len(s \o t) : b[n + i] = (s \o t)[i]
    BY DEF HasAt
  <1>5. HasAt(b, n, s)
    BY <1>1, <1>2, <1>4 DEF HasAt
  <1>6. HasAt(b, n + Len(s), t)
    <2>1. (n + Len(s)) + Len(t) <= Len(b)
      BY <1>1, <1>4
    <2>2. \A i \in 1..Len(t) : b[(n + Len(s)) + i] = t[i]
      <3> TAKE i \in 1..Len(t)
      <3>1. b[n + (Len(s) + i)] = (s \o t)[Len(s) + i]
        BY <1>3, <1>4
      <3> QED
        BY <1>3, <3>1
    <2> QED
      BY <2>1, <2>2 DEF HasAt
  <1> QED
    BY <1>5, <1>6

\* A sequence of one number, and of two, without the first.
LEMMA OneIsLeft ==
  ASSUME NEW s \in Seq(Nat)
  PROVE  /\ Len(s) = 1 => Tail(s) = <<>>
         /\ Len(s) = 2 => Tail(s) = <<s[2]>>
  <1>1. s # <<>> => /\ Tail(s) \in Seq(Nat) /\ Len(Tail(s)) = Len(s) - 1
                    /\ \A i \in 1..Len(Tail(s)) : Tail(s)[i] = s[i + 1]
    OBVIOUS
  <1>2. Len(s) > 0 => s # <<>>
    OBVIOUS
  <1>3. \A t \in Seq(Nat) : Len(t) = 0 => t = <<>>
    OBVIOUS
  <1>4. ASSUME NEW t \in Seq(Nat), NEW b \in Nat, Len(t) = 1, t[1] = b PROVE t = <<b>>
    <2>1. t = [k \in 1..1 |-> t[k]]
      BY <1>4
    <2>2. <<b>> = [k \in 1..1 |-> b]
      OBVIOUS
    <2>3. \A k \in 1..1 : t[k] = b
      BY <1>4
    <2> QED
      BY <2>1, <2>2, <2>3
  <1>5. ASSUME Len(s) = 2 PROVE Tail(s) = <<s[2]>>
    <2> PICK t : t = Tail(s)
      OBVIOUS
    <2>1. s # <<>> /\ s[2] \in Nat /\ Len(s) - 1 = 1
      <3>1. Len(s) > 0 /\ 2 \in 1..Len(s)
        BY <1>5
      <3>2. s # <<>>
        BY <1>2, <3>1, Zenon
      <3>3. s[2] \in Nat
        BY <3>1
      <3> QED
        BY <1>5, <3>2, <3>3
    <2>2. t \in Seq(Nat) /\ Len(t) = 1 /\ \A i \in 1..1 : t[i] = s[i + 1]
      BY <1>1, <2>1, Zenon
    <2>3. t[1] = s[2]
      <3>1. 1 \in 1..1 /\ 1 + 1 = 2
        OBVIOUS
      <3> QED
        BY <2>2, <3>1
    <2> QED
      BY <1>4, <2>1, <2>2, <2>3, Zenon
  <1>6. ASSUME Len(s) = 1 PROVE Tail(s) = <<>>
    <2> PICK t : t = Tail(s)
      OBVIOUS
    <2>1. s # <<>> /\ Len(s) - 1 = 0
      BY <1>2, <1>6
    <2>2. t \in Seq(Nat) /\ Len(t) = 0
      BY <1>1, <2>1, Zenon
    <2> QED
      BY <1>3, <2>2, Zenon
  <1> QED
    BY <1>5, <1>6

\* A variable integer: its length is that of all its bytes, and one byte is itself.
LEMMA VarIsRead ==
  ASSUME buf \in Seq(Nat), at \in Nat, NEW n \in Nat, HasAt(buf, at, PackVar(n))
  PROVE  /\ VarLen = Len(PackVar(n)) /\ VarLen = 1 + _trip_uvar_len(n)
         /\ buf[at + 1] = _trip_uvar_len(n)
         /\ n < Byte => VarAt = n
  <1> DEFINE m == _trip_uvar_len(n)
             p == PackVar(n)
  <1>1. /\ p \in Seq(Nat) /\ m \in Nat /\ Len(p) = 1 + m /\ p[1] = m
        /\ \A k \in 1..m : p[1 + k] = (n \div Shift[k]) % Byte
    <2>1. /\ p \in Seq(Nat) /\ m \in 0..8 /\ Len(p) = 1 + m /\ p[1] = m
          /\ \A k \in 1..m : p[1 + k] = (n \div Shift[k]) % Byte
      BY VarIsSeq, Zenon
    <2>2. \A k \in 0..8 : k \in Nat
      OBVIOUS
    <2> QED
      BY <2>1, <2>2, Zenon
  <1> HIDE DEF m, p
  <1>2. buf[at + 1] = m
    <2>1. 1 \in 1..Len(p)
      BY <1>1
    <2> QED
      BY <1>1, <2>1 DEF HasAt, p
  <1>3. VarLen = 1 + m
    BY <1>2 DEF VarLen
  <1>4. Bytes(VarLen) = p
    <2>1. SubSeq(buf, at + 1, at + Len(p)) = p
      BY <1>1, Segment DEF p
    <2> QED
      BY <1>1, <1>3, <2>1 DEF Bytes
  <1>5. ASSUME n < Byte PROVE VarAt = n
    <2>1. m = IF n = 0 THEN 0 ELSE 1
      BY <1>5, FewBytes DEF m
    <2>2. CASE n = 0
      <3>1. Tail(p) = <<>>
        <4>1. Len(p) = 1
          BY <1>1, <2>1, <2>2
        <4> QED
          BY <1>1, <4>1, OneIsLeft
      <3> QED
        BY <1>4, <2>2, <3>1, VarValues DEF VarAt
    <2>3. CASE n # 0
      <3>1. (n \div Shift[1]) % Byte = n
        <4>1. Shift[1] = 1
          BY DEF Shift
        <4>2. n \div 1 = n
          BY SMT
        <4>3. n % Byte = n
          BY <1>5, Widths, SMT
        <4> QED
          BY <4>1, <4>2, <4>3
      <3>2. p[2] = n /\ Len(p) = 2
        <4>1. m = 1 /\ 1 \in 1..1 /\ 1 + 1 = 2
          BY <2>1, <2>3
        <4> QED
          BY <1>1, <3>1, <4>1
      <3>3. Tail(p) = <<n>>
        <4>1. Tail(p) = <<p[2]>>
          BY <1>1, <3>2, OneIsLeft, Zenon
        <4> QED
          BY <3>2, <4>1
      <3> QED
        BY <1>4, <3>3, VarValues DEF VarAt
    <2> QED
      BY <2>2, <2>3
  <1> QED
    BY <1>1, <1>2, <1>3, <1>5 DEF m, p

\* The length of a field of fixed width.
LEMMA FixedLen ==
  ASSUME NEW l \in Fixed, NEW v \in FieldRange(l)
  PROVE  Len(Packed(l, v)) = Width[l]
  <1>1. v \in Int
    BY FixedLetters, FixedRanges, Widths
  <1>2. Len(<<v % Byte>>) = 1 /\ Len(packi16(v)) = 2 /\ Len(packi32(v)) = 4 /\ Len(packi64(v)) = 8
    <2>1. Len(packi16(v)) = 2 /\ Len(packi32(v)) = 4 /\ Len(packi64(v)) = 8
      BY <1>1, Pack16, Pack32, Pack64, Zenon
    <2> QED
      BY <2>1
  <1>3. /\ Width["c"] = 1 /\ Width["C"] = 1 /\ Width["h"] = 2 /\ Width["H"] = 2
        /\ Width["i"] = 4 /\ Width["I"] = 4 /\ Width["q"] = 8 /\ Width["Q"] = 8
    BY DEF Width
  <1> QED
    BY <1>2, <1>3, FixedLetters, FixedPacked

\* What is said of a letter when it is read.
LEMMA ReadLetters ==
  /\ \A l \in Fixed : /\ FieldLen(l) = Width[l] /\ Passed(l) = FieldLen(l)
                      /\ FieldValue(l) = FixedValue(l, Bytes(Width[l]))
                      /\ l \notin DOMAIN MaxVar
  /\ \A l \in {"V", "W"} : /\ FieldLen(l) = VarLen /\ Passed(l) = FieldLen(l)
                           /\ FieldValue(l) = VarAt
  /\ /\ FieldLen("b") = VarLen + VarAt /\ Passed("b") = VarLen
     /\ FieldValue("b") = SubSeq(buf, at + VarLen + 1, at + FieldLen("b"))
  /\ \A l \in Blocks : /\ FieldLen(l) = Block /\ Passed(l) = FieldLen(l)
                       /\ FieldValue(l) = Bytes(Block)
                       /\ l \notin DOMAIN MaxVar
  /\ /\ FieldLen("o") = Block /\ FieldLen("O") = 0
     /\ Passed("o") = Block /\ Passed("O") = 0
     /\ FieldValue("o") = "none" /\ FieldValue("O") = "none"
     /\ "o" \notin DOMAIN MaxVar /\ "O" \notin DOMAIN MaxVar
  /\ MaxVar["V"] = 4 /\ MaxVar["W"] = 8 /\ MaxVar["b"] = 4
  /\ \A l : l \in DOMAIN MaxVar <=> l \in {"V", "W", "b"}
  <1>1. ASSUME NEW l \in Fixed
        PROVE  /\ FieldLen(l) = Width[l] /\ Passed(l) = FieldLen(l)
               /\ FieldValue(l) = FixedValue(l, Bytes(Width[l]))
               /\ l \notin DOMAIN MaxVar
    <2>1. l # "b" /\ l # "o" /\ l # "O" /\ l \notin {"V", "W"} /\ l \notin Blocks
      BY FixedLetters DEF Blocks
    <2>2. FieldLen(l) = Width[l]
      BY <2>1, Zenon DEF FieldLen
    <2>3. FieldValue(l) = FixedValue(l, Bytes(Width[l]))
      BY <2>1, Zenon DEF FieldValue
    <2>4. l \notin DOMAIN MaxVar
      BY <2>1 DEF MaxVar
    <2> QED
      BY <2>1, <2>2, <2>3, <2>4 DEF Passed
  <1>2. ASSUME NEW l \in {"V", "W"}
        PROVE  /\ FieldLen(l) = VarLen /\ Passed(l) = FieldLen(l)
               /\ FieldValue(l) = VarAt
    <2>1. l # "b" /\ l # "o" /\ l # "O" /\ l \notin Fixed /\ l \notin Blocks
      BY FixedLetters DEF Blocks
    <2>2. FieldLen(l) = VarLen
      BY <2>1, Zenon DEF FieldLen
    <2>3. FieldValue(l) = VarAt
      BY <2>1, Zenon DEF FieldValue
    <2> QED
      BY <2>1, <2>2, <2>3 DEF Passed
  <1>3. /\ FieldLen("b") = VarLen + VarAt /\ Passed("b") = VarLen
        /\ FieldValue("b") = SubSeq(buf, at + VarLen + 1, at + FieldLen("b"))
    <2> DEFINE l == "b"
    <2>1. /\ l = "b" /\ l # "o" /\ l # "O" /\ l \notin {"V", "W"} /\ l \notin Fixed
          /\ l \notin Blocks
      BY FixedLetters DEF Blocks
    <2> HIDE DEF l
    <2>2. FieldLen(l) = VarLen + VarAt
      BY <2>1, Zenon DEF FieldLen
    <2>3. FieldValue(l) = SubSeq(buf, at + VarLen + 1, at + FieldLen(l))
      BY <2>1, Zenon DEF FieldValue
    <2> QED
      BY <2>1, <2>2, <2>3 DEF Passed
  <1>4. ASSUME NEW l \in Blocks
        PROVE  /\ FieldLen(l) = Block /\ Passed(l) = FieldLen(l)
               /\ FieldValue(l) = Bytes(Block)
               /\ l \notin DOMAIN MaxVar
    <2>1. l # "b" /\ l # "o" /\ l # "O" /\ l \notin {"V", "W"} /\ l \notin Fixed
      BY FixedLetters DEF Blocks
    <2>2. FieldLen(l) = Block
      <3>1. l \in Blocks \cup {"o"}
        OBVIOUS
      <3> QED
        BY <2>1, <3>1, Zenon DEF FieldLen
    <2>3. FieldValue(l) = Bytes(Block)
      BY <2>1, Zenon DEF FieldValue
    <2>4. l \notin DOMAIN MaxVar
      BY <2>1 DEF MaxVar
    <2> QED
      BY <2>1, <2>2, <2>3, <2>4 DEF Passed
  <1>5. /\ FieldLen("o") = Block /\ FieldLen("O") = 0
        /\ Passed("o") = Block /\ Passed("O") = 0
        /\ FieldValue("o") = "none" /\ FieldValue("O") = "none"
        /\ "o" \notin DOMAIN MaxVar /\ "O" \notin DOMAIN MaxVar
    <2>1. \A l \in {"o", "O"} : l # "b" /\ l \notin {"V", "W"} /\ l \notin Fixed /\ l \notin Blocks
      BY FixedLetters DEF Blocks
    <2>2. ASSUME NEW l, l = "o"
          PROVE  FieldLen(l) = Block /\ FieldValue(l) = "none" /\ Passed(l) = FieldLen(l)
      <3>1. /\ l \in {"o", "O"} /\ l \in Blocks \cup {"o"} /\ l # "O" /\ l # "b"
            /\ l \notin {"V", "W"} /\ l \notin Fixed /\ l \notin Blocks
        BY <2>1, <2>2
      <3>2. FieldLen(l) = Block
        BY <3>1, Zenon DEF FieldLen
      <3>3. FieldValue(l) = "none"
        BY <3>1, Zenon DEF FieldValue
      <3> QED
        BY <3>1, <3>2, <3>3 DEF Passed
    <2>3. ASSUME NEW l, l = "O"
          PROVE  FieldLen(l) = 0 /\ FieldValue(l) = "none" /\ Passed(l) = FieldLen(l)
      <3>1. /\ l \in {"o", "O"} /\ l \notin Blocks \cup {"o"} /\ l = "O" /\ l # "b"
            /\ l \notin {"V", "W"} /\ l \notin Fixed /\ l \notin Blocks
        BY <2>1, <2>3
      <3>2. FieldLen(l) = 0
        BY <3>1, Zenon DEF FieldLen
      <3>3. FieldValue(l) = "none"
        BY <3>1, Zenon DEF FieldValue
      <3> QED
        BY <3>1, <3>2, <3>3 DEF Passed
    <2>4. "o" \notin DOMAIN MaxVar /\ "O" \notin DOMAIN MaxVar
      BY DEF MaxVar
    <2> QED
      BY <2>2, <2>3, <2>4
  <1>6. MaxVar["V"] = 4 /\ MaxVar["W"] = 8 /\ MaxVar["b"] = 4
    BY DEF MaxVar
  <1>7. \A l : l \in DOMAIN MaxVar <=> l \in {"V", "W", "b"}
    BY DEF MaxVar
  <1> QED
    BY <1>1, <1>2, <1>3, <1>4, <1>5, <1>6, <1>7

\* What one field takes and gives, where it is whole.
FieldTaken(l, v) ==
  /\ l \in DOMAIN MaxVar => /\ buf[at + 1] <= MaxVar[l]
                            /\ VarLen \in 1..Len(Packed(l, v))
  /\ ~(l = "b" /\ IsLong(l, v)) => FieldLen(l) = Len(Packed(l, v))
  /\ ~(l = "b" /\ v # <<>>) => Passed(l) = Len(Packed(l, v))
  /\ ~IsLong(l, v) => FieldValue(l) = v

LEMMA FieldIsRead ==
  ASSUME buf \in Seq(Nat), at \in Nat,
         NEW l \in CanUnpack, NEW v \in FieldRange(l), HasAt(buf, at, Packed(l, v))
  PROVE  FieldTaken(l, v)
  <1> DEFINE p == Packed(l, v)
  <1>1. p \in Seq(Nat) /\ Len(p) \in Nat
    <2>1. l \in CanPack
      BY DEF CanPack, CanUnpack
    <2>2. p \in Seq(Nat)
      BY <2>1, PackedIsSeq, Zenon
    <2> HIDE DEF p
    <2> QED
      BY <2>2
  <1>2. Bytes(Len(p)) = p
    <2> HIDE DEF p
    <2>1. HasAt(buf, at, p)
      BY DEF p
    <2> QED
      BY <1>1, <2>1, Segment, Zenon DEF Bytes
  <1>3. CASE l \in Fixed
    <2>1. Len(p) = Width[l]
      BY <1>3, FixedLen
    <2>2. FixedValue(l, p) = v
      BY <1>3, FixedRoundTrip, Zenon
    <2>3. /\ FieldLen(l) = Width[l] /\ Passed(l) = FieldLen(l)
          /\ FieldValue(l) = FixedValue(l, Bytes(Width[l])) /\ l \notin DOMAIN MaxVar
      BY <1>3, ReadLetters, Zenon
    <2> QED
      BY <1>2, <2>1, <2>2, <2>3, Zenon DEF FieldTaken
  <1>4. CASE l \in {"V", "W"}
    <2>1. /\ p = PackVar(v) /\ v \in Nat /\ (l = "V" => v < Byte4)
      <3>1. l = "V" => v \in 0..(Byte4 - 1)
        BY OtherLetters, Zenon
      <3>2. l = "W" => v \in 0..(Byte8 - 1)
        BY OtherLetters, Zenon
      <3>3. p = PackVar(v)
        BY <1>4, OtherLetters
      <3> HIDE DEF p
      <3> QED
        BY <1>4, <3>1, <3>2, <3>3, Widths
    <2>2. /\ VarLen = Len(p) /\ VarLen = 1 + _trip_uvar_len(v)
          /\ buf[at + 1] = _trip_uvar_len(v)
          /\ v < Byte => VarAt = v
      <3>1. HasAt(buf, at, PackVar(v))
        BY <2>1, Zenon
      <3> QED
        BY <2>1, <3>1, VarIsRead, Zenon
    <2>3. l \in DOMAIN MaxVar => buf[at + 1] <= MaxVar[l] /\ VarLen \in 1..Len(p)
      <3>1. _trip_uvar_len(v) <= MaxVar[l] /\ _trip_uvar_len(v) \in Nat
        <4>1. _trip_uvar_len(v) \in 0..8
          BY <2>1, VarIsSeq, Zenon
        <4>2. l = "V" => _trip_uvar_len(v) \in 0..4
          BY <2>1, FewBytes, Zenon
        <4>3. MaxVar["V"] = 4 /\ MaxVar["W"] = 8
          BY ReadLetters, Zenon
        <4> QED
          BY <1>4, <4>1, <4>2, <4>3
      <3> HIDE DEF p
      <3>2. VarLen \in 1..Len(p)
        BY <1>1, <2>2, <3>1
      <3> QED
        BY <2>2, <3>1, <3>2
    <2>4. FieldLen(l) = VarLen /\ Passed(l) = FieldLen(l) /\ FieldValue(l) = VarAt
      BY <1>4, ReadLetters, Zenon
    <2>5. ~IsLong(l, v) => v < Byte
      BY <1>4, <2>1, Widths DEF IsLong
    <2> QED
      BY <2>2, <2>3, <2>4, <2>5, Zenon DEF FieldTaken
  <1>5. CASE l = "b"
    <2> DEFINE n == Len(v)
               s == PackVar(n)
    <2>1. v \in Seq(Nat) /\ n \in Nat /\ n < Byte4 /\ p = s \o v
      <3>1. v \in Seq(0..(Byte - 1)) /\ Len(v) < Byte4 - 1 - MaxVar["b"]
        BY <1>5, OtherLetters
      <3>2. p = s \o v
        BY <1>5, OtherLetters
      <3>3. MaxVar["b"] = 4
        BY ReadLetters, Zenon
      <3>4. v \in Seq(Nat) /\ Len(v) \in Nat
        BY <3>1, Widths
      <3>5. Len(v) < Byte4
        BY <3>1, <3>3, <3>4, Widths
      <3> QED
        BY <3>2, <3>4, <3>5, Zenon
    <2>2. /\ s \in Seq(Nat) /\ _trip_uvar_len(n) \in 0..4 /\ Len(s) = 1 + _trip_uvar_len(n)
      BY <2>1, VarIsSeq, FewBytes, Zenon
    <2> HIDE DEF n, s
    <2>3. HasAt(buf, at, s) /\ HasAt(buf, at + Len(s), v)
      BY <2>1, <2>2, HasBoth, Zenon
    <2>4. /\ VarLen = Len(s) /\ buf[at + 1] = _trip_uvar_len(n)
          /\ n < Byte => VarAt = n
      BY <2>1, <2>3, VarIsRead, Zenon DEF s
    <2>5. Len(s) \in Nat \ {0} /\ Len(p) = Len(s) + n
      <3>1. Len(p) = Len(s) + Len(v)
        BY <2>1, <2>2, Halves, Zenon
      <3>2. Len(s) \in Nat \ {0}
        BY <2>2
      <3> QED
        BY <3>1, <3>2, Zenon DEF n
    <2>6. buf[at + 1] <= MaxVar["b"] /\ VarLen \in 1..Len(p)
      <3>1. MaxVar["b"] = 4
        BY ReadLetters, Zenon
      <3>2. _trip_uvar_len(n) <= 4
        BY <2>2
      <3>3. Len(s) \in 1..Len(p)
        <4> HIDE DEF p
        <4> QED
          BY <2>1, <2>5
      <3> QED
        BY <2>4, <3>1, <3>2, <3>3, Zenon
    <2>7. ASSUME ~IsLong("b", v)
          PROVE  FieldLen("b") = Len(p) /\ FieldValue("b") = v
      <3>1. n < Byte
        BY <2>1, <2>7, Widths DEF IsLong, n
      <3>2. FieldLen("b") = Len(s) + n
        BY <2>4, <3>1, ReadLetters, Zenon
      <3>3. SubSeq(buf, (at + Len(s)) + 1, (at + Len(s)) + Len(v)) = v
        <4>1. at + Len(s) \in Nat
          BY <2>5
        <4> QED
          BY <2>1, <2>3, <4>1, Segment, Zenon
      <3>4. (at + Len(s)) + Len(v) = at + (Len(s) + n)
        BY <2>1, <2>5 DEF n
      <3>5. FieldValue("b") = SubSeq(buf, at + VarLen + 1, at + FieldLen("b"))
        BY ReadLetters, Zenon
      <3> QED
        BY <2>4, <2>5, <3>2, <3>3, <3>4, <3>5, Zenon
    <2>8. ASSUME v = <<>> PROVE Passed("b") = Len(p)
      <3>1. n = 0
        BY <2>8 DEF n
      <3>2. Passed("b") = Len(s)
        BY <2>4, ReadLetters, Zenon
      <3> HIDE DEF p
      <3> QED
        BY <2>5, <3>1, <3>2
    <2> QED
      BY <1>5, <2>6, <2>7, <2>8, Zenon DEF FieldTaken
  <1>6. CASE l \in Blocks
    <2>1. p = v /\ Len(v) = Block
      <3>1. v \in [1..Block -> 0..(Byte - 1)]
        BY <1>6, OtherLetters DEF Blocks
      <3>2. Len(v) = Block
        BY <3>1, SizesAreNat
      <3> QED
        BY <1>6, <3>2, OtherLetters DEF Blocks
    <2>2. FieldLen(l) = Block /\ Passed(l) = FieldLen(l) /\ FieldValue(l) = Bytes(Block)
          /\ l \notin DOMAIN MaxVar
      BY <1>6, ReadLetters, Zenon
    <2> QED
      BY <1>2, <2>1, <2>2, Zenon DEF FieldTaken
  <1>7. CASE l = "o"
    <2>1. v = "none"
      BY <1>7 DEF FieldRange, Fixed, Width, Blocks
    <2>2. p = Zeros /\ Len(Zeros) = Block
      <3>1. Zeros \in [1..Block -> Nat]
        BY DEF Zeros
      <3>2. Len(Zeros) = Block
        BY <3>1, SizesAreNat
      <3> QED
        BY <1>7, <3>2, OtherLetters
    <2> QED
      BY <1>7, <2>1, <2>2, ReadLetters, Zenon DEF FieldTaken
  <1>8. CASE l = "O"
    <2>1. v = "none"
      BY <1>8 DEF FieldRange, Fixed, Width, Blocks
    <2>2. p = <<>> /\ Len(<<>>) = 0
      BY <1>8, OtherLetters
    <2> QED
      BY <1>8, <2>1, <2>2, ReadLetters, Zenon DEF FieldTaken
  <1> QED
    BY <1>3, <1>4, <1>5, <1>6, <1>7, <1>8 DEF CanUnpack

-----------------------------------------------------------------------------
(* The fields, one behind the other.                                       *)

Part(f, a, k) == Packed(f[k], a[k])

IsSeq(s) == \E S : s \in Seq(S)

LEMMA Appended ==
  ASSUME NEW s, IsSeq(s), NEW v
  PROVE  /\ IsSeq(Append(s, v)) /\ Len(s) \in Nat /\ Len(Append(s, v)) = Len(s) + 1
         /\ \A k \in 1..Len(s) : Append(s, v)[k] = s[k]
         /\ Append(s, v)[Len(s) + 1] = v
  <1> PICK S : s \in Seq(S)
    BY DEF IsSeq
  <1> DEFINE T == S \cup {v}
  <1>1. s \in Seq(T) /\ v \in T
    <2>1. Len(s) \in Nat /\ s \in [1..Len(s) -> S]
      OBVIOUS
    <2>2. s \in [1..Len(s) -> T]
      BY <2>1
    <2> QED
      BY <2>1, <2>2
  <1> HIDE DEF T
  <1>2. Append(s, v) \in Seq(T)
    BY <1>1
  <1> QED
    BY <1>1, <1>2 DEF IsSeq

\* The arguments are those of their letters.
Packable(f, a) ==
  /\ IsSeq(a) /\ Len(a) <= Len(f)
  /\ \A k \in 1..Len(a) : f[k] \in CanPack /\ a[k] \in FieldRange(f[k])

\* The k-th field ends at pos[k].
Laid(pos, f, a, b) ==
  /\ pos \in [0..Len(a) -> Nat] /\ pos[0] = 0 /\ pos[Len(a)] = Len(b)
  /\ \A k \in 1..Len(a) : /\ pos[k] = pos[k - 1] + Len(Part(f, a, k))
                          /\ HasAt(b, pos[k - 1], Part(f, a, k))

LEMMA HasStill ==
  ASSUME NEW b \in Seq(Nat), NEW p \in Seq(Nat)
  PROVE  /\ HasAt(b \o p, Len(b), p)
         /\ \A n \in Nat, q \in Seq(Nat) : HasAt(b, n, q) => HasAt(b \o p, n, q)
  <1>1. /\ Len(b \o p) = Len(b) + Len(p) /\ Len(b) \in Nat /\ Len(p) \in Nat
        /\ \A i \in 1..Len(b) : (b \o p)[i] = b[i]
        /\ \A i \in 1..Len(p) : (b \o p)[Len(b) + i] = p[i]
    OBVIOUS
  <1> DEFINE c == b \o p
  <1> HIDE DEF c
  <1>2. HasAt(c, Len(b), p)
    BY <1>1 DEF c, HasAt
  <1>3. ASSUME NEW n \in Nat, NEW q \in Seq(Nat), HasAt(b, n, q) PROVE HasAt(c, n, q)
    <2>1. Len(q) \in Nat /\ n + Len(q) <= Len(b) /\ \A i \in 1..Len(q) : b[n + i] = q[i]
      <3>1. Len(q) \in Nat
        OBVIOUS
      <3> QED
        BY <1>3, <3>1, Zenon DEF HasAt
    <2>2. \A i \in 1..Len(q) : n + i \in 1..Len(b)
      BY <1>1, <2>1
    <2>3. Len(c) = Len(b) + Len(p) /\ \A i \in 1..Len(b) : c[i] = b[i]
      BY <1>1 DEF c
    <2>4. n + Len(q) <= Len(c)
      BY <1>1, <2>1, <2>3
    <2> QED
      BY <2>1, <2>2, <2>3, <2>4 DEF HasAt
  <1> QED
    BY <1>2, <1>3 DEF c

LEMMA NothingIsLaid ==
  ASSUME NEW f \in Seq(STRING)
  PROVE  Packable(f, <<>>) /\ \E pos : Laid(pos, f, <<>>, <<>>)
  <1> DEFINE pos == [k \in 0..0 |-> 0]
  <1>1. Len(<<>>) = 0 /\ <<>> \in Seq(Nat) /\ Len(f) \in Nat
    OBVIOUS
  <1>2. Laid(pos, f, <<>>, <<>>)
    BY <1>1 DEF Laid
  <1>3. Packable(f, <<>>)
    BY <1>1 DEF Packable, IsSeq
  <1> QED
    BY <1>2, <1>3

\* One more field.
LEMMA LaidGrows ==
  ASSUME NEW f \in Seq(STRING), NEW a, Packable(f, a), Len(a) < Len(f),
         NEW b \in Seq(Nat), NEW pos, Laid(pos, f, a, b),
         f[Len(a) + 1] \in CanPack, NEW v \in FieldRange(f[Len(a) + 1])
  PROVE  /\ Packable(f, Append(a, v))
         /\ \E new : Laid(new, f, Append(a, v), b \o Packed(f[Len(a) + 1], v))
  <1> DEFINE n == Len(a)
             w == Append(a, v)
             p == Packed(f[Len(a) + 1], v)
             c == b \o p
             new == [k \in 0..(n + 1) |-> IF k <= n THEN pos[k] ELSE pos[n] + Len(p)]
  <1>1. /\ IsSeq(a) /\ n <= Len(f)
        /\ \A k \in 1..n : f[k] \in CanPack /\ a[k] \in FieldRange(f[k])
    BY DEF Packable
  <1>2. /\ IsSeq(w) /\ n \in Nat /\ Len(w) = n + 1
        /\ \A k \in 1..n : w[k] = a[k]
        /\ w[n + 1] = v
    BY <1>1, Appended, Zenon
  <1>3. p \in Seq(Nat)
    BY PackedIsSeq, Zenon
  <1>4. \A k \in 1..n : Part(f, a, k) \in Seq(Nat)
    BY <1>1, PackedIsSeq, Zenon DEF Part
  <1>5. f[n + 1] \in CanPack /\ v \in FieldRange(f[n + 1]) /\ n < Len(f) /\ Len(f) \in Nat
    OBVIOUS
  <1>6. c \in Seq(Nat) /\ Len(c) = Len(b) + Len(p) /\ Len(p) \in Nat
    <2>1. c \in Seq(Nat) /\ Len(c) = Len(b) + Len(p)
      BY <1>3, Halves, Zenon
    <2>2. Len(p) \in Nat
      <3> HIDE DEF p
      <3> QED
        BY <1>3
    <2> QED
      BY <2>1, <2>2, Zenon
  <1>7. /\ pos \in [0..n -> Nat] /\ pos[0] = 0 /\ pos[n] = Len(b)
        /\ \A k \in 1..n : /\ pos[k] = pos[k - 1] + Len(Part(f, a, k))
                           /\ HasAt(b, pos[k - 1], Part(f, a, k))
    BY DEF Laid
  <1>8. /\ HasAt(c, Len(b), p)
        /\ \A k \in 1..n : HasAt(c, pos[k - 1], Part(f, a, k))
    <2>1. \A k \in 1..n : pos[k - 1] \in Nat
      <3>1. \A k \in 1..n : k - 1 \in 0..n
        BY <1>2
      <3> QED
        BY <1>7, <3>1
    <2> QED
      BY <1>3, <1>4, <1>7, <2>1, HasStill, Zenon
  <1>9. \A k \in 1..n : Part(f, w, k) = Part(f, a, k)
    BY <1>2, Zenon DEF Part
  <1>10. Part(f, w, n + 1) = p
    BY <1>2, Zenon DEF Part
  <1> HIDE DEF n, w, p, c
  <1>11. \A k \in 0..(n + 1) : new[k] = IF k <= n THEN pos[k] ELSE pos[n] + Len(p)
    OBVIOUS
  <1>12. new \in [0..(n + 1) -> Nat]
    <2>1. \A k \in 0..(n + 1) : k <= n => k \in 0..n
      BY <1>2
    <2>2. n \in 0..n
      BY <1>2
    <2> QED
      BY <1>6, <1>7, <2>1, <2>2
  <1> HIDE DEF new
  <1>13. new[0] = 0 /\ new[n + 1] = Len(c)
    <2>1. 0 \in 0..(n + 1) /\ 0 <= n /\ n + 1 \in 0..(n + 1) /\ ~(n + 1 <= n)
      BY <1>2
    <2> QED
      BY <1>6, <1>7, <1>11, <2>1
  <1>14. ASSUME NEW k \in 1..(n + 1)
         PROVE  /\ new[k] = new[k - 1] + Len(Part(f, w, k))
                /\ HasAt(c, new[k - 1], Part(f, w, k))
    <2>1. CASE k <= n
      <3>1. /\ k \in 1..n /\ k \in 0..(n + 1) /\ k - 1 \in 0..(n + 1) /\ k - 1 <= n
        BY <1>2, <2>1
      <3>2. new[k] = pos[k] /\ new[k - 1] = pos[k - 1]
        BY <1>11, <2>1, <3>1
      <3> QED
        BY <1>7, <1>8, <1>9, <3>1, <3>2
    <2>2. CASE k = n + 1
      <3>1. /\ k \in 0..(n + 1) /\ k - 1 = n /\ n \in 0..(n + 1) /\ n <= n /\ ~(k <= n)
        BY <1>2, <2>2
      <3>2. new[k] = pos[n] + Len(p) /\ new[k - 1] = pos[n]
        BY <1>11, <3>1
      <3> QED
        BY <1>7, <1>8, <1>10, <2>2, <3>2
    <2> QED
      BY <1>2, <2>1, <2>2
  <1>15. Laid(new, f, w, c)
    BY <1>2, <1>12, <1>13, <1>14 DEF Laid
  <1>16. Packable(f, w)
    <2>1. n + 1 <= Len(f)
      BY <1>2, <1>5
    <2>2. ASSUME NEW k \in 1..(n + 1) PROVE f[k] \in CanPack /\ w[k] \in FieldRange(f[k])
      <3>1. k \in 1..n \/ k = n + 1
        BY <1>2
      <3> QED
        BY <1>1, <1>2, <1>5, <3>1
    <2> QED
      BY <1>2, <2>1, <2>2 DEF Packable
  <1> QED
    BY <1>15, <1>16 DEF w, c, p

-----------------------------------------------------------------------------
(* What is counted and what is written.                                    *)

\* What trip_pack adds to size for a letter is what it moves buf by.
LEMMA CountedIsPacked ==
  ASSUME NEW l \in CanPack, NEW v \in FieldRange(l)
  PROVE  Counted(l, v) = Len(Packed(l, v))
  <1>1. Len(Zeros) = Block /\ Len(<<>>) = 0
    <2>1. Zeros \in [1..Block -> Nat]
      BY DEF Zeros
    <2> QED
      BY <2>1, SizesAreNat
  <1>2. CASE l \in Fixed
    <2>1. l \notin {"V", "W"} /\ l # "b" /\ l \notin Blocks \cup {"o", "S"}
      BY <1>2, FixedLetters DEF Blocks
    <2>2. Counted(l, v) = Width[l]
      BY <1>2, <2>1, Zenon DEF Counted
    <2> QED
      BY <1>2, <2>2, FixedLen, Zenon
  <1>3. CASE l \in {"V", "W"}
    <2>1. l \notin Fixed /\ l # "b" /\ l \notin Blocks \cup {"o", "S"}
      BY <1>3, FixedLetters DEF Blocks
    <2>2. Counted(l, v) = _trip_uvar_len(v) + 1
      BY <1>3, <2>1, Zenon DEF Counted
    <2>3. v \in Nat /\ Packed(l, v) = PackVar(v)
      <3>1. /\ v \in 0..(Byte4 - 1) \/ v \in 0..(Byte8 - 1)
            /\ Packed(l, v) = PackVar(v)
        BY <1>3, OtherLetters
      <3>2. v \in Nat
        BY <3>1, Widths, SMT
      <3> QED
        BY <3>1, <3>2
    <2>4. Len(PackVar(v)) = 1 + _trip_uvar_len(v) /\ _trip_uvar_len(v) \in 0..8
      BY <2>3, VarIsSeq, Zenon
    <2>5. 1 + _trip_uvar_len(v) = _trip_uvar_len(v) + 1
      BY <2>4
    <2> QED
      BY <2>2, <2>3, <2>4, <2>5, Zenon
  <1>4. CASE l = "b"
    <2>1. l \notin Fixed /\ l \notin {"V", "W"} /\ l \notin Blocks \cup {"o", "S"}
      BY <1>4, FixedLetters DEF Blocks
    <2>2. Counted(l, v) = _trip_uvar_len(Len(v)) + 1 + Len(v)
      BY <1>4, <2>1, Zenon DEF Counted
    <2>3. v \in Seq(Nat) /\ Len(v) \in Nat
      <3>1. v \in Seq(0..(Byte - 1))
        BY <1>4, OtherLetters
      <3> QED
        BY <3>1, Widths
    <2>4. /\ PackVar(Len(v)) \in Seq(Nat) /\ Len(PackVar(Len(v))) = 1 + _trip_uvar_len(Len(v))
          /\ _trip_uvar_len(Len(v)) \in 0..8
      BY <2>3, VarIsSeq, Zenon
    <2>5. Packed(l, v) = PackVar(Len(v)) \o v
      BY <1>4, OtherLetters
    <2>6. Len(PackVar(Len(v)) \o v) = Len(PackVar(Len(v))) + Len(v)
      BY <2>3, <2>4, Halves, Zenon
    <2>7. _trip_uvar_len(Len(v)) + 1 + Len(v) = Len(PackVar(Len(v))) + Len(v)
      BY <2>3, <2>4
    <2> QED
      BY <2>2, <2>5, <2>6, <2>7, Zenon
  <1>5. CASE l \in Blocks \cup {"o", "S"}
    <2>1. l \notin Fixed /\ l \notin {"V", "W"} /\ l # "b"
      BY <1>5, FixedLetters DEF Blocks
    <2>2. Counted(l, v) = Block
      BY <1>5, <2>1, Zenon DEF Counted
    <2>3. l \in Blocks => Len(v) = Block /\ Packed(l, v) = v
      <3> SUFFICES ASSUME l \in Blocks PROVE Len(v) = Block /\ Packed(l, v) = v
        OBVIOUS
      <3>1. v \in [1..Block -> 0..(Byte - 1)] /\ Packed(l, v) = v
        BY OtherLetters DEF Blocks
      <3> QED
        BY <3>1, SizesAreNat
    <2>4. l \in {"o", "S"} => Packed(l, v) = Zeros
      BY OtherLetters
    <2> QED
      BY <1>1, <1>5, <2>2, <2>3, <2>4, Zenon
  <1>6. CASE l \in {"O", "e", "E", "s"}
    <2>1. /\ l \notin Fixed /\ l \notin {"V", "W"} /\ l # "b"
          /\ l \notin Blocks \cup {"o", "S"}
      BY <1>6, FixedLetters DEF Blocks
    <2>2. Counted(l, v) = 0
      BY <2>1, Zenon DEF Counted
    <2>3. Packed(l, v) = <<>>
      BY <1>6, OtherLetters
    <2> QED
      BY <1>1, <2>2, <2>3, Zenon
  <1> QED
    BY <1>2, <1>3, <1>4, <1>5, <1>6 DEF CanPack

LEMMA CountIsNat ==
  ASSUME NEW l \in CanPack, NEW v \in FieldRange(l)
  PROVE  Counted(l, v) \in Nat
  <1>1. Packed(l, v) \in Seq(Nat)
    BY PackedIsSeq, Zenon
  <1>2. \A p \in Seq(Nat) : Len(p) \in Nat
    OBVIOUS
  <1> QED
    BY <1>1, <1>2, CountedIsPacked, Zenon

LEMMA SeqIsFunction ==
  ASSUME NEW s \in Seq(Nat)
  PROVE  s = [k \in 1..Len(s) |-> s[k]]
  OBVIOUS

\* What is written where the buffer ends is appended.
LEMMA WrittenAtEnd ==
  ASSUME NEW b \in Seq(Nat), NEW p \in Seq(Nat)
  PROVE  Written(b, Len(b), p) = b \o p
  <1> PICK m : m = Len(b)
    OBVIOUS
  <1> PICK n : n = Len(p)
    OBVIOUS
  <1> PICK c : c = b \o p
    OBVIOUS
  <1>1. m \in Nat /\ n \in Nat
    OBVIOUS
  <1>2. /\ c \in Seq(Nat) /\ Len(c) = m + n
        /\ \A k \in 1..m : c[k] = b[k]
        /\ \A k \in 1..n : c[m + k] = p[k]
    OBVIOUS
  <1>3. c = [k \in 1..(m + n) |-> c[k]]
    <2>1. c = [k \in 1..Len(c) |-> c[k]]
      BY <1>2, SeqIsFunction, Zenon
    <2> QED
      BY <1>2, <2>1, Zenon
  <1>4. (IF m + n > m THEN m + n ELSE m) = m + n
    BY <1>1
  <1>5. Written(b, m, p) = [k \in 1..(m + n) |-> IF k \in (m + 1)..(m + n) THEN p[k - m] ELSE b[k]]
    BY <1>4, Zenon DEF Written
  <1>6. ASSUME NEW k \in 1..(m + n)
        PROVE  (IF k \in (m + 1)..(m + n) THEN p[k - m] ELSE b[k]) = c[k]
    <2>1. CASE k \in (m + 1)..(m + n)
      <3>1. k - m \in 1..n /\ m + (k - m) = k
        BY <1>1, <2>1
      <3>2. c[m + (k - m)] = p[k - m]
        BY <1>2, <3>1
      <3> QED
        BY <2>1, <3>1, <3>2, Zenon
    <2>2. CASE k \notin (m + 1)..(m + n)
      <3>1. k \in 1..m
        BY <1>1, <2>2
      <3> QED
        BY <1>2, <2>2, <3>1, Zenon
    <2> QED
      BY <2>1, <2>2
  <1>7. [k \in 1..(m + n) |-> IF k \in (m + 1)..(m + n) THEN p[k - m] ELSE b[k]]
        = [k \in 1..(m + n) |-> c[k]]
    BY <1>6, Zenon
  <1> QED
    BY <1>3, <1>5, <1>7, Zenon

\* What is there already can be written again.
LEMMA WrittenAgain ==
  ASSUME NEW b \in Seq(Nat), NEW n \in Nat, NEW p \in Seq(Nat), HasAt(b, n, p)
  PROVE  Written(b, n, p) = b
  <1> DEFINE m == Len(b)
  <1>1. /\ m \in Nat /\ Len(p) \in Nat /\ n + Len(p) <= m
        /\ \A i \in 1..Len(p) : b[n + i] = p[i]
    BY DEF HasAt
  <1>2. b = [k \in 1..m |-> b[k]]
    OBVIOUS
  <1>3. (IF n + Len(p) > m THEN n + Len(p) ELSE m) = m
    BY <1>1
  <1>4. Written(b, n, p) = [k \in 1..m |-> IF k \in (n + 1)..(n + Len(p)) THEN p[k - n] ELSE b[k]]
    BY <1>3 DEF Written
  <1> HIDE DEF m
  <1>5. ASSUME NEW k \in (n + 1)..(n + Len(p)) PROVE p[k - n] = b[k]
    <2>1. k - n \in 1..Len(p) /\ n + (k - n) = k
      BY <1>1
    <2> QED
      BY <1>1, <2>1
  <1>6. \A k \in 1..m : (IF k \in (n + 1)..(n + Len(p)) THEN p[k - n] ELSE b[k]) = b[k]
    BY <1>5
  <1>7. [k \in 1..m |-> IF k \in (n + 1)..(n + Len(p)) THEN p[k - n] ELSE b[k]] = [k \in 1..m |-> b[k]]
    BY <1>6
  <1> QED
    BY <1>2, <1>4, <1>7

\* Behind the n-th letter cryptstart is where an 'o' has left room for its seal.
SealOpen(f, n) ==
  \E j \in 1..n : f[j] = "o" /\ \A i \in (j + 1)..n : f[i] # "e"

\* Every 'O' has an 'o' before it, with no 'e' in between.
SealsPaired(f) == \A k \in 1..Len(f) : f[k] = "O" => SealOpen(f, k - 1)

LEMMA SealWasOpen ==
  ASSUME NEW f, NEW n \in Nat, SealOpen(f, n + 1)
  PROVE  f[n + 1] = "o" \/ (f[n + 1] # "e" /\ SealOpen(f, n))
  <1> PICK j \in 1..(n + 1) : f[j] = "o" /\ \A i \in (j + 1)..(n + 1) : f[i] # "e"
    BY DEF SealOpen
  <1>1. CASE j = n + 1
    BY <1>1
  <1>2. CASE j # n + 1
    <2>1. j \in 1..n /\ n + 1 \in (j + 1)..(n + 1)
      BY <1>2
    <2>2. \A i \in (j + 1)..n : i \in (j + 1)..(n + 1)
      BY <2>1
    <2> QED
      BY <2>1, <2>2 DEF SealOpen
  <1> QED
    BY <1>1, <1>2

\* The seal is there to be made zeros.
SealIsThere ==
  phase = "pack" /\ SealOpen(format, Len(args)) => HasAt(buf, cryptstart, Zeros)

\* The sizes of both buffers; before anything has arrived nothing is read.
IInv ==
  /\ format \in Seq(STRING) /\ SealsPaired(format) /\ IsSeq(args)
  /\ cap \in Nat /\ blen \in Nat /\ at \in Nat /\ cryptstart \in Nat
  /\ buf \in Seq(Nat)
  /\ phase = "pack" => size = Len(buf) /\ put = Len(buf) /\ blen = 0 /\ len = 0
  /\ phase = "unpack" => len \in Nat /\ put = Len(buf)
  /\ SealIsThere
  /\ InBounds

LEMMA InitIsInBounds ==
  ASSUME \A f \in Formats : SealsPaired(f)
  PROVE  Init => IInv
  <1> SUFFICES ASSUME Init PROVE IInv
    OBVIOUS
  <1>1. /\ format \in Formats /\ format \in Seq(STRING) /\ args = <<>> /\ buf = <<>>
        /\ cap \in Nat /\ size = 0 /\ put = 0 /\ cryptstart = 0 /\ blen = 0 /\ len = 0 /\ at = 0
        /\ phase = "pack"
    BY FormatsAreStrings, SizesAreNat DEF Init
  <1>2. IsSeq(args) /\ Len(args) = 0 /\ Len(buf) = 0 /\ buf \in Seq(Nat)
    BY <1>1 DEF IsSeq
  <1>3. SealIsThere
    BY <1>2 DEF SealIsThere, SealOpen
  <1>4. InBounds
    BY <1>1, <1>2 DEF InBounds, NPOS
  <1> QED
    BY <1>1, <1>2, <1>3, <1>4 DEF IInv

\* What a field does to the buffer: where every 'O' has its 'o', it writes nothing
\* but what it counts.
LEMMA FieldIsWritten ==
  ASSUME IInv, PackField
  PROVE  \E v \in Values(PackLetter) :
           /\ v \in FieldRange(PackLetter)
           /\ size + Len(Packed(PackLetter, v)) <= cap
           /\ args' = Append(args, v)
           /\ size' = size + Len(Packed(PackLetter, v))
           /\ put' = put + Len(Packed(PackLetter, v))
           /\ buf' = buf \o Packed(PackLetter, v)
  <1>1. PackLetter \in CanPack /\ Packing
    BY DEF PackField
  <1>2. PICK v \in Values(PackLetter) :
          /\ size + Counted(PackLetter, v) <= cap
          /\ args' = Append(args, v)
          /\ size' = size + Counted(PackLetter, v)
          /\ buf' = IF PackLetter = "O" THEN Written(buf, cryptstart, Zeros)
                                        ELSE Written(buf, put, Packed(PackLetter, v))
          /\ put' = put + Len(Packed(PackLetter, v))
    BY DEF PackField
  <1>3. v \in FieldRange(PackLetter)
    BY <1>1, ValuesAreInRange, Zenon
  <1>4. Counted(PackLetter, v) = Len(Packed(PackLetter, v))
    BY <1>1, <1>3, CountedIsPacked, Zenon
  <1>5. Packed(PackLetter, v) \in Seq(Nat) /\ buf \in Seq(Nat) /\ put = Len(buf)
    <2>1. Packed(PackLetter, v) \in Seq(Nat)
      BY <1>1, <1>3, PackedIsSeq, Zenon
    <2> QED
      BY <1>1, <2>1 DEF IInv, Packing
  <1>6. buf' = buf \o Packed(PackLetter, v)
    <2>1. CASE PackLetter # "O"
      BY <1>2, <1>5, <2>1, WrittenAtEnd, Zenon
    <2>2. CASE PackLetter = "O"
      <3>1. Len(args) \in Nat /\ Len(args) + 1 \in 1..Len(format) /\ (Len(args) + 1) - 1 = Len(args)
        <4>1. Len(args) \in Nat
          BY Appended, Zenon DEF IInv
        <4>2. Len(args) < Len(format) /\ Len(format) \in Nat
          BY <1>1 DEF Packing, IInv
        <4> QED
          BY <4>1, <4>2
      <3>2. SealOpen(format, Len(args))
        BY <2>2, <3>1, Zenon DEF IInv, SealsPaired, PackLetter
      <3>3. HasAt(buf, cryptstart, Zeros)
        BY <1>1, <3>2, Zenon DEF IInv, SealIsThere, Packing
      <3>4. Zeros \in Seq(Nat) /\ cryptstart \in Nat
        BY SizesAreNat DEF Zeros, IInv
      <3>5. Written(buf, cryptstart, Zeros) = buf
        BY <1>5, <3>3, <3>4, WrittenAgain, Zenon
      <3>6. Packed(PackLetter, v) = <<>> /\ buf \o <<>> = buf
        BY <1>5, <2>2, OtherLetters
      <3> QED
        BY <1>2, <2>2, <3>5, <3>6, Zenon
    <2> QED
      BY <2>1, <2>2
  <1> QED
    BY <1>2, <1>3, <1>4, <1>6, Zenon

\* The seal that is open stays where it is, and a new one is at the end.
LEMMA SealStays ==
  ASSUME IInv, PackField
  PROVE  SealIsThere' /\ cryptstart' \in Nat
  <1>1. PICK v \in Values(PackLetter) :
          /\ v \in FieldRange(PackLetter)
          /\ args' = Append(args, v)
          /\ buf' = buf \o Packed(PackLetter, v)
    BY FieldIsWritten, Zenon
  <1>2. /\ PackLetter \in CanPack /\ phase = "pack" /\ put = Len(buf) /\ format' = format
        /\ cryptstart' = IF PackLetter \in {"o", "e"} THEN put ELSE cryptstart
        /\ buf \in Seq(Nat) /\ cryptstart \in Nat
    BY DEF PackField, Packing, IInv
  <1>3. Len(args) \in Nat /\ Len(args') = Len(args) + 1 /\ PackLetter = format[Len(args) + 1]
    BY <1>1, Appended, Zenon DEF IInv, PackLetter
  <1>4. Packed(PackLetter, v) \in Seq(Nat)
    BY <1>1, <1>2, PackedIsSeq, Zenon
  <1>5. Zeros \in Seq(Nat) /\ Len(buf) \in Nat
    BY <1>2, SizesAreNat DEF Zeros
  <1>6. ASSUME SealOpen(format, Len(args) + 1)
        PROVE  HasAt(buf', cryptstart', Zeros)
    <2>1. PackLetter = "o" \/ (PackLetter # "e" /\ SealOpen(format, Len(args)))
      BY <1>3, <1>6, SealWasOpen, Zenon
    <2>2. CASE PackLetter = "o"
      <3>1. Packed(PackLetter, v) = Zeros
        BY <2>2, OtherLetters
      <3>2. HasAt(buf \o Zeros, Len(buf), Zeros)
        BY <1>2, <1>5, HasStill, Zenon
      <3>3. cryptstart' = Len(buf)
        BY <1>2, <2>2
      <3> QED
        BY <1>1, <3>1, <3>2, <3>3, Zenon
    <2>3. CASE PackLetter \notin {"o", "e"} /\ SealOpen(format, Len(args))
      <3>1. HasAt(buf, cryptstart, Zeros)
        BY <1>2, <2>3, Zenon DEF IInv, SealIsThere
      <3>2. HasAt(buf \o Packed(PackLetter, v), cryptstart, Zeros)
        BY <1>2, <1>4, <1>5, <3>1, HasStill, Zenon
      <3>3. cryptstart' = cryptstart
        BY <1>2, <2>3
      <3> QED
        BY <1>1, <3>2, <3>3, Zenon
    <2> QED
      BY <2>1, <2>2, <2>3
  <1>7. SealIsThere'
    BY <1>2, <1>3, <1>6, Zenon DEF SealIsThere
  <1>8. cryptstart' \in Nat
    BY <1>2, <1>5
  <1> QED
    BY <1>7, <1>8

\* trip_unpack moves its buf by no more than it counts.
LEMMA PassedIsCounted ==
  ASSUME IInv, phase = "unpack", NEW l, Fits(l)
  PROVE  Passed(l) \in Nat /\ FieldLen(l) \in Nat /\ Passed(l) <= FieldLen(l)
  <1>1. /\ buf \in Seq(Nat) /\ at \in Nat /\ len \in Nat /\ at <= len /\ blen <= Len(buf)
        /\ blen \in Nat /\ Len(buf) \in Nat
    <2>1. len \in Nat
      BY DEF IInv
    <2>2. at <= len /\ blen <= put /\ len <= blen
      BY <2>1 DEF IInv, InBounds, NPOS
    <2>3. put = Len(buf)
      BY DEF IInv
    <2> QED
      BY <2>1, <2>2, <2>3 DEF IInv
  <1>2. l \in CanUnpack /\ (l \in DOMAIN MaxVar => VarFits(l))
    BY DEF Fits
  <1>3. ASSUME l \in {"V", "W", "b"} PROVE VarLen \in Nat /\ VarAt \in Nat
    <2>1. len + 1 <= blen /\ len + VarLen <= blen
      BY <1>2, <1>3, ReadLetters, Zenon DEF VarFits
    <2>2. at + 1 \in 1..Len(buf)
      BY <1>1, <2>1
    <2>3. buf[at + 1] \in Nat
      BY <1>1, <2>2
    <2>4. VarLen \in Nat /\ VarLen >= 1
      BY <2>3 DEF VarLen
    <2>5. at + 1 \in 1..(Len(buf) + 1) /\ at + VarLen \in Nat /\ at + VarLen <= Len(buf)
          /\ at + 1 <= at + VarLen
      BY <1>1, <2>1, <2>4
    <2>6. Bytes(VarLen) \in Seq(Nat) /\ Bytes(VarLen) # <<>>
      BY <1>1, <2>4, <2>5 DEF Bytes
    <2>7. Tail(Bytes(VarLen)) \in Seq(Nat)
      BY <2>6
    <2> QED
      BY <2>4, <2>7, VarValueIsNat, Zenon DEF VarAt
  <1>4. CASE l = "b"
    <2>1. FieldLen(l) = VarLen + VarAt /\ Passed(l) = VarLen
      BY <1>4, ReadLetters
    <2> QED
      BY <1>3, <1>4, <2>1
  <1>5. CASE l \in {"V", "W"}
    <2>1. FieldLen(l) = VarLen /\ Passed(l) = FieldLen(l)
      BY <1>5, ReadLetters
    <2> QED
      BY <1>3, <1>5, <2>1
  <1>6. CASE l \in Fixed
    <2>1. FieldLen(l) = Width[l] /\ Passed(l) = FieldLen(l)
      BY <1>6, ReadLetters
    <2>2. Width[l] \in Nat
      BY <1>6, FixedLetters DEF Width
    <2> QED
      BY <2>1, <2>2
  <1>7. CASE l \in Blocks \cup {"o", "O"}
    <2>1. FieldLen(l) \in {Block, 0} /\ Passed(l) = FieldLen(l)
      BY <1>7, ReadLetters
    <2> QED
      BY <2>1, SizesAreNat
  <1> QED
    BY <1>2, <1>4, <1>5, <1>6, <1>7 DEF CanUnpack

LEMMA NextIsInBounds == IInv /\ [Next]_vars => IInv'
  <1> SUFFICES ASSUME IInv, [Next]_vars
               PROVE  IInv'
    OBVIOUS
  <1>1. CASE PackField
    <2> PICK v \in Values(PackLetter) :
          /\ v \in FieldRange(PackLetter)
          /\ size + Len(Packed(PackLetter, v)) <= cap
          /\ args' = Append(args, v)
          /\ size' = size + Len(Packed(PackLetter, v))
          /\ put' = put + Len(Packed(PackLetter, v))
          /\ buf' = buf \o Packed(PackLetter, v)
      BY <1>1, FieldIsWritten, Zenon
    <2>1. /\ phase = "pack" /\ PackLetter \in CanPack
          /\ UNCHANGED <<phase, format, cap, blen, len, at>>
      BY <1>1 DEF PackField, Packing
    <2> DEFINE t == Packed(PackLetter, v)
    <2>2. t \in Seq(Nat)
      BY <2>1, PackedIsSeq, Zenon
    <2>3. /\ size + Len(t) <= cap /\ size' = size + Len(t)
          /\ put' = put + Len(t) /\ buf' = buf \o t
      OBVIOUS
    <2> HIDE DEF t
    <2>4. /\ buf \in Seq(Nat) /\ size = Len(buf) /\ put = Len(buf) /\ blen = 0 /\ len = 0
          /\ at \in Nat /\ cap \in Nat /\ blen \in Nat
          /\ format \in Seq(STRING) /\ SealsPaired(format)
      BY <2>1 DEF IInv
    <2>5. buf \o t \in Seq(Nat) /\ Len(buf \o t) = Len(buf) + Len(t)
      BY <2>2, <2>4, Halves, Zenon
    <2>6. Len(t) \in Nat /\ Len(buf) \in Nat
      BY <2>2, <2>4
    <2>7. size' = Len(buf') /\ put' = Len(buf') /\ Len(buf') <= cap /\ Len(buf') \in Nat
      BY <2>3, <2>4, <2>5, <2>6
    <2>8. at <= len
      BY <2>4 DEF IInv, InBounds, NPOS
    <2>9. InBounds'
      BY <2>1, <2>4, <2>7, <2>8 DEF InBounds
    <2>10. IsSeq(args')
      BY Appended, Zenon DEF IInv
    <2>11. SealIsThere' /\ cryptstart' \in Nat
      BY <1>1, SealStays
    <2>12. buf' \in Seq(Nat)
      BY <2>3, <2>5
    <2> QED
      BY <2>1, <2>4, <2>7, <2>9, <2>10, <2>11, <2>12 DEF IInv
  <1>2. CASE PackFails
    <2>1. /\ phase = "pack" /\ phase' = "done" /\ size' = NPOS
          /\ UNCHANGED <<format, args, cap, buf, put, cryptstart, blen, len, at>>
      BY <1>2 DEF PackFails, Packing
    <2>2. InBounds'
      BY <2>1 DEF IInv, InBounds
    <2>3. SealIsThere'
      BY <2>1 DEF SealIsThere
    <2> QED
      BY <2>1, <2>2, <2>3 DEF IInv
  <1>3. CASE Arrive
    <2>1. /\ phase = "pack" /\ phase' = "unpack" /\ blen' \in 0..size
          /\ UNCHANGED <<format, args, cap, size, buf, put, cryptstart, len, at>>
      BY <1>3 DEF Arrive
    <2>2. size = Len(buf) /\ put = Len(buf) /\ Len(buf) \in Nat /\ len = 0
      BY <2>1 DEF IInv
    <2>3. blen' \in Nat /\ blen' <= put
      BY <2>1, <2>2
    <2>4. InBounds'
      BY <2>1, <2>2, <2>3 DEF IInv, InBounds
    <2>5. SealIsThere'
      BY <2>1 DEF SealIsThere
    <2> QED
      BY <2>1, <2>2, <2>3, <2>4, <2>5 DEF IInv
  <1>4. CASE UnpackField
    <2>1. /\ phase = "unpack" /\ Fits(UnpackLetter)
          /\ len' = len + FieldLen(UnpackLetter) /\ at' = at + Passed(UnpackLetter)
          /\ UNCHANGED <<phase, format, args, cap, size, buf, put, cryptstart, blen>>
      BY <1>4 DEF UnpackField, Unpacking
    <2> DEFINE m == FieldLen(UnpackLetter)
               n == Passed(UnpackLetter)
    <2>2. n \in Nat /\ m \in Nat /\ n <= m
      BY <2>1, PassedIsCounted, Zenon
    <2>3. len + m <= blen /\ len' = len + m /\ at' = at + n
      BY <2>1 DEF Fits
    <2> HIDE DEF m, n
    <2>4. len \in Nat /\ at \in Nat /\ at <= len
      <3>1. len \in Nat /\ at \in Nat
        BY <2>1 DEF IInv
      <3> QED
        BY <3>1 DEF IInv, InBounds, NPOS
    <2>5. len' \in Nat /\ at' \in Nat /\ at' <= len' /\ len' <= blen
      BY <2>2, <2>3, <2>4
    <2>6. InBounds'
      BY <2>1, <2>5 DEF IInv, InBounds
    <2>7. SealIsThere'
      BY <2>1 DEF SealIsThere
    <2> QED
      BY <2>1, <2>5, <2>6, <2>7 DEF IInv
  <1>5. CASE UnpackFails
    <2>1. /\ phase = "unpack" /\ phase' = "done" /\ len' = NPOS
          /\ UNCHANGED <<format, args, cap, size, buf, put, cryptstart, blen, at>>
      BY <1>5 DEF UnpackFails, Unpacking
    <2>2. NPOS <= blen
      BY DEF IInv, NPOS
    <2>3. InBounds'
      BY <2>1, <2>2 DEF IInv, InBounds
    <2>4. SealIsThere'
      BY <2>1 DEF SealIsThere
    <2> QED
      BY <2>1, <2>3, <2>4 DEF IInv
  <1>6. CASE Unpacked
    <2>1. /\ phase' = "done"
          /\ UNCHANGED <<format, args, cap, size, buf, put, cryptstart, blen, len, at>>
      BY <1>6 DEF Unpacked
    <2>2. InBounds'
      BY <2>1 DEF IInv, InBounds
    <2>3. SealIsThere'
      BY <2>1 DEF SealIsThere
    <2> QED
      BY <2>1, <2>2, <2>3 DEF IInv
  <1>7. CASE UNCHANGED vars
    BY <1>7 DEF vars, IInv, InBounds, SealIsThere
  <1> QED
    BY <1>1, <1>2, <1>3, <1>4, <1>5, <1>6, <1>7 DEF Next

\* Neither trip_pack nor trip_unpack goes beyond its buffer, trip_pack returns the
\* number of bytes it has written, and trip_unpack reads no byte it has not counted
\* (pack.c:332-352, 642-713), for every format in which each 'O' has its 'o': an
\* 'O' alone makes zeros of what is not counted and need not be in the buffer.
THEOREM PackIsInBounds ==
  ASSUME \A f \in Formats : SealsPaired(f)
  PROVE  Spec => []InBounds
  <1>1. Init => IInv
    BY InitIsInBounds
  <1>2. IInv => InBounds
    BY DEF IInv
  <1> QED
    BY <1>1, <1>2, NextIsInBounds, PTL DEF Spec

-----------------------------------------------------------------------------
(* What is read.                                                           *)

\* No data before the end of the n-th field, after which buf is not where len is.
NoData(n) == \A j \in 1..n : ~LeavesData(j)

\* The n-th field is not data whose length takes more than one byte.
IsShort(n) == ~(format[n] = "b" /\ IsLong("b", args[n]))

\* While there is no data, trip_unpack is at the end of a field, and its len is
\* there as well after the first data.
ReadTo(pos) ==
  phase = "unpack" =>
    /\ Len(args) = Len(format) /\ size = Len(buf)
    /\ NoData(Len(out)) => at = pos[Len(out)] /\ len = at
    /\ Len(out) > 0 /\ NoData(Len(out) - 1) /\ IsShort(Len(out)) => len = pos[Len(out)]

\* The fields of the format that are packed and unpacked.
Reading ==
  /\ format \in Seq(STRING) /\ Packable(format, args)
  /\ IsSeq(out) /\ Len(out) <= Len(format)
  /\ phase = "pack" => out = <<>> /\ at = 0
  /\ \E pos : Laid(pos, format, args, buf) /\ ReadTo(pos)

RInv ==
  /\ IInv
  /\ Reading
  /\ FieldsSurvive
  /\ CutIsRefused

LEMMA NothingIsRead == IsSeq(<<>>) /\ Len(<<>>) = 0
  BY DEF IsSeq

LEMMA InitIsRead ==
  ASSUME \A f \in Formats : SealsPaired(f)
  PROVE  Init => RInv
  <1> SUFFICES ASSUME Init PROVE RInv
    OBVIOUS
  <1>1. format \in Seq(STRING) /\ args = <<>> /\ buf = <<>> /\ out = <<>> /\ at = 0 /\ phase = "pack"
    BY FormatsAreStrings DEF Init
  <1>2. Len(format) \in Nat
    BY <1>1
  <1>3. Packable(format, args) /\ \E pos : Laid(pos, format, args, buf)
    BY <1>1, NothingIsLaid, Zenon
  <1>4. \E pos : Laid(pos, format, args, buf) /\ ReadTo(pos)
    BY <1>1, <1>3, Zenon DEF ReadTo
  <1>5. IsSeq(out) /\ Len(out) <= Len(format)
    BY <1>1, <1>2, NothingIsRead
  <1>6. Reading
    BY <1>1, <1>3, <1>4, <1>5 DEF Reading
  <1>7. FieldsSurvive /\ CutIsRefused
    BY <1>1 DEF FieldsSurvive, CutIsRefused
  <1> QED
    BY <1>6, <1>7, InitIsInBounds DEF RInv

LEMMA PackFieldIsRead == RInv /\ PackField => Reading' /\ FieldsSurvive' /\ CutIsRefused'
  <1> SUFFICES ASSUME RInv, PackField
               PROVE  Reading' /\ FieldsSurvive' /\ CutIsRefused'
    OBVIOUS
  <1>1. /\ phase = "pack" /\ phase' = phase /\ format' = format /\ out' = out /\ at' = at
        /\ Len(args) < Len(format) /\ format[Len(args) + 1] \in CanPack
    BY DEF PackField, Packing, PackLetter
  <1>2. PICK v \in Values(PackLetter) :
          args' = Append(args, v) /\ buf' = buf \o Packed(PackLetter, v)
    BY FieldIsWritten, Zenon DEF RInv
  <1>3. v \in FieldRange(format[Len(args) + 1])
    <2>1. PackLetter \in CanPack
      BY <1>1 DEF PackLetter
    <2> QED
      BY <2>1, ValuesAreInRange, Zenon DEF PackLetter
  <1>4. /\ format \in Seq(STRING) /\ Packable(format, args)
        /\ IsSeq(out) /\ Len(out) <= Len(format) /\ out = <<>> /\ at = 0 /\ buf \in Seq(Nat)
    BY <1>1 DEF RInv, Reading, IInv
  <1>5. PICK pos : Laid(pos, format, args, buf)
    BY DEF RInv, Reading
  <1>6. /\ Packable(format, Append(args, v))
        /\ \E new : Laid(new, format, Append(args, v), buf \o Packed(format[Len(args) + 1], v))
    BY <1>1, <1>3, <1>4, <1>5, LaidGrows, Zenon
  <1>7. \E new : Laid(new, format', args', buf')
    BY <1>1, <1>2, <1>6, Zenon DEF PackLetter
  <1>8. ASSUME NEW new PROVE ReadTo(new)'
    BY <1>1 DEF ReadTo
  <1>9. Packable(format', args')
    BY <1>1, <1>2, <1>6, Zenon
  <1>10. \E new : Laid(new, format', args', buf') /\ ReadTo(new)'
    BY <1>7, <1>8, Zenon
  <1>11. Reading'
    BY <1>1, <1>4, <1>9, <1>10 DEF Reading
  <1>12. FieldsSurvive' /\ CutIsRefused'
    BY <1>1 DEF FieldsSurvive, CutIsRefused
  <1> QED
    BY <1>11, <1>12

LEMMA PackFailIsRead == RInv /\ PackFails => Reading' /\ FieldsSurvive' /\ CutIsRefused'
  <1> SUFFICES ASSUME RInv, PackFails
               PROVE  Reading' /\ FieldsSurvive' /\ CutIsRefused'
    OBVIOUS
  <1>1. /\ phase = "pack" /\ phase' = "done" /\ size' = NPOS
        /\ UNCHANGED <<format, args, buf, at, out>>
    BY DEF PackFails, Packing
  <1>2. out = <<>>
    BY <1>1 DEF RInv, Reading
  <1>3. PICK pos : Laid(pos, format, args, buf)
    BY DEF RInv, Reading
  <1>4. ReadTo(pos)'
    BY <1>1 DEF ReadTo
  <1>5. Laid(pos, format', args', buf')
    BY <1>1, <1>3
  <1>6. Reading'
    BY <1>1, <1>4, <1>5 DEF RInv, Reading
  <1>7. FieldsSurvive'
    <2>1. out' = <<>> /\ \A k \in 1..Len(<<>>) : FALSE
      BY <1>1, <1>2
    <2> QED
      BY <2>1, Zenon DEF FieldsSurvive
  <1>8. CutIsRefused'
    BY <1>1 DEF CutIsRefused
  <1> QED
    BY <1>6, <1>7, <1>8

LEMMA ArrivalIsRead == RInv /\ Arrive => Reading' /\ FieldsSurvive' /\ CutIsRefused'
  <1> SUFFICES ASSUME RInv, Arrive
               PROVE  Reading' /\ FieldsSurvive' /\ CutIsRefused'
    OBVIOUS
  <1>1. /\ phase = "pack" /\ phase' = "unpack" /\ Len(args) = Len(format)
        /\ UNCHANGED <<format, args, size, buf, len, at, out>>
    BY DEF Arrive
  <1>2. out = <<>> /\ at = 0 /\ len = 0 /\ size = Len(buf)
    BY <1>1 DEF RInv, Reading, IInv
  <1>3. PICK pos : Laid(pos, format, args, buf)
    BY DEF RInv, Reading
  <1>4. pos[0] = 0 /\ Len(<<>>) = 0
    BY <1>3 DEF Laid
  <1>5. ReadTo(pos)'
    <2>1. Len(out') = 0
      BY <1>1, <1>2, <1>4
    <2>2. ~(Len(out') > 0)
      BY <2>1
    <2>3. at' = pos[Len(out')] /\ len' = at'
      BY <1>1, <1>2, <1>4, <2>1
    <2> QED
      BY <1>1, <1>2, <2>2, <2>3, Zenon DEF ReadTo
  <1>6. Laid(pos, format', args', buf')
    BY <1>1, <1>3
  <1>7. Reading'
    BY <1>1, <1>5, <1>6 DEF RInv, Reading
  <1>8. FieldsSurvive'
    <2>1. out' = <<>> /\ \A k \in 1..Len(<<>>) : FALSE
      BY <1>1, <1>2
    <2> QED
      BY <2>1, Zenon DEF FieldsSurvive
  <1>9. CutIsRefused'
    BY <1>1 DEF CutIsRefused
  <1> QED
    BY <1>7, <1>8, <1>9

\* The field at which trip_unpack is.
LEMMA AtField ==
  ASSUME RInv, Unpacking, NEW pos, Laid(pos, format, args, buf), ReadTo(pos), NoData(Len(out))
  PROVE  LET n == Len(out)
             p == Part(format, args, n + 1)
         IN  /\ n \in Nat /\ n + 1 \in 1..Len(format) /\ Len(p) \in Nat
             /\ at = pos[n] /\ len = pos[n] /\ pos[n] \in Nat
             /\ pos[n + 1] = pos[n] + Len(p) /\ pos[n + 1] <= Len(buf)
             /\ UnpackLetter = format[n + 1] /\ size = Len(buf)
             /\ UnpackLetter \in CanUnpack => FieldTaken(UnpackLetter, args[n + 1])
  <1> DEFINE n == Len(out)
             p == Part(format, args, n + 1)
  <1>1. /\ phase = "unpack" /\ n < Len(format) /\ UnpackLetter = format[n + 1]
    BY DEF Unpacking, UnpackLetter
  <1>2. n \in Nat /\ n + 1 \in 1..Len(format) /\ Len(args) = Len(format) /\ size = Len(buf)
    <2>1. n \in Nat
      BY Appended, Zenon DEF RInv, Reading
    <2>2. Len(format) \in Nat
      BY DEF RInv, Reading
    <2>3. Len(args) = Len(format) /\ size = Len(buf)
      BY <1>1, Zenon DEF ReadTo
    <2> HIDE DEF n
    <2> QED
      BY <1>1, <2>1, <2>2, <2>3
  <1>3. at = pos[n] /\ len = pos[n]
    BY <1>1, Zenon DEF ReadTo
  <1>4. format[n + 1] \in CanPack /\ args[n + 1] \in FieldRange(format[n + 1])
    BY <1>2, Zenon DEF RInv, Reading, Packable
  <1>5. p \in Seq(Nat)
    BY <1>4, PackedIsSeq, Zenon DEF Part
  <1>6. pos[n] \in Nat
    <2>1. pos \in [0..Len(args) -> Nat]
      BY DEF Laid
    <2> HIDE DEF n
    <2>2. n \in 0..Len(args)
      BY <1>2
    <2> QED
      BY <2>1, <2>2
  <1>7. pos[n + 1] = pos[n] + Len(p) /\ HasAt(buf, pos[n], p)
    <2>1. \A k \in 1..Len(args) : /\ pos[k] = pos[k - 1] + Len(Part(format, args, k))
                                  /\ HasAt(buf, pos[k - 1], Part(format, args, k))
      BY DEF Laid
    <2>2. (n + 1) - 1 = n /\ n + 1 \in 1..Len(args)
      <3> HIDE DEF n
      <3> QED
        BY <1>2
    <2> QED
      BY <2>1, <2>2, Zenon
  <1>8. pos[n + 1] <= Len(buf)
    BY <1>7, Zenon DEF HasAt
  <1>9. UnpackLetter \in CanUnpack => FieldTaken(UnpackLetter, args[n + 1])
    <2>1. buf \in Seq(Nat)
      BY DEF RInv, IInv
    <2> QED
      BY <1>1, <1>3, <1>4, <1>6, <1>7, <2>1, FieldIsRead, Zenon DEF Part
  <1>10. Len(p) \in Nat
    <2> HIDE DEF p
    <2> QED
      BY <1>5
  <1> QED
    BY <1>1, <1>2, <1>3, <1>6, <1>7, <1>8, <1>9, <1>10, Zenon

LEMMA FieldIsTaken == RInv /\ UnpackField => Reading' /\ FieldsSurvive' /\ CutIsRefused'
  <1> SUFFICES ASSUME RInv, UnpackField
               PROVE  Reading' /\ FieldsSurvive' /\ CutIsRefused'
    OBVIOUS
  <1> PICK n : n = Len(out)
    OBVIOUS
  <1> PICK l : l = UnpackLetter
    OBVIOUS
  <1> PICK v : v = args[n + 1]
    OBVIOUS
  <1> PICK x : x = FieldValue(UnpackLetter)
    OBVIOUS
  <1> PICK p : p = Part(format, args, n + 1)
    OBVIOUS
  <1>1. /\ phase = "unpack" /\ Unpacking /\ n < Len(format) /\ l = format[n + 1]
        /\ l \in CanUnpack
        /\ out' = Append(out, x) /\ len' = len + FieldLen(l) /\ at' = at + Passed(l)
        /\ UNCHANGED <<phase, format, args, size, buf>>
    BY DEF UnpackField, Unpacking, Fits, UnpackLetter
  <1>2. PICK pos : Laid(pos, format, args, buf) /\ ReadTo(pos)
    BY DEF RInv, Reading
  <1>3. /\ IsSeq(out') /\ n \in Nat /\ Len(out') = n + 1
        /\ \A k \in 1..n : out'[k] = out[k]
        /\ out'[n + 1] = x
    <2>1. IsSeq(out)
      BY DEF RInv, Reading
    <2>2. /\ IsSeq(Append(out, x)) /\ Len(out) \in Nat /\ Len(Append(out, x)) = Len(out) + 1
          /\ \A k \in 1..Len(out) : Append(out, x)[k] = out[k]
          /\ Append(out, x)[Len(out) + 1] = x
      BY <2>1, Appended, Zenon
    <2> QED
      BY <1>1, <2>2, Zenon
  <1>4. Len(args) = Len(format) /\ size = Len(buf) /\ Len(format) \in Nat
    <2>1. Len(format) \in Nat
      BY DEF RInv, Reading
    <2> QED
      BY <1>1, <1>2, <2>1, Zenon DEF ReadTo
  <1>5. ASSUME NoData(n)
        PROVE  /\ at = pos[n] /\ len = pos[n] /\ pos[n] \in Nat
               /\ pos[n + 1] = pos[n] + Len(p)
               /\ FieldTaken(l, v) /\ p = Packed(l, v)
    <2>1. p = Packed(l, v)
      BY <1>1, Zenon DEF Part
    <2> QED
      BY <1>1, <1>2, <1>5, <2>1, AtField, Zenon
  <1>6. ASSUME NEW m \in 0..n, NoData(n) PROVE NoData(m)
    <2>1. \A j \in 1..m : j \in 1..n
      BY <1>3
    <2> QED
      BY <1>6, <2>1, Zenon DEF NoData
  <1>7. NoData(n + 1) => NoData(n) /\ ~LeavesData(n + 1)
    <2>1. n + 1 \in 1..(n + 1) /\ \A j \in 1..n : j \in 1..(n + 1)
      BY <1>3
    <2> QED
      BY <2>1, Zenon DEF NoData
  <1>8. \A m : NoData(m)' <=> NoData(m)
    BY <1>1 DEF NoData, LeavesData
  <1>9. \A m : IsShort(m)' <=> IsShort(m)
    BY <1>1 DEF IsShort, IsLong
  <1>10. ~LeavesData(n + 1) => ~(l = "b" /\ v # <<>>) /\ ~(l = "b" /\ IsLong(l, v))
    <2>1. IsLong("b", <<>>) => Len(<<>>) >= Byte
      BY DEF IsLong
    <2>2. ~(Len(<<>>) >= Byte)
      BY Widths
    <2> QED
      BY <1>1, <2>1, <2>2, Zenon DEF LeavesData
  <1>11. ReadTo(pos)'
    <2>1. ASSUME NoData(n + 1) PROVE at' = pos[n + 1] /\ len' = at'
      <3>1. FieldLen(l) = Len(p) /\ Passed(l) = Len(p)
        BY <1>5, <1>7, <1>10, <2>1, Zenon DEF FieldTaken
      <3> QED
        BY <1>1, <1>5, <1>7, <2>1, <3>1, Zenon
    <2>2. ASSUME NoData(n), IsShort(n + 1) PROVE len' = pos[n + 1]
      <3>1. FieldLen(l) = Len(p)
        BY <1>1, <1>5, <2>2, Zenon DEF FieldTaken, IsShort
      <3> QED
        BY <1>1, <1>5, <2>2, <3>1, Zenon
    <2>3. (n + 1) - 1 = n
      BY <1>3
    <2>4. Len(args)' = Len(format)' /\ size' = Len(buf)'
      BY <1>1, <1>4
    <2> QED
      BY <1>3, <1>8, <1>9, <2>1, <2>2, <2>3, <2>4, Zenon DEF ReadTo
  <1>12. Reading'
    <2>1. Len(out') <= Len(format)
      BY <1>1, <1>3, <1>4
    <2>2. Laid(pos, format', args', buf') /\ Packable(format', args') /\ format' \in Seq(STRING)
      BY <1>1, <1>2, Zenon DEF RInv, Reading
    <2>3. phase' # "pack" /\ format' = format
      BY <1>1
    <2> QED
      BY <1>3, <1>11, <2>1, <2>2, <2>3, Zenon DEF Reading
  <1>13. FieldsSurvive'
    <2> SUFFICES ASSUME NEW k \in 1..(n + 1), ~IsLong(format[k], args[k]), format[k] # "S",
                        \A j \in 1..(k - 1) : ~LeavesData(j)
                 PROVE  out'[k] = args[k]
      BY <1>1, <1>3, Zenon DEF FieldsSurvive, LeavesData
    <2>1. CASE k \in 1..n
      <3>1. out[k] = args[k]
        BY <1>1, <2>1, Zenon DEF RInv, FieldsSurvive
      <3> QED
        BY <1>3, <2>1, <3>1, Zenon
    <2>2. CASE k = n + 1
      <3>1. NoData(n)
        <4>1. k - 1 = n
          BY <1>3, <2>2
        <4> QED
          BY <4>1, Zenon DEF NoData
      <3>2. x = v
        BY <1>1, <1>5, <2>2, <3>1, Zenon DEF FieldTaken
      <3> QED
        BY <1>3, <2>2, <3>2, Zenon
    <2>3. k \in 1..n \/ k = n + 1
      BY <1>3
    <2> QED
      BY <2>1, <2>2, <2>3, Zenon
  <1>14. CutIsRefused'
    BY <1>1 DEF CutIsRefused
  <1> QED
    BY <1>12, <1>13, <1>14

\* A packet all of whose letters are read, and that has no data but at its end.
Readable ==
  \A k \in 1..Len(format) :
    /\ format[k] \in CanUnpack
    /\ LeavesData(k) => k = Len(format) /\ ~IsLong("b", args[k])

LEMMA ReadableHasNoData ==
  ASSUME Readable, NEW n \in Nat, n <= Len(format), Len(format) \in Nat
  PROVE  /\ n < Len(format) => NoData(n)
         /\ n > 0 => NoData(n - 1) /\ IsShort(n)
  <1>1. ASSUME NEW m \in Nat, m < Len(format) PROVE NoData(m)
    <2>1. \A j \in 1..m : j \in 1..Len(format) /\ j # Len(format)
      BY <1>1
    <2> QED
      BY <2>1, Zenon DEF NoData, Readable
  <1>2. ASSUME n > 0 PROVE NoData(n - 1) /\ IsShort(n)
    <2>1. n - 1 \in Nat /\ n - 1 < Len(format) /\ n \in 1..Len(format)
      BY <1>2
    <2>2. IsLong("b", args[n]) => args[n] # <<>>
      <3>1. ~(Len(<<>>) >= Byte)
        BY Widths
      <3>2. IsLong("b", args[n]) => Len(args[n]) >= Byte
        BY DEF IsLong
      <3> QED
        BY <3>1, <3>2, Zenon
    <2>3. LeavesData(n) => ~IsLong("b", args[n])
      BY <2>1, Zenon DEF Readable
    <2>4. IsShort(n)
      BY <2>2, <2>3, Zenon DEF IsShort, LeavesData
    <2> QED
      BY <1>1, <2>1, <2>4, Zenon
  <1> QED
    BY <1>1, <1>2

LEMMA UnpackFailIsRead == RInv /\ UnpackFails => Reading' /\ FieldsSurvive' /\ CutIsRefused'
  <1> SUFFICES ASSUME RInv, UnpackFails
               PROVE  Reading' /\ FieldsSurvive' /\ CutIsRefused'
    OBVIOUS
  <1>1. /\ phase = "unpack" /\ phase' = "done" /\ Unpacking /\ ~Fits(UnpackLetter) /\ len' = NPOS
        /\ UNCHANGED <<format, args, size, buf, blen, at, out>>
    BY DEF UnpackFails, Unpacking
  <1>2. PICK pos : Laid(pos, format, args, buf) /\ ReadTo(pos)
    BY DEF RInv, Reading
  <1>3. Reading'
    <2>1. ReadTo(pos)'
      BY <1>1 DEF ReadTo
    <2>2. Laid(pos, format', args', buf')
      BY <1>1, <1>2
    <2> QED
      BY <1>1, <2>1, <2>2 DEF RInv, Reading
  <1>4. FieldsSurvive'
    BY <1>1, Zenon DEF RInv, FieldsSurvive, LeavesData
  <1>5. CutIsRefused'
    <2> SUFFICES ASSUME Readable, blen = size
                 PROVE  FALSE
      <3>1. Readable' <=> Readable
        BY <1>1, Zenon DEF Readable, LeavesData
      <3> QED
        BY <1>1, <3>1, Zenon DEF CutIsRefused, Readable
    <2> PICK n : n = Len(out)
      OBVIOUS
    <2> PICK l : l = UnpackLetter
      OBVIOUS
    <2> PICK v : v = args[n + 1]
      OBVIOUS
    <2> PICK p : p = Part(format, args, n + 1)
      OBVIOUS
    <2>1. n \in Nat /\ n < Len(format) /\ Len(format) \in Nat /\ n <= Len(format)
      <3>1. n \in Nat
        BY Appended, Zenon DEF RInv, Reading
      <3>2. Len(format) \in Nat
        BY DEF RInv, Reading
      <3>3. n < Len(format)
        BY <1>1, Zenon DEF Unpacking
      <3> QED
        BY <3>1, <3>2, <3>3
    <2>2. NoData(n)
      BY <2>1, ReadableHasNoData, Zenon
    <2>3. l = format[n + 1] /\ l \in CanUnpack /\ n + 1 \in 1..Len(format)
      <3>1. n + 1 \in 1..Len(format) /\ l = format[n + 1]
        BY <2>1 DEF UnpackLetter
      <3> QED
        BY <3>1, Zenon DEF Readable
    <2>4. ~(l = "b" /\ IsLong(l, v))
      <3>1. n + 1 \in Nat /\ n + 1 <= Len(format) /\ n + 1 > 0
        BY <2>1
      <3>2. IsShort(n + 1)
        BY <2>1, <3>1, ReadableHasNoData, Zenon
      <3> QED
        BY <2>3, <3>2, Zenon DEF IsShort
    <2>5. p = Packed(l, v)
      BY <2>3, Zenon DEF Part
    <2>6. /\ at = pos[n] /\ len = pos[n] /\ pos[n] \in Nat /\ Len(p) \in Nat
          /\ pos[n + 1] = pos[n] + Len(p) /\ pos[n + 1] <= Len(buf) /\ size = Len(buf)
          /\ FieldTaken(l, v)
      BY <1>1, <1>2, <2>2, <2>3, AtField, Zenon
    <2>7. len + Len(p) <= blen
      BY <2>6
    <2>8. FieldLen(l) = Len(p)
      BY <2>4, <2>5, <2>6, Zenon DEF FieldTaken
    <2>9. l \in DOMAIN MaxVar => VarFits(l)
      <3> SUFFICES ASSUME l \in DOMAIN MaxVar PROVE VarFits(l)
        OBVIOUS
      <3>1. buf[at + 1] <= MaxVar[l] /\ VarLen \in 1..Len(p)
        BY <2>5, <2>6, Zenon DEF FieldTaken
      <3>2. \A m \in 1..Len(p) : len + 1 <= blen /\ len + m <= blen
        BY <2>6, <2>7
      <3> QED
        BY <3>1, <3>2, Zenon DEF VarFits
    <2>10. Fits(l)
      BY <2>3, <2>7, <2>8, <2>9, Zenon DEF Fits
    <2> QED
      BY <1>1, <2>10
  <1> QED
    BY <1>3, <1>4, <1>5

LEMMA UnpackedIsRead == RInv /\ Unpacked => Reading' /\ FieldsSurvive' /\ CutIsRefused'
  <1> SUFFICES ASSUME RInv, Unpacked
               PROVE  Reading' /\ FieldsSurvive' /\ CutIsRefused'
    OBVIOUS
  <1>1. /\ phase = "unpack" /\ phase' = "done" /\ Len(out) = Len(format)
        /\ UNCHANGED <<format, args, size, buf, blen, len, at, out>>
    BY DEF Unpacked
  <1>2. PICK pos : Laid(pos, format, args, buf) /\ ReadTo(pos)
    BY DEF RInv, Reading
  <1>3. Reading'
    <2>1. ReadTo(pos)'
      BY <1>1 DEF ReadTo
    <2>2. Laid(pos, format', args', buf')
      BY <1>1, <1>2
    <2> QED
      BY <1>1, <2>1, <2>2 DEF RInv, Reading
  <1>4. FieldsSurvive'
    BY <1>1, Zenon DEF RInv, FieldsSurvive, LeavesData
  <1>5. CutIsRefused'
    <2> SUFFICES ASSUME Readable
                 PROVE  len = size /\ blen = size
      <3>1. Readable' <=> Readable
        BY <1>1, Zenon DEF Readable, LeavesData
      <3> QED
        BY <1>1, <3>1, Zenon DEF CutIsRefused, Readable
    <2> PICK n : n = Len(out)
      OBVIOUS
    <2>1. n = Len(format) /\ n = Len(args) /\ n \in Nat /\ size = Len(buf)
      <3>1. Len(args) = Len(format) /\ size = Len(buf)
        BY <1>1, <1>2, Zenon DEF ReadTo
      <3>2. n \in Nat
        BY Appended, Zenon DEF RInv, Reading
      <3> QED
        BY <1>1, <3>1, <3>2
    <2>2. len = pos[n]
      <3>1. CASE n = 0
        <4>1. \A j \in 1..0 : FALSE
          OBVIOUS
        <4>2. NoData(n)
          BY <3>1, <4>1, Zenon DEF NoData
        <4> QED
          BY <1>1, <1>2, <4>2, Zenon DEF ReadTo
      <3>2. CASE n # 0
        <4>1. n > 0 /\ n <= Len(format) /\ Len(format) \in Nat
          BY <2>1, <3>2
        <4>2. NoData(n - 1) /\ IsShort(n)
          BY <2>1, <4>1, ReadableHasNoData, Zenon
        <4> QED
          BY <1>1, <1>2, <4>1, <4>2, Zenon DEF ReadTo
      <3> QED
        BY <3>1, <3>2
    <2>3. pos[n] = Len(buf)
      BY <1>2, <2>1, Zenon DEF Laid
    <2>4. blen <= Len(buf) /\ len <= blen /\ blen \in Nat /\ Len(buf) \in Nat
      BY <1>1 DEF RInv, IInv, InBounds
    <2> QED
      BY <2>1, <2>2, <2>3, <2>4
  <1> QED
    BY <1>3, <1>4, <1>5

LEMMA NextIsRead == RInv /\ [Next]_vars => RInv'
  <1> SUFFICES ASSUME RInv, [Next]_vars
               PROVE  RInv'
    OBVIOUS
  <1>1. IInv'
    BY NextIsInBounds DEF RInv
  <1>2. CASE UNCHANGED vars
    <2>1. Reading'
      <3>1. UNCHANGED <<phase, format, args, size, buf, len, at, out>>
        BY <1>2 DEF vars
      <3>2. PICK pos : Laid(pos, format, args, buf) /\ ReadTo(pos)
        BY DEF RInv, Reading
      <3>3. ReadTo(pos)'
        BY <3>1, <3>2 DEF ReadTo, NoData, LeavesData, IsShort, IsLong
      <3>4. Laid(pos, format', args', buf')
        BY <3>1, <3>2
      <3> QED
        BY <3>1, <3>3, <3>4 DEF RInv, Reading
    <2>2. FieldsSurvive' /\ CutIsRefused'
      BY <1>2, Zenon DEF RInv, vars, FieldsSurvive, CutIsRefused, LeavesData
    <2> QED
      BY <1>1, <2>1, <2>2 DEF RInv
  <1>3. CASE Next
    <2>1. Reading' /\ FieldsSurvive' /\ CutIsRefused'
      BY <1>3, PackFieldIsRead, PackFailIsRead, ArrivalIsRead, FieldIsTaken, UnpackFailIsRead,
         UnpackedIsRead, Zenon DEF Next
    <2> QED
      BY <1>1, <2>1 DEF RInv
  <1> QED
    BY <1>2, <1>3

\* Every field that is read has the value it was packed with, but for variable
\* integers of more than one byte and for what follows data (pack.c:53-180,
\* 603-871), for every format in which each 'O' has its 'o': an 'O' alone makes
\* zeros of the fields in front (pack.c:313, 352).
THEOREM WhatIsPackedIsRead ==
  ASSUME \A f \in Formats : SealsPaired(f)
  PROVE  Spec => []FieldsSurvive
  <1>1. Init => RInv
    BY InitIsRead
  <1>2. RInv => FieldsSurvive
    BY DEF RInv
  <1> QED
    BY <1>1, <1>2, NextIsRead, PTL DEF Spec

\* A packet that was cut short is refused, and a whole one is read to its end, as
\* the test "olen != len" expects (conn.c:508, 579), for every format in which each
\* 'O' has its 'o': an 'O' alone makes zeros of lengths that are read.
THEOREM CutPacketsAreRefused ==
  ASSUME \A f \in Formats : SealsPaired(f)
  PROVE  Spec => []CutIsRefused
  <1>1. Init => RInv
    BY InitIsRead
  <1>2. RInv => CutIsRefused
    BY DEF RInv
  <1> QED
    BY <1>1, <1>2, NextIsRead, PTL DEF Spec

-----------------------------------------------------------------------------
(* The length of a format.                                                 *)

\* trip_pack_len adds a signature at its 's', trip_pack writes one at its 'S'.
Signs(l) == IF l = "s" THEN 1 ELSE IF l = "S" THEN -1 ELSE 0

\* An 's' before every 'S', from where the signature is taken: d[k] of them are
\* without their 'S' behind the k-th letter.
Opened(d, f) ==
  /\ d \in [0..Len(f) -> Nat] /\ d[0] = 0
  /\ \A k \in 1..Len(f) : d[k] = d[k - 1] + Signs(f[k])

Paired(f) == \E d : Opened(d, f)

Lengths(f) == [k \in 1..Len(f) |-> LetterLen(f[k])]

LEMMA LettersHaveLengths ==
  ASSUME NEW l
  PROVE  LetterLen(l) \in Nat
  <1>1. l \in Fixed => Width[l] \in Nat
    BY FixedLetters DEF Width
  <1>2. l \in {"V", "W"} => 1 + MaxVar[l] \in Nat
    BY DEF MaxVar
  <1>3. CASE l \in Fixed
    <2>1. l \notin {"V", "W"} /\ l \notin Blocks \cup {"o", "e", "s"}
      BY <1>3, FixedLetters DEF Blocks
    <2>2. LetterLen(l) = Width[l]
      BY <1>3, <2>1, Zenon DEF LetterLen
    <2> QED
      BY <1>1, <1>3, <2>2
  <1>4. CASE l \in {"V", "W"}
    <2>1. l \notin Fixed /\ l \notin Blocks \cup {"o", "e", "s"}
      BY <1>4, FixedLetters DEF Blocks
    <2>2. LetterLen(l) = 1 + MaxVar[l]
      BY <1>4, <2>1, Zenon DEF LetterLen
    <2> QED
      BY <1>2, <1>4, <2>2
  <1>5. CASE l \in Blocks \cup {"o", "e", "s"}
    <2>1. l \notin Fixed /\ l \notin {"V", "W"}
      BY <1>5, FixedLetters DEF Blocks
    <2>2. LetterLen(l) = Block
      BY <1>5, <2>1, Zenon DEF LetterLen
    <2> QED
      BY <2>2, SizesAreNat
  <1>6. CASE l \notin Fixed /\ l \notin {"V", "W"} /\ l \notin Blocks \cup {"o", "e", "s"}
    <2>1. LetterLen(l) = 0
      BY <1>6, Zenon DEF LetterLen
    <2> QED
      BY <2>1
  <1> QED
    BY <1>3, <1>4, <1>5, <1>6

LEMMA LettersLen ==
  /\ \A l \in Fixed : LetterLen(l) = Width[l]
  /\ LetterLen("V") = 5 /\ LetterLen("W") = 9
  /\ \A l \in Blocks \cup {"o", "e", "s"} : LetterLen(l) = Block
  <1>1. ASSUME NEW l \in Fixed PROVE LetterLen(l) = Width[l]
    <2>1. l \notin {"V", "W"} /\ l \notin Blocks \cup {"o", "e", "s"}
      BY FixedLetters DEF Blocks
    <2> QED
      BY <2>1, Zenon DEF LetterLen
  <1>2. ASSUME NEW l \in {"V", "W"} PROVE LetterLen(l) = 1 + MaxVar[l]
    <2>1. l \notin Fixed /\ l \notin Blocks \cup {"o", "e", "s"}
      BY FixedLetters DEF Blocks
    <2> QED
      BY <2>1, Zenon DEF LetterLen
  <1>3. ASSUME NEW l \in Blocks \cup {"o", "e", "s"} PROVE LetterLen(l) = Block
    <2>1. l \notin Fixed /\ l \notin {"V", "W"}
      BY FixedLetters DEF Blocks
    <2> QED
      BY <2>1, Zenon DEF LetterLen
  <1>4. MaxVar["V"] = 4 /\ MaxVar["W"] = 8
    BY DEF MaxVar
  <1> QED
    BY <1>1, <1>2, <1>3, <1>4

\* No value takes more than its letter is given, but for a signature, which is
\* counted before.
LEMMA LetterIsEnough ==
  ASSUME NEW l \in CanPack \ {"b"}, NEW v \in FieldRange(l)
  PROVE  /\ Len(Packed(l, v)) \in Nat
         /\ Len(Packed(l, v)) + Signs(l) * Block <= LetterLen(l)
  <1> DEFINE p == Packed(l, v)
  <1>1. p \in Seq(Nat)
    BY PackedIsSeq, Zenon
  <1>2. Len(p) \in Nat
    <2> HIDE DEF p
    <2> QED
      BY <1>1
  <1>3. LetterLen(l) \in Nat /\ Block \in Nat
    BY LettersHaveLengths, SizesAreNat, Zenon
  <1>4. Len(Zeros) = Block /\ Len(<<>>) = 0
    <2>1. Zeros \in [1..Block -> Nat]
      BY DEF Zeros
    <2> QED
      BY <2>1, SizesAreNat
  <1>5. CASE l \in Fixed
    <2>1. Len(p) = Width[l] /\ LetterLen(l) = Width[l]
      BY <1>5, FixedLen, LettersLen, Zenon
    <2>2. Signs(l) = 0
      BY <1>5, FixedLetters DEF Signs
    <2> HIDE DEF p
    <2>3. Len(p) + Signs(l) * Block <= LetterLen(l)
      BY <1>2, <1>3, <2>1, <2>2
    <2> QED
      BY <1>2, <2>3 DEF p
  <1>6. CASE l \in {"V", "W"}
    <2>1. /\ l = "V" => v \in 0..(Byte4 - 1)
          /\ l = "W" => v \in 0..(Byte8 - 1)
          /\ p = PackVar(v)
      BY <1>6, OtherLetters
    <2>2. v \in Nat /\ (l = "V" => v < Byte4)
      <3> HIDE DEF p
      <3> QED
        BY <1>6, <2>1, Widths
    <2>3. Len(p) = 1 + _trip_uvar_len(v) /\ _trip_uvar_len(v) \in 0..8
      BY <2>1, <2>2, VarIsSeq, Zenon
    <2>4. l = "V" => _trip_uvar_len(v) \in 0..4
      BY <2>2, FewBytes, Zenon
    <2>5. (l = "V" => LetterLen(l) = 5) /\ (l = "W" => LetterLen(l) = 9)
      BY LettersLen, Zenon
    <2>6. Signs(l) = 0
      BY <1>6 DEF Signs
    <2> HIDE DEF p
    <2>7. Len(p) + Signs(l) * Block <= LetterLen(l)
      BY <1>3, <1>6, <2>3, <2>4, <2>5, <2>6
    <2> QED
      BY <1>2, <2>7 DEF p
  <1>7. CASE l \in Blocks
    <2>1. Len(v) = Block /\ p = v
      <3>1. v \in [1..Block -> 0..(Byte - 1)]
        BY <1>7, OtherLetters DEF Blocks
      <3>2. Len(v) = Block
        BY <3>1, SizesAreNat
      <3> QED
        BY <1>7, <3>2, OtherLetters DEF Blocks
    <2>2. LetterLen(l) = Block /\ Signs(l) = 0
      <3>1. LetterLen(l) = Block
        BY <1>7, LettersLen, Zenon
      <3> QED
        BY <1>7, <3>1 DEF Signs, Blocks
    <2>3. Len(p) + Signs(l) * Block <= LetterLen(l)
      <3>1. Len(p) = Block
        BY <2>1, Zenon
      <3> HIDE DEF p
      <3> QED
        BY <1>3, <2>2, <3>1
    <2> QED
      BY <1>2, <2>3
  <1>8. CASE l \in {"o", "O", "e", "E", "s", "S"}
    <2>1. /\ l \in {"o", "S"} => Len(p) = Block
          /\ l \in {"O", "e", "E", "s"} => Len(p) = 0
      BY <1>4, <1>8, OtherLetters
    <2>2. l \in {"o", "e", "s"} => LetterLen(l) = Block
      BY LettersLen, Zenon
    <2>3. /\ l = "s" => Signs(l) = 1
          /\ l = "S" => Signs(l) = -1
          /\ l \notin {"s", "S"} => Signs(l) = 0
      BY DEF Signs
    <2> HIDE DEF p
    <2>4. Len(p) + Signs(l) * Block <= LetterLen(l)
      BY <1>3, <1>8, <2>1, <2>2, <2>3
    <2> QED
      BY <1>2, <2>4 DEF p
  <1> QED
    BY <1>5, <1>6, <1>7, <1>8 DEF CanPack

\* trip_pack_len is the sum of the lengths of its letters.
LEMMA LenIsSum ==
  ASSUME NEW f \in Seq(STRING)
  PROVE  /\ Len(f) \in Nat /\ Lengths(f) \in [1..Len(f) -> Nat]
         /\ \E s : SumTo(s, Lengths(f), Len(f)) /\ trip_pack_len(f) = s[Len(f)]
  <1> DEFINE n == Len(f)
             IsAdded(r) == r = [k \in 0..n |-> IF k = 0 THEN 0 ELSE r[k - 1] + LetterLen(f[k])]
             r == CHOOSE x : IsAdded(x)
  <1>1. n \in Nat
    OBVIOUS
  <1>2. Lengths(f) \in [1..n -> Nat]
    BY LettersHaveLengths DEF Lengths
  <1>3. \A s : SumTo(s, Lengths(f), n) <=> IsAdded(s)
    <2> TAKE s
    <2> DEFINE g == [k \in 0..n |-> IF k = 0 THEN 0 ELSE s[k - 1] + Lengths(f)[k]]
               h == [k \in 0..n |-> IF k = 0 THEN 0 ELSE s[k - 1] + LetterLen(f[k])]
    <2>1. \A k \in 0..n : k # 0 => Lengths(f)[k] = LetterLen(f[k])
      BY <1>1 DEF Lengths
    <2>2. g = h
      BY <2>1
    <2> HIDE DEF g, h
    <2>3. (s = g) <=> (s = h)
      BY <2>2
    <2> QED
      BY <2>3 DEF SumTo, g, h
  <1>4. \E s : IsAdded(s)
    <2>1. \E s : SumTo(s, Lengths(f), n)
      BY <1>1, <1>2, SumExists, Zenon
    <2> HIDE DEF IsAdded
    <2> QED
      BY <1>3, <2>1, Zenon
  <1>5. IsAdded(r)
    <2> HIDE DEF IsAdded
    <2> QED
      BY <1>4, Zenon
  <1>6. trip_pack_len(f) = r[n]
    BY DEF trip_pack_len
  <1> HIDE DEF IsAdded, r
  <1> QED
    BY <1>1, <1>2, <1>3, <1>5, <1>6, Zenon

\* There is room for sz bytes and the signatures that are open behind n letters.
Enough(f, n, sz) ==
  \E d, s : /\ Opened(d, f) /\ SumTo(s, Lengths(f), Len(f)) /\ trip_pack_len(f) = s[Len(f)]
            /\ sz + d[n] * Block <= s[n]

LEMMA NothingIsEnough ==
  ASSUME NEW f \in Seq(STRING), Paired(f)
  PROVE  Enough(f, 0, 0)
  <1> PICK d : Opened(d, f)
    BY DEF Paired
  <1> PICK s : SumTo(s, Lengths(f), Len(f)) /\ trip_pack_len(f) = s[Len(f)]
    BY LenIsSum, Zenon
  <1>1. s[0] = 0
    <2>1. Len(f) \in Nat
      OBVIOUS
    <2> QED
      BY <2>1, SumStep, Zenon
  <1>2. d[0] = 0
    BY DEF Opened
  <1>3. 0 + d[0] * Block <= s[0]
    BY <1>1, <1>2, SizesAreNat
  <1> QED
    BY <1>3, Zenon DEF Enough

LEMMA EnoughGrows ==
  ASSUME NEW f \in Seq(STRING), NEW n \in Nat, n < Len(f), NEW sz \in Nat, Enough(f, n, sz),
         f[n + 1] \in CanPack \ {"b"}, NEW v \in FieldRange(f[n + 1])
  PROVE  /\ Enough(f, n + 1, sz + Counted(f[n + 1], v))
         /\ sz + Counted(f[n + 1], v) <= trip_pack_len(f)
  <1> PICK d, s : /\ Opened(d, f) /\ SumTo(s, Lengths(f), Len(f)) /\ trip_pack_len(f) = s[Len(f)]
                  /\ sz + d[n] * Block <= s[n]
    BY Zenon DEF Enough
  <1> PICK l : l = f[n + 1]
    OBVIOUS
  <1> PICK w : w = Counted(f[n + 1], v)
    OBVIOUS
  <1>1. w \in Nat /\ w + Signs(l) * Block <= LetterLen(l)
    <2>1. f[n + 1] \in CanPack
      OBVIOUS
    <2>2. w = Len(Packed(f[n + 1], v))
      BY <2>1, CountedIsPacked, Zenon
    <2> QED
      BY <2>2, LetterIsEnough, Zenon
  <1>2. n \in 0..Len(f) /\ n + 1 \in 1..Len(f) /\ n + 1 \in 0..Len(f) /\ (n + 1) - 1 = n
        /\ Len(f) \in Nat
    OBVIOUS
  <1>3. Lengths(f) \in [1..Len(f) -> Nat]
    BY LenIsSum, Zenon
  <1>4. s \in [0..Len(f) -> Nat] /\ s[n + 1] <= s[Len(f)]
    BY <1>2, <1>3, SumGrows, Zenon
  <1>5. s[n + 1] = s[n] + LetterLen(l)
    <2>1. Lengths(f)[n + 1] = LetterLen(l)
      BY <1>2, Zenon DEF Lengths
    <2>2. s[n + 1] = s[(n + 1) - 1] + Lengths(f)[n + 1]
      <3>1. \A k \in 1..Len(f) : s[k] = s[k - 1] + Lengths(f)[k]
        BY <1>2, SumStep
      <3> QED
        BY <1>2, <3>1, Zenon
    <2> QED
      BY <1>2, <2>1, <2>2, Zenon
  <1>6. d[n + 1] = d[n] + Signs(l) /\ d[n] \in Nat /\ d[n + 1] \in Nat
    <2>1. d[n + 1] = d[(n + 1) - 1] + Signs(l) /\ d \in [0..Len(f) -> Nat]
      BY <1>2, Zenon DEF Opened
    <2> QED
      BY <1>2, <2>1
  <1>7. s[n] \in Nat /\ s[n + 1] \in Nat /\ s[Len(f)] \in Nat /\ LetterLen(l) \in Nat
    <2>1. Len(f) \in 0..Len(f)
      BY <1>2
    <2> QED
      BY <1>2, <1>4, <2>1, LettersHaveLengths
  <1>8. (d[n] + Signs(l)) * Block = d[n] * Block + Signs(l) * Block
    <2>1. \A x \in Nat, y \in {-1, 0, 1}, z \in Nat : (x + y) * z = x * z + y * z
      BY SMT
    <2>2. Signs(l) \in {-1, 0, 1}
      BY DEF Signs
    <2> QED
      BY <1>6, <2>1, <2>2, SizesAreNat, Zenon
  <1>9. (sz + w) + d[n + 1] * Block <= s[n + 1]
    <2>1. Signs(l) * Block \in Int /\ d[n] * Block \in Nat
      <3>1. Signs(l) \in Int
        BY DEF Signs
      <3>2. \A x \in Int, y \in Nat : x * y \in Int
        BY SMT
      <3>3. \A x, y \in Nat : x * y \in Nat
        BY SMT
      <3> QED
        BY <1>6, <3>1, <3>2, <3>3, SizesAreNat, Zenon
    <2>2. d[n + 1] * Block = d[n] * Block + Signs(l) * Block
      BY <1>6, <1>8, Zenon
    <2> PICK g : g = d[n + 1] * Block
      OBVIOUS
    <2> PICK y : y = d[n] * Block
      OBVIOUS
    <2> PICK e : e = Signs(l) * Block
      OBVIOUS
    <2>3. e \in Int /\ y \in Nat /\ g = y + e
      BY <2>1, <2>2, Zenon
    <2>4. sz + y <= s[n] /\ w + e <= LetterLen(l)
      BY <1>1, Zenon
    <2>5. (sz + w) + g <= s[n + 1]
      BY ONLY <1>1, <1>5, <1>7, <2>3, <2>4, sz \in Nat
    <2> QED
      BY <2>5, Zenon
  <1>10. d[n + 1] * Block >= 0 /\ d[n + 1] * Block \in Nat
    <2>1. \A x, y \in Nat : x * y >= 0 /\ x * y \in Nat
      BY SMT
    <2> QED
      BY <1>6, <2>1, SizesAreNat, Zenon
  <1>11. sz + w <= s[Len(f)]
    BY <1>1, <1>4, <1>7, <1>9, <1>10
  <1> QED
    BY <1>9, <1>11, Zenon DEF Enough

\* As long as trip_pack has not failed there is room for what is to come.
LInv ==
  /\ format \in Seq(STRING) /\ IsSeq(args) /\ cap \in Nat
  /\ phase = "pack" => size \in Nat
  /\ format \in Formats
  /\ phase = "pack" /\ (\A k \in 1..Len(format) : format[k] \in CanPack \ {"b"})
       => Enough(format, Len(args), size)
  /\ PackLenIsEnough

LEMMA InitIsEnough ==
  ASSUME \A f \in Formats : Paired(f)
  PROVE  Init => LInv
  <1> SUFFICES ASSUME Init PROVE LInv
    OBVIOUS
  <1>1. format \in Formats /\ format \in Seq(STRING) /\ size = 0 /\ args = <<>>
    BY FormatsAreStrings DEF Init
  <1>2. IsSeq(args) /\ cap \in Nat /\ size \in Nat
    BY <1>1, SizesAreNat DEF Init, IsSeq
  <1>3. Enough(format, Len(args), size)
    <2>1. Enough(format, 0, 0)
      BY <1>1, NothingIsEnough, Zenon
    <2>2. Len(<<>>) = 0
      OBVIOUS
    <2> QED
      BY <1>1, <2>1, <2>2, Zenon
  <1>4. PackLenIsEnough
    BY <1>1 DEF PackLenIsEnough, NPOS
  <1> QED
    BY <1>1, <1>2, <1>3, <1>4, Zenon DEF LInv

LEMMA NextIsEnough == LInv /\ [Next]_vars => LInv'
  <1> SUFFICES ASSUME LInv, [Next]_vars
               PROVE  LInv'
    OBVIOUS
  <1> DEFINE NoB == \A k \in 1..Len(format) : format[k] \in CanPack \ {"b"}
             Room == phase = "pack" /\ NoB => Enough(format, Len(args), size)
  <1>1. /\ IsSeq(args) /\ cap \in Nat /\ cap' = cap
        /\ format \in Seq(STRING)
    BY DEF LInv, Next, PackField, PackFails, Arrive, UnpackField, UnpackFails, Unpacked, vars
  <1>2. format' = format
    BY DEF Next, PackField, PackFails, Arrive, UnpackField, UnpackFails, Unpacked, vars
  <1>3. format' \in Formats
    BY <1>2 DEF LInv
  <1>4. /\ format \in Seq(STRING) /\ Len(args) \in Nat
        /\ phase = "pack" => size \in Nat
    <2>1. Len(args) \in Nat
      BY <1>1, Appended, Zenon
    <2> QED
      BY <1>1, <2>1, Zenon DEF LInv
  <1>5. Room /\ PackLenIsEnough
    BY Zenon DEF LInv
  \* What is counted for the next letter, if it can be packed.
  <1>6. ASSUME Packing, NoB, NEW v \in Values(PackLetter)
        PROVE  /\ Enough(format, Len(args) + 1, size + Counted(PackLetter, v))
               /\ size + Counted(PackLetter, v) <= trip_pack_len(format)
    <2>1. phase = "pack" /\ Len(args) < Len(format) /\ PackLetter = format[Len(args) + 1]
      BY <1>6 DEF Packing, PackLetter
    <2>2. Len(args) + 1 \in 1..Len(format)
      BY <1>4, <2>1
    <2>3. PackLetter \in CanPack /\ PackLetter \in CanPack \ {"b"}
      <3>1. PackLetter \in CanPack \ {"b"}
        BY <1>6, <2>1, <2>2, Zenon
      <3> QED
        BY <3>1
    <2>4. v \in FieldRange(PackLetter)
      BY <2>3, ValuesAreInRange, Zenon
    <2>5. Enough(format, Len(args), size)
      BY <1>5, <1>6, <2>1, Zenon
    <2> HIDE DEF NoB
    <2> QED
      BY <1>4, <2>1, <2>3, <2>4, <2>5, EnoughGrows, Zenon
  <1>7. CASE PackField
    <2>1. phase = "pack" /\ phase' = phase /\ Packing
      BY <1>7 DEF PackField, Packing
    <2>2. PICK v \in Values(PackLetter) :
            args' = Append(args, v) /\ size' = size + Counted(PackLetter, v)
      BY <1>7 DEF PackField
    <2>3. Len(args') = Len(args) + 1 /\ IsSeq(args')
      BY <1>1, <2>2, Appended, Zenon
    <2>4. NoB => Enough(format', Len(args'), size')
      BY <1>2, <1>6, <2>1, <2>2, <2>3, Zenon
    <2>5. size' \in Nat /\ size' # NPOS
      <3>1. Counted(PackLetter, v) \in Nat
        <4>1. PackLetter \in CanPack
          BY <1>7 DEF PackField
        <4> QED
          BY <4>1, CountIsNat, ValuesAreInRange, Zenon
      <3>2. size' \in Nat
        BY <1>4, <2>1, <2>2, <3>1
      <3> QED
        BY <3>2 DEF NPOS
    <2>6. PackLenIsEnough'
      BY <2>5 DEF PackLenIsEnough
    <2> QED
      BY <1>1, <1>2, <1>3, <2>3, <2>4, <2>5, <2>6, Zenon DEF LInv
  <1>8. CASE PackFails
    <2>1. phase' = "done" /\ Packing /\ cap' = cap
      BY <1>8 DEF PackFails
    <2>2. ASSUME NoB PROVE cap < trip_pack_len(format)
      <3>1. PackLetter \in CanPack
        <4>1. Len(args) + 1 \in 1..Len(format)
          BY <1>4, <2>1 DEF Packing
        <4>2. PackLetter \in CanPack \ {"b"}
          BY <2>2, <4>1, Zenon DEF PackLetter
        <4> QED
          BY <4>2
      <3>2. PICK v \in Values(PackLetter) : size + Counted(PackLetter, v) > cap
        BY <1>8, <3>1, Zenon DEF PackFails
      <3>3. size + Counted(PackLetter, v) <= trip_pack_len(format)
        BY <1>6, <2>1, <2>2, Zenon
      <3>4. cap \in Nat /\ trip_pack_len(format) \in Nat /\ size + Counted(PackLetter, v) \in Nat
        <4>1. PICK s : SumTo(s, Lengths(format), Len(format)) /\ trip_pack_len(format) = s[Len(format)]
          BY <1>4, LenIsSum, Zenon
        <4>2. Len(format) \in Nat /\ Lengths(format) \in [1..Len(format) -> Nat]
          BY <1>4, LenIsSum, Zenon
        <4>3. s \in [0..Len(format) -> Nat]
          BY <4>1, <4>2, SumGrows, Zenon
        <4>4. Len(format) \in 0..Len(format)
          BY <4>2
        <4>5. trip_pack_len(format) \in Nat
          BY <4>1, <4>3, <4>4
        <4>6. Counted(PackLetter, v) \in Nat
          BY <3>1, ValuesAreInRange, CountIsNat, Zenon
        <4>7. phase = "pack"
          BY <2>1 DEF Packing
        <4> QED
          BY <1>1, <1>4, <4>5, <4>6, <4>7
      <3> QED
        BY <3>2, <3>3, <3>4
    <2>3. PackLenIsEnough'
      BY <1>2, <2>1, <2>2, Zenon DEF PackLenIsEnough
    <2>4. args' = args
      BY <1>8 DEF PackFails
    <2> QED
      BY <1>1, <1>2, <1>3, <2>1, <2>3, <2>4, Zenon DEF LInv
  <1>9. CASE Arrive \/ UnpackField \/ UnpackFails \/ Unpacked
    <2>1. phase' # "pack" /\ cap' = cap /\ size' = size /\ args' = args
      BY <1>9 DEF Arrive, UnpackField, Unpacking, UnpackFails, Unpacked
    <2>2. PackLenIsEnough'
      BY <1>2, <1>5, <2>1, Zenon DEF PackLenIsEnough
    <2> QED
      BY <1>1, <1>2, <1>3, <2>1, <2>2, Zenon DEF LInv
  <1>10. CASE UNCHANGED vars
    <2>1. UNCHANGED <<phase, format, args, cap, size>>
      BY <1>10 DEF vars
    <2>2. PackLenIsEnough'
      BY <1>5, <2>1, Zenon DEF PackLenIsEnough
    <2>3. (phase = "pack" /\ NoB => Enough(format, Len(args), size))'
      BY <1>5, <2>1, Zenon
    <2> QED
      BY <1>1, <1>3, <1>4, <2>1, <2>2, <2>3, Zenon DEF LInv
  <1> QED
    BY <1>7, <1>8, <1>9, <1>10 DEF Next

\* A buffer of trip_pack_len bytes is enough for a format without data in which
\* every 'S' has its 's' before it, as it needs for what it signs (pack.c:196-264,
\* 363-367).
THEOREM LenIsEnough ==
  ASSUME \A f \in Formats : Paired(f)
  PROVE  Spec => []PackLenIsEnough
  <1>1. Init => LInv
    BY InitIsEnough
  <1>2. LInv => PackLenIsEnough
    BY DEF LInv
  <1> QED
    BY <1>1, <1>2, NextIsEnough, PTL DEF Spec
=============================================================================
