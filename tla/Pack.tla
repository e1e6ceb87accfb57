-------------------------------- MODULE Pack --------------------------------
(***************************************************************************)
(* Packing and unpacking of packets (src/src/pack.c): trip_pack writes one  *)
(* field per letter of a format into a buffer of cap bytes, and trip_unpack *)
(* reads the fields of a buffer of blen bytes.  A datagram may arrive cut   *)
(* short.                                                                  *)
(*                                                                         *)
(* Without keys a signature or a seal is a run of zeros.  What is written   *)
(* with a key is a block of bytes that is not looked into.  A letter that   *)
(* unpack does not know ends it, and a 'p' ends both.                       *)
(***************************************************************************)
EXTENDS Integers, FiniteSets, Sequences

CONSTANTS
  Byte,       \* how many values a byte has: 256
  Formats,    \* formats that are packed, and unpacked as they were packed
  Caps,       \* sizes of the buffer
  Values(_),  \* bound: the values that are packed for a letter
  Block       \* the length of a nonce, a key, a signature and a seal

ASSUME ByteIsEven == Byte \in Nat \ {0} /\ Byte % 2 = 0

ASSUME FormatsAreStrings == Formats \subseteq Seq(STRING)

ASSUME SizesAreNat == Block \in Nat /\ Caps \subseteq Nat

VARIABLES
  phase,      \* "pack", "unpack" or "done"
  format,     \* the format of both calls
  args,       \* the values packed so far
  cap,        \* the size of the buffer to pack into
  size,       \* trip_pack's size: what it returns
  buf,        \* the bytes of the buffer that have been written
  put,        \* the bytes trip_pack's buf is behind
  cryptstart, \* the bytes its cryptstart is behind
  blen,       \* the bytes that have arrived
  len,        \* trip_unpack's len: what it returns
  at,         \* the bytes its buf is behind
  out         \* the values unpacked so far

vars == <<phase, format, args, cap, size, buf, put, cryptstart, blen, len, at, out>>

NPOS == -1

-----------------------------------------------------------------------------
(* Integers as bytes.  Signed ones are written as their two's complement.   *)

Byte2 == Byte * Byte

Byte4 == Byte2 * Byte2

Byte8 == Byte4 * Byte4

packi16(i) == <<(i \div Byte) % Byte, i % Byte>>

\* Mutant: the halves are swapped.
packi32_Swapped(i) == packi16(i) \o packi16(i \div Byte2)

packi32(i) == packi16(i \div Byte2) \o packi16(i)

packi64(i) == packi32(i \div Byte4) \o packi32(i)

unpacku16(b) == b[1] * Byte + b[2]

unpacku32(b) == unpacku16(SubSeq(b, 1, 2)) * Byte2 + unpacku16(SubSeq(b, 3, 4))

unpacku64(b) == unpacku32(SubSeq(b, 1, 4)) * Byte4 + unpacku32(SubSeq(b, 5, 8))

\* "Restore sign.", for an integer that has as many values as range.
Signed(u, range) == IF u < range \div 2 THEN u ELSE u - range

\* n >> 8 * k is n \div Shift[k + 1].
Shift == <<1, Byte, Byte2, Byte2 * Byte, Byte4, Byte4 * Byte, Byte4 * Byte2,
           Byte4 * Byte2 * Byte>>

\* n is shifted until it is zero.
_trip_uvar_len(n) == Cardinality({k \in 1..8 : n >= Shift[k]})

\* A variable integer as it is written: the number of its bytes, then its bytes
\* from the lowest on.
PackVar(n) ==
  <<_trip_uvar_len(n)>> \o [k \in 1.._trip_uvar_len(n) |-> (n \div Shift[k]) % Byte]

\* And as its bytes are read: n = n << 8 ^ *buf.
VarValue(b) ==
  LET read[k \in 0..Len(b)] == IF k = 0 THEN 0 ELSE read[k - 1] * Byte + b[k]
  IN  read[Len(b)]

-----------------------------------------------------------------------------
(* The letters.                                                            *)

Width == [c |-> 1, C |-> 1, h |-> 2, H |-> 2, i |-> 4, I |-> 4, q |-> 8, Q |-> 8]

Fixed == DOMAIN Width

Blocks == {"n", "k"}

CanPack == Fixed \cup Blocks \cup {"V", "W", "b", "o", "O", "e", "E", "s", "S"}

CanUnpack == Fixed \cup Blocks \cup {"V", "W", "b", "o", "O"}

\* A field of fixed width, from its bytes.
FixedValue(l, b) ==
  CASE l = "c" -> Signed(b[1], Byte)
    [] l = "C" -> b[1]
    [] l = "h" -> Signed(unpacku16(b), Byte2)
    [] l = "H" -> unpacku16(b)
    [] l = "i" -> Signed(unpacku32(b), Byte4)
    [] l = "I" -> unpacku32(b)
    [] l = "q" -> Signed(unpacku64(b), Byte8)
    [] l = "Q" -> unpacku64(b)

\* TRIPPACK_MAX_VAR, TRIPPACK_MAX_DVAR
MaxVar == [V |-> 4, W |-> 8, b |-> 4]

Zeros == [k \in 1..Block |-> 0]

\* The values of a letter's arguments.  Data is so short that i + 1 + rlen, which
\* is added to size in 32 bits, does not wrap.
FieldRange(l) ==
  CASE l = "c" -> (-(Byte \div 2))..(Byte \div 2 - 1)
    [] l = "C" -> 0..(Byte - 1)
    [] l = "h" -> (-(Byte2 \div 2))..(Byte2 \div 2 - 1)
    [] l = "H" -> 0..(Byte2 - 1)
    [] l = "i" -> (-(Byte4 \div 2))..(Byte4 \div 2 - 1)
    [] l \in {"I", "V"} -> 0..(Byte4 - 1)
    [] l = "q" -> (-(Byte8 \div 2))..(Byte8 \div 2 - 1)
    [] l \in {"Q", "W"} -> 0..(Byte8 - 1)
    [] l = "b" -> {v \in Seq(0..(Byte - 1)) : Len(v) < Byte4 - 1 - MaxVar[l]}
    [] l \in Blocks -> [1..Block -> 0..(Byte - 1)]
    [] OTHER -> {"none"}

ASSUME ValuesAreInRange == \A l \in CanPack : \A v \in Values(l) : v \in FieldRange(l)

\* Mutant: the byte in front of a variable integer is not counted.
Counted_NoPrefix(l, v) ==
  CASE l \in Fixed -> Width[l]
    [] l \in {"V", "W"} -> _trip_uvar_len(v)
    [] l = "b" -> _trip_uvar_len(Len(v)) + 1 + Len(v)
    [] l \in Blocks \cup {"o", "S"} -> Block
    [] OTHER -> 0

\* What trip_pack adds to size for a letter, before it compares it with cap.
Counted(l, v) ==
  CASE l \in Fixed -> Width[l]
    [] l \in {"V", "W"} -> _trip_uvar_len(v) + 1
    [] l = "b" -> _trip_uvar_len(Len(v)) + 1 + Len(v)
    [] l \in Blocks \cup {"o", "S"} -> Block
    [] OTHER -> 0

\* What trip_pack writes for a letter where its buf points, which it moves behind
\* it; the bytes of a seal stay as they are until 'O' makes them zeros, and nobody
\* looks at them before.
Packed(l, v) ==
  CASE l \in {"c", "C"} -> <<v % Byte>>
    [] l \in {"h", "H"} -> packi16(v)
    [] l \in {"i", "I"} -> packi32(v)
    [] l \in {"q", "Q"} -> packi64(v)
    [] l \in {"V", "W"} -> PackVar(v)
    [] l = "b"          -> PackVar(Len(v)) \o v
    [] l \in Blocks     -> v
    [] l \in {"o", "S"} -> Zeros
    [] l \in {"O", "e", "E", "s"} -> <<>>

\* Buffer b with the bytes of p behind its first n.
Written(b, n, p) ==
  [k \in 1..(IF n + Len(p) > Len(b) THEN n + Len(p) ELSE Len(b)) |->
     IF k \in (n + 1)..(n + Len(p)) THEN p[k - n] ELSE b[k]]

\* Mutant: the byte in front of a variable integer is not counted.
LetterLen_NoPrefix(l) ==
  CASE l \in Fixed -> Width[l]
    [] l \in {"V", "W"} -> MaxVar[l]
    [] l \in Blocks \cup {"o", "e", "s"} -> Block
    [] OTHER -> 0

\* What trip_pack_len adds for a letter.
LetterLen(l) ==
  CASE l \in Fixed -> Width[l]
    [] l \in {"V", "W"} -> 1 + MaxVar[l]
    [] l \in Blocks \cup {"o", "e", "s"} -> Block
    [] OTHER -> 0

trip_pack_len(f) ==
  LET added[k \in 0..Len(f)] == IF k = 0 THEN 0 ELSE added[k - 1] + LetterLen(f[k])
  IN  added[Len(f)]
-----------------------------------------------------------------------------
Init ==
  /\ phase = "pack"
  /\ format \in Formats
  /\ args = <<>>
  /\ cap \in Caps
  /\ size = 0
  /\ buf = <<>>
  /\ put = 0
  /\ cryptstart = 0
  /\ blen = 0
  /\ len = 0
  /\ at = 0
  /\ out = <<>>

\* trip_pack, at the letter after those that are done.

PackLetter == format[Len(args) + 1]

Packing == phase = "pack" /\ Len(args) < Len(format)

\* 'O' makes zeros of the seal at cryptstart, without counting them.
PackField ==
  /\ Packing
  /\ PackLetter \in CanPack
  /\ \E v \in Values(PackLetter) :
       /\ size + Counted(PackLetter, v) <= cap
       /\ args' = Append(args, v)
       /\ size' = size + Counted(PackLetter, v)
       /\ buf' = IF PackLetter = "O" THEN Written(buf, cryptstart, Zeros)
                                   ELSE Written(buf, put, Packed(PackLetter, v))
       /\ put' = put + Len(Packed(PackLetter, v))
  /\ cryptstart' = IF PackLetter \in {"o", "e"} THEN put ELSE cryptstart
  /\ UNCHANGED <<phase, format, cap, blen, len, at, out>>

\* No room for the field, or a letter that is not known.
PackFails ==
  /\ Packing
  /\ \/ /\ PackLetter \in CanPack
        /\ \E v \in Values(PackLetter) : size + Counted(PackLetter, v) > cap
     \/ PackLetter \notin CanPack
  /\ size' = NPOS
  /\ phase' = "done"
  /\ UNCHANGED <<format, args, cap, buf, put, cryptstart, blen, len, at, out>>

\* The packet is sent and arrives, or the beginning of it does.
Arrive ==
  /\ phase = "pack"
  /\ Len(args) = Len(format)
  /\ phase' = "unpack"
  /\ blen' \in 0..size
  /\ UNCHANGED <<format, args, cap, size, buf, put, cryptstart, len, at, out>>

\* trip_unpack, at the letter after those that are done.

UnpackLetter == format[Len(out) + 1]

Unpacking == phase = "unpack" /\ Len(out) < Len(format)

\* The next n bytes, and those of a variable integer.
Bytes(n) == SubSeq(buf, at + 1, at + n)

VarLen == 1 + buf[at + 1]

VarAt == VarValue(Tail(Bytes(VarLen)))

VarFits(l) ==
  len + 1 <= blen /\ buf[at + 1] <= MaxVar[l] /\ len + VarLen <= blen

\* Mutant: the byte in front of a variable integer is not counted.
FieldLen_NoPrefix(l) ==
  CASE l \in Fixed -> Width[l]
    [] l \in {"V", "W"} -> VarLen - 1
    [] l = "b" -> VarLen + VarAt
    [] l \in Blocks \cup {"o"} -> Block
    [] l = "O" -> 0

\* How many bytes the field takes.
FieldLen(l) ==
  CASE l \in Fixed -> Width[l]
    [] l \in {"V", "W"} -> VarLen
    [] l = "b" -> VarLen + VarAt
    [] l \in Blocks \cup {"o"} -> Block
    [] l = "O" -> 0

Fits(l) ==
  /\ l \in CanUnpack
  /\ l \in DOMAIN MaxVar => VarFits(l)
  /\ len + FieldLen(l) <= blen

FieldValue(l) ==
  CASE l \in Fixed -> FixedValue(l, Bytes(Width[l]))
    [] l \in {"V", "W"} -> VarAt
    [] l = "b" -> SubSeq(buf, at + VarLen + 1, at + FieldLen(l))
    [] l \in Blocks -> Bytes(Block)
    [] l \in {"o", "O"} -> "none"

\* buf is left at the data, which is not copied.
Passed(l) == IF l = "b" THEN VarLen ELSE FieldLen(l)

UnpackField ==
  /\ Unpacking
  /\ Fits(UnpackLetter)
  /\ out' = Append(out, FieldValue(UnpackLetter))
  /\ len' = len + FieldLen(UnpackLetter)
  /\ at' = at + Passed(UnpackLetter)
  /\ UNCHANGED <<phase, format, args, cap, size, buf, put, cryptstart, blen>>

UnpackFails ==
  /\ Unpacking
  /\ ~Fits(UnpackLetter)
  /\ len' = NPOS
  /\ phase' = "done"
  /\ UNCHANGED <<format, args, cap, size, buf, put, cryptstart, blen, at, out>>

Unpacked ==
  /\ phase = "unpack"
  /\ Len(out) = Len(format)
  /\ phase' = "done"
  /\ UNCHANGED <<format, args, cap, size, buf, put, cryptstart, blen, len, at, out>>

Next == PackField \/ PackFails \/ Arrive \/ UnpackField \/ UnpackFails \/ Unpacked

Spec == Init /\ [][Next]_vars

-----------------------------------------------------------------------------
(* Correctness.                                                            *)

\* A value whose length or size takes more than one byte.
IsLong(l, v) ==
  \/ l \in {"V", "W"} /\ v >= Byte
  \/ l = "b" /\ Len(v) >= Byte

\* Whether the k-th field is data after which buf is not where len is.
LeavesData(k) == format[k] = "b" /\ args[k] # <<>>

\* What trip_pack counts is what it writes, whatever is written out of turn by 'O',
\* and is in its buffer; trip_unpack counts no less than it has read, and no more
\* than has arrived (pack.c:332-352, 642-713).
InBounds ==
  /\ Len(buf) <= cap
  /\ size # NPOS => size = put /\ put = Len(buf)
  /\ blen <= put
  /\ len <= blen
  /\ len # NPOS => at <= len

\* Every field that is read has the value it was written with, whatever is before
\* and behind it, but for variable integers of more than one byte, and for what
\* follows data (pack.c:53-180, 603-871).
FieldsSurvive ==
  phase \in {"unpack", "done"} =>
    \A k \in 1..Len(out) :
      /\ ~IsLong(format[k], args[k]) /\ format[k] # "S"
      /\ \A j \in 1..(k - 1) : ~LeavesData(j)
      => out[k] = args[k]

\* A packet that was cut short is not taken for a whole one, and a whole one is
\* read to its end: the test "olen != len" (conn.c:508, 579) tells them apart.
CutIsRefused ==
  /\ phase = "done" /\ size # NPOS
  /\ \A k \in 1..Len(format) :
       /\ format[k] \in CanUnpack
       /\ LeavesData(k) => k = Len(format) /\ ~IsLong("b", args[k])
  => len = IF blen = size THEN size ELSE NPOS

\* A buffer of trip_pack_len bytes is large enough for whatever values there are,
\* if there is no data, whose length it cannot know (pack.c:196-200).
PackLenIsEnough ==
  /\ size = NPOS
  /\ \A k \in 1..Len(format) : format[k] \in CanPack \ {"b"}
  => cap < trip_pack_len(format)
=============================================================================
