----------------------------- MODULE ProtoWire -----------------------------
(***************************************************************************)
(* The wire format as the generated code reads and writes it               *)
(* (types/*.pb.go).  The code of the five files is the same up to names:   *)
(* this module has it once, and takes what differs from message to message *)
(* from the tables of Messages.                                            *)
(*                                                                         *)
(* A buffer is a sequence of bytes.  A message is a record; a string, the  *)
(* text of a decimal and other opaque contents are sequences of bytes, a   *)
(* pointer to a message is a sequence of length 0 (nil) or 1, and a        *)
(* repeated field is a sequence.  Words have WordBits bits (64 in the      *)
(* code), and the types int32 and uint32 have half of that.                *)
(***************************************************************************)
EXTENDS Messages, Integers, Sequences, FiniteSets

CONSTANTS
  WordBits,        \* the bits of uint64 and int: 64
  Texts,           \* what the text of a decimal or an integer may be
  YearOne,         \* the seconds of the zero value of time.Time, as a word
  YearTenThousand, \* the seconds of the first time that is too late
  NanosPerSecond   \* 10^9

ASSUME ProtoWireAssumption ==
  /\ WordBits \in {n \in 8..64 : n % 2 = 0}
  /\ Texts \subseteq Seq(0..255) \ {<<>>}
  /\ YearOne \in (2^(WordBits - 1))..(2^WordBits - 1)
  /\ YearTenThousand \in 1..(2^(WordBits - 1) - 1)
  /\ NanosPerSecond \in 2..(2^(WordBits \div 2 - 1) - 1)

HalfBits == WordBits \div 2
Wrap(x, bits) == x % 2^bits
Signed(x, bits) == IF x >= 2^(bits - 1) THEN x - 2^bits ELSE x

VarintKinds == {"uint64", "uint32", "enum", "bool"}

WireType(kind) == IF kind \in VarintKinds THEN 0 ELSE 2

\* The value of a message before Unmarshal: the zero value of its Go type.
RECURSIVE Zero(_)
Zero(msg) ==
  LET cases == UnmarshalTable[msg]
      zero(f) == CASE f.kind \in {"uint64", "uint32", "enum"} -> 0
                   [] f.kind = "bool" -> FALSE
                   [] f.kind = "embedded" -> Zero(f.type)
                   [] f.kind = "time" -> [Seconds |-> YearOne, Nanos |-> 0]
                   [] OTHER -> <<>>
  IN  [name \in {f.name : f \in cases} |->
         zero(CHOOSE f \in cases : f.name = name)]

-----------------------------------------------------------------------------
(***************************************************************************)
(* Writing.                                                                *)
(***************************************************************************)

\* Mutant: the loop also stops at the first number of eight bits.
RECURSIVE EncodeVarintTooShort(_)
EncodeVarintTooShort(v) ==
  IF v <= 128 THEN <<v>> ELSE <<128 + (v % 128)>> \o EncodeVarintTooShort(v \div 128)

RECURSIVE EncodeVarint(_)
EncodeVarint(v) ==
  IF v < 128 THEN <<v>> ELSE <<128 + (v % 128)>> \o EncodeVarint(v \div 128)

\* (bits.Len64(x|1) + 6) / 7
Sov(v) ==
  LET bitLen == CHOOSE n \in 1..WordBits :
                  2^n > v /\ (n > 1 => 2^(n - 1) <= v)
  IN  (bitLen + 6) \div 7

\* The text of a decimal that was never set is that of zero.
TextOfZero == <<48>>
TextOf(x) == IF x = <<>> THEN TextOfZero ELSE x

LengthPrefixed(tag, bytes) == <<tag>> \o EncodeVarint(Len(bytes)) \o bytes

\* Mutant: the elements are written in the order of the loop, which is from the
\* end of the buffer to its beginning.
RECURSIVE ConcatReversed(_)
ConcatReversed(chunks) ==
  IF chunks = <<>> THEN <<>> ELSE ConcatReversed(Tail(chunks)) \o Head(chunks)

\* The elements of a repeated field are written from the last to the first into
\* a buffer that is filled from its end.
RECURSIVE Concat(_)
Concat(chunks) ==
  IF chunks = <<>> THEN <<>> ELSE Head(chunks) \o Concat(Tail(chunks))

RECURSIVE Marshal(_, _)
MarshalField(f, x) ==
  CASE f.kind \in {"uint64", "uint32", "enum"} ->
         IF x = 0 THEN <<>> ELSE <<f.key>> \o EncodeVarint(Wrap(x, WordBits))
    [] f.kind = "bool" -> IF x THEN <<f.key, 1>> ELSE <<>>
    [] f.kind = "bytes" -> IF x = <<>> THEN <<>> ELSE LengthPrefixed(f.key, x)
    [] f.kind = "custom" -> LengthPrefixed(f.key, TextOf(x))
    [] f.kind \in {"embedded", "time"} ->
         LengthPrefixed(f.key, Marshal(f.type, x))
    [] f.kind \in {"pointer", "repeated", "times"} ->
         Concat([i \in 1..Len(x) |->
                   LengthPrefixed(f.key, Marshal(f.type, x[i]))])

Marshal(msg, v) ==
  LET fields == MarshalTable[msg]
  IN  Concat([i \in 1..Len(fields) |->
                MarshalField(fields[i], v[fields[i].name])])

\* The length of the buffer that Marshal allocates before it writes: what Size
\* adds up, field by field, from a table of its own.
RECURSIVE Size(_, _)
Size(msg, v) ==
  LET fields == SizeTable[msg]
      delimited(f, l) == f.key + l + Sov(l)
      size(f, x) ==
        CASE f.kind \in {"uint64", "uint32", "enum"} ->
               IF x = 0 THEN 0 ELSE f.key + Sov(Wrap(x, WordBits))
          [] f.kind = "bool" -> IF x THEN f.key + 1 ELSE 0
          [] f.kind = "bytes" -> IF x = <<>> THEN 0 ELSE delimited(f, Len(x))
          [] f.kind = "custom" -> delimited(f, Len(TextOf(x)))
          [] f.kind \in {"embedded", "time"} -> delimited(f, Size(f.type, x))
          [] f.kind \in {"pointer", "repeated", "times"} ->
               LET sum[n \in 0..Len(x)] ==
                     IF n = 0 THEN 0
                     ELSE sum[n - 1] + delimited(f, Size(f.type, x[n]))
               IN  sum[Len(x)]
      total[n \in 0..Len(fields)] ==
        IF n = 0 THEN 0
        ELSE total[n - 1] + size(fields[n], v[fields[n].name])
  IN  total[Len(fields)]

-----------------------------------------------------------------------------
(***************************************************************************)
(* Reading.  A reader returns a status, a value and the number of bytes    *)
(* read so far (iNdEx).  The status is "panic" where the code would slice  *)
(* the buffer outside of its bounds.                                       *)
(***************************************************************************)
Read(val, at) == [status |-> "ok", val |-> val, at |-> at]
Failed(status) == [status |-> status, val |-> 0, at |-> 0]
Error == Failed("error")

RECURSIVE VarintFrom(_, _, _, _, _)
VarintFrom(data, at, shift, acc, bits) ==
  IF shift >= WordBits \/ at >= Len(data) THEN Error
  ELSE LET b == data[at + 1]
           val == Wrap(acc + (b % 128) * 2^shift, bits)
       IN  IF b < 128 THEN Read(val, at + 1)
           ELSE VarintFrom(data, at + 1, shift + 7, val, bits)

Varint(data, at, bits) == VarintFrom(data, at, 0, 0, bits)

\* Mutant: the sum that overflows is not recognized.
EndOfPayloadUnchecked(at, length, l) ==
  LET post == Signed(Wrap(at + length, WordBits), WordBits)
  IN  IF Signed(length, WordBits) < 0 \/ post > l THEN Error ELSE Read(0, post)

\* Mutant: a payload that is cut off is taken as it is.
EndOfPayloadClipped(at, length, l) ==
  LET post == Signed(Wrap(at + length, WordBits), WordBits)
  IN  IF Signed(length, WordBits) < 0 \/ post < 0 THEN Error
      ELSE IF post > l THEN Read(0, l)
      ELSE Read(0, post)

\* postIndex, with the three checks that the length it is computed from passes.
EndOfPayload(at, length, l) ==
  LET post == Signed(Wrap(at + length, WordBits), WordBits)
  IN  IF Signed(length, WordBits) < 0 \/ post < 0 \/ post > l THEN Error
      ELSE Read(0, post)

\* The bytes of data from at to end.
Slice(data, at, end) ==
  IF end.status # "ok" THEN end
  ELSE IF end.at < at \/ end.at > Len(data) THEN Failed("panic")
  ELSE Read(SubSeq(data, at + 1, end.at), end.at)

PayloadOf(data, length) ==
  IF length.status # "ok" THEN length
  ELSE Slice(data, length.at, EndOfPayload(length.at, length.val, Len(data)))

\* A length and so many bytes.
Payload(data, at) == PayloadOf(data, Varint(data, at, WordBits))

\* The field with this tag, and with this number behind it if it has one, is
\* skipped.  Groups, which may be nested, are skipped as a whole.
RECURSIVE SkipFrom(_, _, _)
SkipField(data, depth, tag, number) ==
  LET type == tag.val % 8
      next == CASE type = 0 -> number.at
                [] type = 1 -> tag.at + 8
                [] type = 2 ->
                     Signed(Wrap(number.at + number.val, WordBits), WordBits)
                [] type = 5 -> tag.at + 4
                [] OTHER -> tag.at
      inside == CASE type = 3 -> depth + 1
                  [] type = 4 -> depth - 1
                  [] OTHER -> depth
  IN  IF \/ tag.status # "ok"
         \/ type \in {0, 2} /\ number.status # "ok"
         \/ type = 2 /\ Signed(number.val, WordBits) < 0
         \/ type \in {6, 7}
         \/ inside < 0
         \/ next < 0
        THEN Error
        ELSE IF inside = 0 THEN Read(0, next) ELSE SkipFrom(data, next, inside)

SkipTagged(data, depth, tag) ==
  SkipField(data, depth, tag, Varint(data, tag.at, WordBits))

\* skipFundraising, skipTx, ...: where the field that begins at at ends.
SkipFrom(data, at, depth) ==
  IF at >= Len(data) THEN Error
  ELSE SkipTagged(data, depth, Varint(data, at, WordBits))

RECURSIVE UnmarshalFrom(_, _, _, _)
Unmarshal(msg, v, data) == UnmarshalFrom(msg, v, data, 0)

NumberField(kind, number) ==
  IF number.status # "ok" THEN number
  ELSE CASE kind = "bool" -> Read(number.val # 0, number.at)
         [] kind = "enum" -> Read(Signed(number.val, HalfBits), number.at)
         [] OTHER -> number

\* Submessages are merged into what is there, times are overwritten.
MergedInto(f, x) ==
  CASE f.kind = "embedded" -> x
    [] f.kind = "pointer" /\ x # <<>> -> x[1]
    [] OTHER -> Zero(f.type)

\* A time is in the years 1 to 9999, and its nanoseconds are less than a second.
ValidTimestamp(t) ==
  /\ Signed(t.Seconds, WordBits) >= Signed(YearOne, WordBits)
  /\ Signed(t.Seconds, WordBits) < YearTenThousand
  /\ t.Nanos \in 0..(NanosPerSecond - 1)

MessageField(f, x, inner, at) ==
  IF inner.status # "ok" THEN inner
  ELSE IF f.type = "Timestamp" /\ ~ValidTimestamp(inner.val) THEN Error
  ELSE Read(CASE f.kind \in {"embedded", "time"} -> inner.val
              [] f.kind = "pointer" -> <<inner.val>>
              [] f.kind \in {"repeated", "times"} -> Append(x, inner.val),
            at)

PayloadField(f, x, payload) ==
  IF payload.status # "ok" \/ f.kind = "bytes" THEN payload
  ELSE IF f.kind = "custom"
    THEN IF payload.val = <<>> THEN Read(x, payload.at)
         ELSE IF payload.val \in Texts THEN payload
         ELSE Error
  ELSE MessageField(f, x, Unmarshal(f.type, MergedInto(f, x), payload.val),
                    payload.at)

\* The field f, whose present value is x, from the bytes behind its tag.
UnmarshalField(f, x, data, at) ==
  IF f.kind \in VarintKinds
    THEN NumberField(f.kind,
           Varint(data, at, IF f.kind \in {"uint32", "enum"} THEN HalfBits
                            ELSE WordBits))
    ELSE PayloadField(f, x, Payload(data, at))

\* The rest of data, behind an unknown field and behind the field f.
AfterSkipped(msg, v, data, skipped) ==
  IF skipped.status # "ok" \/ skipped.at > Len(data) THEN Error
  ELSE UnmarshalFrom(msg, v, data, skipped.at)

AfterField(msg, v, data, f, field) ==
  IF field.status # "ok" THEN field
  ELSE UnmarshalFrom(msg, [v EXCEPT ![f.name] = field.val], data, field.at)

KnownField(msg, v, data, f, tag) ==
  IF tag.val % 8 # WireType(f.kind) THEN Error
  ELSE AfterField(msg, v, data, f, UnmarshalField(f, v[f.name], data, tag.at))

UnmarshalTagged(msg, v, data, at, tag) ==
  LET fieldNum == Signed(Wrap(tag.val \div 8, HalfBits), HalfBits)
      cases == {f \in UnmarshalTable[msg] : f.key = fieldNum}
  IN  IF tag.status # "ok" THEN tag
      ELSE IF tag.val % 8 = 4 \/ fieldNum <= 0 THEN Error
      ELSE IF cases = {} THEN AfterSkipped(msg, v, data, SkipFrom(data, at, 0))
      ELSE KnownField(msg, v, data, CHOOSE f \in cases : TRUE, tag)

UnmarshalFrom(msg, v, data, at) ==
  IF at >= Len(data) THEN Read(v, at)
  ELSE UnmarshalTagged(msg, v, data, at, Varint(data, at, WordBits))
=============================================================================
