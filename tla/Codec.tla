------------------------------- MODULE Codec -------------------------------
(***************************************************************************)
(* A message on its way: its sender sets some fields and marshals it; on   *)
(* the way it may be cut off, and a sender of a later version may have     *)
(* added fields that the receiver does not know.  Or the bytes come from   *)
(* anywhere: a buffer is filled with chunks that look like the parts of a  *)
(* message.  The receiver calls Unmarshal.                                 *)
(***************************************************************************)
EXTENDS ProtoWire

CONSTANTS
  SentMessages,   \* the messages that are marshalled
  NoiseMessages,  \* the messages that arbitrary buffers are read as
  MaxFieldsSet,   \* bound: the number of fields that are set
  Unknown,        \* fields that no message knows, as bytes
  Chunks,         \* what arbitrary buffers consist of
  MaxChunks       \* bound: the number of chunks

ASSUME CodecAssumption ==
  /\ SentMessages \cup NoiseMessages \subseteq DOMAIN MarshalTable
  /\ DOMAIN MarshalTable = DOMAIN UnmarshalTable
  /\ DOMAIN MarshalTable = DOMAIN SizeTable

VARIABLES
  msg,     \* the message type
  count,   \* the number of fields that are set, or of chunks received
  value,   \* the message that is sent
  phase,   \* what happened to it
  wire     \* the buffer

vars == <<msg, count, value, phase, wire>>

\* A message with all fields set.
RECURSIVE Full(_)
SampleOf(f) ==
  CASE f.kind \in {"uint64", "uint32"} -> 128
    [] f.kind = "enum" -> -1
    [] f.kind = "bool" -> TRUE
    [] f.kind = "bytes" -> <<65, 10>>
    [] f.kind = "custom" -> CHOOSE t \in Texts : t # TextOfZero
    [] f.kind \in {"embedded", "time"} -> Full(f.type)
    [] f.kind = "pointer" -> <<Full(f.type)>>
    [] f.kind \in {"repeated", "times"} -> <<Full(f.type), Zero(f.type)>>

Full(m) ==
  LET cases == UnmarshalTable[m]
  IN  [name \in {f.name : f \in cases} |->
         IF m = "Timestamp" /\ name = "Nanos" THEN 1
         ELSE SampleOf(CHOOSE f \in cases : f.name = name)]

\* Values at the boundaries of each kind.
Samples(f) ==
  {SampleOf(f)} \cup
  CASE f.kind = "uint64" -> {1, 2^WordBits - 1}
    [] f.kind = "uint32" -> {1, 2^HalfBits - 1}
    [] f.kind = "enum" -> {1}
    [] f.kind = "custom" -> {TextOfZero}
    [] f.kind = "pointer" -> {<<Zero(f.type)>>}
    [] f.kind = "time" -> {Zero(f.type)}
    [] OTHER -> {}

Init ==
  /\ wire = <<>>
  /\ count = 0
  /\ \/ phase = "building" /\ msg \in SentMessages
     \/ phase = "noise" /\ msg \in NoiseMessages
  /\ value = Zero(msg)

SetField(f, x) ==
  /\ phase = "building"
  /\ value[f.name] = Zero(msg)[f.name]
  /\ count < MaxFieldsSet
  /\ count' = count + 1
  /\ value' = [value EXCEPT ![f.name] = x]
  /\ UNCHANGED <<msg, phase, wire>>

Send ==
  /\ phase = "building"
  /\ phase' = "sent"
  /\ wire' = Marshal(msg, value)
  /\ UNCHANGED <<msg, count, value>>

\* Where the bytes of the k-th field of the message begin.
Boundary(k) ==
  LET written == MarshalTable[msg]
  IN  Len(Concat([i \in 1..k |-> MarshalField(written[i],
                                              value[written[i].name])]))

AddUnknown(k, chunk) ==
  /\ phase = "sent"
  /\ phase' = "extended"
  /\ wire' = SubSeq(wire, 1, Boundary(k)) \o chunk
               \o SubSeq(wire, Boundary(k) + 1, Len(wire))
  /\ UNCHANGED <<msg, count, value>>

CutOff(n) ==
  /\ phase = "sent"
  /\ phase' = "cut"
  /\ wire' = SubSeq(wire, 1, n)
  /\ UNCHANGED <<msg, count, value>>

Receive(chunk) ==
  /\ phase = "noise"
  /\ count < MaxChunks
  /\ count' = count + 1
  /\ wire' = wire \o chunk
  /\ UNCHANGED <<msg, value, phase>>

Next ==
  \/ \E f \in UnmarshalTable[msg] : \E x \in Samples(f) : SetField(f, x)
  \/ Send
  \/ \E k \in 0..Len(MarshalTable[msg]), chunk \in Unknown :
       AddUnknown(k, chunk)
  \/ \E n \in 0..(Len(wire) - 1) : CutOff(n)
  \/ \E chunk \in Chunks : Receive(chunk)

Spec == Init /\ [][Next]_vars

-----------------------------------------------------------------------------
Received == Unmarshal(msg, Zero(msg), wire)

\* What a message is when it has been written and read: its unset decimals and
\* integers are zero.
RECURSIVE Normal(_, _)
Normal(m, v) ==
  LET cases == UnmarshalTable[m]
      normal(f, x) ==
        CASE f.kind = "custom" -> TextOf(x)
          [] f.kind = "embedded" -> Normal(f.type, x)
          [] f.kind \in {"pointer", "repeated"} ->
               [i \in 1..Len(x) |-> Normal(f.type, x[i])]
          [] OTHER -> x
  IN  [name \in DOMAIN v |->
         normal(CHOOSE f \in cases : f.name = name, v[name])]

ReadAs(r, v) == r.status = "ok" /\ r.val = v

\* A message that is read back from the store, a transaction or a genesis file is
\* the one that was written, whatever its fields, also when a later version of
\* the sender has put unknown fields anywhere between the known ones.
RoundTrip ==
  phase \in {"sent", "extended"} => ReadAs(Received, Normal(msg, value))

\* Marshal allocates a buffer of Size bytes and fills it from its end: it must
\* fit exactly, for Marshal panics when it is too small.  Size is generated apart
\* from it: a field that only one of the two knows makes them differ.
SizeIsExact == phase = "sent" => Size(msg, value) = Len(wire)

\* No buffer makes Unmarshal slice outside of it, whatever lengths it claims:
\* not even a length at the end of the range of int, which overflows postIndex.
UnmarshalNeverPanics == Received.status # "panic"

\* The values that a field may have when the message was cut off.
PartsOf(f, x) ==
  {Zero(msg)[f.name], x} \cup
  IF f.kind \in {"repeated", "times"}
    THEN {SubSeq(x, 1, i) : i \in 0..Len(x)} ELSE {}

ReadAsPart(r, v) ==
  r.status = "ok" =>
    \A f \in UnmarshalTable[msg] : r.val[f.name] \in PartsOf(f, v[f.name])

\* A message that is cut off is refused, or it was cut between two fields and
\* reads as the fields before the cut: no field is read as a part of itself.
CutOffIsNoticed ==
  phase = "cut" => ReadAsPart(Received, Normal(msg, value))

Survives(r) ==
  r.status = "ok" =>
    ReadAs(Unmarshal(msg, Zero(msg), Marshal(msg, r.val)), Normal(msg, r.val))

\* What a node has read from whatever bytes, it can write and read again: every
\* accepted message survives a round trip through the store.
AcceptedSurvives == Survives(Received)
=============================================================================
