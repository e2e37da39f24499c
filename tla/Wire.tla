-------------------------------- MODULE Wire --------------------------------
(***************************************************************************)
(* The wire format of coefficient vectors (via-protocol/src/wire/          *)
(* format.rs): Uncompressed, tag 0, and PrgCompressed, tag 1, whose body   *)
(* is verbatim and whose masks are drawn again from a seed.  A sender      *)
(* encodes what a sampler returned; a receiver decodes that, or any bytes  *)
(* whatever.                                                               *)
(*                                                                         *)
(* A u64 is WordLen bytes (8) and a usize has as many bits; no allocation  *)
(* exceeds IsizeMax bytes.                                                 *)
(***************************************************************************)
EXTENDS Sampling

CONSTANTS
  WordLen,  \* bytes of a u64 (8)
  SeedLen,  \* SEED_LEN (32)
  Packets   \* the byte strings a receiver may be handed

USize == 2 ^ Width
IsizeMax == 2 ^ (Width - 1) - 1

ASSUME WireAssumption ==
  /\ WordLen \in Nat \ {0} /\ SeedLen \in Nat
  /\ WordLen * ByteBits = Width
  /\ (1 + SeedLen) + WordLen <= IsizeMax
  /\ Packets \subseteq Seq(Byte)
  /\ \A p \in Packets : Len(p) <= IsizeMax

VARIABLES
  packet,  \* the bytes on the wire
  sent,    \* what its sender encoded, if there is one
  reply    \* what the last call of the codec returned

wireVars == <<packet, sent, reply>>

Formats == {"uncompressed", "compressed"}

Tag(format) == IF format = "uncompressed" THEN 0 ELSE 1

HeaderLen(format) == (IF format = "uncompressed" THEN 1 ELSE 1 + SeedLen) + WordLen

Ok(values) == [kind |-> "ok", values |-> values]
TooShort(needed, got) == [kind |-> "BufferTooShort", needed |-> needed, got |-> got]
UnknownTag(tag) == [kind |-> "UnknownFormatTag", tag |-> tag]
Panic == [kind |-> "panic"]
Todo == [kind |-> "todo"]
Pending == [kind |-> ""]

\* to_le_bytes.
LeBytes(w) == [k \in 1..WordLen |-> (w \div 2 ^ (ByteBits * (k - 1))) % 2 ^ ByteBits]

EncodeCoeffs(coeffs) == FlattenSeq([i \in 1..Len(coeffs) |-> LeBytes(coeffs[i])])

\* serialize: tag, count, coefficients; todo!() for PrgCompressed.
Serialize(format, values) ==
  IF format = "compressed" THEN Todo
  ELSE Ok(<<Tag(format)>> \o LeBytes(Len(values)) \o EncodeCoeffs(values))

\* Mutant: the coefficients are read as from_be_bytes.
DecodeBigEndian(buf, offset, count) ==
  [i \in 1..count |-> Word(Reverse(SubSeq(buf, (offset + (i - 1) * WordLen) + 1, offset + i * WordLen)))]

\* The loop of decode_coeffs_u64 over 0-based slices.
DecodeFrom(buf, offset, count) ==
  [i \in 1..count |-> Word(SubSeq(buf, (offset + (i - 1) * WordLen) + 1, offset + i * WordLen))]

\* decode_coeffs_u64: end is a usize, checked in debug builds and wrapped in
\* release builds, where an allocation too large for a Vec then panics.
DecodeCoeffs(buf, offset, count, checked) ==
  LET end == (offset + ((count * WordLen) % USize)) % USize
      overflows == offset + count * WordLen >= USize
  IN  IF checked /\ overflows THEN Panic
      ELSE IF Len(buf) < end THEN TooShort(end, Len(buf))
      ELSE IF count * WordLen > IsizeMax THEN Panic
      ELSE Ok(DecodeFrom(buf, offset, count))

\* deserialize of either format; bytes after the last coefficient are ignored.
Deserialize(format, buf, checked) ==
  IF buf = <<>> THEN TooShort(1, 0)
  ELSE IF buf[1] # Tag(format) THEN UnknownTag(buf[1])
  ELSE IF Len(buf) < HeaderLen(format) THEN TooShort(HeaderLen(format), Len(buf))
  ELSE LET count == Word(SubSeq(buf, HeaderLen(format) - WordLen + 1, HeaderLen(format)))
       IN  DecodeCoeffs(buf, HeaderLen(format), count, checked)

-----------------------------------------------------------------------------
WireInit == SamplingInit /\ packet = <<>> /\ sent = <<>> /\ reply = Pending

\* A sender encodes the words a sampler returned.
Send(format) ==
  /\ status = "returned" /\ Kind(call) = "uniform" /\ call.sampler # "rns_random"
  /\ Len(samples) * WordLen + HeaderLen(format) <= IsizeMax
  /\ LET r == Serialize(format, samples)
     IN  IF r = Todo THEN reply' = Todo /\ UNCHANGED <<packet, sent>>
         ELSE packet' = r.values /\ sent' = <<samples>> /\ reply' = Pending
  /\ UNCHANGED <<vars, samplingVars>>

\* A receiver is handed bytes before it has used its generator.
Arrive ==
  /\ status = "none" /\ counter = 0 /\ ~busy
  /\ packet' \in Packets
  /\ UNCHANGED <<vars, samplingVars, sent, reply>>

Receive(format) ==
  /\ packet = <<>> => counter = 0 /\ status = "none"
  /\ reply = Pending
  /\ \E checked \in BOOLEAN : reply' = Deserialize(format, packet, checked)
  /\ UNCHANGED <<vars, samplingVars, packet, sent>>

WireNext ==
  \/ packet = <<>> /\ reply = Pending /\ SamplingNext /\ UNCHANGED wireVars
  \/ packet = <<>> /\ reply = Pending /\ (Arrive \/ \E format \in Formats : Send(format))
  \/ \E format \in Formats : Receive(format)

WireSpec == WireInit /\ [][WireNext]_<<vars, samplingVars, wireVars>>

-----------------------------------------------------------------------------
(***************************************************************************)
(* Properties.                                                             *)
(***************************************************************************)

\* The number in n bytes of the packet after the first from.
Field(from, n) == Word(SubSeq(packet, from + 1, from + n))

\* The packet begins with the encoding of the values in the format.
Encodes(format, values) ==
  LET header == HeaderLen(format)
  IN  /\ Len(packet) >= header + Len(values) * WordLen
      /\ Field(0, 1) = Tag(format)
      /\ Field(header - WordLen, WordLen) = Len(values)
      /\ \A i \in 1..Len(values) : Field(header + (i - 1) * WordLen, WordLen) = values[i]

\* How many bytes the packet must have in the format, as far as it tells.
Needed(format) ==
  LET header == HeaderLen(format)
  IN  IF Len(packet) < header THEN header
      ELSE header + Field(header - WordLen, WordLen) * WordLen

\* What the answer r to a packet taken in the format may be.
Justified(format, r) ==
  CASE r.kind = "ok" -> Encodes(format, r.values)
    [] r.kind = "UnknownFormatTag" -> packet # <<>> /\ packet[1] = r.tag /\ r.tag # Tag(format)
    [] r.kind \in {"BufferTooShort", "panic"} ->
         /\ Len(packet) < Needed(format)
         /\ packet # <<>> => packet[1] = Tag(format)
         /\ Needed(format) < USize =>
              r = TooShort(IF packet = <<>> THEN 1 ELSE Needed(format), Len(packet))

\* Whatever bytes arrive, a receiver gets the vector they encode and no other,
\* or learns which tag it met, or is refused bytes that really are too few; if
\* a usize can hold how many there should be, it is told that number.  What a
\* sender encoded comes back to a receiver of its format
\* (WireFormat::deserialize).  How a packet is refused whose length a usize
\* cannot hold is the subject of ShortBufferTold.
DecodesOnlyEncodings ==
  reply.kind \notin {"", "todo"} =>
    /\ \E format \in Formats : Justified(format, reply)
    /\ sent # <<>> => reply = Ok(sent[1]) \/ reply = UnknownTag(0)

\* What format.rs documents of decode_coeffs_u64 and of deserialize:
\* "BufferTooShort if fewer than count * 8 bytes remain".
ShortBufferTold ==
  \A format \in Formats :
    (/\ reply.kind \notin {"", "todo", "UnknownFormatTag"}
     /\ packet # <<>> /\ packet[1] = Tag(format) /\ Len(packet) < Needed(format))
      => reply.kind = "BufferTooShort"
=============================================================================
