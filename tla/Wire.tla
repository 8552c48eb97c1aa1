--------------------------------- MODULE Wire ---------------------------------
(***************************************************************************)
(* The primitives of package wire (wire/common.go, wire/blockheader.go) as *)
(* operators over sequences of bytes.                                      *)
(*                                                                         *)
(* A byte has Base values: 256 in the code.  Everything that is 256, 0xfd, *)
(* 0xfe, 0xff, 2^16 or 2^32 there is written with Base here, so a small    *)
(* Base brings the boundaries of the encodings into the reach of TLC.      *)
(*                                                                         *)
(* An io.Reader is the sequence of the bytes still to be read.  A reader   *)
(* returns [ok, val, rest]; after a failure nothing more is read from it,  *)
(* so what is left of the stream does not matter then.  The io.Writer is a *)
(* buffer, which does not fail.  The free list of eight-byte buffers of    *)
(* binarySerializer is left out: every function gives its buffer back      *)
(* before it returns.                                                      *)
(***************************************************************************)
EXTENDS Integers, Sequences, SequencesExt

CONSTANTS
  Base,              \* the number of values of a byte
  HashSize,          \* chainhash.HashSize
  MaxMessagePayload

ASSUME WireAssumption ==
  /\ Base \in Nat /\ Base >= 6 /\ Base % 2 = 0
  /\ HashSize \in Nat \ {0}
  /\ MaxMessagePayload \in Nat

Byte == 0 .. Base - 1

Found(val, rest) == [ok |-> TRUE, val |-> val, rest |-> rest]
Failed           == [ok |-> FALSE, val |-> 0, rest |-> <<>>]

\* io.ReadFull with a buffer of n bytes.
ReadFull(s, n) ==
  IF Len(s) < n
    THEN Failed
    ELSE Found(SubSeq(s, 1, n), SubSeq(s, n + 1, Len(s)))

-------------------------------------------------------------------------------
(* Integers of n bytes, little endian.                                     *)

\* Base to the power of n.
Power(n) ==
  LET p[i \in 0 .. n] == IF i = 0 THEN 1 ELSE Base * p[i - 1]
  IN  p[n]

Put(n, v) == [i \in 1 .. n |-> ((v % Power(n)) \div Power(i - 1)) % Base]

Value(s) ==
  LET v[i \in 0 .. Len(s)] == IF i = 0 THEN 0 ELSE v[i - 1] + Power(i - 1) * s[i]
  IN  v[Len(s)]

Uint(s, n) ==
  LET Converted(r) == IF r.ok THEN Found(Value(r.val), r.rest) ELSE Failed
  IN  Converted(ReadFull(s, n))

\* The conversions int32(rv) and int64(rv).
Signed(n, v) == IF 2 * v >= Power(n) THEN v - Power(n) ELSE v

-------------------------------------------------------------------------------
(* readElement and writeElement: the Go type selects the width and the     *)
(* conversion.                                                             *)

ElementSize ==
  [int32 |-> 4, uint32 |-> 4, int64 |-> 8, uint64 |-> 8, bool |-> 1,
   uint32Time |-> 4, int64Time |-> 8, checksum |-> 4, command |-> 12,
   address |-> 16, Hash |-> HashSize, ServiceFlag |-> 8, InvType |-> 4,
   BitcoinNet |-> 4, BloomUpdateType |-> 1, RejectCode |-> 1]

ByteArrays == {"checksum", "command", "address", "Hash"}

\* A Go value of one of these types: arrays are their bytes, times are seconds.
Element(type, s) ==
  CASE type \in ByteArrays -> s
    [] type \in {"int32", "int64", "int64Time"} -> Signed(Len(s), Value(s))
    [] type = "bool" -> Value(s) # 0
    [] OTHER -> Value(s)

ReadElement(s, type) ==
  LET Converted(r) == IF r.ok THEN Found(Element(type, r.val), r.rest) ELSE Failed
  IN  Converted(ReadFull(s, ElementSize[type]))

\* There is no case for the two types of time: their users convert first.
WriteElement(type, v) ==
  CASE type \in ByteArrays -> v
    [] type = "bool" -> IF v THEN <<1>> ELSE <<0>>
    [] OTHER -> Put(ElementSize[type], v)

ReadElements(s, types) ==
  LET Extended(r, e) == IF r.ok /\ e.ok THEN Found(Append(r.val, e.val), e.rest) ELSE Failed
      Step(r, type) == Extended(r, ReadElement(r.rest, type))
      read[i \in 0 .. Len(types)] ==
        IF i = 0
          THEN Found(<<>>, s)
          ELSE Step(read[i - 1], types[i])
  IN  read[Len(types)]

WriteElements(types, vals) ==
  FlattenSeq([i \in DOMAIN types |-> WriteElement(types[i], vals[i])])

-------------------------------------------------------------------------------
(* Variable length integers, strings and byte arrays.                      *)

\* Mutant: the least value of a discriminant is off by one.
WideLoose(discriminant) ==
  CASE discriminant = Base - 3 -> [size |-> 2, min |-> Base - 4]
    [] discriminant = Base - 2 -> [size |-> 4, min |-> Power(2)]
    [] discriminant = Base - 1 -> [size |-> 8, min |-> Power(4)]

\* The discriminants 0xfd, 0xfe and 0xff: the bytes that follow, and the least
\* value that needs as many.
Wide(discriminant) ==
  CASE discriminant = Base - 3 -> [size |-> 2, min |-> Base - 3]
    [] discriminant = Base - 2 -> [size |-> 4, min |-> Power(2)]
    [] discriminant = Base - 1 -> [size |-> 8, min |-> Power(4)]

\* A value that needs fewer bytes is refused.
Canonical(discriminant, r) ==
  IF r.ok /\ r.val >= Wide(discriminant).min THEN r ELSE Failed

ReadVarInt(s) ==
  LET Rest(d) ==
        IF ~d.ok \/ d.val < Base - 3
          THEN d
          ELSE Canonical(d.val, Uint(d.rest, Wide(d.val).size))
  IN  Rest(Uint(s, 1))

WriteVarInt(v) ==
  CASE v < Base - 3 -> Put(1, v)
    [] v >= Base - 3 /\ v < Power(2) -> <<Base - 3>> \o Put(2, v)
    [] v >= Power(2) /\ v < Power(4) -> <<Base - 2>> \o Put(4, v)
    [] v >= Power(4) -> <<Base - 1>> \o Put(8, v)

VarIntSerializeSize(v) ==
  CASE v < Base - 3 -> 1
    [] v >= Base - 3 /\ v < Power(2) -> 3
    [] v >= Power(2) /\ v < Power(4) -> 5
    [] v >= Power(4) -> 9

ReadVarBytes(s, maxAllowed) ==
  LET Sized(count) ==
        IF count.ok /\ count.val <= maxAllowed
          THEN ReadFull(count.rest, count.val)
          ELSE Failed
  IN  Sized(ReadVarInt(s))

WriteVarBytes(bytes) == WriteVarInt(Len(bytes)) \o bytes

\* A string is its bytes.
ReadVarString(s) == ReadVarBytes(s, MaxMessagePayload)

-------------------------------------------------------------------------------
(* Block headers: <<Version, PrevBlock, MerkleRoot, Timestamp, Bits, Nonce>> *)
(* with the timestamp in seconds.                                          *)

writeBlockHeader(bh) ==
  WriteElements(<<"int32", "Hash", "Hash", "uint32", "uint32", "uint32">>, bh)

readBlockHeader(s) ==
  ReadElements(s, <<"int32", "Hash", "Hash", "uint32Time", "uint32", "uint32">>)
-------------------------------------------------------------------------------
(* The round trips of the primitives, over all short streams and over the  *)
(* boundary values; module MsgTx adds the streams of its decoders.         *)

Streams(n) == UNION {[1 .. k -> Byte] : k \in 0 .. n}

Edges == UNION {{x - 1, x, x + 1} : x \in {1, Base - 3, Power(2), Power(4) \div 2, Power(4)}}

\* The first bytes of a stream are a variable length integer in its only form.
VarIntFirst(s) == LET r == ReadVarInt(s) IN r.ok => WriteVarInt(r.val) \o r.rest = s

VarIntEdges ==
  \A v \in Edges :
    /\ Len(WriteVarInt(v)) = VarIntSerializeSize(v)
    /\ \A t \in Streams(1) :
         ReadVarInt(WriteVarInt(v) \o t) = Found(v, t)

VarIntStreams == \A s \in Streams(5) : VarIntFirst(s)

\* The first bytes of a stream, if there are enough of them, are a block header.
HeaderFirst(s) ==
  LET r == readBlockHeader(s)
  IN  /\ r.ok <=> Len(s) >= 16 + 2 * HashSize
      /\ r.ok => writeBlockHeader(r.val) \o r.rest = s

HeaderEdges ==
  LET half == Power(4) \div 2
      hash == [i \in 1 .. HashSize |-> Base - 1]
      zero == [i \in 1 .. HashSize |-> 0]
  IN  \A version \in {-half, -1, 0, half - 1}, time \in {0, half, Power(4) - 1} :
        LET bh == <<version, hash, zero, time, 1, Power(4) - 1>>
        IN  readBlockHeader(writeBlockHeader(bh)) = Found(bh, <<>>)
===============================================================================
