-------------------------------- MODULE MsgTx ---------------------------------
(***************************************************************************)
(* Transactions on the wire (wire/msgtx.go): BtcEncode and the sizes as    *)
(* operators, and BtcDecode as a process, because the decoders of a        *)
(* process share scriptPool, the free list of script buffers.              *)
(*                                                                         *)
(* A decoder reads a message into a MsgTx whose scripts are references to  *)
(* borrowed buffers, then copies them into one contiguous buffer and gives *)
(* the borrowed ones back.  A step ends where the pool has been used; what *)
(* lies between two uses concerns the decoder alone.  The MsgTx that is    *)
(* decoded into is an empty one, as its callers in this code make it.      *)
(***************************************************************************)
EXTENDS Wire

CONSTANTS
  Decoders,               \* goroutines that decode a message
  Inputs,                 \* per decoder: [tx, enc, bytes] it may be called with
  FreeListMaxItems,
  FreeListMaxScriptSize,
  MaxWitnessItemsPerInput,
  MaxWitnessItemSize,
  MaxBufs                 \* bound: script buffers alive at a time

ASSUME MsgTxAssumption ==
  /\ FreeListMaxItems \in Nat
  /\ FreeListMaxScriptSize \in Nat \ {0}
  /\ MaxWitnessItemsPerInput \in Nat
  /\ MaxWitnessItemSize \in Nat
  /\ MaxBufs \in Nat

WitnessFlag == 1

MaxTxInPerMessage  == (MaxMessagePayload \div (9 + HashSize)) + 1
MaxTxOutPerMessage == (MaxMessagePayload \div 9) + 1

-------------------------------------------------------------------------------
(* A transaction is [version, txIn, txOut, lockTime]; an input is [hash,   *)
(* index, script, witness, sequence], an output [value, script].           *)

\* The values of an integer of n bytes.
Unsigneds(n) == 0 .. Power(n) - 1
Ints(n)      == -(Power(n) \div 2) .. (Power(n) \div 2) - 1

\* A slice, whose length is a number of eight bytes.
Slices(S) == {s \in Seq(S) : Len(s) < Power(8)}

TxIns ==
  [hash : [1 .. HashSize -> Byte], index : Unsigneds(4), script : Slices(Byte),
   witness : Slices(Slices(Byte)), sequence : Unsigneds(4)]

TxOuts == [value : Ints(8), script : Slices(Byte)]

MsgTxs ==
  [version : Ints(4), txIn : Slices(TxIns), txOut : Slices(TxOuts),
   lockTime : Unsigneds(4)]

\* A decoder is called with any bytes; tx is a transaction to compare with.
ASSUME InputsAssumption ==
  \A d \in Decoders :
    Inputs[d] \subseteq [tx : MsgTxs, enc : {"base", "witness"}, bytes : Seq(Byte)]

HasWitness(tx) == \E i \in DOMAIN tx.txIn : tx.txIn[i].witness # <<>>

writeTxIn(ti) == ti.hash \o Put(4, ti.index) \o WriteVarBytes(ti.script) \o Put(4, ti.sequence)

WriteTxOut(to) == Put(8, to.value) \o WriteVarBytes(to.script)

writeTxWitness(wit) ==
  WriteVarInt(Len(wit)) \o FlattenSeq([j \in DOMAIN wit |-> WriteVarBytes(wit[j])])

\* BtcEncode, with or without the flag and the witnesses.
Encode(tx, doWitness) ==
  Put(4, tx.version)
    \o (IF doWitness THEN <<0, WitnessFlag>> ELSE <<>>)
    \o WriteVarInt(Len(tx.txIn))
    \o FlattenSeq([i \in DOMAIN tx.txIn |-> writeTxIn(tx.txIn[i])])
    \o WriteVarInt(Len(tx.txOut))
    \o FlattenSeq([i \in DOMAIN tx.txOut |-> WriteTxOut(tx.txOut[i])])
    \o (IF doWitness
          THEN FlattenSeq([i \in DOMAIN tx.txIn |-> writeTxWitness(tx.txIn[i].witness)])
          ELSE <<>>)
    \o Put(4, tx.lockTime)

BtcEncode(tx, enc) == Encode(tx, enc = "witness" /\ HasWitness(tx))

Total(f) == FoldFunction(+, 0, f)

\* The sizes of outputs, inputs and witnesses.
OutSize(to) == 8 + VarIntSerializeSize(Len(to.script)) + Len(to.script)

InSize(ti) == 8 + HashSize + VarIntSerializeSize(Len(ti.script)) + Len(ti.script)

WitnessSize(wit) ==
  VarIntSerializeSize(Len(wit))
    + Total([j \in DOMAIN wit |-> VarIntSerializeSize(Len(wit[j])) + Len(wit[j])])

baseSize(tx) ==
  8 + VarIntSerializeSize(Len(tx.txIn)) + VarIntSerializeSize(Len(tx.txOut))
    + Total([i \in DOMAIN tx.txIn |-> InSize(tx.txIn[i])])
    + Total([i \in DOMAIN tx.txOut |-> OutSize(tx.txOut[i])])

SerializeSize(tx) ==
  baseSize(tx)
    + IF HasWitness(tx)
        THEN 2 + Total([i \in DOMAIN tx.txIn |-> WitnessSize(tx.txIn[i].witness)])
        ELSE 0

-------------------------------------------------------------------------------
VARIABLES
  pool,  \* scriptPool: a channel of buffers of capacity FreeListMaxScriptSize
  mem,   \* what is in each script buffer, and its capacity
  dec    \* the local state of each decoder

vars == <<pool, mem, dec>>

Bufs == 1 .. MaxBufs

\* Where a script of a message lives: in a borrowed buffer, in the contiguous
\* buffer of the message, or nowhere.
Nil        == 0
Contiguous == -1
NilRef     == [buf |-> Nil, off |-> 0, len |-> 0]

\* A message under construction: its scripts are kept apart, in refs.
EmptyMsg == [version |-> 0, txIn |-> <<>>, txOut |-> <<>>, lockTime |-> 0]

NoJob == [tx |-> EmptyMsg, enc |-> "base", bytes |-> <<>>]

Idle ==
  [pc |-> "idle", job |-> NoJob, in |-> <<>>, flag |-> FALSE,
   count |-> 0, at |-> 0,  \* how often a loop is run, and has been
   input |-> 0, msg |-> EmptyMsg,
   refs |-> <<>>,          \* the scripts of the message
   todo |-> {},            \* those that are not yet copied or given back
   held |-> Nil,           \* the buffer that was copied last
   total |-> 0, scripts |-> <<>>, lent |-> 0]

Init ==
  /\ pool = <<>>
  /\ mem = [b \in Bufs |-> [cap |-> 0, data |-> <<>>]]
  /\ dec = [d \in Decoders |-> Idle]

\* Where a message keeps scripts: <<"in", i, 0>> is the signature script of an
\* input, <<"in", i, j>> an item of its witness, <<"out", i, 0>> a public key
\* script.
Slot == {"in", "out"} \X Nat \X Nat

\* BtcDecode visits them in this order.
Before(p, q) ==
  \/ p[1] = "in" /\ q[1] = "out"
  \/ /\ p[1] = q[1]
     /\ p[2] < q[2] \/ (p[2] = q[2] /\ p[3] < q[3])

First(slots) == CHOOSE p \in slots : \A q \in slots \ {p} : Before(p, q)

\* The borrowed buffers that a decoder answers for, by where they are: those of
\* its scripts, and the one that was copied.
Temporary == <<"temporary", 0, 0>>

Buffer(d, place) == IF place = Temporary THEN dec[d].held ELSE dec[d].refs[place].buf

Places(d) ==
  LET slots == IF dec[d].pc \in {"unwind", "error"} THEN dec[d].todo ELSE DOMAIN dec[d].refs
  IN  {p \in slots \cup {Temporary} : Buffer(d, p) \in Bufs}

-------------------------------------------------------------------------------
(* The free list.                                                          *)

\* A buffer that nothing refers to any more: memory for make.
Unused == Bufs \ (ToSet(pool) \cup UNION {{Buffer(d, p) : p \in Places(d)} : d \in Decoders})
Fresh  == CHOOSE b \in Unused : TRUE

\* Borrow: the buffer, its capacity and what is left of the pool.
Borrow(size) ==
  IF size > FreeListMaxScriptSize
    THEN [buf |-> Fresh, cap |-> size, pool |-> pool]
    ELSE [buf |-> IF pool # <<>> THEN Head(pool) ELSE Fresh,
          cap |-> FreeListMaxScriptSize,
          pool |-> IF pool # <<>> THEN Tail(pool) ELSE pool]

\* Return of a buffer to a pool.
Return(p, buf, cap) ==
  IF cap = FreeListMaxScriptSize /\ Len(p) < FreeListMaxItems THEN Append(p, buf) ELSE p

\* No script was read and the pool not used.
NoScript ==
  [ok |-> FALSE, ref |-> NilRef, rest |-> <<>>, lent |-> 0, pool |-> pool, mem |-> mem]

\* Mutant: a script that could not be read is returned to the pool and to the caller.
FillScriptKeeping(b, count, r) ==
  [ok |-> r.ok, ref |-> [buf |-> b.buf, off |-> 0, len |-> count.val], rest |-> r.rest,
   lent |-> IF r.ok THEN 1 ELSE 0,
   pool |-> IF r.ok THEN b.pool ELSE Return(b.pool, b.buf, b.cap),
   mem |-> [mem EXCEPT ![b.buf] = [cap |-> b.cap, data |-> IF r.ok THEN r.val ELSE count.rest]]]

\* io.ReadFull into the borrowed buffer b, which goes back if it fails.
FillScript(b, count, r) ==
  IF r.ok
    THEN [ok |-> TRUE, ref |-> [buf |-> b.buf, off |-> 0, len |-> count.val],
          rest |-> r.rest, lent |-> 1, pool |-> b.pool,
          mem |-> [mem EXCEPT ![b.buf] = [cap |-> b.cap, data |-> r.val]]]
    ELSE [NoScript EXCEPT
            !.pool = Return(b.pool, b.buf, b.cap),
            !.mem = [mem EXCEPT ![b.buf] = [cap |-> b.cap, data |-> count.rest]]]

\* readScript: the reference and what becomes of the pool and of the buffers.
readScript(s, maxAllowed) ==
  LET Sized(count) ==
        IF count.ok /\ count.val <= maxAllowed
          THEN FillScript(Borrow(count.val), count, ReadFull(count.rest, count.val))
          ELSE NoScript
  IN  Sized(ReadVarInt(s))

readOutPoint(s) ==
  LET hash  == ReadFull(s, HashSize)
      index == Uint(hash.rest, 4)
  IN  IF hash.ok /\ index.ok
        THEN [ok |-> TRUE, hash |-> hash.val, index |-> index.val, rest |-> index.rest]
        ELSE [ok |-> FALSE, hash |-> <<>>, index |-> 0, rest |-> <<>>]

readTxIn(s) ==
  LET Input(op, script, sequence) ==
        [ok |-> script.ok /\ sequence.ok, script |-> script, rest |-> sequence.rest,
         ti |-> [hash |-> op.hash, index |-> op.index, sequence |-> sequence.val]]
      Scripted(op, script) == Input(op, script, ReadElement(script.rest, "uint32"))
      Pointed(op) ==
        Scripted(op, IF op.ok THEN readScript(op.rest, MaxMessagePayload) ELSE NoScript)
  IN  Pointed(readOutPoint(s))

readTxOut(s) ==
  LET Output(value, script) ==
        [ok |-> script.ok, script |-> script, rest |-> script.rest,
         to |-> [value |-> value.val]]
      Valued(value) ==
        Output(value, IF value.ok THEN readScript(value.rest, MaxMessagePayload) ELSE NoScript)
  IN  Valued(ReadElement(s, "int64"))

-------------------------------------------------------------------------------
(* BtcDecode.                                                              *)

\* Mutant: the marker is looked for in either encoding.
IsMarkerAlways(count, enc) == count.ok /\ count.val = 0

\* A count of zero is the marker of a flag that follows.
IsMarker(count, enc) == count.ok /\ count.val = 0 /\ enc = "witness"

\* Version, flag and number of inputs.
ReadHeader(s, enc) ==
  LET NoHeader == [ok |-> FALSE, version |-> 0, flag |-> FALSE, count |-> 0, rest |-> <<>>]
      Counted(version, marked, count) ==
        IF count.ok /\ count.val <= MaxTxInPerMessage
          THEN [ok |-> TRUE, version |-> Signed(4, version.val), flag |-> marked,
                count |-> count.val, rest |-> count.rest]
          ELSE NoHeader
      Flagged(version, flag) ==
        IF flag.ok /\ flag.val = WitnessFlag
          THEN Counted(version, TRUE, ReadVarInt(flag.rest))
          ELSE NoHeader
      Versioned(version, count) ==
        IF IsMarker(count, enc)
          THEN Flagged(version, Uint(count.rest, 1))
          ELSE Counted(version, FALSE, count)
  IN  Versioned(Uint(s, 4), ReadVarInt(Uint(s, 4).rest))

\* Mutant: returnScriptBuffers forgets the witnesses.
UnwoundInputs(s) ==
  [s EXCEPT !.pc = "unwind",
            !.todo = {p \in DOMAIN s.refs : p[3] = 0 /\ s.refs[p].buf # Nil}]

\* returnScriptBuffers visits every script that is not nil.
Unwound(s) ==
  [s EXCEPT !.pc = "unwind", !.todo = {p \in DOMAIN s.refs : s.refs[p].buf # Nil}]

Decode(d) ==
  /\ dec[d].pc = "idle"
  /\ \E job \in Inputs[d] :
       LET h == ReadHeader(job.bytes, job.enc)
       IN  dec' = [dec EXCEPT ![d] =
             [Idle EXCEPT !.pc = IF h.ok THEN "txIn" ELSE "error",
                          !.job = job,
                          !.in = h.rest,
                          !.flag = h.flag,
                          !.count = h.count,
                          !.msg.version = h.version]]
  /\ UNCHANGED <<pool, mem>>

\* A script was read, or not, and is part of the message either way, so that
\* returnScriptBuffers finds it.
Extended(s, slot, script, rest) ==
  [s EXCEPT !.in = rest,
            !.at = @ + 1,
            !.refs = [p \in DOMAIN @ \cup {slot} |-> IF p = slot THEN script.ref ELSE @[p]],
            !.total = @ + script.ref.len,
            !.lent = @ + script.lent]

\* One input.
DecodeTxIn(d) ==
  LET s    == dec[d]
      r    == readTxIn(s.in)
      next == [Extended(s, <<"in", s.at + 1, 0>>, r.script, r.rest) EXCEPT
                 !.msg.txIn = Append(@, r.ti)]
  IN  /\ s.pc = "txIn" /\ s.at < s.count
      /\ Unused # {}
      /\ pool' = r.script.pool
      /\ mem' = r.script.mem
      /\ dec' = [dec EXCEPT ![d] = IF r.ok THEN next ELSE Unwound(next)]

ReadTxOutCount(d) ==
  LET s     == dec[d]
      count == ReadVarInt(s.in)
  IN  /\ s.pc = "txIn" /\ s.at = s.count
      /\ dec' = [dec EXCEPT ![d] =
                  IF count.ok /\ count.val <= MaxTxOutPerMessage
                    THEN [s EXCEPT !.pc = "txOut", !.count = count.val, !.at = 0,
                                   !.in = count.rest]
                    ELSE Unwound(s)]
      /\ UNCHANGED <<pool, mem>>

DecodeTxOut(d) ==
  LET s    == dec[d]
      r    == readTxOut(s.in)
      next == [Extended(s, <<"out", s.at + 1, 0>>, r.script, r.rest) EXCEPT
                 !.msg.txOut = Append(@, r.to)]
  IN  /\ s.pc = "txOut" /\ s.at < s.count
      /\ Unused # {}
      /\ pool' = r.script.pool
      /\ mem' = r.script.mem
      /\ dec' = [dec EXCEPT ![d] = IF r.ok THEN next ELSE Unwound(next)]

\* The number of items in the witness of the next input.
ReadWitnessCount(d) ==
  LET s     == dec[d]
      count == ReadVarInt(s.in)
  IN  /\ s.pc \in {"txOut", "witness"} /\ s.at = s.count
      /\ s.flag /\ s.input < Len(s.msg.txIn)
      /\ dec' = [dec EXCEPT ![d] =
                  IF count.ok /\ count.val <= MaxWitnessItemsPerInput
                    THEN [s EXCEPT !.pc = "witness", !.input = @ + 1,
                                   !.count = count.val, !.at = 0, !.in = count.rest]
                    ELSE Unwound(s)]
      /\ UNCHANGED <<pool, mem>>

ReadWitnessItem(d) ==
  LET s    == dec[d]
      item == readScript(s.in, MaxWitnessItemSize)
      next == Extended(s, <<"in", s.input, s.at + 1>>, item, item.rest)
  IN  /\ s.pc = "witness" /\ s.at < s.count
      /\ Unused # {}
      /\ pool' = item.pool
      /\ mem' = item.mem
      /\ dec' = [dec EXCEPT ![d] = IF item.ok THEN next ELSE Unwound(next)]

ReadLockTime(d) ==
  LET s        == dec[d]
      lockTime == Uint(s.in, 4)
  IN  /\ s.pc \in {"txOut", "witness"} /\ s.at = s.count
      /\ s.flag => s.input = Len(s.msg.txIn)
      /\ dec' = [dec EXCEPT ![d] =
                  IF lockTime.ok
                    THEN [s EXCEPT !.pc = IF DOMAIN s.refs = {} THEN "done" ELSE "copy",
                                   !.todo = DOMAIN s.refs,
                                   !.in = lockTime.rest,
                                   !.msg.lockTime = lockTime.val]
                    ELSE Unwound(s)]
      /\ UNCHANGED <<pool, mem>>

\* Copy one script to the contiguous buffer and let the message refer to it
\* there.  A slice beyond totalScriptSize would panic.
CopyScript(d) ==
  LET s    == dec[d]
      slot == First(s.todo)
      ref  == s.refs[slot]
  IN  /\ s.pc = "copy"
      /\ Len(s.scripts) + ref.len <= s.total
      /\ dec' = [dec EXCEPT ![d] =
           [s EXCEPT !.pc = "return",
                     !.held = ref.buf,
                     !.todo = @ \ {slot},
                     !.scripts = @ \o SubSeq(mem[ref.buf].data, 1, ref.len),
                     !.refs[slot] =
                       [buf |-> Contiguous, off |-> Len(s.scripts), len |-> ref.len]]]
      /\ UNCHANGED <<pool, mem>>

\* Return the temporary buffer to the pool.
ReturnScript(d) ==
  LET s == dec[d]
  IN  /\ s.pc = "return"
      /\ pool' = Return(pool, s.held, mem[s.held].cap)
      /\ dec' = [dec EXCEPT ![d] =
           [s EXCEPT !.pc = IF s.todo = {} THEN "done" ELSE "copy",
                     !.held = Nil,
                     !.lent = @ - 1]]
      /\ UNCHANGED mem

\* returnScriptBuffers after an error.
UnwindScript(d) ==
  LET s    == dec[d]
      slot == First(s.todo)
      buf  == s.refs[slot].buf
  IN  /\ s.pc = "unwind" /\ s.todo # {}
      /\ pool' = Return(pool, buf, mem[buf].cap)
      /\ dec' = [dec EXCEPT ![d] = [s EXCEPT !.todo = @ \ {slot}, !.lent = @ - 1]]
      /\ UNCHANGED mem

UnwindEnd(d) ==
  /\ dec[d].pc = "unwind" /\ dec[d].todo = {}
  /\ dec' = [dec EXCEPT ![d].pc = "error"]
  /\ UNCHANGED <<pool, mem>>

Next ==
  \E d \in Decoders :
    \/ Decode(d)
    \/ DecodeTxIn(d)
    \/ ReadTxOutCount(d)
    \/ DecodeTxOut(d)
    \/ ReadWitnessCount(d)
    \/ ReadWitnessItem(d)
    \/ ReadLockTime(d)
    \/ CopyScript(d)
    \/ ReturnScript(d)
    \/ UnwindScript(d)
    \/ UnwindEnd(d)

Spec == Init /\ [][Next]_vars

-------------------------------------------------------------------------------
(* Properties.                                                             *)

PCs == {"idle", "txIn", "txOut", "witness", "copy", "return", "unwind", "done", "error"}

TypeOK ==
  /\ pool \in Seq(Bufs) /\ Len(pool) <= FreeListMaxItems
  /\ \A b \in Bufs : mem[b].cap \in Nat /\ mem[b].data \in Seq(Byte)
  /\ \A b \in ToSet(pool) : mem[b].cap = FreeListMaxScriptSize
  /\ \A d \in Decoders :
       LET s == dec[d]
       IN  /\ s.pc \in PCs
           /\ s.in \in Seq(Byte) /\ s.scripts \in Seq(Byte)
           /\ s.flag \in BOOLEAN
           /\ s.count \in Nat /\ s.at \in Nat /\ s.input \in Nat
           /\ s.total \in Nat /\ s.lent \in Nat
           /\ s.held \in Bufs \cup {Nil}
           /\ DOMAIN s.refs \subseteq Slot /\ s.todo \subseteq DOMAIN s.refs
           /\ \A p \in DOMAIN s.refs :
                s.refs[p] \in [buf : Bufs \cup {Nil, Contiguous}, off : Nat, len : Nat]

\* scriptFreeList: a buffer is in the pool once, or one script of one decoder
\* lives in it, or nobody has it: decoders never write into each other's scripts,
\* on no path through BtcDecode and its error returns.
NoAliasing ==
  /\ IsInjective(pool)
  /\ \A d \in Decoders : \A p \in Places(d) :
       /\ Buffer(d, p) \notin ToSet(pool)
       /\ \A e \in Decoders : \A q \in Places(e) :
            Buffer(e, q) = Buffer(d, p) => e = d /\ q = p

\* BtcDecode gives back every buffer it borrows, exactly once: what it has
\* borrowed and not returned is what its message still refers to, which is
\* nothing once it has returned, with or without an error.
BuffersReturned ==
  \A d \in Decoders :
    /\ dec[d].lent = Cardinality(Places(d))
    /\ dec[d].pc \in {"done", "error"} => Places(d) = {}

\* totalScriptSize has counted every script once: the scripts still to be copied
\* fill the contiguous buffer exactly, so that no slice of it is out of range.
ScriptsFit ==
  \A d \in Decoders :
    dec[d].pc \in {"copy", "return", "done"} =>
      Len(dec[d].scripts) + Total([p \in dec[d].todo |-> dec[d].refs[p].len]) = dec[d].total

Script(d, slot) ==
  LET ref == dec[d].refs[slot] IN SubSeq(dec[d].scripts, ref.off + 1, ref.off + ref.len)

Items(d, i) == {p[3] : p \in {q \in DOMAIN dec[d].refs : q[1] = "in" /\ q[2] = i}} \ {0}

Witness(d, i) ==
  [j \in 1 .. Cardinality(Items(d, i)) |-> Script(d, <<"in", i, j>>)]

\* The message that BtcDecode has produced, as its caller sees it.
Decoded(d) ==
  LET m == dec[d].msg
  IN  [version  |-> m.version,
       txIn     |-> [i \in DOMAIN m.txIn |->
                      [hash |-> m.txIn[i].hash, index |-> m.txIn[i].index,
                       script |-> Script(d, <<"in", i, 0>>), witness |-> Witness(d, i),
                       sequence |-> m.txIn[i].sequence]],
       txOut    |-> [i \in DOMAIN m.txOut |->
                      [value |-> m.txOut[i].value, script |-> Script(d, <<"out", i, 0>>)]],
       lockTime |-> m.lockTime]

\* A transaction that may be sent: it fits into a message and respects the
\* limits on witnesses.
Sendable(tx) ==
  /\ SerializeSize(tx) <= MaxMessagePayload
  /\ \A i \in DOMAIN tx.txIn :
       /\ Len(tx.txIn[i].witness) <= MaxWitnessItemsPerInput
       /\ \A j \in DOMAIN tx.txIn[i].witness :
            Len(tx.txIn[i].witness[j]) <= MaxWitnessItemSize

WithoutWitness(tx) == [tx EXCEPT !.txIn = [i \in DOMAIN @ |-> [@[i] EXCEPT !.witness = <<>>]]]

\* BtcDecode undoes BtcEncode, whatever the other decoders do meanwhile: it
\* returns the transaction that was encoded (without witnesses if they were not
\* sent), it accepts every transaction that may be sent, and it refuses a stream
\* that ends too early.  Nor does it accept anything but what BtcEncode writes:
\* the bytes it has read, of any stream, are the encoding of the message it
\* returns, up to a flag without witnesses behind it, so that two encodings never
\* mean one message.  SerializeSize and baseSize count the bytes that are
\* written.  A transaction without inputs has no unambiguous witness
\* encoding: its count is taken for the marker of the flag.
DecodeExact ==
  /\ ScriptsFit
  /\ \A d \in Decoders :
       LET job  == dec[d].job
           full == BtcEncode(job.tx, job.enc)
       IN  /\ dec[d].pc = "done" =>
                Encode(Decoded(d), dec[d].flag) \o dec[d].in = job.bytes
           /\ dec[d].pc \in {"done", "error"} /\ (job.enc = "base" \/ job.tx.txIn # <<>>) =>
             /\ Len(BtcEncode(job.tx, "witness")) = SerializeSize(job.tx)
             /\ Len(BtcEncode(job.tx, "base")) = baseSize(job.tx)
             /\ job.bytes = full /\ dec[d].pc = "done" =>
                  /\ Decoded(d) = IF job.enc = "base" THEN WithoutWitness(job.tx) ELSE job.tx
                  /\ dec[d].in = <<>>
             /\ job.bytes = full /\ Sendable(job.tx) => dec[d].pc = "done"
             /\ IsStrictPrefix(job.bytes, full) => dec[d].pc = "error"

\* A variable length integer has one form: WriteVarInt followed by ReadVarInt
\* gives the value and the bytes behind it back at every boundary of the
\* encoding, VarIntSerializeSize counts the bytes, and ReadVarInt accepts
\* nothing that WriteVarInt does not write, be it any short stream or what some
\* decoder has left to read.  A block header is read back as it was written, for
\* negative versions and every time of 32 bits, and any stream of its length is
\* read as the header that is written as that stream; a shorter one is refused.
\* What depends on no state is evaluated in one, where the first decoder to run
\* has refused a stream without a byte.
WireCanonical ==
  /\ (\E d \in Decoders : /\ dec[d].pc = "error" /\ dec[d].job.bytes = <<>>
                           /\ \A e \in Decoders \ {d} : dec[e].pc = "idle")
       => VarIntEdges /\ VarIntStreams /\ HeaderEdges
  /\ \A d \in Decoders :
       /\ VarIntFirst(dec[d].in)
       /\ dec[d].pc \in {"done", "error"} => HeaderFirst(dec[d].job.bytes)
===============================================================================
