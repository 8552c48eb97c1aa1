----------------------------- MODULE DecodeProofs -----------------------------
(***************************************************************************)
(* A decoder of transactions is exact: the transaction that it returns is  *)
(* the one that was encoded, it accepts whatever may be sent, and it       *)
(* refuses what ends too early.                                            *)
(*                                                                         *)
(* The bytes that were read are the encoding of what lies in the lent      *)
(* buffers (Sound), a stream is the encoding of one transaction only, and  *)
(* a decoder that reads such a stream stands where the writer stood and    *)
(* meets no error (Accepting).                                             *)
(***************************************************************************)
EXTENDS DataProofs

-------------------------------------------------------------------------------
(* The transaction that a decoder has read so far: its inputs, its         *)
(* outputs, the witnesses that are complete and the one being read.        *)

Partials == [ins : Seq(InParts), outs : Seq(TxOuts), done : Seq(Slices(Slices(Byte))),
             item : Seq(Slices(Byte))]

\* The witness of input i.
Wit(g, i) ==
  IF i \in DOMAIN g.done THEN g.done[i] ELSE IF i = Len(g.done) + 1 THEN g.item ELSE <<>>

\* The places of its scripts, and the script at each of them.
Has(g, p) ==
  /\ p \in Slot
  /\ \/ p[1] = "out" /\ p[3] = 0 /\ p[2] \in DOMAIN g.outs
     \/ p[1] = "in" /\ p[3] = 0 /\ p[2] \in DOMAIN g.ins
     \/ p[1] = "in" /\ p[2] \in DOMAIN g.ins /\ p[3] \in DOMAIN Wit(g, p[2])

TextOf(g, p) ==
  IF p[1] = "out" THEN g.outs[p[2]].script
    ELSE IF p[3] = 0 THEN g.ins[p[2]].script
    ELSE Wit(g, p[2])[p[3]]

\* What a decoder keeps of it, with the buffers m.
Kind(r) == r.buf \in Bufs \cup {Contiguous}

Text(s, m, p) ==
  IF s.refs[p].buf = Contiguous
    THEN SubSeq(s.scripts, s.refs[p].off + 1, s.refs[p].off + s.refs[p].len)
    ELSE SubSeq(m[s.refs[p].buf].data, 1, s.refs[p].len)

Texts(s, m, g) ==
  /\ \A p : p \in DOMAIN s.refs <=> Has(g, p)
  /\ \A p \in DOMAIN s.refs : Text(s, m, p) = TextOf(g, p) /\ Kind(s.refs[p])

\* Steps that do not read a script do not change any.
LEMMA TextsOn ==
  ASSUME NEW s, NEW m, NEW g, Texts(s, m, g), NEW mm,
         \A p \in DOMAIN s.refs : s.refs[p].buf \in Bufs => mm[s.refs[p].buf] = m[s.refs[p].buf]
  PROVE  Texts(s, mm, g)
BY DEF Texts, Text, Kind

\* Steps that keep the references keep the scripts.
LEMMA TextsKept ==
  ASSUME NEW s, NEW m, NEW g, Texts(s, m, g), NEW n, n.refs = s.refs, n.scripts = s.scripts
  PROVE  Texts(n, m, g)
BY DEF Texts, Text

\* A sequence and one of its parts.
LEMMA Whole ==
  ASSUME NEW X, NEW s \in Seq(X)
  PROVE  SubSeq(s, 1, Len(s)) = s
<1> DEFINE t == SubSeq(s, 1, Len(s))
<1>1. Len(t) = Len(s) /\ t \in Seq(X) /\ \A i \in 1 .. Len(s) : t[i] = s[i]
  OBVIOUS
<1> HIDE DEF t
<1>2. t = s
  BY <1>1, SeqEqual
<1> QED
  BY <1>2 DEF t

\* A part of the first of two streams.
LEMMA SubSeqOf ==
  ASSUME NEW X, NEW a \in Seq(X), NEW b \in Seq(X), NEW i \in Nat, NEW k \in Nat, i + k <= Len(a)
  PROVE  SubSeq(a \o b, i + 1, i + k) = SubSeq(a, i + 1, i + k)
<1> DEFINE c == a \o b
           s == SubSeq(c, i + 1, i + k)
           t == SubSeq(a, i + 1, i + k)
<1>1. c \in Seq(X) /\ Len(c) = Len(a) + Len(b) /\ \A j \in 1 .. Len(a) : c[j] = a[j]
  OBVIOUS
<1> HIDE DEF c
<1>2. s \in Seq(X) /\ Len(s) = k /\ \A j \in 1 .. k : s[j] = c[i + j]
  <2>1. i + k <= Len(c) /\ c \in Seq(X)
    BY <1>1
  <2> QED
    BY <2>1
<1>3. t \in Seq(X) /\ Len(t) = k /\ \A j \in 1 .. k : t[j] = a[i + j]
  OBVIOUS
<1> HIDE DEF s, t
<1>4. s = t
  <2>1. \A j \in 1 .. k : i + j \in 1 .. Len(a)
    OBVIOUS
  <2>2. \A j \in 1 .. k : s[j] = t[j]
    BY <1>1, <1>2, <1>3, <2>1
  <2> QED
    BY <1>2, <1>3, <2>2, SeqEqual
<1> QED
  BY <1>4 DEF s, t, c

\* The second of two streams.
LEMMA SecondOf ==
  ASSUME NEW a \in Seq(Byte), NEW b \in Seq(Byte)
  PROVE  SubSeq(a \o b, Len(a) + 1, Len(a \o b)) = b
BY PartsOf

\* A script that is copied is the same script.
LEMMA TextsCopied ==
  ASSUME NEW s, NEW m, NEW g, Texts(s, m, g), Sized(s, m), s.pc = "copy", s.todo \subseteq DOMAIN s.refs,
         NEW n, NEW slot, s.refs[slot].buf \in Bufs, NEW text,
         text = SubSeq(m[s.refs[slot].buf].data, 1, s.refs[slot].len),
         Copied(s, n, slot, text)
  PROVE  Texts(n, m, g)
<1>1. s.scripts \in Seq(Byte) /\ \A p \in DOMAIN s.refs : Lies(s.refs[p], m, s.scripts)
  BY DEF Sized, Live
<1>2. slot \in DOMAIN s.refs
  BY DEF Copied
<1>3. /\ m[s.refs[slot].buf].data \in Seq(Byte)
      /\ Len(m[s.refs[slot].buf].data) = s.refs[slot].len /\ s.refs[slot].len \in Nat
  BY <1>1, <1>2, SMTT(30) DEF Lies
<1>4. text \in Seq(Byte) /\ Len(text) = s.refs[slot].len /\ text = TextOf(g, slot)
  <2>1. text = Text(s, m, slot)
    BY BufNumbers DEF Text
  <2>2. text = TextOf(g, slot)
    BY <1>2, <2>1 DEF Texts
  <2> DEFINE data == m[s.refs[slot].buf].data
  <2>3. data \in Seq(Byte) /\ text = SubSeq(data, 1, Len(data)) /\ Len(data) = s.refs[slot].len
    BY <1>3
  <2> HIDE DEF data
  <2>4. text = data
    BY <2>3, Whole
  <2> QED
    BY <2>2, <2>3, <2>4
<1>5. /\ n.scripts = s.scripts \o text /\ DOMAIN n.refs = DOMAIN s.refs
      /\ n.refs[slot].buf = Contiguous /\ n.refs[slot].off = Len(s.scripts)
      /\ n.refs[slot].len = s.refs[slot].len
      /\ \A p \in DOMAIN s.refs \ {slot} : n.refs[p] = s.refs[p]
  BY SMTT(30) DEF Copied
<1>6. Text(n, m, slot) = text
  <2>1. Text(n, m, slot) = SubSeq(s.scripts \o text, Len(s.scripts) + 1, Len(s.scripts) + Len(text))
    BY <1>4, <1>5 DEF Text
  <2>2. Len(s.scripts \o text) = Len(s.scripts) + Len(text)
    BY <1>1, <1>4, SMTT(30)
  <2>3. SubSeq(s.scripts \o text, Len(s.scripts) + 1, Len(s.scripts \o text)) = text
    <3>1. s.scripts \in Seq(Byte) /\ text \in Seq(Byte)
      BY <1>1, <1>4
    <3> QED
      BY <3>1, SecondOf
  <2> QED
    BY <2>1, <2>2, <2>3, ZenonT(60)
<1>7. ASSUME NEW p \in DOMAIN s.refs, p # slot PROVE Text(n, m, p) = Text(s, m, p)
  <2>1. n.refs[p] = s.refs[p]
    BY <1>5, <1>7, SMTT(30)
  <2>2. CASE s.refs[p].buf = Contiguous
    <3> DEFINE off == s.refs[p].off
               len == s.refs[p].len
    <3>1. off \in Nat /\ len \in Nat /\ off + len <= Len(s.scripts)
      BY <1>1, <1>7, <2>2 DEF Lies
    <3>2. /\ Text(n, m, p) = SubSeq(s.scripts \o text, off + 1, off + len)
          /\ Text(s, m, p) = SubSeq(s.scripts, off + 1, off + len)
      BY <1>5, <2>1, <2>2 DEF Text
    <3> HIDE DEF off, len
    <3> QED
      BY <1>1, <1>4, <3>1, <3>2, SubSeqOf
  <2>3. CASE s.refs[p].buf # Contiguous
    BY <2>1, <2>3 DEF Text
  <2> QED
    BY <2>2, <2>3, SMTT(30)
<1>8. \A p \in DOMAIN n.refs : Text(n, m, p) = TextOf(g, p) /\ Kind(n.refs[p])
  BY <1>4, <1>5, <1>6, <1>7 DEF Texts, Kind
<1>9. \A p : p \in DOMAIN n.refs <=> Has(g, p)
  BY <1>5 DEF Texts
<1> QED
  BY <1>8, <1>9 DEF Texts

\* One more script.
LEMMA TextsGrown ==
  ASSUME NEW s, NEW m, NEW g, Texts(s, m, g), NEW n, NEW slot, slot \notin DOMAIN s.refs,
         NEW script, NEW rest, Grown(s, n, slot, script, rest), script.ref.buf \in Bufs,
         m[script.ref.buf].data \in Seq(Byte), Len(m[script.ref.buf].data) = script.ref.len,
         NEW h, TextOf(h, slot) = m[script.ref.buf].data,
         \A p : Has(h, p) <=> Has(g, p) \/ p = slot,
         \A p : Has(g, p) => TextOf(h, p) = TextOf(g, p)
  PROVE  Texts(n, m, h)
<1>1. /\ DOMAIN n.refs = DOMAIN s.refs \cup {slot} /\ n.refs[slot] = script.ref
      /\ \A p \in DOMAIN s.refs : n.refs[p] = s.refs[p]
      /\ n.scripts = s.scripts
  BY DEF Grown
<1>2. Text(n, m, slot) = TextOf(h, slot)
  <2> DEFINE data == m[script.ref.buf].data
  <2>1. Text(n, m, slot) = SubSeq(data, 1, Len(data))
    BY <1>1, BufNumbers DEF Text
  <2>2. data \in Seq(Byte) /\ TextOf(h, slot) = data
    OBVIOUS
  <2> HIDE DEF data
  <2> QED
    BY <2>1, <2>2, Whole
<1>3. \A p \in DOMAIN s.refs : Text(n, m, p) = Text(s, m, p)
  BY <1>1 DEF Text
<1>4. \A p \in DOMAIN n.refs : Text(n, m, p) = TextOf(h, p) /\ Kind(n.refs[p])
  BY <1>1, <1>2, <1>3 DEF Texts, Kind
<1>5. \A p : p \in DOMAIN n.refs <=> Has(h, p)
  BY <1>1 DEF Texts
<1> QED
  BY <1>4, <1>5 DEF Texts

\* A place is its three parts.
LEMMA SlotIs ==
  ASSUME NEW a \in {"in", "out"}, NEW b \in Nat, NEW c \in Nat, NEW q, q = <<a, b, c>>
  PROVE  /\ q \in Slot /\ q[1] = a /\ q[2] = b /\ q[3] = c
         /\ \A p \in Slot : p[1] = a /\ p[2] = b /\ p[3] = c => p = q
<1>1. q \in Slot /\ q[1] = a /\ q[2] = b /\ q[3] = c
  BY DEF Slot
<1>2. ASSUME NEW p \in Slot, p[1] = a, p[2] = b, p[3] = c PROVE p = q
  <2>1. p = <<p[1], p[2], p[3]>>
    BY DEF Slot
  <2> QED
    BY <1>2, <2>1
<1> QED
  BY <1>1, <1>2

\* A sequence and one more element.
LEMMA Appended ==
  ASSUME NEW X, NEW s \in Seq(X), NEW x \in X, NEW t, t = Append(s, x)
  PROVE  /\ t \in Seq(X) /\ Len(s) \in Nat /\ Len(t) = Len(s) + 1 /\ DOMAIN s = 1 .. Len(s)
         /\ DOMAIN t = 1 .. Len(s) + 1 /\ t[Len(s) + 1] = x /\ \A i \in 1 .. Len(s) : t[i] = s[i]
OBVIOUS

\* h has all scripts of g and one more.
More(g, h, slot, text) ==
  /\ TextOf(h, slot) = text
  /\ \A p : Has(h, p) <=> Has(g, p) \/ p = slot
  /\ \A p : Has(g, p) => TextOf(h, p) = TextOf(g, p)

\* One input more.
LEMMA MoreIns ==
  ASSUME NEW g \in Partials, NEW x \in InParts, NEW h, h.ins = Append(g.ins, x), h.outs = g.outs,
         h.done = g.done, h.item = g.item, g.done = <<>>, g.item = <<>>,
         NEW slot, slot = <<"in", Len(g.ins) + 1, 0>>
  PROVE  More(g, h, slot, x.script)
<1>1. g.ins \in Seq(InParts)
  BY DEF Partials
<1> DEFINE k == Len(g.ins)
<1>2. /\ k \in Nat /\ DOMAIN g.ins = 1 .. k /\ DOMAIN h.ins = 1 .. k + 1
      /\ h.ins[k + 1] = x /\ \A i \in 1 .. k : h.ins[i] = g.ins[i]
  BY <1>1, Appended
<1> HIDE DEF k
<1>3. \A i : Wit(g, i) = <<>> /\ Wit(h, i) = <<>>
  BY DEF Wit
<1>4. /\ slot \in Slot /\ slot[1] = "in" /\ slot[2] = k + 1 /\ slot[3] = 0
      /\ \A p \in Slot : p[1] = "in" /\ p[2] = k + 1 /\ p[3] = 0 => p = slot
  <2>1. slot = <<"in", k + 1, 0>> /\ k + 1 \in Nat
    BY <1>2 DEF k
  <2> QED
    BY <2>1, SlotIs
<1>5. TextOf(h, slot) = x.script
  BY <1>2, <1>4 DEF TextOf
<1>6. ASSUME NEW p, Has(h, p) PROVE Has(g, p) \/ p = slot
  <2>1. p \in Slot /\ p[2] \in Nat
    BY <1>6 DEF Has, Slot
  <2>2. CASE p[1] = "out"
    BY <1>6, <2>2 DEF Has
  <2>3. CASE p[1] = "in"
    <3>1. p[3] = 0 /\ p[2] \in 1 .. k + 1
      BY <1>2, <1>3, <1>6, <2>3 DEF Has
    <3> QED
      BY <1>2, <1>4, <2>1, <2>3, <3>1 DEF Has
  <2> QED
    BY <2>1, <2>2, <2>3 DEF Slot
<1>7. ASSUME NEW p, Has(g, p) PROVE Has(h, p) /\ TextOf(h, p) = TextOf(g, p)
  BY <1>2, <1>3, <1>7 DEF Has, TextOf
<1>8. Has(h, slot)
  BY <1>2, <1>4 DEF Has
<1> QED
  BY <1>5, <1>6, <1>7, <1>8 DEF More

\* One output more.
LEMMA MoreOuts ==
  ASSUME NEW g \in Partials, NEW x \in TxOuts, NEW h, h.ins = g.ins, h.outs = Append(g.outs, x),
         h.done = g.done, h.item = g.item, NEW slot, slot = <<"out", Len(g.outs) + 1, 0>>
  PROVE  More(g, h, slot, x.script)
<1>1. g.outs \in Seq(TxOuts)
  BY DEF Partials
<1> DEFINE k == Len(g.outs)
<1>2. /\ k \in Nat /\ DOMAIN g.outs = 1 .. k /\ DOMAIN h.outs = 1 .. k + 1
      /\ h.outs[k + 1] = x /\ \A i \in 1 .. k : h.outs[i] = g.outs[i]
  BY <1>1, Appended
<1> HIDE DEF k
<1>3. \A i : Wit(h, i) = Wit(g, i)
  BY DEF Wit
<1>4. /\ slot \in Slot /\ slot[1] = "out" /\ slot[2] = k + 1 /\ slot[3] = 0
      /\ \A p \in Slot : p[1] = "out" /\ p[2] = k + 1 /\ p[3] = 0 => p = slot
  <2>1. slot = <<"out", k + 1, 0>> /\ k + 1 \in Nat
    BY <1>2 DEF k
  <2> QED
    BY <2>1, SlotIs
<1>5. TextOf(h, slot) = x.script
  BY <1>2, <1>4 DEF TextOf
<1>6. ASSUME NEW p, Has(h, p) PROVE Has(g, p) \/ p = slot
  <2>1. p \in Slot /\ p[2] \in Nat
    BY <1>6 DEF Has, Slot
  <2>2. CASE p[1] = "out"
    <3>1. p[3] = 0 /\ p[2] \in 1 .. k + 1
      BY <1>2, <1>6, <2>2 DEF Has
    <3> QED
      BY <1>2, <1>4, <2>1, <2>2, <3>1 DEF Has
  <2>3. CASE p[1] = "in"
    BY <1>3, <1>6, <2>3 DEF Has
  <2> QED
    BY <2>1, <2>2, <2>3 DEF Slot
<1>7. ASSUME NEW p, Has(g, p) PROVE Has(h, p) /\ TextOf(h, p) = TextOf(g, p)
  BY <1>2, <1>3, <1>7 DEF Has, TextOf
<1>8. Has(h, slot)
  BY <1>2, <1>4 DEF Has
<1> QED
  BY <1>5, <1>6, <1>7, <1>8 DEF More

\* One item more.
LEMMA MoreItems ==
  ASSUME NEW g \in Partials, NEW x \in Slices(Byte), NEW h, h.ins = g.ins, h.outs = g.outs,
         h.done = g.done, h.item = Append(g.item, x), Len(g.done) < Len(g.ins),
         NEW slot, slot = <<"in", Len(g.done) + 1, Len(g.item) + 1>>
  PROVE  More(g, h, slot, x)
<1>1. g.item \in Seq(Slices(Byte)) /\ Len(g.done) \in Nat /\ DOMAIN g.done = 1 .. Len(g.done)
      /\ DOMAIN g.ins = 1 .. Len(g.ins) /\ Len(g.ins) \in Nat
  BY DEF Partials
<1> DEFINE k == Len(g.item)
           i == Len(g.done) + 1
<1>2. /\ k \in Nat /\ DOMAIN g.item = 1 .. k /\ DOMAIN h.item = 1 .. k + 1
      /\ h.item[k + 1] = x /\ \A j \in 1 .. k : h.item[j] = g.item[j]
  BY <1>1, Appended
<1>3. /\ i \in Nat /\ i \notin DOMAIN g.done /\ i \in DOMAIN g.ins
      /\ Wit(g, i) = g.item /\ Wit(h, i) = h.item
      /\ \A j : j # i => Wit(h, j) = Wit(g, j)
  BY <1>1, SMTT(30) DEF Wit
<1> HIDE DEF k, i
<1>4. /\ slot \in Slot /\ slot[1] = "in" /\ slot[2] = i /\ slot[3] = k + 1
      /\ \A p \in Slot : p[1] = "in" /\ p[2] = i /\ p[3] = k + 1 => p = slot
  <2>1. slot = <<"in", i, k + 1>> /\ k + 1 \in Nat
    BY <1>2 DEF k, i
  <2> QED
    BY <1>3, <2>1, SlotIs, SMTT(30)
<1>5. TextOf(h, slot) = x
  BY <1>2, <1>3, <1>4 DEF TextOf
<1>6. ASSUME NEW p, Has(h, p) PROVE Has(g, p) \/ p = slot
  <2>1. p \in Slot /\ p[2] \in Nat
    BY <1>6 DEF Has, Slot
  <2>2. CASE p[3] = 0 /\ p[2] # i
    BY <1>3, <1>6, <2>2 DEF Has
  <2>3. CASE p[2] # i
    BY <1>3, <1>6, <2>3 DEF Has
  <2>4. CASE p[2] = i
    <3>1. CASE p[1] = "out" \/ p[3] = 0
      <4>1. p[3] \notin DOMAIN h.item \/ p[1] = "out"
        BY <1>2, <3>1
      <4> QED
        BY <1>3, <1>6, <2>4, <3>1, <4>1 DEF Has
    <3>2. CASE p[1] = "in" /\ p[3] # 0
      <4>1. p[3] \in 1 .. k + 1
        BY <1>2, <1>3, <1>6, <2>4, <3>2 DEF Has
      <4>2. CASE p[3] \in 1 .. k
        BY <1>2, <1>3, <2>1, <2>4, <3>2, <4>2 DEF Has
      <4>3. CASE p[3] = k + 1
        BY <1>4, <2>1, <2>4, <3>2, <4>3
      <4> QED
        BY <1>2, <4>1, <4>2, <4>3
    <3> QED
      BY <2>1, <3>1, <3>2 DEF Slot
  <2> QED
    BY <2>3, <2>4
<1>7. ASSUME NEW p, Has(g, p) PROVE Has(h, p) /\ TextOf(h, p) = TextOf(g, p)
  <2>1. p[3] \in DOMAIN Wit(g, p[2]) => p[3] \in DOMAIN Wit(h, p[2]) /\ Wit(h, p[2])[p[3]] = Wit(g, p[2])[p[3]]
    <3>1. CASE p[2] = i
      BY <1>2, <1>3, <3>1, SMTT(30)
    <3>2. CASE p[2] # i
      <4>1. Wit(h, p[2]) = Wit(g, p[2])
        BY <1>3, <3>2
      <4> QED
        BY <4>1
    <3> QED
      BY <3>1, <3>2
  <2> QED
    BY <1>7, <2>1 DEF Has, TextOf
<1>8. Has(h, slot)
  BY <1>2, <1>3, <1>4 DEF Has
<1> QED
  BY <1>5, <1>6, <1>7, <1>8 DEF More

\* A witness is complete.
LEMMA NextItems ==
  ASSUME NEW g \in Partials, NEW h, h.ins = g.ins, h.outs = g.outs,
         h.done = Append(g.done, g.item), h.item = <<>>, Len(g.item) < Power(8)
  PROVE  /\ \A i : Wit(h, i) = Wit(g, i)
         /\ \A p : (Has(h, p) <=> Has(g, p)) /\ TextOf(h, p) = TextOf(g, p)
<1>1. g.done \in Seq(Slices(Slices(Byte))) /\ g.item \in Slices(Slices(Byte))
  BY DEF Partials, Slices
<1> DEFINE k == Len(g.done)
<1>2. /\ k \in Nat /\ DOMAIN g.done = 1 .. k /\ DOMAIN h.done = 1 .. k + 1 /\ Len(h.done) = k + 1
      /\ h.done[k + 1] = g.item /\ \A i \in 1 .. k : h.done[i] = g.done[i]
  BY <1>1, Appended
<1> HIDE DEF k
<1>3. ASSUME NEW i PROVE Wit(h, i) = Wit(g, i)
  <2>1. CASE i \in 1 .. k
    BY <1>2, <2>1 DEF Wit
  <2>2. CASE i = k + 1
    BY <1>2, <2>2 DEF Wit, k
  <2>3. CASE i \notin 1 .. k + 1
    BY <1>2, <2>3 DEF Wit, k
  <2> QED
    BY <1>2, <2>1, <2>2, <2>3
<1> QED
  BY <1>3 DEF Has, TextOf

-------------------------------------------------------------------------------
(* What has been written of a transaction up to some point of it.          *)

\* One element after the other, each written by w.
WrittenBy(w, s) == FlattenSeq([i \in DOMAIN s |-> w[s[i]]])

\* What the elements of a sequence write, one after the other.
LEMMA Mapped ==
  ASSUME NEW T, NEW w \in [T -> Seq(Byte)], NEW s \in Seq(T)
  PROVE  /\ WrittenBy(w, s) \in Seq(Byte) /\ (s = <<>> => WrittenBy(w, s) = <<>>)
         /\ \A x \in T : WrittenBy(w, Append(s, x)) = WrittenBy(w, s) \o w[x]
<1> DEFINE m == [i \in DOMAIN s |-> w[s[i]]]
<1>1. DOMAIN s = 1 .. Len(s) /\ Len(s) \in Nat /\ \A i \in 1 .. Len(s) : s[i] \in T
  OBVIOUS
<1>2. \A i \in 1 .. Len(s) : w[s[i]] \in Seq(Byte)
  BY <1>1
<1>3. m \in Seq(Seq(Byte)) /\ Len(m) = Len(s) /\ \A i \in 1 .. Len(s) : m[i] = w[s[i]]
  BY <1>1, <1>2
<1>4. FlattenSeq(m) \in Seq(Byte) /\ (m = <<>> => FlattenSeq(m) = <<>>)
  BY <1>3, Flattened
<1>5. s = <<>> => m = <<>>
  BY <1>3
<1> HIDE DEF m
<1>6. ASSUME NEW x \in T, NEW t, t = Append(s, x)
      PROVE  FlattenSeq([i \in DOMAIN t |-> w[t[i]]]) = FlattenSeq(m) \o w[x]
  <2> DEFINE n == [i \in DOMAIN t |-> w[t[i]]]
             b == w[x]
             a == Append(m, b)
  <2>1. /\ DOMAIN t = 1 .. Len(s) + 1 /\ t[Len(s) + 1] = x
        /\ \A i \in 1 .. Len(s) : t[i] = s[i]
    BY <1>6, Appended
  <2>2. b \in Seq(Byte)
    OBVIOUS
  <2>3. /\ a \in Seq(Seq(Byte)) /\ Len(a) = Len(s) + 1 /\ a[Len(s) + 1] = b
        /\ \A i \in 1 .. Len(s) : a[i] = m[i]
    <3> HIDE DEF b
    <3> QED
      BY <1>3, <2>2, Appended
  <2>4. n \in Seq(Seq(Byte)) /\ Len(n) = Len(s) + 1 /\ \A i \in 1 .. Len(s) + 1 : n[i] = w[t[i]]
    <3>1. \A i \in 1 .. Len(s) + 1 : t[i] \in T
      <4>1. \A i \in 1 .. Len(s) + 1 : i \in 1 .. Len(s) \/ i = Len(s) + 1
        BY <1>1
      <4> QED
        BY <1>1, <1>6, <2>1, <4>1
    <3>2. \A i \in 1 .. Len(s) + 1 : w[t[i]] \in Seq(Byte)
      BY <3>1
    <3> QED
      BY <1>1, <2>1, <3>2
  <2> HIDE DEF n, a, b
  <2>5. \A i \in 1 .. Len(s) + 1 : n[i] = a[i]
    <3>1. \A i \in 1 .. Len(s) : n[i] = a[i]
      BY <1>1, <1>3, <2>1, <2>3, <2>4
    <3>2. n[Len(s) + 1] = a[Len(s) + 1]
      <4>1. Len(s) + 1 \in 1 .. Len(s) + 1
        BY <1>1
      <4>2. n[Len(s) + 1] = w[t[Len(s) + 1]]
        BY <2>4, <4>1
      <4> QED
        BY <2>1, <2>3, <4>2 DEF b
    <3>3. \A i \in 1 .. Len(s) + 1 : i \in 1 .. Len(s) \/ i = Len(s) + 1
      BY <1>1
    <3> QED
      BY <3>1, <3>2, <3>3
  <2>6. n = a
    BY <2>3, <2>4, <2>5, SeqEqual
  <2>7. FlattenSeq(a) = FlattenSeq(m) \o b
    BY <1>3, <2>2, Flattened DEF a
  <2> QED
    BY <2>6, <2>7 DEF n, b
<1> QED
  BY <1>3, <1>4, <1>5, <1>6 DEF WrittenBy, m

\* The encodings of the parts.
AnyIns == InParts \cup TxIns

InsBytes(s)   == FlattenSeq([i \in DOMAIN s |-> writeTxIn(s[i])])
OutsBytes(s)  == FlattenSeq([i \in DOMAIN s |-> WriteTxOut(s[i])])
ItemsBytes(s) == FlattenSeq([j \in DOMAIN s |-> WriteVarBytes(s[j])])
WitsBytes(s)  == FlattenSeq([i \in DOMAIN s |-> writeTxWitness(s[i])])

\* Every part is written as bytes.
LEMMA VarBytesAre ==
  ASSUME NEW x \in Slices(Byte)
  PROVE  WriteVarBytes(x) \in Seq(Byte) /\ x \in Seq(Byte) /\ Len(x) \in Unsigneds(8)
<1>1. x \in Seq(Byte) /\ Len(x) \in Unsigneds(8)
  BY PowerValues DEF Slices, Unsigneds
<1>2. WriteVarInt(Len(x)) \in Seq(Byte)
  BY <1>1, VarIntWritten
<1> QED
  BY <1>1, <1>2 DEF WriteVarBytes

\* The fields of an input without its witness.
LEMMA TxInIs ==
  ASSUME NEW x \in AnyIns
  PROVE  /\ x.hash \in Seq(Byte) /\ Len(x.hash) = HashSize /\ HashSize \in Nat
         /\ x.index \in Unsigneds(4) /\ x.sequence \in Unsigneds(4) /\ x.script \in Slices(Byte)
         /\ Put(4, x.index) \in Seq(Byte) /\ Put(4, x.sequence) \in Seq(Byte)
         /\ WriteVarBytes(x.script) \in Seq(Byte)
<1>1. /\ x.hash \in [1 .. HashSize -> Byte] /\ x.index \in Unsigneds(4)
      /\ x.sequence \in Unsigneds(4) /\ x.script \in Slices(Byte)
  BY DEF AnyIns, InParts, TxIns
<1>2. HashSize \in Nat
  BY WireAssumption
<1>3. Put(4, x.index) \in Seq(Byte) /\ Put(4, x.sequence) \in Seq(Byte)
  <2>1. 4 \in Nat /\ x.index \in Int /\ x.sequence \in Int
    BY <1>1, Numbers
  <2> QED
    BY <2>1, Puts
<1>4. x.hash \in Seq(Byte) /\ Len(x.hash) = HashSize
  BY <1>1, <1>2
<1>5. WriteVarBytes(x.script) \in Seq(Byte)
  BY <1>1, VarBytesAre
<1> QED
  BY <1>1, <1>2, <1>3, <1>4, <1>5

\* An input is written as bytes.
LEMMA TxInBytes ==
  ASSUME NEW x \in AnyIns
  PROVE  writeTxIn(x) \in Seq(Byte)
<1> DEFINE a == x.hash
           b == Put(4, x.index)
           c == WriteVarBytes(x.script)
           e == Put(4, x.sequence)
<1>1. a \in Seq(Byte) /\ b \in Seq(Byte) /\ c \in Seq(Byte) /\ e \in Seq(Byte)
  BY TxInIs
<1>2. writeTxIn(x) = a \o b \o c \o e
  BY DEF writeTxIn
<1> HIDE DEF a, b, c, e
<1>3. a \o b \in Seq(Byte)
  BY <1>1
<1> DEFINE p == a \o b
<1>4. p \o c \in Seq(Byte)
  <2> HIDE DEF p
  <2>1. p \in Seq(Byte)
    BY <1>3 DEF p
  <2> QED
    BY <1>1, <2>1
<1> DEFINE q == p \o c
<1>5. q \o e \in Seq(Byte)
  <2>1. q \in Seq(Byte)
    BY <1>4
  <2> HIDE DEF q
  <2> QED
    BY <1>1, <2>1
<1> QED
  BY <1>2, <1>5 DEF p, q

\* The fields of an output.
LEMMA TxOutIs ==
  ASSUME NEW x \in TxOuts
  PROVE  /\ x.value \in Ints(8) /\ x.script \in Slices(Byte)
         /\ Put(8, x.value) \in Seq(Byte) /\ Len(Put(8, x.value)) = 8
         /\ WriteVarBytes(x.script) \in Seq(Byte) /\ WriteTxOut(x) \in Seq(Byte)
<1>1. x.value \in Ints(8) /\ x.script \in Slices(Byte)
  BY DEF TxOuts
<1>2. Put(8, x.value) \in Seq(Byte) /\ Len(Put(8, x.value)) = 8
  <2>1. 8 \in Nat /\ x.value \in Int
    BY <1>1, PowerValues, SignedNumbers
  <2> QED
    BY <2>1, Puts
<1>3. WriteVarBytes(x.script) \in Seq(Byte)
  BY <1>1, VarBytesAre
<1>4. WriteTxOut(x) \in Seq(Byte)
  BY <1>2, <1>3 DEF WriteTxOut
<1> QED
  BY <1>1, <1>2, <1>3, <1>4

\* The inputs, the outputs, the items of a witness and the witnesses.
LEMMA InsWritten ==
  ASSUME NEW s \in Seq(AnyIns)
  PROVE  /\ InsBytes(s) \in Seq(Byte) /\ (s = <<>> => InsBytes(s) = <<>>)
         /\ \A x \in AnyIns : InsBytes(Append(s, x)) = InsBytes(s) \o writeTxIn(x)
<1> DEFINE w == [x \in AnyIns |-> writeTxIn(x)]
<1>1. w \in [AnyIns -> Seq(Byte)] /\ \A x \in AnyIns : w[x] = writeTxIn(x)
  BY TxInBytes
<1> HIDE DEF w
<1>2. ASSUME NEW t \in Seq(AnyIns) PROVE WrittenBy(w, t) = InsBytes(t)
  <2>1. \A i \in DOMAIN t : w[t[i]] = writeTxIn(t[i])
    BY <1>1
  <2>2. [i \in DOMAIN t |-> w[t[i]]] = [i \in DOMAIN t |-> writeTxIn(t[i])]
    BY <2>1
  <2> QED
    BY <2>2 DEF InsBytes, WrittenBy
<1>3. /\ WrittenBy(w, s) \in Seq(Byte) /\ (s = <<>> => WrittenBy(w, s) = <<>>)
      /\ \A x \in AnyIns : WrittenBy(w, Append(s, x)) = WrittenBy(w, s) \o w[x]
  BY <1>1, Mapped
<1>4. \A x \in AnyIns : Append(s, x) \in Seq(AnyIns)
  OBVIOUS
<1> QED
  BY <1>1, <1>2, <1>3, <1>4

\* Outputs.
LEMMA OutsWritten ==
  ASSUME NEW s \in Seq(TxOuts)
  PROVE  /\ OutsBytes(s) \in Seq(Byte) /\ (s = <<>> => OutsBytes(s) = <<>>)
         /\ \A x \in TxOuts : OutsBytes(Append(s, x)) = OutsBytes(s) \o WriteTxOut(x)
<1> DEFINE w == [x \in TxOuts |-> WriteTxOut(x)]
<1>1. w \in [TxOuts -> Seq(Byte)] /\ \A x \in TxOuts : w[x] = WriteTxOut(x)
  BY TxOutIs
<1> HIDE DEF w
<1>2. ASSUME NEW t \in Seq(TxOuts) PROVE WrittenBy(w, t) = OutsBytes(t)
  <2>1. \A i \in DOMAIN t : w[t[i]] = WriteTxOut(t[i])
    BY <1>1
  <2>2. [i \in DOMAIN t |-> w[t[i]]] = [i \in DOMAIN t |-> WriteTxOut(t[i])]
    BY <2>1
  <2> QED
    BY <2>2 DEF OutsBytes, WrittenBy
<1>3. /\ WrittenBy(w, s) \in Seq(Byte) /\ (s = <<>> => WrittenBy(w, s) = <<>>)
      /\ \A x \in TxOuts : WrittenBy(w, Append(s, x)) = WrittenBy(w, s) \o w[x]
  BY <1>1, Mapped
<1>4. \A x \in TxOuts : Append(s, x) \in Seq(TxOuts)
  OBVIOUS
<1> QED
  BY <1>1, <1>2, <1>3, <1>4

\* Items of a witness.
LEMMA ItemsWritten ==
  ASSUME NEW s \in Seq(Slices(Byte))
  PROVE  /\ ItemsBytes(s) \in Seq(Byte) /\ (s = <<>> => ItemsBytes(s) = <<>>)
         /\ \A x \in Slices(Byte) : ItemsBytes(Append(s, x)) = ItemsBytes(s) \o WriteVarBytes(x)
<1> DEFINE w == [x \in Slices(Byte) |-> WriteVarBytes(x)]
<1>1. w \in [Slices(Byte) -> Seq(Byte)] /\ \A x \in Slices(Byte) : w[x] = WriteVarBytes(x)
  BY VarBytesAre
<1> HIDE DEF w
<1>2. ASSUME NEW t \in Seq(Slices(Byte)) PROVE WrittenBy(w, t) = ItemsBytes(t)
  <2>1. \A i \in DOMAIN t : w[t[i]] = WriteVarBytes(t[i])
    BY <1>1
  <2>2. [i \in DOMAIN t |-> w[t[i]]] = [i \in DOMAIN t |-> WriteVarBytes(t[i])]
    BY <2>1
  <2> QED
    BY <2>2 DEF ItemsBytes, WrittenBy
<1>3. /\ WrittenBy(w, s) \in Seq(Byte) /\ (s = <<>> => WrittenBy(w, s) = <<>>)
      /\ \A x \in Slices(Byte) : WrittenBy(w, Append(s, x)) = WrittenBy(w, s) \o w[x]
  BY <1>1, Mapped
<1>4. \A x \in Slices(Byte) : Append(s, x) \in Seq(Slices(Byte))
  OBVIOUS
<1> QED
  BY <1>1, <1>2, <1>3, <1>4

\* A witness.
LEMMA WitnessIs ==
  ASSUME NEW x \in Slices(Slices(Byte))
  PROVE  /\ x \in Seq(Slices(Byte)) /\ Len(x) \in Unsigneds(8)
         /\ WriteVarInt(Len(x)) \in Seq(Byte) /\ ItemsBytes(x) \in Seq(Byte)
         /\ writeTxWitness(x) = WriteVarInt(Len(x)) \o ItemsBytes(x)
         /\ writeTxWitness(x) \in Seq(Byte)
<1>1. x \in Seq(Slices(Byte)) /\ Len(x) \in Unsigneds(8)
  BY PowerValues DEF Slices, Unsigneds
<1>2. WriteVarInt(Len(x)) \in Seq(Byte) /\ ItemsBytes(x) \in Seq(Byte)
  BY <1>1, VarIntWritten, ItemsWritten
<1>3. writeTxWitness(x) = WriteVarInt(Len(x)) \o ItemsBytes(x)
  BY DEF writeTxWitness, ItemsBytes
<1> QED
  BY <1>1, <1>2, <1>3

\* Witnesses.
LEMMA WitsWritten ==
  ASSUME NEW s \in Seq(Slices(Slices(Byte)))
  PROVE  /\ WitsBytes(s) \in Seq(Byte) /\ (s = <<>> => WitsBytes(s) = <<>>)
         /\ \A x \in Slices(Slices(Byte)) : WitsBytes(Append(s, x)) = WitsBytes(s) \o writeTxWitness(x)
<1> DEFINE w == [x \in Slices(Slices(Byte)) |-> writeTxWitness(x)]
<1>1. w \in [Slices(Slices(Byte)) -> Seq(Byte)] /\ \A x \in Slices(Slices(Byte)) : w[x] = writeTxWitness(x)
  BY WitnessIs
<1> HIDE DEF w
<1>2. ASSUME NEW t \in Seq(Slices(Slices(Byte))) PROVE WrittenBy(w, t) = WitsBytes(t)
  <2>1. \A i \in DOMAIN t : w[t[i]] = writeTxWitness(t[i])
    BY <1>1
  <2>2. [i \in DOMAIN t |-> w[t[i]]] = [i \in DOMAIN t |-> writeTxWitness(t[i])]
    BY <2>1
  <2> QED
    BY <2>2 DEF WitsBytes, WrittenBy
<1>3. /\ WrittenBy(w, s) \in Seq(Byte) /\ (s = <<>> => WrittenBy(w, s) = <<>>)
      /\ \A x \in Slices(Slices(Byte)) : WrittenBy(w, Append(s, x)) = WrittenBy(w, s) \o w[x]
  BY <1>1, Mapped
<1>4. \A x \in Slices(Slices(Byte)) : Append(s, x) \in Seq(Slices(Slices(Byte)))
  OBVIOUS
<1> QED
  BY <1>1, <1>2, <1>3, <1>4

\* The bytes up to the end of the inputs, of the outputs, of the witnesses, of
\* the items of one more witness, and of the transaction.
Preamble(v, f) == Put(4, v) \o (IF f THEN <<0, WitnessFlag>> ELSE <<>>)

ToIns(v, f, c, g)    == Preamble(v, f) \o WriteVarInt(c) \o InsBytes(g.ins)
ToOuts(v, f, c, g)   == ToIns(v, f, Len(g.ins), g) \o WriteVarInt(c) \o OutsBytes(g.outs)
ToWits(v, f, g)      == ToOuts(v, f, Len(g.outs), g) \o WitsBytes(g.done)
ToItems(v, f, c, g)  == ToWits(v, f, g) \o WriteVarInt(c) \o ItemsBytes(g.item)
ToEnd(v, f, t, g)    == ToWits(v, f, g) \o Put(4, t)

\* What is written of parts that may be written.
Writable(g) ==
  /\ g.ins \in Seq(AnyIns) /\ g.outs \in Seq(TxOuts)
  /\ g.done \in Seq(Slices(Slices(Byte))) /\ g.item \in Seq(Slices(Byte))

\* All parts are written as bytes.
LEMMA PartsWritable ==
  ASSUME NEW g \in Partials
  PROVE  Writable(g)
<1>1. g.ins \in Seq(InParts) /\ InParts \subseteq AnyIns
  BY DEF Partials, AnyIns
<1>2. g.ins \in Seq(AnyIns)
  BY <1>1
<1> QED
  BY <1>2 DEF Writable, Partials

\* What goes on is appended.
Regroups(a, b, c) ==
  /\ a \o b \in Seq(Byte) /\ (a \o b) \o c \in Seq(Byte)
  /\ \A d \in Seq(Byte) : (a \o b) \o (c \o d) = ((a \o b) \o c) \o d

\* Three streams, grouped either way.
LEMMA GoesOn ==
  ASSUME NEW a \in Seq(Byte), NEW b \in Seq(Byte), NEW c \in Seq(Byte)
  PROVE  Regroups(a, b, c)
<1> DEFINE p == a \o b
<1>1. p \in Seq(Byte)
  OBVIOUS
<1> HIDE DEF p
<1>2. p \o c \in Seq(Byte) /\ \A d \in Seq(Byte) : p \o (c \o d) = (p \o c) \o d
  <2>1. p \o c \in Seq(Byte)
    BY <1>1
  <2>2. \A x, y, z \in Seq(Byte) : (x \o y) \o z = x \o (y \o z)
    BY Assoc
  <2>3. \A d \in Seq(Byte) : p \o (c \o d) = (p \o c) \o d
    BY <1>1, <2>2, Zenon
  <2> QED
    BY <2>1, <2>3
<1> QED
  BY <1>1, <1>2 DEF p, Regroups

\* What a transaction opens with is bytes.
LEMMA FrontIs ==
  ASSUME NEW v \in Ints(4), NEW f \in BOOLEAN
  PROVE  Preamble(v, f) \in Seq(Byte)
<1>1. Put(4, v) \in Seq(Byte)
  <2>1. 4 \in Nat /\ v \in Int
    BY PowerValues, SignedNumbers
  <2> QED
    BY <2>1, Puts
<1>2. <<0, WitnessFlag>> \in Seq(Byte)
  BY WireAssumption DEF WitnessFlag, Byte
<1>3. (IF f THEN <<0, WitnessFlag>> ELSE <<>>) \in Seq(Byte)
  BY <1>2, NoBytes
<1> DEFINE a == IF f THEN <<0, WitnessFlag>> ELSE <<>>
<1> HIDE DEF a
<1>4. Put(4, v) \o a \in Seq(Byte)
  BY <1>1, <1>3 DEF a
<1> QED
  BY <1>4 DEF Preamble, a

InsSpan(v, f, c, g) ==
  /\ ToIns(v, f, c, g) \in Seq(Byte)
  /\ g.ins = <<>> => ToIns(v, f, c, g) = Preamble(v, f) \o WriteVarInt(c)
  /\ \A x \in AnyIns : \A h : h.ins = Append(g.ins, x) =>
       ToIns(v, f, c, h) = ToIns(v, f, c, g) \o writeTxIn(x)

\* The inputs span what ToIns says.
LEMMA SpanIns ==
  ASSUME NEW v \in Ints(4), NEW f \in BOOLEAN, NEW c \in Unsigneds(8), NEW g, Writable(g)
  PROVE  InsSpan(v, f, c, g)
<1> DEFINE a == Preamble(v, f)
           b == WriteVarInt(c)
           e == InsBytes(g.ins)
<1>1. a \in Seq(Byte) /\ b \in Seq(Byte)
  BY FrontIs, VarIntWritten
<1>2. /\ e \in Seq(Byte) /\ (g.ins = <<>> => e = <<>>)
      /\ \A x \in AnyIns : InsBytes(Append(g.ins, x)) = e \o writeTxIn(x) /\ writeTxIn(x) \in Seq(Byte)
  BY InsWritten, TxInBytes DEF Writable
<1>3. ToIns(v, f, c, g) = a \o b \o e /\ \A h : ToIns(v, f, c, h) = a \o b \o InsBytes(h.ins)
  BY DEF ToIns
<1> HIDE DEF a, b, e
<1>4. Regroups(a, b, e)
  BY <1>1, <1>2, GoesOn, Zenon
<1>5. e = <<>> => a \o b \o e = a \o b
  BY <1>4 DEF Regroups
<1>6. ASSUME NEW x \in AnyIns, NEW h, h.ins = Append(g.ins, x)
      PROVE  ToIns(v, f, c, h) = ToIns(v, f, c, g) \o writeTxIn(x)
  <2>1. ToIns(v, f, c, h) = a \o b \o (e \o writeTxIn(x)) /\ writeTxIn(x) \in Seq(Byte)
    BY <1>2, <1>3, <1>6
  <2>2. a \o b \o (e \o writeTxIn(x)) = (a \o b \o e) \o writeTxIn(x)
    BY <1>4, <2>1, Zenon DEF Regroups
  <2> QED
    BY <1>3, <2>1, <2>2
<1> QED
  BY <1>2, <1>3, <1>4, <1>5, <1>6 DEF a, b, Regroups, InsSpan

OutsSpan(v, f, c, g) ==
  /\ ToOuts(v, f, c, g) \in Seq(Byte)
  /\ g.outs = <<>> => ToOuts(v, f, c, g) = ToIns(v, f, Len(g.ins), g) \o WriteVarInt(c)
  /\ \A x \in TxOuts : \A h : h.ins = g.ins /\ h.outs = Append(g.outs, x) =>
       ToOuts(v, f, c, h) = ToOuts(v, f, c, g) \o WriteTxOut(x)

\* The outputs span what ToOuts says.
LEMMA SpanOuts ==
  ASSUME NEW v \in Ints(4), NEW f \in BOOLEAN, NEW c \in Unsigneds(8), NEW g, Writable(g),
         Len(g.ins) \in Unsigneds(8)
  PROVE  OutsSpan(v, f, c, g)
<1> DEFINE a == ToIns(v, f, Len(g.ins), g)
           b == WriteVarInt(c)
           e == OutsBytes(g.outs)
<1>1. a \in Seq(Byte) /\ b \in Seq(Byte)
  BY SpanIns, VarIntWritten DEF InsSpan
<1>2. /\ e \in Seq(Byte) /\ (g.outs = <<>> => e = <<>>)
      /\ \A x \in TxOuts : OutsBytes(Append(g.outs, x)) = e \o WriteTxOut(x) /\ WriteTxOut(x) \in Seq(Byte)
  BY OutsWritten, TxOutIs DEF Writable
<1>3. /\ ToOuts(v, f, c, g) = a \o b \o e
      /\ \A h : h.ins = g.ins => ToOuts(v, f, c, h) = a \o b \o OutsBytes(h.outs)
  BY DEF ToOuts, ToIns
<1> HIDE DEF a, b, e
<1>4. Regroups(a, b, e)
  BY <1>1, <1>2, GoesOn, Zenon
<1>5. e = <<>> => a \o b \o e = a \o b
  BY <1>4 DEF Regroups
<1>6. ASSUME NEW x \in TxOuts, NEW h, h.ins = g.ins, h.outs = Append(g.outs, x)
      PROVE  ToOuts(v, f, c, h) = ToOuts(v, f, c, g) \o WriteTxOut(x)
  <2>1. ToOuts(v, f, c, h) = a \o b \o (e \o WriteTxOut(x)) /\ WriteTxOut(x) \in Seq(Byte)
    BY <1>2, <1>3, <1>6
  <2>2. a \o b \o (e \o WriteTxOut(x)) = (a \o b \o e) \o WriteTxOut(x)
    BY <1>4, <2>1, Zenon DEF Regroups
  <2> QED
    BY <1>3, <2>1, <2>2
<1> QED
  BY <1>2, <1>3, <1>4, <1>5, <1>6 DEF a, b, Regroups, OutsSpan

WitsSpan(v, f, g) ==
  /\ ToWits(v, f, g) \in Seq(Byte)
  /\ g.done = <<>> => ToWits(v, f, g) = ToOuts(v, f, Len(g.outs), g)

\* The witnesses that are complete span what ToWits says.
LEMMA SpanWits ==
  ASSUME NEW v \in Ints(4), NEW f \in BOOLEAN, NEW g, Writable(g),
         Len(g.ins) \in Unsigneds(8), Len(g.outs) \in Unsigneds(8)
  PROVE  WitsSpan(v, f, g)
<1> DEFINE a == ToOuts(v, f, Len(g.outs), g)
           e == WitsBytes(g.done)
<1>1. a \in Seq(Byte)
  BY SpanOuts DEF OutsSpan
<1>2. e \in Seq(Byte) /\ (g.done = <<>> => e = <<>>)
  BY WitsWritten DEF Writable
<1>3. ToWits(v, f, g) = a \o e
  BY DEF ToWits
<1> HIDE DEF a, e
<1>4. a \o e \in Seq(Byte) /\ (e = <<>> => a \o e = a)
  BY <1>1, <1>2
<1> QED
  BY <1>2, <1>3, <1>4 DEF a, WitsSpan

ItemsSpan(v, f, c, g) ==
  /\ ToItems(v, f, c, g) \in Seq(Byte)
  /\ g.item = <<>> => ToItems(v, f, c, g) = ToWits(v, f, g) \o WriteVarInt(c)
  /\ \A x \in Slices(Byte) : \A h :
       h.ins = g.ins /\ h.outs = g.outs /\ h.done = g.done /\ h.item = Append(g.item, x) =>
         ToItems(v, f, c, h) = ToItems(v, f, c, g) \o WriteVarBytes(x)
  /\ \A h : h.ins = g.ins /\ h.outs = g.outs /\ h.done = Append(g.done, g.item) /\ c = Len(g.item)
       => ToWits(v, f, h) = ToItems(v, f, c, g)

\* So do the items of the witness that is being read.
LEMMA SpanItems ==
  ASSUME NEW v \in Ints(4), NEW f \in BOOLEAN, NEW c \in Unsigneds(8), NEW g, Writable(g),
         Len(g.ins) \in Unsigneds(8), Len(g.outs) \in Unsigneds(8)
  PROVE  ItemsSpan(v, f, c, g)
<1> DEFINE a == ToWits(v, f, g)
           b == WriteVarInt(c)
           e == ItemsBytes(g.item)
<1>1. a \in Seq(Byte) /\ b \in Seq(Byte)
  BY SpanWits, VarIntWritten DEF WitsSpan
<1>2. /\ e \in Seq(Byte) /\ (g.item = <<>> => e = <<>>)
      /\ \A x \in Slices(Byte) :
           ItemsBytes(Append(g.item, x)) = e \o WriteVarBytes(x) /\ WriteVarBytes(x) \in Seq(Byte)
  BY ItemsWritten, VarBytesAre DEF Writable
<1>3. /\ ToItems(v, f, c, g) = a \o b \o e
      /\ \A h : h.ins = g.ins /\ h.outs = g.outs /\ h.done = g.done =>
           ToItems(v, f, c, h) = a \o b \o ItemsBytes(h.item)
  BY DEF ToItems, ToWits, ToOuts, ToIns
<1>7. ASSUME NEW h, h.ins = g.ins, h.outs = g.outs, h.done = Append(g.done, g.item), c = Len(g.item)
      PROVE  ToWits(v, f, h) = a \o b \o e
  <2> DEFINE o == ToOuts(v, f, Len(g.outs), g)
             w == WitsBytes(g.done)
  <2>1. g.item \in Slices(Slices(Byte))
    <3>1. Power(8) \in Nat
      BY PowerValues
    <3> QED
      BY <1>7, <3>1 DEF Writable, Slices, Unsigneds
  <2>2. WitsBytes(Append(g.done, g.item)) = w \o (b \o e) /\ w \in Seq(Byte)
    BY <1>7, <2>1, WitsWritten, WitnessIs DEF Writable
  <2>3. ToWits(v, f, h) = o \o (w \o (b \o e)) /\ a = o \o w
    <3>1. ToOuts(v, f, Len(h.outs), h) = o
      BY <1>7 DEF ToOuts, ToIns
    <3>2. ToWits(v, f, h) = o \o WitsBytes(h.done)
      BY <3>1 DEF ToWits
    <3> QED
      BY <1>7, <2>2, <3>2 DEF ToWits
  <2>4. o \in Seq(Byte)
    BY SpanOuts DEF OutsSpan
  <2> HIDE DEF a, b, e, o, w
  <2>5. b \o e \in Seq(Byte)
    BY <1>1, <1>2
  <2>6. \A x, y, z \in Seq(Byte) : (x \o y) \o z = x \o (y \o z)
    BY Assoc
  <2>7. o \o (w \o (b \o e)) = a \o (b \o e)
    BY <2>2, <2>3, <2>4, <2>5, <2>6, Zenon
  <2>8. a \o (b \o e) = (a \o b) \o e
    BY <1>1, <1>2, <2>6, Zenon
  <2> QED
    BY <2>3, <2>7, <2>8
<1> HIDE DEF a, b, e
<1>4. Regroups(a, b, e)
  BY <1>1, <1>2, GoesOn, Zenon
<1>5. e = <<>> => a \o b \o e = a \o b
  BY <1>4 DEF Regroups
<1>6. ASSUME NEW x \in Slices(Byte), NEW h, h.ins = g.ins, h.outs = g.outs, h.done = g.done,
             h.item = Append(g.item, x)
      PROVE  ToItems(v, f, c, h) = ToItems(v, f, c, g) \o WriteVarBytes(x)
  <2>1. ToItems(v, f, c, h) = a \o b \o (e \o WriteVarBytes(x)) /\ WriteVarBytes(x) \in Seq(Byte)
    BY <1>2, <1>3, <1>6
  <2>2. a \o b \o (e \o WriteVarBytes(x)) = (a \o b \o e) \o WriteVarBytes(x)
    BY <1>4, <2>1, Zenon DEF Regroups
  <2> QED
    BY <1>3, <2>1, <2>2
<1>8. ToItems(v, f, c, g) \in Seq(Byte)
  BY <1>3, <1>4 DEF Regroups
<1>9. g.item = <<>> => ToItems(v, f, c, g) = a \o b
  BY <1>2, <1>3, <1>5
<1>10. ASSUME NEW h, h.ins = g.ins, h.outs = g.outs, h.done = Append(g.done, g.item), c = Len(g.item)
       PROVE  ToWits(v, f, h) = ToItems(v, f, c, g)
  BY <1>3, <1>7, <1>10
<1>11. g.item = <<>> => ToItems(v, f, c, g) = ToWits(v, f, g) \o WriteVarInt(c)
  BY <1>9 DEF a, b
<1>12. \A x \in Slices(Byte) : \A h :
         h.ins = g.ins /\ h.outs = g.outs /\ h.done = g.done /\ h.item = Append(g.item, x) =>
           ToItems(v, f, c, h) = ToItems(v, f, c, g) \o WriteVarBytes(x)
  BY <1>6, Zenon
<1>13. \A h : h.ins = g.ins /\ h.outs = g.outs /\ h.done = Append(g.done, g.item) /\ c = Len(g.item)
         => ToWits(v, f, h) = ToItems(v, f, c, g)
  BY <1>10, Zenon
<1> HIDE DEF a, b, e
<1> QED
  BY <1>8, <1>11, <1>12, <1>13 DEF ItemsSpan

\* A transaction is these parts.
LEMMA EncodeParts ==
  ASSUME NEW tx, NEW f \in BOOLEAN, NEW g, g.ins = tx.txIn, g.outs = tx.txOut,
         DOMAIN g.done = (IF f THEN DOMAIN tx.txIn ELSE {}), Writable(g),
         f => \A i \in DOMAIN tx.txIn : g.done[i] = tx.txIn[i].witness
  PROVE  Encode(tx, f) = ToEnd(tx.version, f, tx.lockTime, g)
<1> DEFINE w == IF f THEN FlattenSeq([i \in DOMAIN tx.txIn |-> writeTxWitness(tx.txIn[i].witness)])
                     ELSE <<>>
<1>1. w = WitsBytes(g.done)
  <2>1. CASE f
    <3>1. DOMAIN g.done = DOMAIN tx.txIn /\ \A i \in DOMAIN tx.txIn : g.done[i] = tx.txIn[i].witness
      BY <2>1
    <3>2. [i \in DOMAIN tx.txIn |-> writeTxWitness(tx.txIn[i].witness)]
            = [i \in DOMAIN g.done |-> writeTxWitness(g.done[i])]
      BY <3>1
    <3> QED
      BY <2>1, <3>2 DEF WitsBytes
  <2>2. CASE ~ f
    <3>1. DOMAIN g.done = {} /\ g.done \in Seq(Slices(Slices(Byte)))
      BY <2>2 DEF Writable
    <3>2. g.done = <<>>
      BY <3>1
    <3> QED
      BY <2>2, <3>1, <3>2, WitsWritten
  <2> QED
    BY <2>1, <2>2
<1> HIDE DEF w
<1>2. Encode(tx, f) = Preamble(tx.version, f) \o WriteVarInt(Len(tx.txIn)) \o InsBytes(tx.txIn)
                        \o WriteVarInt(Len(tx.txOut)) \o OutsBytes(tx.txOut) \o w \o Put(4, tx.lockTime)
  BY DEF Encode, Preamble, InsBytes, OutsBytes, w
<1> QED
  BY <1>1, <1>2 DEF ToEnd, ToWits, ToOuts, ToIns

\* What ReadHeader has read from s.
HeaderIs(h, s, enc) ==
  /\ h.version \in Ints(4) /\ h.flag \in BOOLEAN /\ h.count \in Unsigneds(8)
  /\ h.rest \in Seq(Byte)
  /\ (Preamble(h.version, h.flag) \o WriteVarInt(h.count)) \o h.rest = s
  /\ h.flag => enc = "witness"
  /\ enc = "witness" /\ ~ h.flag => h.count # 0

\* The marker and the flag are two bytes.
LEMMA MarkerBytes ==
  /\ WriteVarInt(0) = <<0>> /\ Put(1, WitnessFlag) = <<WitnessFlag>>
  /\ <<0>> \in Seq(Byte) /\ <<WitnessFlag>> \in Seq(Byte) /\ <<0, WitnessFlag>> \in Seq(Byte)
  /\ 0 \in Unsigneds(8) /\ WitnessFlag \in Unsigneds(1)
  /\ \A x \in Seq(Byte) : <<0>> \o (<<WitnessFlag>> \o x) = <<0, WitnessFlag>> \o x
<1>1. 0 \in Byte /\ WitnessFlag \in Byte /\ 0 < Base - 3 /\ 0 \in Nat
  BY WireAssumption DEF WitnessFlag, Byte
<1>2. WriteVarInt(0) = <<0>> /\ 0 \in Unsigneds(8)
  BY <1>1, NarrowForm, PutByte
<1>3. Put(1, WitnessFlag) = <<WitnessFlag>> /\ WitnessFlag \in Unsigneds(1)
  BY <1>1, PutByte
<1>4. <<0>> \in Seq(Byte) /\ <<WitnessFlag>> \in Seq(Byte) /\ <<0, WitnessFlag>> \in Seq(Byte)
  BY <1>1
<1>5. ASSUME NEW x \in Seq(Byte) PROVE <<0>> \o (<<WitnessFlag>> \o x) = <<0, WitnessFlag>> \o x
  <2> DEFINE a == <<0>>
             b == <<WitnessFlag>>
  <2> DEFINE c == a \o b
             e == <<0, WitnessFlag>>
  <2>1. c = e
    <3>1. c \in Seq(Byte) /\ Len(c) = 2 /\ c[1] = 0 /\ c[2] = WitnessFlag
      BY <1>4
    <3>2. e \in Seq(Byte) /\ Len(e) = 2 /\ e[1] = 0 /\ e[2] = WitnessFlag
      BY <1>4
    <3> HIDE DEF c, e
    <3>3. \A i \in 1 .. 2 : c[i] = e[i]
      <4>1. \A i \in 1 .. 2 : i = 1 \/ i = 2
        OBVIOUS
      <4> QED
        BY <3>1, <3>2, <4>1
    <3> QED
      BY <3>1, <3>2, <3>3, SeqEqual
  <2>2. a \in Seq(Byte) /\ b \in Seq(Byte)
    BY <1>4
  <2> HIDE DEF a, b
  <2>3. (a \o b) \o x = a \o (b \o x)
    BY <2>2, Assoc
  <2> QED
    BY <2>1, <2>3 DEF a, b, c, e
<1> QED
  BY <1>2, <1>3, <1>4, <1>5

\* Two ways to group an opening, a count and what follows.
OpensWith(v, f, c, x) ==
  (Preamble(v, f) \o WriteVarInt(c)) \o x
    = Put(4, v) \o (IF f THEN <<0, WitnessFlag>> \o (WriteVarInt(c) \o x) ELSE WriteVarInt(c) \o x)

\* What follows the opening.
LEMMA OpeningJoins ==
  ASSUME NEW v \in Ints(4), NEW f \in BOOLEAN, NEW c \in Unsigneds(8), NEW x \in Seq(Byte)
  PROVE  OpensWith(v, f, c, x)
<1> DEFINE a == Put(4, v)
           b == IF f THEN <<0, WitnessFlag>> ELSE <<>>
           e == WriteVarInt(c)
<1>1. a \in Seq(Byte)
  <2>1. 4 \in Nat /\ v \in Int
    BY PowerValues, SignedNumbers
  <2> QED
    BY <2>1, Puts
<1>2. b \in Seq(Byte) /\ e \in Seq(Byte)
  BY MarkerBytes, NoBytes, VarIntWritten
<1>3. Preamble(v, f) = a \o b
  BY DEF Preamble
<1> HIDE DEF a, b, e
<1>4. a \o b \in Seq(Byte) /\ e \o x \in Seq(Byte)
  BY <1>1, <1>2
<1>5. \A p, q, r \in Seq(Byte) : (p \o q) \o r = p \o (q \o r)
  BY Assoc
<1>6. ((a \o b) \o e) \o x = (a \o b) \o (e \o x)
  BY <1>2, <1>4, <1>5, ZenonT(60)
<1>7. (a \o b) \o (e \o x) = a \o (b \o (e \o x))
  BY <1>1, <1>2, <1>4, <1>5, Zenon
<1>8. ~ f => b \o (e \o x) = e \o x
  BY <1>4 DEF b
<1>9. f => b = <<0, WitnessFlag>>
  BY DEF b
<1> QED
  BY <1>3, <1>6, <1>7, <1>8, <1>9 DEF a, e, OpensWith

\* ReadHeader is exact.
LEMMA HeaderStart ==
  ASSUME NEW s \in Seq(Byte), NEW enc, NEW h, h = ReadHeader(s, enc), h.ok
  PROVE  HeaderIs(h, s, enc)
<1> DEFINE f == ReadFull(s, 4)
           version == Uint(s, 4)
           count == ReadVarInt(version.rest)
           flag == Uint(count.rest, 1)
           more == ReadVarInt(flag.rest)
           last == IF IsMarker(count, enc) THEN more ELSE count
<1>1. /\ last.ok /\ h.version = Signed(4, version.val) /\ h.flag = (IF IsMarker(count, enc) THEN TRUE ELSE FALSE)
      /\ h.count = last.val /\ h.rest = last.rest
      /\ IsMarker(count, enc) => flag.ok /\ flag.val = WitnessFlag
  <2>1. CASE IsMarker(count, enc)
    BY <2>1 DEF ReadHeader
  <2>2. CASE ~ IsMarker(count, enc)
    BY <2>2 DEF ReadHeader
  <2> QED
    BY <2>1, <2>2
<1>2. /\ f.ok \in BOOLEAN /\ f.rest \in Seq(Byte)
      /\ f.ok => f.val \in Seq(Byte) /\ Len(f.val) = 4 /\ f.val \o f.rest = s
  BY ReadFullExact
<1>3. version = IF f.ok THEN Found(Value(f.val), f.rest) ELSE Failed
  BY DEF Uint
<1> HIDE DEF f, version
<1>4. version.rest \in Seq(Byte)
  BY <1>2, <1>3, NoBytes DEF Found, Failed
<1>5. /\ count.ok \in BOOLEAN /\ count.rest \in Seq(Byte)
      /\ count.ok => count.val \in Unsigneds(8) /\ WriteVarInt(count.val) \o count.rest = version.rest
  BY <1>4, VarIntExact
<1> HIDE DEF count
<1>6. count.ok
  BY <1>1 DEF IsMarker
<1>7. f.ok
  <2>1. CASE ~ f.ok
    <3>1. version.rest = <<>>
      BY <1>3, <2>1 DEF Failed
    <3> DEFINE w == WriteVarInt(count.val)
    <3>2. w \in Seq(Byte) /\ Len(w) >= 1
      BY <1>5, <1>6, VarIntWritten, SMTT(30)
    <3> HIDE DEF w
    <3>3. Len(w \o count.rest) = Len(w) + Len(count.rest)
      BY <1>5, <3>2
    <3>4. Len(w \o count.rest) = 0
      <4>1. w \o count.rest = <<>>
        BY <1>5, <1>6, <3>1 DEF w
      <4> QED
        BY <4>1
    <3> QED
      BY <1>5, <3>2, <3>3, <3>4
  <2> QED
    BY <1>2, <2>1
<1>8. /\ h.version \in Ints(4) /\ Put(4, h.version) = f.val /\ version.rest = f.rest
      /\ f.val \in Seq(Byte)
  <2>1. 4 \in Nat /\ Power(4) % 2 = 0
    BY PowerValues
  <2>2. version.val = Value(f.val) /\ version.rest = f.rest
    BY <1>3, <1>7 DEF Found
  <2>3. Signed(4, Value(f.val)) \in Ints(4) /\ Put(4, Signed(4, Value(f.val))) = f.val
    BY <1>2, <1>7, <2>1, SignedNumbers
  <2> QED
    BY <1>1, <1>2, <1>7, <2>2, <2>3
<1>9. CASE ~ IsMarker(count, enc)
  <2>1. h.flag = FALSE /\ h.count = count.val /\ h.rest = count.rest
    BY <1>1, <1>9
  <2>2. enc = "witness" => h.count # 0
    BY <1>6, <1>9, <2>1 DEF IsMarker
  <2> DEFINE e == WriteVarInt(h.count) \o h.rest
  <2>3. e = f.rest /\ h.count \in Unsigneds(8) /\ h.rest \in Seq(Byte)
    BY <1>5, <1>6, <1>8, <2>1
  <2>4. OpensWith(h.version, FALSE, h.count, h.rest)
    BY <1>8, <2>3, OpeningJoins
  <2>6. (Preamble(h.version, h.flag) \o WriteVarInt(h.count)) \o h.rest = s
    BY <1>2, <1>7, <1>8, <2>1, <2>3, <2>4 DEF OpensWith
  <2> QED
    BY <1>8, <2>1, <2>2, <2>3, <2>6 DEF HeaderIs
<1>10. CASE IsMarker(count, enc)
  <2>1. h.flag = TRUE /\ h.count = more.val /\ h.rest = more.rest /\ more.ok /\ flag.ok
    BY <1>1, <1>10
  <2>2. flag.rest \in Seq(Byte) /\ Put(1, WitnessFlag) \o flag.rest = count.rest
    <3>1. flag.ok => flag.val \in Unsigneds(1) /\ Put(1, flag.val) \o flag.rest = count.rest
      BY <1>5, UintExact
    <3>2. flag.rest \in Seq(Byte)
      BY <1>5, UintExact
    <3> QED
      BY <1>1, <1>10, <3>1, <3>2
  <2> HIDE DEF flag
  <2>3. h.count \in Unsigneds(8) /\ h.rest \in Seq(Byte) /\ WriteVarInt(h.count) \o h.rest = flag.rest
    BY <2>1, <2>2, VarIntExact
  <2> HIDE DEF more
  <2>4. count.val = 0 /\ enc = "witness"
    BY <1>10 DEF IsMarker
  <2>5. <<0>> \o (<<WitnessFlag>> \o flag.rest) = f.rest
    BY <1>5, <1>6, <1>8, <2>2, <2>4, MarkerBytes
  <2>6. <<0, WitnessFlag>> \o flag.rest = f.rest
    BY <2>2, <2>5, MarkerBytes
  <2>7. OpensWith(h.version, TRUE, h.count, h.rest)
    BY <1>8, <2>3, OpeningJoins
  <2>8. (Preamble(h.version, h.flag) \o WriteVarInt(h.count)) \o h.rest = s
    BY <1>2, <1>7, <1>8, <2>1, <2>3, <2>6, <2>7 DEF OpensWith
  <2> QED
    BY <1>8, <2>1, <2>3, <2>4, <2>8 DEF HeaderIs
<1> QED
  BY <1>9, <1>10

-------------------------------------------------------------------------------
(* Between the bytes and what a decoder has made of them.                  *)

Heads  == {HeadOf(x) : x \in InParts}
Values == [value : Ints(8)]

\* The message keeps what is not a script.
Unscripted(s, g) ==
  /\ s.msg.txIn \in Seq(Heads) /\ Len(s.msg.txIn) = Len(g.ins)
  /\ \A i \in 1 .. Len(g.ins) : s.msg.txIn[i] = HeadOf(g.ins[i])
  /\ s.msg.txOut \in Seq(Values) /\ Len(s.msg.txOut) = Len(g.outs)
  /\ \A i \in 1 .. Len(g.outs) : s.msg.txOut[i] = [value |-> g.outs[i].value]

\* The bytes that are read are those of the parts.
SpellsIns(s, g) ==
  /\ s.count \in Unsigneds(8) /\ s.at = Len(g.ins) /\ s.at <= s.count /\ s.input = 0
  /\ g.outs = <<>> /\ g.done = <<>> /\ g.item = <<>>
  /\ s.job.enc = "witness" /\ ~ s.flag => s.count # 0
  /\ ToIns(s.msg.version, s.flag, s.count, g) \o s.in = s.job.bytes

HasIns(s, g) ==
  /\ Len(g.ins) \in Unsigneds(8)
  /\ s.job.enc = "witness" /\ ~ s.flag => Len(g.ins) # 0

SpellsOuts(s, g) ==
  /\ s.count \in Unsigneds(8) /\ s.at = Len(g.outs) /\ s.at <= s.count /\ s.input = 0
  /\ g.done = <<>> /\ g.item = <<>> /\ HasIns(s, g)
  /\ ToOuts(s.msg.version, s.flag, s.count, g) \o s.in = s.job.bytes

SpellsItems(s, g) ==
  /\ s.count \in Unsigneds(8) /\ s.at = Len(g.item) /\ s.at <= s.count
  /\ s.input = Len(g.done) + 1 /\ s.input <= Len(g.ins) /\ s.flag
  /\ HasIns(s, g) /\ Len(g.outs) \in Unsigneds(8)
  /\ ToItems(s.msg.version, s.flag, s.count, g) \o s.in = s.job.bytes

SpellsEnd(s, g) ==
  /\ Len(g.done) = (IF s.flag THEN Len(g.ins) ELSE 0) /\ g.item = <<>>
  /\ HasIns(s, g) /\ Len(g.outs) \in Unsigneds(8) /\ s.msg.lockTime \in Unsigneds(4)
  /\ ToEnd(s.msg.version, s.flag, s.msg.lockTime, g) \o s.in = s.job.bytes

Spells(s, g) ==
  /\ s.msg.version \in Ints(4) /\ s.flag \in BOOLEAN /\ (s.flag => s.job.enc = "witness")
  /\ s.pc = "txIn" => SpellsIns(s, g)
  /\ s.pc = "txOut" => SpellsOuts(s, g)
  /\ s.pc = "witness" => SpellsItems(s, g)
  /\ s.pc \in {"copy", "return", "done"} => SpellsEnd(s, g)

Holds(s, m, g) == g \in Partials /\ Texts(s, m, g) /\ Unscripted(s, g) /\ Spells(s, g)

NoParts == [ins |-> <<>>, outs |-> <<>>, done |-> <<>>, item |-> <<>>]

\* The header has been read.
LEMMA StartHolds ==
  ASSUME NEW n, NEW m, NEW job, NEW h, Starts(n, job, h), n.pc = "txIn", HeaderIs(h, job.bytes, job.enc)
  PROVE  Holds(n, m, NoParts)
<1> DEFINE g == NoParts
<1>1. /\ n.msg.version = h.version /\ n.flag = h.flag /\ n.count = h.count /\ n.in = h.rest
      /\ n.at = 0 /\ n.input = 0 /\ n.job = job /\ DOMAIN n.refs = {}
      /\ n.msg.txIn = <<>> /\ n.msg.txOut = <<>>
  BY DEF Starts
<1>2. g.ins = <<>> /\ g.outs = <<>> /\ g.done = <<>> /\ g.item = <<>>
  BY DEF NoParts
<1>3. g \in Partials
  BY DEF NoParts, Partials
<1> HIDE DEF g
<1>4. Texts(n, m, g)
  <2>1. \A i : DOMAIN Wit(g, i) = {}
    BY <1>2 DEF Wit
  <2>2. \A p : ~ Has(g, p)
    BY <1>2, <2>1 DEF Has
  <2> QED
    BY <1>1, <2>2 DEF Texts
<1>5. Unscripted(n, g)
  BY <1>1, <1>2 DEF Unscripted
<1>6. SpellsIns(n, g)
  <2>1. h.version \in Ints(4) /\ h.flag \in BOOLEAN /\ h.count \in Unsigneds(8) /\ h.count \in Nat
    BY PowerValues DEF HeaderIs, Unsigneds
  <2>2. ToIns(h.version, h.flag, h.count, g) = Preamble(h.version, h.flag) \o WriteVarInt(h.count)
    <3>1. Writable(g)
      BY <1>3, PartsWritable
    <3>2. InsSpan(h.version, h.flag, h.count, g)
      BY <2>1, <3>1, SpanIns
    <3> QED
      BY <1>2, <3>2 DEF InsSpan
  <2>3. ToIns(n.msg.version, n.flag, n.count, g) \o n.in = n.job.bytes
    BY <1>1, <2>2 DEF HeaderIs
  <2>4. Len(g.ins) = 0
    BY <1>2
  <2> QED
    BY <1>1, <1>2, <2>1, <2>3, <2>4 DEF SpellsIns, HeaderIs
<1>7. Spells(n, g)
  BY <1>1, <1>6 DEF Spells, HeaderIs
<1> QED
  BY <1>3, <1>4, <1>5, <1>7 DEF Holds, g

\* One more script has been read.
LEMMA TextsRead ==
  ASSUME NEW s, NEW m, NEW g, Texts(s, m, g), NEW script, m = script.mem,
         NEW text, \E in, max : Reads(script, in, max, text), NEW n, NEW slot, slot \notin DOMAIN s.refs,
         NEW rest, Grown(s, n, slot, script, rest), NEW h, More(g, h, slot, text)
  PROVE  Texts(n, m, h)
<1>1. /\ script.ref.buf \in Bufs /\ m[script.ref.buf].data = text
      /\ text \in Seq(Byte) /\ Len(text) = script.ref.len
  BY DEF Reads
<1>2. /\ m[script.ref.buf].data \in Seq(Byte) /\ Len(m[script.ref.buf].data) = script.ref.len
      /\ TextOf(h, slot) = m[script.ref.buf].data
  BY <1>1 DEF More
<1> QED
  BY <1>1, <1>2, TextsGrown DEF More

\* One input.
LEMMA TxInHolds ==
  ASSUME NEW s, NEW m, NEW g, Holds(s, m, g), s.pc = "txIn", s.at < s.count,
         NEW r, NEW x, TxInReads(r, s.in, x), m = r.script.mem,
         NEW n, NEW slot, slot = <<"in", s.at + 1, 0>>, slot \notin DOMAIN s.refs,
         Grown(s, n, slot, r.script, r.rest),
         Messages(s, n, Append(s.msg.txIn, r.ti), s.msg.txOut)
  PROVE  \E h : Holds(n, m, h)
<1> DEFINE h == [ins |-> Append(g.ins, x), outs |-> g.outs, done |-> g.done, item |-> g.item]
<1>1. h.ins = Append(g.ins, x) /\ h.outs = g.outs /\ h.done = g.done /\ h.item = g.item
  OBVIOUS
<1>2. g \in Partials /\ Texts(s, m, g) /\ Unscripted(s, g) /\ Spells(s, g) /\ SpellsIns(s, g)
  BY DEF Holds, Spells
<1>3. x \in InParts /\ r.ti = HeadOf(x) /\ r.rest \in Seq(Byte) /\ writeTxIn(x) \o r.rest = s.in
  BY DEF TxInReads
<1>4. h \in Partials
  BY <1>2, <1>3 DEF Partials
<1> HIDE DEF h
<1>5. Texts(n, m, h)
  <2> DEFINE script == r.script
             text == x.script
  <2>1. \E in, max : Reads(script, in, max, text)
    BY DEF TxInReads
  <2>3. More(g, h, slot, text)
    <3>1. g.done = <<>> /\ g.item = <<>> /\ slot = <<"in", Len(g.ins) + 1, 0>>
      BY <1>2 DEF SpellsIns
    <3> QED
      BY <1>1, <1>2, <1>3, <3>1, MoreIns
  <2>4. Grown(s, n, slot, script, r.rest) /\ m = script.mem
    OBVIOUS
  <2> HIDE DEF script, text
  <2> QED
    BY <1>2, <2>1, <2>3, <2>4, TextsRead
<1>6. Unscripted(n, h)
  <2>1. n.msg.txIn = Append(s.msg.txIn, HeadOf(x)) /\ n.msg.txOut = s.msg.txOut
    BY <1>3 DEF Messages
  <2> DEFINE k == Len(g.ins)
             y == HeadOf(x)
  <2>2. /\ s.msg.txIn \in Seq(Heads) /\ Len(s.msg.txIn) = k /\ y \in Heads
        /\ \A i \in 1 .. k : s.msg.txIn[i] = HeadOf(g.ins[i])
    BY <1>2, <1>3 DEF Unscripted, Heads
  <2>3. /\ k \in Nat /\ Len(h.ins) = k + 1 /\ h.ins[k + 1] = x /\ \A i \in 1 .. k : h.ins[i] = g.ins[i]
    BY <1>1, <1>2, <1>3, Appended DEF Partials
  <2> HIDE DEF k, y
  <2>4. /\ n.msg.txIn \in Seq(Heads) /\ Len(n.msg.txIn) = k + 1 /\ n.msg.txIn[k + 1] = y
        /\ \A i \in 1 .. k : n.msg.txIn[i] = s.msg.txIn[i]
    BY <2>1, <2>2, Appended DEF y
  <2>5. \A i \in 1 .. k + 1 : n.msg.txIn[i] = HeadOf(h.ins[i])
    <3>1. \A i \in 1 .. k + 1 : i \in 1 .. k \/ i = k + 1
      BY <2>3
    <3> QED
      BY <2>2, <2>3, <2>4, <3>1 DEF y
  <2> QED
    BY <1>1, <1>2, <2>1, <2>3, <2>4, <2>5 DEF Unscripted
<1>7. Spells(n, h)
  <2>1. /\ n.pc = s.pc /\ n.job = s.job /\ n.flag = s.flag /\ n.count = s.count /\ n.input = s.input
        /\ n.at = s.at + 1 /\ n.in = r.rest /\ n.msg.version = s.msg.version
    BY DEF Grown, Messages
  <2> DEFINE v == s.msg.version
             f == s.flag
             c == s.count
  <2>2. v \in Ints(4) /\ f \in BOOLEAN /\ c \in Unsigneds(8) /\ c \in Nat
    BY <1>2, PowerValues DEF Spells, SpellsIns, Unsigneds
  <2>3. /\ Writable(g) /\ x \in AnyIns /\ writeTxIn(x) \in Seq(Byte)
    BY <1>2, <1>3, PartsWritable, TxInBytes DEF AnyIns
  <2>11. InsSpan(v, f, c, g)
    BY <2>2, <2>3, SpanIns
  <2>4. ToIns(v, f, c, g) \in Seq(Byte)
    BY <2>11 DEF InsSpan
  <2>5. ToIns(v, f, c, h) = ToIns(v, f, c, g) \o writeTxIn(x)
    BY <1>1, <2>3, <2>11 DEF InsSpan
  <2> DEFINE p == ToIns(v, f, c, g)
             e == writeTxIn(x)
  <2>6. p \o s.in = s.job.bytes
    BY <1>2 DEF SpellsIns
  <2> HIDE DEF p, e
  <2>7. (p \o e) \o r.rest = s.job.bytes
    <3>1. p \in Seq(Byte) /\ e \in Seq(Byte) /\ r.rest \in Seq(Byte) /\ e \o r.rest = s.in
      BY <1>3, <2>3, <2>4 DEF p, e
    <3>2. (p \o e) \o r.rest = p \o (e \o r.rest)
      BY <3>1, Assoc, Zenon
    <3> QED
      BY <2>6, <3>1, <3>2
  <2>8. ToIns(n.msg.version, n.flag, n.count, h) \o n.in = n.job.bytes
    BY <2>1, <2>5, <2>7 DEF p, e
  <2>9. Len(h.ins) = Len(g.ins) + 1 /\ Len(g.ins) \in Nat
    BY <1>1, <1>2, <1>3, Appended DEF Partials
  <2>10. SpellsIns(n, h)
    <3>1. /\ s.at = Len(g.ins) /\ s.input = 0 /\ g.outs = <<>> /\ g.done = <<>> /\ g.item = <<>>
          /\ s.job.enc = "witness" /\ ~ s.flag => s.count # 0
      BY <1>2 DEF SpellsIns
    <3>2. n.at = Len(h.ins) /\ n.at <= n.count /\ n.count \in Unsigneds(8)
      BY <2>1, <2>2, <2>9, <3>1
    <3> QED
      BY <1>1, <2>1, <2>8, <3>1, <3>2 DEF SpellsIns
  <2> QED
    BY <1>2, <2>1, <2>10 DEF Spells
<1>8. Holds(n, m, h)
  BY <1>4, <1>5, <1>6, <1>7 DEF Holds
<1> QED
  BY <1>8

\* One output.
LEMMA TxOutHolds ==
  ASSUME NEW s, NEW m, NEW g, Holds(s, m, g), s.pc = "txOut", s.at < s.count,
         NEW r, NEW x, TxOutReads(r, s.in, x), m = r.script.mem,
         NEW n, NEW slot, slot = <<"out", s.at + 1, 0>>, slot \notin DOMAIN s.refs,
         Grown(s, n, slot, r.script, r.rest),
         Messages(s, n, s.msg.txIn, Append(s.msg.txOut, r.to))
  PROVE  \E h : Holds(n, m, h)
<1> DEFINE h == [ins |-> g.ins, outs |-> Append(g.outs, x), done |-> g.done, item |-> g.item]
<1>1. h.ins = g.ins /\ h.outs = Append(g.outs, x) /\ h.done = g.done /\ h.item = g.item
  OBVIOUS
<1>2. g \in Partials /\ Texts(s, m, g) /\ Unscripted(s, g) /\ Spells(s, g) /\ SpellsOuts(s, g)
  BY DEF Holds, Spells
<1>3. x \in TxOuts /\ r.to = [value |-> x.value] /\ r.rest \in Seq(Byte) /\ WriteTxOut(x) \o r.rest = s.in
  BY DEF TxOutReads
<1>4. h \in Partials
  BY <1>2, <1>3 DEF Partials
<1> HIDE DEF h
<1>5. Texts(n, m, h)
  <2> DEFINE script == r.script
             text == x.script
  <2>1. \E in, max : Reads(script, in, max, text)
    BY DEF TxOutReads
  <2>3. More(g, h, slot, text)
    <3>1. slot = <<"out", Len(g.outs) + 1, 0>>
      BY <1>2 DEF SpellsOuts
    <3> QED
      BY <1>1, <1>2, <1>3, <3>1, MoreOuts
  <2>4. Grown(s, n, slot, script, r.rest) /\ m = script.mem
    OBVIOUS
  <2> HIDE DEF script, text
  <2> QED
    BY <1>2, <2>1, <2>3, <2>4, TextsRead
<1>6. Unscripted(n, h)
  <2> DEFINE k == Len(g.outs)
             y == [value |-> x.value]
  <2>1. n.msg.txOut = Append(s.msg.txOut, y) /\ n.msg.txIn = s.msg.txIn
    BY <1>3 DEF Messages
  <2>2. /\ s.msg.txOut \in Seq(Values) /\ Len(s.msg.txOut) = k /\ y \in Values
        /\ \A i \in 1 .. k : s.msg.txOut[i] = [value |-> g.outs[i].value]
    BY <1>2, <1>3 DEF Unscripted, Values, TxOuts
  <2>3. /\ k \in Nat /\ Len(h.outs) = k + 1 /\ h.outs[k + 1] = x /\ \A i \in 1 .. k : h.outs[i] = g.outs[i]
    BY <1>1, <1>2, <1>3, Appended DEF Partials
  <2> HIDE DEF k, y
  <2>4. /\ n.msg.txOut \in Seq(Values) /\ Len(n.msg.txOut) = k + 1 /\ n.msg.txOut[k + 1] = y
        /\ \A i \in 1 .. k : n.msg.txOut[i] = s.msg.txOut[i]
    BY <2>1, <2>2, Appended
  <2>5. \A i \in 1 .. k + 1 : n.msg.txOut[i] = [value |-> h.outs[i].value]
    <3>1. \A i \in 1 .. k + 1 : i \in 1 .. k \/ i = k + 1
      BY <2>3
    <3> QED
      BY <2>2, <2>3, <2>4, <3>1 DEF y
  <2> QED
    BY <1>1, <1>2, <2>1, <2>3, <2>4, <2>5 DEF Unscripted
<1>7. Spells(n, h)
  <2>1. /\ n.pc = s.pc /\ n.job = s.job /\ n.flag = s.flag /\ n.count = s.count /\ n.input = s.input
        /\ n.at = s.at + 1 /\ n.in = r.rest /\ n.msg.version = s.msg.version
    BY DEF Grown, Messages
  <2> DEFINE v == s.msg.version
             f == s.flag
             c == s.count
  <2>2. v \in Ints(4) /\ f \in BOOLEAN /\ c \in Unsigneds(8) /\ c \in Nat /\ Len(g.ins) \in Unsigneds(8)
    BY <1>2, PowerValues DEF Spells, SpellsOuts, HasIns, Unsigneds
  <2>3. /\ Writable(g) /\ WriteTxOut(x) \in Seq(Byte)
    BY <1>2, <1>3, PartsWritable, TxOutIs
  <2>11. OutsSpan(v, f, c, g)
    BY <2>2, <2>3, SpanOuts
  <2>4. ToOuts(v, f, c, g) \in Seq(Byte)
    BY <2>11 DEF OutsSpan
  <2>5. ToOuts(v, f, c, h) = ToOuts(v, f, c, g) \o WriteTxOut(x)
    BY <1>1, <1>3, <2>3, <2>11 DEF OutsSpan
  <2> DEFINE p == ToOuts(v, f, c, g)
             e == WriteTxOut(x)
  <2>6. p \o s.in = s.job.bytes
    BY <1>2 DEF SpellsOuts
  <2> HIDE DEF p, e
  <2>7. (p \o e) \o r.rest = s.job.bytes
    <3>1. p \in Seq(Byte) /\ e \in Seq(Byte) /\ r.rest \in Seq(Byte) /\ e \o r.rest = s.in
      BY <1>3, <2>3, <2>4 DEF p, e
    <3>2. (p \o e) \o r.rest = p \o (e \o r.rest)
      BY <3>1, Assoc, Zenon
    <3> QED
      BY <2>6, <3>1, <3>2
  <2>8. ToOuts(n.msg.version, n.flag, n.count, h) \o n.in = n.job.bytes
    BY <2>1, <2>5, <2>7 DEF p, e
  <2>9. Len(h.outs) = Len(g.outs) + 1 /\ Len(g.outs) \in Nat
    BY <1>1, <1>2, <1>3, Appended DEF Partials
  <2>10. SpellsOuts(n, h)
    <3>1. s.at = Len(g.outs) /\ s.input = 0 /\ g.done = <<>> /\ g.item = <<>> /\ HasIns(s, g)
      BY <1>2 DEF SpellsOuts
    <3>2. n.at = Len(h.outs) /\ n.at <= n.count /\ n.count \in Unsigneds(8)
      BY <2>1, <2>2, <2>9, <3>1
    <3>3. HasIns(n, h)
      BY <1>1, <2>1, <3>1 DEF HasIns
    <3> QED
      BY <1>1, <2>1, <2>8, <3>1, <3>2, <3>3 DEF SpellsOuts
  <2> QED
    BY <1>2, <2>1, <2>10 DEF Spells
<1>8. Holds(n, m, h)
  BY <1>4, <1>5, <1>6, <1>7 DEF Holds
<1> QED
  BY <1>8

\* The message of the decoder stays.
LEMMA FieldsKept ==
  ASSUME NEW s, NEW g, Unscripted(s, g), NEW n, n.msg.txIn = s.msg.txIn, n.msg.txOut = s.msg.txOut,
         NEW h, h.ins = g.ins, h.outs = g.outs
  PROVE  Unscripted(n, h)
BY DEF Unscripted

\* One item of a witness.
LEMMA ItemHolds ==
  ASSUME NEW s, NEW m, NEW g, Holds(s, m, g), s.pc = "witness", s.at < s.count,
         NEW r, NEW max, NEW x, Reads(r, s.in, max, x), m = r.mem,
         NEW n, NEW slot, slot = <<"in", s.input, s.at + 1>>, slot \notin DOMAIN s.refs,
         Grown(s, n, slot, r, r.rest), Messages(s, n, s.msg.txIn, s.msg.txOut)
  PROVE  \E h : Holds(n, m, h)
<1> DEFINE h == [ins |-> g.ins, outs |-> g.outs, done |-> g.done, item |-> Append(g.item, x)]
<1>1. h.ins = g.ins /\ h.outs = g.outs /\ h.done = g.done /\ h.item = Append(g.item, x)
  OBVIOUS
<1>2. g \in Partials /\ Texts(s, m, g) /\ Unscripted(s, g) /\ Spells(s, g) /\ SpellsItems(s, g)
  BY DEF Holds, Spells
<1>3. x \in Slices(Byte) /\ r.rest \in Seq(Byte) /\ WriteVarBytes(x) \o r.rest = s.in
  BY DEF Reads, Slices
<1>4. h \in Partials
  BY <1>2, <1>3 DEF Partials
<1> HIDE DEF h
<1>5. Texts(n, m, h)
  <2>1. \E in, a : Reads(r, in, a, x)
    OBVIOUS
  <2>3. More(g, h, slot, x)
    <3>1. slot = <<"in", Len(g.done) + 1, Len(g.item) + 1>> /\ Len(g.done) < Len(g.ins)
      <4>1. s.input = Len(g.done) + 1 /\ s.at = Len(g.item) /\ s.input <= Len(g.ins)
        BY <1>2 DEF SpellsItems
      <4>2. Len(g.done) \in Nat /\ Len(g.ins) \in Nat
        BY <1>2 DEF Partials
      <4> QED
        BY <4>1, <4>2
    <3> QED
      BY <1>1, <1>2, <1>3, <3>1, MoreItems
  <2> QED
    BY <1>2, <2>1, <2>3, TextsRead
<1>6. Unscripted(n, h)
  BY <1>1, <1>2, FieldsKept DEF Messages
<1>7. Spells(n, h)
  <2>1. /\ n.pc = s.pc /\ n.job = s.job /\ n.flag = s.flag /\ n.count = s.count /\ n.input = s.input
        /\ n.at = s.at + 1 /\ n.in = r.rest /\ n.msg.version = s.msg.version
    BY DEF Grown, Messages
  <2> DEFINE v == s.msg.version
             f == s.flag
             c == s.count
  <2>2. /\ v \in Ints(4) /\ f \in BOOLEAN /\ c \in Unsigneds(8) /\ c \in Nat
        /\ Len(g.ins) \in Unsigneds(8) /\ Len(g.outs) \in Unsigneds(8)
    BY <1>2, PowerValues DEF Spells, SpellsItems, HasIns, Unsigneds
  <2>3. /\ Writable(g) /\ WriteVarBytes(x) \in Seq(Byte)
    BY <1>2, <1>3, PartsWritable, VarBytesAre
  <2>11. ItemsSpan(v, f, c, g)
    BY <2>2, <2>3, SpanItems
  <2>4. ToItems(v, f, c, g) \in Seq(Byte)
    BY <2>11 DEF ItemsSpan
  <2>5. ToItems(v, f, c, h) = ToItems(v, f, c, g) \o WriteVarBytes(x)
    BY <1>1, <1>3, <2>3, <2>11 DEF ItemsSpan
  <2> DEFINE p == ToItems(v, f, c, g)
             e == WriteVarBytes(x)
  <2>6. p \o s.in = s.job.bytes
    BY <1>2 DEF SpellsItems
  <2> HIDE DEF p, e
  <2>7. (p \o e) \o r.rest = s.job.bytes
    <3>1. p \in Seq(Byte) /\ e \in Seq(Byte) /\ r.rest \in Seq(Byte) /\ e \o r.rest = s.in
      BY <1>3, <2>3, <2>4 DEF p, e
    <3>2. (p \o e) \o r.rest = p \o (e \o r.rest)
      BY <3>1, Assoc, Zenon
    <3> QED
      BY <2>6, <3>1, <3>2
  <2>8. ToItems(n.msg.version, n.flag, n.count, h) \o n.in = n.job.bytes
    BY <2>1, <2>5, <2>7 DEF p, e
  <2>9. Len(h.item) = Len(g.item) + 1 /\ Len(g.item) \in Nat
    BY <1>1, <1>2, <1>3, Appended DEF Partials
  <2>10. SpellsItems(n, h)
    <3>1. /\ s.at = Len(g.item) /\ s.input = Len(g.done) + 1 /\ s.input <= Len(g.ins) /\ s.flag
          /\ HasIns(s, g) /\ Len(g.outs) \in Unsigneds(8)
      BY <1>2 DEF SpellsItems
    <3>2. n.at = Len(h.item) /\ n.at <= n.count /\ n.count \in Unsigneds(8)
      BY <2>1, <2>2, <2>9, <3>1
    <3>3. HasIns(n, h)
      BY <1>1, <2>1, <3>1 DEF HasIns
    <3> QED
      BY <1>1, <2>1, <2>8, <3>1, <3>2, <3>3 DEF SpellsItems
  <2> QED
    BY <1>2, <2>1, <2>10 DEF Spells
<1>8. Holds(n, m, h)
  BY <1>4, <1>5, <1>6, <1>7 DEF Holds
<1> QED
  BY <1>8

\* The outputs, or another witness, are complete.
Closed(s, m, g) ==
  /\ g \in Partials /\ Texts(s, m, g) /\ Unscripted(s, g) /\ g.item = <<>>
  /\ Len(g.done) = s.input /\ s.input <= Len(g.ins) /\ (~ s.flag => s.input = 0)
  /\ s.msg.version \in Ints(4) /\ s.flag \in BOOLEAN /\ (s.flag => s.job.enc = "witness")
  /\ HasIns(s, g) /\ Len(g.outs) \in Unsigneds(8)
  /\ ToWits(s.msg.version, s.flag, g) \o s.in = s.job.bytes

\* Once the last part was read, the parts are complete.
LEMMA Closing ==
  ASSUME NEW s, NEW m, NEW g, Holds(s, m, g), s.pc \in {"txOut", "witness"}, s.at = s.count
  PROVE  \E h : Closed(s, m, h)
<1> DEFINE v == s.msg.version
           f == s.flag
<1>1. /\ g \in Partials /\ Texts(s, m, g) /\ Unscripted(s, g) /\ Spells(s, g) /\ Writable(g)
  BY PartsWritable DEF Holds
<1>2. v \in Ints(4) /\ f \in BOOLEAN /\ (f => s.job.enc = "witness")
  BY <1>1 DEF Spells
<1>3. CASE s.pc = "txOut"
  <2>1. /\ s.count = Len(g.outs) /\ s.count \in Unsigneds(8) /\ s.input = 0
        /\ g.done = <<>> /\ g.item = <<>> /\ HasIns(s, g)
        /\ ToOuts(v, f, s.count, g) \o s.in = s.job.bytes
    BY <1>1, <1>3 DEF Spells, SpellsOuts
  <2>2. WitsSpan(v, f, g)
    BY <1>1, <1>2, <2>1, SpanWits DEF HasIns
  <2>3. ToWits(v, f, g) \o s.in = s.job.bytes
    BY <2>1, <2>2 DEF WitsSpan
  <2>4. Len(g.done) = s.input /\ s.input <= Len(g.ins)
    <3>1. Len(g.ins) \in Nat
      BY <1>1 DEF Partials
    <3> QED
      BY <2>1, <3>1
  <2>5. Closed(s, m, g)
    BY <1>1, <1>2, <2>1, <2>3, <2>4 DEF Closed
  <2> QED
    BY <2>5
<1>4. CASE s.pc = "witness"
  <2> DEFINE h == [ins |-> g.ins, outs |-> g.outs, done |-> Append(g.done, g.item), item |-> <<>>]
  <2>1. /\ h.ins = g.ins /\ h.outs = g.outs /\ h.done = Append(g.done, g.item) /\ h.item = <<>>
    OBVIOUS
  <2>2. /\ s.count = Len(g.item) /\ s.count \in Unsigneds(8) /\ s.input = Len(g.done) + 1
        /\ s.input <= Len(g.ins) /\ f /\ HasIns(s, g) /\ Len(g.outs) \in Unsigneds(8)
        /\ ToItems(v, f, s.count, g) \o s.in = s.job.bytes
    BY <1>1, <1>4 DEF Spells, SpellsItems
  <2>3. Len(g.item) < Power(8) /\ g.item \in Slices(Slices(Byte))
    <3>1. Power(8) \in Nat
      BY PowerValues
    <3>2. Len(g.item) < Power(8)
      BY <2>2, <3>1 DEF Unsigneds
    <3> QED
      BY <1>1, <3>2 DEF Partials, Slices
  <2>4. h \in Partials /\ Len(h.done) = Len(g.done) + 1
    <3>1. h.done \in Seq(Slices(Slices(Byte))) /\ Len(h.done) = Len(g.done) + 1
      BY <1>1, <2>1, <2>3, Appended DEF Partials
    <3> QED
      BY <1>1, <3>1 DEF Partials
  <2> HIDE DEF h
  <2>5. Texts(s, m, h)
    <3>1. \A p : (Has(h, p) <=> Has(g, p)) /\ TextOf(h, p) = TextOf(g, p)
      BY <1>1, <2>1, <2>3, NextItems
    <3> QED
      BY <1>1, <3>1 DEF Texts
  <2>6. Unscripted(s, h)
    BY <1>1, <2>1, FieldsKept
  <2>7. HasIns(s, h) /\ Len(h.outs) \in Unsigneds(8)
    BY <2>1, <2>2 DEF HasIns
  <2>8. ToWits(v, f, h) \o s.in = s.job.bytes
    <3>1. ItemsSpan(v, f, s.count, g)
      BY <1>1, <1>2, <2>2, SpanItems DEF HasIns
    <3>2. ToWits(v, f, h) = ToItems(v, f, s.count, g)
      BY <2>1, <2>2, <3>1 DEF ItemsSpan
    <3> QED
      BY <2>2, <3>2
  <2>9. Closed(s, m, h)
    BY <1>2, <2>1, <2>2, <2>4, <2>5, <2>6, <2>7, <2>8 DEF Closed
  <2> QED
    BY <2>9
<1> QED
  BY <1>3, <1>4

\* The number of outputs.
LEMMA OutCountHolds ==
  ASSUME NEW s, NEW m, NEW g, Holds(s, m, g), s.pc = "txIn", s.at = s.count,
         NEW n, NEW count, count.val \in Unsigneds(8), count.rest \in Seq(Byte),
         WriteVarInt(count.val) \o count.rest = s.in, SameScripts(s, n), n.msg = s.msg, n.pc = "txOut",
         n.input = s.input, n.count = count.val, n.at = 0, n.in = count.rest
  PROVE  Holds(n, m, g)
<1> DEFINE v == s.msg.version
           f == s.flag
           c == count.val
<1>1. /\ g \in Partials /\ Texts(s, m, g) /\ Unscripted(s, g) /\ Spells(s, g) /\ SpellsIns(s, g)
      /\ Writable(g)
  BY PartsWritable DEF Holds, Spells
<1>2. /\ v \in Ints(4) /\ f \in BOOLEAN /\ (f => s.job.enc = "witness") /\ s.count = Len(g.ins)
      /\ s.count \in Unsigneds(8) /\ s.input = 0
      /\ g.outs = <<>> /\ g.done = <<>> /\ g.item = <<>>
      /\ ToIns(v, f, s.count, g) \o s.in = s.job.bytes
  BY <1>1 DEF Spells, SpellsIns
<1>3. n.job = s.job /\ n.flag = s.flag /\ n.refs = s.refs /\ n.scripts = s.scripts
  BY DEF SameScripts
<1>4. Texts(n, m, g)
  BY <1>1, <1>3, TextsKept
<1>5. Unscripted(n, g)
  BY <1>1, FieldsKept
<1>6. InsSpan(v, f, Len(g.ins), g) /\ OutsSpan(v, f, c, g)
  BY <1>1, <1>2, SpanIns, SpanOuts
<1>7. ToOuts(v, f, c, g) \o count.rest = s.job.bytes
  <2> DEFINE p == ToIns(v, f, Len(g.ins), g)
             e == WriteVarInt(c)
  <2>1. p \in Seq(Byte) /\ e \in Seq(Byte) /\ e \o count.rest = s.in
    BY <1>6, VarIntWritten DEF InsSpan
  <2>2. ToOuts(v, f, c, g) = p \o e /\ p \o s.in = s.job.bytes
    BY <1>2, <1>6 DEF OutsSpan
  <2> HIDE DEF p, e
  <2>3. (p \o e) \o count.rest = p \o (e \o count.rest)
    BY <2>1, Assoc, Zenon
  <2> QED
    BY <2>1, <2>2, <2>3
<1>8. SpellsOuts(n, g)
  <2>1. Len(g.outs) = 0 /\ c \in Nat
    BY <1>2, PowerValues DEF Unsigneds
  <2>2. HasIns(n, g)
    BY <1>1, <1>2, <1>3 DEF HasIns, SpellsIns
  <2> QED
    BY <1>2, <1>3, <1>7, <2>1, <2>2 DEF SpellsOuts
<1> QED
  BY <1>1, <1>2, <1>3, <1>4, <1>5, <1>8 DEF Holds, Spells

\* The number of items of the next witness.
LEMMA ItemCountHolds ==
  ASSUME NEW s, NEW m, NEW g, Closed(s, m, g), s.flag, s.input < Len(s.msg.txIn),
         NEW n, NEW count, count.val \in Unsigneds(8), count.rest \in Seq(Byte),
         WriteVarInt(count.val) \o count.rest = s.in, SameScripts(s, n), n.msg = s.msg, n.pc = "witness",
         n.input = s.input + 1, n.count = count.val, n.at = 0, n.in = count.rest
  PROVE  Holds(n, m, g)
<1> DEFINE v == s.msg.version
           f == s.flag
           c == count.val
<1>1. /\ g \in Partials /\ Texts(s, m, g) /\ Unscripted(s, g) /\ Writable(g) /\ g.item = <<>>
      /\ Len(g.done) = s.input /\ v \in Ints(4) /\ f \in BOOLEAN /\ s.job.enc = "witness"
      /\ HasIns(s, g) /\ Len(g.outs) \in Unsigneds(8)
      /\ ToWits(v, f, g) \o s.in = s.job.bytes
  BY PartsWritable DEF Closed
<1>3. n.job = s.job /\ n.flag = s.flag /\ n.refs = s.refs /\ n.scripts = s.scripts
  BY DEF SameScripts
<1>4. Texts(n, m, g)
  BY <1>1, <1>3, TextsKept
<1>5. Unscripted(n, g)
  BY <1>1, FieldsKept
<1>6. WitsSpan(v, f, g) /\ ItemsSpan(v, f, c, g)
  BY <1>1, SpanWits, SpanItems DEF HasIns
<1>7. ToItems(v, f, c, g) \o count.rest = s.job.bytes
  <2> DEFINE p == ToWits(v, f, g)
             e == WriteVarInt(c)
  <2>1. p \in Seq(Byte) /\ e \in Seq(Byte) /\ e \o count.rest = s.in
    BY <1>6, VarIntWritten DEF WitsSpan
  <2>2. ToItems(v, f, c, g) = p \o e /\ p \o s.in = s.job.bytes
    BY <1>1, <1>6 DEF ItemsSpan
  <2> HIDE DEF p, e
  <2>3. (p \o e) \o count.rest = p \o (e \o count.rest)
    BY <2>1, Assoc, Zenon
  <2> QED
    BY <2>1, <2>2, <2>3
<1>8. SpellsItems(n, g)
  <2>1. Len(g.item) = 0 /\ c \in Nat
    BY <1>1, PowerValues DEF Unsigneds
  <2>2. HasIns(n, g)
    BY <1>1, <1>3 DEF HasIns
  <2>3. n.input <= Len(g.ins) /\ n.input = Len(g.done) + 1
    <3>1. Len(s.msg.txIn) = Len(g.ins) /\ Len(g.ins) \in Nat /\ Len(g.done) \in Nat
      BY <1>1 DEF Unscripted, Partials
    <3> QED
      BY <1>1, <3>1
  <2>4. n.flag = TRUE /\ s.flag = TRUE
    BY <1>1, <1>3
  <2>5. ToItems(n.msg.version, n.flag, n.count, g) \o n.in = n.job.bytes
    BY <1>3, <1>7
  <2>6. n.count \in Unsigneds(8) /\ n.at = Len(g.item) /\ n.at <= n.count
    BY <2>1
  <2> QED
    BY <1>1, <2>2, <2>3, <2>4, <2>5, <2>6 DEF SpellsItems
<1> QED
  BY <1>1, <1>3, <1>4, <1>5, <1>8 DEF Holds, Spells

\* The lock time.
LEMMA LockTimeHolds ==
  ASSUME NEW s, NEW m, NEW g, Closed(s, m, g), s.flag => s.input = Len(s.msg.txIn),
         NEW n, NEW r, r.val \in Unsigneds(4), r.rest \in Seq(Byte), Put(4, r.val) \o r.rest = s.in,
         SameScripts(s, n), Messages(s, n, s.msg.txIn, s.msg.txOut), n.msg.lockTime = r.val,
         n.pc \in {"copy", "done"}, n.in = r.rest
  PROVE  Holds(n, m, g)
<1> DEFINE v == s.msg.version
           f == s.flag
<1>1. /\ g \in Partials /\ Texts(s, m, g) /\ Unscripted(s, g) /\ Writable(g) /\ g.item = <<>>
      /\ Len(g.done) = s.input /\ v \in Ints(4) /\ f \in BOOLEAN /\ (f => s.job.enc = "witness")
      /\ (~ f => s.input = 0) /\ HasIns(s, g) /\ Len(g.outs) \in Unsigneds(8)
      /\ ToWits(v, f, g) \o s.in = s.job.bytes
  BY PartsWritable DEF Closed
<1>2. n.msg.version = v /\ n.msg.txIn = s.msg.txIn /\ n.msg.txOut = s.msg.txOut
  BY DEF Messages
<1>3. n.job = s.job /\ n.flag = s.flag /\ n.refs = s.refs /\ n.scripts = s.scripts
  BY DEF SameScripts
<1>4. Texts(n, m, g)
  BY <1>1, <1>3, TextsKept
<1>5. Unscripted(n, g)
  BY <1>1, <1>2, FieldsKept
<1>6. WitsSpan(v, f, g)
  BY <1>1, SpanWits DEF HasIns
<1>7. ToEnd(v, f, r.val, g) \o r.rest = s.job.bytes
  <2> DEFINE p == ToWits(v, f, g)
             e == Put(4, r.val)
  <2>1. p \in Seq(Byte) /\ e \in Seq(Byte) /\ e \o r.rest = s.in
    <3>1. 4 \in Nat /\ r.val \in Int
      BY Numbers
    <3> QED
      BY <1>6, <3>1, Puts DEF WitsSpan
  <2>2. ToEnd(v, f, r.val, g) = p \o e /\ p \o s.in = s.job.bytes
    BY <1>1 DEF ToEnd
  <2> HIDE DEF p, e
  <2>3. (p \o e) \o r.rest = p \o (e \o r.rest)
    BY <2>1, Assoc, Zenon
  <2> QED
    BY <2>1, <2>2, <2>3
<1>8. SpellsEnd(n, g)
  <2>1. Len(g.done) = IF n.flag THEN Len(g.ins) ELSE 0
    BY <1>1, <1>3 DEF Unscripted
  <2>2. HasIns(n, g)
    BY <1>1, <1>3 DEF HasIns
  <2> QED
    BY <1>1, <1>2, <1>3, <1>7, <2>1, <2>2 DEF SpellsEnd
<1> QED
  BY <1>1, <1>2, <1>3, <1>4, <1>5, <1>8 DEF Holds, Spells

\* A script is copied, or its buffer given back.
LEMMA EndHolds ==
  ASSUME NEW s, NEW m, NEW g, Holds(s, m, g), s.pc \in {"copy", "return"}, NEW n, Texts(n, m, g),
         n.pc \in {"copy", "return", "done"}, n.job = s.job, n.flag = s.flag, n.in = s.in, n.msg = s.msg
  PROVE  Holds(n, m, g)
<1>1. g \in Partials /\ Unscripted(s, g) /\ Spells(s, g) /\ SpellsEnd(s, g)
  BY DEF Holds, Spells
<1>2. Unscripted(n, g)
  BY <1>1, FieldsKept
<1>3. SpellsEnd(n, g)
  BY <1>1 DEF SpellsEnd, HasIns
<1> QED
  BY <1>1, <1>2, <1>3 DEF Holds, Spells

\* What every decoder has read is what it has made of it.
Sound == \A d \in Decoders : dec[d].pc \in Live => \E g : Holds(dec[d], mem, g)

\* At the start nothing was read.
LEMMA SoundInit == Init => Sound
BY DEF Init, Idle, Sound, Live

\* The scripts of a decoder stay where they are.
LEMMA HoldsOn ==
  ASSUME BufferInv, NEW d \in Decoders, dec[d].pc \in Live, NEW g, Holds(dec[d], mem, g),
         \A b \in Lent : mem'[b] = mem[b]
  PROVE  Holds(dec[d], mem', g)
<1>1. \A p \in DOMAIN dec[d].refs : dec[d].refs[p].buf \in Bufs =>
        mem'[dec[d].refs[p].buf] = mem[dec[d].refs[p].buf]
  BY LentRefs
<1> DEFINE s == dec[d]
           m == mem'
<1>2. Texts(s, mem, g)
  BY DEF Holds
<1>3. \A p \in DOMAIN s.refs : s.refs[p].buf \in Bufs => m[s.refs[p].buf] = mem[s.refs[p].buf]
  BY <1>1
<1> HIDE DEF s, m
<1>4. Texts(s, m, g)
  BY <1>2, <1>3, TextsOn
<1> QED
  BY <1>4 DEF Holds, s, m

\* A step of d alone concerns only d.
LEMMA SoundStep ==
  ASSUME BufferInv, Sound, NEW d \in Decoders, Alone(d), \A b \in Lent : mem'[b] = mem[b],
         dec'[d].pc \in Live => \E g : Holds(dec'[d], mem', g)
  PROVE  Sound'
<1>1. ASSUME NEW e \in Decoders, e # d, dec'[e].pc \in Live PROVE \E g : Holds(dec'[e], mem', g)
  <2>1. dec'[e] = dec[e] /\ dec[e].pc \in Live
    BY <1>1 DEF Alone
  <2>2. PICK g : Holds(dec[e], mem, g)
    BY <2>1 DEF Sound
  <2>3. Holds(dec[e], mem', g)
    BY <2>1, <2>2, HoldsOn
  <2> QED
    BY <2>1, <2>3
<1>2. \A e \in Decoders : dec'[e].pc \in Live => \E g : Holds(dec'[e], mem', g)
  BY <1>1
<1> QED
  BY <1>2 DEF Sound

\* A step that leaves the buffers alone.
LEMMA SoundQuiet ==
  ASSUME BufferInv, Sound, NEW d \in Decoders, Alone(d), mem' = mem,
         dec'[d].pc \in Live => \E g : Holds(dec'[d], mem, g)
  PROVE  Sound'
<1>1. dec'[d].pc \in Live => \E g : Holds(dec'[d], mem', g)
  BY Zenon
<1>2. \A b \in Lent : mem'[b] = mem[b]
  OBVIOUS
<1> QED
  BY <1>1, <1>2, SoundStep

\* readTxIn.
LEMMA SoundTxIn ==
  ASSUME BufferInv, StreamInv, SumInv, Sound, NEW d \in Decoders, DecodeTxIn(d)
  PROVE  Sound'
<1> DEFINE s == dec[d]
           n == dec'[d]
           r == readTxIn(s.in)
           slot == <<"in", s.at + 1, 0>>
<1>1. /\ s.in \in Seq(Byte) /\ Sized(s, mem) /\ DOMAIN mem = Bufs /\ s.pc = "txIn"
      /\ DOMAIN s.msg = MsgFields
  BY DEF StreamInv, SumInv, DecodeTxIn, Sized, Live
<1>2. /\ Alone(d) /\ mem' = r.script.mem /\ Unused # {} /\ s.at < s.count
      /\ r.ok => /\ Grown(s, n, slot, r.script, r.rest)
                 /\ Messages(s, n, Append(s.msg.txIn, r.ti), s.msg.txOut)
      /\ ~ r.ok => Fails(s, n)
  BY <1>1, TxInMoves
<1>3. Untouched(r.script) /\ (r.ok => \E x : TxInReads(r, s.in, x))
  BY <1>1, <1>2, TxInExact
<1>4. slot \notin DOMAIN s.refs
  BY <1>1, NewSlot
<1>5. \A b \in Lent : mem'[b] = mem[b]
  BY <1>2, <1>3 DEF Untouched
<1> HIDE DEF r
<1>6. ASSUME n.pc \in Live PROVE \E g : Holds(n, mem', g)
  <2>1. r.ok
    BY <1>2, <1>6 DEF Fails, Live
  <2>2. PICK x : TxInReads(r, s.in, x)
    BY <1>3, <2>1
  <2>3. PICK g : Holds(s, mem, g)
    BY <1>1 DEF Sound, Live
  <2>4. Holds(s, mem', g)
    BY <1>1, <1>5, <2>3, HoldsOn DEF Live
  <2> DEFINE m == mem'
  <2>5. m = r.script.mem /\ Holds(s, m, g)
    BY <1>2, <2>4
  <2>6. /\ Grown(s, n, slot, r.script, r.rest)
        /\ Messages(s, n, Append(s.msg.txIn, r.ti), s.msg.txOut)
    BY <1>2, <2>1
  <2>7. slot = <<"in", s.at + 1, 0>>
    OBVIOUS
  <2> HIDE DEF s, n, m, slot
  <2> QED
    BY <1>1, <1>2, <1>4, <2>2, <2>5, <2>6, <2>7, TxInHolds DEF m
<1> QED
  BY <1>2, <1>5, <1>6, SoundStep, SMTT(30)

\* readTxOut.
LEMMA SoundTxOut ==
  ASSUME BufferInv, StreamInv, SumInv, Sound, NEW d \in Decoders, DecodeTxOut(d)
  PROVE  Sound'
<1> DEFINE s == dec[d]
           n == dec'[d]
           r == readTxOut(s.in)
           slot == <<"out", s.at + 1, 0>>
<1>1. /\ s.in \in Seq(Byte) /\ Sized(s, mem) /\ DOMAIN mem = Bufs /\ s.pc = "txOut"
      /\ DOMAIN s.msg = MsgFields
  BY DEF StreamInv, SumInv, DecodeTxOut, Sized, Live
<1>2. /\ Alone(d) /\ mem' = r.script.mem /\ Unused # {} /\ s.at < s.count
      /\ r.ok => /\ Grown(s, n, slot, r.script, r.rest)
                 /\ Messages(s, n, s.msg.txIn, Append(s.msg.txOut, r.to))
      /\ ~ r.ok => Fails(s, n)
  BY <1>1, TxOutMoves
<1>3. Untouched(r.script) /\ (r.ok => \E x : TxOutReads(r, s.in, x))
  BY <1>1, <1>2, TxOutExact
<1>4. slot \notin DOMAIN s.refs
  BY <1>1, NewSlot
<1>5. \A b \in Lent : mem'[b] = mem[b]
  BY <1>2, <1>3 DEF Untouched
<1> HIDE DEF r
<1>6. ASSUME n.pc \in Live PROVE \E g : Holds(n, mem', g)
  <2>1. r.ok
    BY <1>2, <1>6 DEF Fails, Live
  <2>2. PICK x : TxOutReads(r, s.in, x)
    BY <1>3, <2>1
  <2>3. PICK g : Holds(s, mem, g)
    BY <1>1 DEF Sound, Live
  <2>4. Holds(s, mem', g)
    BY <1>1, <1>5, <2>3, HoldsOn DEF Live
  <2> DEFINE m == mem'
  <2>5. m = r.script.mem /\ Holds(s, m, g)
    BY <1>2, <2>4
  <2>6. /\ Grown(s, n, slot, r.script, r.rest)
        /\ Messages(s, n, s.msg.txIn, Append(s.msg.txOut, r.to))
    BY <1>2, <2>1
  <2>7. slot = <<"out", s.at + 1, 0>>
    OBVIOUS
  <2> HIDE DEF s, n, m, slot
  <2> QED
    BY <1>1, <1>2, <1>4, <2>2, <2>5, <2>6, <2>7, TxOutHolds DEF m
<1> QED
  BY <1>2, <1>5, <1>6, SoundStep, SMTT(30)

\* An item of a witness, read as a script.
LEMMA SoundItem ==
  ASSUME BufferInv, StreamInv, SumInv, Sound, NEW d \in Decoders, ReadWitnessItem(d)
  PROVE  Sound'
<1> DEFINE s == dec[d]
           n == dec'[d]
           r == readScript(s.in, MaxWitnessItemSize)
           slot == <<"in", s.input, s.at + 1>>
<1>1. /\ s.in \in Seq(Byte) /\ Sized(s, mem) /\ DOMAIN mem = Bufs /\ s.pc = "witness"
      /\ DOMAIN s.msg = MsgFields
  BY DEF StreamInv, SumInv, ReadWitnessItem, Sized, Live
<1>2. /\ Alone(d) /\ mem' = r.mem /\ Unused # {} /\ s.at < s.count
      /\ r.ok => /\ Grown(s, n, slot, r, r.rest)
                 /\ Messages(s, n, s.msg.txIn, s.msg.txOut)
      /\ ~ r.ok => Fails(s, n)
  BY <1>1, ItemMoves
<1>3. Untouched(r) /\ (r.ok => \E x : Reads(r, s.in, MaxWitnessItemSize, x))
  BY <1>1, <1>2, ScriptExact
<1>4. slot \notin DOMAIN s.refs
  BY <1>1, NewSlot
<1>5. \A b \in Lent : mem'[b] = mem[b]
  BY <1>2, <1>3 DEF Untouched
<1> HIDE DEF r
<1>6. ASSUME n.pc \in Live PROVE \E g : Holds(n, mem', g)
  <2>1. r.ok
    BY <1>2, <1>6 DEF Fails, Live
  <2>2. PICK x : Reads(r, s.in, MaxWitnessItemSize, x)
    BY <1>3, <2>1
  <2>3. PICK g : Holds(s, mem, g)
    BY <1>1 DEF Sound, Live
  <2>4. Holds(s, mem', g)
    BY <1>1, <1>5, <2>3, HoldsOn DEF Live
  <2> DEFINE m == mem'
  <2>5. m = r.mem /\ Holds(s, m, g)
    BY <1>2, <2>4
  <2>6. /\ Grown(s, n, slot, r, r.rest)
        /\ Messages(s, n, s.msg.txIn, s.msg.txOut)
    BY <1>2, <2>1
  <2>7. slot = <<"in", s.input, s.at + 1>>
    OBVIOUS
  <2> HIDE DEF s, n, m, slot
  <2> QED
    BY <1>1, <1>2, <1>4, <2>2, <2>5, <2>6, <2>7, ItemHolds DEF m
<1> QED
  BY <1>2, <1>5, <1>6, SoundStep

\* The decoders that do not read a script.
LEMMA SoundStart ==
  ASSUME BufferInv, StreamInv, Sound, NEW d \in Decoders, Decode(d)
  PROVE  Sound'
<1> DEFINE n == dec'[d]
<1>1. Alone(d) /\ mem' = mem
  BY DecodeMoves
<1>2. PICK job \in Inputs[d] : Starts(n, job, ReadHeader(job.bytes, job.enc))
  BY DecodeMoves
<1>3. job.bytes \in Seq(Byte)
  BY InputsAssumption
<1> DEFINE h == ReadHeader(job.bytes, job.enc)
<1>4. ASSUME n.pc \in Live PROVE \E g : Holds(n, mem, g)
  <2>1. h.ok /\ n.pc = "txIn"
    BY <1>2, <1>4 DEF Starts, Live
  <2>2. HeaderIs(h, job.bytes, job.enc)
    BY <1>3, <2>1, HeaderStart
  <2>3. Starts(n, job, h)
    BY <1>2
  <2> HIDE DEF n, h
  <2> QED
    BY <2>1, <2>2, <2>3, StartHolds
<1> QED
  BY <1>1, <1>4, SoundQuiet

\* The number of the outputs.
LEMMA SoundOutCount ==
  ASSUME BufferInv, StreamInv, Sound, NEW d \in Decoders, ReadTxOutCount(d)
  PROVE  Sound'
<1> DEFINE s == dec[d]
           n == dec'[d]
           count == ReadVarInt(s.in)
           ok == count.ok /\ count.val <= MaxTxOutPerMessage
<1>1. s.in \in Seq(Byte)
  BY DEF StreamInv
<1>2. /\ Alone(d) /\ mem' = mem /\ s.pc = "txIn" /\ s.at = s.count
      /\ ok => /\ SameScripts(s, n) /\ n.msg = s.msg /\ n.pc = "txOut" /\ n.input = s.input
               /\ n.count = count.val /\ n.at = 0 /\ n.in = count.rest
      /\ ~ ok => Fails(s, n)
  BY OutCountMoves
<1>3. count.ok => /\ count.val \in Unsigneds(8) /\ count.rest \in Seq(Byte)
                  /\ WriteVarInt(count.val) \o count.rest = s.in
  BY <1>1, VarIntExact
<1> HIDE DEF count
<1>4. ASSUME n.pc \in Live PROVE \E g : Holds(n, mem, g)
  <2>1. ok
    BY <1>2, <1>4 DEF Fails, Live
  <2>2. PICK g : Holds(s, mem, g)
    BY <1>2 DEF Sound, Live
  <2>3. /\ SameScripts(s, n) /\ n.msg = s.msg /\ n.pc = "txOut" /\ n.input = s.input
        /\ n.count = count.val /\ n.at = 0 /\ n.in = count.rest
        /\ count.val \in Unsigneds(8) /\ count.rest \in Seq(Byte)
        /\ WriteVarInt(count.val) \o count.rest = s.in
    BY <1>2, <1>3, <2>1
  <2> HIDE DEF s, n, ok
  <2>4. Holds(n, mem, g)
    BY <1>2, <2>2, <2>3, OutCountHolds
  <2> QED
    BY <2>4
<1> QED
  BY <1>2, <1>4, SoundQuiet

\* The number of the items of a witness.
LEMMA SoundItemCount ==
  ASSUME BufferInv, StreamInv, Sound, NEW d \in Decoders, ReadWitnessCount(d)
  PROVE  Sound'
<1> DEFINE s == dec[d]
           n == dec'[d]
           count == ReadVarInt(s.in)
           ok == count.ok /\ count.val <= MaxWitnessItemsPerInput
<1>1. s.in \in Seq(Byte)
  BY DEF StreamInv
<1>2. /\ Alone(d) /\ mem' = mem /\ s.pc \in {"txOut", "witness"} /\ s.at = s.count
      /\ s.flag /\ s.input < Len(s.msg.txIn)
      /\ ok => /\ SameScripts(s, n) /\ n.msg = s.msg /\ n.pc = "witness" /\ n.input = s.input + 1
               /\ n.count = count.val /\ n.at = 0 /\ n.in = count.rest
      /\ ~ ok => Fails(s, n)
  BY ItemCountMoves
<1>3. count.ok => /\ count.val \in Unsigneds(8) /\ count.rest \in Seq(Byte)
                  /\ WriteVarInt(count.val) \o count.rest = s.in
  BY <1>1, VarIntExact
<1> HIDE DEF count
<1>4. ASSUME n.pc \in Live PROVE \E g : Holds(n, mem, g)
  <2>1. ok
    BY <1>2, <1>4 DEF Fails, Live
  <2>2. \E g : Holds(s, mem, g)
    BY <1>2 DEF Sound, Live
  <2>3. /\ SameScripts(s, n) /\ n.msg = s.msg /\ n.pc = "witness" /\ n.input = s.input + 1
        /\ n.count = count.val /\ n.at = 0 /\ n.in = count.rest
        /\ count.val \in Unsigneds(8) /\ count.rest \in Seq(Byte)
        /\ WriteVarInt(count.val) \o count.rest = s.in
    BY <1>2, <1>3, <2>1
  <2> HIDE DEF s, n, ok
  <2>4. PICK g : Closed(s, mem, g)
    BY <1>2, <2>2, Closing
  <2>5. Holds(n, mem, g)
    BY <1>2, <2>3, <2>4, ItemCountHolds
  <2> QED
    BY <2>5
<1> QED
  BY <1>2, <1>4, SoundQuiet

\* The lock time.
LEMMA SoundLockTime ==
  ASSUME BufferInv, StreamInv, SumInv, Sound, NEW d \in Decoders, ReadLockTime(d)
  PROVE  Sound'
<1> DEFINE s == dec[d]
           n == dec'[d]
           r == Uint(s.in, 4)
<1>1. s.in \in Seq(Byte) /\ DOMAIN s.msg = MsgFields
  BY DEF StreamInv, SumInv, Sized, Live, ReadLockTime
<1>2. /\ Alone(d) /\ mem' = mem /\ s.pc \in {"txOut", "witness"} /\ s.at = s.count
      /\ s.flag => s.input = Len(s.msg.txIn)
      /\ r.ok => /\ SameScripts(s, n) /\ Messages(s, n, s.msg.txIn, s.msg.txOut) /\ n.msg.lockTime = r.val
                 /\ n.pc \in {"copy", "done"} /\ n.in = r.rest
      /\ ~ r.ok => Fails(s, n)
  BY <1>1, LockTimeMoves
<1>3. r.ok => /\ r.val \in Unsigneds(4) /\ r.rest \in Seq(Byte) /\ Put(4, r.val) \o r.rest = s.in
  BY <1>1, UintExact
<1> HIDE DEF r
<1>4. ASSUME n.pc \in Live PROVE \E g : Holds(n, mem, g)
  <2>1. r.ok
    BY <1>2, <1>4 DEF Fails, Live
  <2>2. \E g : Holds(s, mem, g)
    BY <1>2 DEF Sound, Live
  <2>3. /\ SameScripts(s, n) /\ Messages(s, n, s.msg.txIn, s.msg.txOut) /\ n.msg.lockTime = r.val
        /\ n.pc \in {"copy", "done"} /\ n.in = r.rest
        /\ r.val \in Unsigneds(4) /\ r.rest \in Seq(Byte) /\ Put(4, r.val) \o r.rest = s.in
    BY <1>2, <1>3, <2>1
  <2> HIDE DEF s, n
  <2>4. PICK g : Closed(s, mem, g)
    BY <1>2, <2>2, Closing
  <2>5. Holds(n, mem, g)
    BY <1>2, <2>3, <2>4, LockTimeHolds
  <2> QED
    BY <2>5
<1> QED
  BY <1>2, <1>4, SoundQuiet

\* The copy of a script into the contiguous buffer.
LEMMA SoundCopy ==
  ASSUME BufferInv, SumInv, Sound, NEW d \in Decoders, CopyScript(d)
  PROVE  Sound'
<1> DEFINE s == dec[d]
           n == dec'[d]
           slot == First(s.todo)
           text == SubSeq(mem[s.refs[slot].buf].data, 1, s.refs[slot].len)
<1>1. /\ Alone(d) /\ mem' = mem /\ s.pc = "copy" /\ n.pc = "return"
      /\ n.job = s.job /\ n.flag = s.flag /\ n.in = s.in /\ n.msg = s.msg
      /\ s.refs[slot].buf \in Bufs /\ Copied(s, n, slot, text)
  BY CopyMoves
<1>2. Sized(s, mem) /\ s.todo \subseteq DOMAIN s.refs
  BY DEF SumInv, BufferInv, Filed
<1>3. PICK g : Holds(s, mem, g)
  BY <1>1 DEF Sound, Live
<1>4. text = SubSeq(mem[s.refs[slot].buf].data, 1, s.refs[slot].len)
  OBVIOUS
<1>5. Holds(n, mem, g)
  <2> HIDE DEF s, n, slot, text
  <2>1. Texts(n, mem, g)
    <3>1. Texts(s, mem, g)
      BY <1>3 DEF Holds
    <3> QED
      BY <1>1, <1>2, <1>4, <3>1, TextsCopied
  <2> QED
    BY <1>1, <1>3, <2>1, EndHolds
<1> QED
  BY <1>1, <1>5, SoundQuiet

\* The buffer of a script goes back.
LEMMA SoundReturn ==
  ASSUME BufferInv, Sound, NEW d \in Decoders, ReturnScript(d)
  PROVE  Sound'
<1> DEFINE s == dec[d]
           n == dec'[d]
<1>1. /\ Alone(d) /\ mem' = mem /\ s.pc = "return" /\ n.pc \in {"copy", "done"}
      /\ SameScripts(s, n) /\ n.in = s.in /\ n.msg = s.msg
  BY ReturnMoves
<1>2. PICK g : Holds(s, mem, g)
  BY <1>1 DEF Sound, Live
<1>3. n.refs = s.refs /\ n.scripts = s.scripts /\ n.job = s.job /\ n.flag = s.flag
  BY <1>1 DEF SameScripts
<1>4. Holds(n, mem, g)
  <2> HIDE DEF s, n
  <2>1. Texts(n, mem, g)
    BY <1>2, <1>3, TextsKept DEF Holds
  <2> QED
    BY <1>1, <1>2, <1>3, <2>1, EndHolds
<1> QED
  BY <1>1, <1>4, SoundQuiet

\* returnScriptBuffers: nothing is claimed after an error.
LEMMA SoundUnwind ==
  ASSUME BufferInv, Sound, NEW d \in Decoders, UnwindScript(d) \/ UnwindEnd(d)
  PROVE  Sound'
<1>1. Alone(d) /\ mem' = mem /\ dec'[d].pc \in {"unwind", "error"}
  BY UnwindMoves
<1> QED
  BY <1>1, SoundQuiet DEF Live

\* Every step keeps what was read.
LEMMA SoundInvStep == BufferInv /\ StreamInv /\ SumInv /\ Sound /\ [Next]_vars => Sound'
<1> SUFFICES ASSUME BufferInv, StreamInv, SumInv, Sound, [Next]_vars PROVE Sound'
  OBVIOUS
<1>1. CASE UNCHANGED vars
  BY <1>1 DEF vars, Sound
<1>2. CASE Next
  <2>1. PICK d \in Decoders :
          \/ DecodeTxIn(d) \/ DecodeTxOut(d) \/ ReadWitnessItem(d)
          \/ Decode(d) \/ ReadTxOutCount(d) \/ ReadWitnessCount(d) \/ ReadLockTime(d)
          \/ CopyScript(d) \/ ReturnScript(d) \/ UnwindScript(d) \/ UnwindEnd(d)
    BY <1>2, Zenon DEF Next
  <2> QED
    BY <2>1, SoundTxIn, SoundTxOut, SoundItem, SoundStart, SoundOutCount, SoundItemCount,
       SoundLockTime, SoundCopy, SoundReturn, SoundUnwind
<1> QED
  BY <1>1, <1>2

-------------------------------------------------------------------------------
(* What a decoder returns.                                                 *)

\* The transaction of the parts that s has read.
TxInOf(g, i) ==
  [hash |-> g.ins[i].hash, index |-> g.ins[i].index, script |-> g.ins[i].script,
   witness |-> Wit(g, i), sequence |-> g.ins[i].sequence]

TxOf(s, g) ==
  [version |-> s.msg.version, txIn |-> [i \in DOMAIN g.ins |-> TxInOf(g, i)],
   txOut |-> g.outs, lockTime |-> s.msg.lockTime]

\* Once it is done its scripts are all in the block.
LEMMA ScriptDone ==
  ASSUME BufferInv, NEW d \in Decoders, dec[d].pc = "done", NEW g, Holds(dec[d], mem, g), NEW p, Has(g, p)
  PROVE  Script(d, p) = TextOf(g, p)
<1>1. Filed(dec[d]) /\ Texts(dec[d], mem, g)
  BY DEF BufferInv, Holds
<1>2. p \in DOMAIN dec[d].refs /\ dec[d].todo = {}
  BY <1>1 DEF Filed, Texts
<1>3. dec[d].refs[p].buf = Contiguous
  BY <1>1, <1>2 DEF Filed
<1>4. Text(dec[d], mem, p) = Script(d, p)
  BY <1>3 DEF Text, Script
<1> QED
  BY <1>1, <1>2, <1>4 DEF Texts

\* A complete witness is a sequence of scripts.
LEMMA WitIs ==
  ASSUME NEW g \in Partials, g.item = <<>>, NEW i
  PROVE  Wit(g, i) \in Slices(Slices(Byte))
<1>1. CASE i \in DOMAIN g.done
  <2>1. g.done \in Seq(Slices(Slices(Byte)))
    BY DEF Partials
  <2>2. g.done[i] \in Slices(Slices(Byte))
    BY <1>1, <2>1
  <2> QED
    BY <1>1, <2>2 DEF Wit
<1>2. CASE i \notin DOMAIN g.done
  <2>1. Wit(g, i) = <<>>
    BY <1>2 DEF Wit
  <2>2. Len(<<>>) < Power(8) /\ <<>> \in Seq(Slices(Byte))
    BY PowerValues
  <2> QED
    BY <2>1, <2>2 DEF Slices
<1> QED
  BY <1>1, <1>2

\* A decoder that is done holds the witness that it read.
LEMMA ItemsDone ==
  ASSUME BufferInv, NEW d \in Decoders, dec[d].pc = "done", NEW g, Holds(dec[d], mem, g),
         g.item = <<>>, NEW i \in DOMAIN g.ins
  PROVE  Witness(d, i) = Wit(g, i)
<1> DEFINE w == Wit(g, i)
           k == Len(w)
           slots == {q \in DOMAIN dec[d].refs : q[1] = "in" /\ q[2] = i}
<1>1. g \in Partials /\ Texts(dec[d], mem, g)
  BY DEF Holds
<1>2. w \in Slices(Slices(Byte)) /\ w \in Seq(Slices(Byte)) /\ k \in Nat /\ DOMAIN w = 1 .. k
  <2>1. w \in Slices(Slices(Byte))
    BY <1>1, WitIs
  <2> HIDE DEF w
  <2> QED
    BY <2>1 DEF Slices
<1> HIDE DEF w
<1>3. i \in Nat
  BY <1>1 DEF Partials
<1>4. \A p : p \in slots => p[3] = 0 \/ p[3] \in 1 .. k
  <2>1. ASSUME NEW p \in slots PROVE p[3] = 0 \/ p[3] \in DOMAIN Wit(g, i)
    <3>1. Has(g, p) /\ p[1] = "in" /\ p[2] = i
      BY <1>1 DEF Texts
    <3> QED
      BY <3>1 DEF Has
  <2> QED
    BY <1>2, <2>1 DEF w
<1>5. ASSUME NEW j \in 1 .. k
      PROVE  Has(g, <<"in", i, j>>) /\ <<"in", i, j>> \in slots /\ Script(d, <<"in", i, j>>) = w[j]
  <2> DEFINE p == <<"in", i, j>>
  <2>1. p[1] = "in" /\ p[2] = i /\ p[3] = j /\ p \in Slot /\ j \in Nat /\ j # 0
    BY <1>2, <1>3 DEF Slot
  <2> HIDE DEF p
  <2>2. Has(g, p)
    BY <1>2, <2>1 DEF Has, w
  <2>3. p \in slots
    BY <1>1, <2>1, <2>2 DEF Texts
  <2>4. TextOf(g, p) = w[j]
    BY <2>1 DEF TextOf, w
  <2>5. Script(d, p) = TextOf(g, p)
    BY <2>2, ScriptDone
  <2> QED
    BY <2>2, <2>3, <2>4, <2>5 DEF p
<1>6. Items(d, i) = 1 .. k
  <2>1. Items(d, i) = {p[3] : p \in slots} \ {0}
    BY DEF Items
  <2>2. \A j \in 1 .. k : j \in {p[3] : p \in slots} /\ j # 0
    <3>1. ASSUME NEW j \in 1 .. k PROVE \E p \in slots : p[3] = j
      <4>1. <<"in", i, j>> \in slots /\ <<"in", i, j>>[3] = j
        BY <1>5
      <4> QED
        BY <4>1
    <3> HIDE DEF slots
    <3>2. \A j \in 1 .. k : j # 0
      BY <1>2
    <3> QED
      BY <3>1, <3>2
  <2> HIDE DEF slots
  <2> QED
    BY <1>4, <2>1, <2>2
<1>7. Cardinality(Items(d, i)) = k
  <2>1. Cardinality(1 .. k) = IF 1 > k THEN 0 ELSE k - 1 + 1
    <3>1. 1 \in Int /\ k \in Int
      BY <1>2
    <3> HIDE DEF k, slots
    <3> QED
      BY <3>1, FS_Interval
  <2> QED
    BY <1>2, <1>6, <2>1
<1>8. Witness(d, i) = [j \in 1 .. k |-> w[j]]
  BY <1>5, <1>7 DEF Witness
<1> QED
  BY <1>2, <1>8 DEF w

\* The message that its caller sees is the transaction it has read.
LEMMA DecodedIs ==
  ASSUME BufferInv, NEW d \in Decoders, dec[d].pc = "done", NEW g, Holds(dec[d], mem, g)
  PROVE  Decoded(d) = TxOf(dec[d], g)
<1> DEFINE s == dec[d]
           m == dec[d].msg
<1>1. /\ g \in Partials /\ Texts(s, mem, g) /\ Unscripted(s, g) /\ g.item = <<>>
  BY DEF Holds, Spells, SpellsEnd
<1>2. /\ g.ins \in Seq(InParts) /\ DOMAIN g.ins = 1 .. Len(g.ins) /\ Len(g.ins) \in Nat
      /\ g.outs \in Seq(TxOuts) /\ DOMAIN g.outs = 1 .. Len(g.outs) /\ Len(g.outs) \in Nat
  BY <1>1 DEF Partials
<1>3. DOMAIN m.txIn = DOMAIN g.ins /\ DOMAIN m.txOut = DOMAIN g.outs
  BY <1>1, <1>2 DEF Unscripted
<1>4. ASSUME NEW i \in DOMAIN g.ins
      PROVE  [hash |-> m.txIn[i].hash, index |-> m.txIn[i].index,
              script |-> Script(d, <<"in", i, 0>>), witness |-> Witness(d, i),
              sequence |-> m.txIn[i].sequence] = TxInOf(g, i)
  <2>1. m.txIn[i] = HeadOf(g.ins[i])
    BY <1>1, <1>2 DEF Unscripted
  <2>2. /\ m.txIn[i].hash = g.ins[i].hash /\ m.txIn[i].index = g.ins[i].index
        /\ m.txIn[i].sequence = g.ins[i].sequence
    BY <2>1 DEF HeadOf
  <2>3. Witness(d, i) = Wit(g, i)
    BY <1>1, ItemsDone
  <2>4. Script(d, <<"in", i, 0>>) = g.ins[i].script
    <3> DEFINE p == <<"in", i, 0>>
    <3>1. p[1] = "in" /\ p[2] = i /\ p[3] = 0 /\ p \in Slot
      BY <1>2 DEF Slot
    <3> HIDE DEF p
    <3>2. Has(g, p) /\ TextOf(g, p) = g.ins[i].script
      BY <3>1 DEF Has, TextOf
    <3>3. Script(d, p) = TextOf(g, p)
      BY <3>2, ScriptDone
    <3> QED
      BY <3>2, <3>3 DEF p
  <2> QED
    BY <2>2, <2>3, <2>4 DEF TxInOf
<1>5. ASSUME NEW i \in DOMAIN g.outs
      PROVE  [value |-> m.txOut[i].value, script |-> Script(d, <<"out", i, 0>>)] = g.outs[i]
  <2>1. m.txOut[i].value = g.outs[i].value
    <3>1. m.txOut[i] = [value |-> g.outs[i].value]
      BY <1>1, <1>2, Zenon DEF Unscripted
    <3> QED
      BY <3>1
  <2>2. Script(d, <<"out", i, 0>>) = g.outs[i].script
    <3> DEFINE p == <<"out", i, 0>>
    <3>1. p[1] = "out" /\ p[2] = i /\ p[3] = 0 /\ p \in Slot
      BY <1>2 DEF Slot
    <3> HIDE DEF p
    <3>2. Has(g, p) /\ TextOf(g, p) = g.outs[i].script
      BY <3>1 DEF Has, TextOf
    <3>3. Script(d, p) = TextOf(g, p)
      BY <3>2, ScriptDone
    <3> QED
      BY <3>2, <3>3 DEF p
  <2> DEFINE y == g.outs[i]
  <2>3. y \in TxOuts
    BY <1>2
  <2> HIDE DEF y
  <2>4. y = [value |-> y.value, script |-> y.script]
    BY <2>3 DEF TxOuts
  <2> QED
    BY <2>1, <2>2, <2>4 DEF y
<1>6. /\ Decoded(d).version = m.version /\ Decoded(d).lockTime = m.lockTime
      /\ Decoded(d) = [version |-> m.version, txIn |-> [i \in DOMAIN g.ins |-> TxInOf(g, i)],
                       txOut |-> [i \in DOMAIN g.outs |-> g.outs[i]], lockTime |-> m.lockTime]
  <2>1. [i \in DOMAIN m.txIn |->
           [hash |-> m.txIn[i].hash, index |-> m.txIn[i].index,
            script |-> Script(d, <<"in", i, 0>>), witness |-> Witness(d, i),
            sequence |-> m.txIn[i].sequence]] = [i \in DOMAIN g.ins |-> TxInOf(g, i)]
    BY <1>3, <1>4, Zenon
  <2>2. [i \in DOMAIN m.txOut |->
           [value |-> m.txOut[i].value, script |-> Script(d, <<"out", i, 0>>)]]
          = [i \in DOMAIN g.outs |-> g.outs[i]]
    BY <1>3, <1>5, Zenon
  <2> QED
    BY <2>1, <2>2 DEF Decoded
<1>7. [i \in DOMAIN g.outs |-> g.outs[i]] = g.outs
  BY <1>2
<1> QED
  BY <1>6, <1>7 DEF TxOf

\* The inputs of it can be written, and so can the whole.
LEMMA TxOfInputs ==
  ASSUME NEW s, NEW g \in Partials, g.item = <<>>, Len(g.ins) \in Unsigneds(8),
         Len(g.outs) \in Unsigneds(8), s.msg.version \in Ints(4), s.msg.lockTime \in Unsigneds(4)
  PROVE  /\ TxOf(s, g) \in MsgTxs /\ TxOf(s, g).txIn \in Seq(TxIns)
         /\ DOMAIN TxOf(s, g).txIn = DOMAIN g.ins
         /\ \A i \in DOMAIN g.ins : TxOf(s, g).txIn[i] = TxInOf(g, i)
<1> DEFINE ins == [i \in DOMAIN g.ins |-> TxInOf(g, i)]
<1>1. g.ins \in Seq(InParts) /\ DOMAIN g.ins = 1 .. Len(g.ins) /\ Len(g.ins) \in Nat
  BY DEF Partials
<1>2. ASSUME NEW i \in DOMAIN g.ins PROVE TxInOf(g, i) \in TxIns
  <2> DEFINE x == g.ins[i]
             w == Wit(g, i)
  <2>1. x \in InParts /\ w \in Slices(Slices(Byte))
    BY <1>1, WitIs
  <2>2. TxInOf(g, i) = [hash |-> x.hash, index |-> x.index, script |-> x.script,
                        witness |-> w, sequence |-> x.sequence]
    BY DEF TxInOf
  <2> HIDE DEF x, w
  <2>3. /\ x.hash \in [1 .. HashSize -> Byte] /\ x.index \in Unsigneds(4)
        /\ x.script \in Slices(Byte) /\ x.sequence \in Unsigneds(4)
    BY <2>1 DEF InParts
  <2> QED
    BY <2>1, <2>2, <2>3 DEF TxIns
<1>3. ins \in Seq(TxIns) /\ Len(ins) = Len(g.ins) /\ DOMAIN ins = DOMAIN g.ins
  BY <1>1, <1>2
<1>4. \A i \in DOMAIN g.ins : ins[i] = TxInOf(g, i)
  OBVIOUS
<1>5. TxOf(s, g).txIn = ins
  BY DEF TxOf
<1> HIDE DEF ins
<1>6. TxOf(s, g) = [version |-> s.msg.version, txIn |-> ins, txOut |-> g.outs, lockTime |-> s.msg.lockTime]
  BY <1>5 DEF TxOf, ins
<1>7. ins \in Slices(TxIns) /\ g.outs \in Slices(TxOuts)
  <2>1. Len(g.ins) < Power(8) /\ Len(g.outs) < Power(8)
    BY PowerValues DEF Unsigneds
  <2>2. g.outs \in Seq(TxOuts)
    BY DEF Partials
  <2> QED
    BY <1>3, <2>1, <2>2 DEF Slices
<1>8. TxOf(s, g) \in MsgTxs
  BY <1>6, <1>7 DEF MsgTxs
<1> QED
  BY <1>3, <1>4, <1>5, <1>8

\* It is written as its parts are.
LEMMA TxOfWritten ==
  ASSUME NEW s, NEW g \in Partials, g.item = <<>>, Len(g.ins) \in Unsigneds(8),
         Len(g.outs) \in Unsigneds(8), s.msg.version \in Ints(4), s.msg.lockTime \in Unsigneds(4),
         s.flag \in BOOLEAN, Len(g.done) = (IF s.flag THEN Len(g.ins) ELSE 0)
  PROVE  Encode(TxOf(s, g), s.flag) = ToEnd(s.msg.version, s.flag, s.msg.lockTime, g)
<1> DEFINE tx == TxOf(s, g)
           f == s.flag
           h == [ins |-> tx.txIn, outs |-> tx.txOut, done |-> g.done, item |-> <<>>]
<1>1. /\ tx.txIn \in Seq(TxIns) /\ DOMAIN tx.txIn = DOMAIN g.ins
      /\ \A i \in DOMAIN g.ins : tx.txIn[i] = TxInOf(g, i)
  BY TxOfInputs
<1>2. tx.version = s.msg.version /\ tx.txOut = g.outs /\ tx.lockTime = s.msg.lockTime
  BY DEF TxOf
<1>3. /\ g.ins \in Seq(InParts) /\ DOMAIN g.ins = 1 .. Len(g.ins) /\ Len(g.ins) \in Nat
      /\ g.done \in Seq(Slices(Slices(Byte))) /\ DOMAIN g.done = 1 .. Len(g.done) /\ Len(g.done) \in Nat
      /\ g.outs \in Seq(TxOuts)
  BY DEF Partials
<1> HIDE DEF tx
<1>4. h.ins = tx.txIn /\ h.outs = tx.txOut /\ h.done = g.done /\ h.item = <<>>
  OBVIOUS
<1> HIDE DEF h
<1>5. Writable(h)
  <2>1. TxIns \subseteq AnyIns
    BY DEF AnyIns
  <2>2. tx.txIn \in Seq(AnyIns)
    BY <1>1, <2>1
  <2>3. h.item \in Seq(Slices(Byte))
    BY <1>4
  <2> QED
    BY <1>2, <1>3, <1>4, <2>2, <2>3 DEF Writable
<1>6. DOMAIN h.done = (IF f THEN DOMAIN tx.txIn ELSE {})
  <2>1. CASE f
    BY <1>1, <1>3, <1>4, <2>1
  <2>2. CASE ~ f
    BY <1>3, <1>4, <2>2
  <2> QED
    BY <2>1, <2>2
<1>7. f => \A i \in DOMAIN tx.txIn : h.done[i] = tx.txIn[i].witness
  <2>1. ASSUME f, NEW i \in DOMAIN tx.txIn PROVE h.done[i] = tx.txIn[i].witness
    <3>1. i \in DOMAIN g.done
      <4>1. DOMAIN h.done = DOMAIN tx.txIn
        BY <1>6, <2>1
      <4> QED
        BY <1>4, <2>1, <4>1
    <3>2. tx.txIn[i].witness = Wit(g, i)
      <4>1. tx.txIn[i] = TxInOf(g, i)
        BY <1>1, <2>1
      <4>2. TxInOf(g, i).witness = Wit(g, i)
        BY DEF TxInOf
      <4> QED
        BY <4>1, <4>2
    <3> QED
      BY <1>4, <3>1, <3>2 DEF Wit
  <2> QED
    BY <2>1
<1>8. Encode(tx, f) = ToEnd(tx.version, f, tx.lockTime, h)
  <2>1. h.ins = tx.txIn /\ h.outs = tx.txOut /\ f \in BOOLEAN
    BY <1>4
  <2> HIDE DEF f
  <2> QED
    BY <1>5, <1>6, <1>7, <2>1, EncodeParts
<1>9. InsBytes(h.ins) = InsBytes(g.ins)
  <2>1. ASSUME NEW i \in DOMAIN g.ins PROVE writeTxIn(h.ins[i]) = writeTxIn(g.ins[i])
    <3> DEFINE x == g.ins[i]
               y == TxInOf(g, i)
    <3>1. h.ins[i] = y
      BY <1>1, <1>4
    <3>2. y.hash = x.hash /\ y.index = x.index /\ y.script = x.script /\ y.sequence = x.sequence
      BY DEF TxInOf
    <3> HIDE DEF x, y
    <3>3. writeTxIn(y) = writeTxIn(x)
      BY <3>2 DEF writeTxIn
    <3> QED
      BY <3>1, <3>3 DEF x
  <2>2. DOMAIN h.ins = DOMAIN g.ins
    BY <1>1, <1>4
  <2>3. [i \in DOMAIN h.ins |-> writeTxIn(h.ins[i])] = [i \in DOMAIN g.ins |-> writeTxIn(g.ins[i])]
    BY <2>1, <2>2, Zenon
  <2> QED
    BY <2>3 DEF InsBytes
<1>10. Len(h.ins) = Len(g.ins)
  <2>1. h.ins \in Seq(TxIns) /\ DOMAIN h.ins = 1 .. Len(g.ins)
    BY <1>1, <1>3, <1>4
  <2> QED
    BY <1>3, <2>1
<1>11. ToEnd(tx.version, f, tx.lockTime, h) = ToEnd(tx.version, f, tx.lockTime, g)
  BY <1>2, <1>4, <1>9, <1>10 DEF ToEnd, ToWits, ToOuts, ToIns
<1> QED
  BY <1>2, <1>8, <1>11 DEF tx

\* What a decoder has read is what is written of the message that it returns.
Exact(d) ==
  /\ Decoded(d) \in MsgTxs
  /\ dec[d].flag \in BOOLEAN /\ (dec[d].flag => dec[d].job.enc = "witness")
  /\ dec[d].job.enc = "witness" /\ ~ dec[d].flag => Decoded(d).txIn # <<>>
  /\ Encode(Decoded(d), dec[d].flag) \o dec[d].in = dec[d].job.bytes

\* A decoder that is done has read the encoding of what it returns.
LEMMA SoundExact ==
  ASSUME BufferInv, Sound, NEW d \in Decoders, dec[d].pc = "done"
  PROVE  Exact(d)
<1>1. PICK g : Holds(dec[d], mem, g)
  BY DEF Sound, Live
<1> DEFINE s == dec[d]
<1>2. Decoded(d) = TxOf(s, g)
  BY <1>1, DecodedIs
<1>3. g \in Partials /\ Spells(s, g) /\ SpellsEnd(s, g) /\ HasIns(s, g)
  BY <1>1 DEF Holds, Spells, SpellsEnd
<1>4. /\ s.msg.version \in Ints(4) /\ s.flag \in BOOLEAN /\ (s.flag => s.job.enc = "witness")
      /\ Len(g.done) = (IF s.flag THEN Len(g.ins) ELSE 0) /\ g.item = <<>>
      /\ Len(g.ins) \in Unsigneds(8) /\ Len(g.outs) \in Unsigneds(8) /\ s.msg.lockTime \in Unsigneds(4)
      /\ ToEnd(s.msg.version, s.flag, s.msg.lockTime, g) \o s.in = s.job.bytes
      /\ (s.job.enc = "witness" /\ ~ s.flag => Len(g.ins) # 0)
  BY <1>3 DEF Spells, SpellsEnd, HasIns
<1> HIDE DEF s
<1>5. Encode(TxOf(s, g), s.flag) = ToEnd(s.msg.version, s.flag, s.msg.lockTime, g)
  BY <1>3, <1>4, TxOfWritten
<1>6. TxOf(s, g) \in MsgTxs /\ DOMAIN TxOf(s, g).txIn = DOMAIN g.ins
  BY <1>3, <1>4, TxOfInputs
<1>7. s.job.enc = "witness" /\ ~ s.flag => TxOf(s, g).txIn # <<>>
  <2>1. g.ins \in Seq(InParts)
    BY <1>3 DEF Partials
  <2>2. ASSUME TxOf(s, g).txIn = <<>> PROVE Len(g.ins) = 0
    <3>1. DOMAIN g.ins = {}
      BY <1>6, <2>2
    <3>2. DOMAIN g.ins = 1 .. Len(g.ins) /\ Len(g.ins) \in Nat
      BY <2>1
    <3>3. ~ (1 \in 1 .. Len(g.ins))
      BY <3>1, <3>2
    <3> QED
      BY <3>2, <3>3
  <2> QED
    BY <1>4, <2>2
<1> QED
  BY <1>2, <1>4, <1>5, <1>6, <1>7 DEF Exact, s

\* BtcDecode invents nothing: once it is done, whatever bytes it was given, the
\* ones it has read are what BtcEncode writes of the message that it returns.
THEOREM DecodeSound ==
  Spec => [](\A d \in Decoders : dec[d].pc = "done" =>
               Encode(Decoded(d), dec[d].flag) \o dec[d].in = dec[d].job.bytes)
<1> DEFINE Inv == BufferInv /\ StreamInv /\ SumInv /\ Sound
           Safe == \A d \in Decoders : dec[d].pc = "done" =>
                     Encode(Decoded(d), dec[d].flag) \o dec[d].in = dec[d].job.bytes
<1>1. Init => Inv
  BY BufferInvInit, StreamInvInit, SumInvInit, SoundInit
<1>2. Inv /\ [Next]_vars => Inv'
  BY BufferInvStep, StreamInvStep, SumInvStep, SoundInvStep
<1>3. Inv => Safe
  BY SoundExact DEF Exact
<1> QED
  BY <1>1, <1>2, <1>3, PTL DEF Spec

-------------------------------------------------------------------------------
(* What is written can be taken apart in one way only.                     *)

\* Bytes and bytes are bytes.
LEMMA Cat == \A a, b \in Seq(Byte) : a \o b \in Seq(Byte) /\ Len(a \o b) = Len(a) + Len(b)
OBVIOUS

Chained(a, b, c, d, z) ==
  /\ (((a \o b) \o c) \o d) \o z = a \o (b \o (c \o (d \o z)))
  /\ d \o z \in Seq(Byte) /\ c \o (d \o z) \in Seq(Byte)
  /\ b \o (c \o (d \o z)) \in Seq(Byte)

\* Four streams and a rest, grouped either way.
LEMMA Fourfold ==
  ASSUME NEW a \in Seq(Byte), NEW b \in Seq(Byte), NEW c \in Seq(Byte), NEW d \in Seq(Byte),
         NEW z \in Seq(Byte)
  PROVE  Chained(a, b, c, d, z)
<1>1. d \o z \in Seq(Byte)
  BY Cat
<1>2. c \o (d \o z) \in Seq(Byte)
  BY <1>1, Cat
<1>3. b \o (c \o (d \o z)) \in Seq(Byte)
  BY <1>2, Cat
<1>4. a \o b \in Seq(Byte)
  BY Cat
<1>5. (a \o b) \o c \in Seq(Byte)
  BY <1>4, Cat
<1>6. (((a \o b) \o c) \o d) \o z = ((a \o b) \o c) \o (d \o z)
  BY <1>5, Assoc, Zenon
<1>7. ((a \o b) \o c) \o (d \o z) = (a \o b) \o (c \o (d \o z))
  BY <1>1, <1>4, Assoc, Zenon
<1>8. (a \o b) \o (c \o (d \o z)) = a \o (b \o (c \o (d \o z)))
  BY <1>2, Assoc, ZenonT(60)
<1> QED
  BY <1>1, <1>2, <1>3, <1>6, <1>7, <1>8 DEF Chained

\* Streams with the heads a and b are the same.
Agree(a, x, b, y) == a \o x = b \o y

\* If two streams are the same and their heads have the same length, the heads
\* and the tails are the same.
LEMMA CancelBytes ==
  \A a, b, x, y \in Seq(Byte) : Len(a) = Len(b) /\ a \o x = b \o y => a = b /\ x = y
BY Cancel

\* What was found is one value and one rest.
LEMMA FoundSame ==
  ASSUME NEW a, NEW b, NEW x, NEW y, Found(a, x) = Found(b, y)
  PROVE  a = b /\ x = y
<1>1. /\ Found(a, x).val = a /\ Found(b, y).val = b
      /\ Found(a, x).rest = x /\ Found(b, y).rest = y
  BY DEF Found
<1> QED
  BY <1>1

\* A stream starts with at most one variable length integer.
LEMMA VarIntOnce ==
  ASSUME NEW a \in Unsigneds(8), NEW b \in Unsigneds(8), NEW x \in Seq(Byte), NEW y \in Seq(Byte),
         Agree(WriteVarInt(a), x, WriteVarInt(b), y)
  PROVE  a = b /\ x = y
<1>1. Found(a, x) = Found(b, y)
  BY VarIntBack DEF Agree
<1> QED
  BY <1>1, FoundSame

\* A stream starts with one unsigned integer of each width.
LEMMA UintOnce ==
  ASSUME NEW n \in Nat, NEW a \in Unsigneds(n), NEW b \in Unsigneds(n),
         NEW x \in Seq(Byte), NEW y \in Seq(Byte), Agree(Put(n, a), x, Put(n, b), y)
  PROVE  a = b /\ x = y
<1>1. Found(a, x) = Found(b, y)
  BY UintBack DEF Agree
<1> QED
  BY <1>1, FoundSame

\* A stream starts with one signed integer of each width.
LEMMA IntOnce ==
  ASSUME NEW n \in {4, 8}, NEW a \in Ints(n), NEW b \in Ints(n),
         NEW x \in Seq(Byte), NEW y \in Seq(Byte), Agree(Put(n, a), x, Put(n, b), y)
  PROVE  a = b /\ x = y
<1>1. n \in Nat /\ Power(n) % 2 = 0
  BY PowerValues
<1>2. a \in Int /\ b \in Int /\ Signed(n, Value(Put(n, a))) = a /\ Signed(n, Value(Put(n, b))) = b
  BY <1>1, SignedNumbers
<1>3. /\ Put(n, a) \in Seq(Byte) /\ Put(n, b) \in Seq(Byte)
      /\ Len(Put(n, a)) = n /\ Len(Put(n, b)) = n
  BY <1>1, <1>2, Puts
<1>4. Put(n, a) = Put(n, b) /\ x = y
  BY <1>3, CancelBytes DEF Agree
<1> QED
  BY <1>2, <1>4

\* A slice of bytes and its length.
LEMMA VarBytesThen ==
  ASSUME NEW a \in Slices(Byte), NEW x \in Seq(Byte)
  PROVE  /\ WriteVarBytes(a) \o x = WriteVarInt(Len(a)) \o (a \o x) /\ a \o x \in Seq(Byte)
         /\ a \in Seq(Byte) /\ Len(a) \in Unsigneds(8)
<1>1. a \in Seq(Byte) /\ Len(a) \in Unsigneds(8)
  BY VarBytesAre
<1>2. WriteVarInt(Len(a)) \in Seq(Byte)
  BY <1>1, VarIntWritten
<1> DEFINE m == WriteVarInt(Len(a))
<1> HIDE DEF m
<1>3. (m \o a) \o x = m \o (a \o x)
  BY <1>1, <1>2, Assoc, Zenon DEF m
<1>4. a \o x \in Seq(Byte)
  BY <1>1, Cat
<1> QED
  BY <1>1, <1>3, <1>4 DEF m, WriteVarBytes

\* A stream starts with at most one script.
LEMMA VarBytesOnce ==
  ASSUME NEW a \in Slices(Byte), NEW b \in Slices(Byte), NEW x \in Seq(Byte), NEW y \in Seq(Byte),
         Agree(WriteVarBytes(a), x, WriteVarBytes(b), y)
  PROVE  a = b /\ x = y
<1> DEFINE p == a \o x
           q == b \o y
<1>1. /\ WriteVarBytes(a) \o x = WriteVarInt(Len(a)) \o p /\ p \in Seq(Byte)
      /\ a \in Seq(Byte) /\ Len(a) \in Unsigneds(8)
  BY VarBytesThen
<1>2. /\ WriteVarBytes(b) \o y = WriteVarInt(Len(b)) \o q /\ q \in Seq(Byte)
      /\ b \in Seq(Byte) /\ Len(b) \in Unsigneds(8)
  BY VarBytesThen
<1>3. Len(a) = Len(b) /\ p = q
  <2> HIDE DEF p, q
  <2>1. Agree(WriteVarInt(Len(a)), p, WriteVarInt(Len(b)), q)
    BY <1>1, <1>2 DEF Agree
  <2> QED
    BY <1>1, <1>2, <2>1, VarIntOnce
<1> QED
  BY <1>1, <1>2, <1>3, CancelBytes

\* The parts of an input.
LEMMA TxInThen ==
  ASSUME NEW t \in InParts, NEW z \in Seq(Byte)
  PROVE  LET v == WriteVarBytes(t.script)
             q == Put(4, t.sequence)
             i == Put(4, t.index)
         IN  /\ writeTxIn(t) \o z = t.hash \o (i \o (v \o (q \o z)))
             /\ q \o z \in Seq(Byte) /\ v \o (q \o z) \in Seq(Byte)
             /\ i \o (v \o (q \o z)) \in Seq(Byte)
<1> DEFINE h == t.hash
           i == Put(4, t.index)
           v == WriteVarBytes(t.script)
           q == Put(4, t.sequence)
<1>1. h \in Seq(Byte) /\ i \in Seq(Byte) /\ v \in Seq(Byte) /\ q \in Seq(Byte)
  BY TxInIs DEF AnyIns
<1>2. writeTxIn(t) = ((h \o i) \o v) \o q
  BY DEF writeTxIn
<1> HIDE DEF h, i, v, q
<1>3. Chained(h, i, v, q, z)
  BY <1>1, Fourfold
<1> QED
  BY <1>2, <1>3 DEF h, i, v, q, Chained

\* A stream starts with at most one input.
LEMMA TxInOnce ==
  ASSUME NEW a \in InParts, NEW b \in InParts, NEW x \in Seq(Byte), NEW y \in Seq(Byte),
         Agree(writeTxIn(a), x, writeTxIn(b), y)
  PROVE  a = b /\ x = y
<1> DEFINE x1 == Put(4, a.sequence) \o x
           y1 == Put(4, b.sequence) \o y
           x2 == WriteVarBytes(a.script) \o x1
           y2 == WriteVarBytes(b.script) \o y1
           x3 == Put(4, a.index) \o x2
           y3 == Put(4, b.index) \o y2
<1>1. writeTxIn(a) \o x = a.hash \o x3 /\ x1 \in Seq(Byte) /\ x2 \in Seq(Byte) /\ x3 \in Seq(Byte)
  BY TxInThen
<1>2. writeTxIn(b) \o y = b.hash \o y3 /\ y1 \in Seq(Byte) /\ y2 \in Seq(Byte) /\ y3 \in Seq(Byte)
  BY TxInThen
<1>3. /\ a.hash \in Seq(Byte) /\ Len(a.hash) = HashSize /\ a.index \in Unsigneds(4)
      /\ a.sequence \in Unsigneds(4) /\ a.script \in Slices(Byte)
  BY TxInIs DEF AnyIns
<1>4. /\ b.hash \in Seq(Byte) /\ Len(b.hash) = HashSize /\ b.index \in Unsigneds(4)
      /\ b.sequence \in Unsigneds(4) /\ b.script \in Slices(Byte)
  BY TxInIs DEF AnyIns
<1>5. a.hash = b.hash /\ x3 = y3
  <2> HIDE DEF x3, y3
  <2>1. a.hash \o x3 = b.hash \o y3 /\ Len(a.hash) = Len(b.hash)
    BY <1>1, <1>2, <1>3, <1>4 DEF Agree
  <2> QED
    BY <1>1, <1>2, <1>3, <1>4, <2>1, CancelBytes
<1>6. a.index = b.index /\ x2 = y2
  <2>1. Agree(Put(4, a.index), x2, Put(4, b.index), y2) /\ 4 \in Nat
    BY <1>5 DEF Agree
  <2> HIDE DEF x2, y2
  <2> QED
    BY <1>1, <1>2, <1>3, <1>4, <2>1, UintOnce
<1>7. a.script = b.script /\ x1 = y1
  <2>1. Agree(WriteVarBytes(a.script), x1, WriteVarBytes(b.script), y1)
    BY <1>6 DEF Agree
  <2> HIDE DEF x1, y1
  <2> QED
    BY <1>1, <1>2, <1>3, <1>4, <2>1, VarBytesOnce
<1>8. a.sequence = b.sequence /\ x = y
  <2>1. Agree(Put(4, a.sequence), x, Put(4, b.sequence), y) /\ 4 \in Nat
    BY <1>7 DEF Agree
  <2> QED
    BY <1>3, <1>4, <2>1, UintOnce
<1>9. \A c \in InParts : c = [hash |-> c.hash, index |-> c.index, script |-> c.script,
                              sequence |-> c.sequence]
  BY DEF InParts
<1> HIDE DEF x1, y1, x2, y2, x3, y3
<1> QED
  BY <1>5, <1>6, <1>7, <1>8, <1>9

\* A stream starts with at most one output.
LEMMA TxOutOnce ==
  ASSUME NEW a \in TxOuts, NEW b \in TxOuts, NEW x \in Seq(Byte), NEW y \in Seq(Byte),
         Agree(WriteTxOut(a), x, WriteTxOut(b), y)
  PROVE  a = b /\ x = y
<1> DEFINE x1 == WriteVarBytes(a.script) \o x
           y1 == WriteVarBytes(b.script) \o y
<1>1. ASSUME NEW t \in TxOuts, NEW z \in Seq(Byte)
      PROVE  /\ WriteTxOut(t) \o z = Put(8, t.value) \o (WriteVarBytes(t.script) \o z)
             /\ WriteVarBytes(t.script) \o z \in Seq(Byte)
             /\ t.value \in Ints(8) /\ t.script \in Slices(Byte)
  <2> DEFINE i == Put(8, t.value)
             v == WriteVarBytes(t.script)
  <2>1. i \in Seq(Byte) /\ v \in Seq(Byte) /\ t.value \in Ints(8) /\ t.script \in Slices(Byte)
    BY TxOutIs
  <2>2. WriteTxOut(t) = i \o v
    BY DEF WriteTxOut
  <2> HIDE DEF i, v
  <2>3. (i \o v) \o z = i \o (v \o z)
    BY <2>1, Assoc, ZenonT(60)
  <2>4. v \o z \in Seq(Byte)
    BY <2>1, Cat
  <2> QED
    BY <2>1, <2>2, <2>3, <2>4 DEF i, v
<1>2. /\ WriteTxOut(a) \o x = Put(8, a.value) \o x1 /\ x1 \in Seq(Byte)
      /\ a.value \in Ints(8) /\ a.script \in Slices(Byte)
  BY <1>1
<1>3. /\ WriteTxOut(b) \o y = Put(8, b.value) \o y1 /\ y1 \in Seq(Byte)
      /\ b.value \in Ints(8) /\ b.script \in Slices(Byte)
  BY <1>1
<1>4. a.value = b.value /\ x1 = y1
  <2> HIDE DEF x1, y1
  <2>1. Agree(Put(8, a.value), x1, Put(8, b.value), y1)
    BY <1>2, <1>3 DEF Agree
  <2>2. 8 \in {4, 8}
    OBVIOUS
  <2> QED
    BY <1>2, <1>3, <2>1, <2>2, IntOnce
<1>5. a.script = b.script /\ x = y
  <2>1. Agree(WriteVarBytes(a.script), x, WriteVarBytes(b.script), y)
    BY <1>4 DEF Agree
  <2> QED
    BY <1>2, <1>3, <2>1, VarBytesOnce
<1>6. \A c \in TxOuts : c = [value |-> c.value, script |-> c.script]
  BY DEF TxOuts
<1> HIDE DEF x1, y1
<1> QED
  BY <1>4, <1>5, <1>6

-------------------------------------------------------------------------------
(* Lists of elements.                                                      *)

\* Induction, for the set of the sequences that have the property.
LEMMA SeqInd ==
  ASSUME NEW X, NEW S, <<>> \in S, \A t \in Seq(X) : t \in S => \A x \in X : Append(t, x) \in S
  PROVE  Seq(X) \subseteq S
<1> DEFINE N == {n \in Nat : \A t \in Seq(X) : Len(t) = n => t \in S}
<1>1. 0 \in N
  <2>1. \A t \in Seq(X) : Len(t) = 0 => t = <<>>
    OBVIOUS
  <2> QED
    BY <2>1
<1>2. ASSUME NEW n \in Nat, n \in N PROVE n + 1 \in N
  <2>1. ASSUME NEW t \in Seq(X), Len(t) = n + 1 PROVE t \in S
    <3>1. t # <<>>
      BY <2>1
    <3>2. PICK u \in Seq(X), x \in X : t = Append(u, x)
      BY <3>1, SequenceEmptyOrAppend
    <3>3. Len(u) \in Nat /\ Len(t) = Len(u) + 1
      BY <3>2, Appended
    <3>4. Len(u) = n
      BY <2>1, <3>3
    <3> QED
      BY <1>2, <3>2, <3>4
  <2> QED
    BY <2>1
<1>3. Nat \subseteq N
  <2> HIDE DEF N
  <2> QED
    BY <1>1, <1>2, NatInd
<1>4. \A t \in Seq(X) : Len(t) \in N
  BY <1>3
<1> QED
  BY <1>4

\* Two lists are written one after the other.
LEMMA ListJoined ==
  ASSUME NEW T, NEW w \in [T -> Seq(Byte)], NEW s \in Seq(T), NEW t \in Seq(T)
  PROVE  WrittenBy(w, s \o t) = WrittenBy(w, s) \o WrittenBy(w, t)
<1> DEFINE S == {u \in Seq(T) : WrittenBy(w, s \o u) = WrittenBy(w, s) \o WrittenBy(w, u)}
<1>1. \A u \in Seq(T) : WrittenBy(w, u) \in Seq(Byte)
  BY Mapped
<1>2. <<>> \in S
  <2>1. <<>> \in Seq(T) /\ s \o <<>> = s
    OBVIOUS
  <2>2. WrittenBy(w, <<>>) = <<>>
    BY <2>1, Mapped
  <2>3. WrittenBy(w, s) \o <<>> = WrittenBy(w, s)
    BY <1>1
  <2> QED
    BY <2>1, <2>2, <2>3
<1>3. ASSUME NEW u \in Seq(T), u \in S, NEW x \in T PROVE Append(u, x) \in S
  <2> DEFINE v == Append(u, x)
             r == s \o u
  <2>1. v \in Seq(T) /\ v = u \o <<x>> /\ <<x>> \in Seq(T)
    BY AppendIsConcat
  <2>2. r \in Seq(T)
    OBVIOUS
  <2>3. s \o v = Append(r, x)
    <3>1. s \o (u \o <<x>>) = (s \o u) \o <<x>>
      BY <2>1, ConcatAssociative, SMTT(30)
    <3>2. Append(r, x) = r \o <<x>>
      BY <2>2, AppendIsConcat
    <3> QED
      BY <2>1, <3>1, <3>2
  <2>4. WrittenBy(w, v) = WrittenBy(w, u) \o w[x] /\ w[x] \in Seq(Byte)
    BY Mapped
  <2>5. WrittenBy(w, Append(r, x)) = WrittenBy(w, r) \o w[x]
    BY <2>2, Mapped
  <2>6. WrittenBy(w, r) = WrittenBy(w, s) \o WrittenBy(w, u)
    BY <1>3
  <2> HIDE DEF v, r
  <2> DEFINE a == WrittenBy(w, s)
             b == WrittenBy(w, u)
             c == w[x]
  <2>7. a \in Seq(Byte) /\ b \in Seq(Byte) /\ c \in Seq(Byte)
    BY <1>1, <2>4
  <2> HIDE DEF a, b, c
  <2>8. (a \o b) \o c = a \o (b \o c)
    BY <2>7, Assoc, Zenon
  <2>9. WrittenBy(w, s \o v) = WrittenBy(w, s) \o WrittenBy(w, v)
    BY <2>3, <2>4, <2>5, <2>6, <2>8 DEF a, b, c
  <2> QED
    BY <2>1, <2>9 DEF v
<1>4. Seq(T) \subseteq S
  <2> HIDE DEF S
  <2> QED
    BY <1>2, <1>3, SeqInd
<1> QED
  BY <1>4

\* The list of one element.
LEMMA OneWritten ==
  ASSUME NEW T, NEW w \in [T -> Seq(Byte)], NEW x \in T
  PROVE  <<x>> \in Seq(T) /\ WrittenBy(w, <<x>>) = w[x] /\ w[x] \in Seq(Byte)
<1>1. <<>> \in Seq(T) /\ <<x>> = Append(<<>>, x) /\ <<x>> \in Seq(T) /\ w[x] \in Seq(Byte)
  OBVIOUS
<1>2. WrittenBy(w, <<>>) = <<>> /\ WrittenBy(w, Append(<<>>, x)) = WrittenBy(w, <<>>) \o w[x]
  BY <1>1, Mapped
<1>3. <<>> \o w[x] = w[x]
  BY <1>1
<1> QED
  BY <1>1, <1>2, <1>3

\* The heads give up their ends.
LEMMA AgreeNext ==
  \A a, b, c, d, x, y \in Seq(Byte) : Agree(a \o b, x, c \o d, y) => Agree(a, b \o x, c, d \o y)
BY Assoc, ZenonT(60) DEF Agree

\* Elements that can be told from what follows them.
Plain(w, T) ==
  /\ w \in [T -> Seq(Byte)]
  /\ \A a, b \in T : \A x, y \in Seq(Byte) : Agree(w[a], x, w[b], y) => a = b /\ x = y

\* A stream starts with at most one list of a given length.
LEMMA ListOnce ==
  ASSUME NEW T, NEW w, Plain(w, T), NEW s \in Seq(T), NEW t \in Seq(T), Len(s) = Len(t),
         NEW x \in Seq(Byte), NEW y \in Seq(Byte), Agree(WrittenBy(w, s), x, WrittenBy(w, t), y)
  PROVE  s = t /\ x = y
<1> DEFINE Good(u) == \A v \in Seq(T) : \A p, q \in Seq(Byte) :
                        Len(u) = Len(v) /\ Agree(WrittenBy(w, u), p, WrittenBy(w, v), q)
                          => u = v /\ p = q
           S == {u \in Seq(T) : Good(u)}
<1>0. w \in [T -> Seq(Byte)]
  BY DEF Plain
<1>1. \A u \in Seq(T) : WrittenBy(w, u) \in Seq(Byte)
  BY <1>0, Mapped
<1>2. <<>> \in S
  <2>1. ASSUME NEW v \in Seq(T), NEW p \in Seq(Byte), NEW q \in Seq(Byte), Len(<<>>) = Len(v),
               Agree(WrittenBy(w, <<>>), p, WrittenBy(w, v), q)
        PROVE  <<>> = v /\ p = q
    <3>1. v = <<>>
      BY <2>1
    <3>2. WrittenBy(w, <<>>) = <<>>
      BY <1>0, <3>1, Mapped
    <3>3. <<>> \o p = p /\ <<>> \o q = q
      OBVIOUS
    <3>4. <<>> \o p = <<>> \o q
      BY <2>1, <3>1, <3>2 DEF Agree
    <3> QED
      BY <3>1, <3>3, <3>4
  <2> QED
    BY <2>1
<1>3. ASSUME NEW u \in Seq(T), u \in S, NEW e \in T PROVE Append(u, e) \in S
  <2> DEFINE n == Append(u, e)
  <2>1. n \in Seq(T) /\ Len(n) = Len(u) + 1 /\ Len(u) \in Nat
    BY Appended
  <2>2. ASSUME NEW v \in Seq(T), NEW p \in Seq(Byte), NEW q \in Seq(Byte), Len(n) = Len(v),
               Agree(WrittenBy(w, n), p, WrittenBy(w, v), q)
        PROVE  n = v /\ p = q
    <3>1. v # <<>>
      BY <2>1, <2>2
    <3>2. PICK r \in Seq(T), f \in T : v = Append(r, f)
      BY <3>1, SequenceEmptyOrAppend
    <3>3. Len(v) = Len(r) + 1 /\ Len(r) \in Nat
      BY <3>2, Appended
    <3>4. Len(u) = Len(r)
      BY <2>1, <2>2, <3>3
    <3>5. WrittenBy(w, n) = WrittenBy(w, u) \o w[e] /\ WrittenBy(w, v) = WrittenBy(w, r) \o w[f]
      BY <1>0, <3>2, Mapped, ZenonT(60)
    <3>6. w[e] \in Seq(Byte) /\ w[f] \in Seq(Byte)
      BY <1>0
    <3> DEFINE a == WrittenBy(w, u)
               b == w[e]
               c == WrittenBy(w, r)
               d == w[f]
               pp == b \o p
               qq == d \o q
    <3>7. a \in Seq(Byte) /\ b \in Seq(Byte) /\ c \in Seq(Byte) /\ d \in Seq(Byte)
      BY <1>1, <3>6
    <3>8. pp \in Seq(Byte) /\ qq \in Seq(Byte)
      <4> HIDE DEF a, b, c, d
      <4> QED
        BY <3>7, Cat
    <3>9. Agree(a, pp, c, qq)
      <4> HIDE DEF a, b, c, d
      <4>1. (a \o b) \o p = (c \o d) \o q
        BY <2>2, <3>5 DEF Agree, a, b, c, d
      <4>2. Agree(a \o b, p, c \o d, q)
        BY <4>1 DEF Agree
      <4> QED
        BY <3>7, <4>2, AgreeNext
    <3>10. u = r /\ pp = qq
      <4> HIDE DEF pp, qq, n
      <4>1. Good(u)
        BY <1>3
      <4> QED
        BY <3>4, <3>8, <3>9, <4>1
    <3>11. Agree(b, p, d, q)
      BY <3>10 DEF Agree
    <3>12. e = f /\ p = q
      BY <3>11 DEF Plain
    <3> QED
      BY <3>2, <3>10, <3>12
  <2>3. Good(n)
    BY <2>2
  <2> QED
    BY <2>1, <2>3
<1>4. Seq(T) \subseteq S
  <2> HIDE DEF S
  <2> QED
    BY <1>2, <1>3, SeqInd
<1>5. Good(s)
  BY <1>4
<1> QED
  BY <1>5

\* A list s that was read from the list t is the beginning of it; if it is not
\* the whole, what is left starts with the next element.
Leads(w, s, t, x, y) ==
  \/ Len(s) = Len(t) /\ s = t /\ x = y
  \/ /\ Len(s) < Len(t)
     /\ \A i \in 1 .. Len(s) : s[i] = t[i]
     /\ \E z \in Seq(Byte) : x = w[t[Len(s) + 1]] \o z

\* The shorter of two lists is the beginning of the longer one.
LEMMA ListLeads ==
  ASSUME NEW T, NEW w, Plain(w, T), NEW s \in Seq(T), NEW t \in Seq(T), Len(s) <= Len(t),
         NEW x \in Seq(Byte), NEW y \in Seq(Byte), Agree(WrittenBy(w, s), x, WrittenBy(w, t), y)
  PROVE  Leads(w, s, t, x, y)
<1> DEFINE k == Len(s)
<1>0. w \in [T -> Seq(Byte)] /\ k \in Nat /\ Len(t) \in Nat
  BY DEF Plain
<1>1. CASE k = Len(t)
  <2>1. s = t /\ x = y
    BY <1>1, ListOnce
  <2> QED
    BY <1>1, <2>1 DEF Leads
<1>2. CASE k < Len(t)
  <2> DEFINE p == SubSeq(t, 1, k)
             h == t[k + 1]
             q == SubSeq(t, k + 2, Len(t))
             o == <<h>>
             pq == o \o q
  <2>1. h \in T /\ k + 1 \in 0 .. Len(t) /\ k \in 0 .. Len(t)
    BY <1>0, <1>2
  <2>2. p \in Seq(T) /\ Len(p) = k /\ q \in Seq(T) /\ (\A i \in 1 .. k : p[i] = t[i])
    BY <1>0, <1>2
  <2>3. o \in Seq(T) /\ pq \in Seq(T)
    BY <2>1, <2>2
  <2>4. t = p \o pq
    <3>1. /\ SubSeq(t, k + 1, Len(t)) \in Seq(T) /\ SubSeq(t, 1, k) \o SubSeq(t, k + 1, Len(t)) = t
      BY <2>1, Parts
    <3>2. SubSeq(t, k + 1, Len(t)) = pq
      <4>1. SubSeq(t, k + 1, k + 1) \o SubSeq(t, k + 2, Len(t)) = SubSeq(t, k + 1, Len(t))
        <5>1. /\ k + 1 \in 1 .. Len(t) + 1 /\ k + 1 \in (k + 1) - 1 .. Len(t)
              /\ Len(t) \in k + 1 .. Len(t) /\ (k + 1) + 1 = k + 2
          BY <1>0, <1>2
        <5> HIDE DEF k
        <5> QED
          BY <5>1, ConcatAdjacentSubSeq
      <4>2. SubSeq(t, k + 1, k + 1) = <<h>>
        <5> DEFINE u == SubSeq(t, k + 1, k + 1)
        <5>1. u \in Seq(T) /\ Len(u) = 1 /\ u[1] = h
          BY <1>0, <1>2
        <5>2. o \in Seq(T) /\ Len(o) = 1 /\ o[1] = h
          BY <2>3
        <5>3. \A i \in 1 .. 1 : u[i] = o[i]
          BY <5>1, <5>2
        <5> HIDE DEF u, o
        <5>4. u = o
          BY <5>1, <5>2, <5>3, SeqEqual
        <5> QED
          BY <5>4 DEF u, o
      <4> QED
        BY <4>1, <4>2
    <3> QED
      BY <3>1, <3>2
  <2> HIDE DEF p, q, o, pq, h, k
  <2>5. WrittenBy(w, t) = WrittenBy(w, p) \o WrittenBy(w, pq)
    BY <1>0, <2>2, <2>3, <2>4, ListJoined
  <2>6. WrittenBy(w, pq) = WrittenBy(w, o) \o WrittenBy(w, q)
    BY <1>0, <2>2, <2>3, ListJoined, ZenonT(60) DEF pq
  <2>7. WrittenBy(w, o) = w[h] /\ w[h] \in Seq(Byte)
    BY <1>0, <2>1, OneWritten DEF o
  <2> DEFINE a == WrittenBy(w, p)
             b == w[h]
             c == WrittenBy(w, q)
             z == c \o y
             bz == b \o z
  <2>8. a \in Seq(Byte) /\ b \in Seq(Byte) /\ c \in Seq(Byte)
    BY <1>0, <2>2, <2>7, Mapped
  <2>9. WrittenBy(w, t) = a \o (b \o c)
    BY <2>5, <2>6, <2>7
  <2> HIDE DEF a, b, c
  <2>10. z \in Seq(Byte) /\ bz \in Seq(Byte) /\ b \o c \in Seq(Byte)
    BY <2>8, Cat
  <2>11. (a \o (b \o c)) \o y = a \o bz
    <3> DEFINE e == b \o c
    <3>1. (a \o e) \o y = a \o (e \o y)
      <4>1. e \in Seq(Byte)
        BY <2>10
      <4> HIDE DEF e
      <4>2. \A f, g, i \in Seq(Byte) : (f \o g) \o i = f \o (g \o i)
        BY Assoc
      <4>3. a \in Seq(Byte) /\ y \in Seq(Byte)
        BY <2>8
      <4> QED
        BY <4>1, <4>2, <4>3, ZenonT(60)
    <3>2. (b \o c) \o y = b \o (c \o y)
      BY <2>8, Assoc, ZenonT(60)
    <3> QED
      BY <3>1, <3>2
  <2>12. Agree(WrittenBy(w, s), x, WrittenBy(w, p), bz)
    BY <2>9, <2>11 DEF Agree, a
  <2>13. s = p /\ x = bz
    <3> HIDE DEF bz
    <3>1. Len(s) = Len(p)
      BY <2>2 DEF k
    <3> QED
      BY <2>2, <2>10, <2>12, <3>1, ListOnce
  <2>14. \A i \in 1 .. k : s[i] = t[i]
    BY <2>2, <2>13
  <2> QED
    BY <1>2, <2>10, <2>13, <2>14 DEF Leads, h, k, b
<1> QED
  BY <1>0, <1>1, <1>2

\* How the elements of the lists of a transaction are written.
InW   == [x \in InParts |-> writeTxIn(x)]
OutW  == [x \in TxOuts |-> WriteTxOut(x)]
ItemW == [x \in Slices(Byte) |-> WriteVarBytes(x)]
WitW  == [x \in Slices(Slices(Byte)) |-> writeTxWitness(x)]

\* Inputs are written one after the other.
LEMMA InsPlain ==
  Plain(InW, InParts) /\ \A s \in Seq(InParts) : InsBytes(s) = WrittenBy(InW, s)
<1>1. \A x \in InParts : InW[x] = writeTxIn(x)
  BY DEF InW
<1>2. InW \in [InParts -> Seq(Byte)]
  <2>1. \A x \in InParts : writeTxIn(x) \in Seq(Byte)
    BY TxInBytes DEF AnyIns
  <2> QED
    BY <2>1 DEF InW
<1>3. \A a, b \in InParts : \A x, y \in Seq(Byte) : Agree(InW[a], x, InW[b], y) => a = b /\ x = y
  BY <1>1, TxInOnce
<1>4. ASSUME NEW s \in Seq(InParts) PROVE InsBytes(s) = WrittenBy(InW, s)
  <2>1. \A i \in DOMAIN s : s[i] \in InParts
    OBVIOUS
  <2>2. [i \in DOMAIN s |-> writeTxIn(s[i])] = [i \in DOMAIN s |-> InW[s[i]]]
    BY <1>1, <2>1
  <2> QED
    BY <2>2 DEF InsBytes, WrittenBy
<1> QED
  BY <1>2, <1>3, <1>4 DEF Plain

\* Outputs are written one after the other.
LEMMA OutsPlain ==
  Plain(OutW, TxOuts) /\ \A s \in Seq(TxOuts) : OutsBytes(s) = WrittenBy(OutW, s)
<1>1. \A x \in TxOuts : OutW[x] = WriteTxOut(x)
  BY DEF OutW
<1>2. OutW \in [TxOuts -> Seq(Byte)]
  <2>1. \A x \in TxOuts : WriteTxOut(x) \in Seq(Byte)
    BY TxOutIs
  <2> QED
    BY <2>1 DEF OutW
<1>3. \A a, b \in TxOuts : \A x, y \in Seq(Byte) : Agree(OutW[a], x, OutW[b], y) => a = b /\ x = y
  BY <1>1, TxOutOnce
<1>4. ASSUME NEW s \in Seq(TxOuts) PROVE OutsBytes(s) = WrittenBy(OutW, s)
  <2>1. \A i \in DOMAIN s : s[i] \in TxOuts
    OBVIOUS
  <2>2. [i \in DOMAIN s |-> WriteTxOut(s[i])] = [i \in DOMAIN s |-> OutW[s[i]]]
    BY <1>1, <2>1
  <2> QED
    BY <2>2 DEF OutsBytes, WrittenBy
<1> QED
  BY <1>2, <1>3, <1>4 DEF Plain

\* Items are written one after the other.
LEMMA ItemsPlain ==
  Plain(ItemW, Slices(Byte)) /\ \A s \in Seq(Slices(Byte)) : ItemsBytes(s) = WrittenBy(ItemW, s)
<1>1. \A x \in Slices(Byte) : ItemW[x] = WriteVarBytes(x)
  BY DEF ItemW
<1>2. ItemW \in [Slices(Byte) -> Seq(Byte)]
  <2>1. \A x \in Slices(Byte) : WriteVarBytes(x) \in Seq(Byte)
    BY VarBytesAre
  <2> QED
    BY <2>1 DEF ItemW
<1>3. \A a, b \in Slices(Byte) : \A x, y \in Seq(Byte) : Agree(ItemW[a], x, ItemW[b], y) => a = b /\ x = y
  BY <1>1, VarBytesOnce
<1>4. ASSUME NEW s \in Seq(Slices(Byte)) PROVE ItemsBytes(s) = WrittenBy(ItemW, s)
  <2>1. \A i \in DOMAIN s : s[i] \in Slices(Byte)
    OBVIOUS
  <2>2. [i \in DOMAIN s |-> WriteVarBytes(s[i])] = [i \in DOMAIN s |-> ItemW[s[i]]]
    BY <1>1, <2>1
  <2> QED
    BY <2>2 DEF ItemsBytes, WrittenBy
<1> QED
  BY <1>2, <1>3, <1>4 DEF Plain

\* A witness is its number of items and the items.
LEMMA WitnessThen ==
  ASSUME NEW a \in Slices(Slices(Byte)), NEW x \in Seq(Byte)
  PROVE  /\ writeTxWitness(a) \o x = WriteVarInt(Len(a)) \o (ItemsBytes(a) \o x)
         /\ ItemsBytes(a) \in Seq(Byte) /\ ItemsBytes(a) \o x \in Seq(Byte)
<1> DEFINE m == WriteVarInt(Len(a))
           n == ItemsBytes(a)
<1>1. m \in Seq(Byte) /\ n \in Seq(Byte) /\ writeTxWitness(a) = m \o n
  BY WitnessIs
<1> HIDE DEF m, n
<1>2. (m \o n) \o x = m \o (n \o x)
  BY <1>1, Assoc, Zenon
<1>3. n \o x \in Seq(Byte)
  BY <1>1, Cat
<1> QED
  BY <1>1, <1>2, <1>3 DEF m, n

\* A stream starts with at most one witness.
LEMMA WitnessOnce ==
  ASSUME NEW a \in Slices(Slices(Byte)), NEW b \in Slices(Slices(Byte)), NEW x \in Seq(Byte),
         NEW y \in Seq(Byte), Agree(writeTxWitness(a), x, writeTxWitness(b), y)
  PROVE  a = b /\ x = y
<1> DEFINE p == ItemsBytes(a) \o x
           q == ItemsBytes(b) \o y
<1>1. writeTxWitness(a) \o x = WriteVarInt(Len(a)) \o p /\ p \in Seq(Byte)
  BY WitnessThen
<1>2. writeTxWitness(b) \o y = WriteVarInt(Len(b)) \o q /\ q \in Seq(Byte)
  BY WitnessThen
<1>3. /\ a \in Seq(Slices(Byte)) /\ Len(a) \in Unsigneds(8)
      /\ b \in Seq(Slices(Byte)) /\ Len(b) \in Unsigneds(8)
  BY WitnessIs
<1>4. Len(a) = Len(b) /\ p = q
  <2> HIDE DEF p, q
  <2>1. Agree(WriteVarInt(Len(a)), p, WriteVarInt(Len(b)), q)
    BY <1>1, <1>2 DEF Agree
  <2> QED
    BY <1>1, <1>2, <1>3, <2>1, VarIntOnce
<1>5. Agree(WrittenBy(ItemW, a), x, WrittenBy(ItemW, b), y)
  BY <1>3, <1>4, ItemsPlain DEF Agree
<1>6. Plain(ItemW, Slices(Byte))
  BY ItemsPlain
<1> QED
  BY <1>3, <1>4, <1>5, <1>6, ListOnce

\* Witnesses are written one after the other.
LEMMA WitsPlain ==
  /\ Plain(WitW, Slices(Slices(Byte)))
  /\ \A s \in Seq(Slices(Slices(Byte))) : WitsBytes(s) = WrittenBy(WitW, s)
<1> DEFINE W == Slices(Slices(Byte))
<1>1. \A x \in W : WitW[x] = writeTxWitness(x)
  BY DEF WitW
<1>2. WitW \in [W -> Seq(Byte)]
  <2>1. \A x \in W : writeTxWitness(x) \in Seq(Byte)
    BY WitnessIs
  <2> QED
    BY <2>1 DEF WitW
<1>3. \A a, b \in W : \A x, y \in Seq(Byte) : Agree(WitW[a], x, WitW[b], y) => a = b /\ x = y
  BY <1>1, WitnessOnce
<1>4. ASSUME NEW s \in Seq(W) PROVE WitsBytes(s) = WrittenBy(WitW, s)
  <2>1. \A i \in DOMAIN s : s[i] \in W
    OBVIOUS
  <2>2. [i \in DOMAIN s |-> writeTxWitness(s[i])] = [i \in DOMAIN s |-> WitW[s[i]]]
    BY <1>1, <2>1
  <2> QED
    BY <2>2 DEF WitsBytes, WrittenBy
<1> QED
  BY <1>2, <1>3, <1>4 DEF Plain

-------------------------------------------------------------------------------
(* A transaction, and what somebody has read of it.                        *)

\* The parts of a whole transaction.
Entire(u, w, z, h) ==
  /\ u \in Ints(4) /\ w \in BOOLEAN /\ z \in Unsigneds(4) /\ h \in Partials
  /\ Len(h.ins) \in Unsigneds(8) /\ Len(h.outs) \in Unsigneds(8)
  /\ Len(h.done) = (IF w THEN Len(h.ins) ELSE 0) /\ h.item = <<>>

\* What is written of it from a point on, with y behind it.
FromEnd(z, y)         == Put(4, z) \o y
FromWits(z, h, y)     == WitsBytes(h.done) \o FromEnd(z, y)
FromOuts(z, h, y)     == OutsBytes(h.outs) \o FromWits(z, h, y)
FromOutCount(z, h, y) == WriteVarInt(Len(h.outs)) \o FromOuts(z, h, y)
FromIns(z, h, y)      == InsBytes(h.ins) \o FromOutCount(z, h, y)
FromInCount(z, h, y)  == WriteVarInt(Len(h.ins)) \o FromIns(z, h, y)

\* Three parts and what follows.
Split3(a, b, c, x) ==
  /\ ((a \o b) \o c) \o x = a \o (b \o (c \o x))
  /\ c \o x \in Seq(Byte) /\ b \o (c \o x) \in Seq(Byte)

\* Three streams and a rest, grouped either way.
LEMMA Threefold ==
  ASSUME NEW a \in Seq(Byte), NEW b \in Seq(Byte), NEW c \in Seq(Byte), NEW x \in Seq(Byte)
  PROVE  Split3(a, b, c, x)
<1>1. c \o x \in Seq(Byte)
  BY Cat
<1>2. b \o (c \o x) \in Seq(Byte)
  BY <1>1, Cat
<1>3. a \o b \in Seq(Byte)
  BY Cat
<1>4. ((a \o b) \o c) \o x = (a \o b) \o (c \o x)
  BY <1>3, Assoc, Zenon
<1>5. (a \o b) \o (c \o x) = a \o (b \o (c \o x))
  BY <1>1, Assoc, ZenonT(60)
<1> QED
  BY <1>1, <1>2, <1>4, <1>5 DEF Split3

\* The parts of the bytes up to some point.
Stages(v, f, c, g, x) ==
  /\ ToIns(v, f, c, g) \o x = Preamble(v, f) \o (WriteVarInt(c) \o (InsBytes(g.ins) \o x))
  /\ ToOuts(v, f, c, g) \o x
       = ToIns(v, f, Len(g.ins), g) \o (WriteVarInt(c) \o (OutsBytes(g.outs) \o x))
  /\ ToItems(v, f, c, g) \o x = ToWits(v, f, g) \o (WriteVarInt(c) \o (ItemsBytes(g.item) \o x))
  /\ ToWits(v, f, g) \o x = ToOuts(v, f, Len(g.outs), g) \o (WitsBytes(g.done) \o x)
  /\ \A t \in Unsigneds(4) : ToEnd(v, f, t, g) \o x = ToWits(v, f, g) \o (Put(4, t) \o x)

\* They are bytes.
Fits(c, g, x) ==
  /\ InsBytes(g.ins) \in Seq(Byte) /\ OutsBytes(g.outs) \in Seq(Byte)
  /\ WitsBytes(g.done) \in Seq(Byte) /\ ItemsBytes(g.item) \in Seq(Byte)
  /\ InsBytes(g.ins) \o x \in Seq(Byte) /\ OutsBytes(g.outs) \o x \in Seq(Byte)
  /\ WitsBytes(g.done) \o x \in Seq(Byte) /\ ItemsBytes(g.item) \o x \in Seq(Byte)
  /\ WriteVarInt(c) \o (InsBytes(g.ins) \o x) \in Seq(Byte)
  /\ WriteVarInt(c) \o (OutsBytes(g.outs) \o x) \in Seq(Byte)
  /\ WriteVarInt(c) \o (ItemsBytes(g.item) \o x) \in Seq(Byte)
  /\ \A t \in Unsigneds(4) : Put(4, t) \o x \in Seq(Byte)

\* The parts that were read and a rest, grouped from the right.
LEMMA PartsFit ==
  ASSUME NEW c \in Unsigneds(8), NEW g \in Partials, NEW x \in Seq(Byte)
  PROVE  Fits(c, g, x)
<1>1. Writable(g)
  BY PartsWritable
<1>2. /\ InsBytes(g.ins) \in Seq(Byte) /\ OutsBytes(g.outs) \in Seq(Byte)
      /\ WitsBytes(g.done) \in Seq(Byte) /\ ItemsBytes(g.item) \in Seq(Byte)
      /\ WriteVarInt(c) \in Seq(Byte)
  BY <1>1, InsWritten, OutsWritten, WitsWritten, ItemsWritten, VarIntWritten DEF Writable
<1>3. ASSUME NEW t \in Unsigneds(4) PROVE Put(4, t) \o x \in Seq(Byte)
  <2>1. Put(4, t) \in Seq(Byte)
    BY Numbers, Puts
  <2> QED
    BY <2>1, Cat
<1>4. /\ InsBytes(g.ins) \o x \in Seq(Byte) /\ OutsBytes(g.outs) \o x \in Seq(Byte)
      /\ WitsBytes(g.done) \o x \in Seq(Byte) /\ ItemsBytes(g.item) \o x \in Seq(Byte)
  BY <1>2, Cat
<1>5. /\ WriteVarInt(c) \o (InsBytes(g.ins) \o x) \in Seq(Byte)
      /\ WriteVarInt(c) \o (OutsBytes(g.outs) \o x) \in Seq(Byte)
      /\ WriteVarInt(c) \o (ItemsBytes(g.item) \o x) \in Seq(Byte)
  BY <1>2, <1>4, Cat
<1> QED
  BY <1>2, <1>3, <1>4, <1>5 DEF Fits

\* The same at each stage of the reading.
LEMMA PartsStages ==
  ASSUME NEW v \in Ints(4), NEW f \in BOOLEAN, NEW c \in Unsigneds(8), NEW g \in Partials,
         Len(g.ins) \in Unsigneds(8), Len(g.outs) \in Unsigneds(8), NEW x \in Seq(Byte)
  PROVE  Stages(v, f, c, g, x)
<1>1. Writable(g) /\ Fits(c, g, x)
  BY PartsWritable, PartsFit
<1> DEFINE ins == InsBytes(g.ins)
           outs == OutsBytes(g.outs)
           done == WitsBytes(g.done)
           item == ItemsBytes(g.item)
           n == WriteVarInt(c)
           o == Preamble(v, f)
           ti == ToIns(v, f, Len(g.ins), g)
           to == ToOuts(v, f, Len(g.outs), g)
           tw == ToWits(v, f, g)
<1>2. /\ ins \in Seq(Byte) /\ outs \in Seq(Byte) /\ done \in Seq(Byte) /\ item \in Seq(Byte)
  BY <1>1 DEF Fits
<1>3. o \in Seq(Byte) /\ n \in Seq(Byte)
  BY FrontIs, VarIntWritten
<1>4. ti \in Seq(Byte)
  <2>1. InsSpan(v, f, Len(g.ins), g)
    BY <1>1, SpanIns
  <2> QED
    BY <2>1 DEF InsSpan
<1>5. to \in Seq(Byte)
  <2>1. OutsSpan(v, f, Len(g.outs), g)
    BY <1>1, SpanOuts
  <2> QED
    BY <2>1 DEF OutsSpan
<1>6. tw \in Seq(Byte)
  <2>1. WitsSpan(v, f, g)
    BY <1>1, SpanWits
  <2> QED
    BY <2>1 DEF WitsSpan
<1>7. /\ ToIns(v, f, c, g) = (o \o n) \o ins /\ ToOuts(v, f, c, g) = (ti \o n) \o outs
      /\ ToItems(v, f, c, g) = (tw \o n) \o item /\ tw = to \o done
      /\ \A t : ToEnd(v, f, t, g) = tw \o Put(4, t)
  BY DEF ToIns, ToOuts, ToItems, ToWits, ToEnd
<1> HIDE DEF ins, outs, done, item, n, o, ti, to, tw
<1>8. Split3(o, n, ins, x) /\ Split3(ti, n, outs, x) /\ Split3(tw, n, item, x)
  BY <1>2, <1>3, <1>4, <1>6, Threefold
<1>9. (to \o done) \o x = to \o (done \o x)
  BY <1>2, <1>5, Assoc, Zenon
<1>10. ASSUME NEW t \in Unsigneds(4) PROVE (tw \o Put(4, t)) \o x = tw \o (Put(4, t) \o x)
  <2>1. Put(4, t) \in Seq(Byte)
    BY Numbers, Puts
  <2> QED
    BY <1>6, <2>1, Assoc
<1>11. /\ ToIns(v, f, c, g) \o x = o \o (n \o (ins \o x))
       /\ ToOuts(v, f, c, g) \o x = ti \o (n \o (outs \o x))
       /\ ToItems(v, f, c, g) \o x = tw \o (n \o (item \o x))
  BY <1>7, <1>8 DEF Split3
<1>12. tw \o x = to \o (done \o x)
  BY <1>7, <1>9
<1> QED
  BY <1>7, <1>10, <1>11, <1>12 DEF Stages, ins, outs, done, item, n, o, ti, to, tw

\* They are bytes.
Bytes(u, w, z, h, y) ==
  /\ FromEnd(z, y) \in Seq(Byte) /\ FromWits(z, h, y) \in Seq(Byte)
  /\ FromOuts(z, h, y) \in Seq(Byte) /\ FromOutCount(z, h, y) \in Seq(Byte)
  /\ FromIns(z, h, y) \in Seq(Byte) /\ FromInCount(z, h, y) \in Seq(Byte)
  /\ ToEnd(u, w, z, h) \o y = Preamble(u, w) \o FromInCount(z, h, y)

\* The same for a whole transaction.
LEMMA EntireBytes ==
  ASSUME NEW u, NEW w, NEW z, NEW h, Entire(u, w, z, h), NEW y \in Seq(Byte)
  PROVE  Bytes(u, w, z, h, y)
<1>1. /\ u \in Ints(4) /\ w \in BOOLEAN /\ z \in Unsigneds(4) /\ h \in Partials
      /\ Len(h.ins) \in Unsigneds(8) /\ Len(h.outs) \in Unsigneds(8)
  BY DEF Entire
<1> DEFINE n == Len(h.ins)
           m == Len(h.outs)
<1>2. FromEnd(z, y) \in Seq(Byte)
  BY <1>1, PartsFit DEF Fits, FromEnd
<1>3. FromWits(z, h, y) \in Seq(Byte)
  BY <1>1, <1>2, PartsFit DEF Fits, FromWits
<1>4. FromOuts(z, h, y) \in Seq(Byte) /\ FromOutCount(z, h, y) \in Seq(Byte)
  BY <1>1, <1>3, PartsFit DEF Fits, FromOuts, FromOutCount
<1>5. FromIns(z, h, y) \in Seq(Byte) /\ FromInCount(z, h, y) \in Seq(Byte)
  BY <1>1, <1>4, PartsFit DEF Fits, FromIns, FromInCount
<1>6. ASSUME NEW c \in Unsigneds(8), NEW x \in Seq(Byte) PROVE Stages(u, w, c, h, x)
  BY <1>1, PartsStages
<1>7. ToEnd(u, w, z, h) \o y = ToWits(u, w, h) \o FromEnd(z, y)
  BY <1>1, <1>6 DEF Stages, FromEnd
<1>8. ToWits(u, w, h) \o FromEnd(z, y) = ToOuts(u, w, m, h) \o FromWits(z, h, y)
  BY <1>1, <1>2, <1>6 DEF Stages, FromWits
<1>9. ToOuts(u, w, m, h) \o FromWits(z, h, y) = ToIns(u, w, n, h) \o FromOutCount(z, h, y)
  BY <1>1, <1>3, <1>6 DEF Stages, FromOutCount, FromOuts
<1>10. ToIns(u, w, n, h) \o FromOutCount(z, h, y) = Preamble(u, w) \o FromInCount(z, h, y)
  BY <1>1, <1>4, <1>6 DEF Stages, FromInCount, FromIns
<1> QED
  BY <1>2, <1>3, <1>4, <1>5, <1>7, <1>8, <1>9, <1>10 DEF Bytes

\* The version, and the marker of a flag.
Mark(f) == IF f THEN <<0, WitnessFlag>> ELSE <<>>

\* The marker and the flag are bytes.
LEMMA MarkIs == ASSUME NEW f \in BOOLEAN PROVE Mark(f) \in Seq(Byte)
BY MarkerBytes, NoBytes DEF Mark

\* The opening is the version and the mark.
LEMMA VersionThen ==
  ASSUME NEW v \in Ints(4), NEW f \in BOOLEAN, NEW x \in Seq(Byte)
  PROVE  Preamble(v, f) \o x = Put(4, v) \o (Mark(f) \o x) /\ Mark(f) \o x \in Seq(Byte)
<1> DEFINE mark == Mark(f)
           p == Put(4, v)
<1>1. mark \in Seq(Byte)
  BY MarkIs
<1>2. p \in Seq(Byte)
  <2>1. 4 \in Nat /\ v \in Int
    BY PowerValues, SignedNumbers
  <2> QED
    BY <2>1, Puts
<1>3. Preamble(v, f) = p \o mark
  BY DEF Preamble, Mark
<1> HIDE DEF mark, p
<1>4. (p \o mark) \o x = p \o (mark \o x)
  BY <1>1, <1>2, Assoc, Zenon
<1>5. mark \o x \in Seq(Byte)
  BY <1>1, Cat
<1> QED
  BY <1>1, <1>3, <1>4, <1>5 DEF mark, p

\* The marker is not taken for a number of inputs, nor such a number for it.
Marked(f, c, w, n) == (f /\ ~ w => n # 0) /\ (w /\ ~ f => c # 0)

\* Only a count of 0 is written like the marker.
LEMMA MarkOnce ==
  ASSUME NEW c \in Unsigneds(8), NEW n \in Unsigneds(8), NEW x \in Seq(Byte), NEW y \in Seq(Byte),
         WriteVarInt(c) \o x = <<0, WitnessFlag>> \o (WriteVarInt(n) \o y)
  PROVE  c = 0
<1> DEFINE z == WriteVarInt(n) \o y
           o == <<WitnessFlag>> \o z
<1>1. z \in Seq(Byte)
  BY VarIntWritten, Cat
<1>2. o \in Seq(Byte)
  BY <1>1, MarkerBytes, Cat
<1>3. <<0>> \o o = <<0, WitnessFlag>> \o z
  BY <1>1, MarkerBytes
<1> HIDE DEF z
<1>4. WriteVarInt(c) \o x = <<0>> \o o /\ <<0>> = WriteVarInt(0) /\ 0 \in Unsigneds(8)
  BY <1>3, MarkerBytes DEF z
<1> HIDE DEF o
<1>5. Agree(WriteVarInt(c), x, WriteVarInt(0), o)
  BY <1>4 DEF Agree
<1> QED
  BY <1>2, <1>4, <1>5, VarIntOnce

\* A stream opens in one way, unless the count 0 stands for the marker.
LEMMA OpeningOnce ==
  ASSUME NEW v \in Ints(4), NEW f \in BOOLEAN, NEW c \in Unsigneds(8), NEW x \in Seq(Byte),
         NEW u \in Ints(4), NEW w \in BOOLEAN, NEW n \in Unsigneds(8), NEW y \in Seq(Byte),
         Agree(Preamble(v, f), WriteVarInt(c) \o x, Preamble(u, w), WriteVarInt(n) \o y),
         Marked(f, c, w, n)
  PROVE  v = u /\ f = w /\ c = n /\ x = y
<1> DEFINE p == WriteVarInt(c) \o x
           q == WriteVarInt(n) \o y
<1>1. p \in Seq(Byte) /\ q \in Seq(Byte)
  BY VarIntWritten, Cat
<1>2. v = u /\ Mark(f) \o p = Mark(w) \o q
  <2>1. Preamble(v, f) \o p = Preamble(u, w) \o q
    BY DEF Agree
  <2> HIDE DEF p, q
  <2> DEFINE fp == Mark(f) \o p
             wq == Mark(w) \o q
  <2>2. Preamble(v, f) \o p = Put(4, v) \o fp /\ fp \in Seq(Byte)
    BY <1>1, VersionThen, ZenonT(60)
  <2>3. Preamble(u, w) \o q = Put(4, u) \o wq /\ wq \in Seq(Byte)
    BY <1>1, VersionThen, ZenonT(60)
  <2> HIDE DEF fp, wq
  <2>4. Agree(Put(4, v), fp, Put(4, u), wq) /\ 4 \in {4, 8}
    BY <2>1, <2>2, <2>3 DEF Agree
  <2>5. v = u /\ fp = wq
    BY <2>2, <2>3, <2>4, IntOnce
  <2> QED
    BY <2>5 DEF fp, wq
<1>3. \A b \in Seq(Byte) : <<>> \o b = b
  OBVIOUS
<1>4. ~ (f /\ ~ w)
  <2> SUFFICES ASSUME f, ~ w PROVE FALSE
    OBVIOUS
  <2>1. Mark(f) = <<0, WitnessFlag>> /\ Mark(w) = <<>>
    BY DEF Mark
  <2> HIDE DEF p, q
  <2>2. <<0, WitnessFlag>> \o p = q
    BY <1>1, <1>2, <1>3, <2>1
  <2>3. WriteVarInt(n) \o y = <<0, WitnessFlag>> \o (WriteVarInt(c) \o x)
    BY <2>2 DEF p, q
  <2>4. n = 0
    BY <2>3, MarkOnce
  <2> QED
    BY <2>4 DEF Marked
<1>5. ~ (w /\ ~ f)
  <2> SUFFICES ASSUME w, ~ f PROVE FALSE
    OBVIOUS
  <2>1. Mark(w) = <<0, WitnessFlag>> /\ Mark(f) = <<>>
    BY DEF Mark
  <2> HIDE DEF p, q
  <2>2. <<0, WitnessFlag>> \o q = p
    BY <1>1, <1>2, <1>3, <2>1
  <2>3. WriteVarInt(c) \o x = <<0, WitnessFlag>> \o (WriteVarInt(n) \o y)
    BY <2>2 DEF p, q
  <2>4. c = 0
    BY <2>3, MarkOnce
  <2> QED
    BY <2>4 DEF Marked
<1>6. f = w
  BY <1>4, <1>5
<1>7. p = q
  <2> DEFINE m == Mark(f)
  <2>1. m \in Seq(Byte) /\ m \o p = m \o q
    BY <1>2, <1>6, MarkIs
  <2> HIDE DEF m, p, q
  <2> QED
    BY <1>1, <2>1, CancelBytes
<1>8. Agree(WriteVarInt(c), x, WriteVarInt(n), y)
  BY <1>7 DEF Agree
<1> QED
  BY <1>2, <1>6, <1>8, VarIntOnce

-------------------------------------------------------------------------------
(* What a decoder has read of a transaction that was written is a part of  *)
(* that transaction.                                                       *)

\* The inputs that are read are the first ones.
InsLead(v, f, c, g, x, u, w, z, h, y) ==
  /\ v = u /\ f = w /\ c = Len(h.ins)
  /\ (Len(g.ins) <= Len(h.ins) => Leads(InW, g.ins, h.ins, x, FromOutCount(z, h, y)))

\* Whoever reads inputs reads those that were written.
LEMMA InsStage ==
  ASSUME NEW u, NEW w, NEW z, NEW h, Entire(u, w, z, h), NEW y \in Seq(Byte),
         NEW v \in Ints(4), NEW f \in BOOLEAN, NEW c \in Unsigneds(8), NEW g \in Partials,
         Len(g.ins) \in Unsigneds(8), Len(g.outs) \in Unsigneds(8), NEW x \in Seq(Byte),
         Agree(ToIns(v, f, c, g), x, ToEnd(u, w, z, h), y), Marked(f, c, w, Len(h.ins))
  PROVE  InsLead(v, f, c, g, x, u, w, z, h, y)
<1> DEFINE n == Len(h.ins)
           p == InsBytes(g.ins) \o x
           q == FromIns(z, h, y)
           r == FromOutCount(z, h, y)
<1>1. u \in Ints(4) /\ w \in BOOLEAN /\ h \in Partials /\ n \in Unsigneds(8)
  BY DEF Entire
<1>2. ToEnd(u, w, z, h) \o y = Preamble(u, w) \o (WriteVarInt(n) \o q) /\ q \in Seq(Byte) /\ r \in Seq(Byte)
  <2>1. Bytes(u, w, z, h, y)
    BY EntireBytes
  <2> QED
    BY <2>1 DEF Bytes, FromInCount
<1>3. Stages(v, f, c, g, x) /\ Fits(c, g, x)
  BY PartsStages, PartsFit
<1>4. ToIns(v, f, c, g) \o x = Preamble(v, f) \o (WriteVarInt(c) \o p) /\ p \in Seq(Byte)
  BY <1>3 DEF Stages, Fits
<1>5. v = u /\ f = w /\ c = n /\ p = q
  <2> HIDE DEF n, p, q
  <2>1. Agree(Preamble(v, f), WriteVarInt(c) \o p, Preamble(u, w), WriteVarInt(n) \o q)
    BY <1>2, <1>4 DEF Agree
  <2>2. Marked(f, c, w, n)
    BY DEF n
  <2> QED
    BY <1>1, <1>2, <1>4, <2>1, <2>2, OpeningOnce
<1>6. ASSUME Len(g.ins) <= n PROVE Leads(InW, g.ins, h.ins, x, r)
  <2>1. g.ins \in Seq(InParts) /\ h.ins \in Seq(InParts)
    BY <1>1 DEF Partials
  <2>2. Agree(WrittenBy(InW, g.ins), x, WrittenBy(InW, h.ins), r) /\ Plain(InW, InParts)
    BY <1>5, <2>1, InsPlain DEF Agree, FromIns
  <2> HIDE DEF r
  <2> QED
    BY <1>2, <1>6, <2>1, <2>2, ListLeads DEF r
<1> QED
  BY <1>5, <1>6 DEF InsLead

\* The outputs that are read are the first ones, behind all inputs.
OutsLead(v, f, c, g, x, u, w, z, h, y) ==
  /\ v = u /\ f = w /\ g.ins = h.ins /\ c = Len(h.outs)
  /\ (Len(g.outs) <= Len(h.outs) => Leads(OutW, g.outs, h.outs, x, FromWits(z, h, y)))

\* Whoever reads outputs reads those that were written.
LEMMA OutsStage ==
  ASSUME NEW u, NEW w, NEW z, NEW h, Entire(u, w, z, h), NEW y \in Seq(Byte),
         NEW v \in Ints(4), NEW f \in BOOLEAN, NEW c \in Unsigneds(8), NEW g \in Partials,
         Len(g.ins) \in Unsigneds(8), Len(g.outs) \in Unsigneds(8), NEW x \in Seq(Byte),
         Agree(ToOuts(v, f, c, g), x, ToEnd(u, w, z, h), y), Marked(f, Len(g.ins), w, Len(h.ins))
  PROVE  OutsLead(v, f, c, g, x, u, w, z, h, y)
<1> DEFINE p == OutsBytes(g.outs) \o x
           xx == WriteVarInt(c) \o p
           q == FromOuts(z, h, y)
           r == FromWits(z, h, y)
           m == Len(g.ins)
<1>1. h \in Partials /\ Len(h.outs) \in Unsigneds(8)
  BY DEF Entire
<1>2. FromOutCount(z, h, y) = WriteVarInt(Len(h.outs)) \o q /\ q \in Seq(Byte) /\ r \in Seq(Byte)
  <2>1. Bytes(u, w, z, h, y)
    BY EntireBytes
  <2> QED
    BY <2>1 DEF Bytes, FromOutCount
<1>3. Stages(v, f, c, g, x) /\ Fits(c, g, x)
  BY PartsStages, PartsFit
<1>4. ToOuts(v, f, c, g) \o x = ToIns(v, f, m, g) \o xx /\ p \in Seq(Byte) /\ xx \in Seq(Byte)
  BY <1>3 DEF Stages, Fits
<1>5. InsLead(v, f, m, g, xx, u, w, z, h, y)
  <2> HIDE DEF xx
  <2>1. Agree(ToIns(v, f, m, g), xx, ToEnd(u, w, z, h), y)
    BY <1>4 DEF Agree
  <2> QED
    BY <1>4, <2>1, InsStage
<1>6. v = u /\ f = w /\ g.ins = h.ins /\ xx = FromOutCount(z, h, y)
  <2>1. v = u /\ f = w /\ m = Len(h.ins)
    BY <1>5 DEF InsLead
  <2>2. Leads(InW, g.ins, h.ins, xx, FromOutCount(z, h, y))
    <3> HIDE DEF xx
    <3> QED
      BY <1>5, <2>1, PowerValues DEF InsLead, Unsigneds
  <2>3. ~ (Len(g.ins) < Len(h.ins))
    BY <2>1, PowerValues DEF Unsigneds
  <2> HIDE DEF xx
  <2> QED
    BY <2>1, <2>2, <2>3 DEF Leads
<1>7. c = Len(h.outs) /\ p = q
  <2>1. Agree(WriteVarInt(c), p, WriteVarInt(Len(h.outs)), q)
    BY <1>2, <1>6 DEF Agree
  <2> HIDE DEF p, q
  <2> QED
    BY <1>1, <1>2, <1>4, <2>1, VarIntOnce
<1>8. ASSUME Len(g.outs) <= Len(h.outs) PROVE Leads(OutW, g.outs, h.outs, x, r)
  <2>1. g.outs \in Seq(TxOuts) /\ h.outs \in Seq(TxOuts)
    BY <1>1 DEF Partials
  <2>2. Agree(WrittenBy(OutW, g.outs), x, WrittenBy(OutW, h.outs), r) /\ Plain(OutW, TxOuts)
    BY <1>7, <2>1, OutsPlain DEF Agree, FromOuts
  <2> HIDE DEF r
  <2> QED
    BY <1>2, <1>8, <2>1, <2>2, ListLeads DEF r
<1> QED
  BY <1>6, <1>7, <1>8 DEF OutsLead

\* The witnesses that are read are the first ones, behind all outputs.
WitsLead(v, f, g, x, u, w, z, h, y) ==
  /\ v = u /\ f = w /\ g.ins = h.ins /\ g.outs = h.outs
  /\ (Len(g.done) <= Len(h.done) => Leads(WitW, g.done, h.done, x, FromEnd(z, y)))

\* Whoever reads witnesses reads those that were written.
LEMMA WitsStage ==
  ASSUME NEW u, NEW w, NEW z, NEW h, Entire(u, w, z, h), NEW y \in Seq(Byte),
         NEW v \in Ints(4), NEW f \in BOOLEAN, NEW g \in Partials,
         Len(g.ins) \in Unsigneds(8), Len(g.outs) \in Unsigneds(8), NEW x \in Seq(Byte),
         Agree(ToWits(v, f, g), x, ToEnd(u, w, z, h), y), Marked(f, Len(g.ins), w, Len(h.ins))
  PROVE  WitsLead(v, f, g, x, u, w, z, h, y)
<1> DEFINE xx == WitsBytes(g.done) \o x
           r == FromEnd(z, y)
           m == Len(g.outs)
           W == Slices(Slices(Byte))
<1>1. h \in Partials /\ Len(h.outs) \in Unsigneds(8)
  BY DEF Entire
<1>2. FromWits(z, h, y) = WitsBytes(h.done) \o r /\ r \in Seq(Byte)
  <2>1. Bytes(u, w, z, h, y)
    BY EntireBytes
  <2> QED
    BY <2>1 DEF Bytes, FromWits
<1>3. Stages(v, f, m, g, x) /\ Fits(m, g, x)
  BY PartsStages, PartsFit
<1>4. ToWits(v, f, g) \o x = ToOuts(v, f, m, g) \o xx /\ xx \in Seq(Byte)
  BY <1>3 DEF Stages, Fits
<1>5. OutsLead(v, f, m, g, xx, u, w, z, h, y)
  <2> HIDE DEF xx
  <2>1. Agree(ToOuts(v, f, m, g), xx, ToEnd(u, w, z, h), y)
    BY <1>4 DEF Agree
  <2> QED
    BY <1>4, <2>1, OutsStage
<1>6. v = u /\ f = w /\ g.ins = h.ins /\ g.outs = h.outs /\ xx = FromWits(z, h, y)
  <2>1. v = u /\ f = w /\ g.ins = h.ins /\ m = Len(h.outs)
    BY <1>5 DEF OutsLead
  <2>2. Leads(OutW, g.outs, h.outs, xx, FromWits(z, h, y))
    <3> HIDE DEF xx
    <3> QED
      BY <1>5, <2>1, PowerValues DEF OutsLead, Unsigneds
  <2>3. ~ (Len(g.outs) < Len(h.outs))
    BY <2>1, PowerValues DEF Unsigneds
  <2> HIDE DEF xx
  <2> QED
    BY <2>1, <2>2, <2>3 DEF Leads
<1>7. ASSUME Len(g.done) <= Len(h.done) PROVE Leads(WitW, g.done, h.done, x, r)
  <2>1. g.done \in Seq(W) /\ h.done \in Seq(W)
    BY <1>1 DEF Partials
  <2>2. Agree(WrittenBy(WitW, g.done), x, WrittenBy(WitW, h.done), r) /\ Plain(WitW, W)
    BY <1>2, <1>6, <2>1, WitsPlain DEF Agree
  <2> HIDE DEF r, W
  <2> QED
    BY <1>2, <1>7, <2>1, <2>2, ListLeads
<1> QED
  BY <1>6, <1>7 DEF WitsLead

\* The items that are read are the first ones of the next witness.
ItemsLead(v, f, c, g, x, u, w, z, h, y) ==
  /\ v = u /\ f = w /\ g.ins = h.ins /\ g.outs = h.outs
  /\ \A i \in 1 .. Len(g.done) : g.done[i] = h.done[i]
  /\ c = Len(h.done[Len(g.done) + 1])
  /\ \E r \in Seq(Byte) :
       Len(g.item) <= c => Leads(ItemW, g.item, h.done[Len(g.done) + 1], x, r)

\* Whoever reads items reads those that were written.
LEMMA ItemsStage ==
  ASSUME NEW u, NEW w, NEW z, NEW h, Entire(u, w, z, h), NEW y \in Seq(Byte),
         NEW v \in Ints(4), NEW f \in BOOLEAN, NEW c \in Unsigneds(8), NEW g \in Partials,
         Len(g.ins) \in Unsigneds(8), Len(g.outs) \in Unsigneds(8), NEW x \in Seq(Byte),
         Agree(ToItems(v, f, c, g), x, ToEnd(u, w, z, h), y), Marked(f, Len(g.ins), w, Len(h.ins)),
         Len(g.done) < Len(h.done)
  PROVE  ItemsLead(v, f, c, g, x, u, w, z, h, y)
<1> DEFINE p == ItemsBytes(g.item) \o x
           xx == WriteVarInt(c) \o p
           r == FromEnd(z, y)
           k == Len(g.done) + 1
           a == h.done[k]
<1>1. h \in Partials
  BY DEF Entire
<1>2. Stages(v, f, c, g, x) /\ Fits(c, g, x)
  BY PartsStages, PartsFit
<1>3. ToItems(v, f, c, g) \o x = ToWits(v, f, g) \o xx /\ p \in Seq(Byte) /\ xx \in Seq(Byte)
  BY <1>2 DEF Stages, Fits
<1>4. WitsLead(v, f, g, xx, u, w, z, h, y)
  <2> HIDE DEF xx
  <2>1. Agree(ToWits(v, f, g), xx, ToEnd(u, w, z, h), y)
    BY <1>3 DEF Agree
  <2> QED
    BY <1>3, <2>1, WitsStage
<1>5. /\ Len(g.done) \in Nat /\ Len(h.done) \in Nat /\ g.item \in Seq(Slices(Byte))
      /\ a \in Slices(Slices(Byte)) /\ a \in Seq(Slices(Byte)) /\ Len(a) \in Unsigneds(8)
  <2>1. /\ g.done \in Seq(Slices(Slices(Byte))) /\ h.done \in Seq(Slices(Slices(Byte)))
        /\ g.item \in Seq(Slices(Byte))
    BY <1>1 DEF Partials
  <2>2. Len(g.done) \in Nat /\ Len(h.done) \in Nat /\ k \in 1 .. Len(h.done)
    BY <2>1, SMTT(30)
  <2>3. a \in Slices(Slices(Byte))
    BY <2>1, <2>2
  <2> HIDE DEF a
  <2>4. a \in Seq(Slices(Byte)) /\ Len(a) < Power(8) /\ Len(a) \in Nat
    BY <2>3 DEF Slices
  <2>5. Len(a) \in Unsigneds(8)
    BY <2>4, PowerValues DEF Unsigneds
  <2> QED
    BY <2>1, <2>2, <2>3, <2>4, <2>5
<1>6. Leads(WitW, g.done, h.done, xx, r)
  <2> HIDE DEF xx, r
  <2> QED
    BY <1>4, <1>5, SMTT(30) DEF WitsLead, r
<1>7. /\ \A i \in 1 .. Len(g.done) : g.done[i] = h.done[i]
      /\ \E s \in Seq(Byte) : xx = WitW[a] \o s
  <2> HIDE DEF xx, r
  <2>1. ~ (Len(g.done) = Len(h.done))
    BY <1>5
  <2>2. \A i \in 1 .. Len(g.done) : g.done[i] = h.done[i]
    BY <1>6, <2>1, SMTT(30) DEF Leads
  <2>3. \E s \in Seq(Byte) : xx = WitW[h.done[Len(g.done) + 1]] \o s
    BY <1>6, <2>1, ZenonT(60) DEF Leads
  <2> QED
    BY <2>2, <2>3
<1>8. PICK s \in Seq(Byte) : xx = writeTxWitness(a) \o s
  BY <1>5, <1>7 DEF WitW
<1> DEFINE q == ItemsBytes(a) \o s
<1>9. xx = WriteVarInt(Len(a)) \o q /\ q \in Seq(Byte)
  BY <1>5, <1>8, WitnessThen
<1>10. c = Len(a) /\ p = q
  <2>1. Agree(WriteVarInt(c), p, WriteVarInt(Len(a)), q)
    BY <1>9 DEF Agree
  <2> HIDE DEF p, q
  <2> QED
    BY <1>3, <1>5, <1>9, <2>1, VarIntOnce
<1>11. ASSUME Len(g.item) <= c PROVE Leads(ItemW, g.item, a, x, s)
  <2>1. Agree(WrittenBy(ItemW, g.item), x, WrittenBy(ItemW, a), s) /\ Plain(ItemW, Slices(Byte))
    BY <1>5, <1>10, ItemsPlain DEF Agree
  <2> HIDE DEF a
  <2> QED
    BY <1>5, <1>10, <1>11, <2>1, ListLeads
<1>12. v = u /\ f = w /\ g.ins = h.ins /\ g.outs = h.outs
  BY <1>4 DEF WitsLead
<1> QED
  BY <1>7, <1>10, <1>11, <1>12 DEF ItemsLead

\* A transaction that is complete is all of what was written.
Ends(v, f, t, g, x, u, w, z, h, y) == v = u /\ f = w /\ t = z /\ g = h /\ x = y

\* Whoever has read a whole transaction has read the one that was written.
LEMMA EndStage ==
  ASSUME NEW u, NEW w, NEW z, NEW h, Entire(u, w, z, h), NEW y \in Seq(Byte),
         NEW v, NEW f, NEW t, NEW g, Entire(v, f, t, g), NEW x \in Seq(Byte),
         Agree(ToEnd(v, f, t, g), x, ToEnd(u, w, z, h), y), Marked(f, Len(g.ins), w, Len(h.ins))
  PROVE  Ends(v, f, t, g, x, u, w, z, h, y)
<1> DEFINE xx == Put(4, t) \o x
           r == FromEnd(z, y)
<1>1. /\ v \in Ints(4) /\ f \in BOOLEAN /\ t \in Unsigneds(4) /\ g \in Partials
      /\ Len(g.ins) \in Unsigneds(8) /\ Len(g.outs) \in Unsigneds(8)
      /\ h \in Partials /\ z \in Unsigneds(4)
  BY DEF Entire
<1>2. Stages(v, f, Len(g.outs), g, x) /\ Fits(Len(g.outs), g, x)
  BY <1>1, PartsStages, PartsFit
<1>3. ToEnd(v, f, t, g) \o x = ToWits(v, f, g) \o xx /\ xx \in Seq(Byte)
  BY <1>1, <1>2 DEF Stages, Fits
<1>4. WitsLead(v, f, g, xx, u, w, z, h, y)
  <2> HIDE DEF xx
  <2>1. Agree(ToWits(v, f, g), xx, ToEnd(u, w, z, h), y)
    BY <1>3 DEF Agree
  <2> QED
    BY <1>1, <1>3, <2>1, WitsStage
<1>5. v = u /\ f = w /\ g.ins = h.ins /\ g.outs = h.outs
  BY <1>4 DEF WitsLead
<1>6. Len(g.done) = Len(h.done) /\ Len(g.done) \in Nat
  <2>1. Len(g.done) = Len(h.done)
    BY <1>5 DEF Entire
  <2>2. g.done \in Seq(Slices(Slices(Byte)))
    BY <1>1 DEF Partials
  <2> QED
    BY <2>1, <2>2
<1>7. Leads(WitW, g.done, h.done, xx, r)
  <2> HIDE DEF xx, r
  <2> QED
    BY <1>4, <1>6 DEF WitsLead, r
<1>8. g.done = h.done /\ xx = r
  <2> HIDE DEF xx, r
  <2> QED
    BY <1>6, <1>7 DEF Leads
<1>9. t = z /\ x = y
  <2>1. Agree(Put(4, t), x, Put(4, z), y) /\ 4 \in Nat
    BY <1>8 DEF Agree, FromEnd
  <2> QED
    BY <1>1, <2>1, UintOnce
<1>10. g = h
  <2>1. g.item = <<>> /\ h.item = <<>>
    BY DEF Entire
  <2>2. \A k \in Partials : k = [ins |-> k.ins, outs |-> k.outs, done |-> k.done, item |-> k.item]
    BY DEF Partials
  <2> QED
    BY <1>1, <1>5, <1>8, <2>1, <2>2
<1> QED
  BY <1>5, <1>9, <1>10 DEF Ends

-------------------------------------------------------------------------------
(* The parts of a transaction that is to be written.                       *)

Headed(x) == [hash |-> x.hash, index |-> x.index, script |-> x.script, sequence |-> x.sequence]

WholeOf(tx, w) ==
  [ins |-> [i \in DOMAIN tx.txIn |-> Headed(tx.txIn[i])], outs |-> tx.txOut,
   done |-> IF w THEN [i \in DOMAIN tx.txIn |-> tx.txIn[i].witness] ELSE <<>>, item |-> <<>>]

\* A transaction is a record of its fields.
LEMMA TxIs ==
  ASSUME NEW tx \in MsgTxs
  PROVE  /\ tx.version \in Ints(4) /\ tx.lockTime \in Unsigneds(4)
         /\ tx.txIn \in Seq(TxIns) /\ Len(tx.txIn) \in Unsigneds(8)
         /\ tx.txOut \in Seq(TxOuts) /\ Len(tx.txOut) \in Unsigneds(8)
         /\ tx = [version |-> tx.version, txIn |-> tx.txIn, txOut |-> tx.txOut,
                  lockTime |-> tx.lockTime]
<1>1. tx.txIn \in Slices(TxIns) /\ tx.txOut \in Slices(TxOuts)
  BY DEF MsgTxs
<1>2. tx.version \in Ints(4) /\ tx.lockTime \in Unsigneds(4)
  BY DEF MsgTxs
<1>3. tx = [version |-> tx.version, txIn |-> tx.txIn, txOut |-> tx.txOut, lockTime |-> tx.lockTime]
  BY DEF MsgTxs
<1>4. ASSUME NEW S, NEW s \in Slices(S) PROVE s \in Seq(S) /\ Len(s) \in Unsigneds(8)
  <2>1. s \in Seq(S) /\ Len(s) < Power(8) /\ Len(s) \in Nat
    BY DEF Slices
  <2> QED
    BY <2>1, PowerValues DEF Unsigneds
<1> QED
  BY <1>1, <1>2, <1>3, <1>4

\* An input is a record of its fields.
LEMMA InputIs ==
  ASSUME NEW x \in TxIns
  PROVE  /\ Headed(x) \in InParts /\ x.witness \in Slices(Slices(Byte))
         /\ x = [hash |-> x.hash, index |-> x.index, script |-> x.script,
                 witness |-> x.witness, sequence |-> x.sequence]
         /\ [x EXCEPT !.witness = <<>>]
              = [hash |-> x.hash, index |-> x.index, script |-> x.script,
                 witness |-> <<>>, sequence |-> x.sequence]
<1>1. /\ x.hash \in [1 .. HashSize -> Byte] /\ x.index \in Unsigneds(4)
      /\ x.script \in Slices(Byte) /\ x.sequence \in Unsigneds(4)
      /\ x.witness \in Slices(Slices(Byte))
  BY DEF TxIns
<1>2. Headed(x) \in InParts
  BY <1>1 DEF Headed, InParts
<1>3. x = [hash |-> x.hash, index |-> x.index, script |-> x.script,
           witness |-> x.witness, sequence |-> x.sequence]
  BY DEF TxIns
<1>4. [x EXCEPT !.witness = <<>>]
        = [hash |-> x.hash, index |-> x.index, script |-> x.script,
           witness |-> <<>>, sequence |-> x.sequence]
  BY DEF TxIns
<1> QED
  BY <1>1, <1>2, <1>3, <1>4

\* They are complete.
LEMMA PartsEntire ==
  ASSUME NEW tx \in MsgTxs, NEW w \in BOOLEAN
  PROVE  Entire(tx.version, w, tx.lockTime, WholeOf(tx, w))
<1> DEFINE n == Len(tx.txIn)
           ins == [i \in DOMAIN tx.txIn |-> Headed(tx.txIn[i])]
           wits == [i \in DOMAIN tx.txIn |-> tx.txIn[i].witness]
           done == IF w THEN wits ELSE <<>>
           h == WholeOf(tx, w)
<1>1. /\ tx.version \in Ints(4) /\ tx.lockTime \in Unsigneds(4)
      /\ tx.txIn \in Seq(TxIns) /\ n \in Unsigneds(8)
      /\ tx.txOut \in Seq(TxOuts) /\ Len(tx.txOut) \in Unsigneds(8)
  BY TxIs
<1>2. DOMAIN tx.txIn = 1 .. n /\ n \in Nat /\ \A i \in 1 .. n : tx.txIn[i] \in TxIns
  BY <1>1
<1>3. ins \in Seq(InParts) /\ Len(ins) = n
  <2>1. \A i \in 1 .. n : Headed(tx.txIn[i]) \in InParts
    BY <1>2, InputIs
  <2> QED
    BY <1>2, <2>1
<1>4. wits \in Seq(Slices(Slices(Byte))) /\ Len(wits) = n
  <2>1. \A i \in 1 .. n : tx.txIn[i].witness \in Slices(Slices(Byte))
    BY <1>2, InputIs
  <2> QED
    BY <1>2, <2>1
<1>5. done \in Seq(Slices(Slices(Byte))) /\ Len(done) = IF w THEN n ELSE 0
  <2> HIDE DEF wits
  <2>1. CASE w
    BY <1>4, <2>1
  <2>2. CASE ~ w
    <3>1. <<>> \in Seq(Slices(Slices(Byte))) /\ Len(<<>>) = 0
      OBVIOUS
    <3> QED
      BY <2>2, <3>1
  <2> QED
    BY <2>1, <2>2
<1>6. h.ins = ins /\ h.outs = tx.txOut /\ h.done = done /\ h.item = <<>>
  BY DEF WholeOf
<1>7. h = [ins |-> ins, outs |-> tx.txOut, done |-> done, item |-> <<>>]
  BY DEF WholeOf
<1> HIDE DEF ins, wits, done, h
<1>8. h \in Partials
  <2>1. <<>> \in Seq(Slices(Byte))
    OBVIOUS
  <2> QED
    BY <1>1, <1>3, <1>5, <1>7, <2>1 DEF Partials
<1>9. Len(h.done) = (IF w THEN Len(h.ins) ELSE 0)
  BY <1>3, <1>5, <1>6
<1>10. Entire(tx.version, w, tx.lockTime, h)
  BY <1>1, <1>3, <1>6, <1>8, <1>9 DEF Entire
<1> QED
  BY <1>10 DEF h

\* What is read if that is sent.
Arriving(tx, w) == IF w THEN tx ELSE WithoutWitness(tx)

\* The parts of a transaction make up that transaction.
LEMMA PartsSent ==
  ASSUME NEW tx \in MsgTxs, NEW w \in BOOLEAN, NEW s, s.msg.version = tx.version,
         s.msg.lockTime = tx.lockTime
  PROVE  TxOf(s, WholeOf(tx, w)) = Arriving(tx, w)
<1> DEFINE h == WholeOf(tx, w)
           ins == [i \in DOMAIN tx.txIn |-> TxInOf(h, i)]
<1>1. /\ tx.txIn \in Seq(TxIns) /\ DOMAIN tx.txIn = 1 .. Len(tx.txIn)
      /\ tx = [version |-> tx.version, txIn |-> tx.txIn, txOut |-> tx.txOut, lockTime |-> tx.lockTime]
  BY TxIs
<1>2. /\ DOMAIN h.ins = DOMAIN tx.txIn /\ h.outs = tx.txOut /\ h.item = <<>>
      /\ \A i \in DOMAIN tx.txIn : h.ins[i] = Headed(tx.txIn[i])
      /\ h.done = IF w THEN [i \in DOMAIN tx.txIn |-> tx.txIn[i].witness] ELSE <<>>
  BY DEF WholeOf
<1> HIDE DEF h
<1>3. TxOf(s, h) = [version |-> tx.version, txIn |-> ins, txOut |-> tx.txOut, lockTime |-> tx.lockTime]
  BY <1>2 DEF TxOf
<1>4. ASSUME NEW i \in DOMAIN tx.txIn
      PROVE  TxInOf(h, i) = IF w THEN tx.txIn[i] ELSE [tx.txIn[i] EXCEPT !.witness = <<>>]
  <2> DEFINE x == tx.txIn[i]
  <2>1. x \in TxIns
    BY <1>1
  <2>2. Wit(h, i) = IF w THEN x.witness ELSE <<>>
    <3>1. CASE w
      <4>1. i \in DOMAIN h.done /\ h.done[i] = x.witness
        BY <1>2, <3>1
      <4> QED
        BY <3>1, <4>1 DEF Wit
    <3>2. CASE ~ w
      <4>1. i \notin DOMAIN h.done
        BY <1>2, <3>2
      <4> QED
        BY <1>2, <3>2, <4>1 DEF Wit
    <3> QED
      BY <3>1, <3>2
  <2>3. h.ins[i] = Headed(x)
    BY <1>2
  <2> HIDE DEF x
  <2>4. TxInOf(h, i) = [hash |-> x.hash, index |-> x.index, script |-> x.script,
                        witness |-> Wit(h, i), sequence |-> x.sequence]
    BY <2>3 DEF TxInOf, Headed
  <2>5. /\ x = [hash |-> x.hash, index |-> x.index, script |-> x.script,
                witness |-> x.witness, sequence |-> x.sequence]
        /\ [x EXCEPT !.witness = <<>>]
              = [hash |-> x.hash, index |-> x.index, script |-> x.script,
                 witness |-> <<>>, sequence |-> x.sequence]
    BY <2>1, InputIs
  <2>6. CASE w
    BY <2>2, <2>4, <2>5, <2>6 DEF x
  <2>7. CASE ~ w
    BY <2>2, <2>4, <2>5, <2>7 DEF x
  <2> QED
    BY <2>6, <2>7
<1>5. CASE w
  <2>1. ins = tx.txIn
    BY <1>1, <1>4, <1>5
  <2>2. Arriving(tx, w) = tx
    BY <1>5 DEF Arriving
  <2> HIDE DEF ins
  <2>3. TxOf(s, h) = [version |-> tx.version, txIn |-> tx.txIn, txOut |-> tx.txOut, lockTime |-> tx.lockTime]
    BY <1>3, <2>1
  <2>4. TxOf(s, h) = tx
    BY <1>1, <2>3, Zenon
  <2> QED
    BY <2>2, <2>4 DEF h
<1>6. CASE ~ w
  <2> DEFINE outs == [i \in DOMAIN tx.txIn |-> [tx.txIn[i] EXCEPT !.witness = <<>>]]
  <2>1. ins = outs
    BY <1>4, <1>6
  <2>2. WithoutWitness(tx) = [tx EXCEPT !.txIn = outs]
    BY DEF WithoutWitness
  <2> HIDE DEF ins, outs
  <2>3. [tx EXCEPT !.txIn = outs]
          = [version |-> tx.version, txIn |-> outs, txOut |-> tx.txOut, lockTime |-> tx.lockTime]
    BY DEF MsgTxs
  <2>4. Arriving(tx, w) = WithoutWitness(tx)
    BY <1>6 DEF Arriving
  <2>5. TxOf(s, h) = WithoutWitness(tx)
    BY <1>3, <2>1, <2>2, <2>3, Zenon
  <2> QED
    BY <2>4, <2>5 DEF h
<1> QED
  BY <1>5, <1>6 DEF h

\* The transaction without witnesses is written as the transaction is.
LEMMA SentWritten ==
  ASSUME NEW tx \in MsgTxs, NEW w \in BOOLEAN
  PROVE  Encode(Arriving(tx, w), w) = Encode(tx, w)
<1>1. CASE w
  BY <1>1 DEF Arriving
<1>2. CASE ~ w
  <2> DEFINE t == WithoutWitness(tx)
             ins == [i \in DOMAIN tx.txIn |-> [tx.txIn[i] EXCEPT !.witness = <<>>]]
  <2>1. /\ tx.txIn \in Seq(TxIns)
        /\ tx = [version |-> tx.version, txIn |-> tx.txIn, txOut |-> tx.txOut, lockTime |-> tx.lockTime]
    BY TxIs
  <2>2. t = [tx EXCEPT !.txIn = ins]
    BY DEF WithoutWitness
  <2>3. ASSUME NEW i \in DOMAIN tx.txIn PROVE writeTxIn(ins[i]) = writeTxIn(tx.txIn[i])
    <3> DEFINE x == tx.txIn[i]
               y == [x EXCEPT !.witness = <<>>]
    <3>1. x \in TxIns
      BY <2>1
    <3>2. y.hash = x.hash /\ y.index = x.index /\ y.script = x.script /\ y.sequence = x.sequence
      <4> HIDE DEF x
      <4>1. y = [hash |-> x.hash, index |-> x.index, script |-> x.script,
                 witness |-> <<>>, sequence |-> x.sequence]
        BY <3>1, InputIs
      <4> QED
        BY <4>1
    <3>3. ins[i] = y
      OBVIOUS
    <3> HIDE DEF x, y
    <3>4. writeTxIn(y) = writeTxIn(x)
      BY <3>2 DEF writeTxIn
    <3> QED
      BY <3>3, <3>4 DEF x
  <2>4. DOMAIN ins = DOMAIN tx.txIn /\ Len(ins) = Len(tx.txIn)
    BY <2>1
  <2> HIDE DEF ins
  <2>5. /\ t.version = tx.version /\ t.txIn = ins /\ t.txOut = tx.txOut /\ t.lockTime = tx.lockTime
    <3>1. [tx EXCEPT !.txIn = ins]
            = [version |-> tx.version, txIn |-> ins, txOut |-> tx.txOut, lockTime |-> tx.lockTime]
      BY DEF MsgTxs
    <3> HIDE DEF t
    <3> QED
      BY <2>2, <3>1
  <2> HIDE DEF t
  <2>6. [i \in DOMAIN t.txIn |-> writeTxIn(t.txIn[i])]
          = [i \in DOMAIN tx.txIn |-> writeTxIn(tx.txIn[i])]
    BY <2>3, <2>4, <2>5
  <2>7. Encode(t, FALSE) = Encode(tx, FALSE)
    BY <2>4, <2>5, <2>6 DEF Encode
  <2>8. Arriving(tx, w) = t /\ w = FALSE
    BY <1>2 DEF Arriving, t
  <2> QED
    BY <2>7, <2>8
<1> QED
  BY <1>1, <1>2

\* A transaction is written as its parts are.
LEMMA WholeWritten ==
  ASSUME NEW tx \in MsgTxs, NEW w \in BOOLEAN
  PROVE  Encode(tx, w) = ToEnd(tx.version, w, tx.lockTime, WholeOf(tx, w))
<1> DEFINE h == WholeOf(tx, w)
           s == [msg |-> [version |-> tx.version, lockTime |-> tx.lockTime], flag |-> w]
<1>1. s.msg.version = tx.version /\ s.msg.lockTime = tx.lockTime /\ s.flag = w
  OBVIOUS
<1> HIDE DEF s
<1>2. Entire(tx.version, w, tx.lockTime, h)
  BY PartsEntire
<1>3. TxOf(s, h) = Arriving(tx, w)
  BY <1>1, PartsSent
<1> HIDE DEF h
<1>4. /\ h \in Partials /\ h.item = <<>> /\ Len(h.ins) \in Unsigneds(8) /\ Len(h.outs) \in Unsigneds(8)
      /\ s.msg.version \in Ints(4) /\ s.msg.lockTime \in Unsigneds(4) /\ s.flag \in BOOLEAN
  BY <1>1, <1>2 DEF Entire
<1>5. Len(h.done) = (IF s.flag THEN Len(h.ins) ELSE 0)
  BY <1>1, <1>2 DEF Entire
<1>6. Encode(TxOf(s, h), s.flag) = ToEnd(s.msg.version, s.flag, s.msg.lockTime, h)
  BY <1>4, <1>5, TxOfWritten
<1> QED
  BY <1>1, <1>3, <1>6, SentWritten DEF h

\* Without witnesses nothing is lost.
LEMMA SentAll ==
  ASSUME NEW tx \in MsgTxs, ~ HasWitness(tx)
  PROVE  Arriving(tx, FALSE) = tx
<1> DEFINE ins == [i \in DOMAIN tx.txIn |-> [tx.txIn[i] EXCEPT !.witness = <<>>]]
<1>1. /\ tx.txIn \in Seq(TxIns)
      /\ tx = [version |-> tx.version, txIn |-> tx.txIn, txOut |-> tx.txOut, lockTime |-> tx.lockTime]
  BY TxIs
<1>2. ASSUME NEW i \in DOMAIN tx.txIn PROVE ins[i] = tx.txIn[i]
  <2> DEFINE x == tx.txIn[i]
  <2>1. x \in TxIns /\ x.witness = <<>>
    BY <1>1 DEF HasWitness
  <2> HIDE DEF x
  <2>2. [x EXCEPT !.witness = <<>>] = x
    BY <2>1, InputIs
  <2> QED
    BY <2>2 DEF x
<1>3. ins = tx.txIn
  BY <1>1, <1>2
<1>4. Arriving(tx, FALSE) = [tx EXCEPT !.txIn = ins]
  BY DEF Arriving, WithoutWitness
<1> HIDE DEF ins
<1>5. [tx EXCEPT !.txIn = ins]
        = [version |-> tx.version, txIn |-> ins, txOut |-> tx.txOut, lockTime |-> tx.lockTime]
  BY DEF MsgTxs
<1> QED
  BY <1>1, <1>3, <1>4, <1>5, Zenon

-------------------------------------------------------------------------------
(* The stream that a decoder was called with.                              *)

\* A decoder that has been called keeps its stream.
Called == \A d \in Decoders : dec[d].pc # "idle" => dec[d].job \in Inputs[d]

\* At the start nothing was called.
LEMMA CalledInit == Init => Called
BY DEF Init, Called, Idle

\* A step of d that keeps the stream.
LEMMA CalledOn ==
  ASSUME Called, NEW d \in Decoders, Alone(d), dec[d].pc # "idle", dec'[d].job = dec[d].job
  PROVE  Called'
BY DEF Called, Alone

\* BtcDecode is called with a stream.
LEMMA CalledStart ==
  ASSUME BufferInv, Called, NEW d \in Decoders, Decode(d)
  PROVE  Called'
<1>1. Alone(d) /\ \E job \in Inputs[d] : Starts(dec'[d], job, ReadHeader(job.bytes, job.enc))
  BY DecodeMoves
<1>2. dec'[d].job \in Inputs[d]
  BY <1>1 DEF Starts
<1> QED
  BY <1>1, <1>2 DEF Called, Alone

\* The readers keep the stream they were called with.
LEMMA CalledReads ==
  ASSUME BufferInv, SumInv, Called, NEW d \in Decoders,
         DecodeTxIn(d) \/ DecodeTxOut(d) \/ ReadWitnessItem(d)
  PROVE  Called'
<1> DEFINE s == dec[d]
           n == dec'[d]
<1>1. s.pc \in Live
  BY DEF Live, DecodeTxIn, DecodeTxOut, ReadWitnessItem
<1>2. DOMAIN s.msg = MsgFields
  BY <1>1 DEF SumInv, Sized
<1>3. ASSUME DecodeTxIn(d) PROVE Alone(d) /\ n.job = s.job
  <2> DEFINE r == readTxIn(s.in)
  <2>1. /\ Alone(d)
        /\ r.ok => Grown(s, n, <<"in", s.at + 1, 0>>, r.script, r.rest)
        /\ ~ r.ok => Fails(s, n)
    BY <1>2, <1>3, TxInMoves
  <2> HIDE DEF r
  <2> QED
    BY <2>1 DEF Grown, Fails
<1>4. ASSUME DecodeTxOut(d) PROVE Alone(d) /\ n.job = s.job
  <2> DEFINE r == readTxOut(s.in)
  <2>1. /\ Alone(d)
        /\ r.ok => Grown(s, n, <<"out", s.at + 1, 0>>, r.script, r.rest)
        /\ ~ r.ok => Fails(s, n)
    BY <1>2, <1>4, TxOutMoves
  <2> HIDE DEF r
  <2> QED
    BY <2>1 DEF Grown, Fails
<1>5. ASSUME ReadWitnessItem(d) PROVE Alone(d) /\ n.job = s.job
  <2> DEFINE r == readScript(s.in, MaxWitnessItemSize)
  <2>1. /\ Alone(d)
        /\ r.ok => Grown(s, n, <<"in", s.input, s.at + 1>>, r, r.rest)
        /\ ~ r.ok => Fails(s, n)
    BY <1>2, <1>5, ItemMoves
  <2> HIDE DEF r
  <2> QED
    BY <2>1 DEF Grown, Fails
<1>6. Alone(d) /\ n.job = s.job
  BY <1>3, <1>4, <1>5
<1>7. s.pc # "idle"
  BY <1>1 DEF Live
<1> QED
  BY <1>6, <1>7, CalledOn, SMTT(30)

\* So do the readers of counts.
LEMMA CalledCounts ==
  ASSUME BufferInv, SumInv, Called, NEW d \in Decoders,
         ReadTxOutCount(d) \/ ReadWitnessCount(d) \/ ReadLockTime(d)
  PROVE  Called'
<1> DEFINE s == dec[d]
           n == dec'[d]
<1>1. s.pc \in Live
  BY DEF Live, ReadTxOutCount, ReadWitnessCount, ReadLockTime
<1>2. DOMAIN s.msg = MsgFields
  BY <1>1 DEF SumInv, Sized
<1>3. ASSUME ReadTxOutCount(d) PROVE Alone(d) /\ n.job = s.job
  <2> DEFINE count == ReadVarInt(s.in)
  <2>1. Alone(d) /\ (SameScripts(s, n) \/ Fails(s, n))
    BY <1>3, OutCountMoves
  <2> QED
    BY <2>1 DEF SameScripts, Fails
<1>4. ASSUME ReadWitnessCount(d) PROVE Alone(d) /\ n.job = s.job
  <2>1. Alone(d) /\ (SameScripts(s, n) \/ Fails(s, n))
    BY <1>4, ItemCountMoves
  <2> QED
    BY <2>1 DEF SameScripts, Fails
<1>5. ASSUME ReadLockTime(d) PROVE Alone(d) /\ n.job = s.job
  <2>1. Alone(d) /\ (SameScripts(s, n) \/ Fails(s, n))
    BY <1>2, <1>5, LockTimeMoves
  <2> QED
    BY <2>1 DEF SameScripts, Fails
<1>6. Alone(d) /\ n.job = s.job
  BY <1>3, <1>4, <1>5
<1>7. s.pc # "idle"
  BY <1>1 DEF Live
<1> QED
  BY <1>6, <1>7, CalledOn

\* So do the returns of the buffers.
LEMMA CalledReturns ==
  ASSUME BufferInv, Called, NEW d \in Decoders,
         CopyScript(d) \/ ReturnScript(d) \/ UnwindScript(d) \/ UnwindEnd(d)
  PROVE  Called'
<1> DEFINE s == dec[d]
           n == dec'[d]
<1>1. ASSUME CopyScript(d) PROVE Alone(d) /\ n.job = s.job /\ s.pc # "idle"
  BY <1>1, CopyMoves
<1>2. ASSUME ReturnScript(d) PROVE Alone(d) /\ n.job = s.job /\ s.pc # "idle"
  <2>1. Alone(d) /\ SameScripts(s, n) /\ s.pc = "return"
    BY <1>2, ReturnMoves
  <2> QED
    BY <2>1 DEF SameScripts
<1>3. ASSUME UnwindScript(d) \/ UnwindEnd(d) PROVE Alone(d) /\ n.job = s.job /\ s.pc # "idle"
  BY <1>3, UnwindMoves
<1>4. Alone(d) /\ n.job = s.job /\ s.pc # "idle"
  BY <1>1, <1>2, <1>3
<1> QED
  BY <1>4, CalledOn

\* Every step keeps the streams.
LEMMA CalledStep == BufferInv /\ SumInv /\ Called /\ [Next]_vars => Called'
<1> SUFFICES ASSUME BufferInv, SumInv, Called, [Next]_vars PROVE Called'
  OBVIOUS
<1>1. CASE UNCHANGED vars
  BY <1>1 DEF vars, Called
<1>2. CASE Next
  <2>1. PICK d \in Decoders :
          \/ Decode(d) \/ DecodeTxIn(d) \/ DecodeTxOut(d) \/ ReadWitnessItem(d)
          \/ ReadTxOutCount(d) \/ ReadWitnessCount(d) \/ ReadLockTime(d)
          \/ CopyScript(d) \/ ReturnScript(d) \/ UnwindScript(d) \/ UnwindEnd(d)
    BY <1>2, Zenon DEF Next
  <2> QED
    BY <2>1, CalledStart, CalledReads, CalledCounts, CalledReturns
<1> QED
  BY <1>1, <1>2

\* The transaction of a stream, and how it is sent.
LEMMA JobIs ==
  ASSUME Called, NEW d \in Decoders, dec[d].pc # "idle"
  PROVE  dec[d].job.tx \in MsgTxs /\ dec[d].job.enc \in {"base", "witness"} /\ dec[d].job.bytes \in Seq(Byte)
<1>1. dec[d].job \in [tx : MsgTxs, enc : {"base", "witness"}, bytes : Seq(Byte)]
  BY InputsAssumption DEF Called
<1> QED
  BY <1>1

\* Streams that can be told apart: without inputs the marker cannot.
Unambiguous(job) == job.enc = "base" \/ job.tx.txIn # <<>>

Flagged(job) == job.enc = "witness" /\ HasWitness(job.tx)

\* The parts of the transaction that was written to a stream.
PartsWritten(job, h) ==
  /\ Entire(job.tx.version, Flagged(job), job.tx.lockTime, h)
  /\ BtcEncode(job.tx, job.enc) = ToEnd(job.tx.version, Flagged(job), job.tx.lockTime, h)
  /\ (job.tx.txIn # <<>> => Len(h.ins) # 0)

\* A transaction that was encoded was written in parts.
LEMMA JobWritten ==
  ASSUME NEW job, job.tx \in MsgTxs
  PROVE  /\ Flagged(job) \in BOOLEAN
         /\ PartsWritten(job, WholeOf(job.tx, Flagged(job)))
<1> DEFINE tx == job.tx
           w == Flagged(job)
           h == WholeOf(tx, w)
<1>1. w \in BOOLEAN
  BY DEF Flagged, HasWitness
<1>2. BtcEncode(tx, job.enc) = Encode(tx, w)
  BY DEF BtcEncode, Flagged
<1>3. tx.txIn # <<>> => Len(h.ins) # 0
  <2>1. tx.txIn \in Seq(TxIns)
    BY TxIs
  <2>2. DOMAIN h.ins = DOMAIN tx.txIn
    BY DEF WholeOf
  <2>3. h.ins \in Seq(InParts)
    <3> HIDE DEF w, h
    <3>1. Entire(tx.version, w, tx.lockTime, WholeOf(tx, w))
      BY <1>1, PartsEntire
    <3> QED
      BY <3>1 DEF Entire, Partials, h
  <2> HIDE DEF h, tx
  <2>4. DOMAIN h.ins = 1 .. Len(h.ins) /\ Len(h.ins) \in Nat /\ DOMAIN tx.txIn = 1 .. Len(tx.txIn) /\ Len(tx.txIn) \in Nat
    BY <2>1, <2>3
  <2>5. ASSUME tx.txIn # <<>> PROVE Len(h.ins) # 0
    <3>1. Len(tx.txIn) # 0
      BY <2>1, <2>5
    <3>2. 1 \in 1 .. Len(tx.txIn)
      BY <2>4, <3>1
    <3>3. 1 \in 1 .. Len(h.ins)
      BY <2>2, <2>4, <3>2
    <3> QED
      BY <2>4, <3>3
  <2> QED
    BY <2>5
<1> HIDE DEF w
<1>4. Entire(tx.version, w, tx.lockTime, h) /\ Encode(tx, w) = ToEnd(tx.version, w, tx.lockTime, h)
  BY <1>1, PartsEntire, WholeWritten
<1> HIDE DEF h
<1>5. PartsWritten(job, h)
  BY <1>2, <1>3, <1>4 DEF PartsWritten, w
<1> QED
  BY <1>1, <1>5 DEF w, h

\* A decoder that is done with a transaction that was written, or with its
\* beginning, has all of it.
Complete(d, y) ==
  /\ y = <<>> /\ dec[d].in = <<>>
  /\ Decoded(d) = IF dec[d].job.enc = "base" THEN WithoutWitness(dec[d].job.tx) ELSE dec[d].job.tx

\* A decoder that is done returns what was encoded, and reads all of it.
LEMMA DoneOnce ==
  ASSUME BufferInv, StreamInv, Sound, Called, NEW d \in Decoders, dec[d].pc = "done",
         Unambiguous(dec[d].job), NEW y \in Seq(Byte),
         dec[d].job.bytes \o y = BtcEncode(dec[d].job.tx, dec[d].job.enc)
  PROVE  Complete(d, y)
<1> DEFINE s == dec[d]
           job == dec[d].job
           tx == job.tx
           w == Flagged(job)
           h == WholeOf(tx, w)
           v == s.msg.version
           f == s.flag
           t == s.msg.lockTime
           iy == s.in \o y
<1>1. tx \in MsgTxs /\ job.enc \in {"base", "witness"} /\ job.bytes \in Seq(Byte)
  BY JobIs
<1>2. w \in BOOLEAN /\ PartsWritten(job, h)
  BY <1>1, JobWritten
<1>3. PICK g : Holds(dec[d], mem, g)
  BY DEF Sound, Live
<1>4. Decoded(d) = TxOf(s, g)
  BY <1>3, DecodedIs
<1>5. g \in Partials /\ Spells(s, g) /\ SpellsEnd(s, g) /\ HasIns(s, g)
  BY <1>3 DEF Holds, Spells, SpellsEnd
<1>6. /\ Entire(v, f, t, g) /\ ToEnd(v, f, t, g) \o s.in = job.bytes
      /\ f => job.enc = "witness"
      /\ job.enc = "witness" /\ ~ f => Len(g.ins) # 0
  BY <1>5 DEF Entire, Spells, SpellsEnd, HasIns
<1>7. s.in \in Seq(Byte) /\ <<>> \in Seq(Byte)
  BY NoBytes DEF StreamInv
<1>8. iy \in Seq(Byte)
  BY <1>7, Cat, SMTT(30)
<1>9. ToEnd(v, f, t, g) \in Seq(Byte) /\ ToEnd(tx.version, w, tx.lockTime, h) \in Seq(Byte)
  <2>1. ASSUME NEW a, NEW b, NEW c, NEW k, Entire(a, b, c, k) PROVE ToEnd(a, b, c, k) \in Seq(Byte)
    <3>1. Bytes(a, b, c, k, <<>>)
      BY <1>7, <2>1, EntireBytes
    <3> DEFINE p == FromInCount(c, k, <<>>)
    <3>2. p \in Seq(Byte) /\ ToEnd(a, b, c, k) \o <<>> = Preamble(a, b) \o p
      BY <3>1 DEF Bytes
    <3>3. a \in Ints(4) /\ b \in BOOLEAN /\ c \in Unsigneds(4) /\ k \in Partials
          /\ Len(k.ins) \in Unsigneds(8) /\ Len(k.outs) \in Unsigneds(8)
      BY <2>1 DEF Entire
    <3>4. ToWits(a, b, k) \in Seq(Byte)
      <4>1. WitsSpan(a, b, k)
        BY <3>3, PartsWritable, SpanWits
      <4> QED
        BY <4>1 DEF WitsSpan
    <3>5. Put(4, c) \in Seq(Byte)
      <4> HIDE DEF p
      <4>1. 4 \in Nat /\ c \in Unsigneds(4)
        BY <3>3
      <4>2. c \in Nat
        BY <4>1, Numbers
      <4>3. 4 \in Nat /\ c \in Int
        BY <4>2, SMTT(30)
      <4> QED
        BY <4>3, Puts
    <3> QED
      BY <3>4, <3>5, Cat DEF ToEnd
  <2> QED
    BY <1>2, <1>6, <2>1 DEF PartsWritten
<1>10. Agree(ToEnd(v, f, t, g), iy, ToEnd(tx.version, w, tx.lockTime, h), <<>>)
  <2> DEFINE a == ToEnd(v, f, t, g)
             b == ToEnd(tx.version, w, tx.lockTime, h)
  <2>1. a \in Seq(Byte) /\ b \in Seq(Byte)
    BY <1>9, SMTT(30)
  <2>2. a \o s.in = job.bytes
    BY <1>6, SMTT(30)
  <2>3. job.bytes \o y = b
    BY <1>2 DEF PartsWritten
  <2> HIDE DEF a, b
  <2>4. (a \o s.in) \o y = a \o (s.in \o y)
    BY <1>7, <2>1, Assoc, ZenonT(60)
  <2>5. b \o <<>> = b
    BY <2>1
  <2>6. a \o iy = b \o <<>>
    BY <2>2, <2>3, <2>4, <2>5
  <2> QED
    BY <2>6 DEF Agree, a, b
<1>11. Marked(f, Len(g.ins), w, Len(h.ins))
  <2>1. ASSUME f, ~ w PROVE Len(h.ins) # 0
    <3>1. job.tx.txIn # <<>>
      BY <1>6, <2>1 DEF Unambiguous
    <3> QED
      BY <1>2, <3>1, SMTT(30) DEF PartsWritten
  <2>2. ASSUME w, ~ f PROVE Len(g.ins) # 0
    <3>1. job.enc = "witness"
      BY <2>2 DEF Flagged
    <3> QED
      BY <1>6, <2>2, <3>1
  <2> QED
    BY <2>1, <2>2, SMTT(30) DEF Marked
<1>12. v = tx.version /\ f = w /\ t = tx.lockTime /\ g = h /\ iy = <<>>
  <2>1. Entire(tx.version, w, tx.lockTime, h)
    BY <1>2 DEF PartsWritten
  <2>2. Entire(v, f, t, g)
    BY <1>6
  <2>3. iy \in Seq(Byte) /\ <<>> \in Seq(Byte)
    BY <1>7, <1>8
  <2> DEFINE a == tx.version
             b == tx.lockTime
  <2> HIDE DEF a, b, iy, s, job, tx, w, h, v, f, t
  <2>4. Entire(a, w, b, h) /\ Agree(ToEnd(v, f, t, g), iy, ToEnd(a, w, b, h), <<>>)
    BY <1>10, <2>1 DEF a, b
  <2>5. Ends(v, f, t, g, iy, a, w, b, h, <<>>)
    BY <1>11, <2>2, <2>3, <2>4, EndStage
  <2> QED
    BY <2>5, SMTT(30) DEF Ends, a, b
<1>13. y = <<>> /\ s.in = <<>>
  <2>1. Len(iy) = Len(s.in) + Len(y) /\ Len(s.in) \in Nat /\ Len(y) \in Nat
    BY <1>7
  <2>2. Len(iy) = 0
    BY <1>12
  <2>3. Len(s.in) = 0 /\ Len(y) = 0
    BY <2>1, <2>2
  <2> QED
    BY <1>7, <2>3
<1>14. TxOf(s, h) = Arriving(tx, w)
  <2> HIDE DEF s, job, tx, w
  <2> QED
    BY <1>1, <1>2, <1>12, PartsSent DEF v, t
<1>15. Decoded(d) = Arriving(tx, w)
  BY <1>4, <1>12, <1>14
<1>16. CASE job.enc = "base"
  <2>1. w = FALSE
    BY <1>2, <1>16 DEF Flagged
  <2>2. Arriving(tx, w) = WithoutWitness(tx)
    BY <2>1 DEF Arriving
  <2> QED
    BY <1>13, <1>15, <1>16, <2>2 DEF Complete
<1>17. CASE job.enc # "base"
  <2>1. Arriving(tx, w) = tx
    <3>1. CASE HasWitness(tx)
      <4>1. w
        BY <1>1, <1>17, <3>1 DEF Flagged
      <4> QED
        BY <4>1 DEF Arriving
    <3>2. CASE ~ HasWitness(tx)
      <4>1. w = FALSE
        BY <1>2, <3>2 DEF Flagged
      <4> HIDE DEF w
      <4> QED
        BY <1>1, <3>2, <4>1, SentAll
    <3> QED
      BY <3>1, <3>2
  <2> QED
    BY <1>13, <1>15, <1>17, <2>1 DEF Complete
<1> QED
  BY <1>16, <1>17

\* What is left of a stream behind its beginning.
LEMMA PrefixRest ==
  ASSUME NEW s \in Seq(Byte), NEW t \in Seq(Byte), IsStrictPrefix(s, t)
  PROVE  \E y \in Seq(Byte) : y # <<>> /\ s \o y = t
<1> DEFINE k == Len(s)
           y == SubSeq(t, k + 1, Len(t))
<1>1. k \in Nat /\ Len(t) \in Nat /\ k <= Len(t) /\ SubSeq(s, 1, k) = SubSeq(t, 1, k) /\ s # t
  BY DEF IsStrictPrefix, IsPrefix
<1>2. SubSeq(s, 1, k) = s
  BY Whole
<1>3. y \in Seq(Byte) /\ SubSeq(t, 1, k) \o y = t
  <2>1. k \in 0 .. Len(t)
    BY <1>1
  <2> HIDE DEF k
  <2> QED
    BY <2>1, Parts
<1>4. s \o y = t
  BY <1>1, <1>2, <1>3
<1>5. y # <<>>
  <2>1. s \o <<>> = s
    OBVIOUS
  <2> HIDE DEF y
  <2> QED
    BY <1>1, <1>4, <2>1
<1> QED
  BY <1>3, <1>4, <1>5

-------------------------------------------------------------------------------
(* The sizes.                                                              *)

\* The sum of a number of each element.
SumBy(z, s) == Total([i \in DOMAIN s |-> z[s[i]]])

\* What it says of a list.
SumLaws(z, T, s) ==
  /\ SumBy(z, s) \in Nat /\ (s = <<>> => SumBy(z, s) = 0)
  /\ \A i \in DOMAIN s : z[s[i]] <= SumBy(z, s)
  /\ \A x \in T : SumBy(z, Append(s, x)) = SumBy(z, s) + z[x]

\* The sum over the elements of a sequence.
LEMMA SumList ==
  ASSUME NEW T, NEW z \in [T -> Nat], NEW s \in Seq(T)
  PROVE  SumLaws(z, T, s)
<1> DEFINE f(t) == [i \in DOMAIN t |-> z[t[i]]]
<1>1. ASSUME NEW t \in Seq(T)
      PROVE  Summand(f(t)) /\ DOMAIN f(t) = DOMAIN t
  <2>1. DOMAIN t = 1 .. Len(t) /\ Len(t) \in Nat /\ \A i \in 1 .. Len(t) : t[i] \in T
    OBVIOUS
  <2>2. IsFiniteSet(1 .. Len(t))
    BY <2>1, FS_Interval
  <2>3. \A i \in DOMAIN f(t) : f(t)[i] \in Nat
    BY <2>1
  <2>4. DOMAIN f(t) = 1 .. Len(t) /\ f(t) = [i \in DOMAIN f(t) |-> f(t)[i]]
    BY <2>1
  <2> QED
    BY <2>1, <2>2, <2>3, <2>4 DEF Summand
<1>2. SumBy(z, s) \in Nat /\ (DOMAIN s = {} => SumBy(z, s) = 0) /\ \A i \in DOMAIN s : f(s)[i] <= SumBy(z, s)
  <2>1. Summand(f(s)) /\ DOMAIN f(s) = DOMAIN s
    BY <1>1
  <2> DEFINE fs == f(s)
  <2>2. SumBy(z, s) = Total(fs)
    BY DEF SumBy
  <2> HIDE DEF f
  <2> QED
    BY <2>1, <2>2, TotalNat
<1>3. s = <<>> => DOMAIN s = {}
  OBVIOUS
<1>4. \A i \in DOMAIN s : f(s)[i] = z[s[i]]
  OBVIOUS
<1>5. ASSUME NEW x \in T PROVE SumBy(z, Append(s, x)) = SumBy(z, s) + z[x]
  <2> DEFINE t == Append(s, x)
             k == Len(s) + 1
             fs == f(s)
             ft == f(t)
  <2>1. /\ t \in Seq(T) /\ Len(s) \in Nat /\ DOMAIN s = 1 .. Len(s) /\ DOMAIN t = 1 .. Len(s) + 1
        /\ t[k] = x /\ \A i \in 1 .. Len(s) : t[i] = s[i]
    BY Appended
  <2>2. Summand(fs) /\ Summand(ft) /\ DOMAIN fs = DOMAIN s /\ DOMAIN ft = DOMAIN t
    BY <1>1, <2>1
  <2>3. k \notin DOMAIN fs /\ DOMAIN ft = DOMAIN fs \cup {k}
    BY <2>1, <2>2
  <2>4. ft[k] = z[x]
    BY <2>1
  <2>5. \A i \in DOMAIN fs : ft[i] = fs[i]
    BY <2>1
  <2>6. SumBy(z, s) = Total(fs) /\ SumBy(z, t) = Total(ft)
    BY DEF SumBy
  <2> HIDE DEF f, fs, ft, k, t
  <2>7. Total(ft) = Total(fs) + ft[k]
    BY <2>2, <2>3, <2>5, TotalAdd
  <2> QED
    BY <2>4, <2>6, <2>7 DEF t
<1> HIDE DEF f
<1> QED
  BY <1>2, <1>3, <1>4, <1>5 DEF SumLaws

\* As many bytes are written as the elements need.
LEMMA ListLen ==
  ASSUME NEW T, NEW w \in [T -> Seq(Byte)], NEW z \in [T -> Nat], \A x \in T : Len(w[x]) = z[x],
         NEW s \in Seq(T)
  PROVE  Len(WrittenBy(w, s)) = SumBy(z, s)
<1> DEFINE S == {u \in Seq(T) : Len(WrittenBy(w, u)) = SumBy(z, u)}
<1>1. <<>> \in S
  <2>1. <<>> \in Seq(T)
    OBVIOUS
  <2>2. WrittenBy(w, <<>>) = <<>>
    BY <2>1, Mapped
  <2>3. SumBy(z, <<>>) = 0
    BY <2>1, SumList DEF SumLaws
  <2> QED
    BY <2>1, <2>2, <2>3
<1>2. ASSUME NEW u \in Seq(T), u \in S, NEW x \in T PROVE Append(u, x) \in S
  <2> DEFINE v == Append(u, x)
  <2>1. v \in Seq(T)
    OBVIOUS
  <2>2. WrittenBy(w, v) = WrittenBy(w, u) \o w[x] /\ WrittenBy(w, u) \in Seq(Byte) /\ w[x] \in Seq(Byte)
    BY Mapped
  <2>3. SumBy(z, v) = SumBy(z, u) + z[x]
    BY SumList DEF SumLaws
  <2>4. Len(WrittenBy(w, u)) = SumBy(z, u)
    BY <1>2
  <2> HIDE DEF v
  <2>5. Len(WrittenBy(w, v)) = SumBy(z, v)
    BY <2>2, <2>3, <2>4, Cat
  <2> QED
    BY <2>1, <2>5 DEF v
<1>3. Seq(T) \subseteq S
  <2> HIDE DEF S
  <2> QED
    BY <1>1, <1>2, SeqInd
<1> QED
  BY <1>3

\* A list of elements of a least size.
LEMMA SumLeast ==
  ASSUME NEW T, NEW z \in [T -> Nat], NEW m \in Nat, \A x \in T : m <= z[x], NEW s \in Seq(T)
  PROVE  m * Len(s) <= SumBy(z, s)
<1> DEFINE S == {u \in Seq(T) : m * Len(u) <= SumBy(z, u)}
<1>1. <<>> \in S
  <2>1. <<>> \in Seq(T) /\ m * 0 = 0 /\ Len(<<>>) = 0
    OBVIOUS
  <2>2. SumBy(z, <<>>) = 0
    BY <2>1, SumList DEF SumLaws
  <2> QED
    BY <2>1, <2>2
<1>2. ASSUME NEW u \in Seq(T), u \in S, NEW x \in T PROVE Append(u, x) \in S
  <2> DEFINE v == Append(u, x)
             k == Len(u)
             a == SumBy(z, u)
             b == z[x]
  <2>1. v \in Seq(T) /\ Len(v) = k + 1 /\ k \in Nat
    OBVIOUS
  <2>2. SumBy(z, v) = a + b /\ a \in Nat
    BY SumList DEF SumLaws
  <2>3. m * k <= a /\ m <= b /\ b \in Nat
    BY <1>2
  <2> HIDE DEF v, k, a, b
  <2>4. m * (k + 1) = m * k + m
    BY <2>1
  <2>5. m * k \in Nat
    BY <2>1
  <2> DEFINE mk == m * k
  <2> HIDE DEF mk
  <2>6. mk + m <= a + b
    BY <2>2, <2>3, <2>5 DEF mk
  <2>7. m * Len(v) <= SumBy(z, v)
    BY <2>1, <2>2, <2>4, <2>6 DEF mk
  <2> QED
    BY <2>1, <2>7 DEF v
<1>3. Seq(T) \subseteq S
  <2> HIDE DEF S
  <2> QED
    BY <1>1, <1>2, SeqInd
<1> QED
  BY <1>3

\* The length of a script with its count.
LEMMA VarBytesLen ==
  ASSUME NEW a \in Slices(Byte)
  PROVE  /\ WriteVarBytes(a) \in Seq(Byte) /\ Len(a) \in Nat
         /\ Len(WriteVarBytes(a)) = VarIntSerializeSize(Len(a)) + Len(a)
         /\ VarIntSerializeSize(Len(a)) \in {1, 3, 5, 9}
<1>1. WriteVarBytes(a) \in Seq(Byte) /\ a \in Seq(Byte) /\ Len(a) \in Unsigneds(8)
  BY VarBytesAre
<1>2. /\ WriteVarInt(Len(a)) \in Seq(Byte) /\ VarIntSerializeSize(Len(a)) \in {1, 3, 5, 9}
      /\ Len(WriteVarInt(Len(a))) = VarIntSerializeSize(Len(a))
  BY <1>1, VarIntWritten
<1>3. Len(WriteVarBytes(a)) = VarIntSerializeSize(Len(a)) + Len(a)
  BY <1>1, <1>2, Cat DEF WriteVarBytes
<1> QED
  BY <1>1, <1>2, <1>3

\* The length of an input.
LEMMA InputLen ==
  ASSUME NEW t \in TxIns
  PROVE  /\ writeTxIn(t) \in Seq(Byte) /\ Len(writeTxIn(t)) = InSize(t) /\ InSize(t) \in Nat
         /\ 9 + HashSize <= InSize(t) /\ Len(t.script) <= InSize(t)
<1> DEFINE h == t.hash
           i == Put(4, t.index)
           v == WriteVarBytes(t.script)
           q == Put(4, t.sequence)
<1>1. t \in AnyIns
  BY DEF AnyIns
<1>2. /\ h \in Seq(Byte) /\ Len(h) = HashSize /\ HashSize \in Nat
      /\ t.index \in Unsigneds(4) /\ t.sequence \in Unsigneds(4) /\ t.script \in Slices(Byte)
  BY <1>1, TxInIs
<1>3. 4 \in Nat /\ t.index \in Int /\ t.sequence \in Int
  BY <1>2, Numbers
<1>4. i \in Seq(Byte) /\ Len(i) = 4
  BY <1>3, Puts
<1>5. q \in Seq(Byte) /\ Len(q) = 4
  BY <1>3, Puts
<1>6. /\ v \in Seq(Byte) /\ Len(t.script) \in Nat /\ Len(v) = VarIntSerializeSize(Len(t.script)) + Len(t.script)
      /\ VarIntSerializeSize(Len(t.script)) \in {1, 3, 5, 9}
  BY <1>2, VarBytesLen
<1>7. writeTxIn(t) = ((h \o i) \o v) \o q
  BY DEF writeTxIn
<1> HIDE DEF h, i, v, q
<1>8. h \o i \in Seq(Byte) /\ Len(h \o i) = HashSize + 4
  BY <1>2, <1>4, Cat
<1>9. (h \o i) \o v \in Seq(Byte) /\ Len((h \o i) \o v) = HashSize + 4 + Len(v)
  BY <1>6, <1>8, Cat
<1>10. writeTxIn(t) \in Seq(Byte) /\ Len(writeTxIn(t)) = HashSize + 4 + Len(v) + 4
  BY <1>5, <1>7, <1>9, Cat
<1> DEFINE z == VarIntSerializeSize(Len(t.script))
           m == Len(t.script)
<1>11. InSize(t) = 8 + HashSize + z + m
  BY DEF InSize
<1>12. z \in {1, 3, 5, 9} /\ m \in Nat /\ Len(v) = z + m
  BY <1>6
<1> HIDE DEF z, m
<1>13. Len(writeTxIn(t)) = InSize(t) /\ InSize(t) \in Nat /\ 9 + HashSize <= InSize(t) /\ m <= InSize(t)
  BY <1>2, <1>10, <1>11, <1>12
<1> QED
  BY <1>10, <1>13 DEF m

\* The length of an output.
LEMMA OutputLen ==
  ASSUME NEW t \in TxOuts
  PROVE  /\ WriteTxOut(t) \in Seq(Byte) /\ Len(WriteTxOut(t)) = OutSize(t) /\ OutSize(t) \in Nat
         /\ 9 <= OutSize(t) /\ Len(t.script) <= OutSize(t)
<1> DEFINE i == Put(8, t.value)
           v == WriteVarBytes(t.script)
<1>1. i \in Seq(Byte) /\ Len(i) = 8 /\ WriteTxOut(t) \in Seq(Byte) /\ t.script \in Slices(Byte)
  BY TxOutIs
<1>2. /\ v \in Seq(Byte) /\ Len(t.script) \in Nat /\ Len(v) = VarIntSerializeSize(Len(t.script)) + Len(t.script)
      /\ VarIntSerializeSize(Len(t.script)) \in {1, 3, 5, 9}
  BY <1>1, VarBytesLen
<1>3. WriteTxOut(t) = i \o v
  BY DEF WriteTxOut
<1> HIDE DEF i, v
<1>4. Len(WriteTxOut(t)) = 8 + Len(v)
  BY <1>1, <1>2, <1>3, Cat
<1> DEFINE z == VarIntSerializeSize(Len(t.script))
           m == Len(t.script)
<1>5. OutSize(t) = 8 + z + m
  BY DEF OutSize
<1>6. z \in {1, 3, 5, 9} /\ m \in Nat /\ Len(v) = z + m
  BY <1>2
<1> HIDE DEF z, m
<1>7. Len(WriteTxOut(t)) = OutSize(t) /\ OutSize(t) \in Nat /\ 9 <= OutSize(t) /\ m <= OutSize(t)
  BY <1>4, <1>5, <1>6
<1> QED
  BY <1>1, <1>7 DEF m

\* The size of an item of a witness.
ItemZ == [a \in Slices(Byte) |-> VarIntSerializeSize(Len(a)) + Len(a)]

\* The length of a witness.
LEMMA WitnessLen ==
  ASSUME NEW a \in Slices(Slices(Byte))
  PROVE  /\ writeTxWitness(a) \in Seq(Byte) /\ Len(writeTxWitness(a)) = WitnessSize(a)
         /\ WitnessSize(a) \in Nat
<1> DEFINE z == VarIntSerializeSize(Len(a))
           m == WriteVarInt(Len(a))
           n == ItemsBytes(a)
           e == SumBy(ItemZ, a)
<1>1. a \in Seq(Slices(Byte)) /\ Len(a) \in Unsigneds(8)
  BY PowerValues DEF Slices, Unsigneds
<1>2. m \in Seq(Byte) /\ Len(m) = z /\ z \in {1, 3, 5, 9}
  BY <1>1, VarIntWritten
<1>3. \A b \in Slices(Byte) : VarIntSerializeSize(Len(b)) + Len(b) \in Nat
  <2>1. ASSUME NEW b \in Slices(Byte) PROVE VarIntSerializeSize(Len(b)) + Len(b) \in Nat
    <3>1. VarIntSerializeSize(Len(b)) \in {1, 3, 5, 9} /\ Len(b) \in Nat
      BY VarBytesLen
    <3> QED
      BY <3>1
  <2> QED
    BY <2>1
<1>4. ItemZ \in [Slices(Byte) -> Nat]
  BY <1>3 DEF ItemZ
<1>5. \A b \in Slices(Byte) : Len(ItemW[b]) = ItemZ[b]
  BY VarBytesLen DEF ItemW, ItemZ
<1>6. ItemW \in [Slices(Byte) -> Seq(Byte)] /\ n = WrittenBy(ItemW, a)
  BY <1>1, ItemsPlain DEF Plain
<1>7. Len(n) = e /\ e \in Nat /\ n \in Seq(Byte)
  <2>1. Len(WrittenBy(ItemW, a)) = SumBy(ItemZ, a)
    BY <1>1, <1>4, <1>5, <1>6, ListLen
  <2>2. SumBy(ItemZ, a) \in Nat
    BY <1>1, <1>4, SumList DEF SumLaws
  <2>3. WrittenBy(ItemW, a) \in Seq(Byte)
    BY <1>1, <1>6, Mapped
  <2> QED
    BY <1>6, <2>1, <2>2, <2>3
<1>8. writeTxWitness(a) = m \o n
  BY DEF writeTxWitness, ItemsBytes
<1>9. WitnessSize(a) = z + e
  <2>1. \A j \in DOMAIN a : ItemZ[a[j]] = VarIntSerializeSize(Len(a[j])) + Len(a[j])
    BY <1>1 DEF ItemZ
  <2>2. [j \in DOMAIN a |-> ItemZ[a[j]]] = [j \in DOMAIN a |-> VarIntSerializeSize(Len(a[j])) + Len(a[j])]
    BY <2>1
  <2> QED
    BY <2>2 DEF WitnessSize, SumBy
<1> HIDE DEF m, n, e, z
<1>10. writeTxWitness(a) \in Seq(Byte) /\ Len(writeTxWitness(a)) = z + e
  BY <1>2, <1>7, <1>8, Cat
<1>11. z + e \in Nat
  BY <1>2, <1>7
<1> QED
  BY <1>9, <1>10, <1>11

\* How the lists of a transaction are written, and what they need.
InX  == [x \in TxIns |-> writeTxIn(x)]
InZ  == [x \in TxIns |-> InSize(x)]
OutZ == [x \in TxOuts |-> OutSize(x)]
WitX == [x \in TxIns |-> writeTxWitness(x.witness)]
WitZ == [x \in TxIns |-> WitnessSize(x.witness)]

\* The lengths of the elements of the lists.
LEMMA ListSizes ==
  /\ InX \in [TxIns -> Seq(Byte)] /\ InZ \in [TxIns -> Nat] /\ \A x \in TxIns : Len(InX[x]) = InZ[x]
  /\ OutW \in [TxOuts -> Seq(Byte)] /\ OutZ \in [TxOuts -> Nat] /\ \A x \in TxOuts : Len(OutW[x]) = OutZ[x]
  /\ WitX \in [TxIns -> Seq(Byte)] /\ WitZ \in [TxIns -> Nat] /\ \A x \in TxIns : Len(WitX[x]) = WitZ[x]
<1>1. InX \in [TxIns -> Seq(Byte)] /\ InZ \in [TxIns -> Nat] /\ \A x \in TxIns : Len(InX[x]) = InZ[x]
  BY InputLen DEF InX, InZ
<1>2. OutW \in [TxOuts -> Seq(Byte)] /\ OutZ \in [TxOuts -> Nat] /\ \A x \in TxOuts : Len(OutW[x]) = OutZ[x]
  BY OutputLen DEF OutW, OutZ
<1>3. \A x \in TxIns : x.witness \in Slices(Slices(Byte))
  BY InputIs
<1>4. \A x \in TxIns : /\ writeTxWitness(x.witness) \in Seq(Byte) /\ WitnessSize(x.witness) \in Nat
                       /\ Len(writeTxWitness(x.witness)) = WitnessSize(x.witness)
  BY <1>3, WitnessLen
<1>5. WitX \in [TxIns -> Seq(Byte)] /\ WitZ \in [TxIns -> Nat] /\ \A x \in TxIns : Len(WitX[x]) = WitZ[x]
  BY <1>4 DEF WitX, WitZ
<1> QED
  BY <1>1, <1>2, <1>5

\* The lists of a transaction.
Lists(tx) ==
  /\ FlattenSeq([i \in DOMAIN tx.txIn |-> writeTxIn(tx.txIn[i])]) = WrittenBy(InX, tx.txIn)
  /\ FlattenSeq([i \in DOMAIN tx.txOut |-> WriteTxOut(tx.txOut[i])]) = WrittenBy(OutW, tx.txOut)
  /\ FlattenSeq([i \in DOMAIN tx.txIn |-> writeTxWitness(tx.txIn[i].witness)]) = WrittenBy(WitX, tx.txIn)
  /\ Total([i \in DOMAIN tx.txIn |-> InSize(tx.txIn[i])]) = SumBy(InZ, tx.txIn)
  /\ Total([i \in DOMAIN tx.txOut |-> OutSize(tx.txOut[i])]) = SumBy(OutZ, tx.txOut)
  /\ Total([i \in DOMAIN tx.txIn |-> WitnessSize(tx.txIn[i].witness)]) = SumBy(WitZ, tx.txIn)

\* The lists of a transaction, as bytes and as sizes.
LEMMA ListsAre ==
  ASSUME NEW tx, tx.txIn \in Seq(TxIns), tx.txOut \in Seq(TxOuts)
  PROVE  Lists(tx)
<1>1. (\A i \in DOMAIN tx.txIn : tx.txIn[i] \in TxIns) /\ (\A i \in DOMAIN tx.txOut : tx.txOut[i] \in TxOuts)
  OBVIOUS
<1>2. [i \in DOMAIN tx.txIn |-> writeTxIn(tx.txIn[i])] = [i \in DOMAIN tx.txIn |-> InX[tx.txIn[i]]]
  BY <1>1 DEF InX
<1>3. [i \in DOMAIN tx.txOut |-> WriteTxOut(tx.txOut[i])] = [i \in DOMAIN tx.txOut |-> OutW[tx.txOut[i]]]
  BY <1>1 DEF OutW
<1>4. [i \in DOMAIN tx.txIn |-> writeTxWitness(tx.txIn[i].witness)]
        = [i \in DOMAIN tx.txIn |-> WitX[tx.txIn[i]]]
  BY <1>1 DEF WitX
<1>5. [i \in DOMAIN tx.txIn |-> InSize(tx.txIn[i])] = [i \in DOMAIN tx.txIn |-> InZ[tx.txIn[i]]]
  BY <1>1 DEF InZ
<1>6. [i \in DOMAIN tx.txOut |-> OutSize(tx.txOut[i])] = [i \in DOMAIN tx.txOut |-> OutZ[tx.txOut[i]]]
  BY <1>1 DEF OutZ
<1>7. [i \in DOMAIN tx.txIn |-> WitnessSize(tx.txIn[i].witness)]
        = [i \in DOMAIN tx.txIn |-> WitZ[tx.txIn[i]]]
  BY <1>1 DEF WitZ
<1> QED
  BY <1>2, <1>3, <1>4, <1>5, <1>6, <1>7 DEF Lists, WrittenBy, SumBy

\* The terms of the size.
Sizes(tx) ==
  [n |-> VarIntSerializeSize(Len(tx.txIn)), m |-> VarIntSerializeSize(Len(tx.txOut)),
   ins |-> SumBy(InZ, tx.txIn), outs |-> SumBy(OutZ, tx.txOut), wits |-> SumBy(WitZ, tx.txIn)]

\* SerializeSize and baseSize as sums.
LEMMA SizesAre ==
  ASSUME NEW tx \in MsgTxs, NEW z, z = Sizes(tx)
  PROVE  /\ z.n \in {1, 3, 5, 9} /\ z.m \in {1, 3, 5, 9}
         /\ z.ins \in Nat /\ z.outs \in Nat /\ z.wits \in Nat
         /\ baseSize(tx) = 8 + z.n + z.m + z.ins + z.outs
         /\ SerializeSize(tx) = baseSize(tx) + (IF HasWitness(tx) THEN 2 + z.wits ELSE 0)
<1>1. /\ tx.txIn \in Seq(TxIns) /\ Len(tx.txIn) \in Unsigneds(8)
      /\ tx.txOut \in Seq(TxOuts) /\ Len(tx.txOut) \in Unsigneds(8)
  BY TxIs
<1>2. Lists(tx)
  BY <1>1, ListsAre
<1>3. z.n \in {1, 3, 5, 9} /\ z.m \in {1, 3, 5, 9}
  BY <1>1, VarIntWritten DEF Sizes
<1>4. z.ins \in Nat /\ z.outs \in Nat /\ z.wits \in Nat
  BY <1>1, ListSizes, SumList DEF Sizes, SumLaws
<1>5. baseSize(tx) = 8 + z.n + z.m + z.ins + z.outs
  BY <1>2 DEF Sizes, Lists, baseSize
<1>6. SerializeSize(tx) = baseSize(tx) + (IF HasWitness(tx) THEN 2 + z.wits ELSE 0)
  BY <1>2 DEF Sizes, Lists, SerializeSize
<1> QED
  BY <1>3, <1>4, <1>5, <1>6

\* BtcEncode writes as many bytes as the sizes say.
LEMMA EncodeLen ==
  ASSUME NEW tx \in MsgTxs, NEW w \in BOOLEAN
  PROVE  /\ Encode(tx, w) \in Seq(Byte)
         /\ Len(Encode(tx, w)) = baseSize(tx) + (IF w THEN 2 + Sizes(tx).wits ELSE 0)
<1> DEFINE z == Sizes(tx)
           a == Put(4, tx.version)
           b == IF w THEN <<0, WitnessFlag>> ELSE <<>>
           c == WriteVarInt(Len(tx.txIn))
           e == WrittenBy(InX, tx.txIn)
           f == WriteVarInt(Len(tx.txOut))
           g == WrittenBy(OutW, tx.txOut)
           h == IF w THEN WrittenBy(WitX, tx.txIn) ELSE <<>>
           k == Put(4, tx.lockTime)
<1>1. /\ tx.txIn \in Seq(TxIns) /\ Len(tx.txIn) \in Unsigneds(8)
      /\ tx.txOut \in Seq(TxOuts) /\ Len(tx.txOut) \in Unsigneds(8)
      /\ tx.version \in Ints(4) /\ tx.lockTime \in Unsigneds(4)
  BY TxIs
<1>2. Lists(tx)
  BY <1>1, ListsAre
<1>3. /\ z.n \in {1, 3, 5, 9} /\ z.m \in {1, 3, 5, 9} /\ z.ins \in Nat /\ z.outs \in Nat /\ z.wits \in Nat
      /\ baseSize(tx) = 8 + z.n + z.m + z.ins + z.outs
  BY SizesAre
<1>4. a \in Seq(Byte) /\ Len(a) = 4
  <2>1. 4 \in Nat /\ tx.version \in Int
    BY <1>1, PowerValues, SignedNumbers
  <2> QED
    BY <2>1, Puts
<1>5. k \in Seq(Byte) /\ Len(k) = 4
  <2>1. 4 \in Nat /\ tx.lockTime \in Int
    BY <1>1, Numbers
  <2> QED
    BY <2>1, Puts
<1>6. c \in Seq(Byte) /\ Len(c) = z.n /\ f \in Seq(Byte) /\ Len(f) = z.m
  BY <1>1, VarIntWritten DEF Sizes
<1>7. b \in Seq(Byte) /\ Len(b) = (IF w THEN 2 ELSE 0)
  BY MarkerBytes, NoBytes
<1>8. e \in Seq(Byte) /\ Len(e) = z.ins
  BY <1>1, ListSizes, Mapped, ListLen DEF Sizes
<1>9. g \in Seq(Byte) /\ Len(g) = z.outs
  BY <1>1, ListSizes, Mapped, ListLen DEF Sizes
<1>10. h \in Seq(Byte) /\ Len(h) = (IF w THEN z.wits ELSE 0)
  <2>1. WrittenBy(WitX, tx.txIn) \in Seq(Byte) /\ Len(WrittenBy(WitX, tx.txIn)) = z.wits
    BY <1>1, ListSizes, Mapped, ListLen DEF Sizes
  <2> HIDE DEF z
  <2> QED
    BY <2>1, NoBytes
<1>11. Encode(tx, w) = ((((((a \o b) \o c) \o e) \o f) \o g) \o h) \o k
  BY <1>2 DEF Encode, Lists
<1> HIDE DEF a, b, c, e, f, g, h, k, z
<1> DEFINE p2 == a \o b
           p3 == p2 \o c
           p4 == p3 \o e
           p5 == p4 \o f
           p6 == p5 \o g
           p7 == p6 \o h
           p8 == p7 \o k
<1>12. p2 \in Seq(Byte) /\ Len(p2) = Len(a) + Len(b)
  BY <1>4, <1>7, Cat
<1> HIDE DEF p2
<1>13. p3 \in Seq(Byte) /\ Len(p3) = Len(p2) + Len(c)
  BY <1>6, <1>12, Cat
<1> HIDE DEF p3
<1>14. p4 \in Seq(Byte) /\ Len(p4) = Len(p3) + Len(e)
  BY <1>8, <1>13, Cat
<1> HIDE DEF p4
<1>15. p5 \in Seq(Byte) /\ Len(p5) = Len(p4) + Len(f)
  BY <1>6, <1>14, Cat
<1> HIDE DEF p5
<1>16. p6 \in Seq(Byte) /\ Len(p6) = Len(p5) + Len(g)
  BY <1>9, <1>15, Cat
<1> HIDE DEF p6
<1>17. p7 \in Seq(Byte) /\ Len(p7) = Len(p6) + Len(h)
  BY <1>10, <1>16, Cat
<1> HIDE DEF p7
<1>18. p8 \in Seq(Byte) /\ Len(p8) = Len(p7) + Len(k)
  BY <1>5, <1>17, Cat
<1>19. Encode(tx, w) = p8
  BY <1>11, Zenon DEF p2, p3, p4, p5, p6, p7
<1> HIDE DEF p8
<1>20. Sizes(tx).wits = z.wits
  BY DEF z
<1>21. Len(p8) = 8 + z.n + z.m + z.ins + z.outs + Len(b) + Len(h)
  <2>1. Len(p4) = 4 + Len(b) + z.n + z.ins /\ Len(b) \in Nat
    BY <1>3, <1>4, <1>6, <1>7, <1>8, <1>12, <1>13, <1>14
  <2>2. Len(p6) = Len(p4) + z.m + z.outs
    BY <1>6, <1>9, <1>15, <1>16
  <2>3. Len(p8) = Len(p6) + Len(h) + 4
    BY <1>5, <1>17, <1>18
  <2>4. Len(h) \in Nat /\ z.n \in Nat /\ z.m \in Nat
    BY <1>3, <1>10
  <2>5. z.ins \in Nat /\ z.outs \in Nat
    BY <1>3
  <2>6. Len(p6) = 4 + Len(b) + z.n + z.ins + z.m + z.outs
    BY <2>1, <2>2, <2>4, <2>5
  <2>7. Len(p8) = 4 + Len(b) + z.n + z.ins + z.m + z.outs + Len(h) + 4
    BY <2>3, <2>6
  <2>8. \A p, q, r, s, t, u, v \in Nat :
          p = 4 + q + r + s + t + u + v + 4 => p = 8 + r + t + s + u + q + v
    OBVIOUS
  <2> DEFINE Q(p, q, r, s, t, u, v) ==
               p = 4 + q + r + s + t + u + v + 4 => p = 8 + r + t + s + u + q + v
  <2>9. \A p, q, r, s, t, u, v \in Nat : Q(p, q, r, s, t, u, v)
    BY <2>8
  <2>10. Len(p8) \in Nat
    BY <1>17, <1>5, <1>18
  <2> HIDE DEF Q
  <2>11. Q(Len(p8), Len(b), z.n, z.ins, z.m, z.outs, Len(h))
    BY <2>1, <2>4, <2>5, <2>9, <2>10
  <2> QED
    BY <2>7, <2>11 DEF Q
<1>22. Len(b) + Len(h) = (IF w THEN 2 + z.wits ELSE 0)
  BY <1>3, <1>7, <1>10
<1>23. Len(b) \in Nat /\ Len(h) \in Nat
  BY <1>7, <1>10
<1>24. Len(p8) = baseSize(tx) + (Len(b) + Len(h))
  <2>1. z.n \in Nat /\ z.m \in Nat /\ z.ins \in Nat /\ z.outs \in Nat
    BY <1>3
  <2>2. baseSize(tx) = 8 + z.n + z.m + z.ins + z.outs
    BY <1>3
  <2> QED
    BY <1>21, <1>23, <2>1, <2>2, SMTT(30)
<1> QED
  BY <1>18, <1>19, <1>20, <1>22, <1>24

\* SerializeSize and baseSize are the lengths of what BtcEncode writes.
LEMMA SizesExact ==
  ASSUME NEW tx \in MsgTxs
  PROVE  /\ Len(BtcEncode(tx, "witness")) = SerializeSize(tx)
         /\ Len(BtcEncode(tx, "base")) = baseSize(tx)
<1> DEFINE w == HasWitness(tx)
<1>1. w \in BOOLEAN
  BY DEF HasWitness
<1>2. BtcEncode(tx, "witness") = Encode(tx, w) /\ BtcEncode(tx, "base") = Encode(tx, FALSE)
  <2>1. ("witness" = "witness" /\ w) = w /\ ("base" = "witness" /\ w) = FALSE
    BY <1>1
  <2> QED
    BY <2>1 DEF BtcEncode
<1>3. SerializeSize(tx) = baseSize(tx) + (IF w THEN 2 + Sizes(tx).wits ELSE 0) /\ baseSize(tx) \in Nat
  <2> DEFINE z == Sizes(tx)
  <2>1. /\ z.n \in {1, 3, 5, 9} /\ z.m \in {1, 3, 5, 9} /\ z.ins \in Nat /\ z.outs \in Nat
        /\ baseSize(tx) = 8 + z.n + z.m + z.ins + z.outs
        /\ SerializeSize(tx) = baseSize(tx) + (IF HasWitness(tx) THEN 2 + z.wits ELSE 0)
    BY SizesAre
  <2> HIDE DEF z
  <2>2. baseSize(tx) \in Nat
    BY <2>1
  <2> QED
    BY <2>1, <2>2 DEF z
<1> HIDE DEF w
<1>4. Len(Encode(tx, w)) = baseSize(tx) + (IF w THEN 2 + Sizes(tx).wits ELSE 0)
  BY <1>1, EncodeLen
<1>5. Len(Encode(tx, FALSE)) = baseSize(tx) + (IF FALSE THEN 2 + Sizes(tx).wits ELSE 0)
  BY EncodeLen
<1>6. Len(Encode(tx, w)) = SerializeSize(tx)
  BY <1>3, <1>4
<1>7. Len(Encode(tx, FALSE)) = baseSize(tx)
  <2> DEFINE n == Len(Encode(tx, FALSE))
  <2>1. n = baseSize(tx) + 0
    BY <1>5
  <2> HIDE DEF n
  <2>2. n = baseSize(tx)
    BY <1>3, <2>1
  <2> QED
    BY <2>2 DEF n
<1> QED
  BY <1>2, <1>6, <1>7

-------------------------------------------------------------------------------
(* The readers accept what the writers write, within the limits.           *)

\* A script is read, and x is what follows.
Regained(r, x) == r.ok = TRUE /\ r.rest = x

\* readScript returns what WriteVarBytes wrote.
LEMMA ScriptBack ==
  ASSUME NEW a \in Slices(Byte), NEW x \in Seq(Byte), NEW max, Len(a) <= max,
         NEW r, r = readScript(WriteVarBytes(a) \o x, max)
  PROVE  Regained(r, x)
<1> DEFINE s == WriteVarBytes(a) \o x
           count == ReadVarInt(s)
           f == ReadFull(count.rest, count.val)
           b == Borrow(count.val)
<1>1. /\ s = WriteVarInt(Len(a)) \o (a \o x) /\ a \o x \in Seq(Byte)
      /\ a \in Seq(Byte) /\ Len(a) \in Unsigneds(8)
  BY VarBytesThen
<1>2. count = Found(Len(a), a \o x)
  BY <1>1, VarIntBack
<1>3. r = IF count.ok /\ count.val <= max THEN FillScript(b, count, f) ELSE NoScript
  BY DEF readScript
<1> HIDE DEF s, count
<1>4. count.ok = TRUE /\ count.val = Len(a) /\ count.rest = a \o x
  BY <1>2 DEF Found
<1>5. f = Found(a, x)
  BY <1>1, <1>4, ReadFullBack
<1> HIDE DEF f, b
<1>6. f.ok = TRUE /\ f.val = a /\ f.rest = x
  BY <1>5 DEF Found
<1>7. r = FillScript(b, count, f)
  BY <1>3, <1>4
<1> QED
  BY <1>6, <1>7 DEF FillScript, Regained

\* An input.
LEMMA TxInBack ==
  ASSUME NEW t \in InParts, Len(t.script) <= MaxMessagePayload, NEW z \in Seq(Byte)
  PROVE  readTxIn(writeTxIn(t) \o z).ok
<1> DEFINE v == WriteVarBytes(t.script)
           q == Put(4, t.sequence)
           i == Put(4, t.index)
           s == writeTxIn(t) \o z
           hash == ReadFull(s, HashSize)
           index == Uint(hash.rest, 4)
           op == readOutPoint(s)
           script == IF op.ok THEN readScript(op.rest, MaxMessagePayload) ELSE NoScript
           seq == ReadElement(script.rest, "uint32")
<1>1. /\ s = t.hash \o (i \o (v \o (q \o z)))
      /\ q \o z \in Seq(Byte) /\ v \o (q \o z) \in Seq(Byte)
      /\ i \o (v \o (q \o z)) \in Seq(Byte)
  BY TxInThen
<1>2. /\ t.hash \in Seq(Byte) /\ Len(t.hash) = HashSize /\ t.index \in Unsigneds(4)
      /\ t.sequence \in Unsigneds(4) /\ t.script \in Slices(Byte)
  BY TxInIs DEF AnyIns
<1>3. readTxIn(s).ok = (script.ok /\ seq.ok)
  BY DEF readTxIn
<1>4. op = IF hash.ok /\ index.ok
             THEN [ok |-> TRUE, hash |-> hash.val, index |-> index.val, rest |-> index.rest]
             ELSE [ok |-> FALSE, hash |-> <<>>, index |-> 0, rest |-> <<>>]
  BY DEF readOutPoint
<1> HIDE DEF s
<1>5. hash = Found(t.hash, i \o (v \o (q \o z)))
  BY <1>1, <1>2, ReadFullBack
<1> HIDE DEF hash
<1>6. hash.ok = TRUE /\ hash.rest = i \o (v \o (q \o z))
  BY <1>5 DEF Found
<1>7. index = Found(t.index, v \o (q \o z))
  <2> DEFINE e == v \o (q \o z)
  <2>1. index = Uint(Put(4, t.index) \o e, 4) /\ e \in Seq(Byte) /\ 4 \in Nat
    BY <1>1, <1>6
  <2> HIDE DEF e, index
  <2> QED
    BY <1>2, <2>1, UintBack DEF e
<1> HIDE DEF index
<1>8. index.ok = TRUE /\ index.rest = v \o (q \o z)
  BY <1>7 DEF Found
<1>9. op.ok = TRUE /\ op.rest = v \o (q \o z)
  BY <1>4, <1>6, <1>8, SMTT(30)
<1> HIDE DEF op
<1>10. script = readScript(v \o (q \o z), MaxMessagePayload)
  BY <1>9
<1> HIDE DEF script
<1>11. script.ok = TRUE /\ script.rest = q \o z
  <2> DEFINE e == q \o z
  <2>1. script = readScript(WriteVarBytes(t.script) \o e, MaxMessagePayload) /\ e \in Seq(Byte)
    BY <1>1, <1>10
  <2> HIDE DEF e
  <2> QED
    <3>1. Regained(script, e)
      BY <1>2, <2>1, ScriptBack
    <3> QED
      BY <3>1 DEF e, Regained
<1>12. seq = Found(t.sequence, z)
  <2>1. seq = Uint(q \o z, 4)
    BY <1>11, UintRead
  <2> QED
    BY <1>2, <2>1, UintBack
<1> HIDE DEF seq
<1>13. seq.ok = TRUE
  BY <1>12 DEF Found
<1> QED
  BY <1>3, <1>11, <1>13 DEF s

\* An output.
LEMMA TxOutBack ==
  ASSUME NEW t \in TxOuts, Len(t.script) <= MaxMessagePayload, NEW z \in Seq(Byte)
  PROVE  readTxOut(WriteTxOut(t) \o z).ok
<1> DEFINE v == WriteVarBytes(t.script)
           p == Put(8, t.value)
           s == WriteTxOut(t) \o z
           f == ReadFull(s, 8)
           value == ReadElement(s, "int64")
           script == IF value.ok THEN readScript(value.rest, MaxMessagePayload) ELSE NoScript
<1>1. /\ t.script \in Slices(Byte) /\ p \in Seq(Byte) /\ Len(p) = 8 /\ v \in Seq(Byte)
  BY TxOutIs
<1>2. readTxOut(s).ok = script.ok
  BY DEF readTxOut
<1>3. value = IF f.ok THEN Found(Signed(Len(f.val), Value(f.val)), f.rest) ELSE Failed
  BY Int64Read
<1>4. s = p \o (v \o z) /\ v \o z \in Seq(Byte)
  <2>1. WriteTxOut(t) = p \o v
    BY DEF WriteTxOut
  <2> HIDE DEF p, v
  <2>2. (p \o v) \o z = p \o (v \o z)
    BY <1>1, Assoc, Zenon
  <2> QED
    BY <1>1, <2>1, <2>2
<1> HIDE DEF s, value
<1>5. f = Found(p, v \o z)
  BY <1>1, <1>4, ReadFullBack
<1> HIDE DEF f
<1>6. f.ok = TRUE /\ f.rest = v \o z
  BY <1>5 DEF Found
<1>7. value.ok = TRUE /\ value.rest = v \o z
  BY <1>3, <1>6 DEF Found
<1>8. script = readScript(v \o z, MaxMessagePayload)
  BY <1>7
<1> HIDE DEF script
<1>9. script.ok = TRUE
  BY <1>1, <1>8, ScriptBack DEF Regained
<1> QED
  BY <1>2, <1>9 DEF s

\* The version, the flag and the number of inputs.
LEMMA OpeningBack ==
  ASSUME NEW u \in Ints(4), NEW w \in BOOLEAN, NEW n \in Unsigneds(8), n <= MaxTxInPerMessage,
         NEW enc, w => enc = "witness", enc = "witness" => n # 0, NEW y \in Seq(Byte)
  PROVE  ReadHeader(Preamble(u, w) \o (WriteVarInt(n) \o y), enc).ok
<1> DEFINE ny == WriteVarInt(n) \o y
           s == Preamble(u, w) \o ny
           x == Mark(w) \o ny
           version == Uint(s, 4)
           count == ReadVarInt(version.rest)
           flag == Uint(count.rest, 1)
           more == ReadVarInt(flag.rest)
<1>1. ny \in Seq(Byte)
  BY VarIntWritten, Cat
<1>2. s = Put(4, u) \o x /\ x \in Seq(Byte)
  <2> HIDE DEF ny
  <2> QED
    BY <1>1, VersionThen
<1> HIDE DEF x
<1>3. version.rest = x
  <2> HIDE DEF s
  <2> DEFINE p == Put(4, u)
             f == ReadFull(s, 4)
  <2>1. p \in Seq(Byte) /\ Len(p) = 4
    <3>1. 4 \in Nat /\ u \in Int
      BY PowerValues, SignedNumbers
    <3> QED
      BY <3>1, Puts
  <2>2. version = IF f.ok THEN Found(Value(f.val), f.rest) ELSE Failed
    BY DEF Uint
  <2> HIDE DEF p, version
  <2>3. f = Found(p, x)
    BY <1>2, <2>1, ReadFullBack DEF p
  <2> HIDE DEF f
  <2> QED
    BY <2>2, <2>3 DEF Found
<1> HIDE DEF version
<1>4. CASE ~ w
  <2>1. x = ny
    BY <1>1, <1>4 DEF x, Mark
  <2>2. count = Found(n, y)
    BY <1>3, <2>1, VarIntBack
  <2>3. ~ IsMarker(count, enc)
    BY <2>2 DEF Found, IsMarker
  <2> HIDE DEF count
  <2>4. count.ok = TRUE /\ count.val = n
    BY <2>2 DEF Found
  <2>5. ReadHeader(s, enc).ok
    <3> HIDE DEF s
    <3> USE DEF version, count
    <3> QED
      BY <2>3, <2>4 DEF ReadHeader
  <2> QED
    BY <2>5
<1>5. CASE w
  <2> DEFINE fx == <<WitnessFlag>> \o ny
  <2>1. x = <<0>> \o fx /\ fx \in Seq(Byte)
    <3> HIDE DEF ny
    <3> QED
      BY <1>1, <1>5, MarkerBytes, Cat DEF x, Mark
  <2>2. count = Found(0, fx)
    <3>1. x = WriteVarInt(0) \o fx
      BY <2>1, MarkerBytes
    <3> HIDE DEF fx
    <3> QED
      BY <1>3, <2>1, <3>1, MarkerBytes, VarIntBack
  <2>3. IsMarker(count, enc) /\ count.rest = fx
    <3> HIDE DEF count, fx
    <3> QED
      BY <1>5, <2>2 DEF Found, IsMarker
  <2> HIDE DEF count
  <2>4. flag = Found(WitnessFlag, ny)
    <3>1. fx = Put(1, WitnessFlag) \o ny
      BY MarkerBytes
    <3> HIDE DEF fx, ny
    <3>2. 1 \in Nat /\ WitnessFlag \in Unsigneds(1)
      BY MarkerBytes
    <3> QED
      BY <1>1, <2>3, <3>1, <3>2, UintBack
  <2>5. flag.ok = TRUE /\ flag.val = WitnessFlag /\ flag.rest = ny
    <3> HIDE DEF flag, ny
    <3> QED
      BY <2>4 DEF Found
  <2> HIDE DEF flag
  <2>6. more = Found(n, y)
    BY <2>5, VarIntBack
  <2>7. more.ok = TRUE /\ more.val = n
    <3> HIDE DEF more
    <3> QED
      BY <2>6 DEF Found
  <2> HIDE DEF more
  <2>8. ReadHeader(s, enc).ok
    <3> HIDE DEF s
    <3> USE DEF version, count, flag, more
    <3> QED
      BY <2>3, <2>5, <2>7 DEF ReadHeader
  <2> QED
    BY <2>8
<1> QED
  BY <1>4, <1>5

\* As many elements of size m fit into p.
LEMMA Quota ==
  ASSUME NEW m \in Nat \ {0}, NEW n \in Nat, NEW p \in Nat, m * n <= p
  PROVE  n <= (p \div m) + 1
<1> DEFINE q == p \div m
           r == p % m
<1>1. q \in Nat /\ r \in Nat /\ r < m /\ p = m * q + r
  OBVIOUS
<1> HIDE DEF q, r
<1>2. SUFFICES ASSUME n > q + 1 PROVE FALSE
  BY <1>1 DEF q
<1> DEFINE k == n - (q + 1)
<1>3. k \in Nat /\ n = q + 1 + k
  BY <1>1, <1>2
<1> HIDE DEF k
<1>4. m * n = m * q + m + m * k /\ m * k \in Nat /\ m * q \in Nat
  <2>1. m * (q + 1 + k) = m * q + m + m * k
    BY <1>1, <1>3
  <2> QED
    BY <1>1, <1>3, <2>1
<1> DEFINE a == m * q
           b == m * k
           c == m * n
<1>5. a \in Nat /\ b \in Nat /\ c = a + m + b /\ c <= p /\ p = a + r
  BY <1>1, <1>4
<1> HIDE DEF a, b, c
<1> QED
  BY <1>1, <1>5

\* The limits that BtcDecode sets.
Limits(h) ==
  /\ Len(h.ins) <= MaxTxInPerMessage /\ Len(h.outs) <= MaxTxOutPerMessage
  /\ \A i \in DOMAIN h.ins : Len(h.ins[i].script) <= MaxMessagePayload
  /\ \A i \in DOMAIN h.outs : Len(h.outs[i].script) <= MaxMessagePayload
  /\ \A i \in DOMAIN h.done :
       /\ Len(h.done[i]) <= MaxWitnessItemsPerInput
       /\ \A j \in DOMAIN h.done[i] : Len(h.done[i][j]) <= MaxWitnessItemSize

\* A transaction that may be sent respects them.
LEMMA SendableFits ==
  ASSUME NEW tx \in MsgTxs, Sendable(tx), NEW w \in BOOLEAN
  PROVE  Limits(WholeOf(tx, w))
<1> DEFINE h == WholeOf(tx, w)
           z == Sizes(tx)
           n == Len(tx.txIn)
           k == Len(tx.txOut)
           M == MaxMessagePayload
<1>1. tx.txIn \in Seq(TxIns) /\ tx.txOut \in Seq(TxOuts) /\ n \in Nat /\ k \in Nat /\ M \in Nat
  BY TxIs, WireAssumption
<1>2. z.ins \in Nat /\ z.outs \in Nat /\ z.ins <= M /\ z.outs <= M
  <2>1. /\ z.n \in {1, 3, 5, 9} /\ z.m \in {1, 3, 5, 9}
        /\ z.ins \in Nat /\ z.outs \in Nat /\ z.wits \in Nat
        /\ baseSize(tx) = 8 + z.n + z.m + z.ins + z.outs
        /\ SerializeSize(tx) = baseSize(tx) + (IF HasWitness(tx) THEN 2 + z.wits ELSE 0)
    BY SizesAre
  <2>2. SerializeSize(tx) <= M
    BY DEF Sendable
  <2> HIDE DEF z
  <2>3. /\ z.n \in Nat /\ z.m \in Nat /\ z.ins \in Nat /\ z.outs \in Nat /\ z.wits \in Nat
    BY <2>1
  <2>4. baseSize(tx) \in Nat /\ z.ins <= baseSize(tx) /\ z.outs <= baseSize(tx)
    BY <2>1, <2>3
  <2>5. baseSize(tx) <= SerializeSize(tx) /\ SerializeSize(tx) \in Nat
    BY <2>1, <2>3, <2>4
  <2> QED
    BY <1>1, <2>2, <2>3, <2>4, <2>5
<1>3. z.ins = SumBy(InZ, tx.txIn) /\ z.outs = SumBy(OutZ, tx.txOut)
  BY DEF Sizes
<1> HIDE DEF z
<1>4. /\ InZ \in [TxIns -> Nat] /\ OutZ \in [TxOuts -> Nat] /\ HashSize \in Nat
      /\ \A x \in TxIns : 9 + HashSize <= InZ[x] /\ Len(x.script) <= InZ[x]
      /\ \A x \in TxOuts : 9 <= OutZ[x] /\ Len(x.script) <= OutZ[x]
  BY ListSizes, InputLen, OutputLen, WireAssumption DEF InZ, OutZ
<1>5. n <= MaxTxInPerMessage
  <2>1. 9 + HashSize \in Nat \ {0} /\ \A x \in TxIns : 9 + HashSize <= InZ[x]
    BY <1>4
  <2> DEFINE m == 9 + HashSize
  <2> HIDE DEF m
  <2>2. m * n <= z.ins
    BY <1>1, <1>3, <1>4, <2>1, SumLeast DEF m
  <2>3. m * n <= M
    <3>1. m \in Nat
      BY <2>1 DEF m
    <3> DEFINE mn == m * n
    <3>2. mn \in Nat /\ mn <= z.ins
      BY <1>1, <2>2, <3>1
    <3> HIDE DEF mn
    <3>3. mn <= M
      BY <1>1, <1>2, <3>2
    <3> QED
      BY <3>3 DEF mn
  <2>4. n <= (M \div m) + 1
    <3>1. m \in Nat \ {0}
      BY <2>1 DEF m
    <3> QED
      BY <1>1, <2>3, <3>1, Quota
  <2> QED
    BY <2>4 DEF m, MaxTxInPerMessage
<1>6. k <= MaxTxOutPerMessage
  <2>1. 9 * k <= z.outs
    <3> DEFINE m == 9
    <3>1. m \in Nat /\ \A x \in TxOuts : m <= OutZ[x]
      BY <1>4
    <3> HIDE DEF m
    <3>2. m * k <= z.outs
      BY <1>1, <1>3, <1>4, <3>1, SumLeast
    <3> QED
      BY <3>2 DEF m
  <2>2. 9 * k <= M
    BY <1>1, <1>2, <2>1
  <2> QED
    BY <1>1, <2>2, Quota DEF MaxTxOutPerMessage
<1>7. /\ h.ins = [i \in DOMAIN tx.txIn |-> Headed(tx.txIn[i])] /\ h.outs = tx.txOut
      /\ h.done = IF w THEN [i \in DOMAIN tx.txIn |-> tx.txIn[i].witness] ELSE <<>>
  BY DEF WholeOf
<1>8. h.ins \in Seq(InParts) /\ Len(h.ins) = n
  <2>1. Entire(tx.version, w, tx.lockTime, h)
    BY PartsEntire
  <2> HIDE DEF h
  <2>2. h.ins \in Seq(InParts)
    BY <2>1 DEF Entire, Partials
  <2>3. DOMAIN h.ins = DOMAIN tx.txIn
    BY <1>7
  <2> QED
    BY <1>1, <2>2, <2>3
<1> HIDE DEF h
<1>9. ASSUME NEW i \in DOMAIN h.ins PROVE Len(h.ins[i].script) <= M
  <2>1. i \in DOMAIN tx.txIn /\ tx.txIn[i] \in TxIns
    BY <1>1, <1>7, <1>9
  <2>2. h.ins[i].script = tx.txIn[i].script
    BY <1>7, <2>1 DEF Headed
  <2>3. InZ[tx.txIn[i]] <= z.ins /\ InZ[tx.txIn[i]] \in Nat
    BY <1>1, <1>3, <1>4, <2>1, SumList DEF SumLaws
  <2>4. Len(tx.txIn[i].script) <= InZ[tx.txIn[i]]
    BY <1>4, <2>1
  <2>5. Len(tx.txIn[i].script) \in Nat
    BY <2>1 DEF TxIns, Slices
  <2> QED
    BY <1>1, <1>2, <2>2, <2>3, <2>4, <2>5
<1>10. ASSUME NEW i \in DOMAIN h.outs PROVE Len(h.outs[i].script) <= M
  <2>1. i \in DOMAIN tx.txOut /\ tx.txOut[i] \in TxOuts
    BY <1>1, <1>7, <1>10
  <2>3. OutZ[tx.txOut[i]] <= z.outs /\ OutZ[tx.txOut[i]] \in Nat
    BY <1>1, <1>3, <1>4, <2>1, SumList DEF SumLaws
  <2>4. Len(tx.txOut[i].script) <= OutZ[tx.txOut[i]]
    BY <1>4, <2>1
  <2>5. Len(tx.txOut[i].script) \in Nat
    BY <2>1 DEF TxOuts, Slices
  <2> QED
    BY <1>1, <1>2, <1>7, <2>3, <2>4, <2>5
<1>11. ASSUME NEW i \in DOMAIN h.done
       PROVE  /\ Len(h.done[i]) <= MaxWitnessItemsPerInput
              /\ \A j \in DOMAIN h.done[i] : Len(h.done[i][j]) <= MaxWitnessItemSize
  <2>1. i \in DOMAIN tx.txIn /\ h.done[i] = tx.txIn[i].witness
    <3>1. CASE w
      BY <1>7, <1>11, <3>1
    <3>2. CASE ~ w
      BY <1>7, <1>11, <3>2
    <3> QED
      BY <3>1, <3>2
  <2> QED
    BY <2>1 DEF Sendable
<1>12. Len(h.outs) = k
  BY <1>7
<1> QED
  BY <1>5, <1>6, <1>8, <1>9, <1>10, <1>11, <1>12 DEF Limits, h

\* A stream that must be accepted: the whole of a transaction that may be sent.
Good(job) ==
  job.bytes = BtcEncode(job.tx, job.enc) /\ Sendable(job.tx) /\ Unambiguous(job)

\* Its parts.
Carries(job, u, w, z, h) ==
  /\ Entire(u, w, z, h) /\ job.bytes = ToEnd(u, w, z, h) \o <<>> /\ Limits(h)
  /\ (w => job.enc = "witness") /\ (job.enc = "witness" => Len(h.ins) # 0)

\* A stream that may be sent carries one transaction within the limits.
LEMMA GoodCarries ==
  ASSUME NEW job, job.tx \in MsgTxs, job.bytes \in Seq(Byte), Good(job)
  PROVE  \E u, w, z, h : Carries(job, u, w, z, h)
<1> DEFINE u == job.tx.version
           w == Flagged(job)
           z == job.tx.lockTime
           h == WholeOf(job.tx, w)
<1>1. w \in BOOLEAN /\ PartsWritten(job, h)
  BY JobWritten
<1> HIDE DEF w
<1>2. Limits(h)
  BY <1>1, SendableFits DEF Good
<1>3. (w => job.enc = "witness") /\ (job.enc = "witness" => Len(h.ins) # 0)
  BY <1>1 DEF w, Flagged, PartsWritten, Good, Unambiguous
<1> HIDE DEF h
<1>4. Entire(u, w, z, h) /\ job.bytes = ToEnd(u, w, z, h)
  BY <1>1 DEF PartsWritten, Good, w
<1>5. job.bytes \o <<>> = job.bytes
  OBVIOUS
<1>6. Carries(job, u, w, z, h)
  BY <1>2, <1>3, <1>4, <1>5 DEF Carries
<1> QED
  BY <1>6

-------------------------------------------------------------------------------
(* The next step of a decoder of such a stream does not fail.              *)

\* The parts are what they should be.
LEMMA CarriesParts ==
  ASSUME NEW job, NEW u, NEW w, NEW z, NEW h, Carries(job, u, w, z, h)
  PROVE  /\ Entire(u, w, z, h) /\ Limits(h) /\ <<>> \in Seq(Byte) /\ Bytes(u, w, z, h, <<>>)
         /\ u \in Ints(4) /\ w \in BOOLEAN /\ z \in Unsigneds(4)
         /\ h.ins \in Seq(InParts) /\ Len(h.ins) \in Unsigneds(8) /\ Len(h.ins) \in Nat
         /\ h.outs \in Seq(TxOuts) /\ Len(h.outs) \in Unsigneds(8) /\ Len(h.outs) \in Nat
         /\ h.done \in Seq(Slices(Slices(Byte))) /\ Len(h.done) = (IF w THEN Len(h.ins) ELSE 0)
<1>1. Entire(u, w, z, h) /\ Limits(h) /\ <<>> \in Seq(Byte)
  BY NoBytes DEF Carries
<1>2. Bytes(u, w, z, h, <<>>)
  BY <1>1, EntireBytes
<1>3. /\ u \in Ints(4) /\ w \in BOOLEAN /\ z \in Unsigneds(4) /\ h \in Partials
      /\ Len(h.ins) \in Unsigneds(8) /\ Len(h.outs) \in Unsigneds(8)
      /\ Len(h.done) = (IF w THEN Len(h.ins) ELSE 0)
  BY <1>1 DEF Entire
<1>4. h.ins \in Seq(InParts) /\ h.outs \in Seq(TxOuts) /\ h.done \in Seq(Slices(Slices(Byte)))
  BY <1>3 DEF Partials
<1> QED
  BY <1>1, <1>2, <1>3, <1>4

\* What is read of a stream with these parts agrees with it.
LEMMA Matches ==
  ASSUME NEW job, NEW u, NEW w, NEW z, NEW h, Carries(job, u, w, z, h), NEW a, NEW x,
         a \o x = job.bytes, NEW f \in BOOLEAN, f => job.enc = "witness", NEW c,
         job.enc = "witness" /\ ~ f => c # 0
  PROVE  Agree(a, x, ToEnd(u, w, z, h), <<>>) /\ Marked(f, c, w, Len(h.ins))
<1>1. Agree(a, x, ToEnd(u, w, z, h), <<>>)
  BY DEF Carries, Agree
<1>2. Marked(f, c, w, Len(h.ins))
  BY DEF Carries, Marked
<1> QED
  BY <1>1, <1>2

\* Version, flag and number of inputs.
LEMMA HeaderAccepted ==
  ASSUME NEW job, NEW u, NEW w, NEW z, NEW h, Carries(job, u, w, z, h)
  PROVE  ReadHeader(job.bytes, job.enc).ok
<1> DEFINE n == Len(h.ins)
           y == FromIns(z, h, <<>>)
<1>1. job.bytes = Preamble(u, w) \o (WriteVarInt(n) \o y) /\ y \in Seq(Byte)
  <2>1. Bytes(u, w, z, h, <<>>)
    BY CarriesParts
  <2>2. job.bytes = ToEnd(u, w, z, h) \o <<>>
    BY DEF Carries
  <2> QED
    BY <2>1, <2>2 DEF Bytes, FromInCount
<1>2. u \in Ints(4) /\ w \in BOOLEAN /\ n \in Unsigneds(8) /\ n <= MaxTxInPerMessage
  BY CarriesParts DEF Limits
<1>3. (w => job.enc = "witness") /\ (job.enc = "witness" => n # 0)
  BY DEF Carries
<1> HIDE DEF n, y
<1>4. ReadHeader(Preamble(u, w) \o (WriteVarInt(n) \o y), job.enc).ok
  BY <1>1, <1>2, <1>3, OpeningBack
<1> QED
  BY <1>1, <1>4

\* The inputs, with x to come.
LEMMA InsPosition ==
  ASSUME NEW s, NEW m, NEW g, Holds(s, m, g), s.pc = "txIn", s.in \in Seq(Byte),
         NEW u, NEW w, NEW z, NEW h, Carries(s.job, u, w, z, h)
  PROVE  /\ s.count = Len(h.ins) /\ s.at = Len(g.ins) /\ s.at \in Nat
         /\ Leads(InW, g.ins, h.ins, s.in, FromOutCount(z, h, <<>>))
<1> DEFINE v == s.msg.version
           f == s.flag
           c == s.count
           x == s.in
           job == s.job
<1>1. /\ g \in Partials /\ v \in Ints(4) /\ f \in BOOLEAN /\ (f => job.enc = "witness")
      /\ SpellsIns(s, g)
  BY DEF Holds, Spells
<1>2. /\ c \in Unsigneds(8) /\ s.at = Len(g.ins) /\ s.at <= c /\ g.outs = <<>>
      /\ job.enc = "witness" /\ ~ f => c # 0
      /\ ToIns(v, f, c, g) \o x = job.bytes
  BY <1>1 DEF SpellsIns
<1>3. Len(g.ins) \in Nat /\ Len(g.ins) \in Unsigneds(8) /\ Len(g.outs) \in Unsigneds(8)
  <2>1. g.ins \in Seq(InParts)
    BY <1>1 DEF Partials
  <2>2. Len(g.ins) \in Nat /\ Len(g.outs) = 0
    BY <1>2, <2>1
  <2> QED
    BY <1>2, <2>2, PowerValues DEF Unsigneds
<1>4. /\ Entire(u, w, z, h) /\ <<>> \in Seq(Byte) /\ Len(h.ins) \in Nat
  BY CarriesParts
<1> HIDE DEF v, f, c, x
<1>5. Agree(ToIns(v, f, c, g), x, ToEnd(u, w, z, h), <<>>) /\ Marked(f, c, w, Len(h.ins))
  BY <1>1, <1>2, Matches
<1>6. InsLead(v, f, c, g, x, u, w, z, h, <<>>)
  <2>1. x \in Seq(Byte)
    BY DEF x
  <2> QED
    BY <1>1, <1>2, <1>3, <1>4, <1>5, <2>1, InsStage
<1>7. c = Len(h.ins) /\ (Len(g.ins) <= Len(h.ins) => Leads(InW, g.ins, h.ins, x, FromOutCount(z, h, <<>>)))
  BY <1>6 DEF InsLead
<1>8. Leads(InW, g.ins, h.ins, x, FromOutCount(z, h, <<>>))
  BY <1>2, <1>7
<1> QED
  BY <1>2, <1>3, <1>7, <1>8 DEF c, x

\* The next element of a list that is not at its end.
LEMMA LeadsNext ==
  ASSUME NEW w, NEW s, NEW t, NEW x, NEW y, Leads(w, s, t, x, y), NEW T, t \in Seq(T),
         Len(s) \in Nat, Len(s) < Len(t)
  PROVE  /\ Len(s) + 1 \in DOMAIN t /\ t[Len(s) + 1] \in T
         /\ \E z \in Seq(Byte) : x = w[t[Len(s) + 1]] \o z
<1>1. Len(t) \in Nat /\ DOMAIN t = 1 .. Len(t)
  OBVIOUS
<1>2. Len(s) + 1 \in 1 .. Len(t) /\ Len(s) # Len(t)
  BY <1>1
<1>3. \E z \in Seq(Byte) : x = w[t[Len(s) + 1]] \o z
  BY <1>2 DEF Leads
<1>4. Len(s) + 1 \in DOMAIN t /\ t[Len(s) + 1] \in T
  BY <1>1, <1>2
<1> QED
  BY <1>3, <1>4, Zenon

\* An input.
LEMMA TxInAccepted ==
  ASSUME NEW s, NEW m, NEW g, Holds(s, m, g), s.pc = "txIn", s.in \in Seq(Byte), s.at < s.count,
         NEW u, NEW w, NEW z, NEW h, Carries(s.job, u, w, z, h)
  PROVE  readTxIn(s.in).ok
<1>1. /\ s.count = Len(h.ins) /\ s.at = Len(g.ins) /\ s.at \in Nat
      /\ Leads(InW, g.ins, h.ins, s.in, FromOutCount(z, h, <<>>))
  BY InsPosition
<1>2. h.ins \in Seq(InParts) /\ Limits(h)
  BY CarriesParts
<1> DEFINE k == Len(g.ins) + 1
           t == h.ins[k]
<1>3. k \in DOMAIN h.ins /\ t \in InParts /\ \E x \in Seq(Byte) : s.in = InW[t] \o x
  <2> DEFINE a == g.ins
             b == h.ins
             x == s.in
             y == FromOutCount(z, h, <<>>)
  <2>1. Leads(InW, a, b, x, y) /\ b \in Seq(InParts) /\ Len(a) \in Nat /\ Len(a) < Len(b)
    BY <1>1, <1>2
  <2> HIDE DEF a, b, x, y
  <2>2. /\ Len(a) + 1 \in DOMAIN b /\ b[Len(a) + 1] \in InParts
        /\ \E r \in Seq(Byte) : x = InW[b[Len(a) + 1]] \o r
    BY <2>1, LeadsNext, SMTT(30)
  <2> QED
    BY <2>2 DEF a, b, x
<1>4. Len(t.script) <= MaxMessagePayload
  BY <1>2, <1>3 DEF Limits
<1>5. PICK x \in Seq(Byte) : s.in = InW[t] \o x
  BY <1>3, SMTT(30)
<1>6. s.in = writeTxIn(t) \o x
  BY <1>3, <1>5 DEF InW
<1> HIDE DEF t
<1> QED
  BY <1>3, <1>4, <1>6, TxInBack

\* The number of outputs.
LEMMA OutCountAccepted ==
  ASSUME NEW s, NEW m, NEW g, Holds(s, m, g), s.pc = "txIn", s.in \in Seq(Byte), s.at = s.count,
         NEW u, NEW w, NEW z, NEW h, Carries(s.job, u, w, z, h)
  PROVE  ReadVarInt(s.in).ok /\ ReadVarInt(s.in).val <= MaxTxOutPerMessage
<1>1. /\ s.count = Len(h.ins) /\ s.at = Len(g.ins) /\ s.at \in Nat
      /\ Leads(InW, g.ins, h.ins, s.in, FromOutCount(z, h, <<>>))
  BY InsPosition
<1> DEFINE n == Len(h.outs)
           y == FromOuts(z, h, <<>>)
<1>2. n \in Unsigneds(8) /\ Limits(h) /\ Bytes(u, w, z, h, <<>>)
  BY CarriesParts
<1>3. s.in = FromOutCount(z, h, <<>>)
  BY <1>1 DEF Leads
<1>4. s.in = WriteVarInt(n) \o y /\ y \in Seq(Byte)
  BY <1>2, <1>3 DEF FromOutCount, Bytes
<1> HIDE DEF n, y
<1>5. ReadVarInt(s.in) = Found(n, y)
  BY <1>2, <1>4, VarIntBack
<1>6. n <= MaxTxOutPerMessage
  BY <1>2 DEF n, Limits
<1> QED
  BY <1>5, <1>6 DEF Found

\* The outputs, with x to come.
LEMMA OutsPosition ==
  ASSUME NEW s, NEW m, NEW g, Holds(s, m, g), s.pc = "txOut", s.in \in Seq(Byte),
         NEW u, NEW w, NEW z, NEW h, Carries(s.job, u, w, z, h)
  PROVE  /\ s.count = Len(h.outs) /\ s.at = Len(g.outs) /\ s.at \in Nat
         /\ Leads(OutW, g.outs, h.outs, s.in, FromWits(z, h, <<>>))
<1> DEFINE v == s.msg.version
           f == s.flag
           c == s.count
           x == s.in
           job == s.job
           n == Len(g.ins)
<1>1. /\ g \in Partials /\ v \in Ints(4) /\ f \in BOOLEAN /\ (f => job.enc = "witness")
      /\ SpellsOuts(s, g)
  BY DEF Holds, Spells
<1>2. /\ c \in Unsigneds(8) /\ s.at = Len(g.outs) /\ s.at <= c
      /\ n \in Unsigneds(8)
      /\ job.enc = "witness" /\ ~ f => n # 0
      /\ ToOuts(v, f, c, g) \o x = job.bytes
  BY <1>1 DEF SpellsOuts, HasIns
<1>3. Len(g.outs) \in Nat /\ Len(g.outs) \in Unsigneds(8)
  <2>1. g.outs \in Seq(TxOuts)
    BY <1>1 DEF Partials
  <2>2. Len(g.outs) \in Nat
    BY <2>1
  <2> QED
    BY <1>2, <2>2, PowerValues DEF Unsigneds
<1>4. /\ Entire(u, w, z, h) /\ <<>> \in Seq(Byte)
  BY CarriesParts
<1> HIDE DEF v, f, c, x
<1>5. Agree(ToOuts(v, f, c, g), x, ToEnd(u, w, z, h), <<>>) /\ Marked(f, Len(g.ins), w, Len(h.ins))
  BY <1>1, <1>2, Matches
<1>6. OutsLead(v, f, c, g, x, u, w, z, h, <<>>)
  <2>1. x \in Seq(Byte)
    BY DEF x
  <2> QED
    BY <1>1, <1>2, <1>3, <1>4, <1>5, <2>1, OutsStage
<1>7. c = Len(h.outs) /\ (Len(g.outs) <= Len(h.outs) => Leads(OutW, g.outs, h.outs, x, FromWits(z, h, <<>>)))
  BY <1>6 DEF OutsLead
<1>8. Leads(OutW, g.outs, h.outs, x, FromWits(z, h, <<>>))
  BY <1>2, <1>7
<1> QED
  BY <1>2, <1>3, <1>7, <1>8 DEF c, x

\* An output.
LEMMA TxOutAccepted ==
  ASSUME NEW s, NEW m, NEW g, Holds(s, m, g), s.pc = "txOut", s.in \in Seq(Byte), s.at < s.count,
         NEW u, NEW w, NEW z, NEW h, Carries(s.job, u, w, z, h)
  PROVE  readTxOut(s.in).ok
<1>1. /\ s.count = Len(h.outs) /\ s.at = Len(g.outs) /\ s.at \in Nat
      /\ Leads(OutW, g.outs, h.outs, s.in, FromWits(z, h, <<>>))
  BY OutsPosition
<1>2. h.outs \in Seq(TxOuts) /\ Limits(h)
  BY CarriesParts
<1> DEFINE k == Len(g.outs) + 1
           t == h.outs[k]
<1>3. k \in DOMAIN h.outs /\ t \in TxOuts /\ \E x \in Seq(Byte) : s.in = OutW[t] \o x
  <2> DEFINE a == g.outs
             b == h.outs
             x == s.in
             y == FromWits(z, h, <<>>)
  <2>1. Leads(OutW, a, b, x, y) /\ b \in Seq(TxOuts) /\ Len(a) \in Nat /\ Len(a) < Len(b)
    BY <1>1, <1>2
  <2> HIDE DEF a, b, x, y
  <2>2. /\ Len(a) + 1 \in DOMAIN b /\ b[Len(a) + 1] \in TxOuts
        /\ \E r \in Seq(Byte) : x = OutW[b[Len(a) + 1]] \o r
    BY <2>1, LeadsNext, SMTT(30)
  <2> QED
    BY <2>2 DEF a, b, x
<1>4. Len(t.script) <= MaxMessagePayload
  BY <1>2, <1>3 DEF Limits
<1>5. PICK x \in Seq(Byte) : s.in = OutW[t] \o x
  BY <1>3, SMTT(30)
<1>6. s.in = WriteTxOut(t) \o x
  BY <1>3, <1>5 DEF OutW
<1> HIDE DEF t
<1> QED
  BY <1>3, <1>4, <1>6, TxOutBack

\* The witnesses, with x to come.
WitsAt(g, x, w, z, h, f) ==
  /\ f = w /\ g.ins = h.ins
  /\ (Len(g.done) <= Len(h.done) => Leads(WitW, g.done, h.done, x, FromEnd(z, <<>>)))

\* Where a reader of witnesses stands in such a stream.
LEMMA WitsPosition ==
  ASSUME NEW job, NEW g \in Partials, NEW v \in Ints(4), NEW f \in BOOLEAN, f => job.enc = "witness",
         Len(g.ins) \in Unsigneds(8), Len(g.outs) \in Unsigneds(8),
         job.enc = "witness" /\ ~ f => Len(g.ins) # 0,
         NEW x \in Seq(Byte), ToWits(v, f, g) \o x = job.bytes,
         NEW u, NEW w, NEW z, NEW h, Carries(job, u, w, z, h)
  PROVE  WitsAt(g, x, w, z, h, f)
<1>1. Entire(u, w, z, h) /\ <<>> \in Seq(Byte)
  BY CarriesParts
<1>2. Agree(ToWits(v, f, g), x, ToEnd(u, w, z, h), <<>>) /\ Marked(f, Len(g.ins), w, Len(h.ins))
  BY Matches
<1>3. WitsLead(v, f, g, x, u, w, z, h, <<>>)
  BY <1>1, <1>2, WitsStage
<1> QED
  BY <1>3 DEF WitsLead, WitsAt

\* Of a decoder between two witnesses.
LEMMA ClosedPosition ==
  ASSUME NEW s, NEW m, NEW g, Closed(s, m, g), s.in \in Seq(Byte),
         NEW u, NEW w, NEW z, NEW h, Carries(s.job, u, w, z, h)
  PROVE  WitsAt(g, s.in, w, z, h, s.flag)
<1> DEFINE v == s.msg.version
           f == s.flag
           x == s.in
           job == s.job
<1>1. /\ g \in Partials /\ v \in Ints(4) /\ f \in BOOLEAN /\ (f => job.enc = "witness")
      /\ Len(g.ins) \in Unsigneds(8) /\ Len(g.outs) \in Unsigneds(8)
      /\ job.enc = "witness" /\ ~ f => Len(g.ins) # 0
      /\ ToWits(v, f, g) \o x = job.bytes /\ x \in Seq(Byte)
  BY DEF Closed, HasIns
<1>2. Carries(job, u, w, z, h)
  OBVIOUS
<1> HIDE DEF v, f, x, job
<1>3. WitsAt(g, x, w, z, h, f)
  BY <1>1, <1>2, WitsPosition
<1> QED
  BY <1>3 DEF x, f

\* The number of items of the next witness.
LEMMA ItemCountAccepted ==
  ASSUME NEW s, NEW m, NEW g, Closed(s, m, g), s.in \in Seq(Byte), s.flag, s.input < Len(s.msg.txIn),
         NEW u, NEW w, NEW z, NEW h, Carries(s.job, u, w, z, h)
  PROVE  ReadVarInt(s.in).ok /\ ReadVarInt(s.in).val <= MaxWitnessItemsPerInput
<1> DEFINE a == g.done
           b == h.done
           x == s.in
           y == FromEnd(z, <<>>)
           k == Len(a) + 1
<1>1. /\ s.flag = w /\ g.ins = h.ins /\ (Len(a) <= Len(b) => Leads(WitW, a, b, x, y))
  BY ClosedPosition DEF WitsAt
<1>2. /\ b \in Seq(Slices(Slices(Byte))) /\ Len(b) = (IF w THEN Len(h.ins) ELSE 0) /\ Limits(h)
  BY CarriesParts
<1>3. Len(a) \in Nat /\ Len(b) \in Nat /\ Len(a) < Len(b)
  <2>1. a \in Seq(Slices(Slices(Byte)))
    BY DEF Closed, Partials
  <2>2. Len(a) = s.input /\ Len(s.msg.txIn) = Len(g.ins)
    BY DEF Closed, Unscripted
  <2> QED
    BY <1>1, <1>2, <2>1, <2>2
<1>4. Leads(WitW, a, b, x, y)
  BY <1>1, <1>3
<1>5. b = h.done /\ x = s.in
  OBVIOUS
<1> HIDE DEF a, b, x, y
<1>6. /\ k \in DOMAIN b /\ b[k] \in Slices(Slices(Byte))
      /\ \E r \in Seq(Byte) : x = WitW[b[k]] \o r
  BY <1>2, <1>3, <1>4, LeadsNext
<1> DEFINE t == b[k]
<1>7. PICK r \in Seq(Byte) : x = WitW[t] \o r
  BY <1>6
<1>8. x = writeTxWitness(t) \o r
  BY <1>6, <1>7 DEF WitW
<1>9. Len(t) <= MaxWitnessItemsPerInput
  BY <1>2, <1>5, <1>6 DEF Limits
<1>10. t \in Slices(Slices(Byte))
  BY <1>6
<1> HIDE DEF t
<1>11. x = WriteVarInt(Len(t)) \o (ItemsBytes(t) \o r) /\ ItemsBytes(t) \o r \in Seq(Byte)
  BY <1>8, <1>10, WitnessThen
<1>12. Len(t) \in Unsigneds(8)
  BY <1>10, WitnessIs
<1> DEFINE n == Len(t)
           q == ItemsBytes(t) \o r
<1>13. n \in Unsigneds(8) /\ q \in Seq(Byte) /\ x = WriteVarInt(n) \o q /\ n <= MaxWitnessItemsPerInput
  BY <1>9, <1>11, <1>12
<1> HIDE DEF n, q
<1>14. ReadVarInt(x) = Found(n, q)
  BY <1>13, VarIntBack
<1> QED
  BY <1>5, <1>13, <1>14 DEF Found

\* The lock time.
LEMMA LockTimeAccepted ==
  ASSUME NEW s, NEW m, NEW g, Closed(s, m, g), s.in \in Seq(Byte), s.flag => s.input = Len(s.msg.txIn),
         NEW u, NEW w, NEW z, NEW h, Carries(s.job, u, w, z, h)
  PROVE  Uint(s.in, 4).ok
<1> DEFINE a == g.done
           b == h.done
           x == s.in
           y == FromEnd(z, <<>>)
<1>1. /\ s.flag = w /\ g.ins = h.ins /\ (Len(a) <= Len(b) => Leads(WitW, a, b, x, y))
  BY ClosedPosition DEF WitsAt
<1>2. /\ Len(b) = (IF w THEN Len(h.ins) ELSE 0) /\ z \in Unsigneds(4) /\ <<>> \in Seq(Byte)
      /\ b \in Seq(Slices(Slices(Byte)))
  BY CarriesParts
<1>3. Len(a) = Len(b) /\ Len(b) \in Nat
  <2>1. Len(a) = s.input /\ Len(s.msg.txIn) = Len(g.ins) /\ s.flag \in BOOLEAN /\ (~ s.flag => s.input = 0)
    BY DEF Closed, Unscripted
  <2> QED
    BY <1>1, <1>2, <2>1
<1>4. x = y
  <2>1. Leads(WitW, a, b, x, y)
    BY <1>1, <1>3
  <2> HIDE DEF a, b, x, y
  <2> QED
    BY <1>3, <2>1 DEF Leads
<1>5. Uint(Put(4, z) \o <<>>, 4) = Found(z, <<>>)
  BY <1>2, UintBack
<1> QED
  BY <1>4, <1>5 DEF FromEnd, Found

\* An item of a witness.
LEMMA ItemAccepted ==
  ASSUME NEW s, NEW m, NEW g, Holds(s, m, g), s.pc = "witness", s.in \in Seq(Byte), s.at < s.count,
         NEW u, NEW w, NEW z, NEW h, Carries(s.job, u, w, z, h)
  PROVE  readScript(s.in, MaxWitnessItemSize).ok
<1> DEFINE v == s.msg.version
           f == s.flag
           c == s.count
           x == s.in
           job == s.job
<1>1. /\ g \in Partials /\ v \in Ints(4) /\ f \in BOOLEAN /\ (f => job.enc = "witness")
      /\ SpellsItems(s, g)
  BY DEF Holds, Spells
<1>2. /\ c \in Unsigneds(8) /\ s.at = Len(g.item) /\ s.input = Len(g.done) + 1 /\ s.input <= Len(g.ins)
      /\ f /\ Len(g.ins) \in Unsigneds(8) /\ Len(g.outs) \in Unsigneds(8)
      /\ job.enc = "witness" /\ ~ f => Len(g.ins) # 0
      /\ ToItems(v, f, c, g) \o x = job.bytes
  BY <1>1 DEF SpellsItems, HasIns
<1>3. x \in Seq(Byte) /\ s.at < c /\ Carries(job, u, w, z, h)
  OBVIOUS
<1>4. /\ Entire(u, w, z, h) /\ <<>> \in Seq(Byte) /\ Limits(h)
      /\ h.done \in Seq(Slices(Slices(Byte))) /\ Len(h.done) = (IF w THEN Len(h.ins) ELSE 0)
  BY CarriesParts
<1>5. x = s.in /\ job = s.job
  OBVIOUS
<1> HIDE DEF v, f, c, x, job
<1>6. Agree(ToItems(v, f, c, g), x, ToEnd(u, w, z, h), <<>>) /\ Marked(f, Len(g.ins), w, Len(h.ins))
  BY <1>1, <1>2, <1>3, Matches
<1>7. Len(g.done) \in Nat /\ Len(g.item) \in Nat /\ Len(g.ins) \in Nat
  BY <1>1 DEF Partials
<1>8. Len(g.done) < Len(h.done)
  <2> DEFINE p == WriteVarInt(c) \o (ItemsBytes(g.item) \o x)
  <2>1. Stages(v, f, c, g, x) /\ Fits(c, g, x)
    BY <1>1, <1>2, <1>3, PartsStages, PartsFit
  <2>2. ToItems(v, f, c, g) \o x = ToWits(v, f, g) \o p /\ p \in Seq(Byte)
    BY <2>1 DEF Stages, Fits
  <2> HIDE DEF p
  <2>3. ToWits(v, f, g) \o p = job.bytes
    BY <1>2, <2>2
  <2>4. WitsAt(g, p, w, z, h, f)
    BY <1>1, <1>2, <1>3, <2>2, <2>3, WitsPosition
  <2>5. f = w /\ g.ins = h.ins
    BY <2>4 DEF WitsAt
  <2> QED
    BY <1>2, <1>4, <1>7, <2>5
<1>9. ItemsLead(v, f, c, g, x, u, w, z, h, <<>>)
  BY <1>1, <1>2, <1>3, <1>4, <1>6, <1>8, ItemsStage
<1> DEFINE k == Len(g.done) + 1
           a == g.item
           b == h.done[k]
<1>10. c = Len(b) /\ \E r \in Seq(Byte) : Len(a) <= c => Leads(ItemW, a, b, x, r)
  BY <1>9 DEF ItemsLead
<1>11. k \in DOMAIN h.done /\ b \in Seq(Slices(Byte)) /\ Len(b) \in Nat
  <2>1. Len(h.done) \in Nat /\ DOMAIN h.done = 1 .. Len(h.done)
    BY <1>4
  <2>2. k \in DOMAIN h.done
    BY <1>7, <1>8, <2>1
  <2>3. b \in Slices(Slices(Byte))
    BY <1>4, <2>1, <2>2
  <2> HIDE DEF b, k
  <2>4. b \in Seq(Slices(Byte))
    BY <2>3 DEF Slices
  <2>5. Len(b) \in Nat
    BY <2>4
  <2> QED
    BY <2>2, <2>4, <2>5
<1>12. Len(a) \in Nat /\ Len(a) < Len(b)
  BY <1>2, <1>3, <1>7, <1>10
<1>13. \A j \in DOMAIN b : Len(b[j]) <= MaxWitnessItemSize
  BY <1>4, <1>11 DEF Limits
<1> HIDE DEF a, b, k
<1>14. PICK r \in Seq(Byte) : Leads(ItemW, a, b, x, r)
  BY <1>10, <1>11, <1>12
<1>15. /\ Len(a) + 1 \in DOMAIN b /\ b[Len(a) + 1] \in Slices(Byte)
       /\ \E q \in Seq(Byte) : x = ItemW[b[Len(a) + 1]] \o q
  <2>1. Leads(ItemW, a, b, x, r) /\ b \in Seq(Slices(Byte)) /\ Len(a) \in Nat /\ Len(a) < Len(b)
    BY <1>11, <1>12, <1>14
  <2> QED
    BY <2>1, LeadsNext
<1> DEFINE t == b[Len(a) + 1]
<1>16. PICK q \in Seq(Byte) : x = ItemW[t] \o q
  BY <1>15
<1>17. x = WriteVarBytes(t) \o q
  BY <1>15, <1>16 DEF ItemW
<1>18. t \in Slices(Byte) /\ Len(t) <= MaxWitnessItemSize
  BY <1>13, <1>15
<1> HIDE DEF t
<1> DEFINE y == readScript(WriteVarBytes(t) \o q, MaxWitnessItemSize)
<1>19. Regained(y, q)
  <2>1. y = readScript(WriteVarBytes(t) \o q, MaxWitnessItemSize)
    OBVIOUS
  <2> HIDE DEF y
  <2> QED
    BY <1>16, <1>18, <2>1, ScriptBack
<1> QED
  BY <1>5, <1>17, <1>19 DEF Regained

-------------------------------------------------------------------------------
(* BtcDecode accepts what may be sent.                                     *)

\* A decoder that gives up was not given a transaction that may be sent.
Accepting == \A d \in Decoders : dec[d].pc \in {"unwind", "error"} => ~ Good(dec[d].job)

\* At the start nothing was refused.
LEMMA AcceptsInit == Init => Accepting
BY DEF Init, Idle, Accepting

\* The parts of the stream of a decoder.
LEMMA CalledCarries ==
  ASSUME Called, NEW d \in Decoders, dec[d].pc # "idle", Good(dec[d].job)
  PROVE  \E u, w, z, h : Carries(dec[d].job, u, w, z, h)
<1>1. dec[d].job.tx \in MsgTxs /\ dec[d].job.bytes \in Seq(Byte)
  BY JobIs
<1> QED
  BY <1>1, GoodCarries

\* A step of d.
LEMMA AcceptsOn ==
  ASSUME Accepting, NEW d \in Decoders, Alone(d),
         dec'[d].pc \in {"unwind", "error"} => ~ Good(dec'[d].job)
  PROVE  Accepting'
<1>1. ASSUME NEW e \in Decoders, dec'[e].pc \in {"unwind", "error"} PROVE ~ Good(dec'[e].job)
  <2>1. CASE e = d
    BY <1>1, <2>1
  <2>2. CASE e # d
    <3>1. dec'[e] = dec[e]
      BY <2>2 DEF Alone
    <3> QED
      BY <1>1, <3>1 DEF Accepting
  <2> QED
    BY <2>1, <2>2
<1> QED
  BY <1>1 DEF Accepting

\* The header is accepted.
LEMMA AcceptsStart ==
  ASSUME BufferInv, Accepting, NEW d \in Decoders, Decode(d)
  PROVE  Accepting'
<1> DEFINE n == dec'[d]
<1>1. Alone(d)
  BY DecodeMoves
<1>2. PICK job \in Inputs[d] : Starts(n, job, ReadHeader(job.bytes, job.enc))
  BY DecodeMoves
<1>3. job.tx \in MsgTxs /\ job.bytes \in Seq(Byte)
  BY InputsAssumption
<1>4. n.job = job /\ (ReadHeader(job.bytes, job.enc).ok => n.pc = "txIn")
  BY <1>2 DEF Starts
<1>5. ASSUME n.pc \in {"unwind", "error"}, Good(job) PROVE FALSE
  <2>1. PICK u, w, z, h : Carries(job, u, w, z, h)
    BY <1>3, <1>5, GoodCarries
  <2>2. ReadHeader(job.bytes, job.enc).ok
    BY <2>1, HeaderAccepted
  <2> QED
    BY <1>4, <1>5, <2>2
<1>6. n.pc \in {"unwind", "error"} => ~ Good(n.job)
  BY <1>4, <1>5
<1> QED
  BY <1>1, <1>6, AcceptsOn

\* A step that does not fail if the stream must be accepted.
LEMMA AcceptsRead ==
  ASSUME Accepting, Sound, Called, NEW d \in Decoders, Alone(d), dec[d].pc \in Live,
         dec'[d].job = dec[d].job,
         \A g, u, w, z, h : Holds(dec[d], mem, g) /\ Carries(dec[d].job, u, w, z, h) => dec'[d].pc \in Live
  PROVE  Accepting'
<1>1. ASSUME dec'[d].pc \in {"unwind", "error"}, Good(dec'[d].job) PROVE FALSE
  <2>1. dec'[d].pc \notin Live
    BY <1>1 DEF Live
  <2>2. dec[d].pc # "idle"
    BY DEF Live
  <2>3. PICK u, w, z, h : Carries(dec[d].job, u, w, z, h)
    BY <1>1, <2>2, CalledCarries
  <2>4. PICK g : Holds(dec[d], mem, g)
    BY DEF Sound
  <2> QED
    BY <2>1, <2>3, <2>4
<1> QED
  BY <1>1, AcceptsOn

\* The readers of scripts.
LEMMA AcceptsTxIn ==
  ASSUME BufferInv, StreamInv, SumInv, Sound, Called, Accepting, NEW d \in Decoders, DecodeTxIn(d)
  PROVE  Accepting'
<1> DEFINE s == dec[d]
           n == dec'[d]
           r == readTxIn(s.in)
<1>1. s.in \in Seq(Byte) /\ Sized(s, mem) /\ s.pc = "txIn" /\ s.at < s.count /\ DOMAIN s.msg = MsgFields
  BY DEF StreamInv, SumInv, DecodeTxIn, Sized, Live
<1>2. /\ Alone(d)
      /\ r.ok => Grown(s, n, <<"in", s.at + 1, 0>>, r.script, r.rest)
      /\ ~ r.ok => Fails(s, n)
  BY <1>1, TxInMoves
<1>3. n.job = s.job /\ (r.ok => n.pc = "txIn")
  BY <1>1, <1>2 DEF Grown, Fails
<1>4. ASSUME NEW g, NEW u, NEW w, NEW z, NEW h, Holds(s, mem, g), Carries(s.job, u, w, z, h)
      PROVE  n.pc \in Live
  <2>1. r.ok
    <3> HIDE DEF s
    <3> QED
      BY <1>1, <1>4, TxInAccepted
  <2> QED
    BY <1>3, <2>1 DEF Live
<1>5. s.pc \in Live
  BY <1>1 DEF Live
<1> QED
  BY <1>2, <1>3, <1>4, <1>5, AcceptsRead, SMTT(30)

\* readTxOut accepts what writeTxOut wrote.
LEMMA AcceptsTxOut ==
  ASSUME BufferInv, StreamInv, SumInv, Sound, Called, Accepting, NEW d \in Decoders, DecodeTxOut(d)
  PROVE  Accepting'
<1> DEFINE s == dec[d]
           n == dec'[d]
           r == readTxOut(s.in)
<1>1. s.in \in Seq(Byte) /\ Sized(s, mem) /\ s.pc = "txOut" /\ s.at < s.count /\ DOMAIN s.msg = MsgFields
  BY DEF StreamInv, SumInv, DecodeTxOut, Sized, Live
<1>2. /\ Alone(d)
      /\ r.ok => Grown(s, n, <<"out", s.at + 1, 0>>, r.script, r.rest)
      /\ ~ r.ok => Fails(s, n)
  BY <1>1, TxOutMoves
<1>3. n.job = s.job /\ (r.ok => n.pc = "txOut")
  BY <1>1, <1>2 DEF Grown, Fails
<1>4. ASSUME NEW g, NEW u, NEW w, NEW z, NEW h, Holds(s, mem, g), Carries(s.job, u, w, z, h)
      PROVE  n.pc \in Live
  <2>1. r.ok
    <3> HIDE DEF s
    <3> QED
      BY <1>1, <1>4, TxOutAccepted
  <2> QED
    BY <1>3, <2>1 DEF Live
<1>5. s.pc \in Live
  BY <1>1 DEF Live
<1> QED
  BY <1>2, <1>3, <1>4, <1>5, AcceptsRead, SMTT(30)

\* An item of a witness is accepted.
LEMMA AcceptsItem ==
  ASSUME BufferInv, StreamInv, SumInv, Sound, Called, Accepting, NEW d \in Decoders, ReadWitnessItem(d)
  PROVE  Accepting'
<1> DEFINE s == dec[d]
           n == dec'[d]
           r == readScript(s.in, MaxWitnessItemSize)
<1>1. s.in \in Seq(Byte) /\ Sized(s, mem) /\ s.pc = "witness" /\ s.at < s.count /\ DOMAIN s.msg = MsgFields
  BY DEF StreamInv, SumInv, ReadWitnessItem, Sized, Live
<1>2. /\ Alone(d)
      /\ r.ok => Grown(s, n, <<"in", s.input, s.at + 1>>, r, r.rest)
      /\ ~ r.ok => Fails(s, n)
  BY <1>1, ItemMoves
<1>3. n.job = s.job /\ (r.ok => n.pc = "witness")
  BY <1>1, <1>2 DEF Grown, Fails
<1>4. ASSUME NEW g, NEW u, NEW w, NEW z, NEW h, Holds(s, mem, g), Carries(s.job, u, w, z, h)
      PROVE  n.pc \in Live
  <2>1. r.ok
    <3> HIDE DEF s
    <3> QED
      BY <1>1, <1>4, ItemAccepted
  <2> QED
    BY <1>3, <2>1 DEF Live
<1>5. s.pc \in Live
  BY <1>1 DEF Live
<1> QED
  BY <1>2, <1>3, <1>4, <1>5, AcceptsRead

\* The readers of numbers.
LEMMA AcceptsOutCount ==
  ASSUME BufferInv, StreamInv, SumInv, Sound, Called, Accepting, NEW d \in Decoders, ReadTxOutCount(d)
  PROVE  Accepting'
<1> DEFINE s == dec[d]
           n == dec'[d]
           r == ReadVarInt(s.in)
           ok == r.ok /\ r.val <= MaxTxOutPerMessage
<1>1. s.in \in Seq(Byte) /\ Sized(s, mem) /\ s.pc \in {"txIn"} /\ s.at = s.count /\ DOMAIN s.msg = MsgFields
  BY DEF StreamInv, SumInv, ReadTxOutCount, Sized, Live
<1>2. /\ Alone(d) /\ (ok => SameScripts(s, n) /\ n.pc \in {"txOut"}) /\ (~ ok => Fails(s, n))
  BY <1>1, OutCountMoves
<1>3. n.job = s.job /\ (ok => n.pc \in Live)
  BY <1>1, <1>2 DEF SameScripts, Fails, Live
<1>4. ASSUME NEW g, NEW u, NEW w, NEW z, NEW h, Holds(s, mem, g), Carries(s.job, u, w, z, h)
      PROVE  n.pc \in Live
  <2>1. ok
    <3> HIDE DEF s
    <3> QED
      BY <1>1, <1>4, OutCountAccepted
  <2> QED
    BY <1>3, <2>1
<1>5. s.pc \in Live
  BY <1>1 DEF Live
<1> QED
  BY <1>2, <1>3, <1>4, <1>5, AcceptsRead

\* The number of items is accepted.
LEMMA AcceptsItemCount ==
  ASSUME BufferInv, StreamInv, SumInv, Sound, Called, Accepting, NEW d \in Decoders, ReadWitnessCount(d)
  PROVE  Accepting'
<1> DEFINE s == dec[d]
           n == dec'[d]
           r == ReadVarInt(s.in)
           ok == r.ok /\ r.val <= MaxWitnessItemsPerInput
<1>1. s.in \in Seq(Byte) /\ Sized(s, mem) /\ s.pc \in {"txOut", "witness"} /\ s.at = s.count /\ DOMAIN s.msg = MsgFields
  BY DEF StreamInv, SumInv, ReadWitnessCount, Sized, Live
<1>2. /\ Alone(d) /\ (ok => SameScripts(s, n) /\ n.pc \in {"witness"}) /\ (~ ok => Fails(s, n))
      /\ s.flag /\ s.input < Len(s.msg.txIn)
  BY <1>1, ItemCountMoves
<1>3. n.job = s.job /\ (ok => n.pc \in Live)
  BY <1>1, <1>2 DEF SameScripts, Fails, Live
<1>4. ASSUME NEW g, NEW u, NEW w, NEW z, NEW h, Holds(s, mem, g), Carries(s.job, u, w, z, h)
      PROVE  n.pc \in Live
  <2>1. PICK k : Closed(s, mem, k)
    BY <1>1, <1>4, Closing
  <2>2. ok
    <3> HIDE DEF s
    <3> QED
      BY <1>1, <1>2, <1>4, <2>1, ItemCountAccepted
  <2> QED
    BY <1>3, <2>2
<1>5. s.pc \in Live
  BY <1>1 DEF Live
<1> QED
  BY <1>2, <1>3, <1>4, <1>5, AcceptsRead

\* The lock time is accepted.
LEMMA AcceptsLockTime ==
  ASSUME BufferInv, StreamInv, SumInv, Sound, Called, Accepting, NEW d \in Decoders, ReadLockTime(d)
  PROVE  Accepting'
<1> DEFINE s == dec[d]
           n == dec'[d]
           r == Uint(s.in, 4)
           ok == r.ok
<1>1. s.in \in Seq(Byte) /\ Sized(s, mem) /\ s.pc \in {"txOut", "witness"} /\ s.at = s.count /\ DOMAIN s.msg = MsgFields
  BY DEF StreamInv, SumInv, ReadLockTime, Sized, Live
<1>2. /\ Alone(d) /\ (ok => SameScripts(s, n) /\ n.pc \in {"copy", "done"}) /\ (~ ok => Fails(s, n))
      /\ (s.flag => s.input = Len(s.msg.txIn))
  BY <1>1, LockTimeMoves
<1>3. n.job = s.job /\ (ok => n.pc \in Live)
  BY <1>1, <1>2 DEF SameScripts, Fails, Live
<1>4. ASSUME NEW g, NEW u, NEW w, NEW z, NEW h, Holds(s, mem, g), Carries(s.job, u, w, z, h)
      PROVE  n.pc \in Live
  <2>1. PICK k : Closed(s, mem, k)
    BY <1>1, <1>4, Closing
  <2>2. ok
    <3> HIDE DEF s
    <3> QED
      BY <1>1, <1>2, <1>4, <2>1, LockTimeAccepted
  <2> QED
    BY <1>3, <2>2
<1>5. s.pc \in Live
  BY <1>1 DEF Live
<1> QED
  BY <1>2, <1>3, <1>4, <1>5, AcceptsRead

\* The steps that do not read.
LEMMA AcceptsReturns ==
  ASSUME BufferInv, Accepting, NEW d \in Decoders,
         CopyScript(d) \/ ReturnScript(d) \/ UnwindScript(d) \/ UnwindEnd(d)
  PROVE  Accepting'
<1>1. CASE CopyScript(d)
  <2>1. Alone(d) /\ dec'[d].pc = "return"
    BY <1>1, CopyMoves
  <2> QED
    BY <2>1, AcceptsOn
<1>2. CASE ReturnScript(d)
  <2>1. Alone(d) /\ dec'[d].pc \in {"copy", "done"}
    BY <1>2, ReturnMoves
  <2> QED
    BY <2>1, AcceptsOn
<1>3. CASE UnwindScript(d) \/ UnwindEnd(d)
  <2>1. Alone(d) /\ dec[d].pc = "unwind" /\ dec'[d].job = dec[d].job
    BY <1>3, UnwindMoves
  <2>2. ~ Good(dec'[d].job)
    BY <2>1 DEF Accepting
  <2> QED
    BY <2>1, <2>2, AcceptsOn
<1> QED
  BY <1>1, <1>2, <1>3

\* No step refuses what may be sent.
LEMMA AcceptsStep ==
  BufferInv /\ StreamInv /\ SumInv /\ Sound /\ Called /\ Accepting /\ [Next]_vars => Accepting'
<1> SUFFICES ASSUME BufferInv, StreamInv, SumInv, Sound, Called, Accepting, [Next]_vars PROVE Accepting'
  OBVIOUS
<1>1. CASE UNCHANGED vars
  BY <1>1 DEF vars, Accepting
<1>2. CASE Next
  <2>1. PICK d \in Decoders :
          \/ DecodeTxIn(d) \/ DecodeTxOut(d) \/ ReadWitnessItem(d)
          \/ Decode(d) \/ ReadTxOutCount(d) \/ ReadWitnessCount(d) \/ ReadLockTime(d)
          \/ CopyScript(d) \/ ReturnScript(d) \/ UnwindScript(d) \/ UnwindEnd(d)
    BY <1>2, Zenon DEF Next
  <2> QED
    BY <2>1, AcceptsTxIn, AcceptsTxOut, AcceptsItem, AcceptsStart, AcceptsOutCount,
       AcceptsItemCount, AcceptsLockTime, AcceptsReturns
<1> QED
  BY <1>1, <1>2

\* What follows for the decoders.
LEMMA ExactHolds ==
  ASSUME BufferInv, StreamInv, SumInv, Sound, Called, Accepting
  PROVE  DecodeExact
<1>1. ScriptsFit
  BY SumInvFits
<1> SUFFICES ASSUME NEW d \in Decoders, NEW job, job = dec[d].job, NEW full, full = BtcEncode(job.tx, job.enc)
             PROVE  /\ dec[d].pc = "done" =>
                         Encode(Decoded(d), dec[d].flag) \o dec[d].in = job.bytes
                    /\ dec[d].pc \in {"done", "error"} /\ (job.enc = "base" \/ job.tx.txIn # <<>>) =>
                      /\ Len(BtcEncode(job.tx, "witness")) = SerializeSize(job.tx)
                      /\ Len(BtcEncode(job.tx, "base")) = baseSize(job.tx)
                      /\ job.bytes = full /\ dec[d].pc = "done" =>
                           /\ Decoded(d) = IF job.enc = "base" THEN WithoutWitness(job.tx) ELSE job.tx
                           /\ dec[d].in = <<>>
                      /\ job.bytes = full /\ Sendable(job.tx) => dec[d].pc = "done"
                      /\ IsStrictPrefix(job.bytes, full) => dec[d].pc = "error"
  BY <1>1, Zenon DEF DecodeExact
<1>2. ASSUME dec[d].pc = "done" PROVE Encode(Decoded(d), dec[d].flag) \o dec[d].in = job.bytes
  BY <1>2, SoundExact DEF Exact
<1>3. ASSUME dec[d].pc \in {"done", "error"}, Unambiguous(job)
      PROVE  /\ Len(BtcEncode(job.tx, "witness")) = SerializeSize(job.tx)
             /\ Len(BtcEncode(job.tx, "base")) = baseSize(job.tx)
             /\ job.bytes = full /\ dec[d].pc = "done" =>
                  /\ Decoded(d) = IF job.enc = "base" THEN WithoutWitness(job.tx) ELSE job.tx
                  /\ dec[d].in = <<>>
             /\ job.bytes = full /\ Sendable(job.tx) => dec[d].pc = "done"
             /\ IsStrictPrefix(job.bytes, full) => dec[d].pc = "error"
  <2>1. job.tx \in MsgTxs /\ job.enc \in {"base", "witness"} /\ job.bytes \in Seq(Byte)
    BY <1>3, JobIs
  <2>2. /\ Len(BtcEncode(job.tx, "witness")) = SerializeSize(job.tx)
        /\ Len(BtcEncode(job.tx, "base")) = baseSize(job.tx)
    BY <2>1, SizesExact
  <2>3. ASSUME dec[d].pc = "done", NEW y \in Seq(Byte), job.bytes \o y = full PROVE Complete(d, y)
    BY <1>3, <2>3, DoneOnce
  <2>4. ASSUME job.bytes = full, dec[d].pc = "done"
        PROVE  /\ Decoded(d) = IF job.enc = "base" THEN WithoutWitness(job.tx) ELSE job.tx
               /\ dec[d].in = <<>>
    <3>1. job.bytes \o <<>> = full
      BY <2>1, <2>4
    <3>2. Complete(d, <<>>)
      BY <2>3, <2>4, <3>1, NoBytes
    <3> QED
      BY <3>2 DEF Complete
  <2>5. ASSUME job.bytes = full, Sendable(job.tx) PROVE dec[d].pc = "done"
    BY <1>3, <2>5 DEF Accepting, Good
  <2>6. ASSUME IsStrictPrefix(job.bytes, full) PROVE dec[d].pc = "error"
    <3>1. full \in Seq(Byte)
      <4>1. /\ Flagged(job) \in BOOLEAN /\ PartsWritten(job, WholeOf(job.tx, Flagged(job)))
        BY <2>1, JobWritten
      <4>2. full = Encode(job.tx, Flagged(job))
        BY DEF BtcEncode, Flagged
      <4> QED
        BY <2>1, <4>1, <4>2, EncodeLen
    <3>2. PICK y \in Seq(Byte) : y # <<>> /\ job.bytes \o y = full
      BY <2>1, <2>6, <3>1, PrefixRest
    <3>3. ASSUME dec[d].pc = "done" PROVE FALSE
      <4>1. Complete(d, y)
        BY <2>3, <3>2, <3>3
      <4> QED
        BY <3>2, <4>1 DEF Complete
    <3> QED
      BY <1>3, <3>3
  <2> QED
    BY <2>2, <2>4, <2>5, <2>6
<1> QED
  BY <1>2, <1>3 DEF Unambiguous

\* The transaction that a decoder returns is the one that was encoded, it accepts
\* what may be sent and refuses what ends too early, and it invents nothing.
THEOREM DecodeExactCorrect == Spec => []DecodeExact
<1>1. Init => BufferInv /\ StreamInv /\ SumInv /\ Sound /\ Called /\ Accepting
  BY BufferInvInit, StreamInvInit, SumInvInit, SoundInit, CalledInit, AcceptsInit
<1>2. BufferInv /\ StreamInv /\ SumInv /\ Sound /\ Called /\ Accepting /\ [Next]_vars
        => (BufferInv /\ StreamInv /\ SumInv /\ Sound /\ Called /\ Accepting)'
  BY BufferInvStep, StreamInvStep, SumInvStep, SoundInvStep, CalledStep, AcceptsStep
<1>3. BufferInv /\ StreamInv /\ SumInv /\ Sound /\ Called /\ Accepting => DecodeExact
  BY ExactHolds
<1> QED
  BY <1>1, <1>2, <1>3, PTL DEF Spec

===============================================================================
