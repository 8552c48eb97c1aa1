--------------------------------- MODULE Tor ----------------------------------
(***************************************************************************)
(* TorLookupIP (connmgr/tor.go): a name is resolved with two questions to  *)
(* the proxy.  Its answers are a stream of bytes that arrives in segments; *)
(* conn.Read returns what has arrived of the first of them, which may be   *)
(* less than the buffer holds, and the rest of the buffer stays zero.      *)
(***************************************************************************)
EXTENDS Integers, Sequences, FiniteSets

CONSTANTS
  Methods,  \* what the proxy may answer to the first question: version and method
  Answers   \* and to the second: version, status, reserved, type, address, port

Byte == 0 .. 255

ASSUME TorAssumption ==
  /\ \A m \in Methods : m \in Seq(Byte) /\ Len(m) = 2
  /\ \A a \in Answers : a \in Seq(Byte) /\ Len(a) = 10

\* What the caller gets with any of the errors, the end of the stream included.
NoAddress == <<>>

\* What conn.Read leaves in a buffer of n bytes, how many it has read, and what
\* is still to come.
Read(n, in) ==
  LET got == IF Len(in[1]) < n THEN Len(in[1]) ELSE n
  IN  [n |-> got,
       buf |-> [i \in 1 .. n |-> IF i <= got THEN in[1][i] ELSE 0],
       rest |-> IF got = Len(in[1]) THEN Tail(in)
                ELSE <<SubSeq(in[1], got + 1, Len(in[1]))>> \o Tail(in)]

\* Mutant: a short read of the address is not noticed.
AddressUnchecked(in) == IF in = <<>> THEN NoAddress ELSE Read(4, in).buf

Address(in) ==
  IF in = <<>> THEN NoAddress
  ELSE IF Read(4, in).n # 4 THEN NoAddress ELSE Read(4, in).buf

\* Version, status and type of the answer to the second question.
Resolved(in) ==
  IF in = <<>> THEN NoAddress
  ELSE IF Read(4, in).buf[1] # 5 \/ Read(4, in).buf[2] # 0 \/ Read(4, in).buf[4] # 1 THEN NoAddress
  ELSE Address(Read(4, in).rest)

\* Version and authentication method of the answer to the first one.
TorLookupIP(in) ==
  IF in = <<>> THEN NoAddress
  ELSE IF Read(2, in).buf # <<5, 0>> THEN NoAddress
  ELSE Resolved(Read(2, in).rest)

-------------------------------------------------------------------------------
(* Reference: what may arrive, and what is to be made of it.               *)

\* The segments of bytes that end behind the places in cuts.
Segments(bytes, cuts) ==
  LET ends   == cuts \cup {Len(bytes)}
      End(k) == CHOOSE e \in ends : Cardinality({f \in ends : f <= e}) = k
  IN  [k \in 1 .. Cardinality(ends) |->
         SubSeq(bytes, IF k = 1 THEN 1 ELSE End(k - 1) + 1, End(k))]

(***************************************************************************)
(* However the answers are cut into segments, and wherever the connection  *)
(* ends, the result is the address that the proxy has sent or an error: an *)
(* address if both answers say so and neither the first one nor the header *)
(* or the address of the second one was cut.                               *)
(***************************************************************************)
Exact(method, answer, n, split, cuts) ==
  TorLookupIP(Segments(method, IF split THEN {1} ELSE {})
                \o Segments(SubSeq(answer, 1, n), cuts)) =
    IF /\ method = <<5, 0>> /\ ~split
       /\ answer[1] = 5 /\ answer[2] = 0 /\ answer[4] = 1
       /\ n >= 8 /\ cuts \cap {1, 2, 3, 5, 6, 7} = {}
      THEN SubSeq(answer, 5, 8)
      ELSE NoAddress

TorExact ==
  \A method \in Methods, answer \in Answers, n \in 1 .. 10, split \in BOOLEAN :
    \A cuts \in SUBSET (1 .. n - 1) : Exact(method, answer, n, split, cuts)
===============================================================================
