--------------------------- MODULE RpcServerProofs ---------------------------
(***************************************************************************)
(* The HTTP endpoint, for every set of connections and of request bodies:  *)
(* its counter counts exactly the connections that are being served, and   *)
(* an undisturbed peer has a reply to every request that is due one.       *)
(***************************************************************************)
EXTENDS RpcServer, FiniteSetTheorems, SequenceTheorems, TLAPS

-----------------------------------------------------------------------------
(* Types.  numClients is dealt with by ClientCount.                        *)

ControlOK ==
  /\ serverShutdown \in BOOLEAN
  /\ pc \in [Clients -> Steps]
  /\ \A c \in Clients : body[c] \in Bodies[c]
  /\ err \in [Clients -> BOOLEAN]
  /\ cpc \in [Clients -> {"none", "read", "done"}]
  /\ status \in [Clients -> {"open", "503", "401", "empty", "400", "500",
                             "closed", "headers", "200"}]

AnswerOK ==
  /\ next \in [Clients -> Nat]
  /\ results \in [Clients -> Seq(Kinds \X Nat)]
  /\ ran \in [Clients -> SUBSET Nat]

\* A reply is a sequence of at most one marshalled response.
LEMMA ReplyType ==
  ASSUME NEW q, NEW admin \in BOOLEAN, NEW i \in Nat
  PROVE  /\ Reply(q, admin, i) \in Seq(Kinds \X Nat)
         /\ Executes(q, admin, i) \in SUBSET Nat
<1>1. Outcome(q, admin) \in {"error", "ignore", "result"}
  BY DEF Outcome
<1>2. Executes(q, admin, i) \in SUBSET Nat
  BY DEF Executes
<1>3. Reply(q, admin, i) \in Seq(Kinds \X Nat)
  <2>1. CASE Outcome(q, admin) = "ignore" \/ q.version = ""
    <3>1. Reply(q, admin, i) = <<>>
      BY <2>1 DEF Reply
    <3> QED
      BY <3>1
  <2>2. CASE Outcome(q, admin) # "ignore" /\ q.version # ""
    <3> DEFINE x == <<Outcome(q, admin), i>>
    <3>1. x \in Kinds \X Nat
      BY <1>1, <2>2 DEF Kinds
    <3>2. Reply(q, admin, i) = <<x>>
      BY <2>2 DEF Reply
    <3> HIDE DEF x
    <3> QED
      BY <3>1, <3>2
  <2> QED
    BY <2>1, <2>2
<1> QED
  BY <1>2, <1>3

\* ServerInit establishes the types.
LEMMA TypeInit == ServerInit => ControlOK /\ AnswerOK
<1> SUFFICES ASSUME ServerInit PROVE ControlOK /\ AnswerOK
  OBVIOUS
<1>1. ControlOK
  BY DEF ServerInit, ControlOK, Steps
<1>2. <<>> \in Seq(Kinds \X Nat)
  OBVIOUS
<1>3. AnswerOK
  BY <1>2 DEF ServerInit, AnswerOK
<1> QED
  BY <1>1, <1>3

\* Every step keeps the types of what steers the handlers.
LEMMA ControlStep == ControlOK /\ [ServerNext]_serverVars => ControlOK'
<1> SUFFICES ASSUME ControlOK, [ServerNext]_serverVars PROVE ControlOK'
  OBVIOUS
<1> USE DEF ControlOK, Steps
<1>1. ASSUME NEW c \in Clients, LimitConnections(c) PROVE ControlOK'
  BY <1>1 DEF LimitConnections, Goto
<1>2. ASSUME NEW c \in Clients, IncrementClients(c) \/ DecrementClients(c)
      PROVE  ControlOK'
  BY <1>2 DEF IncrementClients, DecrementClients, Goto
<1>3. ASSUME NEW c \in Clients, CheckAuth(c) PROVE ControlOK'
  BY <1>3 DEF CheckAuth, Goto
<1>4. ASSUME NEW c \in Clients, ReadRequest(c) PROVE ControlOK'
  BY <1>4 DEF ReadRequest, Goto
<1>5. ASSUME NEW c \in Clients, CloseNotifier(c) PROVE ControlOK'
  BY <1>5 DEF CloseNotifier
<1>6. ASSUME NEW c \in Clients, Unmarshal(c) \/ ParseError(c) PROVE ControlOK'
  BY <1>6 DEF Unmarshal, ParseError, Goto
<1>7. ASSUME NEW c \in Clients, Single(c) PROVE ControlOK'
  BY <1>7 DEF Single, Goto
<1>8. ASSUME NEW c \in Clients, Batch(c) PROVE ControlOK'
  BY <1>8 DEF Batch, Goto
<1>9. ASSUME NEW c \in Clients, MarshalEntry(c) \/ BatchEntry(c)
      PROVE  ControlOK'
  BY <1>9 DEF MarshalEntry, BatchEntry, Goto
<1>10. ASSUME NEW c \in Clients, WriteHeaders(c) \/ WriteReply(c)
       PROVE  ControlOK'
  BY <1>10 DEF WriteHeaders, WriteReply, Goto
<1>11. CASE StopServer
  BY <1>11 DEF StopServer
<1>12. CASE UNCHANGED serverVars
  BY <1>12 DEF serverVars
<1> QED
  BY <1>1, <1>2, <1>3, <1>4, <1>5, <1>6, <1>7, <1>8, <1>9, <1>10, <1>11,
     <1>12 DEF ServerNext, ServeHTTP

\* Every step keeps the types of the answers.
LEMMA AnswerStep == AnswerOK /\ [ServerNext]_serverVars => AnswerOK'
<1> SUFFICES ASSUME AnswerOK, [ServerNext]_serverVars PROVE AnswerOK'
  OBVIOUS
<1>1. ASSUME NEW c \in Clients, ParseError(c) PROVE AnswerOK'
  <2> DEFINE x == <<"parse error", 0>>
  <2>1. x \in Kinds \X Nat
    BY DEF Kinds
  <2>2. /\ results' = results \/ results' = [results EXCEPT ![c] = <<x>>]
        /\ UNCHANGED <<next, ran>>
    BY <1>1 DEF ParseError
  <2> HIDE DEF x
  <2>3. <<x>> \in Seq(Kinds \X Nat)
    BY <2>1
  <2> QED
    BY <2>2, <2>3 DEF AnswerOK
<1>2. ASSUME NEW c \in Clients, Single(c) PROVE AnswerOK'
  <2>1. IsAdmin(c) \in BOOLEAN
    BY DEF IsAdmin
  <2> DEFINE q == body[c].requests[1]
  <2>2. /\ Reply(q, IsAdmin(c), 1) \in Seq(Kinds \X Nat)
        /\ Executes(q, IsAdmin(c), 1) \in SUBSET Nat
    BY <2>1, ReplyType
  <2>3. /\ \/ results' = results
           \/ results' = [results EXCEPT ![c] = Reply(q, IsAdmin(c), 1)]
        /\ \/ ran' = ran
           \/ ran' = [ran EXCEPT ![c] = Executes(q, IsAdmin(c), 1)]
        /\ next' = next
    BY <1>2 DEF Single
  <2> HIDE DEF q
  <2> QED
    BY <2>2, <2>3 DEF AnswerOK
<1>3. ASSUME NEW c \in Clients, Batch(c) PROVE AnswerOK'
  <2>1. <<"empty batch", 0>> \in Kinds \X Nat
    BY DEF Kinds
  <2>2. Append(results[c], <<"empty batch", 0>>) \in Seq(Kinds \X Nat)
    BY <2>1, AppendProperties DEF AnswerOK
  <2> QED
    BY <1>3, <2>2 DEF Batch, AnswerOK
<1>4. ASSUME NEW c \in Clients, BatchEntry(c) PROVE AnswerOK'
  <2>1. IsAdmin(c) \in BOOLEAN /\ next[c] \in Nat
    BY DEF IsAdmin, AnswerOK
  <2> DEFINE q == body[c].requests[next[c]]
             r == Reply(q, IsAdmin(c), next[c])
             e == Executes(q, IsAdmin(c), next[c])
  <2>2. r \in Seq(Kinds \X Nat) /\ e \in SUBSET Nat
    BY <2>1, ReplyType
  <2>3. <<"invalid request", next[c]>> \in Kinds \X Nat
    BY <2>1 DEF Kinds
  <2>4. results[c] \in Seq(Kinds \X Nat)
    BY DEF AnswerOK
  <2>5. /\ Append(results[c], <<"invalid request", next[c]>>)
             \in Seq(Kinds \X Nat)
        /\ results[c] \o r \in Seq(Kinds \X Nat)
    BY <2>2, <2>3, <2>4, ConcatProperties, AppendProperties
  <2>6. /\ \/ results' = results
           \/ results' = [results EXCEPT ![c] =
                            Append(@, <<"invalid request", next[c]>>)]
           \/ results' = [results EXCEPT ![c] = @ \o r]
        /\ \/ ran' = ran
           \/ ran' = [ran EXCEPT ![c] = @ \cup e]
        /\ next' = [next EXCEPT ![c] = @ + 1]
    BY <1>4 DEF BatchEntry
  <2> HIDE DEF q, r, e
  <2>7. results' \in [Clients -> Seq(Kinds \X Nat)]
    BY <2>5, <2>6 DEF AnswerOK
  <2>8. ran' \in [Clients -> SUBSET Nat]
    BY <2>2, <2>6 DEF AnswerOK
  <2>9. next' \in [Clients -> Nat]
    <3>1. next[c] + 1 \in Nat
      BY <2>1
    <3> QED
      BY <2>6, <3>1 DEF AnswerOK
  <2> QED
    BY <2>7, <2>8, <2>9 DEF AnswerOK
<1>5. CASE UNCHANGED <<next, results, ran>>
  BY <1>5 DEF AnswerOK
<1>6. ASSUME NEW c \in Clients,
             \/ LimitConnections(c) \/ IncrementClients(c) \/ CheckAuth(c)
             \/ DecrementClients(c) \/ ReadRequest(c) \/ CloseNotifier(c)
             \/ Unmarshal(c) \/ MarshalEntry(c) \/ WriteHeaders(c)
             \/ WriteReply(c)
      PROVE  UNCHANGED <<next, results, ran>>
  BY <1>6 DEF LimitConnections, IncrementClients, CheckAuth, DecrementClients,
              ReadRequest, CloseNotifier, Unmarshal, MarshalEntry, WriteHeaders,
              WriteReply
<1>7. StopServer \/ UNCHANGED serverVars => UNCHANGED <<next, results, ran>>
  BY DEF StopServer, serverVars
<1> QED
  BY <1>1, <1>2, <1>3, <1>4, <1>5, <1>6, <1>7 DEF ServerNext, ServeHTTP

-----------------------------------------------------------------------------
(* The counter.                                                            *)

Outside == {"accepted", "increment", "done"}

\* A step within the handler, or outside of it, leaves the set alone.
LEMMA SameCounted ==
  ASSUME ControlOK, NEW c \in Clients, NEW to \in Steps, Goto(c, to),
         pc[c] \in Outside <=> to \in Outside
  PROVE  Counted' = Counted
<1>1. \A d \in Clients : pc'[d] \in Outside <=> pc[d] \in Outside
  BY DEF ControlOK, Goto
<1> QED
  BY <1>1 DEF Counted, Outside

\* All steps but the increment and the decrement keep counter and set.
LEMMA OtherSteps ==
  ASSUME ControlOK, [ServerNext]_serverVars
  PROVE  \/ \E c \in Clients : IncrementClients(c)
         \/ \E c \in Clients : DecrementClients(c)
         \/ Counted' = Counted /\ numClients' = numClients
<1>1. ASSUME NEW c \in Clients,
             \/ LimitConnections(c) \/ CheckAuth(c) \/ ReadRequest(c)
             \/ Unmarshal(c) \/ ParseError(c) \/ Single(c) \/ Batch(c)
             \/ MarshalEntry(c) \/ BatchEntry(c) \/ WriteHeaders(c)
             \/ WriteReply(c)
      PROVE  Counted' = Counted /\ numClients' = numClients
  <2>1. ASSUME LimitConnections(c) PROVE Counted' = Counted
    BY <2>1, SameCounted DEF LimitConnections, Steps, Outside
  <2>2. ASSUME CheckAuth(c) PROVE Counted' = Counted
    BY <2>2, SameCounted DEF CheckAuth, Steps, Outside
  <2>3. ASSUME ReadRequest(c) PROVE Counted' = Counted
    BY <2>3, SameCounted DEF ReadRequest, Steps, Outside
  <2>4. ASSUME Unmarshal(c) PROVE Counted' = Counted
    BY <2>4, SameCounted DEF Unmarshal, Steps, Outside
  <2>5. ASSUME ParseError(c) PROVE Counted' = Counted
    BY <2>5, SameCounted DEF ParseError, Steps, Outside
  <2>6. ASSUME Single(c) PROVE Counted' = Counted
    BY <2>6, SameCounted DEF Single, Steps, Outside
  <2>7. ASSUME Batch(c) PROVE Counted' = Counted
    BY <2>7, SameCounted DEF Batch, Steps, Outside
  <2>8. ASSUME MarshalEntry(c) PROVE Counted' = Counted
    BY <2>8, SameCounted DEF MarshalEntry, Steps, Outside
  <2>9. ASSUME BatchEntry(c) PROVE Counted' = Counted
    BY <2>9, SameCounted DEF BatchEntry, Steps, Outside
  <2>10. ASSUME WriteHeaders(c) PROVE Counted' = Counted
    BY <2>10, SameCounted DEF WriteHeaders, Steps, Outside
  <2>11. ASSUME WriteReply(c) PROVE Counted' = Counted
    BY <2>11, SameCounted DEF WriteReply, Steps, Outside
  <2>12. numClients' = numClients
    BY <1>1 DEF LimitConnections, CheckAuth, ReadRequest, Unmarshal, ParseError,
                Single, Batch, MarshalEntry, BatchEntry, WriteHeaders,
                WriteReply
  <2> QED
    BY <1>1, <2>1, <2>2, <2>3, <2>4, <2>5, <2>6, <2>7, <2>8, <2>9, <2>10,
       <2>11, <2>12
<1>2. ASSUME NEW c \in Clients, CloseNotifier(c)
      PROVE  Counted' = Counted /\ numClients' = numClients
  BY <1>2 DEF CloseNotifier, Counted
<1>3. StopServer \/ UNCHANGED serverVars => Counted' = Counted /\ numClients' = numClients
  BY DEF StopServer, serverVars, Counted
<1> QED
  BY <1>1, <1>2, <1>3 DEF ServerNext, ServeHTTP

\* Every step keeps ClientCount.
LEMMA CountStep == ControlOK /\ ClientCount /\ [ServerNext]_serverVars => ClientCount'
<1> SUFFICES ASSUME ControlOK, ClientCount, [ServerNext]_serverVars PROVE ClientCount'
  OBVIOUS
<1>1. IsFiniteSet(Counted) /\ Cardinality(Counted) \in Nat
  BY ServerAssumption, FS_Subset, FS_CardinalityType DEF Counted
<1>2. ASSUME NEW c \in Clients, IncrementClients(c) PROVE ClientCount'
  <2>1. c \notin Counted /\ Counted' = Counted \cup {c}
    BY <1>2 DEF IncrementClients, Goto, Counted, ControlOK
  <2>2. Cardinality(Counted') = Cardinality(Counted) + 1
    BY <1>1, <2>1, FS_AddElement
  <2> QED
    BY <1>2, <2>2 DEF IncrementClients, ClientCount
<1>3. ASSUME NEW c \in Clients, DecrementClients(c) PROVE ClientCount'
  <2>1. c \in Counted /\ Counted' = Counted \ {c}
    BY <1>3 DEF DecrementClients, Goto, Counted, ControlOK
  <2>2. Cardinality(Counted') = Cardinality(Counted) - 1
    BY <1>1, <2>1, FS_RemoveElement
  <2> QED
    BY <1>3, <2>2 DEF DecrementClients, ClientCount
<1>4. CASE Counted' = Counted /\ numClients' = numClients
  BY <1>4 DEF ClientCount
<1> QED
  BY <1>2, <1>3, <1>4, OtherSteps

\* Nobody is served at first.
LEMMA CountInit == ServerInit => ClientCount
<1> SUFFICES ASSUME ServerInit PROVE ClientCount
  OBVIOUS
<1>1. Counted = {}
  BY DEF ServerInit, Counted
<1> QED
  BY <1>1, FS_EmptySet DEF ServerInit, ClientCount

\* The count is a natural number: it never becomes negative.
LEMMA CountNat == ClientCount => numClients \in Nat
BY ServerAssumption, FS_Subset, FS_CardinalityType DEF ClientCount, Counted

(***************************************************************************)
(* incrementClients and decrementClients: numClients is the number of      *)
(* connections being served, on every way through the handler of "/".      *)
(***************************************************************************)
THEOREM ClientCountCorrect == ServerSpec => [](ServerTypeOK /\ ClientCount)
<1>1. ServerInit => ControlOK /\ AnswerOK /\ ClientCount
  BY TypeInit, CountInit
<1>2. ControlOK /\ AnswerOK /\ ClientCount /\ [ServerNext]_serverVars
        => (ControlOK /\ AnswerOK /\ ClientCount)'
  BY ControlStep, AnswerStep, CountStep
<1>3. ControlOK /\ AnswerOK /\ ClientCount => ServerTypeOK /\ ClientCount
  BY CountNat DEF ControlOK, AnswerOK, ServerTypeOK
<1> QED
  BY <1>1, <1>2, <1>3, PTL DEF ServerSpec

-----------------------------------------------------------------------------
(* The replies.                                                            *)

\* The requests that are owed a reply.
Due(rq) == {k \in DOMAIN rq : rq[k].object /\ rq[k].version # ""}

\* After n of the requests rq: the replies rs are to some of these, in their
\* order and with none missing, and the requests ex were ran, each with
\* its result among the replies.
Good(rq, rs, ex, n) ==
  /\ \A i \in DOMAIN rs : rs[i][2] \in 1 .. n
  /\ \A i, j \in DOMAIN rs : i < j => rs[i][2] < rs[j][2]
  /\ \A k \in Due(rq) : k <= n /\ rq[k].id => \E i \in DOMAIN rs : rs[i][2] = k
  /\ ex \subseteq 1 .. n
  /\ \A k \in Due(rq) : k \in ex <=> \E i \in DOMAIN rs : rs[i] = <<"result", k>>

LEMMA DuePositions ==
  ASSUME NEW rq \in Seq(Request), NEW k \in Due(rq)
  PROVE  k \in Nat /\ k # 0 /\ k \in DOMAIN rq
<1>1. k \in DOMAIN rq
  BY DEF Due
<1>2. DOMAIN rq = 1 .. Len(rq) /\ Len(rq) \in Nat
  OBVIOUS
<1> QED
  BY <1>1, <1>2

\* Before the first request.
LEMMA GoodEmpty == ASSUME NEW rq \in Seq(Request) PROVE Good(rq, <<>>, {}, 0)
<1>1. \A k \in Due(rq) : k \in Nat /\ k # 0
  BY DuePositions
<1> QED
  BY <1>1 DEF Good

\* An entry that is skipped is owed nothing.
LEMMA GoodSkip ==
  ASSUME NEW rq \in Seq(Request), NEW rs \in Seq(Kinds \X Nat), NEW ex,
         NEW n \in Nat, n + 1 \notin Due(rq), Good(rq, rs, ex, n)
  PROVE  Good(rq, rs, ex, n + 1)
<1>1. \A k \in Due(rq) : k \in Nat /\ (k <= n + 1 => k <= n)
  BY DuePositions
<1>2. \A i \in DOMAIN rs : rs[i][2] \in 1 .. n + 1
  BY DEF Good
<1>3. ex \subseteq 1 .. n + 1
  BY DEF Good
<1> QED
  BY <1>1, <1>2, <1>3 DEF Good

\* processRequest is silent about notifications only.
LEMMA OutcomeKinds ==
  ASSUME NEW q, NEW admin \in BOOLEAN
  PROVE  /\ Outcome(q, admin) \in {"error", "ignore", "result"}
         /\ Outcome(q, admin) = "ignore" => ~q.id
BY DEF Outcome

\* A request that is processed.
LEMMA GoodProcess ==
  ASSUME NEW rq \in Seq(Request), NEW rs \in Seq(Kinds \X Nat), NEW ex,
         NEW n \in Nat, n + 1 \in DOMAIN rq, NEW admin \in BOOLEAN,
         Good(rq, rs, ex, n)
  PROVE  Good(rq, rs \o Reply(rq[n + 1], admin, n + 1),
              ex \cup Executes(rq[n + 1], admin, n + 1), n + 1)
<1> DEFINE q == rq[n + 1]
           r == Reply(q, admin, n + 1)
           e == Executes(q, admin, n + 1)
<1>1. q \in Request /\ n + 1 \in Nat
  OBVIOUS
<1>2. e \subseteq {n + 1}
  BY DEF Executes
<1>3. \A k \in Due(rq) : k <= n + 1 => k <= n \/ k = n + 1
  BY DuePositions
<1>4. n + 1 \in Due(rq) => q.version # ""
  BY DEF Due
<1>5. /\ \A i \in DOMAIN rs : rs[i][2] \in 1 .. n
      /\ \A i, j \in DOMAIN rs : i < j => rs[i][2] < rs[j][2]
      /\ \A k \in Due(rq) : k <= n /\ rq[k].id => \E i \in DOMAIN rs : rs[i][2] = k
      /\ ex \subseteq 1 .. n
      /\ \A k \in Due(rq) : k \in ex <=> \E i \in DOMAIN rs : rs[i] = <<"result", k>>
  BY DEF Good
<1>6. n + 1 \notin ex /\ \A i \in DOMAIN rs : rs[i] # <<"result", n + 1>> /\ rs[i][2] # n + 1
  <2>1. \A i \in DOMAIN rs : rs[i][2] # n + 1
    BY <1>5
  <2>2. n + 1 \notin ex
    BY <1>5
  <2>3. \A i \in DOMAIN rs : rs[i] # <<"result", n + 1>>
    BY <2>1
  <2> QED
    BY <2>1, <2>2, <2>3
<1>7. ex \cup e \subseteq 1 .. n + 1
  <2> HIDE DEF e
  <2>1. \A k \in ex : k \in 1 .. n + 1
    BY <1>5
  <2>2. n + 1 \in 1 .. n + 1
    OBVIOUS
  <2> QED
    BY <1>2, <2>1, <2>2
<1>8. CASE r = <<>> /\ (q.version # "" => ~q.id /\ e = {})
  <2>1. rs \o r = rs
    BY <1>8, ConcatEmptySeq
  <2>2. \A i \in DOMAIN rs : rs[i][2] \in 1 .. n + 1
    BY <1>5
  <2>4. \A k \in Due(rq) : k <= n + 1 /\ rq[k].id => \E i \in DOMAIN rs : rs[i][2] = k
    <3> SUFFICES ASSUME NEW k \in Due(rq), k <= n + 1, rq[k].id
                 PROVE  \E i \in DOMAIN rs : rs[i][2] = k
      OBVIOUS
    <3>1. k # n + 1
      BY <1>8, <1>4
    <3> QED
      BY <1>3, <1>5, <3>1
  <2>5. \A k \in Due(rq) : k \in ex \cup e <=> \E i \in DOMAIN rs : rs[i] = <<"result", k>>
    <3> SUFFICES ASSUME NEW k \in Due(rq)
                 PROVE  k \in ex \cup e <=> \E i \in DOMAIN rs : rs[i] = <<"result", k>>
      OBVIOUS
    <3>1. CASE k = n + 1
      <4>1. e = {}
        BY <1>8, <1>4, <3>1
      <4> HIDE DEF e
      <4> QED
        BY <1>6, <3>1, <4>1
    <3>2. CASE k # n + 1
      <4> HIDE DEF e
      <4> QED
        BY <1>2, <1>5, <3>2
    <3> QED
      BY <3>1, <3>2
  <2> HIDE DEF q, r, e
  <2>6. Good(rq, rs, ex \cup e, n + 1)
    BY <1>5, <1>7, <2>2, <2>4, <2>5 DEF Good
  <2> QED
    BY <2>1, <2>6 DEF q, r, e
<1>9. CASE /\ r = << <<Outcome(q, admin), n + 1>> >>
           /\ <<Outcome(q, admin), n + 1>> \in Kinds \X Nat
           /\ e = IF Outcome(q, admin) = "result" THEN {n + 1} ELSE {}
  <2> DEFINE o == Outcome(q, admin)
             x == <<o, n + 1>>
             t == rs \o r
  <2>1. t = Append(rs, x)
    BY <1>9, AppendIsConcat
  <2>2. /\ DOMAIN t = 1 .. Len(rs) + 1 /\ DOMAIN rs = 1 .. Len(rs) /\ Len(rs) \in Nat
        /\ \A i \in DOMAIN rs : t[i] = rs[i]
        /\ t[Len(rs) + 1] = x
    BY <2>1
  <2>3. x[2] = n + 1 /\ (o = "result" <=> x = <<"result", n + 1>>)
    OBVIOUS
  <2> HIDE DEF x, t, o, q, r
  <2>4. \A i \in DOMAIN t : i \in DOMAIN rs \/ i = Len(rs) + 1
    BY <2>2
  <2>5. \A i \in DOMAIN t : t[i][2] \in 1 .. n + 1
    BY <1>5, <2>2, <2>3, <2>4
  <2>6. \A i, j \in DOMAIN t : i < j => t[i][2] < t[j][2]
    <3> SUFFICES ASSUME NEW i \in DOMAIN t, NEW j \in DOMAIN t, i < j
                 PROVE  t[i][2] < t[j][2]
      OBVIOUS
    <3>1. i \in DOMAIN rs
      BY <2>2
    <3>2. t[i][2] \in 1 .. n /\ t[i] = rs[i]
      BY <1>5, <2>2, <3>1
    <3>3. CASE j \in DOMAIN rs
      BY <1>5, <2>2, <3>1, <3>3
    <3>4. CASE j = Len(rs) + 1
      <4>1. t[j][2] = n + 1
        BY <2>2, <2>3, <3>4
      <4> QED
        BY <3>2, <4>1
    <3> QED
      BY <2>4, <3>3, <3>4
  <2>7. \A k \in Due(rq) : k <= n + 1 /\ rq[k].id => \E i \in DOMAIN t : t[i][2] = k
    <3> SUFFICES ASSUME NEW k \in Due(rq), k <= n + 1, rq[k].id
                 PROVE  \E i \in DOMAIN t : t[i][2] = k
      OBVIOUS
    <3>1. DOMAIN rs \subseteq DOMAIN t /\ Len(rs) + 1 \in DOMAIN t
      BY <2>2
    <3>2. CASE k <= n
      BY <1>5, <2>2, <3>1, <3>2
    <3>3. CASE k = n + 1
      BY <2>2, <2>3, <3>1, <3>3
    <3>4. k <= n \/ k = n + 1
      BY <1>3
    <3> QED
      BY <3>2, <3>3, <3>4
  <2>9. \A k \in Due(rq) : k \in ex \cup e <=> \E i \in DOMAIN t : t[i] = <<"result", k>>
    <3> SUFFICES ASSUME NEW k \in Due(rq)
                 PROVE  k \in ex \cup e <=> \E i \in DOMAIN t : t[i] = <<"result", k>>
      OBVIOUS
    <3>1. DOMAIN rs \subseteq DOMAIN t /\ Len(rs) + 1 \in DOMAIN t
      BY <2>2
    <3>2. (\E i \in DOMAIN t : t[i] = <<"result", k>>)
            <=> (\E i \in DOMAIN rs : rs[i] = <<"result", k>>) \/ x = <<"result", k>>
      BY <2>2, <2>4, <3>1
    <3>3. CASE k = n + 1
      <4>1. k \in ex \cup e <=> o = "result"
        BY <1>6, <1>9, <3>3 DEF o
      <4>2. (\E i \in DOMAIN rs : rs[i] = <<"result", k>>) = FALSE
        BY <1>6, <3>3
      <4> QED
        BY <2>3, <3>2, <3>3, <4>1, <4>2
    <3>4. CASE k # n + 1
      <4>1. k \in ex \cup e <=> k \in ex
        BY <1>2, <3>4
      <4>2. x # <<"result", k>>
        BY <3>4 DEF x
      <4> QED
        BY <1>5, <3>2, <4>1, <4>2
    <3> QED
      BY <3>3, <3>4
  <2> HIDE DEF e
  <2>10. Good(rq, t, ex \cup e, n + 1)
    BY <1>7, <2>5, <2>6, <2>7, <2>9 DEF Good
  <2> QED
    BY <2>10 DEF t, e, q, r
<1>10. \/ r = <<>> /\ (q.version # "" => ~q.id /\ e = {})
       \/ /\ r = << <<Outcome(q, admin), n + 1>> >>
          /\ <<Outcome(q, admin), n + 1>> \in Kinds \X Nat
          /\ e = IF Outcome(q, admin) = "result" THEN {n + 1} ELSE {}
  <2>1. CASE Outcome(q, admin) = "ignore" \/ q.version = ""
    <3>1. r = <<>>
      BY <2>1 DEF Reply
    <3>2. ASSUME q.version # "" PROVE ~q.id /\ e = {}
      BY <2>1, <3>2, OutcomeKinds DEF Executes
    <3> QED
      BY <3>1, <3>2
  <2>2. CASE ~(Outcome(q, admin) = "ignore" \/ q.version = "")
    <3>1. Outcome(q, admin) \in Kinds
      BY <2>2, OutcomeKinds DEF Kinds
    <3> QED
      BY <1>1, <2>2, <3>1 DEF Reply, Executes
  <2> QED
    BY <2>1, <2>2
<1> QED
  BY <1>8, <1>9, <1>10


\* Nothing has been answered yet.
Untouched(c) == results[c] = <<>> /\ ran[c] = {} /\ next[c] = 1

\* All there is to answer has been answered.
Complete(c) ==
  \/ /\ body[c].requests = <<>>
     /\ results[c] = << <<"empty batch", 0>> >> /\ ran[c] = {}
  \/ /\ body[c].requests # <<>>
     /\ Good(body[c].requests, results[c], ran[c], Len(body[c].requests))

Before == {"accepted", "increment", "auth", "begin"}

\* What a handler has done by the time it is where it is, if the body parses
\* and the close notifier has not interfered.
Undisturbed(c) ==
  /\ pc[c] \in {"parsed", "single", "batch"} => Untouched(c) /\ ~err[c]
  /\ pc[c] \in {"marshal", "entry"} =>
       /\ next[c] \in 1 .. Len(body[c].requests)
       /\ Good(body[c].requests, results[c], ran[c], next[c] - 1)
  /\ pc[c] = "entry" => ~err[c]
  /\ pc[c] \in {"headers", "write"} \/ status[c] = "200" => Complete(c)

Progress(c) ==
  /\ pc[c] \in Before \cup {"unmarshal"} => Untouched(c)
  /\ pc[c] \in Before => cpc[c] = "none"
  /\ status[c] = "200" => pc[c] \in {"leave", "done"}
  /\ pc[c] = "single" => ~body[c].batch
  /\ cpc[c] = "read" /\ body[c].parses => Undisturbed(c)

ServerInv ==
  /\ ControlOK
  /\ AnswerOK
  /\ \A c \in Clients : Progress(c)

LocalState(c) ==
  <<pc[c], body[c], err[c], cpc[c], next[c], results[c], status[c], ran[c]>>

\* What a handler has done depends on its own state alone.
LEMMA SameProgress ==
  ASSUME NEW d \in Clients, UNCHANGED LocalState(d), Progress(d)
  PROVE  Progress(d)'
BY DEF LocalState, Progress, Undisturbed, Untouched, Complete

LEMMA Elsewhere ==
  ASSUME ControlOK, AnswerOK, NEW c \in Clients, ServeHTTP(c) \/ CloseNotifier(c),
         NEW d \in Clients, d # c
  PROVE  UNCHANGED LocalState(d)
<1> USE DEF ControlOK, AnswerOK, Goto, LocalState
<1>1. CASE LimitConnections(c) \/ IncrementClients(c) \/ DecrementClients(c)
  BY <1>1 DEF LimitConnections, IncrementClients, DecrementClients
<1>2. CASE CheckAuth(c) \/ ReadRequest(c) \/ CloseNotifier(c)
  BY <1>2 DEF CheckAuth, ReadRequest, CloseNotifier
<1>3. CASE Unmarshal(c) \/ ParseError(c)
  BY <1>3 DEF Unmarshal, ParseError
<1>4. CASE Single(c)
  BY <1>4 DEF Single
<1>5. CASE Batch(c)
  BY <1>5 DEF Batch
<1>6. CASE MarshalEntry(c) \/ WriteHeaders(c) \/ WriteReply(c)
  BY <1>6 DEF MarshalEntry, WriteHeaders, WriteReply
<1>7. CASE BatchEntry(c)
  BY <1>7 DEF BatchEntry
<1> QED
  BY <1>1, <1>2, <1>3, <1>4, <1>5, <1>6, <1>7 DEF ServeHTTP

\* The requests of a body.
LEMMA Requests ==
  ASSUME ControlOK, NEW c \in Clients
  PROVE  /\ body[c].requests \in Seq(Request)
         /\ body[c].batch \in BOOLEAN /\ body[c].parses \in BOOLEAN
         /\ ~body[c].batch => Len(body[c].requests) = 1
<1>1. body[c] \in Body /\ (body[c].batch \/ Len(body[c].requests) = 1)
  BY ServerAssumption DEF ControlOK
<1> QED
  BY <1>1 DEF Body

\* On the way to the body, and behind the reply.
LEMMA OuterProgress ==
  ASSUME ServerInv, NEW c \in Clients,
         \/ LimitConnections(c) \/ IncrementClients(c) \/ CheckAuth(c)
         \/ DecrementClients(c) \/ ReadRequest(c) \/ CloseNotifier(c)
  PROVE  Progress(c)'
<1>1. Progress(c) /\ pc[c] \in Steps
  BY DEF ServerInv, ControlOK
<1>2. /\ UNCHANGED <<body, results, ran, next>>
      /\ UNCHANGED err \/ CloseNotifier(c)
  BY DEF LimitConnections, IncrementClients, CheckAuth, DecrementClients, ReadRequest,
         CloseNotifier
<1>3. CASE LimitConnections(c) \/ IncrementClients(c) \/ CheckAuth(c)
  BY <1>1, <1>2, <1>3
  DEF LimitConnections, IncrementClients, CheckAuth, Goto, Progress, Untouched, Before,
      ServerInv, ControlOK
<1>4. CASE DecrementClients(c)
  BY <1>1, <1>2, <1>4
  DEF DecrementClients, Goto, Progress, Undisturbed, Untouched, Complete, Before,
      ServerInv, ControlOK
<1>5. CASE ReadRequest(c)
  BY <1>1, <1>2, <1>5
  DEF ReadRequest, Goto, Progress, Undisturbed, Untouched, Complete, Before,
      ServerInv, ControlOK
<1>6. CASE CloseNotifier(c)
  BY <1>1, <1>2, <1>6
  DEF CloseNotifier, Progress, Untouched, Before, ServerInv, ControlOK
<1> QED
  BY <1>3, <1>4, <1>5, <1>6

\* A body that parses leaves no error behind.
LEMMA ParseProgress ==
  ASSUME ServerInv, NEW c \in Clients, Unmarshal(c) \/ ParseError(c)
  PROVE  Progress(c)'
<1>1. Progress(c)
  BY DEF ServerInv
<1>2. body[c].batch \in BOOLEAN /\ body[c].parses \in BOOLEAN
  BY Requests DEF ServerInv
<1>3. CASE Unmarshal(c)
  BY <1>1, <1>2, <1>3
  DEF Unmarshal, Goto, Progress, Undisturbed, Untouched, Before, ServerInv, ControlOK
<1>4. CASE ParseError(c)
  <2>1. /\ pc[c] = "parsed" /\ pc'[c] = IF body[c].batch THEN "batch" ELSE "single"
        /\ UNCHANGED <<body, cpc, next, status, ran>>
    BY <1>4 DEF ParseError, Goto, ServerInv, ControlOK
  <2>2. ASSUME cpc[c] = "read", body[c].parses
        PROVE  Untouched(c)' /\ ~err'[c]
    BY <1>1, <1>4, <2>1, <2>2 DEF ParseError, Progress, Undisturbed, Untouched
  <2>3. status[c] # "200"
    BY <1>1, <2>1 DEF Progress
  <2> QED
    BY <1>2, <2>1, <2>2, <2>3 DEF Progress, Undisturbed, Before
<1> QED
  BY <1>3, <1>4

LEMMA SingleProgress ==
  ASSUME ServerInv, NEW c \in Clients, Single(c)
  PROVE  Progress(c)'
<1> DEFINE rq == body[c].requests
           r == Reply(rq[1], IsAdmin(c), 1)
           e == Executes(rq[1], IsAdmin(c), 1)
<1>1. Progress(c) /\ pc[c] = "single"
  BY DEF ServerInv, Single
<1>2. rq \in Seq(Request) /\ ~body[c].batch /\ Len(rq) = 1
  BY <1>1, Requests DEF ServerInv, Progress
<1>3. UNCHANGED <<body, err, cpc, next>>
  BY DEF Single
<1>4. \/ pc'[c] = "leave" /\ status'[c] = "closed"
      \/ pc'[c] = "headers" /\ status'[c] = status[c]
  BY DEF Single, Goto, ServerInv, ControlOK
<1>5. status[c] # "200"
  BY <1>1 DEF Progress
<1>6. ASSUME cpc[c] = "read", body[c].parses, pc'[c] = "headers"
      PROVE  Complete(c)'
  <2>1. Untouched(c) /\ ~err[c]
    BY <1>1, <1>6 DEF Progress, Undisturbed
  <2>2. results'[c] = r /\ ran'[c] = e
    BY <1>6, <2>1 DEF Single, Goto, ServerInv, ControlOK, AnswerOK
  <2>3. Good(rq, <<>>, {}, 0)
    BY <1>2, GoodEmpty
  <2>4. IsAdmin(c) \in BOOLEAN /\ 0 + 1 = 1
    BY DEF IsAdmin
  <2>5. <<>> \in Seq(Kinds \X Nat) /\ 0 \in Nat /\ 0 + 1 \in DOMAIN rq
    BY <1>2
  <2>6. Good(rq, <<>> \o r, {} \cup e, 1)
    <3> HIDE DEF rq
    <3>1. Good(rq, <<>> \o Reply(rq[0 + 1], IsAdmin(c), 0 + 1),
               {} \cup Executes(rq[0 + 1], IsAdmin(c), 0 + 1), 0 + 1)
      BY <1>2, <2>3, <2>4, <2>5, GoodProcess
    <3> QED
      BY <2>4, <3>1
  <2>7. r \in Seq(Kinds \X Nat)
    BY <2>4, ReplyType
  <2>8. <<>> \o r = r /\ {} \cup e = e
    <3> HIDE DEF r, e
    <3> QED
      BY <2>7, ConcatEmptySeq
  <2>9. Good(rq, r, e, 1)
    BY <2>6, <2>8
  <2> HIDE DEF rq, r, e
  <2>10. rq # <<>>
    <3>1. Len(rq) # Len(<<>>)
      <4>1. Len(<<>>) = 0
        OBVIOUS
      <4>2. Len(rq) = 1
        BY <1>2
      <4>3. 1 # 0
        OBVIOUS
      <4> QED
        BY <4>1, <4>2, <4>3, Zenon
    <3> QED
      BY <3>1, Zenon
  <2>11. Good(rq, results'[c], ran'[c], Len(rq))
    BY <1>2, <2>2, <2>9
  <2> QED
    BY <1>3, <2>10, <2>11 DEF Complete, rq
<1> QED
  BY <1>3, <1>4, <1>5, <1>6 DEF Progress, Undisturbed, Before

LEMMA BatchProgress ==
  ASSUME ServerInv, NEW c \in Clients, Batch(c)
  PROVE  Progress(c)'
<1> DEFINE rq == body[c].requests
<1>1. Progress(c) /\ pc[c] = "batch"
  BY DEF ServerInv, Batch
<1>2. rq \in Seq(Request)
  BY Requests DEF ServerInv
<1>3. UNCHANGED <<body, cpc, next, status, ran>> /\ pc'[c] \in {"headers", "marshal"}
  BY DEF Batch, Goto, ServerInv, ControlOK
<1>4. status[c] # "200"
  BY <1>1 DEF Progress
<1>5. ASSUME cpc[c] = "read", body[c].parses
      PROVE  Undisturbed(c)'
  <2>1. Untouched(c) /\ ~err[c]
    BY <1>1, <1>5 DEF Progress, Undisturbed
  <2>2. CASE rq = <<>>
    <3> DEFINE x == <<"empty batch", 0>>
    <3>1. (IF body[c].parses THEN rq ELSE <<>>) = <<>>
      BY <1>5, <2>2
    <3>2. pc' = [pc EXCEPT ![c] = "headers"] /\ results' = [results EXCEPT ![c] = Append(@, x)]
      BY <2>1, <3>1 DEF Batch, Goto
    <3> HIDE DEF x
    <3>3. pc'[c] = "headers" /\ results'[c] = Append(<<>>, x)
      BY <2>1, <3>2 DEF ServerInv, ControlOK, AnswerOK, Untouched
    <3>4. results'[c] = <<x>>
      BY <3>3
    <3>5. Complete(c)'
      BY <1>3, <2>1, <2>2, <3>4 DEF Complete, Untouched, x
    <3> QED
      BY <3>3, <3>5 DEF Undisturbed
  <2>3. CASE rq # <<>>
    <3>1. pc'[c] = "marshal" /\ UNCHANGED results
      BY <1>5, <2>1, <2>3 DEF Batch, Goto, ServerInv, ControlOK
    <3>2. Len(rq) \in Nat /\ Len(rq) # 0
      BY <1>2, <2>3
    <3>3. Good(rq, results'[c], ran'[c], next'[c] - 1) /\ next'[c] \in 1 .. Len(rq)
      BY <1>2, <1>3, <2>1, <3>1, <3>2, GoodEmpty DEF Untouched
    <3> QED
      BY <1>3, <1>4, <3>1, <3>3 DEF Undisturbed
  <2> QED
    BY <2>2, <2>3
<1> QED
  BY <1>3, <1>4, <1>5 DEF Progress, Before

LEMMA EntryProgress ==
  ASSUME ServerInv, NEW c \in Clients, BatchEntry(c)
  PROVE  Progress(c)'
<1> DEFINE rq == body[c].requests
           n == next[c]
           q == rq[n]
           r == Reply(q, IsAdmin(c), n)
           e == Executes(q, IsAdmin(c), n)
<1>1. Progress(c) /\ pc[c] = "entry"
  BY DEF ServerInv, BatchEntry
<1>2. rq \in Seq(Request) /\ n \in Nat /\ results[c] \in Seq(Kinds \X Nat)
  BY Requests DEF ServerInv, AnswerOK
<1>3. UNCHANGED <<body, cpc>> /\ next'[c] = n + 1
  BY DEF BatchEntry, ServerInv, AnswerOK
<1>4. \/ pc'[c] = "leave" /\ status'[c] = "closed"
      \/ /\ pc'[c] = IF n = Len(rq) THEN "headers" ELSE "marshal"
         /\ status'[c] = status[c]
  BY DEF BatchEntry, Goto, ServerInv, ControlOK
<1>5. status[c] # "200"
  BY <1>1 DEF Progress
<1>6. ASSUME cpc[c] = "read", body[c].parses, pc'[c] # "leave"
      PROVE  Undisturbed(c)'
  <2>1. /\ n \in 1 .. Len(rq) /\ Good(rq, results[c], ran[c], n - 1)
        /\ ~err[c]
    BY <1>1, <1>6 DEF Progress, Undisturbed
  <2>2. n - 1 \in Nat /\ (n - 1) + 1 = n /\ n \in DOMAIN rq /\ IsAdmin(c) \in BOOLEAN
    BY <1>2, <2>1 DEF IsAdmin
  <2>3. Good(rq, results'[c], ran'[c], n)
    <3>1. CASE ~q.object
      <4>1. UNCHANGED <<results, ran>>
        BY <2>1, <3>1 DEF BatchEntry
      <4>2. n \notin Due(rq)
        BY <3>1 DEF Due
      <4> HIDE DEF rq, n, q
      <4>3. Good(rq, results[c], ran[c], (n - 1) + 1)
        BY <1>2, <2>1, <2>2, <4>2, GoodSkip
      <4> QED
        BY <2>2, <4>1, <4>3
    <3>2. CASE q.object
      <4>1. results'[c] = results[c] \o r /\ ran'[c] = ran[c] \cup e
        BY <1>6, <2>1, <3>2 DEF BatchEntry, Goto, ServerInv, ControlOK, AnswerOK
      <4>2. Good(rq, results[c] \o Reply(rq[(n - 1) + 1], IsAdmin(c), (n - 1) + 1),
                 ran[c] \cup Executes(rq[(n - 1) + 1], IsAdmin(c), (n - 1) + 1),
                 (n - 1) + 1)
        <5> HIDE DEF rq, n, q
        <5> QED
          BY <1>2, <2>1, <2>2, GoodProcess
      <4>3. Good(rq, results[c] \o r, ran[c] \cup e, n)
        BY <2>2, <4>2
      <4> QED
        BY <4>1, <4>3
    <3> QED
      BY <3>1, <3>2
  <2>4. (n + 1) - 1 = n /\ (n # Len(rq) => n + 1 \in 1 .. Len(rq)) /\ rq # <<>>
    BY <1>2, <2>1
  <2>5. CASE n = Len(rq)
    <3>1. Complete(c)'
      BY <1>3, <2>3, <2>4, <2>5 DEF Complete
    <3> QED
      BY <1>4, <1>6, <2>5, <3>1 DEF Undisturbed
  <2>6. CASE n # Len(rq)
    <3>1. Good(rq, results'[c], ran'[c], next'[c] - 1) /\ next'[c] \in 1 .. Len(rq)
      BY <1>3, <2>3, <2>4, <2>6
    <3> QED
      BY <1>3, <1>4, <1>5, <1>6, <2>6, <3>1 DEF Undisturbed
  <2> QED
    BY <2>5, <2>6
<1>7. ASSUME cpc[c] = "read", body[c].parses, pc'[c] = "leave"
      PROVE  Undisturbed(c)'
  BY <1>4, <1>7 DEF Undisturbed
<1> QED
  BY <1>3, <1>4, <1>5, <1>6, <1>7 DEF Progress, Before

\* The steps that change no answer.
LEMMA WriteProgress ==
  ASSUME ServerInv, NEW c \in Clients,
         MarshalEntry(c) \/ WriteHeaders(c) \/ WriteReply(c)
  PROVE  Progress(c)'
<1>1. Progress(c)
  BY DEF ServerInv
<1>2. UNCHANGED <<body, cpc, next, results, ran>>
  BY DEF MarshalEntry, WriteHeaders, WriteReply
<1>3. CASE MarshalEntry(c)
  BY <1>1, <1>2, <1>3
  DEF MarshalEntry, Goto, Progress, Undisturbed, Before, ServerInv, ControlOK
<1>4. CASE WriteHeaders(c)
  BY <1>1, <1>2, <1>4
  DEF WriteHeaders, Goto, Progress, Undisturbed, Complete, Before, ServerInv, ControlOK
<1>5. CASE WriteReply(c)
  BY <1>1, <1>2, <1>5
  DEF WriteReply, Goto, Progress, Undisturbed, Complete, Before, ServerInv, ControlOK
<1> QED
  BY <1>3, <1>4, <1>5

LEMMA ProgressStep == ServerInv /\ [ServerNext]_serverVars => ServerInv'
<1> SUFFICES ASSUME ServerInv, [ServerNext]_serverVars PROVE ServerInv'
  OBVIOUS
<1>1. ControlOK' /\ AnswerOK'
  BY ControlStep, AnswerStep DEF ServerInv
<1>2. ASSUME NEW d \in Clients PROVE Progress(d)'
  <2>1. ASSUME NEW c \in Clients, ServeHTTP(c) \/ CloseNotifier(c)
        PROVE  Progress(d)'
    <3>1. CASE d = c
      BY <2>1, <3>1, OuterProgress, ParseProgress, SingleProgress, BatchProgress,
         EntryProgress, WriteProgress DEF ServeHTTP
    <3>2. CASE d # c
      <4>1. UNCHANGED LocalState(d)
        BY <2>1, <3>2, Elsewhere DEF ServerInv
      <4> QED
        BY <4>1, SameProgress DEF ServerInv
    <3> QED
      BY <3>1, <3>2
  <2>2. CASE StopServer \/ UNCHANGED serverVars
    <3>1. UNCHANGED LocalState(d)
      BY <2>2 DEF StopServer, serverVars, LocalState
    <3> QED
      BY <3>1, SameProgress DEF ServerInv
  <2> QED
    BY <2>1, <2>2 DEF ServerNext
<1> QED
  BY <1>1, <1>2 DEF ServerInv

LEMMA ProgressInit == ServerInit => ServerInv
<1> SUFFICES ASSUME ServerInit PROVE ServerInv
  OBVIOUS
<1>1. ASSUME NEW c \in Clients PROVE Progress(c)
  BY DEF ServerInit, Progress, Untouched, Before
<1> QED
  BY <1>1, TypeInit DEF ServerInv

(***************************************************************************)
(* jsonRPCRead, for every body that parses, batches of any length and any  *)
(* number of connections, as long as the close notifier has not fired:     *)
(* every request with an id and a version has its reply, the replies are   *)
(* in the order of the requests, and the commands that ran are those whose *)
(* result is among the replies.                                            *)
(***************************************************************************)
THEOREM RequestsAnsweredCorrect == ServerSpec => []RequestsAnswered
<1>1. ServerInv => RequestsAnswered
  <2> SUFFICES ASSUME ServerInv, NEW c \in Clients, status[c] = "200",
                      cpc[c] = "read", body[c].parses
               PROVE  LET requests == body[c].requests
                          Owed == {k \in DOMAIN requests :
                                     requests[k].object /\ requests[k].version # ""}
                          Got(kinds) == {results[c][i][2] :
                                           i \in {j \in DOMAIN results[c] :
                                                    results[c][j][1] \in kinds}}
                      IN  /\ requests = <<>> => results[c] = << <<"empty batch", 0>> >>
                          /\ \A i, j \in DOMAIN results[c] :
                               i < j => results[c][i][2] < results[c][j][2]
                          /\ {k \in Owed : requests[k].id} \subseteq Got(Kinds)
                          /\ ran[c] \cap Owed = Got({"result"}) \cap Owed
    BY DEF RequestsAnswered
  <2> DEFINE rq == body[c].requests
             rs == results[c]
             Got(kinds) == {rs[i][2] : i \in {j \in DOMAIN rs : rs[j][1] \in kinds}}
  <2>1. rq \in Seq(Request) /\ rs \in Seq(Kinds \X Nat)
    BY Requests DEF ServerInv, AnswerOK
  <2>2. Complete(c)
    BY DEF ServerInv, Progress, Undisturbed
  <2>3. CASE rq = <<>>
    <3>1. rs = << <<"empty batch", 0>> >> /\ ran[c] = {}
      BY <2>2, <2>3 DEF Complete
    <3>2. Due(rq) = {}
      BY <2>3 DEF Due
    <3>3. \A i, j \in DOMAIN rs : ~(i < j)
      <4> DEFINE x == <<"empty batch", 0>>
      <4>1. rs = <<x>>
        BY <3>1
      <4> HIDE DEF x, rs
      <4>2. DOMAIN rs = 1 .. 1
        BY <4>1
      <4> QED
        BY <4>2
    <3> QED
      BY <3>1, <3>2, <3>3 DEF Due
  <2>4. CASE rq # <<>>
    <3>1. Good(rq, rs, ran[c], Len(rq))
      BY <2>2, <2>4 DEF Complete
    <3>2. \A i \in DOMAIN rs : rs[i] \in Kinds \X Nat
      BY <2>1
    <3>3. \A k \in Due(rq) : k <= Len(rq)
      <4>1. \A k \in Due(rq) : k \in DOMAIN rq
        BY <2>1, DuePositions
      <4>2. DOMAIN rq = 1 .. Len(rq)
        BY <2>1
      <4> QED
        BY <4>1, <4>2
    <3>4. {k \in Due(rq) : rq[k].id} \subseteq Got(Kinds)
      BY <3>1, <3>2, <3>3 DEF Good
    <3>5. \A k \in Due(rq) : k \in Got({"result"})
                               <=> \E i \in DOMAIN rs : rs[i] = <<"result", k>>
      BY <3>2
    <3>6. ran[c] \cap Due(rq) = Got({"result"}) \cap Due(rq)
      BY <3>1, <3>5 DEF Good
    <3>7. \A i, j \in DOMAIN rs : i < j => rs[i][2] < rs[j][2]
      BY <3>1 DEF Good
    <3> QED
      BY <2>4, <3>4, <3>6, <3>7 DEF Due
  <2> QED
    BY <2>3, <2>4
<1> QED
  BY <1>1, ProgressInit, ProgressStep, PTL DEF ServerSpec

=============================================================================
