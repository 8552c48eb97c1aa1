---------------------------- MODULE WsClientProofs ----------------------------
(***************************************************************************)
(* The notifications of one websocket client keep their order and their    *)
(* one token, and a single caller of QueueNotification finds room: for     *)
(* every buffer, every number of tokens and every set of requests.         *)
(***************************************************************************)
EXTENDS WsClient, FiniteSetTheorems, TLAPS

-----------------------------------------------------------------------------
(* The notifications in sendChan.                                          *)

\* A message of SendMessage: what it is, and its number.
Parcel == {"reply", "ntfn"} \X Nat

NtfnsIn(s) == {i \in 1..Len(s) : s[i][1] = "ntfn"}
NtfnCount(s) == Cardinality(NtfnsIn(s))

\* There are finitely many.
LEMMA CountType ==
  ASSUME NEW s \in Seq(Parcel)
  PROVE  IsFiniteSet(NtfnsIn(s)) /\ NtfnCount(s) \in Nat
<1>1. NtfnsIn(s) \subseteq 1..Len(s) /\ Len(s) \in Nat
  BY DEF NtfnsIn
<1>2. IsFiniteSet(1..Len(s))
  BY <1>1, FS_Interval
<1>3. IsFiniteSet(NtfnsIn(s))
  BY <1>1, <1>2, FS_Subset
<1> QED
  BY <1>3, FS_CardinalityType DEF NtfnCount

\* None in an empty channel, and none at all if none is counted.
LEMMA CountZero ==
  ASSUME NEW s \in Seq(Parcel)
  PROVE  NtfnCount(s) = 0 <=> \A i \in 1..Len(s) : s[i][1] = "reply"
<1>1. NtfnCount(s) = 0 <=> NtfnsIn(s) = {}
  BY CountType, FS_EmptySet DEF NtfnCount
<1>2. \A i \in 1..Len(s) : s[i] \in Parcel
  OBVIOUS
<1>3. \A i \in 1..Len(s) : s[i][1] = "reply" <=> s[i][1] # "ntfn"
  BY <1>2 DEF Parcel
<1> QED
  BY <1>1, <1>3 DEF NtfnsIn

\* A send adds the message at the end.
LEMMA CountAppend ==
  ASSUME NEW s \in Seq(Parcel), NEW m \in Parcel
  PROVE  NtfnCount(Append(s, m)) = NtfnCount(s) + IF m[1] = "ntfn" THEN 1 ELSE 0
<1> DEFINE n == Len(s) + 1
<1>1. /\ Len(s) \in Nat /\ Len(Append(s, m)) = n /\ Append(s, m)[n] = m
      /\ \A i \in 1..Len(s) : Append(s, m)[i] = s[i]
      /\ 1..n = (1..Len(s)) \cup {n} /\ n \notin 1..Len(s)
  OBVIOUS
<1> HIDE DEF n
<1>2. CASE m[1] = "ntfn"
  <2>1. NtfnsIn(Append(s, m)) = NtfnsIn(s) \cup {n}
    BY <1>1, <1>2 DEF NtfnsIn
  <2>2. n \notin NtfnsIn(s)
    BY <1>1 DEF NtfnsIn
  <2> QED
    BY <1>2, <2>1, <2>2, CountType, FS_AddElement DEF NtfnCount
<1>3. CASE m[1] # "ntfn"
  <2>1. NtfnsIn(Append(s, m)) = NtfnsIn(s)
    BY <1>1, <1>3 DEF NtfnsIn
  <2> QED
    BY <1>3, <2>1, CountType DEF NtfnCount
<1> QED
  BY <1>2, <1>3

\* A receive takes the first message.
LEMMA CountTail ==
  ASSUME NEW s \in Seq(Parcel), s # <<>>
  PROVE  /\ Tail(s) \in Seq(Parcel) /\ Head(s) \in Parcel
         /\ NtfnCount(s) = NtfnCount(Tail(s)) + IF Head(s)[1] = "ntfn" THEN 1 ELSE 0
<1>1. /\ Tail(s) \in Seq(Parcel) /\ Head(s) \in Parcel /\ Head(s) = s[1]
      /\ Len(s) \in Nat \ {0} /\ Len(Tail(s)) = Len(s) - 1
      /\ \A i \in 1..Len(Tail(s)) : Tail(s)[i] = s[i + 1]
  OBVIOUS
<1> DEFINE S == NtfnsIn(s) \ {1}
           T == NtfnsIn(Tail(s))
           f == [i \in T |-> i + 1]
<1>2. f \in Bijection(T, S)
  <2>1. \A i \in T : i + 1 \in S
    BY <1>1 DEF NtfnsIn
  <2>2. \A j \in S : j - 1 \in T /\ j = (j - 1) + 1
    BY <1>1 DEF NtfnsIn
  <2>3. \A i, j \in T : i + 1 = j + 1 => i = j
    BY DEF NtfnsIn
  <2> HIDE DEF S, T
  <2>4. f \in [T -> S] /\ (\A i, j \in T : f[i] = f[j] => i = j)
        /\ \A j \in S : \E i \in T : f[i] = j
    BY <2>1, <2>2, <2>3
  <2> QED
    BY <2>4 DEF Bijection, Injection, Surjection, IsInjective
<1>3. Cardinality(T) = Cardinality(S) /\ IsFiniteSet(S)
  <2>1. ExistsBijection(T, S)
    BY <1>2 DEF ExistsBijection
  <2> QED
    BY <1>1, <2>1, CountType, FS_Bijection
<1>4. CASE Head(s)[1] = "ntfn"
  <2>1. NtfnsIn(s) = S \cup {1} /\ 1 \notin S
    BY <1>1, <1>4 DEF NtfnsIn
  <2>2. Cardinality(S \cup {1}) = Cardinality(S) + 1
    BY <1>3, <2>1, FS_AddElement
  <2> QED
    BY <1>1, <1>3, <1>4, <2>1, <2>2 DEF NtfnCount
<1>5. CASE Head(s)[1] # "ntfn"
  <2>1. NtfnsIn(s) = S
    BY <1>1, <1>5 DEF NtfnsIn
  <2>2. NtfnCount(Tail(s)) \in Nat
    BY <1>1, CountType
  <2>3. NtfnCount(s) = NtfnCount(Tail(s))
    BY <1>3, <2>1 DEF NtfnCount
  <2> QED
    BY <1>1, <1>5, <2>2, <2>3
<1> QED
  BY <1>1, <1>4, <1>5

-----------------------------------------------------------------------------
(* The way of a notification.                                              *)

InQueue == IF qpc \in {"check", "send"} THEN 1 ELSE 0
InOut   == IF omsg # <<>> /\ omsg[1] = "ntfn" THEN 1 ELSE 0
InWrite == IF opc = "write" /\ omsg[1] = "ntfn" THEN 1 ELSE 0

\* Those on the way from the queue to the connection.
InFlight == NtfnCount(sendChan) + InQueue + InWrite

\* A token of serviceRequestSem knows its message.
TokenOK(token) == \E pc, ok : \E m \in Nat : token = [pc |-> pc, msg |-> m, ok |-> ok]

\* The types of what notifications pass through, and of what shares sendChan
\* with them.
PipeType ==
  /\ sendChan \in Seq(Parcel)
  /\ ntfnChan \in Seq(Nat) /\ Len(ntfnChan) <= 1
  /\ ntfnSent \in 0..1
  /\ waiting \in BOOLEAN
  /\ pending \in Seq(Nat)
  /\ qpc \in {"select", "check", "send", "drain", "done"}
  /\ qmsg \in Nat
  /\ queued \in Nat
  /\ written \in Seq(Nat)
  /\ imsg \in Nat
  /\ DOMAIN sem = Slots /\ \A i \in Slots : TokenOK(sem[i])
  /\ opc \in {"select", "write", "written", "quit", "drain", "done"}
  /\ opc \in {"write", "written", "quit"} => omsg \in Parcel
  /\ opc \notin {"write", "written", "quit"} => omsg = <<>>

\* One notification is outstanding, and only then are others pending.
TokenInv == OneOutstanding /\ (~waiting => pending = <<>>)

\* What was written is 1, 2, 3 and so on.
InOrder == \A i \in 1..Len(written) : written[i] = i

\* While the connection lives, the notification in flight is the next one to be
\* written, the pending ones follow it, and the one in ntfnChan is the last.
FlowInv ==
  ~disconnected /\ ~lost =>
    /\ opc \in {"select", "write", "written"}
    /\ qpc \in {"select", "check", "send"}
    /\ InQueue = 1 => qmsg = Len(written) + 1
    /\ \A i \in NtfnsIn(sendChan) : sendChan[i][2] = Len(written) + 1
    /\ InWrite = 1 => omsg[2] = Len(written) + 1
    /\ \A i \in 1..Len(pending) : pending[i] = Len(written) + InFlight + i
    /\ ntfnChan # <<>> => ntfnChan[1] = queued
    /\ Len(written) + InFlight + Len(pending) + Len(ntfnChan) = queued

NtfnInv == PipeType /\ TokenInv /\ InOrder /\ FlowInv

pipeVars == <<sendChan, ntfnChan, ntfnSent, waiting, pending, qpc, qmsg, queued,
              written, opc, omsg>>

\* A step that moves no message.
Still ==
  /\ UNCHANGED pipeVars
  /\ disconnected => disconnected'
  /\ lost => lost'

\* A reply joins the messages to be sent.
Replies ==
  /\ \E m \in Nat : sendChan' = Append(sendChan, <<"reply", m>>)
  /\ UNCHANGED <<ntfnChan, ntfnSent, waiting, pending, qpc, qmsg, queued, written,
                 opc, omsg, disconnected, lost>>

\* The steps that move a notification.
Moves ==
  \/ \E t \in Notifiers : NtfnSend(t)
  \/ Queue
  \/ Out
  \/ OutWrite

\* Every step is of one of these kinds: the input handler and the goroutines it
\* starts only add replies.
LEMMA StepKinds ==
  ASSUME PipeType, [Next]_vars
  PROVE  Still \/ Replies \/ Moves
<1> USE DEF pipeVars, Still
<1>1. CASE InTop
  BY <1>1 DEF InTop, ntfnVars, outVars
<1>2. ASSUME NEW q \in Singles, InRequest(q) PROVE Still
  BY <1>2 DEF InRequest, ntfnVars, outVars
<1>3. ASSUME NEW b \in Batches, InBatchRead(b) PROVE Still
  BY <1>3 DEF InBatchRead, ntfnVars, outVars
<1>4. CASE InReadError
  BY <1>4 DEF InReadError, ntfnVars, outVars
<1>5. ASSUME NEW i \in Slots, InService(i) \/ InAcquire(i) PROVE Still
  BY <1>5 DEF InService, InAcquire, ntfnVars, outVars
<1>6. CASE InBatch
  BY <1>6 DEF InBatch, ntfnVars, outVars
<1>7. CASE InCheck
  BY <1>7 DEF InCheck, InSent, ntfnVars, outVars
<1>8. CASE InSend
  BY <1>8 DEF InSend, InSent, ntfnVars, outVars, Replies, PipeType
<1>9. CASE InQuit
  BY <1>9 DEF InQuit, ntfnVars, outVars
<1>10. ASSUME NEW i \in Slots, SvcRun(i) PROVE Still
  BY <1>10 DEF SvcRun, ntfnVars, outVars
<1>11. ASSUME NEW i \in Slots, SvcSend(i) PROVE Replies
  <2>1. sem[i].msg \in Nat
    BY DEF PipeType, TokenOK
  <2> QED
    BY <1>11, <2>1 DEF SvcSend, ntfnVars, outVars, Replies
<1>12. ASSUME NEW t \in Notifiers, NtfnCheck(t) PROVE Still
  BY <1>12 DEF NtfnCheck, outVars
<1>13. CASE Disconnect \/ ConnLost
  BY <1>13 DEF Disconnect, ConnLost, ntfnVars, outVars
<1>14. CASE UNCHANGED vars
  BY <1>14 DEF vars, ntfnVars, outVars
<1> QED
  BY <1>1, <1>2, <1>3, <1>4, <1>5, <1>6, <1>7, <1>8, <1>9, <1>10, <1>11, <1>12,
     <1>13, <1>14
  DEF Next, In, Peer, Service, Moves

\* Every step keeps the tokens' messages.
LEMMA TokenStep ==
  ASSUME PipeType, [Next]_vars
  PROVE  imsg' \in Nat /\ DOMAIN sem' = Slots /\ \A i \in Slots : TokenOK(sem'[i])
<1> USE DEF PipeType
<1>1. CASE UNCHANGED <<imsg, sem>>
  BY <1>1
<1>2. ASSUME NEW q \in Singles, InRequest(q) PROVE imsg' \in Nat /\ UNCHANGED sem
  BY <1>2 DEF InRequest
<1>3. ASSUME NEW b \in Batches, InBatchRead(b) PROVE imsg' \in Nat /\ UNCHANGED sem
  BY <1>3 DEF InBatchRead
<1>4. ASSUME NEW i \in Slots, UNCHANGED imsg,
             NEW token, TokenOK(token), sem' = [sem EXCEPT ![i] = token]
      PROVE  DOMAIN sem' = Slots /\ \A j \in Slots : TokenOK(sem'[j])
  BY <1>4
<1>5. ASSUME NEW i \in Slots, InService(i)
      PROVE  DOMAIN sem' = Slots /\ \A j \in Slots : TokenOK(sem'[j])
  <2> DEFINE token == [pc |-> "run", msg |-> imsg, ok |-> Marshals(Head(icur))]
  <2>1. TokenOK(token)
    BY DEF TokenOK
  <2>2. sem' = [sem EXCEPT ![i] = token] /\ UNCHANGED imsg
    BY <1>5 DEF InService
  <2> QED
    BY <1>4, <2>1, <2>2
<1>6. ASSUME NEW i \in Slots, InAcquire(i)
      PROVE  DOMAIN sem' = Slots /\ \A j \in Slots : TokenOK(sem'[j])
  <2> DEFINE token == [pc |-> "batch", msg |-> imsg, ok |-> TRUE]
  <2>1. TokenOK(token)
    BY DEF TokenOK
  <2>2. sem' = [sem EXCEPT ![i] = token] /\ UNCHANGED imsg
    BY <1>6 DEF InAcquire
  <2> QED
    BY <1>4, <2>1, <2>2
<1>7. TokenOK(Free)
  BY DEF TokenOK, Free
<1>8. ASSUME NEW i \in Slots, SvcRun(i) \/ SvcSend(i)
      PROVE  DOMAIN sem' = Slots /\ \A j \in Slots : TokenOK(sem'[j])
  <2>1. PICK pc, ok : \E m \in Nat : sem[i] = [pc |-> pc, msg |-> m, ok |-> ok]
    BY DEF TokenOK
  <2>2. TokenOK([sem[i] EXCEPT !.pc = "send"])
    <3>1. PICK m \in Nat : sem[i] = [pc |-> pc, msg |-> m, ok |-> ok]
      BY <2>1
    <3>2. [sem[i] EXCEPT !.pc = "send"] = [pc |-> "send", msg |-> m, ok |-> ok]
      BY <3>1
    <3> QED
      BY <3>2 DEF TokenOK
  <2>3. \/ sem' = [sem EXCEPT ![i] = [sem[i] EXCEPT !.pc = "send"]]
        \/ sem' = [sem EXCEPT ![i] = Free]
    BY <1>8 DEF SvcRun, SvcSend
  <2>4. UNCHANGED imsg
    BY <1>8 DEF SvcRun, SvcSend, inVars
  <2> QED
    BY <1>4, <1>7, <2>2, <2>3, <2>4
<1>9. ASSUME InSent
      PROVE  /\ UNCHANGED imsg
             /\ DOMAIN sem' = Slots /\ \A j \in Slots : TokenOK(sem'[j])
  BY <1>7, <1>9 DEF InSent
<1>10. CASE Next
  BY <1>1, <1>2, <1>3, <1>5, <1>6, <1>8, <1>9, <1>10
  DEF Next, In, Peer, Service, Queue, Out, InTop, InReadError, InService, InAcquire,
      InBatch, InCheck, InSend, InQuit, SvcRun, SvcSend, NtfnCheck, NtfnSend,
      QueueNtfn, QueueNext, QueueQuit, QueueCheck, QueueSend, QueueDrain,
      OutSelect, OutWritten, OutQuit, OutDrain, OutWrite, Disconnect, ConnLost, inVars
<1> QED
  BY <1>1, <1>10 DEF vars, inVars

\* Outstanding and Unwritten, before and after a step, as sums over the places.
LEMMA Sums ==
  /\ Outstanding = NtfnCount(sendChan) + InOut + InQueue + ntfnSent
  /\ Outstanding' = NtfnCount(sendChan') + InOut' + InQueue' + ntfnSent'
  /\ Unwritten = Len(ntfnChan) + Len(pending) + InQueue + NtfnCount(sendChan) + InWrite
BY DEF Outstanding, Unwritten, NtfnCount, NtfnsIn, InOut, InQueue, InWrite

\* The places hold at most one notification between them.
LEMMA Places ==
  ASSUME PipeType, TokenInv
  PROVE  /\ NtfnCount(sendChan) \in Nat
         /\ InOut \in 0..1 /\ InQueue \in 0..1 /\ InWrite \in 0..1 /\ InWrite <= InOut
         /\ NtfnCount(sendChan) + InOut + InQueue + ntfnSent <= 1
         /\ ~waiting => /\ pending = <<>> /\ NtfnCount(sendChan) = 0 /\ InOut = 0
                        /\ InQueue = 0 /\ ntfnSent = 0
         /\ opc \in {"write", "written", "quit"} =>
              /\ omsg # <<>> /\ omsg[1] \in {"reply", "ntfn"} /\ omsg[2] \in Nat
              /\ InOut = IF omsg[1] = "ntfn" THEN 1 ELSE 0
         /\ opc \notin {"write", "written", "quit"} => InOut = 0
<1>1. NtfnCount(sendChan) \in Nat
  BY CountType DEF PipeType
<1>2. opc \in {"write", "written", "quit"} =>
        omsg # <<>> /\ omsg[1] \in {"reply", "ntfn"} /\ omsg[2] \in Nat
  BY DEF PipeType, Parcel
<1>3. opc \notin {"write", "written", "quit"} => InOut = 0
  BY DEF PipeType, InOut
<1>4. opc \in {"write", "written", "quit"} => InOut = IF omsg[1] = "ntfn" THEN 1 ELSE 0
  BY <1>2 DEF InOut
<1>5. InOut \in 0..1 /\ InQueue \in 0..1 /\ InWrite \in 0..1
  BY DEF InOut, InQueue, InWrite
<1>6. InWrite <= InOut
  BY <1>4, <1>5 DEF InWrite
<1>7. NtfnCount(sendChan) + InOut + InQueue + ntfnSent <= 1
  BY Sums DEF TokenInv, OneOutstanding
<1>8. ~waiting => NtfnCount(sendChan) + InOut + InQueue + ntfnSent = 0
  BY Sums DEF TokenInv, OneOutstanding
<1>9. ntfnSent \in 0..1
  BY DEF PipeType
<1>10. ~waiting => pending = <<>>
  BY DEF TokenInv
<1>11. ASSUME ~waiting
       PROVE  NtfnCount(sendChan) = 0 /\ InOut = 0 /\ InQueue = 0 /\ ntfnSent = 0
  <2>1. NtfnCount(sendChan) + InOut + InQueue + ntfnSent = 0
    BY <1>8, <1>11
  <2>2. InOut \in Nat /\ InQueue \in Nat /\ ntfnSent \in Nat
    BY <1>5, <1>9
  <2>3. \A a, b, c, d \in Nat : a + b + c + d = 0 => a = 0 /\ b = 0 /\ c = 0 /\ d = 0
    OBVIOUS
  <2> QED
    BY <1>1, <2>1, <2>2, <2>3
<1> QED
  BY <1>1, <1>2, <1>3, <1>4, <1>5, <1>6, <1>7, <1>10, <1>11

\* A step that moves no message.
LEMMA StillStep ==
  ASSUME NtfnInv, Still, [Next]_vars
  PROVE  NtfnInv'
<1> USE DEF Still, pipeVars
<1>1. PipeType'
  BY TokenStep DEF NtfnInv, PipeType
<1>2. TokenInv'
  BY DEF NtfnInv, TokenInv, OneOutstanding, Outstanding
<1>3. InOrder'
  BY DEF NtfnInv, InOrder
<1>4. NtfnCount(sendChan)' = NtfnCount(sendChan) /\ NtfnsIn(sendChan)' = NtfnsIn(sendChan)
  BY DEF NtfnCount, NtfnsIn
<1>5. InFlight' = InFlight /\ InQueue' = InQueue /\ InWrite' = InWrite
  BY <1>4 DEF InFlight, InQueue, InWrite
<1>6. FlowInv'
  BY <1>4, <1>5 DEF NtfnInv, FlowInv
<1> QED
  BY <1>1, <1>2, <1>3, <1>6 DEF NtfnInv

\* A reply in sendChan is no notification.
LEMMA RepliesStep ==
  ASSUME NtfnInv, Replies, [Next]_vars
  PROVE  NtfnInv'
<1> USE DEF NtfnInv
<1>1. PICK m \in Nat : sendChan' = Append(sendChan, <<"reply", m>>)
  BY DEF Replies
<1>2. <<"reply", m>> \in Parcel
  BY DEF Parcel
<1>3. sendChan \in Seq(Parcel) /\ sendChan' \in Seq(Parcel)
  BY <1>1, <1>2 DEF PipeType
<1>4. NtfnCount(sendChan') = NtfnCount(sendChan)
  BY <1>1, <1>2, <1>3, CountAppend, CountType
<1>5. PipeType'
  BY <1>3, TokenStep DEF PipeType, Replies
<1>6. TokenInv'
  BY <1>4, Sums DEF Replies, TokenInv, OneOutstanding, InOut, InQueue
<1>7. \A i \in NtfnsIn(sendChan') : i \in NtfnsIn(sendChan) /\ sendChan'[i] = sendChan[i]
  BY <1>1, <1>3 DEF NtfnsIn
<1>8. InOrder' /\ FlowInv'
  BY <1>4, <1>7 DEF Replies, InOrder, FlowInv, InFlight, InQueue, InWrite
<1> QED
  BY <1>5, <1>6, <1>8

\* A channel with room for one that is not empty holds one.
LEMMA OneElement ==
  ASSUME NEW s \in Seq(Nat), s # <<>>, Len(s) <= 1
  PROVE  Len(s) = 1 /\ s[1] \in Nat /\ Head(s) = s[1]
<1> DEFINE n == Len(s)
<1>1. n >= 1 /\ n <= 1 /\ n \in Nat
  OBVIOUS
<1> HIDE DEF n
<1>2. n = 1
  BY <1>1
<1>3. s[1] \in Nat
  OBVIOUS
<1> QED
  BY <1>2, <1>3 DEF n

\* Two lists, one behind the other.
LEMMA Joined ==
  ASSUME NEW s \in Seq(Nat), NEW t \in Seq(Nat)
  PROVE  /\ s \o t \in Seq(Nat) /\ Len(s \o t) = Len(s) + Len(t)
         /\ \A i \in 1 .. Len(s) + Len(t) :
              (s \o t)[i] = IF i <= Len(s) THEN s[i] ELSE t[i - Len(s)]
OBVIOUS

\* A list of one element behind another list.
LEMMA OneMore ==
  ASSUME NEW s \in Seq(Nat), NEW t \in Seq(Nat)
  PROVE  Len(t) = 1 =>
           /\ s \o t \in Seq(Nat) /\ Len(s \o t) = Len(s) + 1
           /\ (s \o t)[Len(s) + 1] = t[1]
           /\ \A i \in 1..Len(s) : (s \o t)[i] = s[i]
<1> DEFINE n == Len(s)
           k == Len(t)
           r == s \o t
<1>1. /\ n \in Nat /\ k \in Nat /\ r \in Seq(Nat) /\ Len(r) = n + k
      /\ \A i \in 1 .. n + k : r[i] = IF i <= n THEN s[i] ELSE t[i - n]
  BY Joined
<1> HIDE DEF n, k, r
<1>2. ASSUME k = 1
      PROVE  r[n + 1] = t[1] /\ Len(r) = n + 1 /\ \A i \in 1..n : r[i] = s[i]
  <2>1. n + 1 \in 1 .. n + k /\ ~(n + 1 <= n) /\ (n + 1) - n = 1
    BY <1>1, <1>2
  <2> QED
    BY <1>1, <1>2, <2>1
<1> QED
  BY <1>1, <1>2 DEF n, k, r

\* QueueNotification puts the newest notification into ntfnChan.
LEMMA NtfnSendStep ==
  ASSUME NtfnInv, NEW t \in Notifiers, NtfnSend(t), [Next]_vars
  PROVE  NtfnInv'
<1> USE DEF NtfnInv, NtfnSend, outVars
<1>1. queued + 1 \in Nat /\ Len(ntfnChan) = 0 /\ Len(<<queued + 1>>) = 1
      /\ <<queued + 1>> \in Seq(Nat)
  BY DEF PipeType
<1>2. PipeType'
  BY <1>1, TokenStep DEF PipeType
<1>3. TokenInv'
  BY DEF TokenInv, OneOutstanding, Outstanding
<1>4. InFlight' = InFlight /\ InQueue' = InQueue /\ InWrite' = InWrite
  BY DEF InFlight, InQueue, InWrite
<1>5. InFlight \in Nat /\ Len(written) \in Nat /\ Len(pending) \in Nat
  BY Places DEF InFlight, PipeType
<1>6. InOrder' /\ FlowInv'
  BY <1>1, <1>4, <1>5 DEF InOrder, FlowInv
<1> QED
  BY <1>2, <1>3, <1>6

\* The queue handler takes it: to be sent at once if nothing is outstanding, else
\* behind the pending ones.
LEMMA QueueNtfnStep ==
  ASSUME NtfnInv, QueueNtfn, [Next]_vars
  PROVE  NtfnInv'
<1> USE DEF NtfnInv
<1>1. /\ ntfnChan \in Seq(Nat) /\ ntfnChan # <<>>
      /\ Len(ntfnChan) = 1 /\ ntfnChan[1] \in Nat /\ Head(ntfnChan) = ntfnChan[1]
  <2>1. ntfnChan \in Seq(Nat) /\ Len(ntfnChan) <= 1
    BY DEF PipeType
  <2>2. ntfnChan # <<>>
    BY DEF QueueNtfn
  <2> QED
    BY <2>1, <2>2, OneElement
<1>2. /\ InQueue = 0 /\ InFlight \in Nat /\ Len(written) \in Nat /\ Len(pending) \in Nat
      /\ InFlight = NtfnCount(sendChan) + InWrite
      /\ NtfnCount(sendChan) \in Nat /\ InWrite \in 0..1
  BY Places DEF QueueNtfn, InQueue, InFlight, PipeType
<1>3. InOut' = InOut /\ InWrite' = InWrite /\ NtfnsIn(sendChan') = NtfnsIn(sendChan)
      /\ NtfnCount(sendChan') = NtfnCount(sendChan) /\ ntfnSent' = ntfnSent
  BY DEF QueueNtfn, outVars, InOut, InWrite
<1>4. CASE ~waiting
  <2>1. qmsg' = ntfnChan[1] /\ qpc' = "check" /\ pending' = <<>> /\ waiting' = TRUE
        /\ ntfnChan' = <<>> /\ pending = <<>>
    BY <1>1, <1>4, Places DEF QueueNtfn
  <2>2. InQueue' = 1 /\ NtfnCount(sendChan) = 0 /\ InOut = 0 /\ ntfnSent = 0 /\ InWrite = 0
    BY <1>4, <2>1, Places DEF InQueue
  <2>3. PipeType'
    BY <1>1, <2>1, TokenStep DEF PipeType, QueueNtfn, outVars
  <2>4. TokenInv'
    BY <1>3, <2>1, <2>2, Sums DEF TokenInv, OneOutstanding
  <2>5. InFlight' = 1 /\ InFlight = 0
    BY <1>3, <2>2, <1>2 DEF InFlight
  <2>6. InOrder' /\ FlowInv'
    BY <1>1, <1>2, <1>3, <2>1, <2>2, <2>5
    DEF InOrder, FlowInv, QueueNtfn, outVars
  <2> QED
    BY <2>3, <2>4, <2>6
<1>5. CASE waiting
  <2>1. /\ pending' = pending \o ntfnChan /\ waiting' = TRUE /\ ntfnChan' = <<>>
        /\ UNCHANGED <<qmsg, qpc>>
    BY <1>5 DEF QueueNtfn
  <2>2. /\ Len(pending') = Len(pending) + 1 /\ pending'[Len(pending) + 1] = ntfnChan[1]
        /\ \A i \in 1..Len(pending) : pending'[i] = pending[i]
        /\ pending' \in Seq(Nat)
    <3>1. pending \in Seq(Nat)
      BY DEF PipeType
    <3> QED
      BY <1>1, <2>1, <3>1, OneMore
  <2>3. PipeType'
    BY <2>1, <2>2, TokenStep DEF PipeType, QueueNtfn, outVars
  <2>4. InQueue' = InQueue /\ InFlight' = InFlight
    BY <1>3, <2>1 DEF InQueue, InFlight
  <2>5. TokenInv'
    BY <1>3, <1>5, <2>1, <2>4, Sums DEF TokenInv, OneOutstanding
  <2>6. ntfnChan' = <<>> /\ Len(ntfnChan') = 0 /\ UNCHANGED <<qmsg, qpc>>
    BY <2>1
  <2>7. UNCHANGED <<disconnected, lost, sendChan, queued, opc, omsg, written>>
    BY DEF QueueNtfn, outVars
  <2>8. InOrder'
    BY <2>7 DEF InOrder
  <2>9. FlowInv'
    <3> SUFFICES ASSUME ~disconnected, ~lost PROVE FlowInv'
      BY <2>7 DEF FlowInv
    <3>1. /\ Len(written) + InFlight + Len(pending) + 1 = queued /\ ntfnChan[1] = queued
          /\ \A i \in 1..Len(pending) : pending[i] = Len(written) + InFlight + i
      BY <1>1 DEF FlowInv
    <3>2. ASSUME NEW i \in 1..Len(pending')
          PROVE  pending'[i] = Len(written) + InFlight + i
      <4>1. i \in 1..Len(pending) \/ i = Len(pending) + 1
        BY <1>2, <2>2
      <4>2. ASSUME i = Len(pending) + 1 PROVE pending'[i] = Len(written) + InFlight + i
        <5>1. pending'[i] = queued
          BY <2>2, <3>1, <4>2
        <5>2. Len(written) + InFlight + i = queued
          BY <1>2, <3>1, <4>2
        <5> QED
          BY <5>1, <5>2
      <4> QED
        BY <2>2, <3>1, <4>1, <4>2
    <3> QED
      BY <1>2, <1>3, <2>2, <2>4, <2>6, <2>7, <3>1, <3>2 DEF FlowInv
  <2> QED
    BY <2>3, <2>5, <2>8, <2>9
<1> QED
  BY <1>4, <1>5 DEF PipeType

\* A token comes back: the next pending notification is to be sent.
LEMMA QueueNextStep ==
  ASSUME NtfnInv, QueueNext, [Next]_vars
  PROVE  NtfnInv'
<1> USE DEF NtfnInv
<1>1. /\ ntfnSent = 1 /\ ntfnSent' = 0 /\ NtfnCount(sendChan) = 0 /\ InOut = 0
      /\ InQueue = 0 /\ InWrite = 0
  BY Places DEF QueueNext, PipeType
<1>2. InOut' = InOut /\ InWrite' = InWrite /\ NtfnsIn(sendChan') = NtfnsIn(sendChan)
      /\ NtfnCount(sendChan') = NtfnCount(sendChan) /\ InFlight = 0
  BY <1>1 DEF QueueNext, outVars, InOut, InWrite, InFlight
<1>3. Len(written) \in Nat /\ Len(pending) \in Nat
  BY DEF PipeType
<1>4. CASE pending = <<>>
  <2>1. InQueue' = InQueue /\ InFlight' = InFlight
    BY <1>2, <1>4 DEF QueueNext, InQueue, InFlight
  <2>2. PipeType'
    <3>1. /\ waiting' = FALSE
          /\ UNCHANGED <<qmsg, qpc, pending, sendChan, ntfnChan, queued, opc, omsg, written>>
      BY <1>4 DEF QueueNext, outVars
    <3>2. ntfnSent' \in 0..1
      BY <1>1
    <3>3. UNCHANGED <<qmsg, qpc, pending, sendChan, ntfnChan, queued, opc, omsg, written>>
      BY <3>1
    <3>4. waiting' \in BOOLEAN
      BY <3>1
    <3> QED
      BY <3>2, <3>3, <3>4, TokenStep DEF PipeType
  <2>3. TokenInv'
    BY <1>1, <1>2, <1>4, <2>1, Sums DEF TokenInv, OneOutstanding, QueueNext
  <2>4. InOrder' /\ FlowInv'
    BY <1>2, <1>4, <2>1 DEF InOrder, FlowInv, QueueNext, outVars
  <2> QED
    BY <2>2, <2>3, <2>4
<1>5. CASE pending # <<>>
  <2>1. /\ qmsg' = Head(pending) /\ pending' = Tail(pending) /\ qpc' = "check"
        /\ UNCHANGED waiting
    BY <1>5 DEF QueueNext
  <2>2. /\ qmsg' = pending[1] /\ pending[1] \in Nat /\ pending' \in Seq(Nat)
        /\ Len(pending') = Len(pending) - 1 /\ Len(pending) >= 1
        /\ \A i \in 1..Len(pending') : pending'[i] = pending[i + 1]
    BY <1>5, <2>1 DEF PipeType
  <2>3. PipeType'
    BY <1>1, <2>1, <2>2, TokenStep DEF PipeType, QueueNext, outVars
  <2>4. InQueue' = 1 /\ InFlight' = 1
    BY <1>1, <1>2, <2>1 DEF InQueue, InFlight
  <2>5. waiting
    BY <1>5, Places
  <2>6. TokenInv'
    BY <1>1, <1>2, <2>1, <2>4, <2>5, Sums DEF TokenInv, OneOutstanding
  <2>7. InOrder' /\ FlowInv'
    BY <1>1, <1>2, <1>3, <2>1, <2>2, <2>4 DEF InOrder, FlowInv, QueueNext, outVars
  <2> QED
    BY <2>3, <2>6, <2>7
<1> QED
  BY <1>4, <1>5

\* quit, and the draining of the queue handler's channels, happen on a dead
\* connection only.
LEMMA QueueEndStep ==
  ASSUME NtfnInv, QueueQuit \/ QueueDrain, [Next]_vars
  PROVE  NtfnInv'
<1> USE DEF NtfnInv
<1>1. /\ UNCHANGED <<disconnected, lost, sendChan, qmsg, waiting, pending, queued, opc,
                    omsg, written>>
      /\ qpc \notin {"check", "send"} /\ qpc' \in {"drain", "done"}
      /\ ntfnChan' = ntfnChan \/ ntfnChan' = <<>>
  BY DEF QueueQuit, QueueDrain, outVars
<1>2. ntfnSent' \in 0..1 /\ ntfnSent' <= ntfnSent
  BY DEF QueueQuit, QueueDrain, PipeType
<1>3. ntfnChan' \in Seq(Nat) /\ Len(ntfnChan') <= 1
  <2>1. ntfnChan \in Seq(Nat) /\ Len(ntfnChan) <= 1 /\ <<>> \in Seq(Nat) /\ Len(<<>>) <= 1
    BY DEF PipeType
  <2> QED
    BY <1>1, <2>1
<1>4. PipeType'
  BY <1>1, <1>2, <1>3, TokenStep DEF PipeType
<1>5. InQueue' = 0 /\ InQueue = 0 /\ InOut' = InOut /\ NtfnCount(sendChan') = NtfnCount(sendChan)
  BY <1>1 DEF InQueue, InOut
<1>6. NtfnCount(sendChan) \in Nat /\ InOut \in 0..1 /\ ntfnSent \in 0..1
  BY Places DEF PipeType
<1>7. Outstanding' <= Outstanding /\ Outstanding' >= 0
  BY <1>2, <1>5, <1>6, Sums
<1>8. Outstanding' \in Nat /\ Outstanding \in Nat
  BY <1>2, <1>5, <1>6, Sums
<1>9. TokenInv'
  BY <1>1, <1>7, <1>8 DEF TokenInv, OneOutstanding
<1>10. disconnected \/ lost
  BY <1>1 DEF FlowInv, QueueQuit, QueueDrain
<1>11. InOrder' /\ FlowInv'
  BY <1>1, <1>10 DEF InOrder, FlowInv
<1> QED
  BY <1>4, <1>9, <1>11

\* SendMessage on a dead connection gives the token back; on a live one it goes on.
LEMMA QueueCheckStep ==
  ASSUME NtfnInv, QueueCheck, [Next]_vars
  PROVE  NtfnInv'
<1> USE DEF NtfnInv
<1>1. /\ UNCHANGED <<disconnected, lost, sendChan, ntfnChan, waiting, pending, queued, opc,
                    omsg, written>>
      /\ qpc = "check"
  BY DEF QueueCheck, outVars
<1>2. InQueue = 1 /\ InOut' = InOut /\ InWrite' = InWrite
      /\ NtfnCount(sendChan') = NtfnCount(sendChan)
      /\ NtfnsIn(sendChan') = NtfnsIn(sendChan)
  BY <1>1 DEF InQueue, InOut, InWrite
<1>3. ntfnSent = 0 /\ NtfnCount(sendChan) = 0 /\ InOut = 0 /\ InWrite = 0 /\ waiting
  BY <1>2, Places DEF PipeType
<1>4. CASE disconnected
  <2>1. ntfnSent' = 1 /\ qpc' = "select" /\ qmsg' = 0
    BY <1>3, <1>4 DEF QueueCheck
  <2>2. PipeType'
    BY <1>1, <2>1, TokenStep DEF PipeType
  <2>3. InQueue' = 0
    BY <2>1 DEF InQueue
  <2>4. TokenInv'
    BY <1>1, <1>2, <1>3, <2>1, <2>3, Sums DEF TokenInv, OneOutstanding
  <2>5. InOrder' /\ FlowInv'
    BY <1>1, <1>4 DEF InOrder, FlowInv
  <2> QED
    BY <2>2, <2>4, <2>5
<1>5. CASE ~disconnected
  <2>1. qpc' = "send" /\ UNCHANGED <<ntfnSent, qmsg>>
    BY <1>5 DEF QueueCheck
  <2>2. PipeType'
    BY <1>1, <2>1, TokenStep DEF PipeType
  <2>3. InQueue' = 1 /\ InFlight' = InFlight
    BY <1>2, <2>1 DEF InQueue, InFlight
  <2>4. TokenInv'
    BY <1>1, <1>2, <1>3, <2>1, <2>3, Sums DEF TokenInv, OneOutstanding
  <2>5. InOrder' /\ FlowInv'
    BY <1>1, <1>2, <2>1, <2>3 DEF InOrder, FlowInv
  <2> QED
    BY <2>2, <2>4, <2>5
<1> QED
  BY <1>4, <1>5

\* SendMessage passes the notification on to sendChan.
LEMMA QueueSendStep ==
  ASSUME NtfnInv, QueueSend, [Next]_vars
  PROVE  NtfnInv'
<1> USE DEF NtfnInv
<1> DEFINE m == <<"ntfn", qmsg>>
<1>1. /\ UNCHANGED <<disconnected, lost, ntfnChan, ntfnSent, waiting, pending, queued, opc,
                    omsg, written>>
      /\ sendChan' = Append(sendChan, m) /\ qpc = "send" /\ qpc' = "select" /\ qmsg' = 0
  BY DEF QueueSend, outVars
<1>2. sendChan \in Seq(Parcel) /\ m \in Parcel /\ m[1] = "ntfn" /\ m[2] = qmsg
  BY DEF PipeType, Parcel
<1>3. InQueue = 1 /\ InQueue' = 0 /\ InOut' = InOut /\ InWrite' = InWrite
  BY <1>1 DEF InQueue, InOut, InWrite
<1>4. ntfnSent = 0 /\ NtfnCount(sendChan) = 0 /\ InOut = 0 /\ InWrite = 0 /\ waiting
  BY <1>3, Places DEF PipeType
<1>5. NtfnCount(sendChan') = 1 /\ sendChan' \in Seq(Parcel)
  BY <1>1, <1>2, <1>4, CountAppend
<1>6. PipeType'
  BY <1>1, <1>5, TokenStep DEF PipeType
<1>7. TokenInv'
  BY <1>1, <1>3, <1>4, <1>5, Sums DEF TokenInv, OneOutstanding
<1>8. InFlight' = InFlight
  BY <1>3, <1>4, <1>5 DEF InFlight
<1>9. \A i \in 1..Len(sendChan) : sendChan[i][1] = "reply"
  BY <1>2, <1>4, CountZero
<1>10. \A i \in NtfnsIn(sendChan') : sendChan'[i] = m
  BY <1>1, <1>2, <1>9 DEF NtfnsIn
<1>11. \A i \in NtfnsIn(sendChan') : sendChan'[i][2] = qmsg
  BY <1>2, <1>10
<1>12. /\ UNCHANGED <<disconnected, lost, ntfnChan, pending, queued, opc, omsg, written>>
       /\ qpc' = "select"
  BY <1>1
<1>13. InOrder'
  BY <1>12 DEF InOrder
<1>14. FlowInv'
  <2> SUFFICES ASSUME ~disconnected, ~lost PROVE FlowInv'
    BY <1>12 DEF FlowInv
  <2>1. qmsg = Len(written) + 1
    BY <1>3 DEF FlowInv
  <2>2. \A i \in NtfnsIn(sendChan') : sendChan'[i][2] = Len(written) + 1
    BY <1>11, <2>1
  <2> QED
    BY <1>3, <1>4, <1>8, <1>12, <2>2 DEF FlowInv
<1> QED
  BY <1>6, <1>7, <1>13, <1>14

\* outHandler takes a message out of sendChan, or leaves.
LEMMA OutSelectStep ==
  ASSUME NtfnInv, OutSelect, [Next]_vars
  PROVE  NtfnInv'
<1> USE DEF NtfnInv
<1>1. /\ UNCHANGED <<disconnected, lost, ntfnChan, ntfnSent, waiting, pending, queued, qpc,
                    qmsg, written>>
      /\ opc = "select"
  BY DEF OutSelect, ntfnVars
<1>2. InQueue' = InQueue /\ InOut = 0 /\ InWrite = 0
  BY <1>1, Places DEF InQueue, InWrite
<1>3. CASE sendChan # <<>> /\ omsg' = Head(sendChan) /\ sendChan' = Tail(sendChan)
           /\ opc' = "write"
  <2> DEFINE k == IF Head(sendChan)[1] = "ntfn" THEN 1 ELSE 0
  <2>1. /\ sendChan \in Seq(Parcel) /\ sendChan' \in Seq(Parcel) /\ omsg' \in Parcel
        /\ NtfnCount(sendChan) = NtfnCount(sendChan') + k
    <3>1. sendChan \in Seq(Parcel)
      BY DEF PipeType
    <3> QED
      BY <1>3, <3>1, CountTail
  <2>2. NtfnCount(sendChan') \in Nat /\ k \in 0..1
    BY <2>1, CountType
  <2>3. InOut' = k /\ InWrite' = k
    <3>1. omsg' # <<>> /\ omsg'[1] = Head(sendChan)[1]
      BY <1>3, <2>1 DEF Parcel
    <3> QED
      BY <1>3, <3>1 DEF InOut, InWrite
  <2>4. PipeType'
    BY <1>1, <1>3, <2>1, TokenStep DEF PipeType
  <2>5. Outstanding' = Outstanding
    BY <1>1, <1>2, <2>1, <2>2, <2>3, Places, Sums DEF PipeType
  <2>6. TokenInv'
    BY <1>1, <2>5 DEF TokenInv, OneOutstanding
  <2>7. InFlight' = InFlight
    BY <1>2, <2>1, <2>2, <2>3, Places DEF InFlight
  <2>8. /\ k = 1 => 1 \in NtfnsIn(sendChan) /\ omsg' = sendChan[1]
        /\ \A i \in NtfnsIn(sendChan') :
             i + 1 \in NtfnsIn(sendChan) /\ sendChan'[i] = sendChan[i + 1]
    BY <1>3, <2>1 DEF NtfnsIn
  <2>9. /\ UNCHANGED <<disconnected, lost, ntfnChan, pending, queued, qpc, qmsg, written>>
        /\ opc' = "write"
    BY <1>1, <1>3
  <2> HIDE DEF k
  <2>10. InOrder'
    BY <2>9 DEF InOrder
  <2>11. FlowInv'
    <3> SUFFICES ASSUME ~disconnected, ~lost PROVE FlowInv'
      BY <2>9 DEF FlowInv
    <3>1. \A i \in NtfnsIn(sendChan) : sendChan[i][2] = Len(written) + 1
      BY DEF FlowInv
    <3>2. /\ k = 1 => omsg'[2] = Len(written) + 1
          /\ \A i \in NtfnsIn(sendChan') : sendChan'[i][2] = Len(written) + 1
      BY <2>8, <3>1
    <3> QED
      BY <1>2, <2>3, <2>7, <2>9, <3>2 DEF FlowInv
  <2> QED
    BY <2>4, <2>6, <2>10, <2>11
<1>4. CASE disconnected /\ opc' = "drain" /\ UNCHANGED <<omsg, sendChan>>
  <2>1. PipeType'
    BY <1>1, <1>4, TokenStep DEF PipeType
  <2>2. InOut' = InOut
    BY <1>4 DEF InOut
  <2>3. TokenInv'
    BY <1>1, <1>2, <1>4, <2>2, Sums DEF TokenInv, OneOutstanding
  <2>4. InOrder' /\ FlowInv'
    BY <1>1, <1>4 DEF InOrder, FlowInv
  <2> QED
    BY <2>1, <2>3, <2>4
<1> QED
  BY <1>3, <1>4 DEF OutSelect

\* outHandler writes the message, or fails to.
LEMMA OutWriteStep ==
  ASSUME NtfnInv, OutWrite, [Next]_vars
  PROVE  NtfnInv'
<1> USE DEF NtfnInv
<1>1. /\ UNCHANGED <<disconnected, lost, sendChan, ntfnChan, ntfnSent, waiting, pending,
                    queued, qpc, qmsg, omsg>>
      /\ opc = "write" /\ opc' \in {"written", "quit"}
      /\ \/ ~disconnected /\ ~lost /\ opc' = "written"
            /\ written' = IF omsg[1] = "ntfn" THEN Append(written, omsg[2]) ELSE written
         \/ (disconnected \/ lost) /\ written' = written
  BY DEF OutWrite, ntfnVars
<1>2. InQueue' = InQueue /\ InOut' = InOut /\ InWrite' = 0 /\ InWrite = InOut
      /\ NtfnCount(sendChan') = NtfnCount(sendChan)
  BY <1>1, Places DEF InQueue, InOut, InWrite
<1>3. Len(written) \in Nat /\ omsg \in Parcel /\ omsg[2] \in Nat /\ written \in Seq(Nat)
  BY <1>1, Places DEF PipeType
<1>4. written' \in Seq(Nat)
  <2>1. written' = written \/ written' = Append(written, omsg[2])
    BY <1>1
  <2>2. Append(written, omsg[2]) \in Seq(Nat)
    BY <1>3
  <2> QED
    BY <1>3, <2>1, <2>2
<1>5. PipeType'
  BY <1>1, <1>4, TokenStep DEF PipeType
<1>6. TokenInv'
  BY <1>1, <1>2, Sums DEF TokenInv, OneOutstanding
<1>7. CASE disconnected \/ lost
  BY <1>1, <1>5, <1>6, <1>7 DEF InOrder, FlowInv
<1>8. CASE ~disconnected /\ ~lost /\ omsg[1] # "ntfn"
  <2>1. written' = written /\ InWrite = 0 /\ opc' = "written"
    BY <1>1, <1>8 DEF InWrite
  <2>2. InFlight' = InFlight
    BY <1>2, <2>1 DEF InFlight
  <2>3. InOrder'
    BY <2>1 DEF InOrder
  <2>4. FlowInv'
    BY <1>1, <1>2, <2>1, <2>2 DEF FlowInv
  <2> QED
    BY <1>5, <1>6, <2>3, <2>4
<1>9. CASE ~disconnected /\ ~lost /\ omsg[1] = "ntfn"
  <2>1. written' = Append(written, omsg[2]) /\ InWrite = 1 /\ opc' = "written"
    BY <1>1, <1>9 DEF InWrite
  <2>2. NtfnCount(sendChan) = 0 /\ InQueue = 0 /\ ntfnSent = 0
    BY <1>2, <2>1, Places DEF PipeType
  <2>3. InFlight = 1 /\ InFlight' = 0
    BY <1>2, <2>1, <2>2 DEF InFlight
  <2>4. NtfnsIn(sendChan') = {}
    <3>1. IsFiniteSet(NtfnsIn(sendChan))
      BY CountType DEF PipeType
    <3>2. NtfnsIn(sendChan) = {}
      BY <2>2, <3>1, FS_EmptySet DEF NtfnCount
    <3> QED
      BY <1>1, <3>2
  <2>5. omsg[2] = Len(written) + 1
    BY <1>9, <2>1 DEF FlowInv
  <2>6. /\ Len(written') = Len(written) + 1 /\ written'[Len(written) + 1] = Len(written) + 1
        /\ \A i \in 1..Len(written) : written'[i] = written[i]
    BY <1>3, <2>1, <2>5
  <2>7. InOrder'
    BY <1>3, <2>6 DEF InOrder
  <2>8. opc' = "written" /\ InQueue' = 0 /\ InWrite' = 0
    BY <1>2, <2>1, <2>2
  <2>9. FlowInv'
    BY <1>1, <1>3, <1>9, <2>3, <2>4, <2>6, <2>8 DEF FlowInv, PipeType
  <2> QED
    BY <1>5, <1>6, <2>7, <2>9
<1> QED
  BY <1>7, <1>8, <1>9

\* A written notification gives its token back.
LEMMA OutWrittenStep ==
  ASSUME NtfnInv, OutWritten, [Next]_vars
  PROVE  NtfnInv'
<1> USE DEF NtfnInv
<1>1. /\ UNCHANGED <<disconnected, lost, sendChan, ntfnChan, waiting, pending, queued, qpc,
                    qmsg, written>>
      /\ opc = "written" /\ opc' = "select" /\ omsg' = <<>>
  BY DEF OutWritten
<1>2. /\ InQueue' = InQueue /\ InOut' = 0 /\ InWrite' = 0 /\ InWrite = 0
      /\ NtfnCount(sendChan') = NtfnCount(sendChan) /\ NtfnsIn(sendChan') = NtfnsIn(sendChan)
  BY <1>1 DEF InQueue, InOut, InWrite
<1>3. ntfnSent' = ntfnSent + InOut /\ ntfnSent' \in 0..1
  <2>1. /\ InOut = IF omsg[1] = "ntfn" THEN 1 ELSE 0
        /\ ntfnSent \in 0..1
    BY <1>1, Places DEF PipeType
  <2>2. CASE omsg[1] = "ntfn" /\ ntfnSent < 1 /\ ntfnSent' = ntfnSent + 1
    BY <2>1, <2>2
  <2>3. CASE omsg[1] = "reply" /\ ntfnSent' = ntfnSent
    BY <2>1, <2>3
  <2> QED
    BY <2>2, <2>3 DEF OutWritten
<1>4. PipeType'
  BY <1>1, <1>3, TokenStep DEF PipeType
<1>5. Outstanding' = Outstanding
  <2>1. NtfnCount(sendChan) \in Nat /\ InOut \in Nat /\ InQueue \in Nat /\ ntfnSent \in Nat
    BY Places DEF PipeType
  <2>2. Outstanding' = NtfnCount(sendChan) + 0 + InQueue + (ntfnSent + InOut)
    BY <1>2, <1>3, Sums
  <2>3. \A a, b, c, d \in Nat : a + 0 + c + (d + b) = a + b + c + d
    OBVIOUS
  <2> QED
    BY <2>1, <2>2, <2>3, Sums
<1>6. TokenInv'
  BY <1>1, <1>5 DEF TokenInv, OneOutstanding
<1>7. InFlight' = InFlight
  BY <1>2 DEF InFlight
<1>8. InOrder' /\ FlowInv'
  BY <1>1, <1>2, <1>7 DEF InOrder, FlowInv
<1> QED
  BY <1>4, <1>6, <1>8

\* After a write error nothing more is written; the message in hand is dropped.
LEMMA OutQuitStep ==
  ASSUME NtfnInv, OutQuit, [Next]_vars
  PROVE  NtfnInv'
<1> USE DEF NtfnInv
<1>1. /\ UNCHANGED <<lost, sendChan, ntfnChan, ntfnSent, waiting, pending, queued, qpc,
                    qmsg, written>>
      /\ opc = "quit" /\ opc' = "drain" /\ omsg' = <<>> /\ disconnected'
  BY DEF OutQuit, ntfnVars
<1>2. InQueue' = InQueue /\ InOut' = 0 /\ NtfnCount(sendChan') = NtfnCount(sendChan)
  BY <1>1 DEF InQueue, InOut
<1>3. PipeType'
  BY <1>1, TokenStep DEF PipeType
<1>4. Outstanding' <= Outstanding /\ Outstanding' \in Nat /\ Outstanding \in Nat
  <2>1. NtfnCount(sendChan) \in Nat /\ InOut \in Nat /\ InQueue \in Nat /\ ntfnSent \in Nat
    BY Places DEF PipeType
  <2>2. Outstanding' = NtfnCount(sendChan) + 0 + InQueue + ntfnSent
    BY <1>1, <1>2, Sums
  <2>3. \A a, b, c, d \in Nat : /\ a + 0 + c + d \in Nat /\ a + b + c + d \in Nat
                               /\ a + 0 + c + d <= a + b + c + d
    OBVIOUS
  <2> QED
    BY <2>1, <2>2, <2>3, Sums
<1>5. TokenInv'
  BY <1>1, <1>4 DEF TokenInv, OneOutstanding
<1>6. InOrder' /\ FlowInv'
  BY <1>1 DEF InOrder, FlowInv
<1> QED
  BY <1>3, <1>5, <1>6

\* outHandler empties sendChan before it goes and returns the tokens.
LEMMA OutDrainStep ==
  ASSUME NtfnInv, OutDrain, [Next]_vars
  PROVE  NtfnInv'
<1> USE DEF NtfnInv
<1>1. /\ UNCHANGED <<disconnected, lost, ntfnChan, waiting, pending, queued, qpc, qmsg,
                    written, omsg>>
      /\ opc = "drain" /\ opc' \in {"drain", "done"}
  BY DEF OutDrain
<1>2. InQueue' = InQueue /\ InOut' = InOut
  BY <1>1 DEF InQueue, InOut
<1>3. disconnected \/ lost
  BY <1>1 DEF FlowInv
<1>4. InOrder' /\ FlowInv'
  BY <1>1, <1>3 DEF InOrder, FlowInv
<1>5. sendChan \in Seq(Parcel) /\ ntfnSent \in 0..1 /\ NtfnCount(sendChan) \in Nat
      /\ InQueue \in 0..1 /\ InOut \in 0..1
  BY Places DEF PipeType
<1>6. \E k \in 0..1 :
        /\ ntfnSent' = ntfnSent + k
        /\ NtfnCount(sendChan) = NtfnCount(sendChan') + k
  <2>1. CASE sendChan = <<>> /\ UNCHANGED <<sendChan, ntfnSent>>
    <3>1. ntfnSent' = ntfnSent + 0 /\ NtfnCount(sendChan) = NtfnCount(sendChan') + 0
      BY <1>5, <2>1
    <3> QED
      BY <3>1
  <2>2. CASE /\ sendChan # <<>> /\ sendChan' = Tail(sendChan)
             /\ \/ Head(sendChan)[1] = "ntfn" /\ ntfnSent < 1 /\ ntfnSent' = ntfnSent + 1
                \/ Head(sendChan)[1] = "reply" /\ ntfnSent' = ntfnSent
    <3> DEFINE k == IF Head(sendChan)[1] = "ntfn" THEN 1 ELSE 0
    <3>1. NtfnCount(sendChan) = NtfnCount(sendChan') + k /\ k \in 0..1
      BY <1>5, <2>2, CountTail
    <3>2. ntfnSent' = ntfnSent + k
      BY <1>5, <2>2
    <3> QED
      BY <3>1, <3>2
  <2> QED
    BY <2>1, <2>2 DEF OutDrain
<1>7. PipeType'
  <2>1. sendChan' \in Seq(Parcel) /\ ntfnSent' \in 0..1
    BY <1>5, CountTail DEF OutDrain
  <2> QED
    BY <1>1, <2>1, TokenStep DEF PipeType
<1>8. Outstanding' = Outstanding
  <2>1. PICK k \in 0..1 : /\ ntfnSent' = ntfnSent + k
                          /\ NtfnCount(sendChan) = NtfnCount(sendChan') + k
    BY <1>6
  <2>2. Outstanding' = NtfnCount(sendChan') + InOut + InQueue + (ntfnSent + k)
    BY <1>2, <2>1, Sums
  <2>3. Outstanding = (NtfnCount(sendChan') + k) + InOut + InQueue + ntfnSent
    BY <2>1, Sums
  <2>4. NtfnCount(sendChan') \in Nat /\ InOut \in Nat /\ InQueue \in Nat
        /\ ntfnSent \in Nat /\ k \in Nat
    BY <1>5, <1>7, CountType DEF PipeType
  <2>5. \A a, b, c, d, e \in Nat : a + b + c + (d + e) = (a + e) + b + c + d
    OBVIOUS
  <2> QED
    BY <2>2, <2>3, <2>4, <2>5
<1>9. TokenInv'
  BY <1>1, <1>8 DEF TokenInv, OneOutstanding
<1> QED
  BY <1>4, <1>7, <1>9

\* The pipeline is empty at first.
LEMMA NtfnInit == Init => NtfnInv
<1> SUFFICES ASSUME Init PROVE NtfnInv
  OBVIOUS
<1>1. <<>> \in Seq(Parcel) /\ <<>> \in Seq(Nat) /\ Len(<<>>) = 0
  OBVIOUS
<1>2. NtfnCount(<<>>) = 0 /\ NtfnsIn(<<>>) = {}
  <2>1. NtfnsIn(<<>>) = {}
    BY <1>1 DEF NtfnsIn
  <2> QED
    BY <2>1, FS_EmptySet DEF NtfnCount
<1>3. TokenOK(Free)
  BY DEF TokenOK, Free
<1>4. PipeType
  <2>1. sem = [i \in Slots |-> Free]
    BY DEF Init
  <2>2. DOMAIN sem = Slots /\ \A i \in Slots : TokenOK(sem[i])
    BY <1>3, <2>1
  <2>3. ntfnSent \in 0..1 /\ imsg \in Nat /\ qmsg \in Nat /\ queued \in Nat
    BY DEF Init
  <2>4. ntfnChan \in Seq(Nat) /\ Len(ntfnChan) <= 1
    BY <1>1 DEF Init
  <2>5. waiting \in BOOLEAN
    BY DEF Init
  <2> QED
    BY <1>1, <2>2, <2>3, <2>4, <2>5 DEF Init, PipeType
<1>5. InOut = 0 /\ InQueue = 0 /\ InWrite = 0 /\ InFlight = 0
  BY <1>2 DEF Init, InOut, InQueue, InWrite, InFlight
<1>6. TokenInv
  BY <1>2, <1>5, Sums DEF Init, TokenInv, OneOutstanding
<1>7. InOrder /\ FlowInv
  BY <1>1, <1>2, <1>5 DEF Init, InOrder, FlowInv
<1> QED
  BY <1>4, <1>6, <1>7 DEF NtfnInv

\* Every step keeps the pipeline in order.
LEMMA NtfnStep == NtfnInv /\ [Next]_vars => NtfnInv'
<1> SUFFICES ASSUME NtfnInv, [Next]_vars PROVE NtfnInv'
  OBVIOUS
<1>1. Still \/ Replies \/ Moves
  BY StepKinds DEF NtfnInv
<1>2. CASE Still
  BY <1>2, StillStep
<1>3. CASE Replies
  BY <1>3, RepliesStep
<1>4. CASE Moves
  BY <1>4, NtfnSendStep, QueueNtfnStep, QueueNextStep, QueueEndStep, QueueCheckStep,
     QueueSendStep, OutSelectStep, OutWriteStep, OutWrittenStep, OutQuitStep,
     OutDrainStep
  DEF Moves, Queue, Out
<1> QED
  BY <1>1, <1>2, <1>3, <1>4

(***************************************************************************)
(* For every capacity of sendChan and any number of callers: no more than  *)
(* one notification is between the queue and its token, so that no sender  *)
(* to ntfnSentChan finds it full.                                          *)
(***************************************************************************)
THEOREM OneOutstandingCorrect == Spec => []OneOutstanding
<1>1. NtfnInv => OneOutstanding
  BY DEF NtfnInv, TokenInv
<1> QED
  BY <1>1, NtfnInit, NtfnStep, PTL DEF Spec

(***************************************************************************)
(* Notifications are written in the order in which they were queued, and   *)
(* none is lost between QueueNotification and the connection while the     *)
(* connection lives, whatever the pace of the handlers and of replies.     *)
(***************************************************************************)
THEOREM NtfnFIFOCorrect == Spec => []NtfnFIFO
<1>1. NtfnInv => NtfnFIFO
  <2> SUFFICES ASSUME NtfnInv PROVE NtfnFIFO
    OBVIOUS
  <2>1. InFlight = NtfnCount(sendChan) + InQueue + InWrite
    BY DEF InFlight
  <2>2. /\ NtfnCount(sendChan) \in Nat /\ InQueue \in Nat /\ InWrite \in Nat
        /\ Len(ntfnChan) \in Nat /\ Len(pending) \in Nat /\ Len(written) \in Nat
    BY Places DEF NtfnInv, PipeType
  <2>3. Len(written) + Unwritten
          = Len(written) + InFlight + Len(pending) + Len(ntfnChan)
    <3> DEFINE c == NtfnCount(sendChan)
               n == Len(written)
               p == Len(pending)
               k == Len(ntfnChan)
    <3>1. /\ c \in Nat /\ InQueue \in Nat /\ InWrite \in Nat
          /\ n \in Nat /\ p \in Nat /\ k \in Nat
      BY <2>2
    <3>2. Unwritten = k + p + InQueue + c + InWrite /\ InFlight = c + InQueue + InWrite
      BY <2>1, Sums
    <3> HIDE DEF c, n, p, k
    <3>3. n + Unwritten = n + InFlight + p + k
      BY <3>1, <3>2
    <3> QED
      BY <3>3 DEF n, p, k
  <2> QED
    BY <2>3 DEF NtfnInv, FlowInv, InOrder, NtfnFIFO
<1> QED
  BY <1>1, NtfnInit, NtfnStep, PTL DEF Spec

-----------------------------------------------------------------------------
(* Callers of QueueNotification.                                           *)

\* What the queue handler leaves to a caller that waits behind it: room, if
\* there is no other caller to take it.
RoomLeft(t) == qpc = "done" /\ npc[t] = "send" => ntfnChan = <<>>

CallerInv ==
  /\ npc \in [Notifiers -> {"idle", "send"}]
  /\ qpc \in {"drain", "done"} => disconnected
  /\ \A t \in Notifiers : Notifiers = {t} => RoomLeft(t)

\* The steps that neither call QueueNotification nor run its handler.
LEMMA CallerSteps ==
  ASSUME [Next]_vars
  PROVE  \/ disconnected' \in {disconnected, TRUE} /\ UNCHANGED <<ntfnChan, qpc, npc>>
         \/ \E t \in Notifiers : NtfnCheck(t) \/ NtfnSend(t)
         \/ Queue
<1>1. CASE UNCHANGED vars
  BY <1>1 DEF vars, ntfnVars
<1>2. CASE In
  BY <1>2 DEF In, InTop, InReadError, InBatch, InCheck, InSend, InSent, InQuit,
              InService, InAcquire, ntfnVars
<1>3. CASE Peer
  BY <1>3 DEF Peer, InRequest, InBatchRead, ntfnVars
<1>4. CASE \E i \in Slots : Service(i)
  BY <1>4 DEF Service, SvcRun, SvcSend, ntfnVars
<1>5. CASE Out \/ OutWrite
  BY <1>5 DEF Out, OutSelect, OutWritten, OutQuit, OutDrain, OutWrite, ntfnVars
<1>6. CASE Disconnect \/ ConnLost
  BY <1>6 DEF Disconnect, ConnLost, ntfnVars
<1> QED
  BY <1>1, <1>2, <1>3, <1>4, <1>5, <1>6 DEF Next

(***************************************************************************)
(* QueueNotification with one caller, as notificationHandler would be one  *)
(* for all clients.  However the client disconnects, a single caller that  *)
(* passed the test of Disconnected finds room in ntfnChan when             *)
(* notificationQueueHandler has drained the channel and gone: nothing else *)
(* could have filled it.                                                   *)
(***************************************************************************)
THEOREM SingleCallerHasRoom ==
  ASSUME NEW t \in Notifiers, Notifiers = {t}
  PROVE  Spec => []RoomLeft(t)
<1>1. Init => CallerInv
  BY DEF Init, CallerInv, RoomLeft
<1>2. ASSUME CallerInv, [Next]_vars
      PROVE  CallerInv'
  <2>1. CASE disconnected' \in {disconnected, TRUE} /\ UNCHANGED <<ntfnChan, qpc, npc>>
    BY <1>2, <2>1 DEF CallerInv, RoomLeft
  <2>2. CASE \E u \in Notifiers : NtfnCheck(u)
    BY <1>2, <2>2 DEF NtfnCheck, CallerInv, RoomLeft
  <2>3. CASE \E u \in Notifiers : NtfnSend(u)
    BY <1>2, <2>3 DEF NtfnSend, CallerInv, RoomLeft
  <2>4. CASE Queue
    <3>1. CASE QueueNtfn \/ QueueNext \/ QueueCheck \/ QueueSend
      BY <1>2, <3>1 DEF QueueNtfn, QueueNext, QueueCheck, QueueSend, CallerInv, RoomLeft
    <3>2. CASE QueueQuit
      BY <1>2, <3>2 DEF QueueQuit, CallerInv, RoomLeft
    <3>3. CASE QueueDrain
      BY <1>2, <3>3 DEF QueueDrain, CallerInv, RoomLeft
    <3> QED
      BY <2>4, <3>1, <3>2, <3>3 DEF Queue
  <2> QED
    BY <1>2, <2>1, <2>2, <2>3, <2>4, CallerSteps
<1>3. CallerInv => RoomLeft(t)
  BY DEF CallerInv
<1> QED
  BY <1>1, <1>2, <1>3, PTL DEF Spec

=============================================================================
