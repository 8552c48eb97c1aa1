--------------------------- MODULE RpcClientProofs ---------------------------
(***************************************************************************)
(* Proofs about RpcClient for every set of requests, number of connections *)
(* and size of the send buffer.                                            *)
(***************************************************************************)
EXTENDS RpcClient, TLAPS

-----------------------------------------------------------------------------
(* Type correctness.                                                       *)

\* Init establishes TypeOK.
LEMMA TypeInit == Init => TypeOK
<1> SUFFICES ASSUME Init PROVE TypeOK
  OBVIOUS
<1>1. FieldsOK
  <2>1. wsConn \in 0..MaxConns /\ disconnect \in Conns
    BY ClientAssumption DEF Init, Conns
  <2>2. sendChan \in Seq(Reqs)
    BY DEF Init
  <2> QED
    BY <2>1, <2>2 DEF Init, FieldsOK
<1>2. WorldOK
  BY DEF Init, WorldOK, Errors, Replies
<1>3. SendersOK /\ InOK
  BY ClientAssumption DEF Init, SendersOK, InOK, SenderPC, InPC
<1>4. OutOK /\ ResendOK
  BY ClientAssumption DEF Init, OutOK, ResendOK, OutPC, ResendPC
<1> QED
  BY <1>1, <1>2, <1>3, <1>4 DEF Init, TypeOK, AppOK, ReconnectPC

\* The errors the client sends are responses.
LEMMA ErrorsAreResponses ==
  {"ErrClientNotConnected", "ErrClientDisconnect", "ErrClientShutdown"}
    \subseteq Errors \cup Replies
  BY DEF Errors

\* What FailPending, DisconnectCleanup and AddRequest leave behind.
LEMMA FailPendingType ==
  ASSUME TypeOK, NEW err \in Errors \cup Replies, FailPending(err)
  PROVE  requests' \subseteq Reqs /\ responses' \in [Reqs -> Seq(Errors \cup Replies)]
  BY DEF FailPending, TypeOK, WorldOK

\* Answering and removing all requests keeps the types.
LEMMA CleanupType ==
  ASSUME TypeOK, DisconnectCleanup
  PROVE  /\ requests' \subseteq Reqs
         /\ responses' \in [Reqs -> Seq(Errors \cup Replies)]
         /\ shutdown' \in BOOLEAN
<1>1. CASE AutoReconnect
  BY <1>1 DEF DisconnectCleanup, TypeOK, FieldsOK, WorldOK
<1>2. CASE ~AutoReconnect
  BY <1>2, FailPendingType, ErrorsAreResponses DEF DisconnectCleanup
<1> QED
  BY <1>1, <1>2

\* addRequest keeps the types.
LEMMA AddRequestType ==
  ASSUME TypeOK, NEW r \in Reqs, AddRequest(r)
  PROVE  /\ requests' \subseteq Reqs
         /\ responses' \in [Reqs -> Seq(Errors \cup Replies)]
         /\ spc' \in [Reqs -> SenderPC]
<1>1. CASE shutdown
  <2>1. Append(responses[r], "ErrClientShutdown") \in Seq(Errors \cup Replies)
    BY ErrorsAreResponses DEF TypeOK, WorldOK
  <2>2. responses' \in [Reqs -> Seq(Errors \cup Replies)]
    BY <1>1, <2>1 DEF AddRequest, TypeOK, WorldOK
  <2> QED
    BY <1>1, <2>2 DEF AddRequest, TypeOK, FieldsOK, SendersOK, SenderPC
<1>2. CASE ~shutdown
  BY <1>2 DEF AddRequest, TypeOK, FieldsOK, WorldOK, SendersOK, SenderPC
<1> QED
  BY <1>1, <1>2

\* A part of the state that a step leaves alone keeps its type.
LEMMA Frames ==
  /\ FieldsOK /\ UNCHANGED fields => FieldsOK'
  /\ WorldOK /\ UNCHANGED world => WorldOK'
  /\ SendersOK /\ UNCHANGED senders => SendersOK'
  /\ InOK /\ UNCHANGED inVars => InOK'
  /\ OutOK /\ UNCHANGED outVars => OutOK'
  /\ ResendOK /\ UNCHANGED reVars => ResendOK'
  /\ AppOK /\ UNCHANGED appVars => AppOK'
<1>1. FieldsOK /\ UNCHANGED fields => FieldsOK'
  BY DEF FieldsOK, fields
<1>2. WorldOK /\ UNCHANGED world => WorldOK'
  BY DEF WorldOK, world
<1>3. SendersOK /\ UNCHANGED senders => SendersOK'
  BY DEF SendersOK, senders
<1>4. InOK /\ UNCHANGED inVars => InOK'
  BY DEF InOK, inVars
<1>5. OutOK /\ UNCHANGED outVars => OutOK'
  BY DEF OutOK, outVars
<1>6. ResendOK /\ UNCHANGED reVars => ResendOK'
  BY DEF ResendOK, reVars
<1>7. AppOK /\ UNCHANGED appVars => AppOK'
  BY DEF AppOK, appVars
<1> QED
  BY <1>1, <1>2, <1>3, <1>4, <1>5, <1>6, <1>7

\* Every step keeps the types.
LEMMA TypeStep ==
  ASSUME TypeOK, ConnectionInv, [Next]_vars
  PROVE  TypeOK'
<1>1. ASSUME NEW r \in Reqs, SendDisconnectChan(r) PROVE TypeOK'
  <2>1. SendersOK'
    BY <1>1, ClientAssumption DEF SendDisconnectChan, TypeOK, SendersOK,
       senders, FieldsOK, Conns, SenderPC
  <2> QED
    BY <1>1, <2>1, Frames DEF SendDisconnectChan, TypeOK
<1>2. ASSUME NEW r \in Reqs, SendMessage(r) PROVE TypeOK'
  <2>1. FieldsOK'
    BY <1>2 DEF SendMessage, TypeOK, FieldsOK, fields
  <2>2. SendersOK'
    BY <1>2, ClientAssumption DEF SendMessage, TypeOK, SendersOK, senders,
       SenderPC
  <2> QED
    BY <1>2, <2>1, <2>2, Frames DEF SendMessage, TypeOK
<1>3. ASSUME NEW r \in Calls, SendCmdError(r) PROVE TypeOK'
  <2>1. WorldOK'
    <3>1. r \in Reqs /\ responses \in [Reqs -> Seq(Errors \cup Replies)]
      BY <1>3 DEF TypeOK, WorldOK, Reqs
    <3>2. PICK e \in Errors :
            responses' = [responses EXCEPT ![r] = Append(@, e)]
      BY <1>3 DEF SendCmdError, Errors
    <3>3. responses' \in [Reqs -> Seq(Errors \cup Replies)]
      BY <3>1, <3>2
    <3> QED
      BY <1>3, <3>3 DEF SendCmdError, TypeOK, WorldOK
  <2>2. SendersOK'
    BY <1>3, ClientAssumption DEF SendCmdError, TypeOK, SendersOK,
       senders, SenderPC, Reqs
  <2> QED
    BY <1>3, <2>1, <2>2, Frames DEF SendCmdError, TypeOK
<1>4. ASSUME NEW r \in Calls, SendRequest(r) PROVE TypeOK'
  <2>1. FieldsOK'
    BY <1>4, AddRequestType DEF SendRequest, TypeOK, FieldsOK, fields, Reqs
  <2>2. WorldOK'
    BY <1>4, AddRequestType DEF SendRequest, TypeOK, WorldOK, world, Reqs
  <2>3. SendersOK'
    BY <1>4, ClientAssumption, AddRequestType DEF SendRequest, TypeOK,
       SendersOK, senders, Reqs
  <2> QED
    BY <1>4, <2>1, <2>2, <2>3, Frames DEF SendRequest, TypeOK
<1>5. ASSUME NEW k \in Conns, InTop(k) PROVE TypeOK'
  <2>1. InOK'
    BY <1>5, ClientAssumption DEF InTop, TypeOK, InOK, inVars, FieldsOK,
       InPC
  <2> QED
    BY <1>5, <2>1, Frames DEF InTop, TypeOK
<1>6. ASSUME NEW k \in Conns, InReply(k) PROVE TypeOK'
  <2>1. FieldsOK'
    BY <1>6 DEF InReply, TypeOK, FieldsOK, fields
  <2>2. WorldOK'
    <3>1. PICK r \in Reqs :
             /\ unanswered[iconn[k]][r] > 0
             /\ unanswered' = [unanswered EXCEPT ![iconn[k]][r] = @ - 1]
      BY <1>6 DEF InReply
    <3>2. unanswered' \in [Conns -> [Reqs -> Nat]]
      <4>1. CASE iconn[k] \in Conns
        <5>1. unanswered[iconn[k]] \in [Reqs -> Nat]
          BY <4>1 DEF TypeOK, WorldOK
        <5>2. [unanswered[iconn[k]] EXCEPT ![r] = @ - 1] \in [Reqs -> Nat]
          BY <5>1, <3>1
        <5> QED
          BY <3>1, <4>1, <5>2 DEF TypeOK, WorldOK
      <4>2. CASE iconn[k] \notin Conns
        BY <3>1, <4>2 DEF TypeOK, WorldOK
      <4> QED
        BY <4>1, <4>2
    <3> QED
      BY <1>6, <3>2 DEF InReply, TypeOK, WorldOK
  <2>3. InOK'
    BY <1>6, ClientAssumption DEF InReply, TypeOK, InOK, inVars, InPC
  <2> QED
    BY <1>6, <2>1, <2>2, <2>3, Frames DEF InReply, TypeOK
<1>7. ASSUME NEW k \in Conns, InDeliver(k) PROVE TypeOK'
  <2>1. FieldsOK'
    BY <1>7 DEF InDeliver, TypeOK, FieldsOK, fields
  <2>2. WorldOK'
    BY <1>7 DEF InDeliver, TypeOK, WorldOK, world, Replies, InOK
  <2>3. InOK'
    BY <1>7, ClientAssumption DEF InDeliver, TypeOK, InOK, inVars, InPC
  <2> QED
    BY <1>7, <2>1, <2>2, <2>3, Frames DEF InDeliver, TypeOK
<1>8. ASSUME NEW k \in Conns, InReadError(k) PROVE TypeOK'
  <2>1. InOK'
    BY <1>8, ClientAssumption DEF InReadError, TypeOK, InOK, inVars, InPC
  <2> QED
    BY <1>8, <2>1, Frames DEF InReadError, TypeOK
<1>9. ASSUME NEW k \in Conns, InDisconnect(k) PROVE TypeOK'
  <2>1. FieldsOK'
    BY <1>9 DEF InDisconnect, TypeOK, FieldsOK, fields, DoDisconnect,
       CloseConnection
  <2>2. WorldOK'
    BY <1>9 DEF InDisconnect, TypeOK, WorldOK, world, DoDisconnect,
       CloseConnection, FieldsOK
  <2>3. InOK'
    BY <1>9, ClientAssumption DEF InDisconnect, TypeOK, InOK, inVars,
       DoDisconnect, InPC
  <2> QED
    BY <1>9, <2>1, <2>2, <2>3, Frames DEF InDisconnect, TypeOK
<1>10. ASSUME NEW k \in Conns, InCleanup(k) PROVE TypeOK'
  <2>1. FieldsOK'
    BY <1>10, CleanupType DEF InCleanup, TypeOK, FieldsOK, fields
  <2>2. WorldOK'
    BY <1>10, CleanupType DEF InCleanup, TypeOK, WorldOK, world
  <2>3. InOK'
    BY <1>10, ClientAssumption DEF InCleanup, TypeOK, InOK, inVars, InPC
  <2> QED
    BY <1>10, <2>1, <2>2, <2>3, Frames DEF InCleanup, TypeOK
<1>11. ASSUME NEW k \in Conns, InOther(k) PROVE TypeOK'
  <2>1. InOK'
    BY <1>11, ClientAssumption DEF InOther, TypeOK, InOK, inVars, InPC
  <2> QED
    BY <1>11, <2>1, Frames DEF InOther, TypeOK
<1>40. ASSUME NEW k \in Conns, InNtfn(k) PROVE TypeOK'
  <2>1. PICK r \in BlockingCalls :
          AddRequest(r) /\ icall' = [icall EXCEPT ![k] = {r}]
    BY <1>40 DEF InNtfn
  <2>2. r \in Calls /\ r \in Reqs
    BY ClientAssumption DEF Reqs
  <2>3. FieldsOK'
    BY <1>40, <2>1, <2>2, AddRequestType DEF InNtfn, TypeOK, FieldsOK
  <2>4. WorldOK'
    BY <1>40, <2>1, <2>2, AddRequestType DEF InNtfn, TypeOK, WorldOK
  <2>5. SendersOK'
    BY <1>40, <2>1, <2>2, AddRequestType DEF InNtfn, TypeOK, SendersOK
  <2>6. InOK'
    BY <1>40, <2>1, <2>2, ClientAssumption DEF InNtfn, TypeOK, InOK, InPC
  <2> QED
    BY <1>40, <2>3, <2>4, <2>5, <2>6, Frames DEF InNtfn, TypeOK
<1>41. ASSUME NEW k \in Conns, InReturn(k) PROVE TypeOK'
  <2>1. InOK'
    BY <1>41, ClientAssumption DEF InReturn, TypeOK, InOK, InPC
  <2> QED
    BY <1>41, <2>1, Frames DEF InReturn, TypeOK
<1>12. ASSUME NEW k \in Conns, OutTop(k) PROVE TypeOK'
  <2>1. OutOK'
    BY <1>12, ClientAssumption DEF OutTop, TypeOK, OutOK, outVars, FieldsOK,
       Conns, OutPC
  <2> QED
    BY <1>12, <2>1, Frames DEF OutTop, TypeOK
<1>13. ASSUME NEW k \in Conns, OutSelect(k) PROVE TypeOK'
  <2>1. FieldsOK'
    <3>1. sendChan' \in Seq(Reqs)
      BY <1>13 DEF OutSelect, TypeOK, FieldsOK
    <3> QED
      BY <1>13, <3>1 DEF OutSelect, TypeOK, FieldsOK
  <2>2. OutOK'
    <3>1. \/ UNCHANGED omsg
          \/ /\ Head(sendChan) \in Reqs
             /\ omsg' = [omsg EXCEPT ![k] = {Head(sendChan)}]
      BY <1>13 DEF OutSelect, TypeOK, FieldsOK
    <3>2. omsg' \in [Conns -> SUBSET Reqs]
      BY <3>1 DEF TypeOK, OutOK
    <3>3. opc' \in [Conns -> OutPC]
      BY <1>13 DEF OutSelect, TypeOK, OutOK, OutPC
    <3>4. odc' \in [Conns -> 0..MaxConns]
      BY <1>13, ClientAssumption DEF OutSelect, TypeOK, OutOK
    <3> QED
      BY <1>13, <3>2, <3>3, <3>4 DEF OutSelect, TypeOK, OutOK
  <2> QED
    BY <1>13, <2>1, <2>2, Frames DEF OutSelect, TypeOK
<1>14. ASSUME NEW k \in Conns, OutBeginWrite(k) PROVE TypeOK'
  <2>1. OutOK'
    BY <1>14, ClientAssumption DEF OutBeginWrite, TypeOK, OutOK, outVars,
       FieldsOK, OutPC
  <2> QED
    BY <1>14, <2>1, Frames DEF OutBeginWrite, TypeOK
<1>15. ASSUME NEW k \in Conns, OutEndWrite(k) PROVE TypeOK'
  <2>1. WorldOK'
    <3>1. unanswered' \in [Conns -> [Reqs -> Nat]]
      <4> DEFINE Written(c) ==
            [r \in Reqs |-> IF r \in omsg[k] THEN unanswered[c][r] + 1
                                              ELSE unanswered[c][r]]
      <4>1. \A c \in Conns : Written(c) \in [Reqs -> Nat]
        BY DEF TypeOK, WorldOK
      <4>2. \/ UNCHANGED unanswered
            \/ unanswered' = [unanswered EXCEPT ![oconn[k]] = Written(oconn[k])]
        BY <1>15 DEF OutEndWrite
      <4> HIDE DEF Written
      <4>3. CASE UNCHANGED unanswered
        BY <4>3 DEF TypeOK, WorldOK
      <4>4. CASE unanswered' = [unanswered EXCEPT ![oconn[k]] = Written(oconn[k])]
        BY <4>1, <4>4 DEF TypeOK, WorldOK
      <4> QED
        BY <4>2, <4>3, <4>4
    <3> QED
      BY <1>15, <3>1 DEF OutEndWrite, TypeOK, WorldOK
  <2>2. OutOK'
    BY <1>15, ClientAssumption DEF OutEndWrite, TypeOK, OutOK, outVars,
       OutPC
  <2> QED
    BY <1>15, <2>1, <2>2, Frames DEF OutEndWrite, TypeOK
<1>16. ASSUME NEW k \in Conns, OutDisconnect(k) PROVE TypeOK'
  <2>1. FieldsOK'
    BY <1>16 DEF OutDisconnect, TypeOK, FieldsOK, fields, DoDisconnect,
       CloseConnection
  <2>2. WorldOK'
    BY <1>16 DEF OutDisconnect, TypeOK, WorldOK, world, DoDisconnect,
       CloseConnection, FieldsOK
  <2>3. OutOK'
    BY <1>16, ClientAssumption DEF OutDisconnect, TypeOK, OutOK, outVars,
       DoDisconnect, OutPC
  <2> QED
    BY <1>16, <2>1, <2>2, <2>3, Frames DEF OutDisconnect, TypeOK
<1>17. ASSUME NEW k \in Conns, OutCleanup(k) PROVE TypeOK'
  <2>1. FieldsOK'
    BY <1>17, CleanupType DEF OutCleanup, TypeOK, FieldsOK, fields
  <2>2. WorldOK'
    BY <1>17, CleanupType DEF OutCleanup, TypeOK, WorldOK, world
  <2>3. OutOK'
    BY <1>17, ClientAssumption DEF OutCleanup, TypeOK, OutOK, outVars, OutPC
  <2> QED
    BY <1>17, <2>1, <2>2, <2>3, Frames DEF OutCleanup, TypeOK
<1>18. ASSUME NEW k \in Conns, OutDrain(k) PROVE TypeOK'
  <2>1. FieldsOK'
    BY <1>18 DEF OutDrain, TypeOK, FieldsOK, fields
  <2>2. OutOK'
    BY <1>18, ClientAssumption DEF OutDrain, TypeOK, OutOK, outVars, OutPC
  <2> QED
    BY <1>18, <2>1, <2>2, Frames DEF OutDrain, TypeOK
<1>19. ASSUME NEW k \in Conns, ResendCopyState(k) PROVE TypeOK'
  <2>1. ResendOK'
    BY <1>19, ClientAssumption DEF ResendCopyState, TypeOK, ResendOK,
       reVars, FieldsOK, ResendPC, Reregistered
  <2> QED
    BY <1>19, <2>1, Frames DEF ResendCopyState, TypeOK
<1>20. ASSUME NEW k \in Conns, ResendRegister(k) PROVE TypeOK'
  <2>1. \E r \in Reqs : AddRequest(r)
    BY <1>20 DEF ResendRegister, TypeOK, ResendOK, Reqs, Regs
  <2>2. /\ requests' \subseteq Reqs
         /\ responses' \in [Reqs -> Seq(Errors \cup Replies)]
         /\ spc' \in [Reqs -> SenderPC]
    BY <2>1, AddRequestType
  <2>3. FieldsOK'
    BY <1>20, <2>2 DEF ResendRegister, TypeOK, FieldsOK, fields
  <2>4. WorldOK'
    BY <1>20, <2>2 DEF ResendRegister, TypeOK, WorldOK, world
  <2>5. SendersOK'
    BY <1>20, ClientAssumption, <2>2 DEF ResendRegister, TypeOK, SendersOK,
       senders
  <2>6. ResendOK'
    BY <1>20, ClientAssumption DEF ResendRegister, TypeOK, ResendOK, reVars,
       ResendPC, Reqs, Regs
  <2> QED
    BY <1>20, <2>3, <2>4, <2>5, <2>6, Frames DEF ResendRegister, TypeOK
<1>21. ASSUME NEW k \in Conns, ResendAwait(k) PROVE TypeOK'
  <2>1. ResendOK'
    BY <1>21, ClientAssumption DEF ResendAwait, TypeOK, ResendOK, reVars,
       ResendPC
  <2> QED
    BY <1>21, <2>1, Frames DEF ResendAwait, TypeOK
<1>22. ASSUME NEW k \in Conns, ResendRegistered(k) PROVE TypeOK'
  <2>1. ResendOK'
    BY <1>22, ClientAssumption DEF ResendRegistered, TypeOK, ResendOK,
       reVars, ResendPC
  <2> QED
    BY <1>22, <2>1, Frames DEF ResendRegistered, TypeOK
<1>23. ASSUME NEW k \in Conns, ResendDisconnect(k) PROVE TypeOK'
  <2>1. FieldsOK'
    BY <1>23 DEF ResendDisconnect, TypeOK, FieldsOK, fields, DoDisconnect,
       CloseConnection
  <2>2. WorldOK'
    BY <1>23 DEF ResendDisconnect, TypeOK, WorldOK, world, DoDisconnect,
       CloseConnection, FieldsOK
  <2>3. ResendOK'
    BY <1>23, ClientAssumption DEF ResendDisconnect, TypeOK, ResendOK,
       reVars, DoDisconnect, ResendPC
  <2> QED
    BY <1>23, <2>1, <2>2, <2>3, Frames DEF ResendDisconnect, TypeOK
<1>24. ASSUME NEW k \in Conns, ResendCleanup(k) PROVE TypeOK'
  <2>1. FieldsOK'
    BY <1>24, CleanupType DEF ResendCleanup, TypeOK, FieldsOK, fields
  <2>2. WorldOK'
    BY <1>24, CleanupType DEF ResendCleanup, TypeOK, WorldOK, world
  <2>3. ResendOK'
    BY <1>24, ClientAssumption DEF ResendCleanup, TypeOK, ResendOK, reVars,
       ResendPC
  <2> QED
    BY <1>24, <2>1, <2>2, <2>3, Frames DEF ResendCleanup, TypeOK
<1>25. ASSUME NEW k \in Conns, ResendCopy(k) PROVE TypeOK'
  <2>1. FieldsOK'
    BY <1>25 DEF ResendCopy, TypeOK, FieldsOK, fields
  <2>2. ResendOK'
    BY <1>25, ClientAssumption DEF ResendCopy, TypeOK, ResendOK, reVars,
       FieldsOK, ResendPC
  <2> QED
    BY <1>25, <2>1, <2>2, Frames DEF ResendCopy, TypeOK
<1>26. ASSUME NEW k \in Conns, ResendLoop(k) PROVE TypeOK'
  <2>1. ResendOK'
    BY <1>26, ClientAssumption DEF ResendLoop, TypeOK, ResendOK, reVars,
       ResendPC
  <2> QED
    BY <1>26, <2>1, Frames DEF ResendLoop, TypeOK
<1>27. ASSUME NEW k \in Conns, ResendDisconnectChan(k) PROVE TypeOK'
  <2>1. ResendOK'
    BY <1>27, ClientAssumption DEF ResendDisconnectChan, TypeOK, ResendOK,
       reVars, FieldsOK, Conns, ResendPC
  <2> QED
    BY <1>27, <2>1, Frames DEF ResendDisconnectChan, TypeOK
<1>28. ASSUME NEW k \in Conns, ResendMessage(k) PROVE TypeOK'
  <2>1. FieldsOK'
    <3>1. PICK r \in rreqs[k] :
             UNCHANGED sendChan \/ sendChan' = Append(sendChan, r)
      BY <1>28 DEF ResendMessage
    <3>2. r \in Reqs
      BY <3>1 DEF TypeOK, ResendOK
    <3>3. sendChan' \in Seq(Reqs)
      BY <3>1, <3>2 DEF TypeOK, FieldsOK
    <3> QED
      BY <1>28, <3>3 DEF ResendMessage, TypeOK, FieldsOK
  <2>2. ResendOK'
    BY <1>28, ClientAssumption DEF ResendMessage, TypeOK, ResendOK, reVars,
       ResendPC
  <2> QED
    BY <1>28, <2>1, <2>2, Frames DEF ResendMessage, TypeOK
<1>29. ASSUME NEW k \in Conns, ConnLost(k) PROVE TypeOK'
  <2>1. WorldOK'
    BY <1>29 DEF ConnLost, TypeOK, WorldOK, world
  <2> QED
    BY <1>29, <2>1, Frames DEF ConnLost, TypeOK
<1>30. CASE ReconnectWait
  BY <1>30, Frames DEF ReconnectWait, TypeOK, ReconnectPC
<1>31. CASE ReconnectCheck
  BY <1>31, Frames DEF ReconnectCheck, TypeOK, ReconnectPC
<1>32. CASE DialError
  BY <1>32, Frames DEF DialError, TypeOK, ReconnectPC
<1>33. CASE DialOK
  <2>1. FieldsOK'
    BY <1>33, ClientAssumption DEF DialOK, TypeOK, FieldsOK, fields
  <2>2. WorldOK'
    BY <1>33, ClientAssumption DEF DialOK, TypeOK, WorldOK, world, FieldsOK,
       Conns
  <2> QED
    BY <1>33, <2>1, <2>2, Frames DEF DialOK, TypeOK, ReconnectPC
<1>34. CASE ReconnectReset
  <2>1. FieldsOK'
    <3>1. wsConn \in Conns
      BY <1>34, ClientAssumption
         DEF ReconnectReset, ConnectionInv, TypeOK, FieldsOK, Conns
    <3> QED
      BY <1>34, <3>1 DEF ReconnectReset, TypeOK, FieldsOK
  <2>2. InOK'
    BY <1>34, ClientAssumption DEF ReconnectReset, TypeOK, InOK, inVars,
       InPC
  <2>3. OutOK'
    BY <1>34, ClientAssumption DEF ReconnectReset, TypeOK, OutOK, outVars,
       OutPC
  <2>4. ResendOK'
    BY <1>34, ClientAssumption DEF ReconnectReset, TypeOK, ResendOK, reVars,
       ResendPC
  <2> QED
    BY <1>34, <2>1, <2>2, <2>3, <2>4, Frames DEF ReconnectReset, TypeOK,
       ReconnectPC
<1>35. CASE AppDisconnect
  <2>1. FieldsOK'
    BY <1>35 DEF AppDisconnect, TypeOK, FieldsOK, fields, CloseConnection
  <2>2. WorldOK'
    BY <1>35 DEF AppDisconnect, TypeOK, WorldOK, world, CloseConnection,
       FieldsOK
  <2>3. AppOK'
    BY <1>35 DEF AppDisconnect, TypeOK, AppOK, appVars
  <2> QED
    BY <1>35, <2>1, <2>2, <2>3, Frames DEF AppDisconnect, TypeOK
<1>36. CASE AppCleanup
  <2>1. FieldsOK'
    BY <1>36, CleanupType DEF AppCleanup, TypeOK, FieldsOK, fields
  <2>2. WorldOK'
    BY <1>36, CleanupType DEF AppCleanup, TypeOK, WorldOK, world
  <2>3. AppOK'
    BY <1>36 DEF AppCleanup, TypeOK, AppOK, appVars
  <2> QED
    BY <1>36, <2>1, <2>2, <2>3, Frames DEF AppCleanup, TypeOK
<1>37. CASE Shutdown
  <2>1. FieldsOK'
    BY <1>37 DEF Shutdown, TypeOK, FieldsOK, fields, FailPending
  <2>2. WorldOK'
    BY <1>37, ErrorsAreResponses DEF Shutdown, TypeOK, WorldOK, world,
       FailPending
  <2>3. AppOK'
    BY <1>37 DEF Shutdown, TypeOK, AppOK, appVars
  <2> QED
    BY <1>37, <2>1, <2>2, <2>3, Frames DEF Shutdown, TypeOK
<1>38. CASE ShutdownDisconnect
  <2>1. FieldsOK'
    BY <1>38 DEF ShutdownDisconnect, TypeOK, FieldsOK, fields,
       CloseConnection
  <2>2. WorldOK'
    BY <1>38 DEF ShutdownDisconnect, TypeOK, WorldOK, world,
       CloseConnection, FieldsOK
  <2>3. AppOK'
    BY <1>38 DEF ShutdownDisconnect, TypeOK, AppOK, appVars
  <2> QED
    BY <1>38, <2>1, <2>2, <2>3, Frames DEF ShutdownDisconnect, TypeOK
<1>39. CASE UNCHANGED vars
  BY <1>39, Frames DEF vars, TypeOK
<1> QED
  BY <1>1, <1>2, <1>3, <1>4, <1>5, <1>6, <1>7, <1>8, <1>9, <1>10, <1>11,
     <1>12, <1>13, <1>14, <1>15, <1>16, <1>17, <1>18, <1>19, <1>20, <1>21,
     <1>22, <1>23, <1>24, <1>25, <1>26, <1>27, <1>28, <1>29, <1>30, <1>31,
     <1>32, <1>33, <1>34, <1>35, <1>36, <1>37, <1>38, <1>39, <1>40, <1>41
     DEF Next,
     Sender, InHandler, OutHandler, Resend, Reconnect, Application,
     ApplicationReturn

-----------------------------------------------------------------------------
(* The state of the connection.                                            *)

\* Init establishes ConnectionInv.
LEMMA ConnectionInit == Init => ConnectionInv
  BY ClientAssumption DEF Init, ConnectionInv, DisconnectChannel, Conns

\* A step that changes nothing of the connection but the input handlers that
\* are running.
LEMMA ConnectionFrame ==
  ASSUME ConnectionInv,
         UNCHANGED <<connEstablished, disconnected, disconnect, wsConn,
                     closed, wpc>>,
         \A k \in Conns : ipc[k] = "none" => ipc'[k] = "none"
  PROVE  ConnectionInv'
  BY DEF ConnectionInv, DisconnectChannel

\* doDisconnect keeps disconnected and the channel together.
LEMMA ConnectionClose ==
  ASSUME TypeOK, ConnectionInv,
         CloseConnection,
         UNCHANGED <<connEstablished, disconnect, wsConn, wpc>>,
         \A k \in Conns : ipc[k] = "none" => ipc'[k] = "none"
  PROVE  ConnectionInv'
  BY DEF CloseConnection, ConnectionInv, DisconnectChannel, TypeOK, FieldsOK,
         Conns

\* Every step keeps ConnectionInv.
LEMMA ConnectionStep ==
  ASSUME TypeOK, ConnectionInv, [Next]_vars
  PROVE  ConnectionInv'
<1>1. ASSUME NEW r \in Reqs, Sender(r) PROVE ConnectionInv'
  BY <1>1, ConnectionFrame
     DEF Sender, SendDisconnectChan, SendMessage, fields, world, inVars
<1>2. ASSUME NEW r \in Calls, SendCmdError(r) \/ SendRequest(r)
      PROVE  ConnectionInv'
  BY <1>2, ConnectionFrame DEF SendCmdError, SendRequest, fields, inVars
<1>3. ASSUME NEW k \in Conns, InTop(k) \/ InReply(k) \/ InDeliver(k)
      PROVE  ConnectionInv'
  <2>1. UNCHANGED <<connEstablished, disconnected, disconnect, wsConn,
                    closed, wpc>>
    BY <1>3 DEF InTop, InReply, InDeliver, fields, world
  <2>2. \A j \in Conns : ipc[j] = "none" => ipc'[j] = "none"
    BY <1>3 DEF InTop, InReply, InDeliver, TypeOK, InOK
  <2> QED
    BY <2>1, <2>2, ConnectionFrame
<1>4. ASSUME NEW k \in Conns, InReadError(k) \/ InCleanup(k) \/ InOther(k)
                               \/ InNtfn(k) \/ InReturn(k)
      PROVE  ConnectionInv'
  <2>1. UNCHANGED <<connEstablished, disconnected, disconnect, wsConn,
                    closed, wpc>>
    BY <1>4 DEF InReadError, InCleanup, InOther, InNtfn, InReturn, fields,
                world
  <2>2. \A j \in Conns : ipc[j] = "none" => ipc'[j] = "none"
    BY <1>4 DEF InReadError, InCleanup, InOther, InNtfn, InReturn, TypeOK,
                InOK
  <2> QED
    BY <2>1, <2>2, ConnectionFrame
<1>5. ASSUME NEW k \in Conns, InDisconnect(k) PROVE ConnectionInv'
  <2>1. UNCHANGED <<connEstablished, disconnect, wsConn, wpc>>
    BY <1>5 DEF InDisconnect
  <2>2. \A j \in Conns : ipc[j] = "none" => ipc'[j] = "none"
    BY <1>5 DEF InDisconnect, DoDisconnect, TypeOK, InOK
  <2>3. CloseConnection \/ UNCHANGED <<disconnected, closed>>
    BY <1>5 DEF InDisconnect, DoDisconnect
  <2> QED
    BY <2>1, <2>2, <2>3, ConnectionFrame, ConnectionClose
<1>6. ASSUME NEW k \in Conns, OutHandler(k), ~OutDisconnect(k)
      PROVE  ConnectionInv'
  BY <1>6, ConnectionFrame
     DEF OutHandler, OutTop, OutSelect, OutBeginWrite, OutEndWrite, OutCleanup,
         OutDrain, fields, world, inVars
<1>7. ASSUME NEW k \in Conns, OutDisconnect(k) PROVE ConnectionInv'
  BY <1>7, ConnectionFrame, ConnectionClose
     DEF OutDisconnect, DoDisconnect, inVars
<1>8. ASSUME NEW k \in Conns, Resend(k), ~ResendDisconnect(k)
      PROVE  ConnectionInv'
  BY <1>8, ConnectionFrame
     DEF Resend, ResendCopyState, ResendRegister, ResendAwait,
         ResendRegistered, ResendCleanup, ResendCopy, ResendLoop,
         ResendDisconnectChan, ResendMessage, fields, world, inVars
<1>9. ASSUME NEW k \in Conns, ResendDisconnect(k) PROVE ConnectionInv'
  BY <1>9, ConnectionFrame, ConnectionClose
     DEF ResendDisconnect, DoDisconnect, inVars
<1>10. CASE ReconnectWait
  BY <1>10 DEF ReconnectWait, ConnectionInv, DisconnectChannel, TypeOK,
               FieldsOK, fields, world, inVars
<1>11. CASE ReconnectCheck \/ DialError
  BY <1>11 DEF ReconnectCheck, DialError, ConnectionInv, DisconnectChannel,
               fields, world, inVars
<1>12. CASE DialOK
  BY <1>12 DEF DialOK, ConnectionInv, DisconnectChannel, inVars
<1>13. CASE ReconnectReset
  <2>1. /\ disconnect' = disconnect + 1
        /\ disconnected' = FALSE
        /\ wsConn' = disconnect'
        /\ closed' = closed
        /\ connEstablished' = connEstablished
        /\ wpc' = "wait"
    BY <1>13 DEF ReconnectReset, ConnectionInv, world
  <2>2. closed' \subseteq 1..disconnect' /\ disconnect' \notin closed'
    BY <2>1 DEF ConnectionInv, TypeOK, FieldsOK, Conns
  <2>3. \A k \in Conns : k > disconnect' => ipc'[k] = "none"
    BY <1>13, <2>1 DEF ReconnectReset, ConnectionInv, TypeOK, FieldsOK, InOK,
                       Conns
  <2>4. connEstablished
    BY <1>13 DEF ReconnectReset, ConnectionInv
  <2> QED
    BY <2>1, <2>2, <2>3, <2>4 DEF ConnectionInv, DisconnectChannel
<1>14. CASE AppDisconnect
  BY <1>14, ConnectionClose DEF AppDisconnect, inVars
<1>15. CASE AppCleanup \/ Shutdown
  BY <1>15, ConnectionFrame DEF AppCleanup, Shutdown, inVars
<1>16. CASE ShutdownDisconnect
  BY <1>16, ConnectionFrame, ConnectionClose DEF ShutdownDisconnect, inVars
<1>17. ASSUME NEW k \in Conns, ConnLost(k) PROVE ConnectionInv'
  BY <1>17, ConnectionFrame DEF ConnLost, fields, inVars
<1>18. CASE UNCHANGED vars
  BY <1>18, ConnectionFrame DEF vars, fields, world, inVars
<1> QED
  BY <1>1, <1>2, <1>3, <1>4, <1>5, <1>6, <1>7, <1>8, <1>9, <1>10, <1>11,
     <1>12, <1>13, <1>14, <1>15, <1>16, <1>17, <1>18
     DEF Next, InHandler, Reconnect, Application, ApplicationReturn

(***************************************************************************)
(* The types are right, doDisconnect never closes a closed channel,        *)
(* disconnected always tells whether the current channel is closed, and    *)
(* c.wsConn belongs to that channel except between dial and reset.         *)
(***************************************************************************)
THEOREM ConnectionCorrect == Spec => [](TypeOK /\ ConnectionInv)
<1>1. Init => TypeOK /\ ConnectionInv
  BY TypeInit, ConnectionInit
<1>2. TypeOK /\ ConnectionInv /\ [Next]_vars => (TypeOK /\ ConnectionInv)'
  BY TypeStep, ConnectionStep
<1> QED
  BY <1>1, <1>2, PTL DEF Spec

-----------------------------------------------------------------------------
(* Futures.  Every step has one of seven effects on them.                  *)

SameDelivering == \A k \in Conns : ipc'[k] = "deliver" <=> ipc[k] = "deliver"

NoEffect ==
  /\ UNCHANGED <<responses, requests, ireq, shutdown>>
  /\ \A r \in Reqs : spc'[r] = "idle" <=> spc[r] = "idle"
  /\ SameDelivering

Rejected(r) ==
  /\ spc[r] = "idle"
  /\ spc' = [spc EXCEPT ![r] = "done"]
  /\ \E err \in Errors :
       responses' = [responses EXCEPT ![r] = Append(@, err)]
  /\ UNCHANGED <<requests, ireq, shutdown>>
  /\ SameDelivering

Added(r) ==
  /\ spc[r] = "idle"
  /\ ~shutdown
  /\ spc' = [spc EXCEPT ![r] = "chan"]
  /\ requests' = requests \cup {r}
  /\ UNCHANGED <<responses, ireq, shutdown>>
  /\ SameDelivering

Claimed(k, r) ==
  /\ r \in requests
  /\ ipc[k] = "read"
  /\ requests' = requests \ {r}
  /\ ireq' = [ireq EXCEPT ![k] = {r}]
  /\ ipc' = [ipc EXCEPT ![k] = "deliver"]
  /\ UNCHANGED <<responses, spc, shutdown>>

Answered(k, r) ==
  /\ r \in ireq[k]
  /\ \E reply \in Replies :
       responses' = [responses EXCEPT ![r] = Append(@, reply)]
  /\ ireq' = [ireq EXCEPT ![k] = {}]
  /\ ipc' = [ipc EXCEPT ![k] = "top"]
  /\ UNCHANGED <<requests, spc, shutdown>>

Closed ==
  /\ \E err \in Errors : FailPending(err)
  /\ shutdown' = TRUE
  /\ UNCHANGED <<spc, ireq>>
  /\ SameDelivering

Forgot ==
  /\ requests' = {r \in requests : MethodOf(r) \notin IgnoreResends}
  /\ UNCHANGED <<responses, spc, ireq, shutdown, ipc>>

Effect ==
  \/ NoEffect
  \/ \E r \in Reqs : Rejected(r) \/ Added(r)
  \/ \E k \in Conns, r \in Reqs : Claimed(k, r) \/ Answered(k, r)
  \/ Closed
  \/ Forgot

\* addRequest adds its request, or answers it after the shutdown.
LEMMA AddEffect ==
  ASSUME NEW r \in Reqs, AddRequest(r), UNCHANGED <<ireq, shutdown>>,
         SameDelivering
  PROVE  Effect
  BY DEF AddRequest, Effect, Rejected, Added, Errors

\* DisconnectCleanup answers everything pending, or nothing changes.
LEMMA CleanupEffect ==
  ASSUME DisconnectCleanup, UNCHANGED <<spc, ireq>>, SameDelivering
  PROVE  Effect
  BY DEF DisconnectCleanup, Effect, NoEffect, Closed, Errors

\* Every step has one of the effects.
LEMMA StepEffect ==
  ASSUME TypeOK, ConnectionInv, [Next]_vars
  PROVE  Effect
<1>1. ASSUME NEW r \in Reqs, Sender(r) PROVE Effect
  <2>1. \A s \in Reqs : spc'[s] = "idle" <=> spc[s] = "idle"
    BY <1>1 DEF Sender, SendDisconnectChan, SendMessage, TypeOK, SendersOK
  <2> QED
    BY <1>1, <2>1 DEF Sender, SendDisconnectChan, SendMessage, fields, world,
                      inVars, Effect, NoEffect, SameDelivering
<1>2. ASSUME NEW r \in Calls, SendCmdError(r) PROVE Effect
  BY <1>2 DEF SendCmdError, Effect, Rejected, Errors, Reqs, fields, inVars,
              SameDelivering
<1>3. ASSUME NEW r \in Calls, SendRequest(r) PROVE Effect
  BY <1>3, AddEffect DEF SendRequest, Reqs, inVars, SameDelivering
<1>4. ASSUME NEW k \in Conns,
             InTop(k) \/ InReadError(k) \/ InOther(k) \/ InReturn(k)
      PROVE  Effect
  <2>1. SameDelivering
    BY <1>4 DEF InTop, InReadError, InOther, InReturn, SameDelivering, TypeOK,
                InOK
  <2> QED
    BY <1>4, <2>1 DEF InTop, InReadError, InOther, InReturn, fields, world,
                      senders, Effect, NoEffect
<1>22. ASSUME NEW k \in Conns, InNtfn(k) PROVE Effect
  <2>1. PICK r \in BlockingCalls : AddRequest(r)
    BY <1>22 DEF InNtfn
  <2>2. SameDelivering
    BY <1>22 DEF InNtfn, SameDelivering, TypeOK, InOK
  <2> QED
    BY <1>22, <2>1, <2>2, AddEffect, ClientAssumption DEF InNtfn, Reqs
<1>5. ASSUME NEW k \in Conns, InReply(k) PROVE Effect
  <2>1. UNCHANGED <<responses, spc, shutdown>> /\ ipc[k] = "read"
    BY <1>5 DEF InReply, senders
  <2>2. PICK r \in Reqs :
          \/ /\ r \in requests
             /\ requests' = requests \ {r}
             /\ ireq' = [ireq EXCEPT ![k] = {r}]
             /\ ipc' = [ipc EXCEPT ![k] = "deliver"]
          \/ /\ ipc' = [ipc EXCEPT ![k] = "top"]
             /\ UNCHANGED <<requests, ireq>>
    BY <1>5 DEF InReply
  <2>3. CASE ipc' = [ipc EXCEPT ![k] = "top"] /\ UNCHANGED <<requests, ireq>>
    <3>1. SameDelivering
      BY <2>1, <2>3 DEF SameDelivering, TypeOK, InOK
    <3> QED
      BY <2>1, <2>3, <3>1 DEF Effect, NoEffect
  <2> QED
    BY <2>1, <2>2, <2>3 DEF Effect, Claimed
<1>6. ASSUME NEW k \in Conns, InDeliver(k) PROVE Effect
  <2>1. PICK r \in ireq[k] : \E reply \in Replies :
          responses' = [responses EXCEPT ![r] = Append(@, reply)]
    BY <1>6 DEF InDeliver
  <2>2. r \in Reqs
    BY <2>1 DEF TypeOK, InOK
  <2>3. Answered(k, r)
    BY <1>6, <2>1 DEF InDeliver, Answered, senders
  <2> QED
    BY <2>2, <2>3 DEF Effect
<1>7. ASSUME NEW k \in Conns, InDisconnect(k) PROVE Effect
  <2>1. SameDelivering
    BY <1>7 DEF InDisconnect, DoDisconnect, SameDelivering, TypeOK, InOK
  <2> QED
    BY <1>7, <2>1 DEF InDisconnect, senders, Effect, NoEffect
<1>8. ASSUME NEW k \in Conns, InCleanup(k) PROVE Effect
  <2>1. SameDelivering
    BY <1>8 DEF InCleanup, SameDelivering, TypeOK, InOK
  <2> QED
    BY <1>8, <2>1, CleanupEffect DEF InCleanup, senders
<1>9. ASSUME NEW k \in Conns, OutHandler(k), ~OutCleanup(k) PROVE Effect
  BY <1>9 DEF OutHandler, OutTop, OutSelect, OutBeginWrite, OutEndWrite,
              OutDisconnect, OutDrain, fields, world, senders, inVars,
              Effect, NoEffect, SameDelivering
<1>10. ASSUME NEW k \in Conns, OutCleanup(k) PROVE Effect
  BY <1>10, CleanupEffect DEF OutCleanup, senders, inVars, SameDelivering
<1>11. ASSUME NEW k \in Conns, Resend(k), ~ResendRegister(k),
              ~ResendCleanup(k), ~ResendCopy(k)
       PROVE  Effect
  BY <1>11 DEF Resend, ResendCopyState, ResendAwait, ResendRegistered,
               ResendDisconnect, ResendLoop, ResendDisconnectChan,
               ResendMessage, fields, world, senders, inVars, Effect,
               NoEffect, SameDelivering
<1>12. ASSUME NEW k \in Conns, ResendRegister(k) PROVE Effect
  <2>1. PICK kd \in rtodo[k] : AddRequest([conn |-> k, kind |-> kd])
    BY <1>12 DEF ResendRegister
  <2>2. [conn |-> k, kind |-> kd] \in Reqs
    BY <2>1 DEF TypeOK, ResendOK, Reqs, Regs
  <2> QED
    BY <1>12, <2>1, <2>2, AddEffect DEF ResendRegister, inVars, SameDelivering
<1>13. ASSUME NEW k \in Conns, ResendCleanup(k) PROVE Effect
  BY <1>13, CleanupEffect DEF ResendCleanup, senders, inVars, SameDelivering
<1>14. ASSUME NEW k \in Conns, ResendCopy(k) PROVE Effect
  BY <1>14 DEF ResendCopy, world, senders, inVars, Effect, Forgot
<1>15. CASE ReconnectWait \/ ReconnectCheck \/ DialError \/ DialOK
  BY <1>15 DEF ReconnectWait, ReconnectCheck, DialError, DialOK, fields, world,
               senders, inVars, Effect, NoEffect, SameDelivering
<1>16. CASE ReconnectReset
  <2>1. wsConn > disconnect
    BY <1>16 DEF ReconnectReset, ConnectionInv, TypeOK, FieldsOK, Conns
  <2>2. SameDelivering
    BY <1>16, <2>1 DEF ReconnectReset, ConnectionInv, SameDelivering, TypeOK,
                       InOK
  <2> QED
    BY <1>16, <2>2 DEF ReconnectReset, world, senders, Effect, NoEffect
<1>17. CASE AppDisconnect \/ ShutdownDisconnect
  BY <1>17 DEF AppDisconnect, ShutdownDisconnect, senders, inVars, Effect,
               NoEffect, SameDelivering
<1>18. CASE AppCleanup
  BY <1>18, CleanupEffect DEF AppCleanup, senders, inVars, SameDelivering
<1>19. CASE Shutdown
  BY <1>19 DEF Shutdown, senders, inVars, Effect, Closed, Errors,
               SameDelivering
<1>20. ASSUME NEW k \in Conns, ConnLost(k) PROVE Effect
  BY <1>20 DEF ConnLost, fields, senders, inVars, Effect, NoEffect,
               SameDelivering
<1>21. CASE UNCHANGED vars
  BY <1>21 DEF vars, fields, world, senders, inVars, Effect, NoEffect,
               SameDelivering
<1> QED
  BY <1>1, <1>2, <1>3, <1>4, <1>5, <1>6, <1>7, <1>8, <1>9, <1>10, <1>11,
     <1>12, <1>13, <1>14, <1>15, <1>16, <1>17, <1>18, <1>19, <1>20, <1>21,
     <1>22
     DEF Next, InHandler, Reconnect, Application, ApplicationReturn

\* Nothing that was answered becomes unanswered.
LEMMA AppendNotEmpty ==
  ASSUME NEW S, NEW s \in Seq(S), NEW e \in S
  PROVE  Append(s, e) # <<>>
<1>1. Len(Append(s, e)) = Len(s) + 1 /\ Len(s) \in Nat
  OBVIOUS
<1>2. Len(<<>>) = 0
  OBVIOUS
<1> QED
  BY <1>1, <1>2

\* Who may answer a request, step by step.
LEMMA OwnershipStep ==
  ASSUME TypeOK, OwnershipInv, Effect
  PROVE  OwnershipInv'
<1>1. CASE NoEffect
  <2>1. UnsentUnanswered'
    BY <1>1 DEF NoEffect, SameDelivering, OwnershipInv, UnsentUnanswered, TypeOK
  <2>2. PendingUnanswered'
    BY <1>1 DEF NoEffect, SameDelivering, OwnershipInv, PendingUnanswered, TypeOK, FieldsOK
  <2>3. HeldUnanswered'
    BY <1>1 DEF NoEffect, SameDelivering, OwnershipInv, HeldUnanswered, TypeOK, InOK
  <2>4. HeldOnce'
    BY <1>1 DEF NoEffect, SameDelivering, OwnershipInv, HeldOnce, TypeOK, InOK
  <2> QED
    BY <2>1, <2>2, <2>3, <2>4 DEF OwnershipInv
<1>2. ASSUME NEW r \in Reqs, Rejected(r) PROVE OwnershipInv'
  <2>1. UnsentUnanswered'
    BY <1>2 DEF Rejected, SameDelivering, OwnershipInv, UnsentUnanswered, TypeOK, WorldOK, SendersOK
  <2>2. PendingUnanswered'
    BY <1>2 DEF Rejected, SameDelivering, OwnershipInv, PendingUnanswered, TypeOK, FieldsOK, WorldOK, SendersOK
  <2>3. HeldUnanswered'
    BY <1>2 DEF Rejected, SameDelivering, OwnershipInv, HeldUnanswered, TypeOK, InOK, WorldOK, SendersOK
  <2>4. HeldOnce'
    BY <1>2 DEF Rejected, SameDelivering, OwnershipInv, HeldOnce, TypeOK, InOK
  <2> QED
    BY <2>1, <2>2, <2>3, <2>4 DEF OwnershipInv
<1>3. ASSUME NEW r \in Reqs, Added(r) PROVE OwnershipInv'
  <2>1. UnsentUnanswered'
    BY <1>3 DEF Added, SameDelivering, OwnershipInv, UnsentUnanswered, TypeOK, SendersOK
  <2>2. PendingUnanswered'
    BY <1>3 DEF Added, SameDelivering, OwnershipInv, PendingUnanswered, TypeOK, FieldsOK, SendersOK, UnsentUnanswered
  <2>3. HeldUnanswered'
    BY <1>3 DEF Added, SameDelivering, OwnershipInv, HeldUnanswered, TypeOK, InOK, SendersOK
  <2>4. HeldOnce'
    BY <1>3 DEF Added, SameDelivering, OwnershipInv, HeldOnce, TypeOK, InOK
  <2> QED
    BY <2>1, <2>2, <2>3, <2>4 DEF OwnershipInv
<1>4. ASSUME NEW k \in Conns, NEW r \in Reqs, Claimed(k, r)
      PROVE  OwnershipInv'
  <2>1. UnsentUnanswered'
    BY <1>4 DEF Claimed, OwnershipInv, UnsentUnanswered, TypeOK
  <2>2. PendingUnanswered'
    BY <1>4 DEF Claimed, OwnershipInv, PendingUnanswered, TypeOK, FieldsOK
  <2>3. HeldUnanswered'
    BY <1>4 DEF Claimed, OwnershipInv, HeldUnanswered, TypeOK, InOK, PendingUnanswered
  <2>4. HeldOnce'
    BY <1>4 DEF Claimed, OwnershipInv, HeldOnce, TypeOK, InOK, HeldUnanswered
  <2> QED
    BY <2>1, <2>2, <2>3, <2>4 DEF OwnershipInv
<1>5. ASSUME NEW k \in Conns, NEW r \in Reqs, Answered(k, r)
      PROVE  OwnershipInv'
  <2>1. UnsentUnanswered'
    BY <1>5 DEF Answered, OwnershipInv, UnsentUnanswered, TypeOK, WorldOK, HeldUnanswered
  <2>2. PendingUnanswered'
    BY <1>5 DEF Answered, OwnershipInv, PendingUnanswered, TypeOK, FieldsOK, WorldOK, HeldUnanswered
  <2>3. HeldUnanswered'
    BY <1>5 DEF Answered, OwnershipInv, HeldUnanswered, TypeOK, InOK, HeldOnce, WorldOK
  <2>4. HeldOnce'
    BY <1>5 DEF Answered, OwnershipInv, HeldOnce, TypeOK, InOK
  <2> QED
    BY <2>1, <2>2, <2>3, <2>4 DEF OwnershipInv
<1>6. CASE Closed
  <2>1. UnsentUnanswered'
    BY <1>6 DEF Closed, FailPending, SameDelivering, OwnershipInv, UnsentUnanswered, TypeOK, PendingUnanswered
  <2>2. PendingUnanswered'
    BY <1>6 DEF Closed, FailPending, SameDelivering, OwnershipInv, PendingUnanswered, TypeOK, FieldsOK
  <2>3. HeldUnanswered'
    BY <1>6 DEF Closed, FailPending, SameDelivering, OwnershipInv, HeldUnanswered, TypeOK, InOK
  <2>4. HeldOnce'
    BY <1>6 DEF Closed, FailPending, SameDelivering, OwnershipInv, HeldOnce, TypeOK, InOK
  <2> QED
    BY <2>1, <2>2, <2>3, <2>4 DEF OwnershipInv
<1>7. CASE Forgot
  <2>1. UnsentUnanswered'
    BY <1>7 DEF Forgot, OwnershipInv, UnsentUnanswered, TypeOK
  <2>2. PendingUnanswered'
    BY <1>7 DEF Forgot, OwnershipInv, PendingUnanswered, TypeOK, FieldsOK
  <2>3. HeldUnanswered'
    BY <1>7 DEF Forgot, OwnershipInv, HeldUnanswered, TypeOK, InOK
  <2>4. HeldOnce'
    BY <1>7 DEF Forgot, OwnershipInv, HeldOnce, TypeOK, InOK
  <2> QED
    BY <2>1, <2>2, <2>3, <2>4 DEF OwnershipInv
<1> QED
  BY <1>1, <1>2, <1>3, <1>4, <1>5, <1>6, <1>7 DEF Effect

\* A response is sent only to a request that has none.
LEMMA SingleResponseStep ==
  ASSUME TypeOK, OwnershipInv, SingleResponse, Effect
  PROVE  SingleResponse'
<1>1. CASE UNCHANGED responses
  BY <1>1 DEF SingleResponse
<1>2. ASSUME NEW r \in Reqs, NEW m \in Errors \cup Replies,
             responses[r] = <<>>,
             responses' = [responses EXCEPT ![r] = Append(@, m)]
      PROVE  SingleResponse'
  BY <1>2 DEF SingleResponse, TypeOK, WorldOK
<1>3. ASSUME NEW r \in Reqs, Rejected(r) PROVE SingleResponse'
  BY <1>2, <1>3 DEF Rejected, SameDelivering, OwnershipInv, UnsentUnanswered
<1>4. ASSUME NEW k \in Conns, NEW r \in Reqs, Answered(k, r)
      PROVE  SingleResponse'
  BY <1>2, <1>4 DEF Answered, OwnershipInv, HeldUnanswered
<1>5. CASE Closed
  <2>1. PICK err \in Errors : FailPending(err)
    BY <1>5 DEF Closed
  <2>2. ASSUME NEW r \in Reqs PROVE Len(responses'[r]) <= 1
    <3>1. CASE r \in requests
      BY <2>1, <3>1 DEF FailPending, OwnershipInv, PendingUnanswered
    <3>2. CASE r \notin requests
      BY <2>1, <3>2 DEF FailPending, SingleResponse
    <3> QED
      BY <3>1, <3>2
  <2> QED
    BY <2>2 DEF SingleResponse
<1> QED
  BY <1>1, <1>3, <1>4, <1>5 DEF Effect, NoEffect, Added, Claimed, Forgot

\* Every step keeps NothingPendingAfterShutdown.
LEMMA PendingStep ==
  ASSUME NothingPendingAfterShutdown, Effect
  PROVE  NothingPendingAfterShutdown'
  BY DEF NothingPendingAfterShutdown, Effect, NoEffect, Rejected, Added,
         Claimed, Answered, Closed, FailPending, Forgot

\* Every step keeps NoOrphans.
LEMMA NoOrphansStep ==
  ASSUME TypeOK, OwnershipInv, NoOrphans, Effect
  PROVE  NoOrphans'
<1>1. CASE NoEffect
  BY <1>1 DEF NoEffect, NoOrphans
<1>2. ASSUME NEW r \in Reqs, Rejected(r) PROVE NoOrphans'
  <2>1. responses'[r] # <<>>
    BY <1>2, AppendNotEmpty DEF Rejected, TypeOK, WorldOK
  <2> QED
    BY <1>2, <2>1 DEF Rejected, NoOrphans, TypeOK, WorldOK, SendersOK
<1>3. ASSUME NEW r \in Reqs, Added(r) PROVE NoOrphans'
  BY <1>3 DEF Added, NoOrphans, TypeOK, SendersOK
<1>4. ASSUME NEW k \in Conns, NEW r \in Reqs, Claimed(k, r)
      PROVE  NoOrphans'
  BY <1>4 DEF Claimed, NoOrphans, OwnershipInv, HeldOnce, TypeOK, InOK
<1>5. ASSUME NEW k \in Conns, NEW r \in Reqs, Answered(k, r)
      PROVE  NoOrphans'
  <2>1. PICK reply \in Replies :
          responses' = [responses EXCEPT ![r] = Append(@, reply)]
    BY <1>5 DEF Answered
  <2>2. responses'[r] # <<>>
    BY <2>1, AppendNotEmpty DEF TypeOK, WorldOK
  <2>3. \A s \in Reqs \ {r} : responses'[s] = responses[s]
    BY <2>1 DEF TypeOK, WorldOK
  <2>4. \A s \in Reqs \ {r} : \A j \in Conns : s \in ireq[j] => s \in ireq'[j]
    BY <1>5 DEF Answered, OwnershipInv, HeldOnce, TypeOK, InOK
  <2> QED
    BY <1>5, <2>2, <2>3, <2>4 DEF Answered, NoOrphans
<1>6. CASE Closed
  <2>1. \A r \in requests : responses'[r] # <<>>
    <3>1. PICK err \in Errors : FailPending(err)
      BY <1>6 DEF Closed
    <3>2. \A r \in requests : responses'[r] = Append(responses[r], err)
      BY <3>1 DEF FailPending, TypeOK, FieldsOK
    <3>3. \A r \in requests : responses[r] \in Seq(Errors \cup Replies)
      BY DEF TypeOK, FieldsOK, WorldOK
    <3> QED
      BY <3>2, <3>3, AppendNotEmpty
  <2> QED
    BY <1>6, <2>1 DEF Closed, FailPending, NoOrphans, TypeOK, WorldOK
<1>7. CASE Forgot
  BY <1>7 DEF Forgot, NoOrphans
<1> QED
  BY <1>1, <1>2, <1>3, <1>4, <1>5, <1>6, <1>7 DEF Effect

\* The inductive invariant.
ClientInv ==
  /\ TypeOK
  /\ ConnectionInv
  /\ OwnershipInv
  /\ SingleResponse
  /\ NothingPendingAfterShutdown
  /\ NoOrphans

\* Init establishes ClientInv.
LEMMA ClientInit == Init => ClientInv
<1> SUFFICES ASSUME Init PROVE ClientInv
  OBVIOUS
<1>1. OwnershipInv
  BY DEF Init, OwnershipInv, UnsentUnanswered, PendingUnanswered,
         HeldUnanswered, HeldOnce
<1>2. SingleResponse /\ NothingPendingAfterShutdown /\ NoOrphans
  BY DEF Init, SingleResponse, NothingPendingAfterShutdown, NoOrphans
<1> QED
  BY <1>1, <1>2, TypeInit, ConnectionInit DEF ClientInv

\* Every step keeps ClientInv.
LEMMA ClientStep == ClientInv /\ [Next]_vars => ClientInv'
<1> SUFFICES ASSUME ClientInv, [Next]_vars PROVE ClientInv'
  OBVIOUS
<1>1. TypeOK' /\ ConnectionInv'
  BY TypeStep, ConnectionStep DEF ClientInv
<1>2. Effect
  BY StepEffect DEF ClientInv
<1> QED
  BY <1>1, <1>2, OwnershipStep, SingleResponseStep, PendingStep, NoOrphansStep
     DEF ClientInv

\* ClientInv is an invariant of the specification.
LEMMA ClientInvariant == Spec => []ClientInv
  BY ClientInit, ClientStep, PTL DEF Spec

(***************************************************************************)
(* No response channel is written twice: neither handleMessage nor a       *)
(* Disconnect or Shutdown that holds requestLock can block on one.         *)
(***************************************************************************)
THEOREM SingleResponseCorrect == Spec => []SingleResponse
  BY ClientInvariant, PTL DEF ClientInv

(***************************************************************************)
(* The client never loses track of an unanswered request, a rescan dropped *)
(* by resendRequests excepted, and once the shutdown channel is closed no  *)
(* request is pending, whichever of Disconnect and Shutdown closed it and  *)
(* whoever was sending meanwhile.                                          *)
(***************************************************************************)
THEOREM BooksCorrect == Spec => []BooksKept
<1>1. ClientInv => BooksKept
  BY DEF ClientInv, BooksKept
<1> QED
  BY <1>1, ClientInvariant, PTL

-----------------------------------------------------------------------------
(* The client implements Futures.                                          *)

StatusOfAll == [r \in Reqs |-> FutureStatus(r)]

\* Each effect is a step of Futures.
LEMMA EffectIsStep ==
  ASSUME TypeOK, OwnershipInv, NothingPendingAfterShutdown, Effect
  PROVE  [Promise!Next]_(Promise!vars)
<1>1. CASE NoEffect
  <2>1. StatusOfAll' = StatusOfAll
    BY <1>1 DEF NoEffect, StatusOfAll, FutureStatus
  <2> QED
    BY <1>1, <2>1 DEF NoEffect, StatusOfAll, Promise!vars
<1>2. ASSUME NEW r \in Reqs, Rejected(r) PROVE Promise!Reject(r)
  <2>1. responses'[r] # <<>> /\ responses[r] = <<>>
    BY <1>2, AppendNotEmpty
       DEF Rejected, SameDelivering, OwnershipInv, UnsentUnanswered, TypeOK, WorldOK
  <2>2. FutureStatus(r) = "new" /\ FutureStatus(r)' = "answered"
    BY <1>2, <2>1 DEF Rejected, FutureStatus
  <2>3. \A s \in Reqs \ {r} : FutureStatus(s)' = FutureStatus(s)
    BY <1>2 DEF Rejected, FutureStatus, TypeOK, WorldOK, SendersOK
  <2> QED
    BY <1>2, <2>2, <2>3 DEF Rejected, Promise!Reject, Promise!Move
<1>3. ASSUME NEW r \in Reqs, Added(r) PROVE Promise!Issue(r)
  <2>1. FutureStatus(r) = "new" /\ FutureStatus(r)' = "pending"
    BY <1>3 DEF Added, FutureStatus, OwnershipInv, UnsentUnanswered, TypeOK,
                SendersOK
  <2>2. \A s \in Reqs \ {r} : FutureStatus(s)' = FutureStatus(s)
    BY <1>3 DEF Added, FutureStatus, TypeOK, SendersOK
  <2> QED
    BY <1>3, <2>1, <2>2 DEF Added, Promise!Issue, Promise!Move
<1>4. ASSUME NEW k \in Conns, NEW r \in Reqs, Claimed(k, r)
      PROVE  Promise!Claim(r)
  <2>1. FutureStatus(r) = "pending" /\ FutureStatus(r)' = "claimed"
    BY <1>4 DEF Claimed, FutureStatus, OwnershipInv, PendingUnanswered, TypeOK,
                InOK
  <2>2. ireq[k] = {}
    BY <1>4 DEF Claimed, OwnershipInv, HeldOnce
  <2>3. \A s \in Reqs \ {r} : FutureStatus(s)' = FutureStatus(s)
    BY <1>4, <2>2 DEF Claimed, FutureStatus, TypeOK, InOK
  <2> QED
    BY <1>4, <2>1, <2>3 DEF Claimed, Promise!Claim, Promise!Move
<1>5. ASSUME NEW k \in Conns, NEW r \in Reqs, Answered(k, r)
      PROVE  Promise!Answer(r)
  <2>1. /\ responses[r] = <<>>
        /\ spc[r] # "idle"
        /\ r \notin requests
        /\ ireq[k] = {r}
    BY <1>5 DEF Answered, OwnershipInv, HeldUnanswered, HeldOnce
  <2>2. responses'[r] # <<>>
    <3>1. PICK reply \in Replies :
            responses' = [responses EXCEPT ![r] = Append(@, reply)]
      BY <1>5 DEF Answered
    <3>2. responses'[r] = Append(responses[r], reply)
      BY <3>1 DEF TypeOK, WorldOK
    <3>3. responses[r] \in Seq(Errors \cup Replies)
      BY DEF TypeOK, WorldOK
    <3> QED
      BY <3>2, <3>3, AppendNotEmpty
  <2>3. FutureStatus(r) = "claimed" /\ FutureStatus(r)' = "answered"
    BY <1>5, <2>1, <2>2 DEF Answered, FutureStatus
  <2>4. \A s \in Reqs \ {r} : FutureStatus(s)' = FutureStatus(s)
    BY <1>5, <2>1 DEF Answered, FutureStatus, TypeOK, WorldOK, InOK
  <2> QED
    BY <1>5, <2>3, <2>4 DEF Answered, Promise!Answer, Promise!Move
<1>6. CASE Closed
  <2>1. PICK err \in Errors : FailPending(err)
    BY <1>6 DEF Closed
  <2>2. ASSUME NEW r \in Reqs, r \in requests
        PROVE  FutureStatus(r) = "pending" /\ FutureStatus(r)' = "answered"
    <3>1. responses'[r] # <<>>
      BY <2>1, <2>2, AppendNotEmpty DEF FailPending, TypeOK, WorldOK
    <3> QED
      BY <2>2, <3>1 DEF FutureStatus, OwnershipInv, PendingUnanswered
  <2>3. ASSUME NEW r \in Reqs, r \notin requests
        PROVE  FutureStatus(r) # "pending" /\ FutureStatus(r)' = FutureStatus(r)
    BY <1>6, <2>1, <2>3 DEF Closed, FailPending, FutureStatus
  <2>4. StatusOfAll' = [r \in Reqs |-> IF StatusOfAll[r] = "pending"
                                       THEN "answered" ELSE StatusOfAll[r]]
    BY <2>2, <2>3 DEF StatusOfAll
  <2> QED
    BY <1>6, <2>4 DEF Closed, StatusOfAll, Promise!Next, Promise!Close
<1>7. CASE Forgot
  <2>1. ASSUME NEW r \in Reqs, r \in requests,
               MethodOf(r) \in IgnoreResends
        PROVE  FutureStatus(r) = "pending" /\ FutureStatus(r)' = "forgotten"
    BY <1>7, <2>1 DEF Forgot, FutureStatus, OwnershipInv, PendingUnanswered,
                      HeldUnanswered
  <2>2. ASSUME NEW r \in Reqs,
               ~(r \in requests /\ MethodOf(r) \in IgnoreResends)
        PROVE  /\ FutureStatus(r)' = FutureStatus(r)
               /\ ~(FutureStatus(r) = "pending" /\ MethodOf(r) \in IgnoreResends)
    BY <1>7, <2>2 DEF Forgot, FutureStatus
  <2>3. StatusOfAll' =
          [r \in Reqs |->
             IF StatusOfAll[r] = "pending"
                  /\ r \in {s \in Reqs : MethodOf(s) \in IgnoreResends}
             THEN "forgotten" ELSE StatusOfAll[r]]
    BY <2>1, <2>2 DEF StatusOfAll
  <2> QED
    BY <1>7, <2>3 DEF Forgot, StatusOfAll, Promise!Next, Promise!Forget
<1> QED
  BY <1>1, <1>2, <1>3, <1>4, <1>5, <1>6, <1>7 DEF Effect, Promise!Next

(***************************************************************************)
(* Every behaviour of the client is one of Futures: a future is answered   *)
(* at most once, by the party that removed the request, and closing the    *)
(* client answers everything that is pending at that moment.               *)
(***************************************************************************)
THEOREM ClientImplementsFutures == Spec => ImplementsFutures
<1>1. Init => Promise!Init
  BY DEF Init, Promise!Init, FutureStatus
<1>2. ClientInv /\ [Next]_vars => [Promise!Next]_(Promise!vars)
  BY StepEffect, EffectIsStep DEF ClientInv
<1> QED
  BY <1>1, <1>2, ClientInvariant, PTL DEF Spec, ImplementsFutures, Promise!Spec

-----------------------------------------------------------------------------
(* A callback that waits.                                                  *)

\* Without the reconnect handler the one input handler is that of New.
OnlyHandler ==
  ~AutoReconnect => wpc = "none" /\ \A k \in Conns : k # 1 => ipc[k] = "none"

\* An input handler whose callback waits does nothing else.
CallbackPC == \A k \in Conns : icall[k] # {} => ipc[k] = "callback"

CallbackInv == OnlyHandler /\ CallbackPC /\ CallbackUnanswered

\* Only a reconnect starts another input handler.
LEMMA OnlyHandlerStep ==
  ASSUME TypeOK, OnlyHandler, [Next]_vars
  PROVE  OnlyHandler'
<1>1. SUFFICES ASSUME ~AutoReconnect PROVE OnlyHandler'
  BY DEF OnlyHandler
<1>2. wpc = "none" /\ \A k \in Conns : k # 1 => ipc[k] = "none"
  BY <1>1 DEF OnlyHandler
<1>3. wpc' = wpc
  BY <1>2 DEF Next, vars, Sender, SendDisconnectChan, SendMessage, InHandler,
     InTop, InReply, InDeliver, InReadError, InDisconnect, InCleanup, InReturn,
     InNtfn, InOther, OutHandler, OutTop, OutSelect, OutBeginWrite,
     OutEndWrite, OutDisconnect, OutCleanup, OutDrain, Resend,
     ResendCopyState, ResendRegister, ResendAwait, ResendRegistered,
     ResendDisconnect, ResendCleanup, ResendCopy, ResendLoop,
     ResendDisconnectChan, ResendMessage, Reconnect, ReconnectWait,
     ReconnectCheck, DialError, DialOK, ReconnectReset, Application,
     SendCmdError, SendRequest, AppDisconnect, Shutdown, ApplicationReturn,
     AppCleanup, ShutdownDisconnect, ConnLost
<1>4. \A k \in Conns : ipc[k] = "none" => ipc'[k] = "none"
  <2>1. ASSUME NEW k \in Conns, InHandler(k) \/ InNtfn(k) \/ InOther(k)
        PROVE  \A j \in Conns : ipc[j] = "none" => ipc'[j] = "none"
    BY <2>1 DEF TypeOK, InOK, InHandler, InTop, InReply, InDeliver,
       InReadError, InDisconnect, DoDisconnect, InCleanup, InReturn, InNtfn,
       InOther
  <2>2. CASE UNCHANGED ipc
    BY <2>2
  <2>3. ASSUME NEW r \in Reqs, Sender(r) PROVE UNCHANGED ipc
    BY <2>3 DEF Sender, SendDisconnectChan, SendMessage, inVars
  <2>4. ASSUME NEW k \in Conns, OutHandler(k) PROVE UNCHANGED ipc
    BY <2>4 DEF OutHandler, OutTop, OutSelect, OutBeginWrite, OutEndWrite,
       OutDisconnect, OutCleanup, OutDrain, inVars
  <2>5. ASSUME NEW k \in Conns, Resend(k) PROVE UNCHANGED ipc
    BY <2>5 DEF Resend, ResendCopyState, ResendRegister, ResendAwait,
       ResendRegistered, ResendDisconnect, ResendCleanup, ResendCopy,
       ResendLoop, ResendDisconnectChan, ResendMessage, inVars
  <2>6. ~Reconnect
    BY <1>2 DEF Reconnect, ReconnectWait, ReconnectCheck, DialError, DialOK,
       ReconnectReset
  <2>7. CASE Application \/ ApplicationReturn
    BY <2>7 DEF Application, SendCmdError, SendRequest, AppDisconnect,
       Shutdown, ApplicationReturn, AppCleanup, ShutdownDisconnect, inVars
  <2>8. ASSUME NEW k \in Conns, ConnLost(k) PROVE UNCHANGED ipc
    BY <2>8 DEF ConnLost, inVars
  <2>9. CASE UNCHANGED vars
    BY <2>9 DEF vars, inVars
  <2> QED
    BY <2>1, <2>2, <2>3, <2>4, <2>5, <2>6, <2>7, <2>8, <2>9 DEF Next
<1> QED
  BY <1>2, <1>3, <1>4 DEF OnlyHandler

\* What a step may do to the request a callback waits for.
LEMMA CallbackStep ==
  ASSUME TypeOK, ConnectionInv, OwnershipInv, CallbackInv, [Next]_vars
  PROVE  CallbackPC' /\ CallbackUnanswered'
<1>1. ASSUME NEW k \in Conns, InNtfn(k)
      PROVE  CallbackPC' /\ CallbackUnanswered'
  <2>1. PICK r \in BlockingCalls :
          AddRequest(r) /\ icall' = [icall EXCEPT ![k] = {r}]
    BY <1>1 DEF InNtfn
  <2>2. r \in Reqs /\ responses[r] = <<>>
    BY <2>1, ClientAssumption
       DEF AddRequest, OwnershipInv, UnsentUnanswered, Reqs
  <2>3. CallbackPC'
    BY <1>1, <2>1 DEF InNtfn, CallbackPC, CallbackInv, TypeOK, InOK
  <2>4. \A s \in Reqs \ {r} : responses'[s] = responses[s]
    BY <2>1 DEF AddRequest, TypeOK, WorldOK
  <2>5. \A i \in DOMAIN responses'[r] : responses'[r][i] \in Errors
    <3>1. CASE UNCHANGED responses
      BY <2>2, <3>1
    <3>2. CASE responses' = [responses EXCEPT ![r] =
                               Append(@, "ErrClientShutdown")]
      <4>1. responses'[r] = Append(<<>>, "ErrClientShutdown")
        BY <2>2, <3>2 DEF TypeOK, WorldOK
      <4>2. Append(<<>>, "ErrClientShutdown") = <<"ErrClientShutdown">>
        OBVIOUS
      <4> QED
        BY <4>1, <4>2 DEF Errors
    <3> QED
      BY <2>1, <3>1, <3>2 DEF AddRequest
  <2> QED
    BY <2>1, <2>2, <2>3, <2>4, <2>5
       DEF CallbackUnanswered, CallbackInv, TypeOK, InOK, Reqs
<1>2. ASSUME NEW k \in Conns, InReturn(k)
      PROVE  CallbackPC' /\ CallbackUnanswered'
  BY <1>2 DEF InReturn, CallbackPC, CallbackUnanswered, CallbackInv, TypeOK,
              InOK, world
<1>3. CASE UNCHANGED icall /\ \A k \in Conns : ipc[k] = "callback"
                                              => ipc'[k] = "callback"
  <2>1. CallbackPC'
    BY <1>3 DEF CallbackPC, CallbackInv
  <2>2. ASSUME ~AutoReconnect, NEW k \in Conns, NEW r \in icall[k]
        PROVE  \A i \in DOMAIN responses'[r] : responses'[r][i] \in Errors
    <3>1. r \in Reqs /\ \A i \in DOMAIN responses[r] : responses[r][i] \in Errors
      BY <2>2 DEF CallbackInv, CallbackUnanswered, TypeOK, InOK, Reqs
    <3>2. ipc[k] = "callback" /\ \A j \in Conns : ipc[j] # "deliver"
      BY <2>2 DEF CallbackInv, CallbackPC, OnlyHandler
    <3>3. \A j \in Conns : ireq[j] = {}
      BY <3>2 DEF OwnershipInv, HeldOnce
    <3>4. ASSUME NEW err \in Errors, responses'[r] = Append(responses[r], err)
          PROVE  \A i \in DOMAIN responses'[r] : responses'[r][i] \in Errors
      <4>1. responses[r] \in Seq(Errors \cup Replies)
        BY <3>1 DEF TypeOK, WorldOK
      <4> QED
        BY <3>1, <3>4, <4>1
    <3>5. \/ responses'[r] = responses[r]
          \/ \E err \in Errors : responses'[r] = Append(responses[r], err)
      <4>1. CASE NoEffect \/ Forgot \/ \E s \in Reqs : Added(s)
        BY <4>1 DEF NoEffect, Forgot, Added
      <4>2. ASSUME NEW s \in Reqs, Rejected(s)
            PROVE  \/ responses'[r] = responses[r]
                   \/ \E err \in Errors : responses'[r] = Append(responses[r], err)
        BY <3>1, <4>2 DEF Rejected, TypeOK, WorldOK
      <4>3. ASSUME NEW j \in Conns, NEW s \in Reqs, Claimed(j, s)
            PROVE  responses'[r] = responses[r]
        BY <4>3 DEF Claimed
      <4>4. ASSUME NEW j \in Conns, NEW s \in Reqs, Answered(j, s)
            PROVE  FALSE
        BY <3>3, <4>4 DEF Answered
      <4>5. CASE Closed
        BY <3>1, <4>5 DEF Closed, FailPending
      <4> QED
        BY <4>1, <4>2, <4>3, <4>4, <4>5, StepEffect DEF Effect
    <3> QED
      BY <3>1, <3>4, <3>5
  <2> QED
    BY <1>3, <2>1, <2>2 DEF CallbackUnanswered
<1>4. ASSUME NEW k \in Conns, InHandler(k) \/ InOther(k), ~InReturn(k)
      PROVE  UNCHANGED icall /\ \A j \in Conns : ipc[j] = "callback"
                                                => ipc'[j] = "callback"
  BY <1>4 DEF TypeOK, InOK, InHandler, InTop, InReply, InDeliver, InReadError,
     InDisconnect, DoDisconnect, InCleanup, InOther
<1>5. CASE ReconnectReset
  <2>1. wsConn \in Conns /\ ipc[wsConn] = "none"
    BY <1>5 DEF ReconnectReset, ConnectionInv, TypeOK, FieldsOK, Conns
  <2>2. ipc' = [ipc EXCEPT ![wsConn] = "top"] /\ UNCHANGED icall
    BY <1>5 DEF ReconnectReset
  <2> QED
    BY <1>3, <2>1, <2>2 DEF TypeOK, InOK
<1>6. CASE UNCHANGED inVars
  BY <1>3, <1>6 DEF inVars
<1>7. ASSUME NEW r \in Reqs, Sender(r) PROVE UNCHANGED inVars
  BY <1>7 DEF Sender, SendDisconnectChan, SendMessage
<1>8. ASSUME NEW k \in Conns, OutHandler(k) PROVE UNCHANGED inVars
  BY <1>8 DEF OutHandler, OutTop, OutSelect, OutBeginWrite, OutEndWrite,
     OutDisconnect, OutCleanup, OutDrain
<1>9. ASSUME NEW k \in Conns, Resend(k) PROVE UNCHANGED inVars
  BY <1>9 DEF Resend, ResendCopyState, ResendRegister, ResendAwait,
     ResendRegistered, ResendDisconnect, ResendCleanup, ResendCopy,
     ResendLoop, ResendDisconnectChan, ResendMessage
<1>10. CASE Reconnect /\ ~ReconnectReset
  BY <1>6, <1>10 DEF Reconnect, ReconnectWait, ReconnectCheck, DialError, DialOK
<1>11. CASE Application \/ ApplicationReturn
  BY <1>6, <1>11 DEF Application, SendCmdError, SendRequest, AppDisconnect,
     Shutdown, ApplicationReturn, AppCleanup, ShutdownDisconnect
<1>12. ASSUME NEW k \in Conns, ConnLost(k) PROVE UNCHANGED inVars
  BY <1>12 DEF ConnLost
<1>13. CASE UNCHANGED vars
  BY <1>6, <1>13 DEF vars
<1> QED
  BY <1>1, <1>2, <1>3, <1>4, <1>5, <1>6, <1>7, <1>8, <1>9, <1>10, <1>11,
     <1>12, <1>13 DEF Next, Reconnect

(***************************************************************************)
(* The callback of a notification that makes a blocking call never gets    *)
(* the server's reply on a client that does not reconnect: the goroutine   *)
(* that would read the reply is the one that runs the callback.            *)
(***************************************************************************)
THEOREM CallbackCorrect == Spec => []CallbackUnanswered
<1>1. Init => CallbackInv
  <2>1. SUFFICES ASSUME Init PROVE CallbackInv
    OBVIOUS
  <2>2. OnlyHandler
    BY <2>1, ClientAssumption DEF Init, OnlyHandler, Conns
  <2>3. \A k \in Conns : icall[k] = {}
    BY <2>1 DEF Init
  <2> QED
    BY <2>2, <2>3 DEF CallbackInv, CallbackPC, CallbackUnanswered
<1>2. ClientInv /\ CallbackInv /\ [Next]_vars => CallbackInv'
  BY OnlyHandlerStep, CallbackStep DEF ClientInv, CallbackInv
<1>3. CallbackInv => CallbackUnanswered
  BY DEF CallbackInv
<1> QED
  BY <1>1, <1>2, <1>3, ClientInvariant, PTL DEF Spec

=============================================================================
