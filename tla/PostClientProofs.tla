--------------------------- MODULE PostClientProofs ---------------------------
(***************************************************************************)
(* How often a future of the HTTP POST client is answered, for every       *)
(* number of requests, buffer size and number of tries.                    *)
(***************************************************************************)
EXTENDS PostClient, SequenceTheorems, TLAPS

-----------------------------------------------------------------------------
(* Types.                                                                  *)

\* PostInit establishes PostTypeOK.
LEMMA TypeInit == PostInit => PostTypeOK
<1> SUFFICES ASSUME PostInit PROVE PostTypeOK
  OBVIOUS
<1>1. <<>> \in Seq(Calls) /\ <<>> \in Seq(Responses) /\ Len(<<>>) = 0
  OBVIOUS
<1>2. 0 \in 0..(Tries - 1) /\ 0 <= SendPostBufferSize
  BY PostAssumption
<1> QED
  BY <1>1, <1>2 DEF PostInit, PostTypeOK, HandlerPC

\* A response leaves its channel and the history well typed.
LEMMA RespondType ==
  ASSUME PostTypeOK, NEW r \in Calls, NEW resp \in Responses, Respond(r, resp)
  PROVE  /\ responseChan' \in [Calls -> Seq(Responses)]
         /\ responses' \in [Calls -> Seq(Responses)]
<1>1. <<resp>> \in Seq(Responses)
  OBVIOUS
<1>2. Append(responses[r], resp) \in Seq(Responses)
  BY AppendProperties DEF PostTypeOK
<1> QED
  BY <1>1, <1>2 DEF Respond, PostTypeOK

\* Taking the head of the channel.
LEMMA TakeType ==
  ASSUME PostTypeOK, sendPostChan # <<>>, sendPostChan' = Tail(sendPostChan)
  PROVE  /\ Head(sendPostChan) \in Calls
         /\ sendPostChan' \in Seq(Calls)
         /\ Len(sendPostChan') = Len(sendPostChan) - 1
         /\ Len(sendPostChan') <= SendPostBufferSize
<1>1. sendPostChan \in Seq(Calls) /\ Len(sendPostChan) <= SendPostBufferSize
  BY DEF PostTypeOK
<1> QED
  BY <1>1, PostAssumption

\* Every step keeps the types.
LEMMA TypeStep == PostTypeOK /\ [PostNext]_postVars => PostTypeOK'
<1> SUFFICES ASSUME PostTypeOK, [PostNext]_postVars PROVE PostTypeOK'
  OBVIOUS
<1> USE DEF HandlerPC
<1>1. ASSUME NEW r \in Calls, SendPostRequest(r) PROVE PostTypeOK'
  <2>1. /\ responseChan' \in [Calls -> Seq(Responses)]
        /\ responses' \in [Calls -> Seq(Responses)]
    <3>1. CASE shutdown /\ Respond(r, "ErrClientShutdown")
      BY <3>1, RespondType DEF Responses
    <3>2. CASE UNCHANGED <<responseChan, responses>>
      BY <3>2 DEF PostTypeOK
    <3> QED
      BY <1>1, <3>1, <3>2 DEF SendPostRequest
  <2> QED
    BY <1>1, <2>1 DEF SendPostRequest, PostTypeOK, handler
<1>2. ASSUME NEW r \in Calls, SendPostChan(r) PROVE PostTypeOK'
  <2>1. sendPostChan' \in Seq(Calls) /\ Len(sendPostChan') <= SendPostBufferSize
    <3>1. /\ sendPostChan \in Seq(Calls)
          /\ sendPostChan' = Append(sendPostChan, r)
          /\ Len(sendPostChan) < SendPostBufferSize
      BY <1>2 DEF SendPostChan, PostTypeOK
    <3> QED
      BY <3>1, PostAssumption
  <2> QED
    BY <1>2, <2>1 DEF SendPostChan, PostTypeOK, handler
<1>3. ASSUME NEW r \in Calls, ReceiveFuture(r) PROVE PostTypeOK'
  <2>1. /\ received' \in [Calls -> Seq(Responses)]
        /\ responseChan' \in [Calls -> Seq(Responses)]
    <3>1. responseChan[r] \in Seq(Responses) /\ <<>> \in Seq(Responses)
      BY DEF PostTypeOK
    <3> QED
      BY <1>3, <3>1 DEF ReceiveFuture, PostTypeOK
  <2> QED
    BY <1>3, <2>1 DEF ReceiveFuture, PostTypeOK, handler
<1>4. CASE HandlerTake
  <2>1. 0 \in 0..(Tries - 1)
    BY PostAssumption
  <2> QED
    BY <1>4, <2>1, TakeType DEF HandlerTake, PostTypeOK, sender
<1>5. CASE HandlerStop \/ TryError \/ ReadBody \/ DrainEnd
  BY <1>5 DEF HandlerStop, TryError, ReadBody, DrainEnd, PostTypeOK, Responses,
              sender
<1>6. CASE TryOK
  <2>1. executed' \in [Calls -> Nat]
    BY <1>6 DEF TryOK, PostTypeOK
  <2> QED
    BY <1>6, <2>1 DEF TryOK, PostTypeOK, sender
<1>7. CASE TryFailed
  <2>1. executed' \in [Calls -> Nat]
    <3>1. executed \in [Calls -> Nat] /\ hreq \subseteq Calls
      BY DEF PostTypeOK
    <3>2. CASE UNCHANGED executed
      BY <3>1, <3>2
    <3>3. CASE \E r \in hreq : executed' = [executed EXCEPT ![r] = @ + 1]
      BY <3>1, <3>3
    <3> QED
      BY <1>7, <3>2, <3>3 DEF TryFailed
  <2>2. htry' \in 0..(Tries - 1)
    BY <1>7, PostAssumption DEF TryFailed, PostTypeOK
  <2> QED
    BY <1>7, <2>1, <2>2 DEF TryFailed, PostTypeOK, sender
<1>8. CASE Deliver
  <2>1. PICK r \in hreq, resp \in hresp : Respond(r, resp)
    BY <1>8 DEF Deliver
  <2>2. r \in Calls /\ resp \in Responses
    BY <2>1 DEF PostTypeOK
  <2> QED
    BY <1>8, <2>1, <2>2, RespondType DEF Deliver, PostTypeOK, sender
<1>9. CASE DrainTake
  BY <1>9, TakeType DEF DrainTake, PostTypeOK, Responses, sender
<1>10. CASE Drain
  <2>1. PICK r \in hreq, resp \in hresp : Respond(r, resp)
    BY <1>10 DEF Drain
  <2>2. r \in Calls /\ resp \in Responses
    BY <2>1 DEF PostTypeOK
  <2> QED
    BY <1>10, <2>1, <2>2, RespondType DEF Drain, PostTypeOK, sender
<1>11. CASE Shutdown
  BY <1>11 DEF Shutdown, PostTypeOK, sender, handler
<1>12. CASE UNCHANGED postVars
  BY <1>12 DEF postVars, PostTypeOK, sender, handler
<1> QED
  BY <1>1, <1>2, <1>3, <1>4, <1>5, <1>6, <1>7, <1>8, <1>9, <1>10, <1>11,
     <1>12 DEF PostNext, Sender, Handler

-----------------------------------------------------------------------------
(* What a step does to the owner of a request and to its responses.        *)

owners == <<sendPostChan, spc, hreq, responses>>

\* sendPostRequest's select.
Asks(r) ==
  /\ spc[r] = "idle"
  /\ spc' = [spc EXCEPT ![r] = "send"]
  /\ \/ responses' = [responses EXCEPT ![r] = Append(@, "ErrClientShutdown")]
     \/ responses' = responses
  /\ UNCHANGED <<sendPostChan, hreq>>

\* The send on sendPostChan.
Queues(r) ==
  /\ spc[r] = "send"
  /\ spc' = [spc EXCEPT ![r] = "done"]
  /\ sendPostChan' = Append(sendPostChan, r)
  /\ UNCHANGED <<hreq, responses>>

\* The handler receives from sendPostChan.
Takes ==
  /\ sendPostChan # <<>>
  /\ hreq' = {Head(sendPostChan)}
  /\ sendPostChan' = Tail(sendPostChan)
  /\ UNCHANGED <<spc, responses>>

\* The handler answers the request it holds.
Answers(r, resp) ==
  /\ r \in hreq
  /\ hreq' = {}
  /\ responses' = [responses EXCEPT ![r] = Append(@, resp)]
  /\ UNCHANGED <<sendPostChan, spc>>

\* Every step has one of these effects.
LEMMA Effects ==
  ASSUME PostTypeOK, [PostNext]_postVars
  PROVE  \/ \E r \in Calls : Asks(r) \/ Queues(r)
         \/ Takes
         \/ \E r \in Calls, resp \in Responses : Answers(r, resp)
         \/ UNCHANGED owners
<1>1. ASSUME NEW r \in Calls, SendPostRequest(r) PROVE Asks(r)
  BY <1>1 DEF SendPostRequest, Asks, Respond, handler
<1>2. ASSUME NEW r \in Calls, SendPostChan(r) PROVE Queues(r)
  BY <1>2 DEF SendPostChan, Queues, handler
<1>3. ASSUME NEW r \in Calls, ReceiveFuture(r) PROVE UNCHANGED owners
  BY <1>3 DEF ReceiveFuture, owners, handler
<1>4. HandlerTake \/ DrainTake => Takes
  BY DEF HandlerTake, DrainTake, Takes, sender
<1>5. HandlerStop \/ TryError \/ TryOK \/ TryFailed \/ ReadBody \/ DrainEnd
        => UNCHANGED owners
  BY DEF HandlerStop, TryError, TryOK, TryFailed, ReadBody, DrainEnd, owners,
         sender
<1>6. Deliver \/ Drain => \E r \in Calls, resp \in Responses : Answers(r, resp)
  BY DEF Deliver, Drain, Answers, Respond, PostTypeOK, sender
<1>7. Shutdown \/ UNCHANGED postVars => UNCHANGED owners
  BY DEF Shutdown, postVars, owners, sender, handler
<1> QED
  BY <1>1, <1>2, <1>3, <1>4, <1>5, <1>6, <1>7 DEF PostNext, Sender, Handler

\* What taking the head means for the channel.
LEMMA TakeEffect ==
  ASSUME PostTypeOK, OneOwner, Takes
  PROVE  /\ Head(sendPostChan) \in Calls
         /\ Queued(Head(sendPostChan))
         /\ \A r \in Calls : Queued(r)' => Queued(r) /\ r # Head(sendPostChan)
         /\ \A i, j \in DOMAIN sendPostChan' :
              sendPostChan'[i] = sendPostChan'[j] => i = j
<1>1. /\ sendPostChan \in Seq(Calls) /\ Len(sendPostChan) > 0
      /\ DOMAIN sendPostChan = 1..Len(sendPostChan)
      /\ Head(sendPostChan) = sendPostChan[1]
  BY DEF PostTypeOK, Takes
<1>2. /\ sendPostChan' \in Seq(Calls)
      /\ DOMAIN sendPostChan' = 1..(Len(sendPostChan) - 1)
      /\ \A i \in DOMAIN sendPostChan' :
           /\ i + 1 \in DOMAIN sendPostChan
           /\ sendPostChan'[i] = sendPostChan[i + 1]
  BY <1>1 DEF Takes
<1>3. Queued(Head(sendPostChan))
  BY <1>1 DEF Queued
<1>4. ASSUME NEW r \in Calls, Queued(r)'
      PROVE  Queued(r) /\ r # Head(sendPostChan)
  <2>1. PICK i \in DOMAIN sendPostChan' : sendPostChan'[i] = r
    BY <1>4 DEF Queued
  <2>2. i + 1 \in DOMAIN sendPostChan /\ sendPostChan[i + 1] = r
    BY <1>2, <2>1
  <2>3. i + 1 # 1 /\ 1 \in DOMAIN sendPostChan
    BY <1>1, <1>2, <2>1
  <2>4. sendPostChan[i + 1] # sendPostChan[1]
    BY <2>2, <2>3 DEF OneOwner
  <2> QED
    BY <1>1, <2>2, <2>4 DEF Queued
<1>5. ASSUME NEW i \in DOMAIN sendPostChan', NEW j \in DOMAIN sendPostChan',
             sendPostChan'[i] = sendPostChan'[j]
      PROVE  i = j
  <2>1. i + 1 = j + 1
    BY <1>2, <1>5 DEF OneOwner
  <2> QED
    BY <1>2, <2>1
<1> QED
  BY <1>1, <1>3, <1>4, <1>5

\* What appending a request that is not queued means for the channel.
LEMMA QueueEffect ==
  ASSUME PostTypeOK, OneOwner, NEW r \in Calls, Queues(r)
  PROVE  /\ ~Queued(r) /\ r \notin hreq
         /\ \A t \in Calls : Queued(t)' => Queued(t) \/ t = r
         /\ \A i, j \in DOMAIN sendPostChan' :
              sendPostChan'[i] = sendPostChan'[j] => i = j
<1>1. ~Queued(r) /\ r \notin hreq
  BY DEF OneOwner, Queues
<1>2. /\ sendPostChan \in Seq(Calls)
      /\ DOMAIN sendPostChan = 1..Len(sendPostChan)
      /\ Len(sendPostChan) \in Nat
  BY DEF PostTypeOK
<1>3. /\ DOMAIN sendPostChan' = 1..(Len(sendPostChan) + 1)
      /\ \A i \in DOMAIN sendPostChan : sendPostChan'[i] = sendPostChan[i]
      /\ sendPostChan'[Len(sendPostChan) + 1] = r
  BY <1>2 DEF Queues
<1>4. \A i \in DOMAIN sendPostChan' :
        i \in DOMAIN sendPostChan \/ i = Len(sendPostChan) + 1
  BY <1>2, <1>3
<1>5. \A t \in Calls : Queued(t)' => Queued(t) \/ t = r
  BY <1>3, <1>4 DEF Queued
<1>6. \A i, j \in DOMAIN sendPostChan' :
        sendPostChan'[i] = sendPostChan'[j] => i = j
  <2>1. \A i \in DOMAIN sendPostChan : sendPostChan[i] # r
    BY <1>1 DEF Queued
  <2> QED
    BY <1>3, <1>4, <2>1 DEF OneOwner
<1> QED
  BY <1>1, <1>5, <1>6

\* Every step keeps OneOwner.
LEMMA OwnerStep == PostTypeOK /\ OneOwner /\ [PostNext]_postVars => OneOwner'
<1> SUFFICES ASSUME PostTypeOK, OneOwner, [PostNext]_postVars PROVE OneOwner'
  OBVIOUS
<1>1. ASSUME NEW r \in Calls, Asks(r) PROVE OneOwner'
  BY <1>1 DEF Asks, OneOwner, Queued, PostTypeOK
<1>2. ASSUME NEW r \in Calls, Queues(r) PROVE OneOwner'
  <2>1. /\ ~Queued(r) /\ r \notin hreq
        /\ \A t \in Calls : Queued(t)' => Queued(t) \/ t = r
        /\ \A i, j \in DOMAIN sendPostChan' :
             sendPostChan'[i] = sendPostChan'[j] => i = j
    BY <1>2, QueueEffect
  <2>2. hreq' = hreq /\ spc' = [spc EXCEPT ![r] = "done"] /\ hreq \subseteq Calls
    BY <1>2 DEF Queues, PostTypeOK
  <2>3. \A t \in Calls : Queued(t)' \/ t \in hreq' => spc'[t] = "done"
    BY <2>1, <2>2 DEF OneOwner, PostTypeOK
  <2>4. \A t \in hreq' : ~Queued(t)'
    BY <2>1, <2>2 DEF OneOwner
  <2> QED
    BY <2>1, <2>2, <2>3, <2>4 DEF OneOwner
<1>3. CASE Takes
  <2>1. /\ Head(sendPostChan) \in Calls
        /\ Queued(Head(sendPostChan))
        /\ \A r \in Calls : Queued(r)' => Queued(r) /\ r # Head(sendPostChan)
        /\ \A i, j \in DOMAIN sendPostChan' :
             sendPostChan'[i] = sendPostChan'[j] => i = j
    BY <1>3, TakeEffect
  <2>2. hreq' = {Head(sendPostChan)} /\ spc' = spc
    BY <1>3 DEF Takes
  <2>3. \A t \in Calls : Queued(t)' \/ t \in hreq' => spc'[t] = "done"
    BY <2>1, <2>2 DEF OneOwner
  <2>4. \A t \in hreq' : ~Queued(t)'
    BY <2>1, <2>2
  <2> QED
    BY <2>1, <2>2, <2>3, <2>4 DEF OneOwner
<1>4. ASSUME NEW r \in Calls, NEW resp \in Responses, Answers(r, resp)
      PROVE  OneOwner'
  BY <1>4 DEF Answers, OneOwner, Queued
<1>5. CASE UNCHANGED owners
  BY <1>5 DEF owners, OneOwner, Queued
<1> QED
  BY <1>1, <1>2, <1>3, <1>4, <1>5, Effects

\* PostInit establishes OneOwner.
LEMMA OwnerInit == PostInit => OneOwner
BY DEF PostInit, OneOwner, Queued

(***************************************************************************)
(* sendPostChan and sendPostHandler: a request is never queued twice, nor  *)
(* handled while it is queued.                                             *)
(***************************************************************************)
THEOREM OneOwnerCorrect == PostSpec => [](PostTypeOK /\ OneOwner)
<1>1. PostInit => PostTypeOK /\ OneOwner
  BY TypeInit, OwnerInit
<1>2. PostTypeOK /\ OneOwner /\ [PostNext]_postVars => (PostTypeOK /\ OneOwner)'
  BY TypeStep, OwnerStep
<1> QED
  BY <1>1, <1>2, PTL DEF PostSpec

-----------------------------------------------------------------------------
(* Responses.                                                              *)

\* Unanswered, or answered once by sendPostRequest.
AtMostRefused(s) == s = <<>> \/ (Len(s) = 1 /\ s[1] = "ErrClientShutdown")

\* What an owner may still answer has been refused at most.
AnswerInv ==
  \A r \in Calls :
    /\ spc[r] = "idle" => responses[r] = <<>>
    /\ spc[r] = "send" \/ Queued(r) \/ r \in hreq => AtMostRefused(responses[r])

\* One more response after AtMostRefused is within the bound.
LEMMA OneMore ==
  ASSUME NEW s \in Seq(Responses), NEW resp \in Responses, AtMostRefused(s)
  PROVE  LET t == Append(s, resp)
         IN  Len(t) <= 1 \/ (Len(t) = 2 /\ t[1] = "ErrClientShutdown")
<1>1. CASE s = <<>>
  BY <1>1
<1>2. CASE Len(s) = 1 /\ s[1] = "ErrClientShutdown"
  BY <1>2, AppendProperties
<1> QED
  BY <1>1, <1>2 DEF AtMostRefused

\* The first response of sendPostRequest is a refusal.
LEMMA Refused ==
  ASSUME NEW s, s = <<>>
  PROVE  AtMostRefused(Append(s, "ErrClientShutdown"))
BY DEF AtMostRefused

\* Every step keeps AnswerInv.
LEMMA AnswerStep ==
  PostTypeOK /\ OneOwner /\ AnswerInv /\ [PostNext]_postVars => AnswerInv'
<1> SUFFICES ASSUME PostTypeOK, OneOwner, AnswerInv, [PostNext]_postVars PROVE AnswerInv'
  OBVIOUS
<1>t. spc \in [Calls -> {"idle", "send", "done"}]
      /\ responses \in [Calls -> Seq(Responses)] /\ hreq \subseteq Calls
  BY DEF PostTypeOK
<1>1. ASSUME NEW r \in Calls, Asks(r) PROVE AnswerInv'
  <2>1. responses[r] = <<>> /\ ~Queued(r) /\ r \notin hreq
    BY <1>1 DEF Asks, AnswerInv, OneOwner
  <2>2. AtMostRefused(responses'[r])
    BY <1>1, <1>t, <2>1, Refused DEF Asks, AtMostRefused
  <2>3. \A t \in Calls : t # r => spc'[t] = spc[t] /\ responses'[t] = responses[t]
    BY <1>1, <1>t DEF Asks
  <2>4. \A t \in Calls : Queued(t)' <=> Queued(t)
    BY <1>1 DEF Asks, Queued
  <2>5. spc'[r] = "send" /\ hreq' = hreq
    BY <1>1, <1>t DEF Asks
  <2> QED
    BY <2>2, <2>3, <2>4, <2>5 DEF AnswerInv, AtMostRefused
<1>2. ASSUME NEW r \in Calls, Queues(r) PROVE AnswerInv'
  <2>1. \A t \in Calls : Queued(t)' => Queued(t) \/ t = r
    BY <1>2, QueueEffect
  <2>2. /\ AtMostRefused(responses[r])
        /\ responses' = responses /\ hreq' = hreq
        /\ spc' = [spc EXCEPT ![r] = "done"]
    BY <1>2 DEF Queues, AnswerInv
  <2> QED
    BY <1>t, <2>1, <2>2 DEF AnswerInv, AtMostRefused
<1>3. CASE Takes
  <2>1. /\ Queued(Head(sendPostChan))
        /\ \A r \in Calls : Queued(r)' => Queued(r)
    BY <1>3, TakeEffect
  <2>2. hreq' = {Head(sendPostChan)} /\ spc' = spc /\ responses' = responses
    BY <1>3 DEF Takes
  <2> QED
    BY <2>1, <2>2 DEF AnswerInv, AtMostRefused
<1>4. ASSUME NEW r \in Calls, NEW resp \in Responses, Answers(r, resp)
      PROVE  AnswerInv'
  <2>1. spc[r] = "done" /\ ~Queued(r)
    BY <1>4 DEF Answers, OneOwner
  <2>2. /\ spc' = spc /\ hreq' = {}
        /\ \A t \in Calls : Queued(t)' <=> Queued(t)
        /\ \A t \in Calls : t # r => responses'[t] = responses[t]
    BY <1>4, <1>t DEF Answers, Queued
  <2> QED
    BY <2>1, <2>2 DEF AnswerInv, AtMostRefused
<1>5. CASE UNCHANGED owners
  BY <1>5 DEF owners, AnswerInv, AtMostRefused, Queued
<1> QED
  BY <1>1, <1>2, <1>3, <1>4, <1>5, Effects

\* Every step keeps ResponseBound.
LEMMA BoundStep ==
  PostTypeOK /\ AnswerInv /\ ResponseBound /\ [PostNext]_postVars => ResponseBound'
<1> SUFFICES ASSUME PostTypeOK, AnswerInv, ResponseBound, [PostNext]_postVars
             PROVE  ResponseBound'
  OBVIOUS
<1>t. responses \in [Calls -> Seq(Responses)]
  BY DEF PostTypeOK
<1>1. ASSUME NEW r \in Calls, NEW resp \in Responses,
             AtMostRefused(responses[r]),
             responses' = [responses EXCEPT ![r] = Append(@, resp)]
      PROVE  ResponseBound'
  <2>1. \/ Len(responses'[r]) <= 1
        \/ Len(responses'[r]) = 2 /\ responses'[r][1] = "ErrClientShutdown"
    BY <1>t, <1>1, OneMore
  <2>2. \A t \in Calls : t # r => responses'[t] = responses[t]
    BY <1>t, <1>1
  <2> QED
    BY <2>1, <2>2 DEF ResponseBound
<1>2. CASE responses' = responses
  BY <1>2 DEF ResponseBound
<1>3. ASSUME NEW r \in Calls, Asks(r) PROVE ResponseBound'
  <2>1. AtMostRefused(responses[r]) /\ "ErrClientShutdown" \in Responses
    BY <1>3 DEF Asks, AnswerInv, AtMostRefused, Responses
  <2> QED
    BY <1>1, <1>2, <1>3, <2>1 DEF Asks
<1>4. ASSUME NEW r \in Calls, NEW resp \in Responses, Answers(r, resp)
      PROVE  ResponseBound'
  <2>1. AtMostRefused(responses[r])
    BY <1>4 DEF Answers, AnswerInv
  <2> QED
    BY <1>1, <1>4, <2>1 DEF Answers
<1>5. (\E r \in Calls : Queues(r)) \/ Takes \/ UNCHANGED owners
        => responses' = responses
  BY DEF Queues, Takes, owners
<1> QED
  BY <1>2, <1>3, <1>4, <1>5, Effects

(***************************************************************************)
(* responseChan: a future is answered once, and a second time only if      *)
(* sendPostRequest has refused its request and queued it all the same.     *)
(***************************************************************************)
THEOREM ResponseBoundCorrect == PostSpec => []ResponseBound
<1>1. PostInit => AnswerInv /\ ResponseBound
  BY DEF PostInit, AnswerInv, ResponseBound, AtMostRefused, Queued
<1>2. PostTypeOK /\ OneOwner /\ AnswerInv /\ ResponseBound /\ [PostNext]_postVars
        => (AnswerInv /\ ResponseBound)'
  BY AnswerStep, BoundStep
<1> QED
  BY <1>1, <1>2, OneOwnerCorrect, PTL DEF PostSpec

=============================================================================
