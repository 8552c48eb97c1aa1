------------------------------ MODULE PostClient ------------------------------
(***************************************************************************)
(* The HTTP POST mode of rpcclient.Client (rpcclient/infrastructure.go):   *)
(* sendPostRequest, sendPostHandler with handleSendPostMessage, and        *)
(* Shutdown.                                                               *)
(*                                                                         *)
(* A request is its id, and its SendCmd runs in a goroutine of its own.    *)
(* requestList stays empty in this mode and doDisconnect returns at once,  *)
(* so Shutdown only closes the shutdown channel and Disconnect does        *)
(* nothing.  c.batch is false: nothing in the package sets it.             *)
(***************************************************************************)
EXTENDS Naturals, Sequences

CONSTANTS
  Calls,               \* the requests of the application
  Receivers,           \* those of which the application calls ReceiveFuture
  SendPostBufferSize,  \* capacity of sendPostChan
  Tries,               \* tries in handleSendPostMessage
  AppShutdown          \* the application may call Shutdown

ASSUME PostAssumption ==
  /\ Receivers \subseteq Calls
  /\ SendPostBufferSize \in Nat \ {0}
  /\ Tries \in Nat \ {0}
  /\ AppShutdown \in BOOLEAN

\* What a future can receive: the result or the error in the server's reply,
\* ErrClientShutdown, or an error of the HTTP request.
Responses == {"result", "RPCError", "ErrClientShutdown", "httpError"}

VARIABLES
  shutdown,      \* the shutdown channel is closed
  sendPostChan,
  spc,           \* sendPostRequest of each request
  responseChan,  \* per request: what its channel of capacity 1 holds
  received,      \* what ReceiveFuture returned
  hpc,           \* sendPostHandler
  hreq,          \* the request it handles
  htry,          \* its loop counter
  hresp,         \* the response it is about to deliver
  responses,     \* history: everything sent on each responseChan
  executed       \* history: how often the server executed each request

sender   == <<spc, received>>
handler  == <<hpc, hreq, htry, hresp>>
postVars == <<shutdown, sendPostChan, sender, responseChan, handler, responses,
              executed>>

HandlerPC == {"select", "try", "read", "deliver", "cleanup", "drain", "done",
              "panic"}

PostInit ==
  /\ shutdown = FALSE
  /\ sendPostChan = <<>>
  /\ spc = [r \in Calls |-> "idle"]
  /\ responseChan = [r \in Calls |-> <<>>]
  /\ received = [r \in Calls |-> <<>>]
  /\ hpc = "select"
  /\ hreq = {}
  /\ htry = 0
  /\ hresp = {}
  /\ responses = [r \in Calls |-> <<>>]
  /\ executed = [r \in Calls |-> 0]

\* A panic ends the process.
Alive == hpc # "panic"

\* A send on responseChan blocks while the channel is full.
Respond(r, resp) ==
  /\ responseChan[r] = <<>>
  /\ responseChan' = [responseChan EXCEPT ![r] = <<resp>>]
  /\ responses' = [responses EXCEPT ![r] = Append(@, resp)]

-----------------------------------------------------------------------------
(* SendCmd and ReceiveFuture.                                              *)

\* The select on shutdown; after it has answered the request the code goes
\* on to send it.
SendPostRequest(r) ==
  /\ Alive
  /\ spc[r] = "idle"
  /\ \/ shutdown /\ Respond(r, "ErrClientShutdown")
     \/ ~shutdown /\ UNCHANGED <<responseChan, responses>>
  /\ spc' = [spc EXCEPT ![r] = "send"]
  /\ UNCHANGED <<shutdown, sendPostChan, received, handler, executed>>

\* Mutant: a send that gives up when the channel is full.
SendPostChanDropping(r) ==
  /\ Alive
  /\ spc[r] = "send"
  /\ sendPostChan' = IF Len(sendPostChan) < SendPostBufferSize
                       THEN Append(sendPostChan, r) ELSE sendPostChan
  /\ spc' = [spc EXCEPT ![r] = "done"]
  /\ UNCHANGED <<shutdown, received, responseChan, handler, responses,
                 executed>>

\* The send on sendPostChan, after which SendCmd returns the future.
SendPostChan(r) ==
  /\ Alive
  /\ spc[r] = "send"
  /\ Len(sendPostChan) < SendPostBufferSize
  /\ sendPostChan' = Append(sendPostChan, r)
  /\ spc' = [spc EXCEPT ![r] = "done"]
  /\ UNCHANGED <<shutdown, received, responseChan, handler, responses,
                 executed>>

ReceiveFuture(r) ==
  /\ Alive
  /\ r \in Receivers
  /\ spc[r] = "done"
  /\ received[r] = <<>>
  /\ responseChan[r] # <<>>
  /\ received' = [received EXCEPT ![r] = responseChan[r]]
  /\ responseChan' = [responseChan EXCEPT ![r] = <<>>]
  /\ UNCHANGED <<shutdown, sendPostChan, spc, handler, responses, executed>>

-----------------------------------------------------------------------------
(* sendPostHandler.                                                        *)

\* The outer select; with shutdown closed either case may be chosen.
HandlerTake ==
  /\ hpc = "select"
  /\ sendPostChan # <<>>
  /\ hreq' = {Head(sendPostChan)}
  /\ sendPostChan' = Tail(sendPostChan)
  /\ htry' = 0
  /\ hpc' = "try"
  /\ UNCHANGED <<shutdown, sender, responseChan, hresp, responses, executed>>

\* Mutant: shutdown is noticed only along with a message.
HandlerStopBusy ==
  /\ hpc = "select"
  /\ shutdown
  /\ sendPostChan # <<>>
  /\ hpc' = "cleanup"
  /\ UNCHANGED <<shutdown, sendPostChan, sender, responseChan, hreq, htry,
                 hresp, responses, executed>>

HandlerStop ==
  /\ hpc = "select"
  /\ shutdown
  /\ hpc' = "cleanup"
  /\ UNCHANGED <<shutdown, sendPostChan, sender, responseChan, hreq, htry,
                 hresp, responses, executed>>

\* http.NewRequest or getAuth failed.
TryError ==
  /\ hpc = "try"
  /\ hresp' = {"httpError"}
  /\ hpc' = "deliver"
  /\ UNCHANGED <<shutdown, sendPostChan, sender, responseChan, hreq, htry,
                 responses, executed>>

\* httpClient.Do returned a response.
TryOK ==
  /\ hpc = "try"
  /\ \E r \in hreq : executed' = [executed EXCEPT ![r] = @ + 1]
  /\ hpc' = "read"
  /\ UNCHANGED <<shutdown, sendPostChan, sender, responseChan, hreq, htry,
                 hresp, responses>>

\* httpClient.Do failed, before or after the server executed the request.
\* The loop assigns its own err: after the last try the err that is tested
\* is nil, and so is the httpResponse whose Body is read.
TryFailed ==
  /\ hpc = "try"
  /\ \/ UNCHANGED executed
     \/ \E r \in hreq : executed' = [executed EXCEPT ![r] = @ + 1]
  /\ \/ /\ htry + 1 < Tries
        /\ htry' = htry + 1
        /\ UNCHANGED hpc
     \/ /\ htry + 1 = Tries
        /\ hpc' = "panic"
        /\ UNCHANGED htry
  /\ UNCHANGED <<shutdown, sendPostChan, sender, responseChan, hreq, hresp,
                 responses>>

\* Reading the body fails, it is no JSON-RPC response, or it is one.
ReadBody ==
  /\ hpc = "read"
  /\ \E resp \in {"httpError", "result", "RPCError"} : hresp' = {resp}
  /\ hpc' = "deliver"
  /\ UNCHANGED <<shutdown, sendPostChan, sender, responseChan, hreq, htry,
                 responses, executed>>

\* Mutant: the handler keeps the request and delivers its response again.
DeliverAgain ==
  /\ hpc = "deliver"
  /\ \E r \in hreq, resp \in hresp : Respond(r, resp)
  /\ UNCHANGED <<shutdown, sendPostChan, sender, handler, executed>>

Deliver ==
  /\ hpc = "deliver"
  /\ \E r \in hreq, resp \in hresp : Respond(r, resp)
  /\ hreq' = {}
  /\ hresp' = {}
  /\ hpc' = "select"
  /\ UNCHANGED <<shutdown, sendPostChan, sender, htry, executed>>

\* The cleanup loop: take a request and answer it, until there is none.
DrainTake ==
  /\ hpc = "cleanup"
  /\ sendPostChan # <<>>
  /\ hreq' = {Head(sendPostChan)}
  /\ sendPostChan' = Tail(sendPostChan)
  /\ hresp' = {"ErrClientShutdown"}
  /\ hpc' = "drain"
  /\ UNCHANGED <<shutdown, sender, responseChan, htry, responses, executed>>

Drain ==
  /\ hpc = "drain"
  /\ \E r \in hreq, resp \in hresp : Respond(r, resp)
  /\ hreq' = {}
  /\ hresp' = {}
  /\ hpc' = "cleanup"
  /\ UNCHANGED <<shutdown, sendPostChan, sender, htry, executed>>

DrainEnd ==
  /\ hpc = "cleanup"
  /\ sendPostChan = <<>>
  /\ hpc' = "done"
  /\ UNCHANGED <<shutdown, sendPostChan, sender, responseChan, hreq, htry,
                 hresp, responses, executed>>

Shutdown ==
  /\ Alive
  /\ AppShutdown
  /\ ~shutdown
  /\ shutdown' = TRUE
  /\ UNCHANGED <<sendPostChan, sender, responseChan, handler, responses,
                 executed>>

-----------------------------------------------------------------------------

Sender(r) == SendPostRequest(r) \/ SendPostChan(r) \/ ReceiveFuture(r)

Handler == \/ HandlerTake \/ HandlerStop \/ TryError \/ TryOK \/ TryFailed
           \/ ReadBody \/ Deliver \/ DrainTake \/ Drain \/ DrainEnd

PostNext == (\E r \in Calls : Sender(r)) \/ Handler \/ Shutdown

PostSpec == PostInit /\ [][PostNext]_postVars

\* A goroutine runs when it can: SendCmd finishes once it was called, the
\* handler takes its steps, an application that receives a future does so.
PostFairness ==
  /\ \A r \in Calls : WF_postVars(SendPostChan(r) \/ ReceiveFuture(r))
  /\ WF_postVars(Handler)

PostFairSpec == PostSpec /\ PostFairness

-----------------------------------------------------------------------------
(* Properties.                                                             *)

PostTypeOK ==
  /\ shutdown \in BOOLEAN
  /\ sendPostChan \in Seq(Calls)
  /\ Len(sendPostChan) <= SendPostBufferSize
  /\ spc \in [Calls -> {"idle", "send", "done"}]
  /\ responseChan \in [Calls -> Seq(Responses)]
  /\ received \in [Calls -> Seq(Responses)]
  /\ hpc \in HandlerPC
  /\ hreq \subseteq Calls
  /\ htry \in 0..(Tries - 1)
  /\ hresp \subseteq Responses
  /\ responses \in [Calls -> Seq(Responses)]
  /\ executed \in [Calls -> Nat]

Queued(r) == \E i \in DOMAIN sendPostChan : sendPostChan[i] = r

(***************************************************************************)
(* A request has one owner: its sender, the channel or the handler.        *)
(***************************************************************************)
OneOwner ==
  /\ \A r \in Calls : Queued(r) \/ r \in hreq => spc[r] = "done"
  /\ \A r \in hreq : ~Queued(r)
  /\ \A i, j \in DOMAIN sendPostChan :
       sendPostChan[i] = sendPostChan[j] => i = j
  /\ \A r, t \in hreq : r = t

(***************************************************************************)
(* A future gets one response.  Only a request that sendPostRequest        *)
(* answered with ErrClientShutdown, and queued all the same, gets another. *)
(***************************************************************************)
ResponseBound ==
  \A r \in Calls :
    \/ Len(responses[r]) <= 1
    \/ Len(responses[r]) = 2 /\ responses[r][1] = "ErrClientShutdown"

ToldShutdown(r) == responses[r] # <<>> /\ responses[r][1] = "ErrClientShutdown"

\* The second answer to a refused request waits for somebody to receive the
\* first one.
RefusalUnread == \E r \in Calls \ Receivers : ToldShutdown(r)

(***************************************************************************)
(* While nobody shuts the client down, every future that the application   *)
(* receives gets a response, whatever it does with its other futures:      *)
(* responseChan and sendPostChan are buffered so that neither the handler  *)
(* nor a sender waits for the application.  And after a shutdown:          *)
(* sendPostHandler's "Drain any wait channels before exiting so nothing is *)
(* left waiting around to send."  A request that is queued before the      *)
(* handler ends is answered, by the server or by the cleanup loop, unless  *)
(* the handler is kept by a refusal that nobody receives.                  *)
(***************************************************************************)
FuturesAnswered ==
  /\ \A r \in Receivers :
       spc[r] = "send" ~> received[r] # <<>> \/ shutdown \/ ~Alive
  /\ \A r \in Calls :
       Queued(r) /\ hpc # "done"
         ~> responses[r] # <<>> \/ RefusalUnread \/ ~Alive

(***************************************************************************)
(* Shutdown "also stops all goroutines": the handler ends, whatever it was *)
(* doing and whatever is queued.  Nothing but a refusal that nobody        *)
(* receives can keep it.                                                   *)
(***************************************************************************)
HandlerStops == shutdown ~> hpc = "done" \/ RefusalUnread \/ ~Alive

(***************************************************************************)
(* sendPostRequest: "Don't send the message if shutting down."  A command  *)
(* that was refused with ErrClientShutdown is not executed by the server.  *)
(***************************************************************************)
RefusedNotExecuted == \A r \in Calls : ToldShutdown(r) => executed[r] = 0

=============================================================================
