------------------------------ MODULE RpcClient ------------------------------
(***************************************************************************)
(* The websocket mode of rpcclient.Client (rpcclient/infrastructure.go):   *)
(* requests and their futures, the input and output handler of every       *)
(* connection, Disconnect and Shutdown, the reconnect handler, and the     *)
(* goroutine that re-registers notifications and resends requests.         *)
(*                                                                         *)
(* A goroutine is a program counter, indexed by the request it sends or by *)
(* the connection it was started for.  A section under requestLock or mtx  *)
(* is one step; Shutdown, which takes mtx while it holds requestLock, is   *)
(* two.  The fields that the code reads again in every iteration (wsConn,  *)
(* the channel of disconnectChan) are read again here.                     *)
(***************************************************************************)
EXTENDS Naturals, Sequences

CONSTANTS
  Calls,           \* the requests of the application; a request is its id
  Method,          \* the method of each of them
  NtfnKinds,       \* the notification commands in use
  Registered,      \* the methods registered with acbcjson.RegisterCmd
  AutoReconnect,   \* ~config.DisableAutoReconnect
  SendBufferSize,  \* capacity of sendChan
  MaxConns,        \* bound: successful dials, the one of New included
  StableConns,     \* the connections the network does not break
  AppCalls,        \* which of Disconnect and Shutdown the application calls
  BlockingCalls    \* the requests a notification callback makes and waits for

\* The notification commands that trackRegisteredNtfns knows.
AllKinds == {"blocks", "newtx", "newtxverbose", "spent", "received"}

ASSUME ClientAssumption ==
  /\ NtfnKinds \subseteq AllKinds
  /\ Method \in [Calls -> NtfnKinds \cup {"rescan", "call"}]
  /\ Registered \subseteq AllKinds \cup {"rescan", "call"}
  /\ AutoReconnect \in BOOLEAN
  /\ SendBufferSize \in Nat
  /\ MaxConns \in Nat \ {0}
  /\ StableConns \subseteq 1..MaxConns
  /\ AppCalls \subseteq {"Disconnect", "Shutdown"}
  /\ BlockingCalls \subseteq Calls

Conns == 1..MaxConns

\* The commands reregisterNtfns issues: one per connection and kind.
Regs == [conn : Conns, kind : NtfnKinds]

Reqs == Calls \cup Regs

MethodOf(r) == IF r \in Calls THEN Method[r] ELSE r.kind

\* What package acbcjson registers itself: getblockhash is the one command
\* of a client.  An application can register the types of the others.
ShippedRegistry == {"call"}

\* ignoreResends: the long running methods that are not reissued.
IgnoreResends == {"rescan"}

\* What a future can receive.
Errors == {"ErrUnregisteredMethod", "ErrClientNotConnected",
           "ErrClientDisconnect", "ErrClientShutdown"}
Replies == {"result", "RPCError"}

VARIABLES
  (* fields of Client *)
  connEstablished, \* New connected the client and started its handlers
  shutdown,        \* the shutdown channel is closed
  disconnected,
  disconnect,      \* the channel in c.disconnect, numbered by connection
  wsConn,          \* the connection in c.wsConn, 0 when nil
  requests,        \* requestMap and requestList
  ntfnState,
  sendChan,
  requestLocked,   \* Shutdown holds requestLock
  (* what the fields point to *)
  closed,          \* the disconnect channels that are closed
  conn,            \* state of each websocket connection
  unanswered,      \* per connection and request: writes not answered yet
  responses,       \* everything ever sent on each responseChan
  (* goroutines *)
  spc, sdc,               \* sendRequest: pc, disconnect channel of the select
  ipc, iconn, ireq, icall,
                          \* wsInHandler: pc, connection read, request removed,
                          \* request its callback waits for
  opc, odc, omsg, oconn,  \* wsOutHandler: pc, channel, message, connection
  rpc, rtodo, rreqs, rdc, \* resendRequests: pc, kinds, requests, channel
  wpc,                    \* wsReconnectHandler
  dpc, upc                \* an application's Disconnect and Shutdown calls

fields  == <<connEstablished, shutdown, disconnected, disconnect, wsConn,
             requests, ntfnState, sendChan, requestLocked>>
world   == <<closed, conn, unanswered, responses>>
senders == <<spc, sdc>>
inVars  == <<ipc, iconn, ireq, icall>>
outVars == <<opc, odc, omsg, oconn>>
reVars  == <<rpc, rtodo, rreqs, rdc>>
appVars == <<dpc, upc>>
vars    == <<fields, world, senders, inVars, outVars, reVars, wpc, appVars>>

SenderPC    == {"idle", "chan", "select", "done"}
InPC        == {"none", "top", "read", "deliver", "callback", "disconnect",
                "cleanup", "done"}
OutPC       == {"none", "top", "select", "write", "writing", "disconnect",
                "cleanup", "drain", "done"}
ResendPC    == {"none", "begin", "register", "await", "disconnect", "cleanup",
                "copy", "loop", "chan", "select", "done"}
ReconnectPC == {"none", "wait", "check", "dial", "reset", "done"}

-----------------------------------------------------------------------------
(* New: with DisableConnectOnNew nothing is dialled and nothing started.   *)

Init ==
  /\ connEstablished \in BOOLEAN
  /\ shutdown = FALSE
  /\ disconnected = FALSE
  /\ disconnect = 1
  /\ wsConn = IF connEstablished THEN 1 ELSE 0
  /\ requests = {}
  /\ ntfnState = {}
  /\ sendChan = <<>>
  /\ requestLocked = FALSE
  /\ closed = {}
  /\ conn = [k \in Conns |-> IF k = wsConn THEN "open" ELSE "none"]
  /\ unanswered = [k \in Conns |-> [r \in Reqs |-> 0]]
  /\ responses = [r \in Reqs |-> <<>>]
  /\ spc = [r \in Reqs |-> "idle"]
  /\ sdc = [r \in Reqs |-> 0]
  /\ ipc = [k \in Conns |-> IF k = wsConn THEN "top" ELSE "none"]
  /\ iconn = [k \in Conns |-> 0]
  /\ ireq = [k \in Conns |-> {}]
  /\ icall = [k \in Conns |-> {}]
  /\ opc = [k \in Conns |-> IF k = wsConn THEN "top" ELSE "none"]
  /\ odc = [k \in Conns |-> 0]
  /\ omsg = [k \in Conns |-> {}]
  /\ oconn = [k \in Conns |-> 0]
  /\ rpc = [k \in Conns |-> "none"]
  /\ rtodo = [k \in Conns |-> {}]
  /\ rreqs = [k \in Conns |-> {}]
  /\ rdc = [k \in Conns |-> 0]
  /\ wpc = IF connEstablished /\ AutoReconnect THEN "wait" ELSE "none"
  /\ dpc = "idle"
  /\ upc = "idle"

-----------------------------------------------------------------------------
(* Helpers that several goroutines call.                                   *)

\* Mutant: removeAllRequests is not called.
FailPendingKeepingThem(err) ==
  /\ responses' = [r \in Reqs |-> IF r \in requests
                                  THEN Append(responses[r], err)
                                  ELSE responses[r]]
  /\ UNCHANGED requests

\* Mutant: the requests are removed and their futures not told.
FailPendingSilently(err) ==
  /\ requests' = {}
  /\ UNCHANGED responses

\* Send the same error to every pending request and removeAllRequests.
FailPending(err) ==
  /\ responses' = [r \in Reqs |-> IF r \in requests
                                  THEN Append(responses[r], err)
                                  ELSE responses[r]]
  /\ requests' = {}

\* Mutant: doDisconnect leaves the disconnect channel open.
CloseConnectionOnly ==
  /\ ~disconnected
  /\ disconnected' = TRUE
  /\ conn' = [k \in Conns |-> IF k = wsConn THEN "closed" ELSE conn[k]]
  /\ UNCHANGED closed

\* The body of doDisconnect after its early return, under mtx.
CloseConnection ==
  /\ ~disconnected
  /\ disconnected' = TRUE
  /\ closed' = closed \cup {disconnect}
  /\ conn' = [k \in Conns |-> IF k = wsConn THEN "closed" ELSE conn[k]]

\* doDisconnect by a goroutine that goes to pc "cleanup" when the disconnect
\* was needed and to the given one when it was not.
DoDisconnect(pc, pc1, k, otherwise) ==
  \/ /\ CloseConnection
     /\ pc1 = [pc EXCEPT ![k] = "cleanup"]
  \/ /\ disconnected
     /\ pc1 = [pc EXCEPT ![k] = otherwise]
     /\ UNCHANGED <<disconnected, closed, conn>>

\* The rest of Disconnect, under requestLock.
DisconnectCleanup ==
  /\ ~requestLocked
  /\ \/ /\ AutoReconnect
        /\ UNCHANGED <<requests, responses, shutdown>>
     \/ /\ ~AutoReconnect
        /\ FailPending("ErrClientDisconnect")
        /\ shutdown' = TRUE

\* Mutant: addRequest does not look at the shutdown channel.
AddRequestUnchecked(r) ==
  /\ spc[r] = "idle"
  /\ ~requestLocked
  /\ requests' = requests \cup {r}
  /\ spc' = [spc EXCEPT ![r] = "chan"]
  /\ UNCHANGED responses

\* addRequest, and sendRequest's reply when it fails.
AddRequest(r) ==
  /\ spc[r] = "idle"
  /\ ~requestLocked
  /\ \/ /\ shutdown
        /\ responses' = [responses EXCEPT ![r] = Append(@, "ErrClientShutdown")]
        /\ spc' = [spc EXCEPT ![r] = "done"]
        /\ UNCHANGED requests
     \/ /\ ~shutdown
        /\ requests' = requests \cup {r}
        /\ spc' = [spc EXCEPT ![r] = "chan"]
        /\ UNCHANGED responses

-----------------------------------------------------------------------------
(* SendCmd, sendRequest and sendMessage.                                   *)

\* SendCmd knows no such command, or New never connected.
SendCmdError(r) ==
  /\ spc[r] = "idle"
  /\ \/ /\ MethodOf(r) \notin Registered
        /\ responses' = [responses EXCEPT ![r] =
                           Append(@, "ErrUnregisteredMethod")]
     \/ /\ MethodOf(r) \in Registered
        /\ ~connEstablished
        /\ responses' = [responses EXCEPT ![r] =
                           Append(@, "ErrClientNotConnected")]
  /\ spc' = [spc EXCEPT ![r] = "done"]
  /\ UNCHANGED <<fields, closed, conn, unanswered, sdc, inVars, outVars,
                 reVars, wpc, appVars>>

SendRequest(r) ==
  /\ MethodOf(r) \in Registered
  /\ connEstablished
  /\ AddRequest(r)
  /\ UNCHANGED <<connEstablished, shutdown, disconnected, disconnect, wsConn,
                 ntfnState, sendChan, requestLocked, closed, conn, unanswered,
                 sdc, inVars, outVars, reVars, wpc, appVars>>

\* The select of sendMessage evaluates disconnectChan() once, on entry.
SendDisconnectChan(r) ==
  /\ spc[r] = "chan"
  /\ sdc' = [sdc EXCEPT ![r] = disconnect]
  /\ spc' = [spc EXCEPT ![r] = "select"]
  /\ UNCHANGED <<fields, world, inVars, outVars, reVars, wpc, appVars>>

SendMessage(r) ==
  /\ spc[r] = "select"
  /\ \/ /\ Len(sendChan) < SendBufferSize
        /\ sendChan' = Append(sendChan, r)
     \/ /\ sdc[r] \in closed
        /\ UNCHANGED sendChan
  /\ sdc' = [sdc EXCEPT ![r] = 0]
  /\ spc' = [spc EXCEPT ![r] = "done"]
  /\ UNCHANGED <<connEstablished, shutdown, disconnected, disconnect, wsConn,
                 requests, ntfnState, requestLocked, world, inVars, outVars,
                 reVars, wpc, appVars>>

-----------------------------------------------------------------------------
(* wsInHandler and handleMessage.                                          *)

InTop(k) ==
  /\ ipc[k] = "top"
  /\ \/ /\ shutdown
        /\ ipc' = [ipc EXCEPT ![k] = "disconnect"]
        /\ UNCHANGED iconn
     \/ /\ ~shutdown
        /\ ipc' = [ipc EXCEPT ![k] = "read"]
        /\ iconn' = [iconn EXCEPT ![k] = wsConn]
  /\ UNCHANGED <<fields, world, senders, ireq, icall, outVars, reVars, wpc,
                 appVars>>

\* A response arrives: removeRequest decides who owns it from here on.
InReply(k) ==
  /\ ipc[k] = "read"
  /\ ~requestLocked
  /\ conn[iconn[k]] \in {"open", "lost"}
  /\ \E r \in Reqs :
       /\ unanswered[iconn[k]][r] > 0
       /\ unanswered' = [unanswered EXCEPT ![iconn[k]][r] = @ - 1]
       /\ \/ /\ r \in requests
             /\ requests' = requests \ {r}
             /\ ireq' = [ireq EXCEPT ![k] = {r}]
             /\ ipc' = [ipc EXCEPT ![k] = "deliver"]
          \/ /\ r \notin requests
             /\ ipc' = [ipc EXCEPT ![k] = "top"]
             /\ UNCHANGED <<requests, ireq>>
  /\ iconn' = [iconn EXCEPT ![k] = 0]
  /\ UNCHANGED <<connEstablished, shutdown, disconnected, disconnect, wsConn,
                 ntfnState, sendChan, requestLocked, closed, conn, responses,
                 senders, icall, outVars, reVars, wpc, appVars>>

\* trackRegisteredNtfns, whatever the reply was, then the response channel.
InDeliver(k) ==
  /\ ipc[k] = "deliver"
  /\ \E r \in ireq[k], reply \in Replies :
       /\ responses' = [responses EXCEPT ![r] = Append(@, reply)]
       /\ ntfnState' = ntfnState \cup ({MethodOf(r)} \cap NtfnKinds)
  /\ ireq' = [ireq EXCEPT ![k] = {}]
  /\ ipc' = [ipc EXCEPT ![k] = "top"]
  /\ UNCHANGED <<connEstablished, shutdown, disconnected, disconnect, wsConn,
                 requests, sendChan, requestLocked, closed, conn, unanswered,
                 senders, iconn, icall, outVars, reVars, wpc, appVars>>

\* Mutant: handleNotification runs the callback in a goroutine of its own.
InNtfnAsync(k) ==
  /\ ipc[k] = "read"
  /\ conn[iconn[k]] \in {"open", "lost"}
  /\ \E r \in BlockingCalls :
       /\ MethodOf(r) \in Registered
       /\ AddRequest(r)
       /\ icall' = [icall EXCEPT ![k] = {r}]
  /\ iconn' = [iconn EXCEPT ![k] = 0]
  /\ ipc' = [ipc EXCEPT ![k] = "top"]
  /\ UNCHANGED <<connEstablished, shutdown, disconnected, disconnect, wsConn,
                 ntfnState, sendChan, requestLocked, closed, conn, unanswered,
                 sdc, ireq, outVars, reVars, wpc, appVars>>

\* A notification whose callback makes a blocking call.  The callback runs in
\* the input handler: it goes on with sendMessage, as Sender(r), and nothing
\* is read until it has the reply.
InNtfn(k) ==
  /\ ipc[k] = "read"
  /\ conn[iconn[k]] \in {"open", "lost"}
  /\ \E r \in BlockingCalls :
       /\ MethodOf(r) \in Registered
       /\ AddRequest(r)
       /\ icall' = [icall EXCEPT ![k] = {r}]
  /\ iconn' = [iconn EXCEPT ![k] = 0]
  /\ ipc' = [ipc EXCEPT ![k] = "callback"]
  /\ UNCHANGED <<connEstablished, shutdown, disconnected, disconnect, wsConn,
                 ntfnState, sendChan, requestLocked, closed, conn, unanswered,
                 sdc, ireq, outVars, reVars, wpc, appVars>>

\* The callback has received the response, and returns.
InReturn(k) ==
  /\ ipc[k] = "callback"
  /\ \A r \in icall[k] : spc[r] = "done" /\ responses[r] # <<>>
  /\ icall' = [icall EXCEPT ![k] = {}]
  /\ ipc' = [ipc EXCEPT ![k] = "top"]
  /\ UNCHANGED <<fields, world, senders, iconn, ireq, outVars, reVars, wpc,
                 appVars>>

\* A notification whose callback calls nothing, or one that has none, or a
\* message that handleMessage logs and drops.
InOther(k) ==
  /\ ipc[k] = "read"
  /\ conn[iconn[k]] \in {"open", "lost"}
  /\ iconn' = [iconn EXCEPT ![k] = 0]
  /\ ipc' = [ipc EXCEPT ![k] = "top"]
  /\ UNCHANGED <<fields, world, senders, ireq, icall, outVars, reVars, wpc,
                 appVars>>

InReadError(k) ==
  /\ ipc[k] = "read"
  /\ conn[iconn[k]] \in {"lost", "closed"}
  /\ iconn' = [iconn EXCEPT ![k] = 0]
  /\ ipc' = [ipc EXCEPT ![k] = "disconnect"]
  /\ UNCHANGED <<fields, world, senders, ireq, icall, outVars, reVars, wpc,
                 appVars>>

\* "Ensure the connection is closed": whatever connection is current by now.
InDisconnect(k) ==
  /\ ipc[k] = "disconnect"
  /\ DoDisconnect(ipc, ipc', k, "done")
  /\ UNCHANGED <<connEstablished, shutdown, disconnect, wsConn, requests,
                 ntfnState, sendChan, requestLocked, unanswered, responses,
                 senders, iconn, ireq, icall, outVars, reVars, wpc, appVars>>

InCleanup(k) ==
  /\ ipc[k] = "cleanup"
  /\ DisconnectCleanup
  /\ ipc' = [ipc EXCEPT ![k] = "done"]
  /\ UNCHANGED <<connEstablished, disconnected, disconnect, wsConn, ntfnState,
                 sendChan, requestLocked, closed, conn, unanswered, senders,
                 iconn, ireq, icall, outVars, reVars, wpc, appVars>>

-----------------------------------------------------------------------------
(* wsOutHandler.                                                           *)

OutTop(k) ==
  /\ opc[k] = "top"
  /\ odc' = [odc EXCEPT ![k] = disconnect]
  /\ opc' = [opc EXCEPT ![k] = "select"]
  /\ UNCHANGED <<fields, world, senders, inVars, omsg, oconn, reVars, wpc,
                 appVars>>

OutSelect(k) ==
  /\ opc[k] = "select"
  /\ \/ /\ sendChan # <<>>
        /\ omsg' = [omsg EXCEPT ![k] = {Head(sendChan)}]
        /\ sendChan' = Tail(sendChan)
        /\ opc' = [opc EXCEPT ![k] = "write"]
     \/ /\ odc[k] \in closed
        /\ opc' = [opc EXCEPT ![k] = "drain"]
        /\ UNCHANGED <<omsg, sendChan>>
  /\ odc' = [odc EXCEPT ![k] = 0]
  /\ UNCHANGED <<connEstablished, shutdown, disconnected, disconnect, wsConn,
                 requests, ntfnState, requestLocked, world, senders, inVars,
                 oconn, reVars, wpc, appVars>>

\* c.wsConn.WriteMessage begins on the connection that is current now.
OutBeginWrite(k) ==
  /\ opc[k] = "write"
  /\ oconn' = [oconn EXCEPT ![k] = wsConn]
  /\ opc' = [opc EXCEPT ![k] = "writing"]
  /\ UNCHANGED <<fields, world, senders, inVars, odc, omsg, reVars, wpc,
                 appVars>>

\* A write to a connection that broke may still be buffered without error.
OutEndWrite(k) ==
  /\ opc[k] = "writing"
  /\ \/ /\ conn[oconn[k]] = "open"
        /\ unanswered' = [unanswered EXCEPT ![oconn[k]] =
             [r \in Reqs |-> IF r \in omsg[k] THEN @[r] + 1 ELSE @[r]]]
        /\ opc' = [opc EXCEPT ![k] = "top"]
     \/ /\ conn[oconn[k]] = "lost"
        /\ opc' = [opc EXCEPT ![k] = "top"]
        /\ UNCHANGED unanswered
     \/ /\ conn[oconn[k]] \in {"lost", "closed"}
        /\ opc' = [opc EXCEPT ![k] = "disconnect"]
        /\ UNCHANGED unanswered
  /\ omsg' = [omsg EXCEPT ![k] = {}]
  /\ oconn' = [oconn EXCEPT ![k] = 0]
  /\ UNCHANGED <<fields, closed, conn, responses, senders, inVars, odc,
                 reVars, wpc, appVars>>

OutDisconnect(k) ==
  /\ opc[k] = "disconnect"
  /\ DoDisconnect(opc, opc', k, "drain")
  /\ UNCHANGED <<connEstablished, shutdown, disconnect, wsConn, requests,
                 ntfnState, sendChan, requestLocked, unanswered, responses,
                 senders, inVars, odc, omsg, oconn, reVars, wpc, appVars>>

OutCleanup(k) ==
  /\ opc[k] = "cleanup"
  /\ DisconnectCleanup
  /\ opc' = [opc EXCEPT ![k] = "drain"]
  /\ UNCHANGED <<connEstablished, disconnected, disconnect, wsConn, ntfnState,
                 sendChan, requestLocked, closed, conn, unanswered, senders,
                 inVars, odc, omsg, oconn, reVars, wpc, appVars>>

\* The cleanup loop empties the one sendChan that all connections share.
OutDrain(k) ==
  /\ opc[k] = "drain"
  /\ \/ /\ sendChan # <<>>
        /\ sendChan' = Tail(sendChan)
        /\ UNCHANGED opc
     \/ /\ sendChan = <<>>
        /\ opc' = [opc EXCEPT ![k] = "done"]
        /\ UNCHANGED sendChan
  /\ UNCHANGED <<connEstablished, shutdown, disconnected, disconnect, wsConn,
                 requests, ntfnState, requestLocked, world, senders, inVars,
                 odc, omsg, oconn, reVars, wpc, appVars>>

-----------------------------------------------------------------------------
(* resendRequests and reregisterNtfns, started for connection k.           *)

\* The commands for a copy of the state: verbose replaces non-verbose.
Reregistered(state) ==
  {kd \in state : kd = "newtx" => "newtxverbose" \notin state}

\* The order in which reregisterNtfns issues them.
Order(kd) == CASE kd = "blocks"       -> 1
               [] kd = "newtx"        -> 2
               [] kd = "newtxverbose" -> 2
               [] kd = "spent"        -> 3
               [] kd = "received"     -> 4

ResendCopyState(k) ==
  /\ rpc[k] = "begin"
  /\ rtodo' = [rtodo EXCEPT ![k] = Reregistered(ntfnState)]
  /\ rpc' = [rpc EXCEPT ![k] = "register"]
  /\ UNCHANGED <<fields, world, senders, inVars, outVars, rreqs, rdc, wpc,
                 appVars>>

\* SendCmd of the next command; the goroutine then waits for its future.  A
\* command in ntfnState was sent before, so it is registered.
ResendRegister(k) ==
  /\ rpc[k] = "register"
  /\ \E kd \in rtodo[k] :
       /\ \A other \in rtodo[k] : Order(kd) <= Order(other)
       /\ AddRequest([conn |-> k, kind |-> kd])
       /\ rtodo' = [rtodo EXCEPT ![k] = @ \ {kd}]
       /\ rreqs' = [rreqs EXCEPT ![k] = {[conn |-> k, kind |-> kd]}]
  /\ rpc' = [rpc EXCEPT ![k] = "await"]
  /\ UNCHANGED <<connEstablished, shutdown, disconnected, disconnect, wsConn,
                 ntfnState, sendChan, requestLocked, closed, conn, unanswered,
                 sdc, inVars, outVars, rdc, wpc, appVars>>

ResendAwait(k) ==
  /\ rpc[k] = "await"
  /\ \E r \in rreqs[k] :
       /\ spc[r] = "done"
       /\ responses[r] # <<>>
       /\ rpc' = [rpc EXCEPT ![k] = IF Head(responses[r]) = "result"
                                    THEN "register" ELSE "disconnect"]
  /\ rreqs' = [rreqs EXCEPT ![k] = {}]
  /\ UNCHANGED <<fields, world, senders, inVars, outVars, rtodo, rdc, wpc,
                 appVars>>

ResendRegistered(k) ==
  /\ rpc[k] = "register"
  /\ rtodo[k] = {}
  /\ rpc' = [rpc EXCEPT ![k] = "copy"]
  /\ UNCHANGED <<fields, world, senders, inVars, outVars, rtodo, rreqs, rdc,
                 wpc, appVars>>

ResendDisconnect(k) ==
  /\ rpc[k] = "disconnect"
  /\ DoDisconnect(rpc, rpc', k, "done")
  /\ rtodo' = [rtodo EXCEPT ![k] = {}]
  /\ UNCHANGED <<connEstablished, shutdown, disconnect, wsConn, requests,
                 ntfnState, sendChan, requestLocked, unanswered, responses,
                 senders, inVars, outVars, rreqs, rdc, wpc, appVars>>

ResendCleanup(k) ==
  /\ rpc[k] = "cleanup"
  /\ DisconnectCleanup
  /\ rpc' = [rpc EXCEPT ![k] = "done"]
  /\ UNCHANGED <<connEstablished, disconnected, disconnect, wsConn, ntfnState,
                 sendChan, requestLocked, closed, conn, unanswered, senders,
                 inVars, outVars, rtodo, rreqs, rdc, wpc, appVars>>

\* Copy what is pending; what is not resent is forgotten.
ResendCopy(k) ==
  /\ rpc[k] = "copy"
  /\ ~requestLocked
  /\ rreqs' = [rreqs EXCEPT ![k] =
                 {r \in requests : MethodOf(r) \notin IgnoreResends}]
  /\ requests' = {r \in requests : MethodOf(r) \notin IgnoreResends}
  /\ rpc' = [rpc EXCEPT ![k] = "loop"]
  /\ UNCHANGED <<connEstablished, shutdown, disconnected, disconnect, wsConn,
                 ntfnState, sendChan, requestLocked, world, senders, inVars,
                 outVars, rtodo, rdc, wpc, appVars>>

\* The test of Disconnected(); the end of the loop.
ResendLoop(k) ==
  /\ rpc[k] = "loop"
  /\ \/ /\ rreqs[k] = {} \/ disconnected
        /\ rreqs' = [rreqs EXCEPT ![k] = {}]
        /\ rpc' = [rpc EXCEPT ![k] = "done"]
     \/ /\ rreqs[k] # {}
        /\ ~disconnected
        /\ rpc' = [rpc EXCEPT ![k] = "chan"]
        /\ UNCHANGED rreqs
  /\ UNCHANGED <<fields, world, senders, inVars, outVars, rtodo, rdc, wpc,
                 appVars>>

ResendDisconnectChan(k) ==
  /\ rpc[k] = "chan"
  /\ rdc' = [rdc EXCEPT ![k] = disconnect]
  /\ rpc' = [rpc EXCEPT ![k] = "select"]
  /\ UNCHANGED <<fields, world, senders, inVars, outVars, rtodo, rreqs, wpc,
                 appVars>>

\* sendMessage of one of the copies; their order is left open.
ResendMessage(k) ==
  /\ rpc[k] = "select"
  /\ \E r \in rreqs[k] :
       /\ rreqs' = [rreqs EXCEPT ![k] = @ \ {r}]
       /\ \/ /\ Len(sendChan) < SendBufferSize
             /\ sendChan' = Append(sendChan, r)
          \/ /\ rdc[k] \in closed
             /\ UNCHANGED sendChan
  /\ rdc' = [rdc EXCEPT ![k] = 0]
  /\ rpc' = [rpc EXCEPT ![k] = "loop"]
  /\ UNCHANGED <<connEstablished, shutdown, disconnected, disconnect, wsConn,
                 requests, ntfnState, requestLocked, world, senders, inVars,
                 outVars, rtodo, wpc, appVars>>

-----------------------------------------------------------------------------
(* wsReconnectHandler.                                                     *)

ReconnectWait ==
  /\ wpc = "wait"
  /\ \/ /\ disconnect \in closed
        /\ wpc' = "check"
     \/ /\ shutdown
        /\ wpc' = "done"
  /\ UNCHANGED <<fields, world, senders, inVars, outVars, reVars, appVars>>

\* Mutant: the reconnect loop does not look at the shutdown channel.
ReconnectCheckNever ==
  /\ wpc = "check"
  /\ wpc' = "dial"
  /\ UNCHANGED <<fields, world, senders, inVars, outVars, reVars, appVars>>

ReconnectCheck ==
  /\ wpc = "check"
  /\ wpc' = IF shutdown THEN "done" ELSE "dial"
  /\ UNCHANGED <<fields, world, senders, inVars, outVars, reVars, appVars>>

\* The back-off sleeps and tries again.
DialError ==
  /\ wpc = "dial"
  /\ wpc' = "check"
  /\ UNCHANGED <<fields, world, senders, inVars, outVars, reVars, appVars>>

\* dial succeeds and c.wsConn is set, without a lock.
DialOK ==
  /\ wpc = "dial"
  /\ wsConn < MaxConns
  /\ conn' = [conn EXCEPT ![wsConn + 1] = "open"]
  /\ wsConn' = wsConn + 1
  /\ wpc' = "reset"
  /\ UNCHANGED <<connEstablished, shutdown, disconnected, disconnect, requests,
                 ntfnState, sendChan, requestLocked, closed, unanswered,
                 responses, senders, inVars, outVars, reVars, appVars>>

\* A new disconnect channel under mtx, then start and go resendRequests.
ReconnectReset ==
  /\ wpc = "reset"
  /\ disconnect' = wsConn
  /\ disconnected' = FALSE
  /\ ipc' = [ipc EXCEPT ![wsConn] = "top"]
  /\ opc' = [opc EXCEPT ![wsConn] = "top"]
  /\ rpc' = [rpc EXCEPT ![wsConn] = "begin"]
  /\ wpc' = "wait"
  /\ UNCHANGED <<connEstablished, shutdown, wsConn, requests, ntfnState,
                 sendChan, requestLocked, world, senders, iconn, ireq, icall,
                 odc, omsg, oconn, rtodo, rreqs, rdc, appVars>>

-----------------------------------------------------------------------------
(* Disconnect and Shutdown called by the application.                      *)

AppDisconnect ==
  /\ "Disconnect" \in AppCalls
  /\ dpc = "idle"
  /\ CloseConnection
  /\ dpc' = "cleanup"
  /\ UNCHANGED <<connEstablished, shutdown, disconnect, wsConn, requests,
                 ntfnState, sendChan, requestLocked, unanswered, responses,
                 senders, inVars, outVars, reVars, wpc, upc>>

AppCleanup ==
  /\ dpc = "cleanup"
  /\ DisconnectCleanup
  /\ dpc' = "idle"
  /\ UNCHANGED <<connEstablished, disconnected, disconnect, wsConn, ntfnState,
                 sendChan, requestLocked, closed, conn, unanswered, senders,
                 inVars, outVars, reVars, wpc, upc>>

\* doShutdown and the pending requests, with requestLock held.
Shutdown ==
  /\ "Shutdown" \in AppCalls
  /\ upc = "idle"
  /\ ~requestLocked
  /\ ~shutdown
  /\ shutdown' = TRUE
  /\ FailPending("ErrClientShutdown")
  /\ requestLocked' = TRUE
  /\ upc' = "disconnect"
  /\ UNCHANGED <<connEstablished, disconnected, disconnect, wsConn, ntfnState,
                 sendChan, closed, conn, unanswered, senders, inVars, outVars,
                 reVars, wpc, dpc>>

\* Shutdown's doDisconnect, then requestLock is released.
ShutdownDisconnect ==
  /\ upc = "disconnect"
  /\ \/ CloseConnection
     \/ /\ disconnected
        /\ UNCHANGED <<disconnected, closed, conn>>
  /\ requestLocked' = FALSE
  /\ upc' = "done"
  /\ UNCHANGED <<connEstablished, shutdown, disconnect, wsConn, requests,
                 ntfnState, sendChan, unanswered, responses, senders, inVars,
                 outVars, reVars, wpc, dpc>>

-----------------------------------------------------------------------------
(* The network.                                                            *)

ConnLost(k) ==
  /\ k \notin StableConns
  /\ conn[k] = "open"
  /\ conn' = [conn EXCEPT ![k] = "lost"]
  /\ UNCHANGED <<fields, closed, unanswered, responses, senders, inVars,
                 outVars, reVars, wpc, appVars>>

-----------------------------------------------------------------------------

Sender(r) == SendDisconnectChan(r) \/ SendMessage(r)

InHandler(k) == \/ InTop(k) \/ InReply(k) \/ InDeliver(k) \/ InReadError(k)
                \/ InDisconnect(k) \/ InCleanup(k) \/ InReturn(k)

OutHandler(k) == \/ OutTop(k) \/ OutSelect(k) \/ OutBeginWrite(k)
                 \/ OutEndWrite(k) \/ OutDisconnect(k) \/ OutCleanup(k)
                 \/ OutDrain(k)

Resend(k) == \/ ResendCopyState(k) \/ ResendRegister(k) \/ ResendAwait(k)
             \/ ResendRegistered(k) \/ ResendDisconnect(k) \/ ResendCleanup(k)
             \/ ResendCopy(k) \/ ResendLoop(k) \/ ResendDisconnectChan(k)
             \/ ResendMessage(k)

Reconnect == \/ ReconnectWait \/ ReconnectCheck \/ DialError \/ DialOK
             \/ ReconnectReset

Application == \/ \E r \in Calls : SendCmdError(r) \/ SendRequest(r)
               \/ AppDisconnect \/ Shutdown

ApplicationReturn == AppCleanup \/ ShutdownDisconnect

Next ==
  \/ \E r \in Reqs : Sender(r)
  \/ \E k \in Conns : InHandler(k) \/ InNtfn(k) \/ InOther(k)
  \/ \E k \in Conns : OutHandler(k) \/ Resend(k)
  \/ Reconnect
  \/ Application
  \/ ApplicationReturn
  \/ \E k \in Conns : ConnLost(k)

Spec == Init /\ [][Next]_vars

\* The Go scheduler runs every goroutine that can run; the application is
\* free not to call anything, and the network is free not to break.
GoroutineFairness ==
  /\ \A r \in Reqs : WF_vars(Sender(r))
  /\ \A k \in Conns : /\ WF_vars(InHandler(k))
                      /\ WF_vars(OutHandler(k))
                      /\ WF_vars(Resend(k))
  /\ WF_vars(Reconnect)
  /\ WF_vars(ApplicationReturn)

\* A reply, or the error of a broken connection, is read in the end although
\* other messages may be read before it; a server that can be dialled again
\* and again is reached.
ServerFairness ==
  /\ \A k \in Conns : SF_vars(InReply(k)) /\ SF_vars(InReadError(k))
  /\ SF_vars(DialOK)

ScheduledSpec == Spec /\ GoroutineFairness

FairSpec == ScheduledSpec /\ ServerFairness

-----------------------------------------------------------------------------
(* Properties.                                                             *)

FieldsOK ==
  /\ connEstablished \in BOOLEAN
  /\ shutdown \in BOOLEAN
  /\ disconnected \in BOOLEAN
  /\ disconnect \in Conns
  /\ wsConn \in 0..MaxConns
  /\ requests \subseteq Reqs
  /\ ntfnState \subseteq NtfnKinds
  /\ sendChan \in Seq(Reqs)
  /\ requestLocked \in BOOLEAN

WorldOK ==
  /\ closed \subseteq Conns
  /\ conn \in [Conns -> {"none", "open", "lost", "closed"}]
  /\ unanswered \in [Conns -> [Reqs -> Nat]]
  /\ responses \in [Reqs -> Seq(Errors \cup Replies)]

SendersOK ==
  /\ spc \in [Reqs -> SenderPC]
  /\ sdc \in [Reqs -> 0..MaxConns]

InOK ==
  /\ ipc \in [Conns -> InPC]
  /\ iconn \in [Conns -> 0..MaxConns]
  /\ ireq \in [Conns -> SUBSET Reqs]
  /\ icall \in [Conns -> SUBSET Calls]

OutOK ==
  /\ opc \in [Conns -> OutPC]
  /\ odc \in [Conns -> 0..MaxConns]
  /\ omsg \in [Conns -> SUBSET Reqs]
  /\ oconn \in [Conns -> 0..MaxConns]

ResendOK ==
  /\ rpc \in [Conns -> ResendPC]
  /\ rtodo \in [Conns -> SUBSET NtfnKinds]
  /\ rreqs \in [Conns -> SUBSET Reqs]
  /\ rdc \in [Conns -> 0..MaxConns]

AppOK ==
  /\ dpc \in {"idle", "cleanup"}
  /\ upc \in {"idle", "disconnect", "done"}

TypeOK ==
  /\ FieldsOK /\ WorldOK /\ SendersOK /\ InOK /\ OutOK /\ ResendOK /\ AppOK
  /\ wpc \in ReconnectPC

(***************************************************************************)
(* A response channel has capacity one and is written by handleMessage, by *)
(* Disconnect and Shutdown with requestLock held, and by sendRequest: no   *)
(* two of them ever write the same channel, so none blocks on it (with     *)
(* requestLock held, everything else would block behind it).               *)
(***************************************************************************)
SingleResponse == \A r \in Reqs : Len(responses[r]) <= 1

(***************************************************************************)
(* The comment in addRequest: once shutdown is closed nothing is pending,  *)
(* and nothing is added any more, so no future waits for a client that has *)
(* gone away.                                                              *)
(***************************************************************************)
NothingPendingAfterShutdown == shutdown => requests = {}

(***************************************************************************)
(* doDisconnect closes c.disconnect exactly when disconnected is false: it *)
(* never closes a closed channel, which would panic, and a client that is  *)
(* disconnected has the channel closed, so that no sendMessage stays in    *)
(* its select.                                                             *)
(***************************************************************************)
DisconnectChannel == disconnected <=> disconnect \in closed

(***************************************************************************)
(* Every request that was sent and not answered is known to the client: it *)
(* is pending or in the hands of the one input handler that removed it     *)
(* (resendRequests forgets a rescan on purpose).                           *)
(***************************************************************************)
NoOrphans ==
  \A r \in Reqs :
    spc[r] # "idle" /\ responses[r] = <<>> /\ MethodOf(r) \notin IgnoreResends
      => \/ r \in requests
         \/ \E k \in Conns : r \in ireq[k]

(***************************************************************************)
(* requestMap and requestList are the client's books: while it runs they   *)
(* lose nothing that waits for an answer, and once it is shut down nothing *)
(* is left in them that would wait for ever.                               *)
(***************************************************************************)
BooksKept == NoOrphans /\ NothingPendingAfterShutdown

(***************************************************************************)
(* The client implements Futures: removing a request from requestMap under *)
(* requestLock is what claims it.                                          *)
(***************************************************************************)
FutureStatus(r) ==
  IF responses[r] # <<>> THEN "answered"
  ELSE IF spc[r] = "idle" THEN "new"
  ELSE IF r \in requests THEN "pending"
  ELSE IF \E k \in Conns : r \in ireq[k] THEN "claimed"
  ELSE "forgotten"

Promise == INSTANCE Futures WITH
  Forgettable <- {r \in Reqs : MethodOf(r) \in IgnoreResends},
  status <- [r \in Reqs |-> FutureStatus(r)],
  down <- shutdown

\* SendCmd's promise: every step of the client is one of Futures.
ImplementsFutures == Promise!Spec

(***************************************************************************)
(* The state of the connection: between dial and reset the client is       *)
(* disconnected and c.wsConn is one ahead of c.disconnect; otherwise the   *)
(* two belong to one connection.  A channel that is still to be made is    *)
(* not closed, and the handlers of its connection are not started.         *)
(***************************************************************************)
ConnectionInv ==
  /\ DisconnectChannel
  /\ closed \subseteq 1..disconnect
  /\ wpc \in {"check", "dial", "reset"} => disconnected
  /\ wpc = "reset" => wsConn = disconnect + 1
  /\ wpc # "reset" /\ connEstablished => wsConn = disconnect
  /\ ~connEstablished => wpc = "none"
  /\ \A k \in Conns : k > disconnect => ipc[k] = "none"

(***************************************************************************)
(* Who may answer a request: before it is sent nobody; then requestMap, or *)
(* the one input handler that removed it, and never both.                  *)
(***************************************************************************)
UnsentUnanswered == \A r \in Reqs : spc[r] = "idle" => responses[r] = <<>>

PendingUnanswered ==
  \A r \in requests : spc[r] # "idle" /\ responses[r] = <<>>

HeldUnanswered ==
  \A k \in Conns : \A r \in ireq[k] :
    /\ spc[r] # "idle"
    /\ responses[r] = <<>>
    /\ r \notin requests

HeldOnce ==
  /\ \A j, k \in Conns : \A r \in ireq[k] : r \in ireq[j] => j = k
  /\ \A k \in Conns : \A r \in ireq[k] : ireq[k] = {r}
  /\ \A k \in Conns : ipc[k] # "deliver" => ireq[k] = {}

OwnershipInv ==
  UnsentUnanswered /\ PendingUnanswered /\ HeldUnanswered /\ HeldOnce

(***************************************************************************)
(* Every goroutine of a client that was shut down ends and leaves it       *)
(* disconnected (the comment of Shutdown: "It also stops all goroutines"), *)
(* even if the reconnect handler was dialling meanwhile.                   *)
(***************************************************************************)
Stopped ==
  /\ disconnected
  /\ wpc \in {"none", "done"}
  /\ \A k \in Conns : /\ ipc[k] \in {"none", "done"}
                      /\ opc[k] \in {"none", "done"}
                      /\ rpc[k] \in {"none", "done"}
ShutdownStops == shutdown ~> Stopped

(***************************************************************************)
(* SendCmd: "returns a response channel on which the reply will be         *)
(* delivered at some point in the future".  It is, unless the callback of  *)
(* a notification waits for a reply that only its own goroutine can read   *)
(* and nobody shuts the client down.                                       *)
(***************************************************************************)
EveryFutureAnswered ==
  \/ \A r \in Calls : spc[r] # "idle" ~> responses[r] # <<>>
  \/ <>[](~shutdown /\ \E k \in Conns : ipc[k] = "callback")

(***************************************************************************)
(* The note on NotificationHandlers: a callback must not call anything     *)
(* that blocks, "since the input reader goroutine blocks until the         *)
(* callback has completed.  Doing so will result in a deadlock".  On a     *)
(* client that does not reconnect nobody else reads: what ends the wait is *)
(* never the server's reply, only an error.                                *)
(***************************************************************************)
CallbackUnanswered ==
  ~AutoReconnect =>
    \A k \in Conns : \A r \in icall[k] : \A i \in DOMAIN responses[r] :
      responses[r][i] \in Errors

(***************************************************************************)
(* wsReconnectHandler: "It also resends any commands that had not          *)
(* completed when the client disconnected so the disconnect/reconnect      *)
(* process is largely transparent to the caller".  A behaviour that uses   *)
(* up the connections of the model is excused.                             *)
(***************************************************************************)
ReconnectTransparent ==
  \A r \in Calls :
    spc[r] # "idle" ~> \/ responses[r] # <<>>
                       \/ disconnected /\ wsConn = MaxConns

=============================================================================
