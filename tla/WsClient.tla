------------------------------- MODULE WsClient -------------------------------
(***************************************************************************)
(* The server's side of one websocket connection (wsClient in              *)
(* rpcwebsocket.go): inHandler with its requests and batches, the          *)
(* goroutines that service requests, notificationQueueHandler, outHandler, *)
(* and their callers QueueNotification and Disconnect.                     *)
(*                                                                         *)
(* Every goroutine is a program counter.  Disconnect closes quit and the   *)
(* connection and sets disconnected under one lock, so the three are one   *)
(* variable; SendMessage reads it before it blocks on sendChan, and those  *)
(* are two steps.                                                          *)
(***************************************************************************)
EXTENDS Naturals, Sequences, FiniteSets, SequencesExt

CONSTANTS
  Users,                \* what checkAuth may have made of the upgrade request
  Singles,              \* the single requests of the peer
  Batches,              \* its batches: sequences of requests
  Registered,           \* the methods parseCmd knows
  RPCMaxConcurrentReqs, \* capacity of serviceRequestSem
  SendBufferSize,       \* websocketSendBufferSize: capacity of sendChan
  Notifiers,            \* the goroutines that call QueueNotification
  MaxMsgs,              \* bound: messages the peer sends
  MaxNtfns              \* bound: notifications queued

ASSUME WsAssumption ==
  /\ Users \subseteq {"none", "limited", "admin"}
  /\ RPCMaxConcurrentReqs \in Nat \ {0}
  /\ SendBufferSize \in Nat \ {0}
  /\ MaxMsgs \in Nat
  /\ MaxNtfns \in Nat

\* acbcjson registers one command, and the methods of the notifications.
ShippedRegistry == {"getblockhash", "blockconnected"}

\* Of the methods in the model, those in rpcLimited.
RpcLimited == {"getblockhash"}

(***************************************************************************)
(* A request: its method, or what is wrong with its text; for authenticate *)
(* the credentials in it; and whether its version is a valid one, which    *)
(* MarshalResponse insists on for every reply.                             *)
(***************************************************************************)
Methods == {"getblockhash", "blockconnected", "authenticate"}
Faults  == {"unparsable", "malformed", "noid"}
Request == [form : Methods \cup Faults, creds : {"none", "limited", "admin"},
            version : BOOLEAN]

ASSUME RequestAssumption ==
  /\ Singles \subseteq Request
  /\ Batches \subseteq Seq(Request)

Slots == 1..RPCMaxConcurrentReqs

VARIABLES
  disconnected,  \* and quit, and the connection: closed together
  lost,          \* the peer's end is gone
  authenticated,
  isAdmin,
  sendChan,      \* <<"reply", message>> or <<"ntfn", notification>>
  ntfnChan,
  ntfnSent,      \* tokens in ntfnSentChan
  (* goroutines *)
  ipc, imsg, icur,            \* inHandler: pc, its message, what is to be done
  sem,                        \* who holds each token of serviceRequestSem
  qpc, qmsg, waiting, pending, \* notificationQueueHandler
  opc, omsg,                  \* outHandler
  npc,                        \* callers of QueueNotification
  (* history *)
  queued,        \* notifications that entered ntfnChan so far
  written,       \* those written to the connection, in order
  replied        \* the messages whose reply was written

ntfnVars == <<ntfnChan, ntfnSent, qpc, qmsg, waiting, pending, npc, queued>>
inVars   == <<ipc, imsg, icur, authenticated, isAdmin>>
outVars  == <<opc, omsg, written, replied>>
vars     == <<disconnected, lost, sendChan, sem, ntfnVars, inVars, outVars>>

Free == [pc |-> "free", msg |-> 0, ok |-> TRUE]

\* The upgrade request was authenticated by checkAuth, or not yet.
Init ==
  /\ disconnected = FALSE
  /\ lost = FALSE
  /\ \E user \in Users :
       authenticated = (user # "none") /\ isAdmin = (user = "admin")
  /\ sendChan = <<>>
  /\ ntfnChan = <<>>
  /\ ntfnSent = 0
  /\ ipc = "top" /\ imsg = 0 /\ icur = <<>>
  /\ sem = [i \in Slots |-> Free]
  /\ qpc = "select" /\ qmsg = 0 /\ waiting = FALSE /\ pending = <<>>
  /\ opc = "select" /\ omsg = <<>>
  /\ npc = [t \in Notifiers |-> "idle"]
  /\ queued = 0
  /\ written = <<>>
  /\ replied = {}

-----------------------------------------------------------------------------
(* What the input handler makes of a request.                              *)

\* A command that is not authenticate: who may call it.
Authorize(auth, admin, q) ==
  IF ~auth THEN "quit"
  ELSE IF ~admin /\ q.form \notin RpcLimited THEN "forbidden"
  ELSE "execute"

\* The part that single requests and batch entries share.
Outcome(auth, admin, q) ==
  CASE q.form = "malformed"                   -> "error"
    [] q.form = "noid" /\ auth                -> "ignore"
    [] q.form = "unparsable" /\ auth          -> "error"
    [] q.form \in Methods \ Registered /\ auth -> "error"
    [] q.form \in {"noid", "unparsable"} \cup (Methods \ Registered) /\ ~auth
                                              -> "quit"
    [] q.form = "authenticate" /\ "authenticate" \in Registered
         -> IF auth \/ q.creds = "none" THEN "quit" ELSE "login"
    [] q.form \in (Methods \cap Registered) \ {"authenticate"}
         -> Authorize(auth, admin, q)

\* createMarshalledReply succeeds; a parse error is reported as version 1.0
\* or 2.0, everything else in the version of the request.
Marshals(q) == q.form = "unparsable" \/ q.version

\* One entry of a batch; st is what the loop has so far.
BatchEntry(st, q) ==
  LET o == Outcome(st.auth, st.admin, q)
  IN  IF st.end # "none" THEN st
      ELSE IF o = "quit" THEN [st EXCEPT !.end = "quit"]
      ELSE IF o = "execute" /\ ~Marshals(q) THEN [st EXCEPT !.end = "return"]
      ELSE IF o = "login"
           THEN [st EXCEPT !.auth = TRUE, !.admin = q.creds = "admin"]
      ELSE st

\* An empty batch, or one that is no JSON, is refused like a parse error.
Batch(entries) ==
  IF entries = <<>> /\ ~authenticated
  THEN [auth |-> FALSE, admin |-> FALSE, end |-> "quit"]
  ELSE FoldLeft(BatchEntry,
                [auth |-> authenticated, admin |-> isAdmin, end |-> "none"],
                entries)

-----------------------------------------------------------------------------
(* inHandler.                                                              *)

InTop ==
  /\ ipc = "top"
  /\ ipc' = IF disconnected THEN "quit" ELSE "read"
  /\ UNCHANGED <<disconnected, lost, sendChan, sem, ntfnVars, imsg, icur,
                 authenticated, isAdmin, outVars>>

\* A single request is dispatched as soon as it is read.
InRequest(q) ==
  /\ ipc = "read"
  /\ ~disconnected
  /\ imsg < MaxMsgs
  /\ imsg' = imsg + 1
  /\ LET o == Outcome(authenticated, isAdmin, q)
     IN  /\ icur' = IF o = "execute" THEN <<q>> ELSE <<>>
         /\ ipc' = CASE o = "quit" -> "quit"
                     [] o \in {"ignore", "forbidden"} -> "top"
                     [] o \in {"error", "login"}
                          -> IF Marshals(q) THEN "check" ELSE "top"
                     [] o = "execute" -> "acquire"
         /\ authenticated' = (authenticated \/ o = "login")
         /\ isAdmin' = (isAdmin \/ (o = "login" /\ q.creds = "admin"))
  /\ UNCHANGED <<disconnected, lost, sendChan, sem, ntfnVars, outVars>>

\* A batch takes the semaphore before anything else.
InBatchRead(b) ==
  /\ ipc = "read"
  /\ ~disconnected
  /\ imsg < MaxMsgs
  /\ imsg' = imsg + 1
  /\ icur' = b
  /\ ipc' = "acquirebatch"
  /\ UNCHANGED <<disconnected, lost, sendChan, sem, ntfnVars, authenticated,
                 isAdmin, outVars>>

InReadError ==
  /\ ipc = "read"
  /\ disconnected \/ lost
  /\ ipc' = "quit"
  /\ UNCHANGED <<disconnected, lost, sendChan, sem, ntfnVars, imsg, icur,
                 authenticated, isAdmin, outVars>>

\* go serviceRequest, once there is a token.
InService(i) ==
  /\ ipc = "acquire"
  /\ sem[i] = Free
  /\ sem' = [sem EXCEPT ![i] = [pc |-> "run", msg |-> imsg,
                                ok |-> Marshals(Head(icur))]]
  /\ ipc' = "top"
  /\ icur' = <<>>
  /\ UNCHANGED <<disconnected, lost, sendChan, ntfnVars, imsg, authenticated,
                 isAdmin, outVars>>

InAcquire(i) ==
  /\ ipc = "acquirebatch"
  /\ sem[i] = Free
  /\ sem' = [sem EXCEPT ![i] = [pc |-> "batch", msg |-> imsg, ok |-> TRUE]]
  /\ ipc' = "batch"
  /\ UNCHANGED <<disconnected, lost, sendChan, ntfnVars, imsg, icur,
                 authenticated, isAdmin, outVars>>

\* The loop over the entries: break out and return keep the token.
InBatch ==
  /\ ipc = "batch"
  /\ LET st == Batch(icur)
     IN  /\ authenticated' = st.auth
         /\ isAdmin' = st.admin
         /\ ipc' = CASE st.end = "none"   -> "check"
                     [] st.end = "quit"   -> "quit"
                     [] st.end = "return" -> "returned"
  /\ icur' = <<>>
  /\ UNCHANGED <<disconnected, lost, sendChan, sem, ntfnVars, imsg, outVars>>

\* After SendMessage: the token of a batch is released.
InSent ==
  /\ ipc' = "top"
  /\ icur' = <<>>
  /\ sem' = [i \in Slots |-> IF sem[i].pc = "batch" THEN Free ELSE sem[i]]
  /\ UNCHANGED <<disconnected, lost, ntfnVars, imsg, authenticated, isAdmin,
                 outVars>>

\* SendMessage: the test of Disconnected, then the send that may block.
InCheck ==
  /\ ipc = "check"
  /\ \/ /\ disconnected
        /\ InSent
     \/ /\ ~disconnected
        /\ ipc' = "send"
        /\ UNCHANGED <<disconnected, lost, sem, ntfnVars, imsg, icur,
                       authenticated, isAdmin, outVars>>
  /\ UNCHANGED sendChan

InSend ==
  /\ ipc = "send"
  /\ Len(sendChan) < SendBufferSize
  /\ sendChan' = Append(sendChan, <<"reply", imsg>>)
  /\ InSent

\* Mutant: the input handler leaves the connection open.
InQuitOpen ==
  /\ ipc = "quit"
  /\ ipc' = "done"
  /\ UNCHANGED <<disconnected, lost, sendChan, sem, ntfnVars, imsg, icur,
                 authenticated, isAdmin, outVars>>

InQuit ==
  /\ ipc = "quit"
  /\ disconnected' = TRUE
  /\ ipc' = "done"
  /\ UNCHANGED <<lost, sendChan, sem, ntfnVars, imsg, icur, authenticated,
                 isAdmin, outVars>>

-----------------------------------------------------------------------------
(* serviceRequest, with the token of slot i.                               *)

SvcRun(i) ==
  /\ sem[i].pc = "run"
  /\ sem' = [sem EXCEPT ![i] = IF @.ok /\ ~disconnected
                               THEN [@ EXCEPT !.pc = "send"] ELSE Free]
  /\ UNCHANGED <<disconnected, lost, sendChan, ntfnVars, inVars, outVars>>

\* Mutant: the token is not released.
SvcSendHolding(i) ==
  /\ sem[i].pc = "send"
  /\ Len(sendChan) < SendBufferSize
  /\ sendChan' = Append(sendChan, <<"reply", sem[i].msg>>)
  /\ sem' = [sem EXCEPT ![i] = [@ EXCEPT !.pc = "held"]]
  /\ UNCHANGED <<disconnected, lost, ntfnVars, inVars, outVars>>

SvcSend(i) ==
  /\ sem[i].pc = "send"
  /\ Len(sendChan) < SendBufferSize
  /\ sendChan' = Append(sendChan, <<"reply", sem[i].msg>>)
  /\ sem' = [sem EXCEPT ![i] = Free]
  /\ UNCHANGED <<disconnected, lost, ntfnVars, inVars, outVars>>

-----------------------------------------------------------------------------
(* QueueNotification by goroutine t: the test, then the send to ntfnChan.  *)

NtfnCheck(t) ==
  /\ npc[t] = "idle"
  /\ queued + Cardinality({u \in Notifiers : npc[u] = "send"}) < MaxNtfns
  /\ ~disconnected
  /\ npc' = [npc EXCEPT ![t] = "send"]
  /\ UNCHANGED <<disconnected, lost, sendChan, sem, ntfnChan, ntfnSent, qpc,
                 qmsg, waiting, pending, queued, inVars, outVars>>

NtfnSend(t) ==
  /\ npc[t] = "send"
  /\ ntfnChan = <<>>
  /\ ntfnChan' = <<queued + 1>>
  /\ queued' = queued + 1
  /\ npc' = [npc EXCEPT ![t] = "idle"]
  /\ UNCHANGED <<disconnected, lost, sendChan, sem, ntfnSent, qpc, qmsg,
                 waiting, pending, inVars, outVars>>

-----------------------------------------------------------------------------
(* notificationQueueHandler.                                               *)

\* Mutant: a notification that has to wait is dropped.
QueueNtfnDropping ==
  /\ qpc = "select"
  /\ ntfnChan # <<>>
  /\ ntfnChan' = <<>>
  /\ qmsg' = IF waiting THEN qmsg ELSE Head(ntfnChan)
  /\ qpc' = IF waiting THEN qpc ELSE "check"
  /\ waiting' = TRUE
  /\ UNCHANGED <<disconnected, lost, sendChan, sem, ntfnSent, pending, npc,
                 queued, inVars, outVars>>

QueueNtfn ==
  /\ qpc = "select"
  /\ ntfnChan # <<>>
  /\ ntfnChan' = <<>>
  /\ \/ /\ ~waiting
        /\ qmsg' = Head(ntfnChan)
        /\ qpc' = "check"
        /\ UNCHANGED pending
     \/ /\ waiting
        /\ pending' = pending \o ntfnChan
        /\ UNCHANGED <<qmsg, qpc>>
  /\ waiting' = TRUE
  /\ UNCHANGED <<disconnected, lost, sendChan, sem, ntfnSent, npc, queued,
                 inVars, outVars>>

\* Mutant: waiting is cleared although the next notification is sent.
QueueNextForgetting ==
  /\ qpc = "select"
  /\ ntfnSent > 0
  /\ ntfnSent' = ntfnSent - 1
  /\ waiting' = FALSE
  /\ qmsg' = IF pending = <<>> THEN qmsg ELSE Head(pending)
  /\ pending' = IF pending = <<>> THEN pending ELSE Tail(pending)
  /\ qpc' = IF pending = <<>> THEN qpc ELSE "check"
  /\ UNCHANGED <<disconnected, lost, sendChan, sem, ntfnChan, npc, queued,
                 inVars, outVars>>

QueueNext ==
  /\ qpc = "select"
  /\ ntfnSent > 0
  /\ ntfnSent' = ntfnSent - 1
  /\ \/ /\ pending = <<>>
        /\ waiting' = FALSE
        /\ UNCHANGED <<qmsg, qpc, pending>>
     \/ /\ pending # <<>>
        /\ qmsg' = Head(pending)
        /\ pending' = Tail(pending)
        /\ qpc' = "check"
        /\ UNCHANGED waiting
  /\ UNCHANGED <<disconnected, lost, sendChan, sem, ntfnChan, npc, queued,
                 inVars, outVars>>

QueueQuit ==
  /\ qpc = "select"
  /\ disconnected
  /\ qpc' = "drain"
  /\ UNCHANGED <<disconnected, lost, sendChan, sem, ntfnChan, ntfnSent, qmsg,
                 waiting, pending, npc, queued, inVars, outVars>>

\* SendMessage(msg, ntfnSentChan): doneChan has room for one token.
QueueCheck ==
  /\ qpc = "check"
  /\ \/ /\ disconnected
        /\ ntfnSent < 1
        /\ ntfnSent' = ntfnSent + 1
        /\ qpc' = "select"
        /\ qmsg' = 0
     \/ /\ ~disconnected
        /\ qpc' = "send"
        /\ UNCHANGED <<ntfnSent, qmsg>>
  /\ UNCHANGED <<disconnected, lost, sendChan, sem, ntfnChan, waiting, pending,
                 npc, queued, inVars, outVars>>

QueueSend ==
  /\ qpc = "send"
  /\ Len(sendChan) < SendBufferSize
  /\ sendChan' = Append(sendChan, <<"ntfn", qmsg>>)
  /\ qpc' = "select"
  /\ qmsg' = 0
  /\ UNCHANGED <<disconnected, lost, sem, ntfnChan, ntfnSent, waiting, pending,
                 npc, queued, inVars, outVars>>

\* Mutant: the handler leaves without draining its channels.
QueueDrainNothing ==
  /\ qpc = "drain"
  /\ qpc' = "done"
  /\ UNCHANGED <<disconnected, lost, sendChan, sem, ntfnChan, ntfnSent, qmsg,
                 waiting, pending, npc, queued, inVars, outVars>>

QueueDrain ==
  /\ qpc = "drain"
  /\ \/ /\ ntfnChan # <<>>
        /\ ntfnChan' = <<>>
        /\ UNCHANGED <<ntfnSent, qpc>>
     \/ /\ ntfnSent > 0
        /\ ntfnSent' = ntfnSent - 1
        /\ UNCHANGED <<ntfnChan, qpc>>
     \/ /\ ntfnChan = <<>> /\ ntfnSent = 0
        /\ qpc' = "done"
        /\ UNCHANGED <<ntfnChan, ntfnSent>>
  /\ UNCHANGED <<disconnected, lost, sendChan, sem, qmsg, waiting, pending,
                 npc, queued, inVars, outVars>>

-----------------------------------------------------------------------------
(* outHandler.                                                             *)

OutSelect ==
  /\ opc = "select"
  /\ \/ /\ sendChan # <<>>
        /\ omsg' = Head(sendChan)
        /\ sendChan' = Tail(sendChan)
        /\ opc' = "write"
     \/ /\ disconnected
        /\ opc' = "drain"
        /\ UNCHANGED <<omsg, sendChan>>
  /\ UNCHANGED <<disconnected, lost, sem, ntfnVars, inVars, written, replied>>

\* A write to a peer that is gone may still be buffered without an error.
OutWrite ==
  /\ opc = "write"
  /\ \/ /\ ~disconnected /\ ~lost
        /\ written' = IF omsg[1] = "ntfn" THEN Append(written, omsg[2])
                                          ELSE written
        /\ replied' = IF omsg[1] = "reply" THEN replied \cup {omsg[2]}
                                           ELSE replied
        /\ opc' = "written"
     \/ /\ ~disconnected /\ lost
        /\ opc' = "written"
        /\ UNCHANGED <<written, replied>>
     \/ /\ disconnected \/ lost
        /\ opc' = "quit"
        /\ UNCHANGED <<written, replied>>
  /\ UNCHANGED <<disconnected, lost, sendChan, sem, ntfnVars, inVars, omsg>>

\* r.doneChan <- true, for a notification.
OutWritten ==
  /\ opc = "written"
  /\ \/ /\ omsg[1] = "ntfn"
        /\ ntfnSent < 1
        /\ ntfnSent' = ntfnSent + 1
     \/ /\ omsg[1] = "reply"
        /\ UNCHANGED ntfnSent
  /\ opc' = "select"
  /\ omsg' = <<>>
  /\ UNCHANGED <<disconnected, lost, sendChan, sem, ntfnChan, qpc, qmsg,
                 waiting, pending, npc, queued, inVars, written, replied>>

\* c.Disconnect after a write error; the message is not acknowledged.
OutQuit ==
  /\ opc = "quit"
  /\ disconnected' = TRUE
  /\ opc' = "drain"
  /\ omsg' = <<>>
  /\ UNCHANGED <<lost, sendChan, sem, ntfnVars, inVars, written, replied>>

OutDrain ==
  /\ opc = "drain"
  /\ \/ /\ sendChan # <<>>
        /\ sendChan' = Tail(sendChan)
        /\ \/ /\ Head(sendChan)[1] = "ntfn"
              /\ ntfnSent < 1
              /\ ntfnSent' = ntfnSent + 1
           \/ /\ Head(sendChan)[1] = "reply"
              /\ UNCHANGED ntfnSent
        /\ UNCHANGED opc
     \/ /\ sendChan = <<>>
        /\ opc' = "done"
        /\ UNCHANGED <<sendChan, ntfnSent>>
  /\ UNCHANGED <<disconnected, lost, sem, ntfnChan, qpc, qmsg, waiting,
                 pending, npc, queued, inVars, omsg, written, replied>>

-----------------------------------------------------------------------------

\* The notification manager disconnects its clients when it shuts down.
Disconnect ==
  /\ ~disconnected
  /\ disconnected' = TRUE
  /\ UNCHANGED <<lost, sendChan, sem, ntfnVars, inVars, outVars>>

\* The network.
ConnLost ==
  /\ ~lost
  /\ lost' = TRUE
  /\ UNCHANGED <<disconnected, sendChan, sem, ntfnVars, inVars, outVars>>

In ==
  \/ InTop \/ InReadError \/ InBatch \/ InCheck \/ InSend \/ InQuit
  \/ \E i \in Slots : InService(i) \/ InAcquire(i)

Peer == \/ \E q \in Singles : InRequest(q)
        \/ \E b \in Batches : InBatchRead(b)

Service(i) == SvcRun(i) \/ SvcSend(i)

Queue == \/ QueueNtfn \/ QueueNext \/ QueueQuit \/ QueueCheck \/ QueueSend
         \/ QueueDrain

Out == OutSelect \/ OutWritten \/ OutQuit \/ OutDrain

Next ==
  \/ In
  \/ Peer
  \/ \E i \in Slots : Service(i)
  \/ \E t \in Notifiers : NtfnCheck(t) \/ NtfnSend(t)
  \/ Queue
  \/ Out
  \/ OutWrite
  \/ Disconnect
  \/ ConnLost

Spec == Init /\ [][Next]_vars

\* The scheduler runs every goroutine that can run.  Nobody has to send
\* requests or notifications, or to disconnect.
ScheduledSpec ==
  /\ Spec
  /\ WF_vars(In)
  /\ \A i \in Slots : WF_vars(Service(i))
  /\ \A t \in Notifiers : WF_vars(NtfnSend(t))
  /\ WF_vars(Queue)
  /\ WF_vars(Out)

\* A write ends: the peer reads, or the connection breaks.
FairSpec == ScheduledSpec /\ WF_vars(OutWrite)

-----------------------------------------------------------------------------
(* Properties.                                                             *)

Msg == ({"reply"} \X (1..MaxMsgs)) \cup ({"ntfn"} \X (1..MaxNtfns))

TypeOK ==
  /\ disconnected \in BOOLEAN /\ lost \in BOOLEAN
  /\ authenticated \in BOOLEAN /\ isAdmin \in BOOLEAN
  /\ sendChan \in Seq(Msg) /\ Len(sendChan) <= SendBufferSize
  /\ ntfnChan \in Seq(1..MaxNtfns) /\ Len(ntfnChan) <= 1
  /\ ntfnSent \in 0..1
  /\ ipc \in {"top", "read", "acquire", "acquirebatch", "batch", "check",
              "send", "quit", "returned", "done"}
  /\ imsg \in 0..MaxMsgs
  /\ icur \in Seq(Request)
  /\ sem \in [Slots -> [pc : {"free", "batch", "run", "send"},
                        msg : 0..MaxMsgs, ok : BOOLEAN]]
  /\ qpc \in {"select", "check", "send", "drain", "done"}
  /\ qmsg \in 0..MaxNtfns
  /\ waiting \in BOOLEAN
  /\ pending \in Seq(1..MaxNtfns)
  /\ opc \in {"select", "write", "written", "quit", "drain", "done"}
  /\ omsg \in Msg \cup {<<>>}
  /\ npc \in [Notifiers -> {"idle", "send"}]
  /\ queued \in 0..MaxNtfns
  /\ written \in Seq(1..MaxNtfns)
  /\ replied \subseteq 1..MaxMsgs

(***************************************************************************)
(* ntfnSentChan has room for one token, and notificationQueueHandler,      *)
(* SendMessage and outHandler all put tokens into it.  No more than one    *)
(* notification is ever between the queue and its token, also while the    *)
(* client disconnects, so that none of the three blocks on that channel.   *)
(***************************************************************************)
Outstanding ==
  Cardinality({i \in 1..Len(sendChan) : sendChan[i][1] = "ntfn"})
    + (IF omsg # <<>> /\ omsg[1] = "ntfn" THEN 1 ELSE 0)
    + (IF qpc \in {"check", "send"} THEN 1 ELSE 0)
    + ntfnSent
OneOutstanding ==
  /\ Outstanding <= 1
  /\ ~waiting => Outstanding = 0

(***************************************************************************)
(* Notifications are written in the order in which QueueNotification took  *)
(* them, and as long as the connection lives none is dropped on the way    *)
(* through ntfnChan, pendingNtfns, sendChan and outHandler.                *)
(***************************************************************************)
Unwritten ==
  Len(ntfnChan) + Len(pending)
    + (IF qpc \in {"check", "send"} THEN 1 ELSE 0)
    + Cardinality({i \in 1..Len(sendChan) : sendChan[i][1] = "ntfn"})
    + (IF opc = "write" /\ omsg[1] = "ntfn" THEN 1 ELSE 0)
NtfnFIFO ==
  /\ \A i \in 1..Len(written) : written[i] = i
  /\ ~disconnected /\ ~lost => Len(written) + Unwritten = queued

(***************************************************************************)
(* A request whose reply can be marshalled is answered unless the          *)
(* connection ends first: neither the semaphore nor a full sendChan can    *)
(* hold it up for ever.                                                    *)
(***************************************************************************)
ReplyDue(m) ==
  \/ imsg = m /\ ipc \in {"check", "send"}
  \/ imsg = m /\ ipc = "acquire" /\ Marshals(Head(icur))
  \/ \E i \in Slots : sem[i].msg = m /\ sem[i].ok /\ sem[i].pc \in {"run", "send"}
ReplyWritten ==
  \A m \in 1..MaxMsgs :
    ReplyDue(m) ~> m \in replied \/ disconnected \/ lost

(***************************************************************************)
(* SendMessage has no case for quit.  A sender that passed the test of     *)
(* Disconnected stays at a full sendChan once outHandler has gone.         *)
(***************************************************************************)
SenderStuck ==
  /\ opc = "done"
  /\ Len(sendChan) = SendBufferSize
  /\ ipc = "send" \/ qpc = "send" \/ \E i \in Slots : sem[i].pc = "send"

(***************************************************************************)
(* WaitForShutdown "blocks until the websocket client goroutines are       *)
(* stopped and the connection is closed": once the client is disconnected  *)
(* all three handlers reach wg.Done.  There are two ways to miss it: a     *)
(* sender left behind at a full sendChan, and the return out of a batch    *)
(* whose reply cannot be marshalled.                                       *)
(***************************************************************************)
HandlersDone == ipc = "done" /\ qpc = "done" /\ opc = "done"
ShutdownCompletes ==
  disconnected \/ ipc = "done"
    ~> HandlersDone \/ SenderStuck \/ ipc = "returned"

(***************************************************************************)
(* Callers of QueueNotification that passed the test of Disconnected never *)
(* all stay behind at ntfnChan, although the client may disconnect, and    *)
(* notificationQueueHandler drain the channel and go, before they send; as *)
(* long as the client is connected each of them returns, and a single      *)
(* caller always does.  Of two, one may be left: the other refills the     *)
(* channel after the handler has drained it.  The calls in the code are in *)
(* notifyForTxIns and notifyForTxOuts of the notification manager, whose   *)
(* own callers, in the one notificationHandler, are commented out.         *)
(***************************************************************************)
QueueNotificationReturns ==
  /\ \A t \in Notifiers : npc[t] = "send" ~> npc[t] = "idle" \/ disconnected
  /\ (\A t \in Notifiers : npc[t] = "send")
       ~> (\E t \in Notifiers : npc[t] = "idle") \/ SenderStuck

=============================================================================
