----------------------------- MODULE NtfnManager -----------------------------
(***************************************************************************)
(* wsNotificationManager and the WebsocketHandler calls that use it        *)
(* (rpcwebsocket.go), from rpcServer.Start to rpcServer.Stop               *)
(* (rpcserver.go).                                                         *)
(*                                                                         *)
(* queueNotification, notificationMsgs and numClients have no buffer: a    *)
(* send and its receive are one step of two goroutines.  A goroutine whose *)
(* pc is at a select may not have parked there yet, so the default case of *)
(* a non-blocking send to it is possible too.  AddClient and RemoveClient  *)
(* are the only senders: the commands that would register for blocks and   *)
(* transactions are commented out in wsHandlers.                           *)
(***************************************************************************)
EXTENDS Naturals, Sequences, FiniteSets

CONSTANTS
  Handlers,         \* WebsocketHandler calls; a client is named by its call
  RPCMaxWebsockets  \* cfg.RPCMaxWebsockets

ASSUME ManagerAssumption ==
  /\ RPCMaxWebsockets \in Nat
  /\ IsFiniteSet(Handlers)

Messages == {"register", "unregister"} \X Handlers

VARIABLES
  quit,        \* m.quit is closed
  qpc, q,      \* queueHandler: pc and queue
  held,        \* the message it has read and not queued yet
  npc,         \* notificationHandler
  clients,     \* its map of clients
  wpc, hnum,   \* WebsocketHandler: pc, result of NumClients
  gone,        \* clients that are disconnected
  stopPC,      \* rpcServer.Start and Stop
  accepted,    \* history: what queueNotification took
  delivered    \* history: what notificationMsgs handed over

managerVars == <<quit, qpc, q, held, npc, clients, wpc, hnum, gone, stopPC,
                 accepted, delivered>>

ManagerInit ==
  /\ quit = FALSE
  /\ qpc = "none" /\ q = <<>> /\ held = <<>>
  /\ npc = "none"
  /\ clients = {}
  /\ wpc = [h \in Handlers |-> "idle"]
  /\ hnum = [h \in Handlers |-> 0]
  /\ gone = {}
  /\ stopPC = "starting"
  /\ accepted = <<>>
  /\ delivered = <<>>

-----------------------------------------------------------------------------
(* WebsocketHandler.                                                       *)

\* The listeners serve from rpcServer.Start on, before the manager starts.
Accept(h) ==
  /\ wpc[h] = "idle"
  /\ wpc' = [wpc EXCEPT ![h] = "num"]
  /\ UNCHANGED <<quit, qpc, q, held, npc, clients, hnum, gone, stopPC, accepted,
                 delivered>>

\* NumClients: what notificationHandler sends, or 0 once the manager quits.
NumClients(h) ==
  /\ wpc[h] = "num"
  /\ \/ /\ npc = "select"
        /\ hnum' = [hnum EXCEPT ![h] = Cardinality(clients)]
     \/ /\ quit
        /\ hnum' = [hnum EXCEPT ![h] = 0]
  /\ wpc' = [wpc EXCEPT ![h] = "limit"]
  /\ UNCHANGED <<quit, qpc, q, held, npc, clients, gone, stopPC, accepted,
                 delivered>>

\* The limit, and newWebsocketClient, which fails if there is no randomness.
Limit(h) ==
  /\ wpc[h] = "limit"
  /\ \/ /\ hnum[h] + 1 > RPCMaxWebsockets
        /\ wpc' = [wpc EXCEPT ![h] = "refused"]
     \/ /\ hnum[h] + 1 <= RPCMaxWebsockets
        /\ \E next \in {"add", "failed"} : wpc' = [wpc EXCEPT ![h] = next]
  /\ UNCHANGED <<quit, qpc, q, held, npc, clients, hnum, gone, stopPC, accepted,
                 delivered>>

\* queueHandler takes a message from queueNotification.
Enqueue(msg) ==
  /\ qpc = "select"
  /\ held' = <<msg>>
  /\ qpc' = "held"
  /\ accepted' = Append(accepted, msg)

\* AddClient, then the client's Start.
AddClient(h) ==
  /\ wpc[h] = "add"
  /\ Enqueue(<<"register", h>>)
  /\ wpc' = [wpc EXCEPT ![h] = "serve"]
  /\ UNCHANGED <<quit, q, npc, clients, hnum, gone, stopPC, delivered>>

\* The client's own handlers disconnect it (module WsClient).
ClientGone(h) ==
  /\ wpc[h] = "serve"
  /\ h \notin gone
  /\ gone' = gone \cup {h}
  /\ UNCHANGED <<quit, qpc, q, held, npc, clients, wpc, hnum, stopPC, accepted,
                 delivered>>

\* WaitForShutdown returns.
ClientWait(h) ==
  /\ wpc[h] = "serve"
  /\ h \in gone
  /\ wpc' = [wpc EXCEPT ![h] = "remove"]
  /\ UNCHANGED <<quit, qpc, q, held, npc, clients, hnum, gone, stopPC, accepted,
                 delivered>>

\* Mutant: like AddClient, no case for a manager that has quit.
RemoveClientBlocking(h) ==
  /\ wpc[h] = "remove"
  /\ Enqueue(<<"unregister", h>>)
  /\ wpc' = [wpc EXCEPT ![h] = "done"]
  /\ UNCHANGED <<quit, q, npc, clients, hnum, gone, stopPC, delivered>>

RemoveClient(h) ==
  /\ wpc[h] = "remove"
  /\ \/ Enqueue(<<"unregister", h>>)
     \/ /\ quit
        /\ UNCHANGED <<qpc, held, accepted>>
  /\ wpc' = [wpc EXCEPT ![h] = "done"]
  /\ UNCHANGED <<quit, q, npc, clients, hnum, gone, stopPC, delivered>>

-----------------------------------------------------------------------------
(* notificationHandler: a registered client becomes known; the case for    *)
(* notificationUnregisterClient is commented out, so that message is an    *)
(* "Unhandled notification type".                                          *)

\* Mutant: the case for registrations is commented out as well.
HandleNothing(msg) ==
  /\ npc = "select"
  /\ clients' = clients
  /\ delivered' = Append(delivered, msg)

Handle(msg) ==
  /\ npc = "select"
  /\ clients' = IF msg[1] = "register" THEN clients \cup {msg[2]} ELSE clients
  /\ delivered' = Append(delivered, msg)

\* notificationMsgs was closed by queueHandler, or quit was closed.
HandlerQuit ==
  /\ npc = "select"
  /\ qpc = "closed" \/ quit
  /\ npc' = "cleanup"
  /\ UNCHANGED <<quit, qpc, q, held, clients, wpc, hnum, gone, stopPC, accepted,
                 delivered>>

\* Mutant: the clients are left connected.
HandlerCleanupNothing ==
  /\ npc = "cleanup"
  /\ npc' = "done"
  /\ UNCHANGED <<quit, qpc, q, held, clients, wpc, hnum, gone, stopPC, accepted,
                 delivered>>

\* Disconnect every client.
HandlerCleanup ==
  /\ npc = "cleanup"
  /\ gone' = gone \cup clients
  /\ npc' = "done"
  /\ UNCHANGED <<quit, qpc, q, held, clients, wpc, hnum, stopPC, accepted,
                 delivered>>

-----------------------------------------------------------------------------
(* queueHandler.                                                           *)

\* Mutant: skipQueue is not cleared while the queue holds messages.
QueueHeldOvertaking ==
  /\ qpc = "held"
  /\ \/ /\ Handle(held[1])
        /\ UNCHANGED q
     \/ /\ q' = Append(q, held[1])
        /\ UNCHANGED <<clients, delivered>>
  /\ held' = <<>>
  /\ qpc' = "select"
  /\ UNCHANGED <<quit, npc, wpc, hnum, gone, stopPC, accepted>>

\* The inner select: hand the message over if the queue is empty and the
\* reader is ready, or else queue it.
QueueHeld ==
  /\ qpc = "held"
  /\ \/ /\ q = <<>>
        /\ Handle(held[1])
        /\ UNCHANGED q
     \/ /\ q' = Append(q, held[1])
        /\ UNCHANGED <<clients, delivered>>
  /\ held' = <<>>
  /\ qpc' = "select"
  /\ UNCHANGED <<quit, npc, wpc, hnum, gone, stopPC, accepted>>

QueueNext ==
  /\ qpc = "select"
  /\ q # <<>>
  /\ Handle(Head(q))
  /\ q' = Tail(q)
  /\ UNCHANGED <<quit, qpc, held, npc, wpc, hnum, gone, stopPC, accepted>>

\* Mutant: the handler stops only once its queue is empty.
QueueQuitDrained ==
  /\ qpc = "select"
  /\ quit
  /\ q = <<>>
  /\ qpc' = "closed"
  /\ UNCHANGED <<quit, q, held, npc, clients, wpc, hnum, gone, stopPC, accepted,
                 delivered>>

\* What is still queued is not sent; out is closed.
QueueQuit ==
  /\ qpc = "select"
  /\ quit
  /\ qpc' = "closed"
  /\ UNCHANGED <<quit, q, held, npc, clients, wpc, hnum, gone, stopPC, accepted,
                 delivered>>

-----------------------------------------------------------------------------
(* rpcServer.Start and Stop.                                               *)

StartManager ==
  /\ stopPC = "starting"
  /\ qpc' = "select"
  /\ npc' = "select"
  /\ stopPC' = "running"
  /\ UNCHANGED <<quit, q, held, clients, wpc, hnum, gone, accepted, delivered>>

\* A listener that cannot be closed ends Stop; a second Stop does nothing.
Stop ==
  /\ stopPC = "running"
  /\ \/ /\ stopPC' = "failed"
        /\ UNCHANGED quit
     \/ /\ quit' = TRUE
        /\ stopPC' = "wait"
  /\ UNCHANGED <<qpc, q, held, npc, clients, wpc, hnum, gone, accepted,
                 delivered>>

\* WaitForShutdown of the manager.
StopWait ==
  /\ stopPC = "wait"
  /\ qpc = "closed"
  /\ npc = "done"
  /\ stopPC' = "stopped"
  /\ UNCHANGED <<quit, qpc, q, held, npc, clients, wpc, hnum, gone, accepted,
                 delivered>>

-----------------------------------------------------------------------------

Serve(h) == \/ NumClients(h) \/ Limit(h) \/ AddClient(h) \/ ClientWait(h)
            \/ RemoveClient(h)

Queue == QueueHeld \/ QueueNext \/ QueueQuit

NtfnHandler == HandlerQuit \/ HandlerCleanup

ManagerNext ==
  \/ \E h \in Handlers : Accept(h) \/ Serve(h) \/ ClientGone(h)
  \/ Queue
  \/ NtfnHandler
  \/ StartManager
  \/ Stop
  \/ StopWait

ManagerSpec == ManagerInit /\ [][ManagerNext]_managerVars

\* Goroutines run when they can; connections, disconnects and Stop are free
\* to happen or not.
ManagerFairness ==
  /\ \A h \in Handlers : WF_managerVars(Serve(h))
  /\ WF_managerVars(Queue)
  /\ WF_managerVars(NtfnHandler)
  /\ WF_managerVars(StopWait)

ManagerFairSpec ==
  ManagerSpec /\ ManagerFairness /\ WF_managerVars(StartManager)

-----------------------------------------------------------------------------
(* Properties.                                                             *)

ManagerTypeOK ==
  /\ quit \in BOOLEAN
  /\ qpc \in {"none", "select", "held", "closed"}
  /\ q \in Seq(Messages)
  /\ held \in Seq(Messages)
  /\ npc \in {"none", "select", "cleanup", "done"}
  /\ clients \subseteq Handlers
  /\ wpc \in [Handlers -> {"idle", "num", "limit", "add", "serve", "remove",
                           "done", "refused", "failed"}]
  /\ hnum \in [Handlers -> Nat]
  /\ gone \subseteq Handlers
  /\ stopPC \in {"starting", "running", "failed", "wait", "stopped"}
  /\ accepted \in Seq(Messages)
  /\ delivered \in Seq(Messages)

(***************************************************************************)
(* queueHandler is "reading from in and sending the oldest unsent to out": *)
(* the shortcut around the queue, the queue itself and the message that    *)
(* was just read together deliver every message once and in order.         *)
(***************************************************************************)
Channel == INSTANCE Fifo WITH Items <- Messages, in <- accepted,
                              out <- delivered
QueueIsFifo == Channel!Spec

\* The queue holds what was accepted and not delivered, oldest first.
QueueInv ==
  /\ Len(held) = IF qpc = "held" THEN 1 ELSE 0
  /\ Len(accepted) = Len(delivered) + Len(q) + Len(held)
  /\ \A i \in 1..Len(q) : q[i] = accepted[Len(delivered) + i]
  /\ held # <<>> => held[1] = accepted[Len(accepted)]

(***************************************************************************)
(* When Stop returns, every client that the manager knew is disconnected,  *)
(* also one whose registration was handled while Stop was under way.       *)
(***************************************************************************)
StopDisconnects == stopPC = "stopped" => clients \subseteq gone

(***************************************************************************)
(* Stop waits for queueHandler and notificationHandler, which wait for     *)
(* each other's channels: it always returns.                               *)
(***************************************************************************)
StopReturns == stopPC = "wait" ~> stopPC = "stopped"

(***************************************************************************)
(* A connection is admitted or refused in the end, and RemoveClient        *)
(* returns, so that WebsocketHandler ends with its connection: before the  *)
(* manager is started, while it is busy, and after it has quit.            *)
(***************************************************************************)
ManagerAnswers ==
  \A h \in Handlers : /\ wpc[h] = "num" ~> wpc[h] # "num"
                      /\ wpc[h] = "remove" ~> wpc[h] = "done"

(***************************************************************************)
(* A client that is served becomes known to the manager unless the manager *)
(* quits first.                                                            *)
(***************************************************************************)
ClientRegistered ==
  \A h \in Handlers : wpc[h] = "serve" ~> h \in clients \/ quit

(***************************************************************************)
(* RemoveClient "removes the passed websocket client and all notifications *)
(* registered for it".                                                     *)
(***************************************************************************)
RemovedForgotten ==
  \A h \in Handlers : wpc[h] = "done" ~> h \notin clients \/ quit

=============================================================================
