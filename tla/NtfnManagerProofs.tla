-------------------------- MODULE NtfnManagerProofs --------------------------
(***************************************************************************)
(* The notification manager's queue keeps order and its shutdown           *)
(* disconnects every client it knows, for every set of connections and     *)
(* every limit.                                                            *)
(***************************************************************************)
EXTENDS NtfnManager, FiniteSetTheorems, TLAPS

-----------------------------------------------------------------------------
(* Types.                                                                  *)

\* ManagerInit establishes ManagerTypeOK.
LEMMA TypeInit == ManagerInit => ManagerTypeOK
<1> SUFFICES ASSUME ManagerInit PROVE ManagerTypeOK
  OBVIOUS
<1>1. <<>> \in Seq(Messages)
  OBVIOUS
<1>2. wpc \in [Handlers -> {"idle", "num", "limit", "add", "serve", "remove",
                           "done", "refused", "failed"}]
  BY DEF ManagerInit
<1>3. hnum \in [Handlers -> Nat]
  BY DEF ManagerInit
<1> QED
  BY <1>1, <1>2, <1>3 DEF ManagerInit, ManagerTypeOK

\* len(clients), which NumClients returns, is a natural number.
LEMMA CountType == ManagerTypeOK => Cardinality(clients) \in Nat
<1> SUFFICES ASSUME ManagerTypeOK PROVE Cardinality(clients) \in Nat
  OBVIOUS
<1>1. clients \subseteq Handlers
  BY DEF ManagerTypeOK
<1>2. IsFiniteSet(clients)
  BY <1>1, ManagerAssumption, FS_Subset
<1> QED
  BY <1>2, FS_CardinalityType

\* A message that notificationHandler takes leaves its state well typed.
LEMMA HandleType ==
  ASSUME ManagerTypeOK, NEW msg \in Messages, Handle(msg)
  PROVE  /\ clients' \subseteq Handlers
         /\ delivered' \in Seq(Messages)
<1>1. msg[2] \in Handlers
  BY DEF Messages
<1> QED
  BY <1>1 DEF ManagerTypeOK, Handle

\* A message that queueHandler takes leaves its state well typed.
LEMMA EnqueueType ==
  ASSUME ManagerTypeOK, NEW msg \in Messages, Enqueue(msg)
  PROVE  /\ qpc' \in {"none", "select", "held", "closed"}
         /\ held' \in Seq(Messages)
         /\ accepted' \in Seq(Messages)
BY DEF ManagerTypeOK, Enqueue

\* While queueHandler is in its inner select it holds one message.
LEMMA HeldMessage ==
  ASSUME ManagerTypeOK, QueueInv, qpc = "held"
  PROVE  held[1] \in Messages /\ Len(held) = 1 /\ held # <<>>
<1>1. held \in Seq(Messages) /\ Len(held) = 1
  BY DEF ManagerTypeOK, QueueInv
<1>2. held # <<>>
  BY <1>1
<1> QED
  BY <1>1, <1>2

\* Every step keeps the types; QueueInv says that a held message exists.
LEMMA TypeStep == ManagerTypeOK /\ QueueInv /\ [ManagerNext]_managerVars => ManagerTypeOK'
<1> SUFFICES ASSUME ManagerTypeOK, QueueInv, [ManagerNext]_managerVars PROVE ManagerTypeOK'
  OBVIOUS
<1>1. ASSUME NEW h \in Handlers, Accept(h) PROVE ManagerTypeOK'
  BY <1>1 DEF ManagerTypeOK, Accept
<1>2. ASSUME NEW h \in Handlers, NumClients(h) PROVE ManagerTypeOK'
  <2>1. Cardinality(clients) \in Nat /\ hnum \in [Handlers -> Nat]
    BY CountType DEF ManagerTypeOK
  <2>2. \E n \in Nat : hnum' = [hnum EXCEPT ![h] = n]
    BY <1>2, <2>1 DEF NumClients
  <2>3. hnum' \in [Handlers -> Nat]
    BY <2>1, <2>2
  <2> QED
    BY <1>2, <2>3 DEF ManagerTypeOK, NumClients
<1>3. ASSUME NEW h \in Handlers, Limit(h) PROVE ManagerTypeOK'
  BY <1>3 DEF ManagerTypeOK, Limit
<1>4. ASSUME NEW h \in Handlers, AddClient(h) PROVE ManagerTypeOK'
  <2>1. <<"register", h>> \in Messages
    BY DEF Messages
  <2> QED
    BY <1>4, <2>1, EnqueueType DEF ManagerTypeOK, AddClient
<1>5. ASSUME NEW h \in Handlers, ClientGone(h) PROVE ManagerTypeOK'
  BY <1>5 DEF ManagerTypeOK, ClientGone
<1>6. ASSUME NEW h \in Handlers, ClientWait(h) PROVE ManagerTypeOK'
  BY <1>6 DEF ManagerTypeOK, ClientWait
<1>7. ASSUME NEW h \in Handlers, RemoveClient(h) PROVE ManagerTypeOK'
  <2>1. <<"unregister", h>> \in Messages
    BY DEF Messages
  <2>2. CASE Enqueue(<<"unregister", h>>)
    BY <1>7, <2>1, <2>2, EnqueueType DEF ManagerTypeOK, RemoveClient
  <2>3. CASE UNCHANGED <<qpc, held, accepted>>
    BY <1>7, <2>3 DEF ManagerTypeOK, RemoveClient
  <2> QED
    BY <1>7, <2>2, <2>3 DEF RemoveClient
<1>8. CASE QueueHeld
  <2>1. held[1] \in Messages
    BY <1>8, HeldMessage DEF QueueHeld
  <2>2. CASE q = <<>> /\ Handle(held[1]) /\ UNCHANGED q
    BY <1>8, <2>1, <2>2, HandleType DEF ManagerTypeOK, QueueHeld
  <2>3. CASE q' = Append(q, held[1]) /\ UNCHANGED <<clients, delivered>>
    BY <1>8, <2>1, <2>3 DEF ManagerTypeOK, QueueHeld
  <2> QED
    BY <1>8, <2>2, <2>3 DEF QueueHeld
<1>9. CASE QueueNext
  <2>1. Head(q) \in Messages /\ Tail(q) \in Seq(Messages)
    BY <1>9 DEF ManagerTypeOK, QueueNext
  <2> QED
    BY <1>9, <2>1, HandleType DEF ManagerTypeOK, QueueNext
<1>10. CASE QueueQuit
  BY <1>10 DEF ManagerTypeOK, QueueQuit
<1>11. CASE HandlerQuit
  BY <1>11 DEF ManagerTypeOK, HandlerQuit
<1>12. CASE HandlerCleanup
  BY <1>12 DEF ManagerTypeOK, HandlerCleanup
<1>13. CASE StartManager
  BY <1>13 DEF ManagerTypeOK, StartManager
<1>14. CASE Stop
  BY <1>14 DEF ManagerTypeOK, Stop
<1>15. CASE StopWait
  BY <1>15 DEF ManagerTypeOK, StopWait
<1>16. CASE UNCHANGED managerVars
  BY <1>16 DEF ManagerTypeOK, managerVars
<1> QED
  BY <1>1, <1>2, <1>3, <1>4, <1>5, <1>6, <1>7, <1>8, <1>9, <1>10, <1>11,
     <1>12, <1>13, <1>14, <1>15, <1>16
  DEF ManagerNext, Serve, Queue, NtfnHandler

\* The manager's goroutines do not exist before Start.
NotStarted == stopPC = "starting" => qpc = "none" /\ npc = "none"

\* Every step keeps NotStarted.
LEMMA NotStartedStep == NotStarted /\ [ManagerNext]_managerVars => NotStarted'
BY DEF NotStarted, ManagerNext, managerVars, Serve, Queue, NtfnHandler, Accept, NumClients,
       Limit, AddClient, ClientGone, ClientWait, RemoveClient, Enqueue,
       QueueHeld, QueueNext, QueueQuit, HandlerQuit, HandlerCleanup,
       StartManager, Stop, StopWait

-----------------------------------------------------------------------------
(* The queue.  A step puts a message in, moves one to the queue, hands one *)
(* over, or leaves the queue alone.                                        *)

\* queueHandler read msg from its input.
Puts(msg) == Enqueue(msg) /\ UNCHANGED <<q, delivered>>

\* What the other goroutines do leaves queueHandler's data alone.
Idle ==
  /\ UNCHANGED <<q, held, accepted, delivered>>
  /\ qpc' = qpc \/ (qpc # "held" /\ qpc' # "held")

\* The steps of the manager, as queueHandler sees them.
LEMMA QueueSteps ==
  ASSUME NotStarted, [ManagerNext]_managerVars
  PROVE  \/ \E msg \in Messages : Puts(msg)
         \/ QueueHeld
         \/ QueueNext
         \/ Idle
<1>1. ASSUME NEW h \in Handlers, AddClient(h)
      PROVE  \E msg \in Messages : Puts(msg)
  BY <1>1 DEF AddClient, Puts, Messages
<1>2. ASSUME NEW h \in Handlers, RemoveClient(h)
      PROVE  (\E msg \in Messages : Puts(msg)) \/ Idle
  <2>1. CASE Enqueue(<<"unregister", h>>)
    BY <1>2, <2>1 DEF RemoveClient, Puts, Messages
  <2>2. CASE UNCHANGED <<qpc, held, accepted>>
    BY <1>2, <2>2 DEF RemoveClient, Idle
  <2> QED
    BY <1>2, <2>1, <2>2 DEF RemoveClient
<1>3. ASSUME NEW h \in Handlers,
             Accept(h) \/ NumClients(h) \/ Limit(h) \/ ClientGone(h)
               \/ ClientWait(h)
      PROVE  Idle
  BY <1>3 DEF Accept, NumClients, Limit, ClientGone, ClientWait, Idle
<1>4. CASE QueueQuit \/ HandlerQuit \/ HandlerCleanup
  BY <1>4 DEF QueueQuit, HandlerQuit, HandlerCleanup, Idle
<1>5. CASE StartManager
  BY <1>5 DEF StartManager, Idle, NotStarted
<1>6. CASE Stop \/ StopWait
  BY <1>6 DEF Stop, StopWait, Idle
<1>7. CASE UNCHANGED managerVars
  BY <1>7 DEF managerVars, Idle
<1> QED
  BY <1>1, <1>2, <1>3, <1>4, <1>5, <1>6, <1>7
  DEF ManagerNext, Serve, Queue, NtfnHandler

\* Every step keeps QueueInv.
LEMMA QueueStep == ManagerTypeOK /\ NotStarted /\ QueueInv /\ [ManagerNext]_managerVars => QueueInv'
<1> SUFFICES ASSUME ManagerTypeOK, NotStarted, QueueInv, [ManagerNext]_managerVars PROVE QueueInv'
  OBVIOUS
<1>t. /\ q \in Seq(Messages)
      /\ held \in Seq(Messages)
      /\ accepted \in Seq(Messages)
      /\ delivered \in Seq(Messages)
  BY DEF ManagerTypeOK
<1>1. ASSUME NEW msg \in Messages, Puts(msg) PROVE QueueInv'
  BY <1>t, <1>1 DEF QueueInv, Puts, Enqueue
<1>2. CASE QueueHeld
  <2>1. held[1] \in Messages /\ Len(held) = 1
    BY <1>2, HeldMessage DEF QueueHeld
  <2>2. CASE q = <<>> /\ Handle(held[1]) /\ UNCHANGED q
    BY <1>2, <1>t, <2>1, <2>2 DEF QueueInv, QueueHeld, Handle
  <2>3. CASE q' = Append(q, held[1]) /\ UNCHANGED <<clients, delivered>>
    <3>1. /\ held' = <<>> /\ qpc' = "select"
          /\ accepted' = accepted /\ delivered' = delivered
          /\ q' \in Seq(Messages) /\ Len(q') = Len(q) + 1
          /\ Len(accepted) = Len(delivered) + Len(q) + 1
      BY <1>2, <1>t, <2>1, <2>3 DEF QueueInv, QueueHeld
    <3>2. q'[Len(q) + 1] = accepted[Len(delivered) + Len(q) + 1]
      BY <1>t, <2>1, <2>3, <3>1, HeldMessage, <1>2 DEF QueueInv, QueueHeld
    <3>3. ASSUME NEW i \in 1..Len(q) PROVE q'[i] = accepted[Len(delivered) + i]
      BY <1>t, <2>3, <3>3 DEF QueueInv
    <3> QED
      <4>1. \A i \in 1..Len(q') : q'[i] = accepted'[Len(delivered') + i]
        <5> SUFFICES ASSUME NEW i \in 1..Len(q')
                     PROVE  q'[i] = accepted'[Len(delivered') + i]
          OBVIOUS
        <5>1. Len(q) \in Nat /\ Len(delivered) \in Nat
          BY <1>t
        <5>2. i \in 1..Len(q) \/ i = Len(q) + 1
          BY <3>1, <5>1
        <5>3. CASE i = Len(q) + 1
          <6>1. Len(delivered) + i = Len(delivered) + Len(q) + 1
            BY <5>1, <5>3
          <6> QED
            BY <3>1, <3>2, <5>3, <6>1
        <5> QED
          BY <3>1, <3>3, <5>2, <5>3
      <4>2. Len(held') = 0 /\ held' = <<>>
        BY <3>1
      <4>3. Len(accepted') = Len(delivered') + Len(q') + Len(held')
        BY <1>t, <3>1, <4>2
      <4> QED
        <5>1. qpc' # "held"
          BY <3>1
        <5> QED
          BY <4>1, <4>2, <4>3, <5>1 DEF QueueInv
  <2> QED
    BY <1>2, <2>2, <2>3 DEF QueueHeld
<1>3. CASE QueueNext
  <2>1. /\ qpc = "select" /\ qpc' = qpc /\ held' = held /\ Len(held) = 0
        /\ Len(q) > 0 /\ q' = Tail(q) /\ accepted' = accepted
        /\ delivered' = Append(delivered, Head(q))
        /\ Head(q) \in Messages
    BY <1>3, <1>t DEF QueueInv, QueueNext, Handle
  <2>2. /\ Len(q') = Len(q) - 1 /\ Len(delivered') = Len(delivered) + 1
        /\ \A i \in 1..Len(q') : q'[i] = q[i + 1]
    BY <1>t, <2>1
  <2>3. ASSUME NEW i \in 1..Len(q')
        PROVE  q'[i] = accepted'[Len(delivered') + i]
    <3>1. i + 1 \in 1..Len(q) /\ Len(delivered) \in Nat
      BY <1>t, <2>2
    <3>2. q[i + 1] = accepted[Len(delivered) + (i + 1)]
      BY <3>1 DEF QueueInv
    <3>3. Len(delivered') + i = Len(delivered) + (i + 1)
      BY <2>2, <3>1
    <3> QED
      BY <2>1, <2>2, <3>2, <3>3
  <2>4. held' = <<>>
    BY <1>t, <2>1
  <2> QED
    <3>1. Len(accepted) = Len(delivered) + Len(q) + Len(held)
      BY DEF QueueInv
    <3>2. Len(accepted') = Len(delivered') + Len(q') + Len(held')
      <4>1. /\ Len(q) \in Nat /\ Len(delivered) \in Nat
            /\ Len(held') = 0 /\ Len(held) = 0 /\ Len(accepted') = Len(accepted)
        BY <1>t, <2>1
      <4> QED
        BY <2>2, <3>1, <4>1
    <3>3. Len(held') = 0 /\ qpc' # "held"
      BY <2>1
    <3> QED
      BY <2>3, <2>4, <3>2, <3>3 DEF QueueInv
<1>4. CASE Idle
  BY <1>4 DEF QueueInv, Idle
<1> QED
  BY <1>1, <1>2, <1>3, <1>4, QueueSteps

\* ManagerInit establishes QueueInv.
LEMMA QueueInit == ManagerInit => QueueInv
BY DEF ManagerInit, QueueInv

(***************************************************************************)
(* wsNotificationManager: its state is well typed, and its queue holds     *)
(* what queueNotification took and notificationMsgs has not handed over,   *)
(* oldest first.                                                           *)
(***************************************************************************)
THEOREM QueueCorrect == ManagerSpec => [](ManagerTypeOK /\ QueueInv)
<1>1. ManagerInit => ManagerTypeOK /\ NotStarted /\ QueueInv
  BY TypeInit, QueueInit DEF ManagerInit, NotStarted
<1>2. ManagerTypeOK /\ NotStarted /\ QueueInv /\ [ManagerNext]_managerVars
        => (ManagerTypeOK /\ NotStarted /\ QueueInv)'
  BY TypeStep, NotStartedStep, QueueStep
<1> QED
  BY <1>1, <1>2, PTL DEF ManagerSpec

\* Every step is a step of the abstract queue.
LEMMA FifoStep ==
  ManagerTypeOK /\ NotStarted /\ QueueInv /\ [ManagerNext]_managerVars
    => [Channel!Next]_<<accepted, delivered>>
<1> SUFFICES ASSUME ManagerTypeOK, NotStarted, QueueInv, [ManagerNext]_managerVars
             PROVE  [Channel!Next]_<<accepted, delivered>>
  OBVIOUS
<1>t. /\ q \in Seq(Messages)
      /\ held \in Seq(Messages)
      /\ accepted \in Seq(Messages)
      /\ delivered \in Seq(Messages)
  BY DEF ManagerTypeOK
<1>1. ASSUME NEW msg \in Messages, Puts(msg) PROVE Channel!Put
  BY <1>1 DEF Channel!Put, Puts, Enqueue
<1>2. CASE QueueHeld
  <2>1. CASE q = <<>> /\ Handle(held[1]) /\ UNCHANGED q
    <3>1. Len(accepted) = Len(delivered) + 1 /\ held[1] = accepted[Len(accepted)]
      BY <1>2, <1>t, <2>1, HeldMessage DEF QueueInv, QueueHeld
    <3> QED
      BY <1>2, <1>t, <2>1, <3>1 DEF Channel!Next, Channel!Get, QueueHeld, Handle
  <2>2. CASE q' = Append(q, held[1]) /\ UNCHANGED <<clients, delivered>>
    BY <1>2, <2>2 DEF QueueHeld
  <2> QED
    BY <1>2, <2>1, <2>2 DEF QueueHeld
<1>3. CASE QueueNext
  <2>1. Len(q) > 0 /\ Len(accepted) >= Len(delivered) + Len(q)
    BY <1>3, <1>t DEF QueueInv, QueueNext
  <2>2. Head(q) = accepted[Len(delivered) + 1]
    BY <1>3, <1>t, <2>1 DEF QueueInv
  <2> QED
    BY <1>3, <1>t, <2>1, <2>2 DEF Channel!Next, Channel!Get, QueueNext, Handle
<1>4. CASE Idle
  BY <1>4 DEF Idle
<1> QED
  BY <1>1, <1>2, <1>3, <1>4, QueueSteps DEF Channel!Next

(***************************************************************************)
(* queueHandler delivers every message once and in order: it implements    *)
(* the abstract queue, for every number of messages.                       *)
(***************************************************************************)
THEOREM QueueImplementsFifo == ManagerSpec => QueueIsFifo
<1>1. ManagerInit => Channel!Init
  BY DEF ManagerInit, Channel!Init
<1>2. ManagerTypeOK /\ NotStarted /\ QueueInv /\ [ManagerNext]_managerVars
        => [Channel!Next]_<<accepted, delivered>>
  BY FifoStep
<1>3. ManagerInit => NotStarted
  BY DEF ManagerInit, NotStarted
<1>4. NotStarted /\ [ManagerNext]_managerVars => NotStarted'
  BY NotStartedStep
<1> QED
  BY <1>1, <1>2, <1>3, <1>4, QueueCorrect, PTL DEF ManagerSpec, QueueIsFifo, Channel!Spec

-----------------------------------------------------------------------------
(* Shutdown.                                                               *)

\* notificationHandler takes no message after it has disconnected the
\* clients, and Stop returns only after that.
DisconnectInv ==
  /\ npc = "done" => clients \subseteq gone
  /\ stopPC = "stopped" => npc = "done"
  /\ stopPC = "starting" => npc = "none"

\* Every step keeps DisconnectInv.
LEMMA DisconnectStep == DisconnectInv /\ [ManagerNext]_managerVars => DisconnectInv'
<1> SUFFICES ASSUME DisconnectInv, [ManagerNext]_managerVars PROVE DisconnectInv'
  OBVIOUS
<1>1. ASSUME NEW h \in Handlers,
             Accept(h) \/ NumClients(h) \/ Limit(h) \/ AddClient(h)
               \/ ClientGone(h) \/ ClientWait(h) \/ RemoveClient(h)
      PROVE  DisconnectInv'
  BY <1>1 DEF DisconnectInv, Accept, NumClients, Limit, AddClient, ClientGone,
              ClientWait, RemoveClient
<1>2. CASE QueueHeld
  BY <1>2 DEF DisconnectInv, QueueHeld, Handle
<1>3. CASE QueueNext
  BY <1>3 DEF DisconnectInv, QueueNext, Handle
<1>4. CASE QueueQuit \/ HandlerQuit \/ HandlerCleanup
  BY <1>4 DEF DisconnectInv, QueueQuit, HandlerQuit, HandlerCleanup
<1>5. CASE StartManager \/ Stop \/ StopWait
  BY <1>5 DEF DisconnectInv, StartManager, Stop, StopWait
<1>6. CASE UNCHANGED managerVars
  BY <1>6 DEF DisconnectInv, managerVars
<1> QED
  BY <1>1, <1>2, <1>3, <1>4, <1>5, <1>6 DEF ManagerNext, Serve, Queue, NtfnHandler

(***************************************************************************)
(* rpcServer.Stop: when it returns, no client that the manager ever        *)
(* registered is still connected.                                          *)
(***************************************************************************)
THEOREM StopDisconnectsCorrect == ManagerSpec => []StopDisconnects
<1>1. ManagerInit => DisconnectInv
  BY DEF ManagerInit, DisconnectInv
<1>2. DisconnectInv => StopDisconnects
  BY DEF DisconnectInv, StopDisconnects
<1> QED
  BY <1>1, <1>2, DisconnectStep, PTL DEF ManagerSpec

=============================================================================
