---------------------------- MODULE MCClientServer ----------------------------
(***************************************************************************)
(* The client and the HTTP POST endpoint of the server.  They share no     *)
(* state: in a behaviour of ClientServerSpec one of them runs and the      *)
(* other stays as it is, the client without a connection or the server     *)
(* with the connections it accepted.                                       *)
(***************************************************************************)
EXTENDS MCRpcClient, RpcServer, TLC

CONSTANTS p1, p2

\* Requests: a command that is executed, one without a version, one without
\* an id, a method that is not for limited users, and what is no object.
Call    == [object |-> TRUE, method |-> "getblockhash", params |-> "good",
            id |-> TRUE, version |-> "1.0"]
Bare    == [Call EXCEPT !.version = ""]
Notice  == [Call EXCEPT !.id = FALSE]
Other   == [Call EXCEPT !.method = "blockconnected"]
Bad     == [Call EXCEPT !.params = "bad"]
NoParam == [Call EXCEPT !.params = "nil"]
Below   == [Call EXCEPT !.params = "negative"]

Many(auth, s) == [auth |-> auth, batch |-> TRUE, parses |-> TRUE,
                  requests |-> s]
One(auth, q)  == [Many(auth, <<q>>) EXCEPT !.batch = FALSE]
Garbage       == [auth |-> "admin", batch |-> FALSE, parses |-> FALSE,
                  requests |-> <<NoRequest>>]
GarbageBatch  == [Garbage EXCEPT !.batch = TRUE]

\* A body for every way through the handler.
Ways ==
  {One("none", Call), One("admin", Call), One("limited", Other),
   One("admin", Notice), One("limited", Below), Garbage, GarbageBatch}

\* Batches of up to two requests, and longer ones: one for every outcome of an
\* entry, alone one of every kind.  A limited user is told apart by the method.
Entries == {Call, Bare, Notice, Bad, Below, NoRequest}
Singles == Entries \cup {Other, NoParam}
Batches ==
  {Many("admin", s) : s \in {<<>>} \cup [1..1 -> Singles] \cup [1..2 -> Entries]
                              \cup {<<Call, NoRequest, Call>>, <<Notice, Bad, Call>>}}
  \cup {Many("limited", <<q>>) : q \in {Call, Other}}

\* One peer sends anything, the other comes in its way.
AnyAndOne == (p1 :> Ways \cup Batches) @@ (p2 :> {One("admin", Call)})

-------------------------------------------------------------------------------
VARIABLE part  \* the one that runs

clientServerVars == <<vars, serverVars, part>>

ClientServerInit ==
  /\ part \in {"client", "server"}
  /\ Init
  /\ part # "client" => ~connEstablished
  /\ ServerInit
  /\ part # "server" => \A c \in Clients : body[c] = One("admin", Call)

ClientServerNext ==
  \/ part = "client" /\ Next /\ UNCHANGED <<serverVars, part>>
  \/ part = "server" /\ ServerNext /\ UNCHANGED <<vars, part>>

\* The fairness of both.  Of the steps that have to be taken, those of a
\* connection's handler can be taken in a state where its part does not run.
ClientServerSpec ==
  /\ ClientServerInit /\ [][ClientServerNext]_clientServerVars
  /\ GoroutineFairness
  /\ \A c \in Clients : WF_serverVars(part = "server" /\ Runs(c))

===============================================================================
