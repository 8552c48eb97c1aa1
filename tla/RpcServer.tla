------------------------------ MODULE RpcServer ------------------------------
(***************************************************************************)
(* The HTTP POST endpoint of rpcServer (rpcserver.go): the handler of "/"  *)
(* with its connection limit and credentials, jsonRPCRead with its close   *)
(* notifier, and processRequest.                                           *)
(*                                                                         *)
(* Every connection carries one request and is served by a goroutine of    *)
(* its own.  jsonRPCRead and its close notifier share the variable err     *)
(* without a lock: every assignment to it and every test of it is a step,  *)
(* and the notifier's assignment may fall between any two of them.         *)
(***************************************************************************)
EXTENDS Naturals, Sequences, FiniteSets

CONSTANTS
  Clients,        \* the connections
  Bodies,         \* the bodies that each of them may carry
  Readers,        \* those whose peer reads what is sent to it, or goes away
  RPCMaxClients,  \* cfg.RPCMaxClients
  RPCQuirks       \* cfg.RPCQuirks

(***************************************************************************)
(* A request: an object or not, its method, its parameters, whether it has *)
(* an id, and its version.  getblockhash is the one command with a         *)
(* handler; blockconnected is registered without one; getinfo is not       *)
(* registered.  The parameter of getblockhash may be negative.             *)
(***************************************************************************)
RpcLimited == {"getblockhash", "getinfo"}
RegisteredMethods == {"getblockhash", "blockconnected"}
RpcHandlers == {"getblockhash"}
Methods == RpcLimited \cup RegisteredMethods \cup {""}

Request == [object : BOOLEAN, method : Methods,
            params : {"good", "negative", "bad", "nil"}, id : BOOLEAN,
            version : {"1.0", ""}]

\* What json.Unmarshal leaves of a text that is not JSON.
NoRequest == [object |-> FALSE, method |-> "", params |-> "nil", id |-> FALSE,
              version |-> ""]

(***************************************************************************)
(* A request body: the Authorization header, whether it begins like a      *)
(* batch, whether it parses, and its requests (one unless it is a batch;   *)
(* what json.Unmarshal filled in if it does not parse).                    *)
(***************************************************************************)
Body == [auth : {"none", "wrong", "limited", "admin"}, batch : BOOLEAN,
         parses : BOOLEAN, requests : Seq(Request)]

ASSUME ServerAssumption ==
  /\ IsFiniteSet(Clients)
  /\ Readers \subseteq Clients
  /\ RPCMaxClients \in Nat
  /\ RPCQuirks \in BOOLEAN
  /\ \A c \in Clients : \A b \in Bodies[c] :
       b \in Body /\ (b.batch \/ Len(b.requests) = 1)

VARIABLES
  numClients,
  serverShutdown,  \* its shutdown
  pc,        \* of each connection's handler
  body,      \* what it read
  err,       \* jsonRPCRead's err is not nil
  cpc,       \* the close notifier
  next,      \* batch entry the loop is at
  results,   \* replies so far: <<kind, request>>
  status,    \* how the connection was answered
  ran        \* history: the requests whose command ran

serverVars == <<numClients, serverShutdown, pc, body, err, cpc, next, results,
                status, ran>>

ServerInit ==
  /\ numClients = 0
  /\ serverShutdown = FALSE
  /\ pc = [c \in Clients |-> "accepted"]
  /\ body \in {b \in [Clients -> UNION {Bodies[c] : c \in Clients}] :
                \A c \in Clients : b[c] \in Bodies[c]}
  /\ err = [c \in Clients |-> FALSE]
  /\ cpc = [c \in Clients |-> "none"]
  /\ next = [c \in Clients |-> 1]
  /\ results = [c \in Clients |-> <<>>]
  /\ status = [c \in Clients |-> "open"]
  /\ ran = [c \in Clients |-> {}]

Goto(c, to) == pc' = [pc EXCEPT ![c] = to]

IsAdmin(c) == body[c].auth = "admin"

-----------------------------------------------------------------------------
(* processRequest.                                                         *)

\* Limited users, malformed requests, notifications, parseCmd's errors and
\* standardCmdResult, in this order.
Outcome(q, admin) ==
  CASE ~admin /\ q.method \notin RpcLimited -> "error"
    [] (admin \/ q.method \in RpcLimited)
         /\ (q.method = "" \/ q.params = "nil") -> "error"
    [] (admin \/ q.method \in RpcLimited)
         /\ q.method # "" /\ q.params # "nil" ->
           IF ~q.id THEN "ignore"
           ELSE IF q.method \in RpcHandlers /\ q.params # "bad"
           THEN "result" ELSE "error"

\* handleGetBlockHash uses the nil pointer that NewHashFromStr returns for a
\* negative index.  net/http recovers the panic; the deferred calls run.
Panics(q, admin) == Outcome(q, admin) = "result" /\ q.params = "negative"

\* createMarshalledReply refuses a reply without a valid version.
Reply(q, admin, i) ==
  IF Outcome(q, admin) = "ignore" \/ q.version = "" THEN <<>>
  ELSE << <<Outcome(q, admin), i>> >>

Executes(q, admin, i) == IF Outcome(q, admin) = "result" THEN {i} ELSE {}

-----------------------------------------------------------------------------
(* The handler of "/".                                                     *)

\* limitConnections reads the counter; it is incremented in another step.
LimitConnections(c) ==
  /\ pc[c] = "accepted"
  /\ \/ /\ numClients + 1 > RPCMaxClients
        /\ status' = [status EXCEPT ![c] = "503"]
        /\ Goto(c, "done")
     \/ /\ numClients + 1 <= RPCMaxClients
        /\ Goto(c, "increment")
        /\ UNCHANGED status
  /\ UNCHANGED <<numClients, serverShutdown, body, err, cpc, next, results, ran>>

IncrementClients(c) ==
  /\ pc[c] = "increment"
  /\ numClients' = numClients + 1
  /\ Goto(c, "auth")
  /\ UNCHANGED <<serverShutdown, body, err, cpc, next, results, status, ran>>

\* Mutant: the counter is not decremented for a client that is turned away.
CheckAuthLeaking(c) ==
  /\ pc[c] = "auth"
  /\ \/ /\ body[c].auth \in {"none", "wrong"}
        /\ status' = [status EXCEPT ![c] = "401"]
        /\ Goto(c, "done")
     \/ /\ body[c].auth \in {"limited", "admin"}
        /\ Goto(c, "begin")
        /\ UNCHANGED status
  /\ UNCHANGED <<numClients, serverShutdown, body, err, cpc, next, results, ran>>

CheckAuth(c) ==
  /\ pc[c] = "auth"
  /\ \/ /\ body[c].auth \in {"none", "wrong"}
        /\ status' = [status EXCEPT ![c] = "401"]
        /\ Goto(c, "leave")
     \/ /\ body[c].auth \in {"limited", "admin"}
        /\ Goto(c, "begin")
        /\ UNCHANGED status
  /\ UNCHANGED <<numClients, serverShutdown, body, err, cpc, next, results, ran>>

\* The deferred calls: flush and close the connection, count it out.
DecrementClients(c) ==
  /\ pc[c] = "leave"
  /\ numClients' = numClients - 1
  /\ Goto(c, "done")
  /\ UNCHANGED <<serverShutdown, body, err, cpc, next, results, status, ran>>

-----------------------------------------------------------------------------
(* jsonRPCRead.                                                            *)

\* Nothing is read after Stop; reading or hijacking may fail; from then on
\* the close notifier runs.
ReadRequest(c) ==
  /\ pc[c] = "begin"
  /\ \/ /\ serverShutdown
        /\ status' = [status EXCEPT ![c] = "empty"]
        /\ Goto(c, "leave")
        /\ UNCHANGED cpc
     \/ /\ ~serverShutdown
        /\ \E code \in {"400", "500"} : status' = [status EXCEPT ![c] = code]
        /\ Goto(c, "leave")
        /\ UNCHANGED cpc
     \/ /\ ~serverShutdown
        /\ cpc' = [cpc EXCEPT ![c] = "read"]
        /\ Goto(c, "unmarshal")
        /\ UNCHANGED status
  /\ UNCHANGED <<numClients, serverShutdown, body, err, next, results, ran>>

\* The close notifier's conn.Read returns a byte, or fails.
CloseNotifier(c) ==
  /\ cpc[c] = "read"
  /\ pc[c] \notin {"leave", "done"}
  /\ \E failed \in BOOLEAN : err' = [err EXCEPT ![c] = failed]
  /\ cpc' = [cpc EXCEPT ![c] = "done"]
  /\ UNCHANGED <<numClients, serverShutdown, pc, body, next, results, status,
                 ran>>

Unmarshal(c) ==
  /\ pc[c] = "unmarshal"
  /\ err' = [err EXCEPT ![c] = ~body[c].parses]
  /\ Goto(c, "parsed")
  /\ UNCHANGED <<numClients, serverShutdown, body, cpc, next, results, status,
                 ran>>

\* A parse error is marshalled, which succeeds and resets err.
ParseError(c) ==
  /\ pc[c] = "parsed"
  /\ \/ /\ err[c]
        /\ results' = [results EXCEPT ![c] = << <<"parse error", 0>> >>]
        /\ err' = [err EXCEPT ![c] = FALSE]
     \/ /\ ~err[c]
        /\ UNCHANGED <<results, err>>
  /\ Goto(c, IF body[c].batch THEN "batch" ELSE "single")
  /\ UNCHANGED <<numClients, serverShutdown, body, cpc, next, status, ran>>

\* A single request: return at once if it has no id, otherwise its reply
\* replaces the one for a parse error, if there was one.
Single(c) ==
  LET q == body[c].requests[1]
  IN  /\ pc[c] = "single"
      /\ \/ /\ ~err[c]
            /\ ~q.id /\ ~(RPCQuirks /\ q.version = "")
            /\ status' = [status EXCEPT ![c] = "closed"]
            /\ Goto(c, "leave")
            /\ UNCHANGED <<results, ran>>
         \/ /\ ~err[c]
            /\ q.id \/ (RPCQuirks /\ q.version = "")
            /\ Panics(q, IsAdmin(c))
            /\ status' = [status EXCEPT ![c] = "closed"]
            /\ Goto(c, "leave")
            /\ UNCHANGED <<results, ran>>
         \/ /\ ~err[c]
            /\ q.id \/ (RPCQuirks /\ q.version = "")
            /\ ~Panics(q, IsAdmin(c))
            /\ results' = [results EXCEPT ![c] = Reply(q, IsAdmin(c), 1)]
            /\ ran' = [ran EXCEPT ![c] = Executes(q, IsAdmin(c), 1)]
            /\ Goto(c, "headers")
            /\ UNCHANGED status
         \/ /\ err[c]
            /\ Goto(c, "headers")
            /\ UNCHANGED <<results, status, ran>>
      /\ UNCHANGED <<numClients, serverShutdown, body, err, cpc, next>>

\* An empty batch, also one that did not parse, or else its entries.
Batch(c) ==
  LET entries == IF body[c].parses THEN body[c].requests ELSE <<>>
  IN  /\ pc[c] = "batch"
      /\ \/ /\ ~err[c] /\ entries = <<>>
            /\ results' = [results EXCEPT ![c] =
                             Append(@, <<"empty batch", 0>>)]
            /\ err' = [err EXCEPT ![c] = FALSE]
            /\ Goto(c, "headers")
         \/ /\ ~err[c] /\ entries # <<>>
            /\ Goto(c, "marshal")
            /\ UNCHANGED <<results, err>>
         \/ /\ err[c]
            /\ Goto(c, "headers")
            /\ UNCHANGED <<results, err>>
      /\ UNCHANGED <<numClients, serverShutdown, body, cpc, next, status, ran>>

\* json.Marshal of an entry, which succeeds for what was unmarshalled.
MarshalEntry(c) ==
  /\ pc[c] = "marshal"
  /\ err' = [err EXCEPT ![c] = FALSE]
  /\ Goto(c, "entry")
  /\ UNCHANGED <<numClients, serverShutdown, body, cpc, next, results, status,
                 ran>>

\* Mutant: continue does not advance past an entry that is no object.
BatchEntryStuck(c) ==
  LET q == body[c].requests[next[c]]
  IN  /\ pc[c] = "entry"
      /\ IF ~err[c] /\ q.object
         THEN /\ results' = [results EXCEPT ![c] =
                               @ \o Reply(q, IsAdmin(c), next[c])]
              /\ next' = [next EXCEPT ![c] = @ + 1]
              /\ Goto(c, IF next[c] = Len(body[c].requests)
                         THEN "headers" ELSE "marshal")
         ELSE /\ Goto(c, "marshal")
              /\ UNCHANGED <<results, next>>
      /\ UNCHANGED <<numClients, serverShutdown, body, err, cpc, status, ran>>

\* Mutant: the replies are put in front of each other.
BatchEntryReversed(c) ==
  LET q == body[c].requests[next[c]]
  IN  /\ pc[c] = "entry"
      /\ results' = [results EXCEPT ![c] =
                       Reply(q, IsAdmin(c), next[c]) \o @]
      /\ next' = [next EXCEPT ![c] = @ + 1]
      /\ Goto(c, IF next[c] = Len(body[c].requests)
                 THEN "headers" ELSE "marshal")
      /\ UNCHANGED <<numClients, serverShutdown, body, err, cpc, status, ran>>

\* One entry: an error that MarshalEntry did not find is reported; an entry
\* that is no object is not, as its reply has no version; any other entry is
\* a request.
BatchEntry(c) ==
  LET q == body[c].requests[next[c]]
      continues == Goto(c, IF next[c] = Len(body[c].requests)
                           THEN "headers" ELSE "marshal")
  IN  /\ pc[c] = "entry"
      /\ \/ /\ err[c]
            /\ results' = [results EXCEPT ![c] =
                             Append(@, <<"invalid request", next[c]>>)]
            /\ err' = [err EXCEPT ![c] = FALSE]
            /\ continues
            /\ UNCHANGED <<ran, status>>
         \/ /\ ~err[c] /\ ~q.object
            /\ continues
            /\ UNCHANGED <<results, err, ran, status>>
         \/ /\ ~err[c] /\ q.object /\ Panics(q, IsAdmin(c))
            /\ status' = [status EXCEPT ![c] = "closed"]
            /\ Goto(c, "leave")
            /\ UNCHANGED <<results, err, ran>>
         \/ /\ ~err[c] /\ q.object /\ ~Panics(q, IsAdmin(c))
            /\ results' = [results EXCEPT ![c] =
                             @ \o Reply(q, IsAdmin(c), next[c])]
            /\ ran' = [ran EXCEPT ![c] =
                              @ \cup Executes(q, IsAdmin(c), next[c])]
            /\ continues
            /\ UNCHANGED <<err, status>>
      /\ next' = [next EXCEPT ![c] = @ + 1]
      /\ UNCHANGED <<numClients, serverShutdown, body, cpc>>

\* writeHTTPResponseHeaders writes to a buffer, which succeeds.
WriteHeaders(c) ==
  /\ pc[c] = "headers"
  /\ err' = [err EXCEPT ![c] = FALSE]
  /\ Goto(c, "write")
  /\ UNCHANGED <<numClients, serverShutdown, body, cpc, next, results, status,
                 ran>>

\* The replies of a batch, or the first reply.
WriteReply(c) ==
  /\ pc[c] = "write"
  /\ \/ /\ err[c]
        /\ status' = [status EXCEPT ![c] = "headers"]
     \/ /\ ~err[c]
        /\ status' = [status EXCEPT ![c] = "200"]
  /\ Goto(c, "leave")
  /\ UNCHANGED <<numClients, serverShutdown, body, err, cpc, next, results, ran>>

StopServer ==
  /\ ~serverShutdown
  /\ serverShutdown' = TRUE
  /\ UNCHANGED <<numClients, pc, body, err, cpc, next, results, status,
                 ran>>

-----------------------------------------------------------------------------

ServeHTTP(c) ==
  \/ LimitConnections(c) \/ IncrementClients(c) \/ CheckAuth(c)
  \/ DecrementClients(c) \/ ReadRequest(c) \/ Unmarshal(c) \/ ParseError(c)
  \/ Single(c) \/ Batch(c) \/ MarshalEntry(c) \/ BatchEntry(c)
  \/ WriteHeaders(c) \/ WriteReply(c)

ServerNext == (\E c \in Clients : ServeHTTP(c) \/ CloseNotifier(c)) \/ StopServer

ServerSpec == ServerInit /\ [][ServerNext]_serverVars

\* The steps that write to the connection once it is hijacked: the reply, and
\* the deferred flush of what is left of it.  No deadline ends them.
Writing(c) == pc[c] = "write" \/ (pc[c] = "leave" /\ status[c] \in {"headers", "200"})

\* net/http runs every handler, up to a write that may wait for the peer; a
\* write to a peer that reads or has gone ends.  The body is read within
\* ReadTimeout.  The close notifier and Stop are under no obligation.
Runs(c) == (c \in Readers \/ ~Writing(c)) /\ ServeHTTP(c)

ServerFairSpec == ServerSpec /\ \A c \in Clients : WF_serverVars(Runs(c))

-----------------------------------------------------------------------------
(* Properties.                                                             *)

Steps == {"accepted", "increment", "auth", "begin", "unmarshal", "parsed",
          "single", "batch", "marshal", "entry", "headers", "write", "leave",
          "done"}

Kinds == {"result", "error", "parse error", "empty batch", "invalid request"}

ServerTypeOK ==
  /\ numClients \in Nat
  /\ serverShutdown \in BOOLEAN
  /\ pc \in [Clients -> Steps]
  /\ \A c \in Clients : body[c] \in Bodies[c]
  /\ err \in [Clients -> BOOLEAN]
  /\ cpc \in [Clients -> {"none", "read", "done"}]
  /\ next \in [Clients -> Nat]
  /\ results \in [Clients -> Seq(Kinds \X Nat)]
  /\ status \in [Clients -> {"open", "503", "401", "empty", "400", "500",
                             "closed", "headers", "200"}]
  /\ ran \in [Clients -> SUBSET Nat]

(***************************************************************************)
(* numClients counts the connections that are being served: every return   *)
(* of the handler, its early ones and those of jsonRPCRead too, gives the  *)
(* place back, and none gives it back twice.                               *)
(***************************************************************************)
Counted == {c \in Clients : pc[c] \notin {"accepted", "increment", "done"}}
ClientCount == numClients = Cardinality(Counted)

(***************************************************************************)
(* What was answered while the peer kept quiet has one reply for every     *)
(* request with an id and a version, in the order of the requests, and its *)
(* commands ran if and only if the peer learns their result.  An empty     *)
(* batch is answered with an error.                                        *)
(***************************************************************************)
RequestsAnswered ==
  \A c \in Clients :
    LET requests == body[c].requests
        Owed == {k \in DOMAIN requests :
                   requests[k].object /\ requests[k].version # ""}
        Got(kinds) == {results[c][i][2] :
                         i \in {j \in DOMAIN results[c] :
                                  results[c][j][1] \in kinds}}
    IN  status[c] = "200" /\ cpc[c] = "read" /\ body[c].parses
          => /\ requests = <<>> => results[c] = << <<"empty batch", 0>> >>
             /\ \A i, j \in DOMAIN results[c] :
                  i < j => results[c][i][2] < results[c][j][2]
             /\ {k \in Owed : requests[k].id} \subseteq Got(Kinds)
             /\ ran[c] \cap Owed = Got({"result"}) \cap Owed

(***************************************************************************)
(* Every handler returns and gives its place back, whatever its body holds *)
(* and whatever its peer sends meanwhile, before, during and after Stop,   *)
(* also while other handlers are held up by peers that do not read.  The   *)
(* one way to miss it is a write to a peer that stays and does not read.   *)
(***************************************************************************)
HandlersReturn ==
  \A c \in Clients :
    pc[c] = "increment" ~> pc[c] = "done" \/ (c \notin Readers /\ Writing(c))

=============================================================================
