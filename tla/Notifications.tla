---------------------------- MODULE Notifications ----------------------------
(***************************************************************************)
(* A notification on its way: the types of acbcjson/chainsvrwsntfns.go and *)
(* walletsvrwsntfns.go, handleMessage and handleNotification of the client *)
(* with the functions that parse the parameters (rpcclient/notify.go), and *)
(* the requests a client makes to be notified.                             *)
(*                                                                         *)
(* A JSON value is named after what it is: a string is the hex form of a   *)
(* "hash", a "header" or a "tx", or no hex at all ("text"); a number is    *)
(* "int32", "int64" (too large for an int32) or "float64" (with a          *)
(* fraction); "txs" is a list of hex transactions and "texts" one of other *)
(* strings.                                                                *)
(***************************************************************************)
EXTENDS Commands

CONSTANT Clients  \* the handlers that clients are made with

\* Two tables as one.
Joined(f, g) ==
  [x \in DOMAIN f \cup DOMAIN g |-> IF x \in DOMAIN f THEN f[x] ELSE g[x]]

\* The values of a Go type.
ValuesOf(type) ==
  CASE type = "string"       -> {"hash", "header", "tx", "text"}
    [] type = "int32"        -> {"int32"}
    [] type = "int64"        -> {"int32", "int64"}
    [] type = "float64"      -> {"int32", "float64"}
    [] type = "bool"         -> {"true", "false"}
    [] type = "[]string"     -> {"txs", "texts"}
    [] type = "object"       -> {"object"}
    [] type = "BlockDetails" -> {"nil", "details"}

\* The registered notifications and the types of their fields; a BlockDetails
\* is a pointer.
BlockNtfns ==
  [blockconnected            |-> <<"string", "int32", "int64">>,
   blockdisconnected         |-> <<"string", "int32", "int64">>,
   filteredblockconnected    |-> <<"int32", "string", "[]string">>,
   filteredblockdisconnected |-> <<"int32", "string">>]

TxNtfns ==
  [recvtx             |-> <<"string", "BlockDetails">>,
   redeemingtx        |-> <<"string", "BlockDetails">>,
   rescanfinished     |-> <<"string", "int32", "int64">>,
   rescanprogress     |-> <<"string", "int32", "int64">>,
   txaccepted         |-> <<"string", "float64">>,
   txacceptedverbose  |-> <<"object">>,
   relevanttxaccepted |-> <<"string">>]

WalletNtfns ==
  [accountbalance  |-> <<"string", "float64", "bool">>,
   btcdconnected   |-> <<"bool">>,
   walletlockstate |-> <<"bool">>,
   newtx           |-> <<"string", "object">>]

Notifications == Joined(Joined(BlockNtfns, TxNtfns), WalletNtfns)

NtfnFields(method) ==
  [i \in DOMAIN Notifications[method] |->
     [ptr |-> Notifications[method][i] = "BlockDetails"]]

\* The instances of a notification type.
Instances(method) ==
  {ntfn \in [DOMAIN Notifications[method] ->
               UNION {ValuesOf(t) : t \in {Notifications[method][i] :
                                             i \in DOMAIN Notifications[method]}}] :
     \A i \in DOMAIN ntfn : ntfn[i] \in ValuesOf(Notifications[method][i])}

VARIABLES
  handlers,  \* the callbacks that the client's NotificationHandlers sets
  message,   \* the message on the connection: [id, method, null, params]
  sent,      \* the notification it was made of
  calls,     \* the callbacks it has caused, with their arguments
  handled    \* handleMessage has returned

ntfnVars == <<handlers, message, sent, calls, handled>>

\* No NotificationHandlers were given to New.
NoHandlers == {"nil"}

\* An answer to nothing.
NoMessage == [id |-> "negative", method |-> "", null |-> TRUE, params |-> <<>>]

NtfnInit ==
  /\ handlers = NoHandlers
  /\ message = NoMessage
  /\ sent = <<>>
  /\ calls = {}
  /\ handled = TRUE

\* MarshalCmd with a nil id.  The list of parameters may be empty, never null.
NtfnMessage(method, ntfn) ==
  [id |-> "nil", method |-> method, null |-> FALSE,
   params |-> makeParams(NtfnFields(method), ntfn)]

-----------------------------------------------------------------------------
(* handleMessage.                                                          *)

\* What handleMessage takes a message for.  An id that is no natural number
\* answers nothing.
MessageKind(msg) ==
  IF msg.id = "nil"
  THEN IF msg.method = "" \/ msg.null THEN "malformed" ELSE "notification"
  ELSE IF msg.id \in {"negative", "fraction"} THEN "malformed" ELSE "response"

-----------------------------------------------------------------------------
(* The functions that parse parameters.                                    *)

\* The JSON values that json.Unmarshal and the conversion behind it accept. A
\* null leaves the zero value: an empty string, which is the hex form of an
\* empty hash and of no bytes.  A transaction is long enough for a header.
Accepts(want, v) ==
  CASE want = "string"  -> v \in {"hash", "header", "tx", "text", "nil"}
    [] want = "hash"    -> v \in {"hash", "nil"}
    [] want = "hex"     -> v \in {"hash", "header", "tx", "nil"}
    [] want = "header"  -> v \in {"header", "tx"}
    [] want = "tx"      -> v = "tx"
    [] want = "txs"     -> v \in {"txs", "nil"}
    [] want = "int32"   -> v \in {"int32", "nil"}
    [] want = "int64"   -> v \in {"int32", "int64", "nil"}
    [] want = "amount"  -> v \in {"int32", "int64", "float64", "nil"}
    [] want = "bool"    -> v \in {"true", "false", "nil"}
    [] want = "object"  -> v \in {"object", "details", "nil"}
    [] want = "details" -> v \in {"object", "details", "nil"}

\* A parser: the fewest and the most parameters it takes (0: any number) and
\* what it wants of each.
Parser(min, max, wants) == [min |-> min, max |-> max, wants |-> wants]

parseChainNtfnParams == Parser(3, 3, <<"hash", "int32", "int64">>)
parseFilteredBlockConnectedParams == Parser(3, 0, <<"int32", "header", "txs">>)
parseFilteredBlockDisconnectedParams == Parser(2, 0, <<"int32", "header">>)
parseRelevantTxAcceptedParams == Parser(1, 0, <<"hex">>)
parseRescanProgressParams == Parser(3, 3, <<"hash", "int32", "int64">>)
parseTxAcceptedNtfnParams == Parser(2, 2, <<"hash", "amount">>)
parseTxAcceptedVerboseNtfnParams == Parser(1, 1, <<"object">>)
parseBtcdConnectedNtfnParams == Parser(1, 1, <<"bool">>)
parseAccountBalanceNtfnParams == Parser(3, 3, <<"string", "amount", "bool">>)
parseWalletLockStateNtfnParams == Parser(2, 2, <<"string", "bool">>)

\* Mutant: the details of the block are taken for required.
parseChainTxNtfnParamsMined == Parser(2, 2, <<"tx", "details">>)

parseChainTxNtfnParams == Parser(1, 2, <<"tx", "details">>)

Parses(parser, params) ==
  LET n == Cardinality(DOMAIN params)
  IN  /\ n >= parser.min
      /\ parser.max # 0 => n <= parser.max
      /\ \A i \in DOMAIN parser.wants :
           i \in DOMAIN params => Accepts(parser.wants[i], params[i])

\* What the callback gets: the converted parameters, a nil pointer for details
\* that are missing.
Arguments(parser, params) ==
  [i \in DOMAIN parser.wants |->
     IF i \in DOMAIN params THEN params[i] ELSE "nil"]

-----------------------------------------------------------------------------
(* handleNotification.                                                     *)

\* The callback of each method and the parser of its parameters.
BlockCallbacks ==
  [blockconnected    |-> <<"OnBlockConnected", parseChainNtfnParams>>,
   blockdisconnected |-> <<"OnBlockDisconnected", parseChainNtfnParams>>,
   filteredblockconnected |->
     <<"OnFilteredBlockConnected", parseFilteredBlockConnectedParams>>,
   filteredblockdisconnected |->
     <<"OnFilteredBlockDisconnected", parseFilteredBlockDisconnectedParams>>]

TxCallbacks ==
  [recvtx             |-> <<"OnRecvTx", parseChainTxNtfnParams>>,
   redeemingtx        |-> <<"OnRedeemingTx", parseChainTxNtfnParams>>,
   relevanttxaccepted |-> <<"OnRelevantTxAccepted", parseRelevantTxAcceptedParams>>,
   rescanfinished     |-> <<"OnRescanFinished", parseRescanProgressParams>>,
   rescanprogress     |-> <<"OnRescanProgress", parseRescanProgressParams>>,
   txaccepted         |-> <<"OnTxAccepted", parseTxAcceptedNtfnParams>>,
   txacceptedverbose  |-> <<"OnTxAcceptedVerbose", parseTxAcceptedVerboseNtfnParams>>]

WalletCallbacks ==
  [btcdconnected   |-> <<"OnBtcdConnected", parseBtcdConnectedNtfnParams>>,
   accountbalance  |-> <<"OnAccountBalance", parseAccountBalanceNtfnParams>>,
   walletlockstate |-> <<"OnWalletLockState", parseWalletLockStateNtfnParams>>]

Callbacks == Joined(Joined(BlockCallbacks, TxCallbacks), WalletCallbacks)

\* The calls that a notification causes, for the callbacks that are set.  One
\* whose parameters do not parse is logged and dropped.  The account of a
\* walletlockstate is not passed on.
handleNotification(method, params) ==
  IF method \in DOMAIN Callbacks
  THEN {<<c[1], Arguments(c[2], params)>> :
          c \in {c \in {Callbacks[method]} :
                   c[1] \in handlers /\ Parses(c[2], params)}}
  ELSE {<<c, params>> : c \in handlers \cap {"OnUnknownNotification"}}

handleMessage ==
  /\ ~handled
  /\ handled' = TRUE
  /\ calls' = IF MessageKind(message) = "notification"
              THEN handleNotification(message.method, message.params) ELSE {}
  /\ UNCHANGED <<handlers, message, sent>>

-----------------------------------------------------------------------------
(* Requests for notifications.                                             *)

Requests == {"notifyblocks", "notifyspent", "notifynewtransactions",
             "notifyreceived", "rescan", "loadtxfilter"}

\* The Async functions: what becomes of a request that a client makes, in HTTP
\* POST mode or not, with notification handlers or without.
RequestAsync(cmd, HTTPPostMode) ==
  IF cmd = "loadtxfilter" THEN "SendCmd"
  ELSE IF HTTPPostMode THEN "ErrWebsocketsRequired"
  ELSE IF handlers = NoHandlers THEN "nil"
  ELSE "SendCmd"

-----------------------------------------------------------------------------
(* A server, which notifies, or sends something else.                      *)

AllHandlers == {Callbacks[m][1] : m \in DOMAIN Callbacks} \cup {"OnUnknownNotification"}

\* A client is made without handlers, or with some of them.
ASSUME ClientsAssumption == Clients \subseteq {NoHandlers} \cup SUBSET AllHandlers

Notify(client, method, ntfn) ==
  /\ handlers' = client
  /\ sent' = <<method, ntfn>>
  /\ message' = NtfnMessage(method, ntfn)
  /\ handled' = FALSE
  /\ UNCHANGED calls

\* The parameters cut, or the message damaged.
Garble(client, method, ntfn) ==
  /\ handlers' = client
  /\ LET msg == NtfnMessage(method, ntfn)
     IN  message' \in
           {[msg EXCEPT !.id = "fraction"], [msg EXCEPT !.method = ""],
            [msg EXCEPT !.null = TRUE, !.params = <<>>]}
           \cup {[msg EXCEPT !.params = [i \in 1 .. n |-> @[i]]] :
                   n \in 0 .. Cardinality(DOMAIN msg.params) - 1}
  /\ handled' = FALSE
  /\ UNCHANGED <<sent, calls>>

NtfnNext ==
  \/ /\ message = NoMessage
     /\ \E method \in DOMAIN Notifications, client \in Clients :
          \E ntfn \in Instances(method) :
            Notify(client, method, ntfn) \/ Garble(client, method, ntfn)
  \/ handleMessage

NtfnSpec == NtfnInit /\ [][NtfnNext]_ntfnVars

-----------------------------------------------------------------------------
(* Properties.                                                             *)

\* What a field must hold for the notification to make sense.
Meaning ==
  [blockconnected            |-> <<{"hash"}, {"int32"}, {"int32", "int64"}>>,
   blockdisconnected         |-> <<{"hash"}, {"int32"}, {"int32", "int64"}>>,
   filteredblockconnected    |-> <<{"int32"}, {"header"}, {"txs"}>>,
   filteredblockdisconnected |-> <<{"int32"}, {"header"}>>,
   recvtx                    |-> <<{"tx"}, {"nil", "details"}>>,
   redeemingtx               |-> <<{"tx"}, {"nil", "details"}>>,
   rescanfinished            |-> <<{"hash"}, {"int32"}, {"int32", "int64"}>>,
   rescanprogress            |-> <<{"hash"}, {"int32"}, {"int32", "int64"}>>,
   txaccepted                |-> <<{"hash"}, {"int32", "float64"}>>,
   txacceptedverbose         |-> <<{"object"}>>,
   relevanttxaccepted        |-> <<{"tx"}>>,
   accountbalance            |-> <<ValuesOf("string"), {"int32", "float64"},
                                   {"true", "false"}>>,
   btcdconnected             |-> <<{"true", "false"}>>]

\* The callback that NotificationHandlers documents for a method.
Due(method) ==
  IF method \in DOMAIN Callbacks THEN {Callbacks[method][1]} ELSE {"OnUnknownNotification"}

\* A notification was sent whole, and the client has handled it.
Arrived == handled /\ sent # <<>>

Meaningful(method, ntfn) ==
  method \in DOMAIN Meaning => \A i \in DOMAIN ntfn : ntfn[i] \in Meaning[method][i]

\* The one call that delivers what was sent, if its callback is set.
CalledBack == calls = {<<h, sent[2]>> : h \in handlers \cap Due(sent[1])}

(***************************************************************************)
(* A notification that a server makes of the types of acbcjson, other than *)
(* walletlockstate (see WalletLockStateDelivered), reaches the callback    *)
(* for its method, if the client has set it, with the values the server    *)
(* put in, optional ones included: the order and number of the fields      *)
(* there is the order and number the parsers here expect.  No other        *)
(* callback is called, and none that is not set; parameters that are cut   *)
(* call none but where what is missing is optional.  A client whose        *)
(* requests for notifications are dropped without a word has no callback   *)
(* that could be called.                                                   *)
(***************************************************************************)
NtfnDelivered ==
  /\ Arrived =>
       /\ sent[1] # "walletlockstate" /\ Meaningful(sent[1], sent[2]) => CalledBack
       /\ \A call \in calls : call[1] \in handlers \cap Due(sent[1])
  /\ handled /\ sent = <<>> /\ message.method \in DOMAIN Callbacks =>
       \A call \in calls :
         /\ call[1] = Callbacks[message.method][1]
         /\ \A i \in DOMAIN Notifications[message.method] \ DOMAIN message.params :
              Notifications[message.method][i] = "BlockDetails"
  /\ handled /\ (\A cmd \in Requests \ {"loadtxfilter"} : RequestAsync(cmd, FALSE) = "nil")
       => calls = {}

(***************************************************************************)
(* OnWalletLockState "is invoked when a wallet is locked or unlocked"      *)
(* (notify.go:195).  The code does not keep this for the notification that *)
(* acbcjson defines, which has one field: the parser wants two, the        *)
(* account before the state, and the notification is logged and dropped.   *)
(***************************************************************************)
WalletLockStateDelivered ==
  Arrived /\ sent[1] = "walletlockstate" /\ "OnWalletLockState" \in handlers => calls # {}

=============================================================================
