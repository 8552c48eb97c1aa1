# A verification development for acbc

acbc is a Go daemon derived from btcd. At this commit it consists of a JSON-RPC
server over HTTP and websockets, a client library for it, the process around the
server, and the wire, chain-parameter and utility packages. Consensus, mempool,
peer and mining packages hold types only. This directory holds TLA+ modules that
model the parts with behaviour, TLC configurations that check them on small
instances, and TLAPS proofs for every instance. `PROJECT.json` maps every
definition to the source lines it stands for.

Contents: 1 inventory, 2 plan, 3 modules and code, 4 runs, 5 bounds, 6 fairness,
7 proofs, 8 what is only model-checked, 9 behaviours met while modelling, 10 what
is not modelled.

## 1. Inventory

| Component | State | Operations | Interacts with |
|---|---|---|---|
| rpcclient, websocket mode (`rpcclient/infrastructure.go`) | pending requests (`requestMap`, `requestList`), `sendChan`, `wsConn`, `disconnect`/`shutdown` channels, `ntfnState` | `SendCmd`, `wsInHandler`, `wsOutHandler`, `Disconnect`, `Shutdown`, `wsReconnectHandler`, `resendRequests`, `reregisterNtfns` | the server over a websocket; the application through futures and callbacks |
| rpcclient, HTTP POST mode (same file) | `sendPostChan`, `shutdown` | `sendPostRequest`, `sendPostHandler`, `handleSendPostMessage` with its tries, `Shutdown` | the server, one HTTP request per command |
| rpcclient, notifications (`notify.go`) | the callbacks that are set, `ntfnState` | `handleNotification`, the parsers of parameters, `Notify...Async`, `RescanAsync`, `LoadTxFilterAsync` | called from the input handler; the notification types of acbcjson |
| rpcclient, cookie (`infrastructure.go`, `cookiefile.go`) | the cookie, when it was looked for, the file's modification time, the last error | `getAuth`, `retrieveCookie`, `readCookieFile` | a file that the server rewrites |
| rpcServer, HTTP (`rpcserver.go`) | `numClients`, `shutdown` | handler of `/`, `limitConnections`, `checkAuth`, `jsonRPCRead`, `processRequest` | net/http; the close notifier |
| rpcServer, websocket client (`rpcwebsocket.go`) | `serviceRequestSem`, `ntfnChan`, `sendChan`, pending notifications, `disconnected`, rights of the user | `inHandler`, `serviceRequest`, `notificationQueueHandler`, `outHandler`, `SendMessage`, `QueueNotification`, `Disconnect` | the peer; the notification manager |
| notification manager (`rpcwebsocket.go`) | the queue, the map of clients, `quit` | `queueHandler`, `notificationHandler`, `AddClient`, `RemoveClient`, `NumClients`, `Start`, `Shutdown` | `WebsocketHandler`, `rpcServer.Stop` |
| process (`acbc.go`, `server.go`, `signal.go`, `genCertPair`) | configuration, certificate and key file; listeners; goroutines | `main`, `loadConfig`, `interruptListener`, `newServer`, `Start`, `Stop` | operating system |
| config (`config.go`, `params.go`) | `cfg`, `activeNetParams`; the configuration file | `loadConfig`, `createDefaultConfigFile`, `normalizeAddresses`, `acbcDial`, `acbcLookup` | the process; proxies through `connmgr.TorLookupIP` |
| wire (`wire/`) | `scriptPool`, shared by all decoders | `MsgTx` codec, block header codec, variable length integers | any goroutine that decodes |
| acbcjson | registry of commands | `RegisterCmd`, `UnmarshalCmd`, `MarshalCmd` | client and server |
| connmgr | ban score | `Increase`, `Int`, `Reset`; `TorLookupIP` | the wall clock; a SOCKS proxy |
| chaincfg, chainhash, acbcutil | parameters of the networks | conversions | config; the server's and the client's hashes |

The hard behaviours, each listed with its line under `hazards` in
`PROJECT.json`:

* *Concurrency.* The client runs a pair of handlers per connection and they can
  outlive it; the websocket client of the server runs three handlers and one
  goroutine per request around two bounded channels; the manager's two goroutines
  wait for each other's channels.
* *Failure.* A connection is lost at any step of a reconnect; an HTTP peer goes
  away in the middle of a batch; the process is killed between two files.
* *Ordering.* Replies race disconnects, registrations race the shutdown,
  notifications travel through three containers that must act as one queue.
* *Stale state.* A cookie is kept while the server that wrote it is restarted; a
  score decays from a wall clock that may go back; a configuration file outlives
  the process that was killed while it wrote it.
* *Agreement between places.* The types of acbcjson and the parsers of the client
  repeat each other; so do the writer, the reader and the size of an integer, and
  the rules and the derived values of a configuration.
* *Limits.* Send channels of a fixed capacity, a semaphore of requests, a free
  list of buffers that overflows and runs dry.

What makes each component correct: a future is answered exactly once and none is
lost (client); a reply for every entry in its place, an exact count of clients,
every handler returns unless its peer does not read (server); notifications in
order, whoever queues one does not wait for the peer, a disconnected client ends
(websocket client); a FIFO queue and a
`Stop` that returns (manager); a usable pair of files and a clean end (process);
decoding undoes encoding and no buffer has two owners (wire); a command and a
notification arrive as what was sent (acbcjson, notifications); credentials are
those of the file (cookie, config), and a proxy that is configured is not bypassed
when a hidden service is dialed (config).

## 2. Plan

Order, most important first. All modules are done.

1. `RpcClient` with the abstract specification `Futures`, proofs; callbacks that
   call back.
2. `PostClient`, proofs.
3. `WsClient`, proofs.
4. `NtfnManager` with the abstract specification `Fifo`, proofs.
5. `RpcServer`, proofs.
6. `Wire` and, on top of it, `MsgTx`, proofs.
7. `Daemon` on top of `Config` and `Tor`; it takes from `NtfnManager` that the
   manager ends; proofs.
8. `Commands` (acbcjson), proofs, and on top of it `Notifications`.
9. `Cookie`, `BanScore`, proofs.

Components that share no state share a run: `MCData` runs one of `MsgTx`,
`Commands`, `Notifications`, `Cookie` and `BanScore` per behaviour; `MCClientServer`
one of `RpcClient` and `RpcServer`; `MCManagerPost` one of `NtfnManager` and
`PostClient`; `Config` and
`Tor`, which are operators, are part of `Daemon` and evaluated in its run.

Every invariant and every action property of a passing run is proved; what is left
to TLC is liveness (section 8).

## 3. Modules and code

Conventions. A goroutine is a program counter; a section under one lock is one
step; a channel is a sequence with its capacity, or, without a buffer, a step of
both sides. Local variables that live across a blocking operation are state.
Payloads are reduced to what the control depends on. What the code
computes in a loop is a recursive function or a fold, never a `RECURSIVE` operator,
so that it can be proved about. Definitions named
`...Never`, `...Twice` and the like, each after the word "Mutant", are faulty
variants that show that a property would notice.

**`RpcClient`** (`rpcclient/infrastructure.go`). `requests` is
`requestMap`/`requestList`, `disconnect`/`closed` the disconnect channels, one per
connection, `wsConn` the current connection; `spc`, `ipc`, `opc`, `rpc`, `wpc` are
the senders, the handlers of every connection, the resend goroutine and
`wsReconnectHandler`. `c.wsConn` and `c.disconnect` are read again wherever the
code reads them, so a handler of an old connection may use the new one. The
network may lose a connection outside `StableConns` at any moment.
`ImplementsFutures` maps it to **`Futures`**: new, pending, claimed, answered or
forgotten; removing a request from `requestMap` under the lock is what claims it.
A callback that makes a blocking call (`BlockingCalls`) keeps its input handler at
`"callback"` (`InNtfn`, `InReturn`) until the response is there.

**`PostClient`** (same file, HTTP POST mode). The one `sendPostHandler`, its
`Tries` tries per request (10 in the code), `sendPostChan`, response channels of
capacity one, and which futures the application receives. A reply that was lost
may have been executed (`executed`). The panic after ten failed tries ends the
process (`~Alive`).

**`WsClient`** (`rpcwebsocket.go`, `wsClient`). The three handlers, one goroutine
per request with a token of `serviceRequestSem`, `SendMessage` as a test and a
blocking send, `ntfnSentChan` as a number of tokens. A batch is one message whose
entries are handled in order. `QueueNotification` is modelled with callers
(`Notifiers`): it is called by `notifyForTxIns` and `notifyForTxOuts` of the
manager, whose own callers, in the one goroutine of `notificationHandler`, are
commented out at this commit. The panic that a negative
`getblockhash` index causes in the goroutine of a request is excluded here: it
ends the process, which `Daemon!Kill` does at any step.

**`NtfnManager`** (`rpcwebsocket.go`, `rpcserver.go`). `queueHandler` with its
shortcut (`held`, `q`), `notificationHandler`, and `WebsocketHandler` from the
admission to the removal of its client. `QueueIsFifo` maps it to **`Fifo`**: two
histories, one a prefix of the other.

**`RpcServer`** (`rpcserver.go`). Every connection with its body: limit,
credentials, `jsonRPCRead` step by step because its variable `err` is shared with
the close notifier, `processRequest`, batches entry by entry, panics of a command
that net/http recovers. `Readers` are the connections whose peers read what is
written to them, or go away. `serverShutdown` is the flag that `StopServer` sets.

**`Wire`**, **`MsgTx`** (`wire/`). Encoders and readers are operators over
sequences of bytes; a reader returns a value and the rest or fails. A byte is a
number below `Base`, 256 in the code: the prefixes of variable length integers
are `Base - 3` to `Base - 1`, so that 6 keeps all three. `BtcDecode` is a process
because decoders share `scriptPool`; a step ends where the pool has been used. It
decodes into an empty `MsgTx`, as its callers in this code do
(`acbcutil/tx.go:64`, `rpcclient/notify.go:669`); one that is used again would keep
its old outputs until `msgtx.go:566`.
`mem` holds the buffers with their contents, so a second owner would show in what
is decoded. A script of a message has a place, `<<kind, i, j>>`: `refs` says where
the scripts that were read lie, in a buffer or in the block that the second pass
fills, `todo` which of them that pass has still to visit, and `Places` which of
them hold a buffer of the pool.

**`Config`** (`config.go`, `params.go`, the fields of `chaincfg/params.go` that it
uses). `Parsed` is the precedence of command line, file and defaults; the
operators that end in `OK` are what `loadConfig` refuses, one per group of rules;
`Network`, `Listening`, `RPCListening`, `BlockLimits` and `Normalized` are what it
changes, in its order; `dial`, `oniondial` and `lookup` are the functions it sets
up, as the proxy they use. `LoadConfig` is the set of what it returns, empty if it
refuses.

**`Tor`** (`connmgr/tor.go`). The proxy's answers are a sequence of segments and
`Read` returns at most one of them, as `net.Conn.Read` does. `Exact` is what the
result has to be for an answer that ends behind `n` bytes and is cut at `cuts`.

**`Daemon`** (`acbc.go`, `server.go`, `signal.go`, `createDefaultConfigFile`,
`genCertPair`, `Start` and `Stop` of the RPC server). Three files outlive the
process; a write can be cut short by an error or by a kill, the configuration file
behind any of its lines. Every start has its own command line, and what it makes
of that and of the file is `LoadConfig`. What holds of `loadConfig` and
`TorLookupIP` by themselves is stated over sets of options and answers that are
constants of the module. The manager's goroutines are one
step here because `StopReturns` of `NtfnManager` shows that they end.

**`Commands`** (`acbcjson/register.go`, `cmdparse.go`). The three maps of the
registry; a struct type is the sequence of its fields with what `RegisterCmd` looks
at; `MarshalCmd` and `UnmarshalCmd` are operators over the registry, with
`makeParams`, `checkNumParams` and `populateDefaults`.

**`Notifications`** (`acbcjson/chainsvrwsntfns.go`, `walletsvrwsntfns.go`,
`rpcclient/notify.go`). The fields of every registered notification on one side,
every parser and callback of the client on the other, and a server that sends one
of the first, whole, cut or damaged. JSON values are named after what they are, a
parser by the number of parameters it takes and what it accepts of each.

**`Cookie`** (`retrieveCookie`, `readCookieFile`). One step up to the `Stat`, one
up to the reading, one for the reading, with a server that writes and removes the
file in between. Time counts in the units of modification times.

**`BanScore`** (`connmgr/dynamicbanscore.go`). Every operation is one step, since
it holds `mtx`. Time counts in half-lives and the float score in units of 1/`One`;
`Decay` is a constant of the module, halving in the run. `ideal` is the score that
decays all the time and is what the lazily decayed one is compared with.

`MC...` modules name model values and give the constants of a run. `MCClientServer` and
`MCManagerPost` put two parts that share no state into one run: in each of its
behaviours one of them runs and the other stays in a state where it rests.

## 4. Runs

| Run | States | What it shows |
|---|---|---|
| `client_safety` | 471,627 | One notification command through two connections, with `Disconnect`, `Shutdown`, a loss, re-registration, resends and a callback that calls back, in every order: a response channel is written at most once (`SingleResponse`), every unanswered request is in the books or in the hands of a handler and none is left behind by a shutdown (`BooksKept`), and the disconnect channel is closed exactly while the client is disconnected (`ConnectionInv`). |
| `client_server` | 307,271 | `RpcClient`: a request that is not resent, with reconnect: every step is one of `Futures`; a shutdown at any moment of a reconnect ends all goroutines. `RpcServer`: exact count of clients, a reply per entry in order; every handler returns but for one that writes to a peer that stays and does not read (`p2` of the run may be such a peer). |
| `client_noreconnect` | 10,956 | Two calls, one made by a callback, no reconnect, with `Disconnect`, `Shutdown` and a loss at any moment: the call of the callback ends with an error only (`CallbackUnanswered`); every future is answered, unless a callback waits for ever and nobody shuts the client down. |
| `client_transparent` | | *Violated.* A request sent after a reconnect is drained by the old connection's output handler. |
| `manager_post` | 150,267 | `NtfnManager`: the queue is a FIFO, `Stop` disconnects all and returns, admission, registration and removal do not hang. `PostClient`: one answer per future (two only after a refusal at shutdown), what is queued and its future are answered, the handler ends. |
| `post_refused` | | *Violated.* A command refused with `ErrClientShutdown` is executed. |
| `ws` | 355,745 | Every kind of request and batch: one outstanding notification, notifications in order, replies written, handlers end, `QueueNotification` returns for its one caller. |
| `ws_queue` | 339,903 | Two callers of `QueueNotification` race the leaving queue handler: while the client is connected each returns, and never both are left behind. One of two may be, when the other has refilled the channel. |
| `manager_remove` | | *Violated.* A removed client is never forgotten. |
| `data` | 400,453 | `MsgTx`: no buffer with two owners, all returned and filled on every path, decoding undoes encoding and accepts nothing else, sizes agree, integers and headers have one form. `Commands`: a command arrives as itself whatever else is registered. `Notifications`: a notification other than `walletlockstate` reaches its callback with its values, and no other. `Cookie`: credentials are no older than `Interval`, with two exceptions (section 9). `BanScore`: the lazy score stays within one of the ideal one. |
| `data_walletlock` | | *Violated.* `OnWalletLockState` is not called for a `walletlockstate` notification. |
| `daemon` | 532,047 | Certificate and key stay a pair unless a write was torn, a pair in use is never replaced, an exit is clean, an interrupt ends the process, credentials are those of the file that some start wrote. In its first state, over some thousand combinations of options: what `loadConfig` returns is consistent (`ConfigConsistent`), hidden services are not resolved by `acbcLookup`, are dialed through the configured proxy or, without any, directly, and not at all with `--noonion` (`TorRouting`), and an answer of the proxy cut anywhere gives its address or an error (`TorAnswer`). |

Deadlock is not checked: a client that was shut down, a peer that sends no more, a
decoder that has finished and a process that has ended may all rest; what must not
get stuck is stated as a liveness property.

## 5. Bounds

* `RpcClient`: one or two requests, two connections (`MaxConns`), a send buffer of
  one. Interference needs handlers of two connections; the second is stable, so a
  third adds a repetition of the same reconnect. With one place, the send channel
  is full as soon as one message waits. The proofs hold for every value.
* `PostClient`: three requests, one never received, a channel of one, two tries:
  full channel, first and last try, unread answer.
* `WsClient`: two messages, two notifications, one token, a send channel of one
  (50 in the code): the second message waits for the token of the first, a second
  notification goes to the list. All single requests, four batches. `ws_queue` has
  one kind of request, two callers and three notifications instead: one more than
  the channel holds when one is with the handler. The proofs hold for every value.
* `NtfnManager`: two connections for one place; each sends a registration and a
  removal, so the queue holds more than one message and the shortcut is tried
  with an empty and a non-empty queue. The proofs hold for every finite set.
* `RpcServer`: an entry of every kind alone, in a batch or not, all pairs of
  one entry for each outcome, and two longer batches, against a second connection, a limit of one, so the limit is met; the peer of the first
  reads, that of the second need not. The proofs hold for every
  set of bodies and connections.
* `MsgTx`: transactions of up to two inputs and outputs that cross every limit
  (scripts within and beyond a buffer, witness counts and sizes, numbers of inputs
  and outputs), every truncation, single altered bytes; a free list of two
  buffers, so it overflows and runs dry. `MaxBufs` bounds the buffers that are made,
  in the guards of the three readers; it is never reached. The proofs hold for every
  value, set of decoders and input.
* `Commands`: two methods and eight types, one for each rule of `RegisterCmd` and
  one with required, optional and default fields mixed; the proof holds for all.
* `Notifications`: every registered notification with every kind of value, to
  clients with no callbacks, one, and all; every prefix of its parameters. The proof
  holds for every set of clients.
* `Cookie`: two cookies, an interval of two units and six moments: an answer is
  used from the cache, becomes stale, and is looked for twice. The proof holds for
  every value.
* `BanScore`: six moments with a lifetime of three half-lives, charges of up to two
  and a sum of five, a persistent score that wraps around at eight. `One` is 32,
  so that five halvings are exact. The proofs hold for every value and every `Decay`
  with the properties that section 7 names.
* `Config`: sizes, weights and ports on both sides of every limit, all
  combinations of networks, proxies and credentials (`AllOptions`); `Tor`: every way
  to cut right and wrong answers. The proofs hold for every set of options and of
  answers.
* `Daemon`: seven command lines, three starts (one tears, one fails on what it finds, one more) and
  three listeners, so that one before and one after a failed one exist.

## 6. Fairness

Weak fairness for every goroutine's steps: the Go scheduler runs every runnable
goroutine. Nothing is assumed of the application, the peer, the network, signals,
kills, or of `Stop`/`Shutdown` being called. Three stronger assumptions:

* `RpcClient!FairSpec` (`client_noreconnect`, `client_transparent`): strong
  fairness of reading a reply or the error of a broken connection, since other
  messages may be read first, and of a successful dial, since the code retries for
  ever. `client_server` does without (`ScheduledSpec`).
* `WsClient`: a write to the connection returns (`OutWrite`), because a peer that
  stops reading and stays connected blocks the output handler for ever and nothing
  about replies could be said.
* `RpcServer`: reading a body returns, within `ReadTimeout`. Writing and flushing a
  reply (`Writing`) return only for the peers in `Readers`, which read or go away: a
  hijacked connection has no deadline for writing (`rpcserver.go:1004`, `808`), so
  any other peer may keep its handler for ever.

## 7. Proofs

Every theorem is for all values of the constants under the named assumption of its
module.

* **`RpcClientProofs`**. The inductive invariant is `TypeOK /\ ConnectionInv /\
  OwnershipInv`. `SingleResponse` alone is not inductive: whether `handleMessage`
  may write depends on nobody else owning the request. `OwnershipInv` says who
  does: before sending nobody, then `requestMap`, or the one handler that removed
  it. `ConnectionInv` relates `wsConn`, the disconnect channel and the reconnect
  handler's position; its first conjunct says that no closed channel is closed
  again and that nobody waits on an open one of a disconnected client. From them follow `SingleResponse`, `BooksKept`
  (its parts are `NoOrphans` and `NothingPendingAfterShutdown`) and, step by step, that the
  client implements `Futures` (`ClientImplementsFutures`).
* **`NtfnManagerProofs`**. `QueueInv` (queue and held message are what was
  accepted and not delivered) with `NotStarted` (no handler runs before the start)
  gives `QueueCorrect` and `QueueImplementsFifo`; `StopDisconnectsCorrect` needs that
  the map of clients no longer changes after the cleanup.
* **`PostClientProofs`**. `OneOwner` is inductive with the types. `ResponseBound`
  needs what an owned request has got so far: nothing, or the refusal.
* **`WsClientProofs`**. `NtfnInv` follows a notification through `ntfnChan`, the list
  of pending ones, `sendChan` and the output handler. There is one token: either it
  is with the queue handler, or one notification is in flight, or the confirmation
  is in `ntfnSentChan` (`TokenInv`), so a notification can only be pending while
  another one is outstanding. `FlowInv` numbers them: as long as the connection
  lives, what is written, in flight, pending and in the channel is one sequence
  without a gap; `NtfnFIFO` alone would not say where the next one comes from.
  `SingleCallerHasRoom` is the safety part of `QueueNotificationReturns` for one
  caller: it passed the test of `Disconnected` before the queue handler drained
  `ntfnChan`, so nobody else can have filled it again (`CallerInv`). With two callers
  it is false; `ws_queue` shows what holds then.
* **`RpcServerProofs`**. The counter changes by one exactly when the set `Counted`
  gains or loses the connection that steps; the invariant ties program counters to
  the places where the handler can return or panic. For `RequestsAnswered`,
  `Progress` says what a handler has done at each point, provided that its close
  notifier has not yet written the shared `err`: the replies so far are, in order,
  those to the entries before `next`, and an entry was executed exactly if its result
  is among them (`Good`).
* **`DaemonProofs`**. `Generating` says what both files hold at each step of
  `genCertPair`; with it `PairFiles` is inductive and no step that writes a file
  finds a complete pair (`PairKept`). `Progress` says how far starting or stopping
  has come: while no `Serve` has failed, listeners are closed only by `Stop` and in
  their turn, so `Stop` never returns early (`CleanExit`). `FileInv` says that a
  configuration file is whole unless it is being written or a write was torn, and
  with it `CredentialsFromFile` holds for every set of command lines.
  What `loadConfig` returns (`ConfigConsistentCorrect`, `TorRoutingCorrect`) is
  proved for every set of options of the types that the parser gives them
  (`OptionsAssumption`: an address is a host or a host and a port, a size is a
  number that is not negative, `localhost` has an address), from
  `BlockLimitsCorrect`, `RoutingCorrect` and `ConsistentCorrect`. `RoutingCorrect`
  is by cases of the options: that no configured proxy is bypassed, and that direct
  dialing of a hidden service needs that there is none. `ConsistentCorrect` is
  for options of which some come from the command line and some from the file. It
  rests on what `removeDuplicateAddresses` computes (`DuplicatesRemoved`), which is
  stated by counting and not by recursion, so that it can be proved.
  `TorAnswerCorrect` is for every method and answer of the right length
  (`TorAssumption`): whatever the cuts, at most two segments of the second answer
  are read, and `FirstSegments` says what these two are.
* **`DataProofs`**, the proofs about the modules that `MCData` runs: `Cookie`,
  `BanScore`, `Commands`, `Notifications`, and `MsgTx` on top of `Wire`.
  `CookieInv` relates what `retrieveCookie` has read to what the file has held since:
  a text in its hands was in the file at some moment of the call, and what is kept
  is still in the file, or the file was rewritten within the same unit of time, or
  reading it failed; `CookieCurrentCorrect`.
  `BanInv` compares the score with the ideal one for as long as the clock does not
  go back: it is never above it (`NeverOverchargedCorrect`), and below it by no more
  than what charges that were forgotten after a lifetime would still weigh, for
  which the invariant has a witness (`NotBelow`); `ScoreTracksIdealCorrect`. `Decay`
  is a parameter, of which `DecayAssumption` asks what the multiplication by
  `decayFactor` has: it does not increase, waiting twice is waiting once for the
  sum, and it neither increases differences nor the sum of parts. `MaxGranted <
  Width` keeps the sum of charges within the `uint32` that `Increase` returns.
  `RegistryInv` says that the three maps agree and that every
  registered type passed the rules of `RegisterCmd`. A type that passed them has
  its optional fields last, which is what makes the number of marshalled parameters
  acceptable; `RoundTripCorrect` follows for every set of types and methods.
  `NtfnDeliveredCorrect` goes through the tables of this commit, notification by
  notification, for every set of callbacks that a client may have
  (`ClientsAssumption`): whatever arrives in the place of a parameter, or is missing,
  at most one callback is called, and a whole notification other than
  `walletlockstate` calls its own with its values.
  For `MsgTx`, `BufferInv` says where every script of a message lies at each point of
  `BtcDecode` (`Filed`), that the next script read is a new one (`Reached`), and that
  what is lent is what the decoder can reach (`Counted`). `NoAliasing` needs all of
  them: a buffer that is given back must not be reachable from anywhere else.
  `NoAliasingCorrect` and `BuffersReturnedCorrect` are for any number of decoders,
  any input and any size of the free list.
  `StreamInv` says that what a decoder has left to read is a sequence of bytes, that
  its counters are numbers and its message is one under construction. With it and
  the lemmas about `Wire`, `WireCanonicalCorrect` holds for every base, every size of
  a hash and every stream that a decoder is given (`InputsAssumption`): `Value` of
  `Put` is the value and `Put` of `Value` the bytes, in any width; `ReadVarInt` accepts the output of
  `WriteVarInt` only, and a block header is read back as it was written. What a
  recursive function computes is proved by the least number for which it would not
  hold, since the library's induction theorems cannot be used here.
  `SumInv` says that `totalScriptSize` is the sum of the lengths of the scripts that
  were read, and while they are copied, of the copied ones and of those still to be
  copied; `ScriptsFitCorrect` follows. That the sum `Total` does not depend on the
  order in which it is taken is proved from its recursive definition (`SumAnyOrder`).
* **`DecodeProofs`**, `DecodeExact` of `MsgTx`. `DecodeExactCorrect` goes in four steps.
  1. *What was read.* `Sound` says that a decoder that has met no error holds some
     inputs, outputs, complete witnesses and items (`Partials`), that the scripts in its
     buffers are theirs (`Texts`), and that their encoding followed by what is left is
     the stream that it was given (`Holds`). Every reader keeps it, the copies into the
     contiguous buffer and the returns too, since nobody else writes a lent buffer;
     `DecodeSound` is this at the end.
  2. *One way to read it.* A variable length integer, a script, an input, an output, a
     witness is the beginning of a stream in one way only (`VarIntOnce`, ...,
     `WitnessOnce`), and so is a list of any length of such elements (`ListOnce`), a
     shorter one being a part of the longer one (`ListLeads`). Hence the parts that a
     decoder of an encoded transaction has read are parts of that transaction
     (`InsStage` to `EndStage`). The only exception is a count of 0, which is written
     like the marker of the witnesses; it is the one that `DecodeExact` excuses.
     `Called` says that the stream is still the one `BtcDecode` was called with.
  3. *The sizes.* `SerializeSize` and `baseSize` count the bytes that are written
     (`SizesExact`), so that a transaction that fits a message has few enough inputs
     and outputs for the limits that the readers check (`Limits`).
  4. *No reader fails.* `Accepting` says that no decoder of a transaction that may be
     sent is in an error. With steps 2 and 3 it stands exactly where the writer stood
     (`OutsPosition`, `WitsPosition`, ...), so the next element is there, within
     its limit, and is read (`TxInAccepted`, ..., `LockTimeAccepted`).

  The inductive invariant is `BufferInv /\ StreamInv /\ SumInv /\ Sound /\ Called /\
  Accepting`. None of it can go: without `BufferInv` another decoder could overwrite a
  script, without `SumInv` the last copy could fall out of the buffer, and without
  `Sound` nothing relates the position of a reader to what was written.

The types that an invariant needs are part of it; type correctness as a whole is
proved for `RpcClient`, `PostClient`, `NtfnManager` and `RpcServer`, each as a
conjunct of a theorem, and for `Daemon`, as a conjunct of `PairInv`. It is not for
`WsClient`, where the reply to a batch is a fold, nor for `MsgTx`, whose messages the
readers of `Wire` make. `CallbackCorrect`, in `RpcClientProofs`, adds `OnlyHandler` and
`CallbackPC` to the invariant of that module: on a client that does not reconnect there is one
input handler, and while it is in the callback it reads nothing.

## 8. Only model-checked

Liveness, because it needs fairness and ENABLED: `ShutdownStops`,
`EveryFutureAnswered`, `FuturesAnswered`, `HandlerStops`, `ReplyWritten`,
`ShutdownCompletes`, `QueueNotificationReturns`, `StopReturns`, `ManagerAnswers`,
`ClientRegistered`, `HandlersReturn` and `InterruptEnds`. Every other property of a
passing run is also a theorem.

## 9. Behaviours met while modelling

Runs show four disagreements with comments (`findings`). Others were seen on the
way; properties are stated so that they excuse exactly these.

*Client.* A rescan is dropped at a reconnect and its future is never answered.
After a reconnect two output handlers may write one connection. Shutdown during a
dial is noticed only after the client's state was reset. A refused notification
command is tracked and registered again, although the comment in `handleMessage`
says "Since the command was successful". In POST mode a request can be left in the
channel when the handler has gone, an answer nobody receives stops the handler at
the second one, and ten failed tries read a nil response.

*Callbacks and notifications.* A callback that blocks is released by the end of the
connection only, as the note on `NotificationHandlers` warns; if it called a rescan
and the client reconnects, not even by that, because the rescan is forgotten; and
after a reconnect the input handler that it held reads the new connection next to
the new one. A `walletlockstate` notification has one field and its parser wants
two, so its callback is never called (`data_walletlock`); `newtx` has no callback. No `notify...`,
`rescan` or `loadtxfilter` command is registered by acbcjson, although the comment
of `RegisterCmd` says that all exported commands are, so `SendCmd` refuses them
unless the application registers them. `LoadTxFilterAsync` looks neither at the
POST mode nor at the handlers. A type that is registered under two methods is
marshalled for the later one. A nil pointer between other parameters stays nil on
the other side although it has a default.

*Cookie.* `retrieveCookie` keeps an error of `Stat` or of the reading until the
file's modification time changes, and does not read a file again that was
rewritten within the same unit of modification times.

*Ban score.* A transient score of at most one is not decayed before it is
increased, and `Increase` with a transient charge of zero returns the undecayed
score.

*Server.* The limits of HTTP and of websocket clients are tested in one step and
counted in another, so both can be exceeded. Clients are never unregistered, so
the websocket limit fills up. `AddClient` has no case for a manager that has quit.
A reply that cannot be marshalled abandons a batch with the semaphore taken
(`rpcwebsocket.go:751`), and `WaitForShutdown` then never returns. A
sender at a full `sendChan` stays when the output handler has gone; one of two
callers of `QueueNotification` may stay when the queue handler has; and a slow peer
blocks whoever queues a notification, although the comment of `QueueNotification`
says that it does not. A peer that stays and does not
read a large reply keeps its HTTP handler and its place for ever. The close
notifier writes `err` while `jsonRPCRead` uses it. A request without an id is
answered in a batch, and with quirks the reply can be empty. A negative index of
`getblockhash` panics: over HTTP the connection ends, over a websocket the process.
`authenticate` is not registered, so it cannot be called.

*Process.* `rebroadcastHandler` never calls `wg.Done`, which goes unnoticed because
`WaitForShutdown` is not called. A kill between certificate and key, or a cut key
file, makes every later start fail. A process that
finds no sample, or a configuration file that was cut before the credentials, runs
with the built-in ones and RPC on; cut between them, with the user of the
file and the built-in password. The sample's `rpclimitpass` equals that password, so
an untouched sample is refused. `--notls` allows "localhost", which the parser of listeners refuses. `Stop`
gives up at the first listener that was closed already.

*Config.* Without any proxy, the default, hidden services are dialed directly, as
the comment of `acbcDial` says ("will otherwise use the normal dial function"), so
their names reach the resolver of the system. The parameters of the main and the regression test network are empty:
they share their data and log directories, in spite of the comment at
`config.go:641`, their listeners get no port, and the check that the stall handler
stays on in the main network cannot fire. `BlockMinWeight` can exceed
`BlockMaxWeight` when only `blockmaxsize` is given. `--torisolation` does not reach
a proxy without credentials of its own. `TorLookupIP` takes an answer for an error
when its header arrives in two segments.

*Wire.* A transaction without inputs has no unambiguous witness encoding, and a
witness flag without witnesses is accepted.

## 10. Not modelled

* The free list of eight byte buffers in `wire/common.go`: a buffer is borrowed and
  returned within one call and never leaves it. Hashing of headers and random
  nonces are external functions.
* The wrapper in `rpcclient/chain.go` and the conversions of `chainhash` and
  `acbcutil` (amounts, directories, hex): pure functions over floats and strings
  without state; where the control depends on what they accept, that is in the
  module that uses them. The certificate generator is external to `genCertPair`.
* The deployment starters and enders of `chaincfg` and the cached hashes of
  `acbcutil` have no caller at this commit. Parameter tables and genesis blocks are
  data.
* Windows services, the expansion of paths and environment variables, log rotation,
  version, help texts and the example programs.
* `peer`, `blockchain`, `database`, `mempool` and `mining` hold types without
  operations, or operations whose callers are commented out.
* That `wsConn` is read without a lock whenever a message is written: after a
  reconnect two handlers may write one connection. `RpcClient` reaches this state;
  nothing in the code promises otherwise, so no property is stated.
* TLS, HTTP, JSON and the websocket protocol are external and appear as what the
  code sees of them.
