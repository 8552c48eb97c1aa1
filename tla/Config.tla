-------------------------------- MODULE Config --------------------------------
(***************************************************************************)
(* loadConfig (config.go), netName and the parameters of the networks      *)
(* (params.go, chaincfg/params.go), acbcDial and acbcLookup, as operators. *)
(*                                                                         *)
(* args and file are what the command line and the configuration file say: *)
(* functions from some of the options to values.  An address is <<host>>   *)
(* or <<host, port>>, <<>> if there is none; only the second has the form  *)
(* that net.SplitHostPort accepts.  Options that loadConfig neither checks *)
(* nor changes are left out.  A value that a parser of the library refuses *)
(* is a word of its own: "noip", "nothex", "noint32", "NaN".               *)
(***************************************************************************)
EXTENDS Integers, Sequences, FiniteSets

-------------------------------------------------------------------------------
(* The networks.                                                           *)

\* The fields of a network that loadConfig looks at: the parameters of the main
\* and the regression test network are empty in this commit.
MainNetParams ==
  [Name |-> "", Net |-> "", DefaultPort |-> "", RelayNonStdTxs |-> FALSE, rpcPort |-> "8334"]
RegressionNetParams ==
  [Name |-> "", Net |-> "", DefaultPort |-> "", RelayNonStdTxs |-> FALSE, rpcPort |-> "18334"]
TestNet3Params ==
  [Name |-> "testnet3", Net |-> "TestNet3", DefaultPort |-> "18333", RelayNonStdTxs |-> TRUE,
   rpcPort |-> "18334"]
SimNetParams ==
  [Name |-> "simnet", Net |-> "SimNet", DefaultPort |-> "18555", RelayNonStdTxs |-> TRUE,
   rpcPort |-> "18556"]
SigNetParams ==
  [Name |-> "signet", Net |-> "SigNet", DefaultPort |-> "38333", RelayNonStdTxs |-> FALSE,
   rpcPort |-> "38332"]

netName(params) == IF params.Net = "TestNet3" THEN "testnet" ELSE params.Name

-------------------------------------------------------------------------------
(* Defaults, configuration file and command line.                          *)

defaultBlockMaxSize   == 750000
defaultBlockMaxWeight == 3000000
MaxBlockBaseSize      == 1000000
MaxBlockWeight        == 4000000
WitnessScaleFactor    == 4
blockMaxSizeMin       == 1000
blockMaxSizeMax       == MaxBlockBaseSize - 1000
blockMaxWeightMin     == 4000
blockMaxWeightMax     == MaxBlockWeight - 4000

Default ==
  [ConfigFile |-> "default", ShowVersion |-> FALSE, Help |-> FALSE,
   DataDir |-> <<"data">>, LogDir |-> <<"logs">>, DebugLevel |-> <<<<"info">>>>, DbType |-> "ffldb",
   Profile |-> <<>>, BanDuration |-> 86400, Whitelists |-> <<>>,
   AddPeers |-> <<>>, ConnectPeers |-> <<>>, Listeners |-> <<>>,
   TestNet3 |-> FALSE, RegressionTest |-> FALSE, SimNet |-> FALSE, SigNet |-> FALSE,
   SigNetChallenge |-> "", DisableStallHandler |-> FALSE,
   RelayNonStd |-> FALSE, RejectNonStd |-> FALSE,
   DisableListen |-> FALSE, DisableDNSSeed |-> FALSE,
   RPCUser |-> "jiajimeidou", RPCPass |-> "12345678", RPCLimitUser |-> "", RPCLimitPass |-> "",
   DisableRPC |-> FALSE, DisableTLS |-> FALSE, RPCListeners |-> <<>>, RPCMaxConcurrentReqs |-> 20,
   MinRelayTxFee |-> "0.00001", MaxOrphanTxs |-> 100,
   BlockMinSize |-> 0, BlockMaxSize |-> defaultBlockMaxSize,
   BlockMinWeight |-> 0, BlockMaxWeight |-> defaultBlockMaxWeight, BlockPrioritySize |-> 50000,
   UserAgentComments |-> <<>>, TxIndex |-> FALSE, DropTxIndex |-> FALSE,
   AddrIndex |-> FALSE, DropAddrIndex |-> FALSE, Generate |-> FALSE, MiningAddrs |-> <<>>,
   AddCheckpoints |-> <<>>, NoOnion |-> FALSE, TorIsolation |-> FALSE,
   Proxy |-> <<>>, ProxyUser |-> "", ProxyPass |-> "",
   OnionProxy |-> <<>>, OnionProxyUser |-> "", OnionProxyPass |-> ""]

\* An option of the command line as the first parse sees it.
Pre(n, args) == IF n \in DOMAIN args THEN args[n] ELSE Default[n]

\* The default file is not for the networks of tests.
ReadsFile(args) ==
  \/ ~(Pre("RegressionTest", args) \/ Pre("SimNet", args) \/ Pre("SigNet", args))
  \/ Pre("ConfigFile", args) # Default.ConfigFile

\* What is taken from the file: with --regtest its peers are not.
FromFile(n, args, file) ==
  /\ ReadsFile(args)
  /\ n \in DOMAIN file
  /\ ~(n = "AddPeers" /\ Pre("RegressionTest", args))

\* The command line takes precedence over the file, and the file over the default.
Option(n, args, file) ==
  IF n \in DOMAIN args THEN args[n]
  ELSE IF FromFile(n, args, file) THEN file[n] ELSE Default[n]

Parsed(args, file) == [n \in DOMAIN Default |-> Option(n, args, file)]

-------------------------------------------------------------------------------
(* What loadConfig refuses.                                                *)

validLogLevel(l) == l \in {"trace", "debug", "info", "warn", "error", "critical"}

Subsystems == {"ADXR", "AMGR", "CMGR", "BCDB", "ACBC", "CHAN", "DISC", "INDX", "MINR", "PEER",
               "RPCS", "SCRP", "SRVR", "SYNC", "TXMP"}

\* parseAndSetDebugLevels: one level, or pairs of a subsystem and a level.
DebugLevelsOK(d) ==
  IF Len(d) = 1 /\ Len(d[1]) = 1
    THEN validLogLevel(d[1][1])
    ELSE \A i \in DOMAIN d : Len(d[i]) >= 2 /\ d[i][1] \in Subsystems /\ validLogLevel(d[i][2])

validDbType(t) == t \in {"levelDB", "mongoDB", "ffldb"}

\* Profile is <<>>, or holds the number that strconv.Atoi makes of it.
ProfileOK(p) == \A i \in DOMAIN p : p[i] \in 1024 .. 65535

\* newCheckpointFromStr: the parts between the colons are a height and a hash.
CheckpointOK(parts) ==
  Len(parts) = 2 /\ parts[1] # "noint32" /\ parts[2] \notin {"", "nohash"}

NetworkOK(c) ==
  /\ Cardinality({n \in {"TestNet3", "RegressionTest", "SimNet", "SigNet"} : c[n]}) <= 1
  /\ c.SigNet => c.SigNetChallenge # "nothex"

activeNetParams(c) ==
  CASE c.SigNet         -> SigNetParams
    [] c.SimNet         -> SimNetParams
    [] c.RegressionTest -> RegressionNetParams
    [] c.TestNet3       -> TestNet3Params
    [] OTHER            -> MainNetParams

PolicyOK(c) ==
  /\ ~(activeNetParams(c).Net = "MainNet" /\ c.DisableStallHandler)
  /\ ~(c.RelayNonStd /\ c.RejectNonStd)

GeneralOK(c) ==
  /\ DebugLevelsOK(c.DebugLevel)
  /\ validDbType(c.DbType)
  /\ ProfileOK(c.Profile)
  /\ c.BanDuration >= 1
  /\ \A i \in DOMAIN c.Whitelists : c.Whitelists[i] # "noip"
  /\ c.AddPeers = <<>> \/ c.ConnectPeers = <<>>

RPCUsersOK(c) ==
  /\ c.RPCUser # c.RPCLimitUser \/ c.RPCUser = ""
  /\ c.RPCPass # c.RPCLimitPass \/ c.RPCPass = ""

LimitsOK(c) ==
  /\ c.RPCMaxConcurrentReqs >= 0
  /\ c.MinRelayTxFee \notin {"NaN", "Inf"}
  /\ blockMaxSizeMin <= c.BlockMaxSize /\ c.BlockMaxSize <= blockMaxSizeMax
  /\ blockMaxWeightMin <= c.BlockMaxWeight /\ c.BlockMaxWeight <= blockMaxWeightMax
  /\ c.MaxOrphanTxs >= 0

IndexesOK(c) ==
  /\ ~(c.TxIndex /\ c.DropTxIndex)
  /\ ~(c.AddrIndex /\ c.DropAddrIndex)
  /\ ~(c.AddrIndex /\ c.DropTxIndex)

MiningOK(c) ==
  /\ \A i \in DOMAIN c.UserAgentComments : c.UserAgentComments[i] # "a/b"
  /\ c.Generate => c.MiningAddrs # <<>>

\* Without TLS the RPC server listens on localhost only.
NoTLSOK(c) ==
  ~c.DisableRPC /\ c.DisableTLS =>
    \A i \in DOMAIN c.RPCListeners : c.RPCListeners[i][1] \in {"localhost", "127.0.0.1", "::1"}

ProxiesOK(c) ==
  /\ ~(c.NoOnion /\ c.OnionProxy # <<>>)
  /\ \A i \in DOMAIN c.AddCheckpoints : CheckpointOK(c.AddCheckpoints[i])
  /\ c.TorIsolation => c.Proxy # <<>> \/ c.OnionProxy # <<>>
  /\ Len(c.Proxy) # 1 /\ Len(c.OnionProxy) # 1

-------------------------------------------------------------------------------
(* What loadConfig changes, in its order: each part takes the configuration*)
(* r as it stands and the options c as they were parsed, which the         *)
(* conditions are about.                                                   *)

relayNonStd(c) ==
  IF c.RejectNonStd THEN FALSE
  ELSE IF c.RelayNonStd THEN TRUE ELSE activeNetParams(c).RelayNonStdTxs

\* filepath.Join leaves out an empty element.
Join(dir, name) == IF name = "" THEN dir ELSE Append(dir, name)

Network(r, c) ==
  [r EXCEPT
     !.DisableDNSSeed = @ \/ c.SimNet,
     !.RelayNonStd = relayNonStd(c),
     !.DataDir = Join(@, netName(activeNetParams(c))),
     !.LogDir = Join(@, netName(activeNetParams(c)))]

Listening(r, c) ==
  [r EXCEPT
     !.DisableListen = @ \/ ((c.Proxy # <<>> \/ c.ConnectPeers # <<>>) /\ c.Listeners = <<>>),
     !.DisableDNSSeed = @ \/ c.ConnectPeers # <<>>,
     !.Listeners = IF @ = <<>> THEN <<<<"", activeNetParams(c).DefaultPort>>>> ELSE @]

\* Without a complete pair of credentials there is no RPC server.
NoRPC(c) ==
  \/ c.DisableRPC
  \/ (c.RPCUser = "" \/ c.RPCPass = "") /\ (c.RPCLimitUser = "" \/ c.RPCLimitPass = "")

\* localhost: the hosts that net.LookupHost finds.
RPCListening(r, c, localhost) ==
  [r EXCEPT
     !.DisableRPC = NoRPC(c),
     !.RPCListeners =
       IF ~NoRPC(c) /\ @ = <<>>
         THEN [i \in DOMAIN localhost |-> <<localhost[i], activeNetParams(c).rpcPort>>]
         ELSE @]

minUint32(a, b) == IF a < b THEN a ELSE b

\* The lower limits are clamped to the upper ones as they were given; then a size
\* or a weight that is not set is derived from the one that is.
BlockLimits(r, c) ==
  [r EXCEPT
     !.BlockPrioritySize = minUint32(@, c.BlockMaxSize),
     !.BlockMinSize = minUint32(@, c.BlockMaxSize),
     !.BlockMinWeight = minUint32(@, c.BlockMaxWeight),
     !.BlockMaxSize =
       IF @ = defaultBlockMaxSize /\ c.BlockMaxWeight # defaultBlockMaxWeight
         THEN MaxBlockBaseSize - 1000 ELSE @,
     !.BlockMaxWeight =
       IF @ = defaultBlockMaxWeight /\ c.BlockMaxSize # defaultBlockMaxSize
         THEN c.BlockMaxSize * WitnessScaleFactor ELSE @]

\* The i with which s begins anew.
FirstOf(s) == {i \in DOMAIN s : \A j \in 1 .. i - 1 : s[j] # s[i]}

removeDuplicateAddresses(s) ==
  [k \in 1 .. Cardinality(FirstOf(s)) |->
     s[CHOOSE i \in FirstOf(s) : Cardinality({j \in FirstOf(s) : j <= i}) = k]]

normalizeAddress(addr, defaultPort) == IF Len(addr) = 2 THEN addr ELSE addr \o <<defaultPort>>

\* Mutant: duplicates are removed before the ports are filled in.
normalizeAddressesLast(s, defaultPort) ==
  [i \in DOMAIN removeDuplicateAddresses(s) |->
     normalizeAddress(removeDuplicateAddresses(s)[i], defaultPort)]

normalizeAddresses(s, defaultPort) ==
  removeDuplicateAddresses([i \in DOMAIN s |-> normalizeAddress(s[i], defaultPort)])

Normalized(r, c) ==
  [r EXCEPT
     !.Listeners = normalizeAddresses(@, activeNetParams(c).DefaultPort),
     !.RPCListeners = normalizeAddresses(@, activeNetParams(c).rpcPort),
     !.AddPeers = normalizeAddresses(@, activeNetParams(c).DefaultPort),
     !.ConnectPeers = normalizeAddresses(@, activeNetParams(c).DefaultPort)]

Adjusted(c, localhost) ==
  Normalized(BlockLimits(RPCListening(Listening(Network(c, c), c), c, localhost), c), c)

\* The configurations that loadConfig returns: one, or none if it refuses.
LoadConfig(args, file, localhost) ==
  {Adjusted(c, localhost) :
     c \in {p \in {Parsed(args, file)} :
             /\ ~p.Help /\ ~Pre("ShowVersion", args)
             /\ p.DebugLevel # <<<<"show">>>>
             /\ NetworkOK(p) /\ PolicyOK(p) /\ GeneralOK(p) /\ RPCUsersOK(p) /\ LimitsOK(p)
             /\ MiningOK(p) /\ IndexesOK(p) /\ ProxiesOK(p)
             /\ NoTLSOK(Adjusted(p, localhost))}}

-------------------------------------------------------------------------------
(* Dialing and resolving.                                                  *)

Direct   == [via |-> <<>>, isolated |-> FALSE]
Disabled == [via |-> <<"disabled">>, isolated |-> FALSE]

\* Which proxy a connection is made through, and with random credentials or not.
dial(c) ==
  IF c.Proxy = <<>> THEN Direct
  ELSE [via |-> c.Proxy,
        isolated |-> c.TorIsolation /\ c.OnionProxy = <<>>
                       /\ (c.ProxyUser # "" \/ c.ProxyPass # "")]

\* Mutant: --noonion is forgotten.
oniondialIgnoringNoOnion(c) ==
  IF c.OnionProxy # <<>> THEN [via |-> c.OnionProxy, isolated |-> c.TorIsolation] ELSE dial(c)

oniondial(c) ==
  IF c.NoOnion THEN Disabled
  ELSE IF c.OnionProxy # <<>> THEN [via |-> c.OnionProxy, isolated |-> c.TorIsolation]
  ELSE dial(c)

\* The proxy that TorLookupIP asks; <<>> is the resolver of the system.
lookup(c) ==
  IF c.Proxy = <<>> THEN <<>>
  ELSE IF c.OnionProxy # <<>> THEN c.OnionProxy
  ELSE IF c.NoOnion THEN <<>> ELSE c.Proxy

acbcDial(c, onion) == IF onion THEN oniondial(c) ELSE dial(c)

acbcLookup(c, onion) == IF onion THEN Disabled.via ELSE lookup(c)

-------------------------------------------------------------------------------
(* What a configuration promises.                                          *)

\* A host, or a host and a port.
HostPort == {a \in Seq(STRING) : Len(a) = 1 \/ Len(a) = 2}

\* The types that the parser gives to options, as far as the proofs need them.
Typed(o) ==
  \A n \in DOMAIN o :
    /\ n \in {"Listeners", "AddPeers", "ConnectPeers", "RPCListeners"} => o[n] \in Seq(HostPort)
    /\ n \in {"BlockMaxSize", "BlockMaxWeight", "BlockMinSize", "BlockMinWeight",
              "BlockPrioritySize"} => o[n] \in Nat
    /\ n \in {"NoOnion", "TorIsolation"} => o[n] \in BOOLEAN
    /\ n \in {"Proxy", "OnionProxy", "DataDir", "LogDir"} => o[n] \in Seq(STRING)

(***************************************************************************)
(* The limits of a block are in order after both the clamping and the      *)
(* switch behind it.  The switch may lower BlockMaxWeight below the least  *)
(* weight that was asked for, which has been compared with the default.    *)
(***************************************************************************)
BlockLimitsOrdered(c) ==
  LimitsOK(c) =>
    /\ BlockLimits(c, c).BlockMaxSize <= blockMaxSizeMax
    /\ BlockLimits(c, c).BlockMaxWeight <= blockMaxWeightMax
    /\ BlockLimits(c, c).BlockMinSize <= BlockLimits(c, c).BlockMaxSize
    /\ BlockLimits(c, c).BlockPrioritySize <= BlockLimits(c, c).BlockMaxSize
    /\ \/ BlockLimits(c, c).BlockMinWeight <= BlockLimits(c, c).BlockMaxWeight
       \/ /\ c.BlockMaxWeight = defaultBlockMaxWeight
          /\ c.BlockMaxSize # defaultBlockMaxSize
          /\ c.BlockMinWeight > WitnessScaleFactor * c.BlockMaxSize

(***************************************************************************)
(* What normalizeAddresses makes of the addresses that are given: each of  *)
(* them once, and with a port.  Nobody gets an empty port who has not      *)
(* asked for it, on a network that has one.                                *)
(***************************************************************************)
NoDuplicates(s) == \A i, j \in DOMAIN s : s[i] = s[j] => i = j

Listed(given, port, got) ==
  /\ NoDuplicates(got)
  /\ {got[k] : k \in DOMAIN got} = {normalizeAddress(given[i], port) : i \in DOMAIN given}
  /\ \A k \in DOMAIN got :
       /\ Len(got[k]) = 2
       /\ got[k][2] = "" => port = "" \/ \E i \in DOMAIN given : got[k] = given[i]

(***************************************************************************)
(* The configuration r that is made of the options c.  A configured        *)
(* address to listen on or to connect to appears once and has a port, that *)
(* of the network if none is given, and --connect and --addpeer exclude    *)
(* each other.  Behind a proxy nobody listens unless asked to.  A server   *)
(* that is not disabled has a complete pair of credentials, two pairs      *)
(* share neither name nor password, it listens somewhere, on the port of   *)
(* the network unless asked otherwise, and without TLS on this host only.  *)
(***************************************************************************)
Consistent(c, r) ==
  /\ c.Listeners # <<>> => Listed(c.Listeners, activeNetParams(c).DefaultPort, r.Listeners)
  /\ c.Listeners = <<>> => r.Listeners = <<<<"", activeNetParams(c).DefaultPort>>>>
  /\ Listed(c.AddPeers, activeNetParams(c).DefaultPort, r.AddPeers)
  /\ Listed(c.ConnectPeers, activeNetParams(c).DefaultPort, r.ConnectPeers)
  /\ r.AddPeers = <<>> \/ r.ConnectPeers = <<>>
  /\ c.Proxy # <<>> => r.DisableListen \/ c.Listeners # <<>>
  /\ c.RPCListeners # <<>> => Listed(c.RPCListeners, activeNetParams(c).rpcPort, r.RPCListeners)
  /\ ~r.DisableRPC =>
       /\ \/ c.RPCUser # "" /\ c.RPCPass # ""
          \/ c.RPCLimitUser # "" /\ c.RPCLimitPass # ""
       /\ c.RPCUser # "" => c.RPCUser # c.RPCLimitUser
       /\ c.RPCPass # "" => c.RPCPass # c.RPCLimitPass
       /\ r.RPCListeners # <<>> /\ NoDuplicates(r.RPCListeners)
       /\ c.RPCListeners = <<>> =>
            \A k \in DOMAIN r.RPCListeners :
              Len(r.RPCListeners[k]) = 2 /\ r.RPCListeners[k][2] = activeNetParams(c).rpcPort
       /\ c.DisableTLS =>
            \A k \in DOMAIN r.RPCListeners :
              r.RPCListeners[k][1] \in {"localhost", "127.0.0.1", "::1"}

\* The network that the flags choose.
Chosen(c) == {n \in {"TestNet3", "RegressionTest", "SimNet", "SigNet"} : c[n]}

(***************************************************************************)
(* Two networks that are given the same directory use different ones: not  *)
(* so the main and the regression test network, whose names are empty.     *)
(* base is what the options c say, dir what the configuration r says.      *)
(***************************************************************************)
Directories(c, r) ==
  {[base |-> c.DataDir, dir |-> r.DataDir, network |-> Chosen(c)],
   [base |-> c.LogDir, dir |-> r.LogDir, network |-> Chosen(c)]}

Apart(a, b) ==
  a.base = b.base /\ a.dir = b.dir =>
    a.network = b.network \/ a.network \cup b.network = {"RegressionTest"}

\* The proxies that are configured, for hidden services or for everything.
ConfiguredProxies(c) == {c.Proxy, c.OnionProxy} \ {<<>>}

(***************************************************************************)
(* acbcLookup resolves no .onion name.  With --noonion a hidden service is *)
(* not dialed at all; otherwise it is dialed through a configured proxy,   *)
(* the onion proxy if there is one.  Without any proxy, the default, it is *)
(* dialed like every other address, directly and outside of tor: "will     *)
(* otherwise use the normal dial function (which could itself use a proxy  *)
(* or not)".  Other names are resolved by the proxy that dials hidden      *)
(* services, or by the system: that only without --proxy or with           *)
(* --noonion.  --torisolation isolates what is dialed through the onion    *)
(* proxy, and through the other proxy only if that has credentials to      *)
(* override.                                                               *)
(***************************************************************************)
Routed(c) ==
  ProxiesOK(c) =>
    /\ acbcLookup(c, TRUE) = Disabled.via
    /\ c.NoOnion <=> acbcDial(c, TRUE) = Disabled
    /\ ~c.NoOnion /\ ConfiguredProxies(c) # {} => acbcDial(c, TRUE).via \in ConfiguredProxies(c)
    /\ ~c.NoOnion /\ c.OnionProxy # <<>> => acbcDial(c, TRUE).via = c.OnionProxy
    /\ ~c.NoOnion /\ ConfiguredProxies(c) = {} => acbcDial(c, TRUE) = Direct
    /\ acbcDial(c, FALSE).via = c.Proxy
    /\ acbcLookup(c, FALSE) \in {<<>>, acbcDial(c, TRUE).via}
    /\ acbcLookup(c, FALSE) = <<>> => c.Proxy = <<>> \/ c.NoOnion
    /\ c.TorIsolation /\ ~acbcDial(c, TRUE).isolated =>
         c.NoOnion \/ (c.OnionProxy = <<>> /\ c.ProxyUser = "" /\ c.ProxyPass = "")
===============================================================================
