------------------------------- MODULE MCDaemon -------------------------------
(* Command lines for the starts, options for loadConfig alone, answers of  *)
(* a proxy.                                                                *)
EXTENDS Daemon

ThreeAddrs == <<"127.0.0.1:8334", "[::1]:8334", "192.168.0.2:8334">>
TwoHosts == <<"127.0.0.1", "::1">>
Users == <<"user1", "user2", "user3">>
Passes == <<"pass1", "pass2", "pass3">>

\* Nothing; the file is not read; TLS or RPC is off; half a pair of credentials;
\* a pair that is refused; the version.
Starts ==
  {NoArgs, [SimNet |-> TRUE], [DisableTLS |-> TRUE], [RPCPass |-> "given"],
   [RPCPass |-> "12345678"], [RPCUser |-> "", RPCLimitUser |-> ""], [ShowVersion |-> TRUE]}

\* Sizes and weights around the defaults and the limits.
Sizes == [BlockMaxSize : {999, 1000, 749999, 750000, 999000, 999001},
          BlockMaxWeight : {3999, 4000, 3000000, 3996000, 3996001},
          BlockMinSize : {0, 800000}, BlockPrioritySize : {50000, 1000000},
          BlockMinWeight : {0, 3999, 4001, 3000001}]

Flags(names) == [names -> BOOLEAN]

Networks == Flags({"TestNet3", "RegressionTest", "SimNet", "SigNet", "DisableStallHandler"})

Proxies == [Proxy : {<<>>, <<"proxy">>, <<"proxy", "9050">>},
            OnionProxy : {<<>>, <<"tor">>, <<"tor", "9050">>},
            NoOnion : BOOLEAN, TorIsolation : BOOLEAN,
            ProxyUser : {"", "u"}, ProxyPass : {"", "p"}]

Logins == [RPCUser : {"", "a"}, RPCPass : {"", "p"}, RPCLimitUser : {"", "a", "b"},
           RPCLimitPass : {"", "p", "q"}, DisableTLS : BOOLEAN, TestNet3 : {TRUE},
           RPCListeners : {<<>>, <<<<"::1">>, <<"::1", "18334">>>>, <<<<"10.0.0.1">>>>,
                           <<<<"localhost">>, <<"localhost", "1">>, <<"localhost">>>>}]

Peers == [AddPeers : {<<>>, <<<<"p">>, <<"q">>, <<"p", "18555">>>>},
          ConnectPeers : {<<>>, <<<<"p">>, <<"p">>>>}, SimNet : {TRUE},
          Listeners : {<<>>, <<<<"">>, <<"", "18555">>>>}, Proxy : {<<>>, <<"proxy", "9050">>}]

Others ==
  {[DebugLevel |-> d] : d \in {<<<<"show">>>>, <<<<"debug">>>>, <<<<"loud">>>>,
     <<<<"RPCS", "trace">>, <<"PEER", "off">>>>, <<<<"RPCS", "warn">>, <<"info">>>>,
     <<<<"RPCS", "warn">>, <<"CHAN", "error">>>>, <<<<"NONE", "warn">>>>}}
  \cup {[Profile |-> <<p>>] : p \in {1023, 1024, 65535, 65536}}
  \cup {[AddCheckpoints |-> <<c>>] :
          c \in {<<"1">>, <<"1", "f">>, <<"1", "">>, <<"noint32", "f">>, <<"1", "nohash">>}}
  \cup Flags({"TxIndex", "DropTxIndex", "AddrIndex", "DropAddrIndex", "Generate"})
  \cup {[RelayNonStd |-> r, RejectNonStd |-> j, SigNet |-> s, SigNetChallenge |-> c] :
          r \in BOOLEAN, j \in BOOLEAN, s \in BOOLEAN, c \in {"", "51", "nothex"}}

AllOptions == Sizes \cup Networks \cup Proxies \cup Logins \cup Peers \cup Others

\* Answers of the proxy: right and wrong, the address not unlike a header.
SomeMethods == {<<5, 0>>, <<5, 255>>, <<4, 0>>}
SomeAnswers == {<<version, status, 0, type>> \o address \o <<1, 5>> :
                  version \in {4, 5}, status \in {0, 4}, type \in {1, 4},
                  address \in {<<5, 0, 0, 1>>, <<0, 1, 0, 0>>}}
===============================================================================
