-------------------------------- MODULE Daemon --------------------------------
(***************************************************************************)
(* The life of the process: main and acbcMain (acbc.go), interruptListener *)
(* (signal.go), what loadConfig does to the configuration file (config.go),*)
(* newServer with setupRPCListeners, Start and Stop (server.go), and       *)
(* genCertPair, Start and Stop of the RPC server (rpcserver.go).           *)
(*                                                                         *)
(* The process is started again and again; only its three files outlive    *)
(* it.  It can be killed between any two steps, and a file can be left     *)
(* behind cut short, by a kill or by an error while it is written.         *)
(*                                                                         *)
(* Every start has a command line of its own; what loadConfig makes of it  *)
(* and of the file is in Config.  Nothing sends on                         *)
(* shutdownRequestChannel in this commit.  The two goroutines of the       *)
(* notification manager are one here: NtfnManager shows that they end.     *)
(***************************************************************************)
EXTENDS Config, Tor

CONSTANTS
  Addrs,         \* cfg.RPCListeners, parsed: a sequence of addresses
  CommandLines,  \* what the starts may have as arguments
  Localhost,     \* what net.LookupHost("localhost") finds
  RandomUser,    \* per start: the user and the password that
  RandomPass,    \*   createDefaultConfigFile makes up
  Options,       \* options that loadConfig is tried with, apart from the starts
  MaxStarts      \* bound: starts of the process

ASSUME DaemonAssumption ==
  /\ Addrs \in Seq(STRING) /\ Addrs # <<>>
  /\ MaxStarts \in Nat \ {0}

ASSUME OptionsAssumption ==
  /\ Localhost \in Seq(STRING) /\ Localhost # <<>>
  /\ \A o \in Options : Typed(o)

\* A file of the pair: it does not exist, it is cut short, or the start that wrote it whole.
None == 0
Cut  == -1
File == {None, Cut} \cup 1 .. MaxStarts

VARIABLES
  conf,             \* the start that created the configuration file, or None
  lines,            \* how many of its options have been written
  cert, key,        \* cfg.RPCCert and cfg.RPCKey
  starts,           \* number of starts
  args,             \* the arguments of the process
  pc,               \* acbcMain
  at,               \* index of the loop over the addresses or listeners
  disableRPC,       \* cfg.DisableRPC
  credentials,      \* [user, pass, disableTLS] of cfg
  notify,           \* interruptListener's goroutine: none, starting, listening, closed
  signalled,        \* interruptChannel holds a signal
  interrupt,        \* the channel of interruptListener is closed
  listener,         \* per address: none, open or closed
  serve,            \* per address: the goroutine of httpServer.Serve
  manager,          \* the notification manager
  torn,             \* history: some file could not be written or removed as a whole
  accept,           \* history: no Serve of this process has failed
  result            \* history: how the last process ended

files    == <<conf, lines, cert, key>>
config   == <<args, disableRPC, credentials>>
signals  == <<notify, signalled, interrupt>>
services == <<listener, serve, manager>>
history  == <<torn, accept, result>>
vars     == <<files, starts, config, pc, at, signals, services, history>>

Each == DOMAIN Addrs

NoArgs == [n \in {} |-> 0]
NoConfig == [user |-> "", pass |-> "", disableTLS |-> FALSE]

\* A process that has nothing running.
Volatile(p, a) ==
  /\ pc' = p
  /\ at' = 1
  /\ args' = a
  /\ disableRPC' = FALSE
  /\ credentials' = NoConfig
  /\ notify' = "none"
  /\ signalled' = FALSE
  /\ interrupt' = FALSE

NoServices ==
  /\ listener' = [a \in Each |-> "none"]
  /\ serve' = [a \in Each |-> "none"]
  /\ manager' = "none"

Init ==
  /\ conf = None /\ lines = 0 /\ cert = None /\ key = None
  /\ starts = 0
  /\ args = NoArgs /\ disableRPC = FALSE /\ credentials = NoConfig
  /\ pc = "down" /\ at = 1
  /\ notify = "none" /\ signalled = FALSE /\ interrupt = FALSE
  /\ listener = [a \in Each |-> "none"]
  /\ serve = [a \in Each |-> "none"]
  /\ manager = "none"
  /\ torn = FALSE /\ accept = TRUE /\ result = "none"

\* The main goroutine goes on to p.
Goto(p) == pc' = p /\ at' = 1 /\ UNCHANGED <<starts, config, signals>>

\* The process ends: every goroutine with it, and every socket is closed by the
\* system.  What was left running is kept for the properties; tears says that it
\* leaves a file behind that it had begun to write or meant to remove.
End(r, tears) ==
  /\ Volatile("down", NoArgs)
  /\ result' = r
  /\ torn' = (torn \/ tears)
  /\ UNCHANGED <<starts, services, accept>>

\* main returns, or calls os.Exit(1).
Exit(r) == End(r, FALSE)

\* The process is killed, or a goroutine panics.
Killed ==
  End("killed", pc \in {"configWrite", "certWrite", "keyOpen", "keyWrite", "certRemove"})

-------------------------------------------------------------------------------
(* loadConfig.                                                             *)

main ==
  /\ pc = "down" /\ starts < MaxStarts
  /\ starts' = starts + 1
  /\ \E a \in CommandLines : Volatile("config", a)
  /\ NoServices
  /\ accept' = TRUE /\ result' = "none"
  /\ UNCHANGED <<files, torn>>

\* The help text or the version is shown, before the file is looked for.
ShowVersion ==
  /\ pc = "config"
  /\ Pre("Help", args) \/ Pre("ShowVersion", args)
  /\ Exit("shown")
  /\ UNCHANGED files

\* createDefaultConfigFile is called if the file is to be read and there is none.
Creates == ReadsFile(args) /\ ~Pre("Help", args) /\ ~Pre("ShowVersion", args)

\* Mutant: the file is parsed before it has been filled.
ConfigCreateEarly ==
  /\ pc = "config" /\ conf = None /\ Creates
  /\ conf' = starts /\ lines' = 0
  /\ Goto("configRead")
  /\ UNCHANGED <<cert, key, services, history>>

\* createDefaultConfigFile, up to the OpenFile that creates the file.
ConfigCreate ==
  /\ pc = "config" /\ conf = None /\ Creates
  /\ \/ conf' = starts /\ Goto("configWrite")
     \/ conf' = None /\ Goto("configRead")
  /\ lines' = 0
  /\ UNCHANGED <<cert, key, services, history>>

\* The options of sample-acbc.conf in their order, two of them replaced.  The
\* rest of it are comments.
FileLines == <<"RPCUser", "RPCPass", "RPCLimitUser", "RPCLimitPass">>

Sample(start) ==
  [RPCUser |-> RandomUser[start], RPCPass |-> RandomPass[start],
   RPCLimitUser |-> "jiajimeidoulimit", RPCLimitPass |-> "12345678"]

\* What the file says; it may not exist, or be cut behind any of its lines.
FileOptions == [n \in {FileLines[i] : i \in 1 .. lines} |-> Sample(conf)[n]]

\* The next line is written, or an error ends the copying.
ConfigWrite ==
  /\ pc = "configWrite"
  /\ \/ /\ lines < Len(FileLines)
        /\ lines' = lines + 1
        /\ torn' = torn
        /\ UNCHANGED <<starts, config, pc, at, signals>>
     \/ /\ lines' = lines
        /\ torn' = (torn \/ lines < Len(FileLines))
        /\ Goto("configRead")
  /\ UNCHANGED <<conf, cert, key, services, accept, result>>

Parses ==
  \/ pc = "configRead"
  \/ /\ pc = "config" /\ (conf # None \/ ~ReadsFile(args))
     /\ ~Pre("Help", args) /\ ~Pre("ShowVersion", args)

\* The file exists already, or has been dealt with: an error of creating it is
\* only printed.
ConfigRead ==
  /\ Parses
  /\ \E cfg \in LoadConfig(args, FileOptions, Localhost) :
       /\ disableRPC' = cfg.DisableRPC
       /\ credentials' = [user |-> cfg.RPCUser, pass |-> cfg.RPCPass, disableTLS |-> cfg.DisableTLS]
  /\ notify' = "starting"
  /\ pc' = "newServer" /\ at' = 1
  /\ UNCHANGED <<files, starts, args, signalled, interrupt, services, history>>

\* An option is refused or asks for the subsystems to be shown, or a directory,
\* the log or localhost is out of reach.
ConfigError ==
  /\ Parses
  /\ Exit("error")
  /\ UNCHANGED files

-------------------------------------------------------------------------------
(* interruptListener.                                                      *)

Notify ==
  /\ notify = "starting"
  /\ notify' = "listening"
  /\ UNCHANGED <<files, starts, config, pc, at, signalled, interrupt, services, history>>

\* os.Interrupt: it kills a process that has not called signal.Notify yet.
Signal ==
  /\ pc # "down"
  /\ IF notify \in {"listening", "closed"}
       THEN /\ signalled' = TRUE
            /\ UNCHANGED <<starts, config, pc, at, notify, interrupt, services, history>>
       ELSE Killed
  /\ UNCHANGED files

\* The first signal closes the channel, the others are only logged.
SignalReceived ==
  /\ notify \in {"listening", "closed"} /\ signalled
  /\ signalled' = FALSE
  /\ interrupt' = TRUE
  /\ notify' = "closed"
  /\ UNCHANGED <<files, starts, config, pc, at, services, history>>

-------------------------------------------------------------------------------
(* newServer and setupRPCListeners.                                        *)

\* Mutant: every start generates a pair.
CheckPairNever ==
  /\ pc = "newServer" /\ ~disableRPC
  /\ Goto("certOpen")
  /\ UNCHANGED <<files, services, history>>

CheckPair ==
  /\ pc = "newServer" /\ ~disableRPC
  /\ Goto(IF credentials.disableTLS THEN "parse"
          ELSE IF key = None /\ cert = None THEN "certOpen" ELSE "load")
  /\ UNCHANGED <<files, services, history>>

NewServerWithoutRPC ==
  /\ pc = "newServer" /\ disableRPC
  /\ Goto("start")
  /\ UNCHANGED <<files, services, history>>

\* genCertPair: NewTLSCertPair or the creation of the certificate file may fail.
CertOpen ==
  /\ pc = "certOpen"
  /\ \/ cert' = Cut /\ Goto("certWrite") /\ UNCHANGED <<services, history>>
     \/ cert' = cert /\ Exit("error")
  /\ UNCHANGED <<conf, lines, key>>

CertWrite ==
  /\ pc = "certWrite"
  /\ \/ cert' = starts /\ Goto("keyOpen") /\ UNCHANGED <<services, history>>
     \/ cert' = Cut /\ End("error", TRUE)
  /\ UNCHANGED <<conf, lines, key>>

KeyOpen ==
  /\ pc = "keyOpen"
  /\ \/ key' = Cut /\ Goto("keyWrite")
     \/ key' = key /\ Goto("certRemove")
  /\ UNCHANGED <<conf, lines, cert, services, history>>

KeyWrite ==
  /\ pc = "keyWrite"
  /\ \/ key' = starts /\ torn' = torn /\ Goto("load")
     \/ key' = Cut /\ torn' = TRUE /\ Goto("certRemove")
  /\ UNCHANGED <<conf, lines, cert, services, accept, result>>

\* Mutant: the certificate stays behind.
CertRemoveNever ==
  /\ pc = "certRemove"
  /\ Exit("error")
  /\ UNCHANGED files

\* os.Remove(certFile), whose error is ignored.
CertRemove ==
  /\ pc = "certRemove"
  /\ \/ cert' = None /\ End("error", FALSE)
     \/ cert' = cert /\ End("error", TRUE)
  /\ UNCHANGED <<conf, lines, key>>

\* tls.LoadX509KeyPair.
LoadKeyPair ==
  /\ pc = "load"
  /\ IF cert >= 1 /\ cert = key
       THEN Goto("parse") /\ UNCHANGED <<services, history>>
       ELSE Exit("error")
  /\ UNCHANGED files

\* parseListeners: something else than an IP address is an error.
ParseListeners ==
  /\ pc = "parse"
  /\ \/ Goto("listen") /\ UNCHANGED <<services, history>>
     \/ Exit("error")
  /\ UNCHANGED files

\* An address on which the process cannot listen is skipped.
Listen ==
  /\ pc = "listen" /\ at <= Len(Addrs)
  /\ \E r \in {"open", "none"} : listener' = [listener EXCEPT ![at] = r]
  /\ at' = at + 1
  /\ UNCHANGED <<files, starts, config, pc, signals, serve, manager, history>>

ListenEnd ==
  /\ pc = "listen" /\ at > Len(Addrs)
  /\ IF \E a \in Each : listener[a] = "open"
       THEN Goto("start") /\ UNCHANGED <<services, history>>
       ELSE Exit("error")
  /\ UNCHANGED files

-------------------------------------------------------------------------------
(* Start, and the goroutines it starts.                                    *)

StartServe ==
  /\ pc = "start" /\ ~disableRPC /\ at <= Len(Addrs)
  /\ serve' = [serve EXCEPT ![at] = IF listener[at] = "open" THEN "serving" ELSE "none"]
  /\ at' = at + 1
  /\ UNCHANGED <<files, starts, config, pc, signals, listener, manager, history>>

StartEnd ==
  /\ pc = "start" /\ (disableRPC \/ at > Len(Addrs))
  /\ manager' = IF disableRPC THEN "none" ELSE "running"
  /\ Goto("wait")
  /\ UNCHANGED <<files, listener, serve, history>>

\* Serve returns when its listener is closed.
ServeReturn(a) ==
  /\ pc # "down"
  /\ serve[a] = "serving" /\ listener[a] = "closed"
  /\ serve' = [serve EXCEPT ![a] = "returned"]
  /\ UNCHANGED <<files, starts, config, pc, at, signals, listener, manager, history>>

\* Accept fails for good: Serve closes the listener itself.
ServeFail(a) ==
  /\ pc # "down"
  /\ serve[a] = "serving" /\ listener[a] = "open"
  /\ listener' = [listener EXCEPT ![a] = "closed"]
  /\ serve' = [serve EXCEPT ![a] = "returned"]
  /\ accept' = FALSE
  /\ UNCHANGED <<files, starts, config, pc, at, signals, manager, torn, result>>

ManagerStopped ==
  /\ pc # "down" /\ manager = "quit"
  /\ manager' = "stopped"
  /\ UNCHANGED <<files, starts, config, pc, at, signals, listener, serve, history>>

-------------------------------------------------------------------------------
(* The deferred Stop.                                                      *)

Interrupted ==
  /\ pc = "wait" /\ interrupt
  /\ Goto(IF disableRPC THEN "closeQuit" ELSE "stop")
  /\ UNCHANGED <<files, services, history>>

\* rpcServer.Stop closes the listeners; it returns at the first that was closed.
CloseListener ==
  /\ pc = "stop" /\ at <= Len(Addrs)
  /\ IF listener[at] = "closed"
       THEN Goto("closeQuit") /\ UNCHANGED services
       ELSE /\ listener' = [listener EXCEPT ![at] = IF @ = "open" THEN "closed" ELSE @]
            /\ at' = at + 1
            /\ UNCHANGED <<starts, config, pc, signals, serve, manager>>
  /\ UNCHANGED <<files, history>>

\* Mutant: the manager is not told.
ShutdownManagerForgotten ==
  /\ pc = "stop" /\ at > Len(Addrs)
  /\ Goto("waitManager")
  /\ UNCHANGED <<files, services, history>>

ShutdownManager ==
  /\ pc = "stop" /\ at > Len(Addrs)
  /\ manager' = "quit"
  /\ Goto("waitManager")
  /\ UNCHANGED <<files, listener, serve, history>>

WaitManager ==
  /\ pc = "waitManager" /\ manager = "stopped"
  /\ Goto("waitServe")
  /\ UNCHANGED <<files, services, history>>

\* Mutant: nobody waits for the goroutines.
WaitServeNever ==
  /\ pc = "waitServe"
  /\ Goto("closeQuit")
  /\ UNCHANGED <<files, services, history>>

\* close(s.quit) and s.wg.Wait.
WaitServe ==
  /\ pc = "waitServe" /\ \A a \in Each : serve[a] # "serving"
  /\ Goto("closeQuit")
  /\ UNCHANGED <<files, services, history>>

\* close(s.quit) of the server; acbcMain returns.
CloseQuit ==
  /\ pc = "closeQuit"
  /\ Exit("ok")
  /\ UNCHANGED files

Kill ==
  /\ pc # "down"
  /\ Killed
  /\ UNCHANGED files

-------------------------------------------------------------------------------
AcbcMain ==
  \/ ShowVersion \/ ConfigCreate \/ ConfigWrite \/ ConfigRead \/ ConfigError
  \/ CheckPair \/ NewServerWithoutRPC
  \/ CertOpen \/ CertWrite \/ KeyOpen \/ KeyWrite \/ CertRemove \/ LoadKeyPair
  \/ ParseListeners
  \/ Listen \/ ListenEnd \/ StartServe \/ StartEnd
  \/ Interrupted \/ CloseListener \/ ShutdownManager \/ WaitManager \/ WaitServe
  \/ CloseQuit

Next ==
  \/ main
  \/ AcbcMain
  \/ Notify \/ Signal \/ SignalReceived
  \/ \E a \in Each : ServeReturn(a) \/ ServeFail(a)
  \/ ManagerStopped
  \/ Kill

Spec == Init /\ [][Next]_vars

\* Every goroutine is scheduled; starts, signals, failures and kills need not
\* happen.
Fairness ==
  /\ WF_vars(AcbcMain)
  /\ WF_vars(Notify)
  /\ WF_vars(SignalReceived)
  /\ \A a \in Each : WF_vars(ServeReturn(a))
  /\ WF_vars(ManagerStopped)

FairSpec == Spec /\ Fairness

-------------------------------------------------------------------------------
(* Properties.                                                             *)

PCs == {"down", "config", "configWrite", "configRead", "newServer", "certOpen", "certWrite",
        "keyOpen", "keyWrite", "certRemove", "load", "parse", "listen", "start", "wait", "stop",
        "waitManager", "waitServe", "closeQuit"}

FlagsOK ==
  /\ disableRPC \in BOOLEAN
  /\ signalled \in BOOLEAN /\ interrupt \in BOOLEAN
  /\ torn \in BOOLEAN /\ accept \in BOOLEAN

StateOK ==
  /\ conf \in 0 .. MaxStarts /\ lines \in 0 .. Len(FileLines)
  /\ cert \in File /\ key \in File
  /\ starts \in 0 .. MaxStarts
  /\ pc \in PCs
  /\ at \in 1 .. Len(Addrs) + 1
  /\ notify \in {"none", "starting", "listening", "closed"}
  /\ listener \in [Each -> {"none", "open", "closed"}]
  /\ serve \in [Each -> {"none", "serving", "returned"}]
  /\ manager \in {"none", "running", "quit", "stopped"}
  /\ result \in {"none", "ok", "shown", "error", "killed"}

TypeOK == FlagsOK /\ StateOK

\* genCertPair and its error path: a key never lies beside the certificate of
\* another start, or beside none, and unless some write was torn a process leaves
\* both files or neither, so that the next one can generate what is missing.
PairFiles ==
  /\ key >= 1 => cert = key
  /\ ~torn /\ pc \notin {"certWrite", "keyOpen", "keyWrite", "certRemove"} => cert = key

\* setupRPCListeners generates a pair only if there is none: no start, however
\* the ones before it ended, replaces a certificate that clients have accepted.
PairKept == [][key >= 1 /\ cert = key => UNCHANGED <<cert, key>>]_vars

Loaded(o) == LoadConfig(o, NoArgs, Localhost)

\* loadConfig, for every combination of options that it accepts: the limits of a
\* block are in order; addresses, peers, listeners and credentials are, see
\* Consistent; two networks never share a directory, see Apart; and an option
\* works in the file as on the command line.  What depends on no state is
\* evaluated in the first one.
ConfigConsistent ==
  starts = 0 =>
    /\ \A o \in Options : \A r \in Loaded(o) :
         BlockLimitsOrdered(Parsed(o, NoArgs)) /\ Consistent(Parsed(o, NoArgs), r)
    /\ LET used == UNION {UNION {Directories(Parsed(o, NoArgs), r) : r \in Loaded(o)} : o \in Options}
       IN  \A a, b \in used : Apart(a, b)
    /\ \A o \in Options :
         "ShowVersion" \notin DOMAIN o => LoadConfig(NoArgs, o, Localhost) = Loaded(o)

\* acbcDial and acbcLookup, for every combination of options that loadConfig
\* accepts: acbcLookup resolves no hidden service, and acbcDial uses a proxy if
\* one is configured; without one it is dialed directly, see Routed.
TorRouting == starts = 0 => \A o \in Options : \A r \in Loaded(o) : Routed(r)

\* TorLookupIP, however the proxy's answer is cut into segments: see TorExact.
TorAnswer == starts = 0 => TorExact

\* createDefaultConfigFile and loadConfig: unless a write was torn, a process
\* that reads the configuration file runs with the user and the password that
\* the start which created it made up, whether it is that start or a later one,
\* and never with half of the pair and the built-in other half.  Only the
\* command line comes before the file.
CredentialsFromFile ==
  pc \notin {"down", "config", "configWrite", "configRead"} /\ ~torn
    /\ ReadsFile(args) /\ conf # None =>
      /\ "RPCUser" \notin DOMAIN args => credentials.user = RandomUser[conf]
      /\ "RPCPass" \notin DOMAIN args => credentials.pass = RandomPass[conf]

\* server.Stop and rpcServer.Stop: when acbcMain returns after an interrupt, no
\* listener is open, no Serve is running and the notification manager has
\* stopped, unless some Serve had failed before (Stop then gives up early).
CleanExit ==
  result = "ok" /\ accept =>
    /\ \A a \in Each : listener[a] # "open" /\ serve[a] # "serving"
    /\ manager \in {"none", "stopped"}

\* interruptListener and acbcMain: an interrupt that was noticed ends the
\* process, whenever it comes and whether or not all listeners still work.
InterruptEnds == interrupt ~> pc = "down"
===============================================================================
