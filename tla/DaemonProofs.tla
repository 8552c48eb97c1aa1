----------------------------- MODULE DaemonProofs -----------------------------
(***************************************************************************)
(* Proofs about Daemon, for every sequence of addresses and every number   *)
(* of starts: the files that genCertPair leaves, the credentials a start   *)
(* runs with, what loadConfig returns for whatever options and TorLookupIP *)
(* for whatever answer, and the end of acbcMain.                           *)
(***************************************************************************)
EXTENDS Daemon, FiniteSetTheorems, WellFoundedInduction, TLAPS

-------------------------------------------------------------------------------
(* loadConfig.                                                             *)

\* The parts of loadConfig keep the options and change no credentials.
LEMMA NetworkFields ==
  ASSUME NEW r, NEW c
  PROVE  /\ DOMAIN Network(r, c) = DOMAIN r
         /\ \A n \in {"DisableRPC", "RPCUser", "RPCPass"} \cap DOMAIN r : Network(r, c)[n] = r[n]
BY DEF Network

LEMMA ListeningFields ==
  ASSUME NEW r, NEW c
  PROVE  /\ DOMAIN Listening(r, c) = DOMAIN r
         /\ \A n \in {"DisableRPC", "RPCUser", "RPCPass"} \cap DOMAIN r : Listening(r, c)[n] = r[n]
BY DEF Listening

LEMMA RPCListeningFields ==
  ASSUME NEW r, NEW c, NEW hosts
  PROVE  /\ DOMAIN RPCListening(r, c, hosts) = DOMAIN r
         /\ "DisableRPC" \in DOMAIN r => RPCListening(r, c, hosts)["DisableRPC"] = NoRPC(c)
         /\ \A n \in {"RPCUser", "RPCPass"} \cap DOMAIN r : RPCListening(r, c, hosts)[n] = r[n]
BY DEF RPCListening

LEMMA BlockLimitsFields ==
  ASSUME NEW r, NEW c
  PROVE  /\ DOMAIN BlockLimits(r, c) = DOMAIN r
         /\ \A n \in {"DisableRPC", "RPCUser", "RPCPass"} \cap DOMAIN r : BlockLimits(r, c)[n] = r[n]
BY DEF BlockLimits

LEMMA NormalizedFields ==
  ASSUME NEW r, NEW c
  PROVE  \A n \in {"DisableRPC", "RPCUser", "RPCPass"} \cap DOMAIN r : Normalized(r, c)[n] = r[n]
BY DEF Normalized

LEMMA ParsedFields ==
  ASSUME NEW a, NEW file
  PROVE  /\ {"DisableRPC", "RPCUser", "RPCPass"} \subseteq DOMAIN Parsed(a, file)
         /\ Parsed(a, file)["RPCUser"] = Option("RPCUser", a, file)
         /\ Parsed(a, file)["RPCPass"] = Option("RPCPass", a, file)
BY DEF Parsed, Default

\* The fields of a configuration that the RPC server depends on.
LEMMA LoadedFields ==
  ASSUME NEW a, NEW file, NEW c \in LoadConfig(a, file, Localhost)
  PROVE  /\ c.DisableRPC \in BOOLEAN
         /\ c.RPCUser = Option("RPCUser", a, file)
         /\ c.RPCPass = Option("RPCPass", a, file)
<1> DEFINE p == Parsed(a, file)
<1> DEFINE n == Network(p, p)
<1> DEFINE l == Listening(n, p)
<1> DEFINE r == RPCListening(l, p, Localhost)
<1> DEFINE b == BlockLimits(r, p)
<1>1. c = Normalized(b, p)
  BY DEF LoadConfig, Adjusted
<1> HIDE DEF p, n, l, r, b
<1>2. {"DisableRPC", "RPCUser", "RPCPass"} \subseteq DOMAIN p
  BY ParsedFields DEF p
<1>3. DOMAIN n = DOMAIN p /\ n["RPCUser"] = p["RPCUser"] /\ n["RPCPass"] = p["RPCPass"]
  BY <1>2, NetworkFields DEF n
<1>4. DOMAIN l = DOMAIN p /\ l["RPCUser"] = p["RPCUser"] /\ l["RPCPass"] = p["RPCPass"]
  BY <1>2, <1>3, ListeningFields DEF l
<1>5. /\ DOMAIN r = DOMAIN p /\ r["RPCUser"] = p["RPCUser"] /\ r["RPCPass"] = p["RPCPass"]
      /\ r["DisableRPC"] = NoRPC(p)
  BY <1>2, <1>4, RPCListeningFields DEF r
<1>6. /\ DOMAIN b = DOMAIN p /\ b["RPCUser"] = p["RPCUser"] /\ b["RPCPass"] = p["RPCPass"]
      /\ b["DisableRPC"] = NoRPC(p)
  BY <1>2, <1>5, BlockLimitsFields DEF b
<1>7. c["RPCUser"] = p["RPCUser"] /\ c["RPCPass"] = p["RPCPass"] /\ c["DisableRPC"] = NoRPC(p)
  BY <1>1, <1>2, <1>6, NormalizedFields
<1>8. NoRPC(p) \in BOOLEAN
  BY DEF NoRPC
<1> QED
  BY <1>7, <1>8, ParsedFields DEF p

\* What a step that has loaded its configuration does besides.
LEMMA ConfigReadStep ==
  ConfigRead =>
    /\ Parses
    /\ pc' = "newServer" /\ at' = 1 /\ notify' = "starting"
    /\ UNCHANGED <<files, starts, args, signalled, interrupt, services, history>>
BY Zenon DEF ConfigRead

-------------------------------------------------------------------------------
(* Types.                                                                  *)

\* The addresses are numbered from 1.
LEMMA Addresses == Len(Addrs) \in Nat /\ Each = 1 .. Len(Addrs)
BY DaemonAssumption DEF Each

\* Before the first start the variables have their types.
LEMMA TypeInit == Init => TypeOK
<1> SUFFICES ASSUME Init PROVE FlagsOK /\ StateOK
  BY DEF TypeOK
<1>1. FlagsOK
  BY Zenon DEF Init, FlagsOK
<1>2. StateOK
  BY Addresses, DaemonAssumption DEF Init, StateOK, File, None, Cut, PCs, FileLines
<1> QED
  BY <1>1, <1>2

\* Every step keeps the types of the flags.
LEMMA FlagsStep == FlagsOK /\ [Next]_vars => FlagsOK'
<1> SUFFICES ASSUME FlagsOK, [Next]_vars PROVE FlagsOK'
  OBVIOUS
<1> USE DEF FlagsOK, history, signals, config
<1>1. CASE main
  BY <1>1, Zenon DEF main, Volatile
<1>2. CASE ShowVersion \/ ConfigCreate \/ ConfigWrite
  BY <1>2, Zenon DEF ShowVersion, ConfigCreate, ConfigWrite, Exit, End, Volatile, Goto
<1>3. CASE ConfigRead
  <2>1. disableRPC' \in BOOLEAN
    BY <1>3, LoadedFields DEF ConfigRead
  <2> QED
    BY <1>3, <2>1, Zenon DEF ConfigRead
<1>4. CASE ConfigError \/ CheckPair \/ NewServerWithoutRPC
  BY <1>4, Zenon DEF ConfigError, CheckPair, NewServerWithoutRPC, Exit, End, Volatile, Goto
<1>5. CASE CertOpen \/ CertWrite
  BY <1>5, Zenon DEF CertOpen, CertWrite, Exit, End, Volatile, Goto
<1>6. CASE KeyOpen \/ KeyWrite \/ CertRemove
  BY <1>6, Zenon DEF KeyOpen, KeyWrite, CertRemove, End, Volatile, Goto
<1>7. CASE LoadKeyPair \/ ParseListeners
  BY <1>7, Zenon DEF LoadKeyPair, ParseListeners, Exit, End, Volatile, Goto
<1>8. CASE Listen \/ ListenEnd
  BY <1>8, Zenon DEF Listen, ListenEnd, Exit, End, Volatile, Goto
<1>9. CASE StartServe \/ StartEnd
  BY <1>9, Zenon DEF StartServe, StartEnd, Goto
<1>10. CASE Interrupted \/ CloseListener \/ ShutdownManager
  BY <1>10, Zenon DEF Interrupted, CloseListener, ShutdownManager, Goto
<1>11. CASE WaitManager \/ WaitServe \/ CloseQuit
  BY <1>11, Zenon DEF WaitManager, WaitServe, CloseQuit, Exit, End, Volatile, Goto
<1>12. CASE Notify \/ SignalReceived \/ ManagerStopped
  BY <1>12, Zenon DEF Notify, SignalReceived, ManagerStopped
<1>13. CASE Signal \/ Kill
  BY <1>13, Zenon DEF Signal, Kill, Killed, End, Volatile
<1>14. CASE \E a \in Each : ServeReturn(a) \/ ServeFail(a)
  BY <1>14, Zenon DEF ServeReturn, ServeFail
<1>15. CASE UNCHANGED vars
  BY <1>15, Zenon DEF vars
<1> QED
  BY <1>1, <1>2, <1>3, <1>4, <1>5, <1>6, <1>7, <1>8, <1>9, <1>10, <1>11, <1>12, <1>13, <1>14, <1>15
     DEF Next, AcbcMain

\* A process that runs has been started.
Started == pc # "down" => starts >= 1

\* Every step keeps the other types.
LEMMA StateStep == TypeOK /\ Started /\ [Next]_vars => StateOK' /\ Started'
<1> SUFFICES ASSUME FlagsOK, StateOK, Started, [Next]_vars PROVE StateOK' /\ Started'
  BY DEF TypeOK
<1> USE Addresses, DaemonAssumption
<1> USE DEF StateOK, Started, File, None, Cut, PCs, FileLines, files, signals, services, history
<1>1. CASE main
  BY <1>1 DEF main, Volatile, NoServices
<1>2. CASE ShowVersion \/ ConfigCreate
  BY <1>2 DEF ShowVersion, ConfigCreate, Exit, End, Volatile, Goto
<1>19. CASE ConfigWrite
  <2>1. Len(FileLines) = 4
    OBVIOUS
  <2>2. lines' \in 0 .. 4
    BY <1>19, <2>1 DEF ConfigWrite
  <2>3. UNCHANGED <<starts, signals>> /\ at' \in {at, 1} /\ pc' \in {pc, "configRead"}
    BY <1>19 DEF ConfigWrite, Goto
  <2> QED
    BY <1>19, <2>2, <2>3 DEF ConfigWrite
<1>3. CASE ConfigRead
  BY <1>3, ConfigReadStep DEF Parses
<1>4. CASE ConfigError \/ CheckPair \/ NewServerWithoutRPC
  BY <1>4 DEF ConfigError, CheckPair, NewServerWithoutRPC, Exit, End, Volatile, Goto
<1>5. CASE CertOpen \/ CertWrite
  BY <1>5 DEF CertOpen, CertWrite, Exit, End, Volatile, Goto
<1>6. CASE KeyOpen \/ KeyWrite \/ CertRemove
  BY <1>6 DEF KeyOpen, KeyWrite, CertRemove, End, Volatile, Goto
<1>7. CASE LoadKeyPair \/ ParseListeners
  BY <1>7 DEF LoadKeyPair, ParseListeners, Exit, End, Volatile, Goto
<1>8. CASE Listen
  BY <1>8 DEF Listen
<1>17. CASE ListenEnd
  BY <1>17 DEF ListenEnd, Exit, End, Volatile, Goto
<1>9. CASE StartServe
  BY <1>9 DEF StartServe
<1>18. CASE StartEnd
  BY <1>18 DEF StartEnd, Goto
<1>10. CASE Interrupted \/ ShutdownManager
  BY <1>10 DEF Interrupted, ShutdownManager, Goto
<1>16. CASE CloseListener
  <2>1. CASE listener[at] = "closed"
    BY <1>16, <2>1 DEF CloseListener, Goto
  <2>2. CASE listener[at] # "closed"
    BY <1>16, <2>2 DEF CloseListener
  <2> QED
    BY <2>1, <2>2
<1>11. CASE WaitManager \/ WaitServe \/ CloseQuit
  BY <1>11 DEF WaitManager, WaitServe, CloseQuit, Exit, End, Volatile, Goto
<1>12. CASE Notify \/ SignalReceived \/ ManagerStopped
  BY <1>12 DEF Notify, SignalReceived, ManagerStopped
<1>13. CASE Signal \/ Kill
  BY <1>13 DEF Signal, Kill, Killed, End, Volatile
<1>14. CASE \E a \in Each : ServeReturn(a) \/ ServeFail(a)
  <2> PICK a \in Each : ServeReturn(a) \/ ServeFail(a)
    BY <1>14
  <2>1. CASE ServeReturn(a)
    BY <2>1 DEF ServeReturn
  <2>2. CASE ServeFail(a)
    BY <2>2 DEF ServeFail
  <2> QED
    BY <2>1, <2>2
<1>15. CASE UNCHANGED vars
  BY <1>15 DEF vars
<1> QED
  BY <1>1, <1>2, <1>3, <1>4, <1>5, <1>6, <1>7, <1>8, <1>9, <1>10, <1>11, <1>12, <1>13, <1>14, <1>15, <1>16,
     <1>17, <1>18, <1>19
     DEF Next, AcbcMain

\* Every step of every start keeps the types.
LEMMA TypeStep == TypeOK /\ Started /\ [Next]_vars => TypeOK' /\ Started'
BY FlagsStep, StateStep DEF TypeOK

-------------------------------------------------------------------------------
(* The pair of files.                                                      *)

(***************************************************************************)
(* What the files hold at every step of genCertPair.  PairFiles alone says *)
(* nothing of the moments in between, at which the next write decides.     *)
(***************************************************************************)
Generating ==
  /\ pc = "certOpen"   => cert = None /\ key = None
  /\ pc = "certWrite"  => cert = Cut /\ key = None
  /\ pc = "keyOpen"    => cert = starts /\ key = None
  /\ pc = "keyWrite"   => cert = starts /\ key = Cut
  /\ pc = "certRemove" => /\ cert = starts
                          /\ key = None \/ (key = Cut /\ torn)

\* A process that ends forgets no torn file.
LEMMA EndTorn ==
  ASSUME FlagsOK, NEW r, NEW tears \in BOOLEAN, End(r, tears)
  PROVE  (torn => torn') /\ (tears => torn') /\ (torn' => torn \/ tears)
BY Zenon DEF FlagsOK, End

PairInv == TypeOK /\ Started /\ Generating /\ PairFiles

\* Every step keeps PairInv.
LEMMA PairStep == PairInv /\ [Next]_vars => PairInv'
<1> SUFFICES ASSUME PairInv, [Next]_vars PROVE Generating' /\ PairFiles'
  BY TypeStep DEF PairInv
<1> USE DEF PairInv, Generating, PairFiles, TypeOK, Started, File, None, Cut, files
<1> USE DaemonAssumption
<1>1. CASE main
  BY <1>1 DEF main, Volatile
<1>17. CASE ShowVersion \/ ConfigError
  <2>1. pc' = "down" /\ UNCHANGED files
    BY <1>17 DEF ShowVersion, ConfigError, Exit, End, Volatile
  <2>2. torn => torn'
    BY <1>17, EndTorn DEF ShowVersion, ConfigError, Exit
  <2>3. pc \in {"config", "configRead"}
    BY <1>17 DEF ShowVersion, ConfigError, Parses
  <2> QED
    BY <2>1, <2>2, <2>3
<1>18. CASE ConfigCreate
  BY <1>18 DEF ConfigCreate, Goto, history
<1>15. CASE ConfigWrite
  BY <1>15 DEF ConfigWrite, Goto
<1>16. CASE ConfigRead
  BY <1>16, ConfigReadStep DEF Parses, history
<1>2. CASE CheckPair \/ NewServerWithoutRPC
  BY <1>2 DEF CheckPair, NewServerWithoutRPC, Goto, history
<1>3. CASE CertOpen
  <2>1. CASE cert' = Cut /\ Goto("certWrite") /\ UNCHANGED <<services, history>>
    BY <1>3, <2>1 DEF CertOpen, Goto, history
  <2>2. CASE cert' = cert /\ Exit("error")
    <3>1. pc' = "down" /\ key' = key
      BY <1>3, <2>2 DEF CertOpen, Exit, End, Volatile
    <3> QED
      BY <1>3, <2>2, <3>1 DEF CertOpen
  <2> QED
    BY <1>3, <2>1, <2>2 DEF CertOpen
<1>14. CASE CertWrite
  <2>1. CASE cert' = starts /\ Goto("keyOpen") /\ UNCHANGED <<services, history>>
    BY <1>14, <2>1 DEF CertWrite, Goto, history
  <2>2. CASE cert' = Cut /\ End("error", TRUE)
    <3>1. pc' = "down" /\ key' = key
      BY <1>14, <2>2 DEF CertWrite, End, Volatile
    <3>2. torn'
      BY <2>2, EndTorn
    <3> QED
      BY <1>14, <2>2, <3>1, <3>2 DEF CertWrite
  <2> QED
    BY <1>14, <2>1, <2>2 DEF CertWrite
<1>4. CASE KeyOpen \/ KeyWrite
  BY <1>4 DEF KeyOpen, KeyWrite, Goto, history
<1>13. CASE CertRemove
  <2>1. CASE cert' = None /\ End("error", FALSE)
    <3>1. pc' = "down" /\ key' = key
      BY <1>13, <2>1 DEF CertRemove, End, Volatile
    <3>2. torn => torn'
      BY <2>1, EndTorn
    <3> QED
      BY <1>13, <2>1, <3>1, <3>2 DEF CertRemove
  <2>2. CASE cert' = cert /\ End("error", TRUE)
    BY <1>13, <2>2 DEF CertRemove, End, Volatile
  <2> QED
    BY <1>13, <2>1, <2>2 DEF CertRemove
<1>5. CASE LoadKeyPair \/ ParseListeners \/ ListenEnd
  BY <1>5 DEF LoadKeyPair, ParseListeners, ListenEnd, Exit, End, Volatile, Goto, history
<1>6. CASE Listen \/ StartServe \/ StartEnd
  BY <1>6 DEF Listen, StartServe, StartEnd, Goto, history
<1>7. CASE Interrupted \/ CloseListener \/ ShutdownManager
  BY <1>7 DEF Interrupted, CloseListener, ShutdownManager, Goto, history
<1>8. CASE WaitManager \/ WaitServe \/ CloseQuit
  BY <1>8 DEF WaitManager, WaitServe, CloseQuit, Exit, End, Volatile, Goto, history
<1>9. CASE Notify \/ SignalReceived \/ ManagerStopped
  BY <1>9 DEF Notify, SignalReceived, ManagerStopped, history
<1>10. CASE Signal \/ Kill
  BY <1>10 DEF Signal, Kill, Killed, End, Volatile, history
<1>11. CASE \E a \in Each : ServeReturn(a) \/ ServeFail(a)
  BY <1>11 DEF ServeReturn, ServeFail, history
<1>12. CASE UNCHANGED vars
  BY <1>12 DEF vars, history
<1> QED
  BY <1>1, <1>2, <1>3, <1>4, <1>5, <1>6, <1>7, <1>8, <1>9, <1>10, <1>11, <1>12, <1>13, <1>14,
     <1>15, <1>16, <1>17, <1>18
     DEF Next, AcbcMain

\* The first start finds no files.
LEMMA PairInit == Init => PairInv
BY TypeInit DEF Init, PairInv, Generating, PairFiles, Started

(***************************************************************************)
(* genCertPair: however many starts there were and wherever they were      *)
(* killed, a key lies beside its own certificate, and without a torn write *)
(* there are both files or neither.                                        *)
(***************************************************************************)
THEOREM PairFilesCorrect == Spec => []PairFiles
<1>1. PairInv => PairFiles
  BY DEF PairInv
<1> QED
  BY PairInit, PairStep, <1>1, PTL DEF Spec

(***************************************************************************)
(* setupRPCListeners: no step of any start replaces or removes a complete  *)
(* pair.                                                                   *)
(***************************************************************************)
THEOREM PairKeptCorrect == Spec => PairKept
<1>1. PairInv /\ [Next]_vars
        => [key >= 1 /\ cert = key => UNCHANGED <<cert, key>>]_vars
  <2> SUFFICES ASSUME PairInv, Next, key >= 1, cert = key
               PROVE  UNCHANGED <<cert, key>>
    OBVIOUS
  <2>1. pc \notin {"certOpen", "certWrite", "keyOpen", "keyWrite", "certRemove"}
    BY DEF PairInv, Generating, None, Cut
  <2> QED
    BY <2>1 DEF Next, AcbcMain, files, main, ShowVersion, ConfigCreate, ConfigWrite, ConfigRead,
       ConfigError, CheckPair, NewServerWithoutRPC, CertOpen, CertWrite, KeyOpen, KeyWrite,
       CertRemove, LoadKeyPair, ParseListeners, Listen, ListenEnd, StartServe, StartEnd,
       Interrupted, CloseListener, ShutdownManager, WaitManager, WaitServe, CloseQuit,
       Notify, Signal, SignalReceived, ServeReturn, ServeFail, ManagerStopped, Kill
<1> QED
  BY PairInit, PairStep, <1>1, PTL DEF Spec, PairKept

-------------------------------------------------------------------------------
(* The configuration file.                                                 *)

Configuring == {"down", "config", "configWrite", "configRead"}

\* A step that leaves the file and the configuration of the process alone.
Steady == /\ UNCHANGED <<conf, lines, args, credentials>>
          /\ torn => torn'
          /\ pc' = pc \/ (pc \notin Configuring /\ pc' \notin Configuring)

\* A step that ends the process.
Ended == /\ UNCHANGED <<conf, lines>>
         /\ torn => torn'
         /\ pc' = "down"
         /\ pc = "configWrite" => torn'

\* Killed or not, a process that ends while it writes the file leaves it torn.
LEMMA KilledEnds == FlagsOK /\ Killed /\ UNCHANGED files => Ended
<1> SUFFICES ASSUME FlagsOK, Killed, UNCHANGED files PROVE Ended
  OBVIOUS
<1> DEFINE tears == pc \in {"configWrite", "certWrite", "keyOpen", "keyWrite", "certRemove"}
<1>1. End("killed", tears) /\ tears \in BOOLEAN
  BY DEF Killed
<1>2. pc = "configWrite" => tears
  OBVIOUS
<1> HIDE DEF tears
<1>3. (torn => torn') /\ (tears => torn')
  BY <1>1, EndTorn
<1>4. pc' = "down"
  BY <1>1 DEF End, Volatile
<1> QED
  BY <1>2, <1>3, <1>4 DEF Ended, files

\* No step but those of loadConfig touches the file or the configuration.
LEMMA OtherSteps ==
  ASSUME FlagsOK, Next, ~main, ~ConfigCreate, ~ConfigWrite, ~ConfigRead
  PROVE  Steady \/ Ended
<1> USE DEF files, config, history
<1>1. CASE ShowVersion \/ ConfigError \/ CloseQuit
  <2>1. Exit("shown") \/ Exit("error") \/ Exit("ok")
    BY <1>1 DEF ShowVersion, ConfigError, CloseQuit
  <2>2. pc # "configWrite" /\ UNCHANGED files
    BY <1>1 DEF ShowVersion, ConfigError, CloseQuit, Parses
  <2>3. (torn => torn') /\ pc' = "down"
    BY <2>1, EndTorn DEF Exit, End, Volatile
  <2> QED
    BY <2>2, <2>3 DEF Ended
<1>2. CASE CheckPair \/ NewServerWithoutRPC \/ StartEnd \/ Interrupted \/ ShutdownManager
             \/ WaitManager \/ WaitServe
  BY <1>2 DEF CheckPair, NewServerWithoutRPC, StartEnd, Interrupted, ShutdownManager, WaitManager,
              WaitServe, Goto, Steady, Configuring
<1>3. CASE CertOpen \/ CertWrite \/ CertRemove
  <2>1. pc # "configWrite" /\ UNCHANGED <<conf, lines>>
    BY <1>3 DEF CertOpen, CertWrite, CertRemove
  <2>2. CASE Goto("certWrite") \/ Goto("keyOpen")
    BY <1>3, <2>1, <2>2 DEF CertOpen, CertWrite, CertRemove, Goto, Steady, Configuring, End, Exit,
                            Volatile
  <2>3. CASE Exit("error") \/ End("error", TRUE)
    <3>1. (torn => torn') /\ pc' = "down"
      BY <2>3, EndTorn DEF Exit, End, Volatile
    <3> QED
      BY <2>1, <3>1 DEF Ended
  <2> QED
    BY <1>3, <2>2, <2>3 DEF CertOpen, CertWrite, CertRemove, Exit
<1>4. CASE KeyOpen
  BY <1>4 DEF KeyOpen, Goto, Steady, Configuring
<1>5. CASE KeyWrite
  <2>1. torn' = torn \/ torn' = TRUE
    BY <1>5 DEF KeyWrite
  <2>2. torn => torn'
    BY <2>1
  <2> QED
    BY <1>5, <2>2 DEF KeyWrite, Goto, Steady, Configuring
<1>6. CASE LoadKeyPair \/ ParseListeners \/ ListenEnd
  <2>1. pc \notin Configuring /\ UNCHANGED files
    BY <1>6 DEF LoadKeyPair, ParseListeners, ListenEnd, Configuring
  <2>2. CASE Exit("error")
    <3>1. (torn => torn') /\ pc' = "down"
      BY <2>2, EndTorn DEF Exit, End, Volatile
    <3> QED
      BY <2>1, <3>1 DEF Ended, Configuring
  <2>3. CASE ~Exit("error")
    BY <1>6, <2>1, <2>3 DEF LoadKeyPair, ParseListeners, ListenEnd, Goto, Steady, Configuring
  <2> QED
    BY <2>2, <2>3
<1>7. CASE Listen \/ StartServe \/ Notify \/ SignalReceived \/ ManagerStopped
  BY <1>7 DEF Listen, StartServe, Notify, SignalReceived, ManagerStopped, Steady
<1>8. CASE \E a \in Each : ServeReturn(a) \/ ServeFail(a)
  BY <1>8 DEF ServeReturn, ServeFail, Steady
<1>9. CASE CloseListener
  BY <1>9 DEF CloseListener, Goto, Steady, Configuring
<1>10. CASE Signal \/ Kill
  <2>1. CASE Killed
    BY <1>10, <2>1, KilledEnds DEF Signal, Kill
  <2>2. CASE ~Killed
    BY <1>10, <2>2 DEF Signal, Kill, Steady
  <2> QED
    BY <2>1, <2>2
<1> QED
  BY <1>1, <1>2, <1>3, <1>4, <1>5, <1>6, <1>7, <1>8, <1>9, <1>10 DEF Next, AcbcMain

(***************************************************************************)
(* Behind its creation the file is whole or known to be torn.              *)
(***************************************************************************)
FileWhole ==
  /\ conf # None /\ ~torn /\ pc # "configWrite" => lines = Len(FileLines)
  /\ pc = "configWrite" => conf # None

FileInv == TypeOK /\ Started /\ FileWhole /\ CredentialsFromFile

\* What a whole file says about the credentials.
LEMMA WholeFile ==
  ASSUME lines = Len(FileLines), ReadsFile(args)
  PROVE  /\ "RPCUser" \notin DOMAIN args =>
              Option("RPCUser", args, FileOptions) = RandomUser[conf]
         /\ "RPCPass" \notin DOMAIN args =>
              Option("RPCPass", args, FileOptions) = RandomPass[conf]
<1>1. lines = 4 /\ FileLines[1] = "RPCUser" /\ FileLines[2] = "RPCPass"
  BY DEF FileLines
<1>2. "RPCUser" \in DOMAIN FileOptions /\ "RPCPass" \in DOMAIN FileOptions
  BY <1>1 DEF FileOptions
<1>3. /\ FileOptions["RPCUser"] = RandomUser[conf]
      /\ FileOptions["RPCPass"] = RandomPass[conf]
  BY <1>1 DEF FileOptions, Sample
<1> QED
  BY <1>2, <1>3 DEF Option, FromFile

\* Every step keeps FileInv.
LEMMA FileStep == FileInv /\ [Next]_vars => FileInv'
<1> SUFFICES ASSUME FileInv, [Next]_vars PROVE FileWhole' /\ CredentialsFromFile'
  BY TypeStep DEF FileInv
<1> USE DEF FileWhole, CredentialsFromFile, None
<1> FileWhole /\ CredentialsFromFile /\ FlagsOK /\ StateOK /\ Started
  BY DEF FileInv, TypeOK
<1>1. CASE main
  BY <1>1 DEF main, Volatile, files
<1>2. CASE ConfigCreate
  BY <1>2 DEF ConfigCreate, Goto, history, Started, StateOK
<1>3. CASE ConfigWrite
  <2>1. CASE lines < Len(FileLines) /\ UNCHANGED <<starts, config, pc, at, signals>>
    BY <1>3, <2>1 DEF ConfigWrite
  <2>2. CASE lines' = lines /\ torn' = (torn \/ lines < Len(FileLines)) /\ Goto("configRead")
    <3>1. ~torn' => ~(lines < Len(FileLines))
      BY <2>2
    <3>2. lines \in 0 .. Len(FileLines) /\ Len(FileLines) = 4
      BY DEF StateOK, FileLines
    <3>3. ~torn' => lines' = Len(FileLines)
      BY <2>2, <3>1, <3>2
    <3> QED
      BY <2>2, <3>3 DEF Goto
  <2> QED
    BY <1>3, <2>1, <2>2 DEF ConfigWrite
<1>4. CASE ConfigRead
  <2>1. /\ pc # "configWrite" /\ pc' = "newServer" /\ UNCHANGED <<conf, lines, args, torn>>
    BY <1>4, ConfigReadStep DEF Parses, files, history
  <2>2. /\ credentials'.user = Option("RPCUser", args, FileOptions)
        /\ credentials'.pass = Option("RPCPass", args, FileOptions)
    <3> PICK c \in LoadConfig(args, FileOptions, Localhost) :
               credentials' = [user |-> c.RPCUser, pass |-> c.RPCPass, disableTLS |-> c.DisableTLS]
      BY <1>4 DEF ConfigRead
    <3> QED
      BY LoadedFields
  <2> QED
    BY <2>1, <2>2, WholeFile
<1>5. CASE Steady
  BY <1>5 DEF Steady, Configuring
<1>6. CASE Ended
  BY <1>6 DEF Ended
<1>7. CASE UNCHANGED vars
  BY <1>7 DEF vars, files, config, history
<1> QED
  BY <1>1, <1>2, <1>3, <1>4, <1>5, <1>6, <1>7, OtherSteps

(***************************************************************************)
(* createDefaultConfigFile and loadConfig: for every command line, every   *)
(* number of starts and wherever they were killed, a process that reads a  *)
(* file which was not torn runs with the credentials of that file.         *)
(***************************************************************************)
THEOREM CredentialsCorrect == Spec => []CredentialsFromFile
<1>1. Init => FileInv
  BY TypeInit DEF Init, FileInv, FileWhole, Started, CredentialsFromFile
<1>2. FileInv => CredentialsFromFile
  BY DEF FileInv
<1> QED
  BY <1>1, FileStep, <1>2, PTL DEF Spec

(***************************************************************************)
(* loadConfig, for every configuration and not only the sizes that are     *)
(* checked: the limits of a block are in order behind the switch.          *)
(***************************************************************************)
THEOREM BlockLimitsCorrect ==
  ASSUME NEW c,
         {"BlockMaxSize", "BlockMaxWeight", "BlockMinSize", "BlockMinWeight", "BlockPrioritySize"}
           \subseteq DOMAIN c,
         c.BlockMaxSize \in Nat, c.BlockMaxWeight \in Nat,
         c.BlockMinSize \in Nat, c.BlockMinWeight \in Nat, c.BlockPrioritySize \in Nat
  PROVE  BlockLimitsOrdered(c)
<1> SUFFICES ASSUME LimitsOK(c) PROVE BlockLimitsOrdered(c)
  BY DEF BlockLimitsOrdered
<1>1. c.BlockMaxSize <= 999000 /\ c.BlockMaxWeight <= 3996000
  BY SMT DEF LimitsOK, blockMaxSizeMax, blockMaxWeightMax, MaxBlockBaseSize, MaxBlockWeight
<1>2. /\ BlockLimits(c, c).BlockPrioritySize = minUint32(c.BlockPrioritySize, c.BlockMaxSize)
      /\ BlockLimits(c, c).BlockMinSize = minUint32(c.BlockMinSize, c.BlockMaxSize)
      /\ BlockLimits(c, c).BlockMinWeight = minUint32(c.BlockMinWeight, c.BlockMaxWeight)
      /\ BlockLimits(c, c).BlockMaxSize =
           IF c.BlockMaxSize = 750000 /\ c.BlockMaxWeight # 3000000
             THEN 999000 ELSE c.BlockMaxSize
      /\ BlockLimits(c, c).BlockMaxWeight =
           IF c.BlockMaxWeight = 3000000 /\ c.BlockMaxSize # 750000
             THEN c.BlockMaxSize * 4 ELSE c.BlockMaxWeight
  BY SMT DEF BlockLimits, defaultBlockMaxSize, defaultBlockMaxWeight, MaxBlockBaseSize,
         WitnessScaleFactor
<1> QED
  BY <1>1, <1>2, SMT DEF BlockLimitsOrdered, minUint32, defaultBlockMaxSize, defaultBlockMaxWeight,
     blockMaxSizeMax, blockMaxWeightMax, MaxBlockBaseSize, MaxBlockWeight, WitnessScaleFactor

(***************************************************************************)
(* For every configuration, acbcLookup resolves no hidden service, and     *)
(* acbcDial dials one through a configured proxy, or, if there is none and *)
(* --noonion is not given, directly.                                       *)
(***************************************************************************)
THEOREM RoutingCorrect ==
  ASSUME NEW c, c.NoOnion \in BOOLEAN, c.TorIsolation \in BOOLEAN,
         c.Proxy \in Seq(STRING), c.OnionProxy \in Seq(STRING)
  PROVE  Routed(c)
<1> SUFFICES ASSUME ProxiesOK(c) PROVE Routed(c)
  BY DEF Routed
<1>1. c.Proxy # <<"disabled">> /\ c.OnionProxy # <<"disabled">>
  <2>1. Len(<<"disabled">>) = 1
    OBVIOUS
  <2> QED
    BY <2>1, Zenon DEF ProxiesOK
<1>2. CASE c.NoOnion
  BY <1>1, <1>2 DEF Routed, ConfiguredProxies, ProxiesOK, acbcDial, acbcLookup, oniondial, dial, lookup, Direct, Disabled
<1>3. CASE ~c.NoOnion /\ c.OnionProxy # <<>>
  BY <1>1, <1>3 DEF Routed, ConfiguredProxies, ProxiesOK, acbcDial, acbcLookup, oniondial, dial, lookup, Direct, Disabled
<1>4. CASE ~c.NoOnion /\ c.OnionProxy = <<>>
  BY <1>1, <1>4 DEF Routed, ConfiguredProxies, ProxiesOK, acbcDial, acbcLookup, oniondial, dial, lookup, Direct, Disabled
<1> QED
  BY <1>2, <1>3, <1>4

-------------------------------------------------------------------------------
(* normalizeAddresses.                                                     *)

\* A set of natural numbers has a least element.
LEMMA Least ==
  ASSUME NEW S, S \subseteq Nat, S # {}
  PROVE  \E m \in S : \A k \in S : m <= k
<1>1. PICK R : IsWellFoundedOn(R, Nat) /\ \A k, m \in Nat : k < m => <<k, m>> \in R
  <2>1. \A k, m \in Nat : k < m => <<k, m>> \in OpToRel(<, Nat)
    BY DEF OpToRel
  <2> QED
    BY <2>1, NatLessThanWellFounded, Zenon
<1>2. PICK m \in S : \A k \in S : ~ (<<k, m>> \in R)
  <2>1. \E m \in S : \A k \in S : ~ (<<k, m>> \in R)
    <3>1. IsWellFoundedOn(R, Nat)
      BY <1>1
    <3> HIDE <1>1
    <3> QED
      BY <3>1, WFMin
  <2> QED
    BY <2>1
<1>3. \A k \in S : ~ (k < m)
  BY <1>1, <1>2, Zenon
<1> QED
  BY <1>3

\* The numbers of a finite set, counted from the least one.
LEMMA Ranks ==
  ASSUME NEW F, F \subseteq Nat, IsFiniteSet(F)
  PROVE  /\ Cardinality(F) \in Nat
         /\ \A i \in F : Cardinality({j \in F : j <= i}) \in 1 .. Cardinality(F)
         /\ \A i, k \in F :
              Cardinality({j \in F : j <= i}) = Cardinality({j \in F : j <= k}) => i = k
         /\ \A n \in 1 .. Cardinality(F) : \E i \in F : Cardinality({j \in F : j <= i}) = n
<1> DEFINE Upto(i) == {j \in F : j <= i}
           rank == [i \in F |-> Cardinality(Upto(i))]
<1>1. Cardinality(F) \in Nat
  BY FS_CardinalityType
<1>2. ASSUME NEW i \in F
      PROVE  IsFiniteSet(Upto(i)) /\ Cardinality(Upto(i)) \in 1 .. Cardinality(F)
  <2>1. IsFiniteSet(Upto(i)) /\ Cardinality(Upto(i)) <= Cardinality(F)
    BY FS_Subset
  <2>2. i \in Upto(i)
    OBVIOUS
  <2>3. Cardinality(Upto(i)) \in Nat /\ Cardinality(Upto(i)) # 0
    BY <2>1, <2>2, FS_CardinalityType, FS_EmptySet
  <2> QED
    BY <1>1, <2>1, <2>3
<1>3. ASSUME NEW i \in F, NEW k \in F, Cardinality(Upto(i)) = Cardinality(Upto(k)), i < k
      PROVE  FALSE
  <2>0. i \in Nat /\ k \in Nat /\ i < k
    BY <1>3
  <2>1. Upto(i) \in SUBSET Upto(k) /\ k \in Upto(k) /\ k \notin Upto(i)
    <3>1. ASSUME NEW j \in Upto(i) PROVE j \in Upto(k)
      <4>1. j \in F /\ j \in Nat /\ j <= i
        OBVIOUS
      <4> QED
        BY <2>0, <4>1
    <3>2. k \in Upto(k)
      BY <2>0
    <3>3. k \notin Upto(i)
      BY <2>0
    <3> QED
      BY <3>1, <3>2, <3>3
  <2>2. Upto(k) = Upto(i)
    BY <1>2, <1>3, <2>1, FS_Subset
  <2> QED
    BY <2>1, <2>2
<1>4. ASSUME NEW i \in F, NEW k \in F, Cardinality(Upto(i)) = Cardinality(Upto(k)) PROVE i = k
  BY <1>3, <1>4
<1>5. rank \in Injection(F, 1 .. Cardinality(F))
  BY <1>2, <1>4, Zenon DEF Injection, IsInjective
<1>6. IsFiniteSet(1 .. Cardinality(F)) /\ Cardinality(1 .. Cardinality(F)) = Cardinality(F)
  BY <1>1, FS_Interval
<1>7. rank \in Surjection(F, 1 .. Cardinality(F))
  BY <1>5, <1>6, FS_Injection
<1>8. \A n \in 1 .. Cardinality(F) : \E i \in F : Cardinality(Upto(i)) = n
  BY <1>7 DEF Surjection
<1> QED
  BY <1>1, <1>2, <1>4, <1>8

\* The greater number has the greater rank.
LEMMA RanksGrow ==
  ASSUME NEW F, F \subseteq Nat, IsFiniteSet(F), NEW i \in F, NEW k \in F, i < k
  PROVE  Cardinality({j \in F : j <= i}) < Cardinality({j \in F : j <= k})
<1> DEFINE Upto(m) == {j \in F : j <= m}
<1>1. i \in Nat /\ k \in Nat
  OBVIOUS
<1>2. Upto(i) \subseteq Upto(k)
  <2> SUFFICES ASSUME NEW j \in F, j <= i PROVE j <= k
    OBVIOUS
  <2>1. j \in Nat
    OBVIOUS
  <2> QED
    BY <1>1, <2>1
<1>3. IsFiniteSet(Upto(k)) /\ IsFiniteSet(Upto(i))
  BY FS_Subset
<1>4. Cardinality(Upto(i)) <= Cardinality(Upto(k))
  BY <1>2, <1>3, FS_Subset
<1>5. Cardinality(Upto(i)) \in Nat /\ Cardinality(Upto(k)) \in Nat
  BY <1>3, FS_CardinalityType
<1>6. Cardinality(Upto(i)) # Cardinality(Upto(k))
  <2>1. \A x, y \in F :
          Cardinality({j \in F : j <= x}) = Cardinality({j \in F : j <= y}) => x = y
    BY Ranks
  <2> HIDE DEF Upto
  <2>2. Cardinality(Upto(i)) = Cardinality(Upto(k)) => i = k
    BY <2>1, Zenon DEF Upto
  <2> QED
    BY <1>1, <2>2
<1> QED
  BY <1>4, <1>5, <1>6

\* removeDuplicateAddresses keeps one of each.
LEMMA DuplicatesRemoved ==
  ASSUME NEW T, NEW s \in Seq(T)
  PROVE  /\ removeDuplicateAddresses(s) \in Seq(T)
         /\ NoDuplicates(removeDuplicateAddresses(s))
         /\ {removeDuplicateAddresses(s)[k] : k \in DOMAIN removeDuplicateAddresses(s)} =
              {s[i] : i \in DOMAIN s}
<1> DEFINE F == FirstOf(s)
           N == Cardinality(F)
           Rank(i) == Cardinality({j \in F : j <= i})
           Nth(k) == CHOOSE i \in F : Rank(i) = k
           r == removeDuplicateAddresses(s)
<1>1. DOMAIN s = 1 .. Len(s) /\ Len(s) \in Nat
  OBVIOUS
<1>2. F \subseteq Nat /\ F \subseteq DOMAIN s /\ IsFiniteSet(F)
  <2>1. F \subseteq 1 .. Len(s)
    BY <1>1 DEF FirstOf
  <2>2. IsFiniteSet(1 .. Len(s))
    BY <1>1, FS_Interval
  <2>3. IsFiniteSet(F)
    BY <2>1, <2>2, FS_Subset
  <2> QED
    BY <1>1, <2>1, <2>3
<1>3. \A i, j \in F : s[i] = s[j] => i = j
  BY <1>1, <1>2 DEF FirstOf
<1>4. ASSUME NEW i \in DOMAIN s PROVE \E j \in F : s[j] = s[i]
  <2> DEFINE Same == {j \in DOMAIN s : s[j] = s[i]}
  <2>1. Same \subseteq Nat /\ Same # {}
    BY <1>1
  <2>2. PICK j \in Same : \A k \in Same : j <= k
    BY <2>1, Least
  <2>3. j \in F
    BY <1>1, <2>2 DEF FirstOf
  <2> QED
    BY <2>2, <2>3
<1> HIDE DEF F
<1>5. /\ N \in Nat /\ \A i \in F : Rank(i) \in 1 .. N
      /\ \A i, k \in F : Rank(i) = Rank(k) => i = k
      /\ \A n \in 1 .. N : \E i \in F : Rank(i) = n
  BY <1>2, Ranks
<1>6. r = [k \in 1 .. N |-> s[Nth(k)]]
  BY DEF removeDuplicateAddresses, F
<1> HIDE DEF N, Rank, r
<1>7. \A k \in 1 .. N : Nth(k) \in F /\ Rank(Nth(k)) = k
  BY <1>5
<1>8. \A i \in F : Nth(Rank(i)) = i
  BY <1>5, <1>7
<1> HIDE DEF Nth
<1>9. DOMAIN r = 1 .. N /\ \A k \in 1 .. N : r[k] = s[Nth(k)]
  BY <1>6
<1>10. r \in Seq(T)
  <2>0. \A i \in DOMAIN s : s[i] \in T
    BY <1>1
  <2>1. \A k \in 1 .. N : s[Nth(k)] \in T
    BY <1>2, <1>7, <2>0
  <2> QED
    BY <1>5, <1>6, <2>1
<1>11. NoDuplicates(r)
  BY <1>3, <1>7, <1>9 DEF NoDuplicates
<1>12. ASSUME NEW k \in DOMAIN r PROVE \E i \in DOMAIN s : r[k] = s[i]
  BY <1>2, <1>7, <1>9
<1>13. ASSUME NEW i \in DOMAIN s PROVE \E k \in DOMAIN r : r[k] = s[i]
  <2>1. PICK j \in F : s[j] = s[i]
    BY <1>4
  <2>2. Rank(j) \in 1 .. N /\ Nth(Rank(j)) = j
    BY <1>5, <1>8
  <2> QED
    BY <1>9, <2>1, <2>2
<1>14. {r[k] : k \in DOMAIN r} = {s[i] : i \in DOMAIN s}
  BY <1>12, <1>13
<1> QED
  BY <1>10, <1>11, <1>14 DEF r

\* An address of the given words: a host, or a host and a port.
AddressOf(W) == {x \in Seq(W) : Len(x) = 1 \/ Len(x) = 2}

\* The words that loadConfig itself puts in an address.
Ports == {"", "8334", "18333", "18334", "18555", "18556", "38332", "38333"}

LEMMA NetworkPorts ==
  ASSUME NEW c
  PROVE  activeNetParams(c).DefaultPort \in Ports /\ activeNetParams(c).rpcPort \in Ports
<1>1. activeNetParams(c) \in {MainNetParams, RegressionNetParams, TestNet3Params, SimNetParams,
                              SigNetParams}
  BY DEF activeNetParams
<1>2. /\ MainNetParams.DefaultPort = "" /\ MainNetParams.rpcPort = "8334"
      /\ RegressionNetParams.DefaultPort = "" /\ RegressionNetParams.rpcPort = "18334"
      /\ TestNet3Params.DefaultPort = "18333" /\ TestNet3Params.rpcPort = "18334"
      /\ SimNetParams.DefaultPort = "18555" /\ SimNetParams.rpcPort = "18556"
      /\ SigNetParams.DefaultPort = "38333" /\ SigNetParams.rpcPort = "38332"
  BY DEF MainNetParams, RegressionNetParams, TestNet3Params, SimNetParams, SigNetParams
<1> QED
  BY <1>1, <1>2, Zenon DEF Ports

LEMMA WithPort ==
  ASSUME NEW W, NEW x \in AddressOf(W), NEW p \in W
  PROVE  /\ normalizeAddress(x, p) \in AddressOf(W) /\ Len(normalizeAddress(x, p)) = 2
         /\ normalizeAddress(x, p) = x \/ normalizeAddress(x, p)[2] = p
<1>1. CASE Len(x) = 2
  BY <1>1 DEF normalizeAddress
<1>2. CASE Len(x) # 2
  <2>1. x \in Seq(W) /\ Len(x) \in Nat /\ 1 + Len(x) = 2
    BY <1>2 DEF AddressOf
  <2>2. <<p>> \in Seq(W) /\ Len(<<p>>) = 1
    OBVIOUS
  <2>3. x \o <<p>> \in Seq(W) /\ Len(x \o <<p>>) = Len(x) + Len(<<p>>)
    BY <2>1, <2>2
  <2>4. (x \o <<p>>)[2] = p
    BY <2>1
  <2> QED
    BY <1>2, <2>1, <2>2, <2>3, <2>4 DEF normalizeAddress, AddressOf
<1> QED
  BY <1>1, <1>2

\* An address has a port, the given one if it is not an address that was given.
Ported(s, p, u) ==
  \A k \in DOMAIN u : Len(u[k]) = 2 /\ (u[k][2] = p \/ \E i \in DOMAIN s : u[k] = s[i])

\* normalizeAddresses returns what it promises, and something if it is given something.
LEMMA AddressesNormalized ==
  ASSUME NEW W, NEW s \in Seq(AddressOf(W)), NEW p \in W
  PROVE  /\ normalizeAddresses(s, p) \in Seq(AddressOf(W))
         /\ Listed(s, p, normalizeAddresses(s, p))
         /\ Ported(s, p, normalizeAddresses(s, p))
         /\ normalizeAddresses(s, p) = <<>> <=> s = <<>>
<1> DEFINE t == [i \in DOMAIN s |-> normalizeAddress(s[i], p)]
           u == removeDuplicateAddresses(t)
<1>1. Len(s) \in Nat /\ DOMAIN s = 1 .. Len(s) /\ \A i \in DOMAIN s : s[i] \in AddressOf(W)
  OBVIOUS
<1>2. \A i \in DOMAIN s :
        /\ normalizeAddress(s[i], p) \in AddressOf(W) /\ Len(normalizeAddress(s[i], p)) = 2
        /\ (normalizeAddress(s[i], p) = s[i] \/ normalizeAddress(s[i], p)[2] = p)
  BY <1>1, WithPort
<1>3. t \in Seq(AddressOf(W)) /\ DOMAIN t = DOMAIN s
      /\ \A i \in DOMAIN s : t[i] = normalizeAddress(s[i], p)
  BY <1>1, <1>2
<1> HIDE DEF t
<1>4. u \in Seq(AddressOf(W)) /\ NoDuplicates(u)
      /\ {u[k] : k \in DOMAIN u} = {t[i] : i \in DOMAIN t}
  BY <1>3, DuplicatesRemoved
<1>5. u = normalizeAddresses(s, p)
  BY DEF normalizeAddresses, t
<1> HIDE DEF u
<1>6. {u[k] : k \in DOMAIN u} = {normalizeAddress(s[i], p) : i \in DOMAIN s}
  BY <1>3, <1>4
<1>7. Ported(s, p, u)
  <2> SUFFICES \A k \in DOMAIN u : Len(u[k]) = 2 /\ (u[k][2] = p \/ \E i \in DOMAIN s : u[k] = s[i])
    BY DEF Ported
  <2> TAKE k \in DOMAIN u
  <2>1. PICK i \in DOMAIN s : u[k] = normalizeAddress(s[i], p)
    BY <1>6
  <2> QED
    BY <1>2, <2>1
<1>8. u = <<>> <=> s = <<>>
  <2>1. DOMAIN u = {} <=> DOMAIN s = {}
    BY <1>6
  <2>2. u = <<>> <=> DOMAIN u = {}
    BY <1>4
  <2>3. s = <<>> <=> DOMAIN s = {}
    OBVIOUS
  <2> QED
    BY <2>1, <2>2, <2>3
<1>9. Listed(s, p, u)
  BY <1>4, <1>6, <1>7, Zenon DEF Listed, Ported
<1> QED
  BY <1>4, <1>5, <1>7, <1>8, <1>9, Zenon

\* One address with a port stays as it is.
LEMMA OneAddress ==
  ASSUME NEW W, NEW h \in W, NEW p \in W
  PROVE  normalizeAddresses(<<<<h, p>>>>, p) = <<<<h, p>>>>
<1> DEFINE x == <<h, p>>
           u == normalizeAddresses(<<x>>, p)
<1>1. x \in Seq(W) /\ Len(x) = 2
  OBVIOUS
<1>2. x \in AddressOf(W) /\ normalizeAddress(x, p) = x
  BY <1>1 DEF AddressOf, normalizeAddress
<1> HIDE DEF x
<1>3. <<x>> \in Seq(AddressOf(W)) /\ DOMAIN <<x>> = {1} /\ <<x>>[1] = x
  BY <1>2
<1>4. u \in Seq(AddressOf(W)) /\ Listed(<<x>>, p, u)
  BY <1>3, AddressesNormalized
<1> HIDE DEF u
<1>5. /\ NoDuplicates(u)
      /\ {u[k] : k \in DOMAIN u} = {normalizeAddress(<<x>>[i], p) : i \in DOMAIN <<x>>}
  BY <1>4 DEF Listed
<1>6. {u[k] : k \in DOMAIN u} = {x}
  BY <1>2, <1>3, <1>5
<1>7. Len(u) \in Nat /\ DOMAIN u = 1 .. Len(u)
  BY <1>4
<1>8. \A k \in DOMAIN u : u[k] = x
  BY <1>6
<1>9. \A i, j \in DOMAIN u : i = j
  BY <1>5, <1>8 DEF NoDuplicates
<1>10. 1 \in DOMAIN u
  <2>1. DOMAIN u # {}
    BY <1>6
  <2> QED
    BY <1>7, <2>1
<1>11. ASSUME Len(u) >= 2 PROVE FALSE
  <2>1. 1 \in DOMAIN u /\ 2 \in DOMAIN u
    BY <1>7, <1>11
  <2>2. 1 = 2
    BY <1>9, <2>1, Zenon
  <2> QED
    BY <2>2
<1>12. 1 .. Len(u) = 1 .. 1 /\ u[1] = x
  BY <1>7, <1>8, <1>10, <1>11
<1>13. u = <<x>>
  BY <1>4, <1>7, <1>12
<1> QED
  BY <1>13 DEF u, x

-------------------------------------------------------------------------------
(* What loadConfig returns.                                                *)

\* A sequence that is not empty has an element.
LEMMA NotEmpty == ASSUME NEW T, NEW s \in Seq(T), s # <<>> PROVE DOMAIN s # {}
OBVIOUS

\* What the parts of loadConfig leave in the fields that Consistent is about.
LEMMA AdjustedFields ==
  ASSUME NEW c, NEW hosts,
         {"Listeners", "AddPeers", "ConnectPeers", "RPCListeners", "DisableListen", "DisableRPC",
          "DisableTLS"} \subseteq DOMAIN c
  PROVE  LET r == Adjusted(c, hosts)
             params == activeNetParams(c)
         IN  /\ r.Listeners =
                  normalizeAddresses(IF c.Listeners = <<>> THEN <<<<"", params.DefaultPort>>>>
                                     ELSE c.Listeners, params.DefaultPort)
             /\ r.AddPeers = normalizeAddresses(c.AddPeers, params.DefaultPort)
             /\ r.ConnectPeers = normalizeAddresses(c.ConnectPeers, params.DefaultPort)
             /\ r.RPCListeners =
                  normalizeAddresses(
                    IF ~NoRPC(c) /\ c.RPCListeners = <<>>
                      THEN [i \in DOMAIN hosts |-> <<hosts[i], params.rpcPort>>]
                      ELSE c.RPCListeners, params.rpcPort)
             /\ r.DisableRPC = NoRPC(c)
             /\ r.DisableTLS = c.DisableTLS
             /\ c.Proxy # <<>> /\ c.Listeners = <<>> => r.DisableListen
<1> DEFINE n == Network(c, c)
           l == Listening(n, c)
           q == RPCListening(l, c, hosts)
           b == BlockLimits(q, c)
           params == activeNetParams(c)
           local == [i \in DOMAIN hosts |-> <<hosts[i], params.rpcPort>>]
           Fields == {"Listeners", "AddPeers", "ConnectPeers", "RPCListeners", "DisableListen",
                      "DisableRPC", "DisableTLS"}
<1>1. /\ DOMAIN n = DOMAIN c
      /\ \A f \in Fields : n[f] = c[f]
  BY DEF Network
<1>2. /\ DOMAIN l = DOMAIN n
      /\ \A f \in Fields \ {"Listeners", "DisableListen"} : l[f] = n[f]
      /\ l.Listeners = IF n.Listeners = <<>> THEN <<<<"", params.DefaultPort>>>> ELSE n.Listeners
      /\ c.Proxy # <<>> /\ c.Listeners = <<>> => l.DisableListen
  BY <1>1 DEF Listening
<1> HIDE DEF n
<1>3. /\ DOMAIN q = DOMAIN l
      /\ \A f \in Fields \ {"DisableRPC", "RPCListeners"} : q[f] = l[f]
      /\ q.DisableRPC = NoRPC(c)
      /\ q.RPCListeners = IF ~NoRPC(c) /\ l.RPCListeners = <<>> THEN local ELSE l.RPCListeners
  BY <1>1, <1>2 DEF RPCListening
<1> HIDE DEF l
<1>4. /\ DOMAIN b = DOMAIN q
      /\ \A f \in Fields : b[f] = q[f]
  BY <1>1, <1>2, <1>3 DEF BlockLimits
<1> HIDE DEF q
<1>5. /\ Normalized(b, c).Listeners = normalizeAddresses(b.Listeners, params.DefaultPort)
      /\ Normalized(b, c).AddPeers = normalizeAddresses(b.AddPeers, params.DefaultPort)
      /\ Normalized(b, c).ConnectPeers = normalizeAddresses(b.ConnectPeers, params.DefaultPort)
      /\ Normalized(b, c).RPCListeners = normalizeAddresses(b.RPCListeners, params.rpcPort)
      /\ Normalized(b, c).DisableRPC = b.DisableRPC
      /\ Normalized(b, c).DisableTLS = b.DisableTLS
      /\ Normalized(b, c).DisableListen = b.DisableListen
  BY <1>1, <1>2, <1>3, <1>4 DEF Normalized
<1>6. Adjusted(c, hosts) = Normalized(b, c)
  BY DEF Adjusted, b, q, l, n
<1> HIDE DEF b
<1>7. /\ b.Listeners = IF c.Listeners = <<>> THEN <<<<"", params.DefaultPort>>>> ELSE c.Listeners
      /\ b.AddPeers = c.AddPeers /\ b.ConnectPeers = c.ConnectPeers
      /\ b.RPCListeners = IF ~NoRPC(c) /\ c.RPCListeners = <<>> THEN local ELSE c.RPCListeners
      /\ b.DisableRPC = NoRPC(c) /\ b.DisableTLS = c.DisableTLS
      /\ c.Proxy # <<>> /\ c.Listeners = <<>> => b.DisableListen
  BY <1>1, <1>2, <1>3, <1>4
<1> QED
  BY <1>5, <1>6, <1>7

\* The options that loadConfig accepts make a consistent configuration: whatever
\* words, ports among them, the addresses are made of, and whichever hosts
\* net.LookupHost finds.
THEOREM ConsistentCorrect ==
  ASSUME NEW W, Ports \subseteq W, NEW hosts \in Seq(W), hosts # <<>>,
         NEW a, NEW file,
         \A n \in {"Listeners", "AddPeers", "ConnectPeers", "RPCListeners"} :
           Option(n, a, file) \in Seq(AddressOf(W)),
         NEW r \in LoadConfig(a, file, hosts)
  PROVE  Consistent(Parsed(a, file), r)
<1> DEFINE c == Parsed(a, file)
           params == activeNetParams(c)
           local == [i \in DOMAIN hosts |-> <<hosts[i], params.rpcPort>>]
           given == IF ~NoRPC(c) /\ c.RPCListeners = <<>> THEN local ELSE c.RPCListeners
<1>1. /\ {"Listeners", "AddPeers", "ConnectPeers", "RPCListeners", "DisableListen", "DisableRPC",
          "DisableTLS"} \subseteq DOMAIN c
      /\ c.Listeners \in Seq(AddressOf(W)) /\ c.AddPeers \in Seq(AddressOf(W))
      /\ c.ConnectPeers \in Seq(AddressOf(W)) /\ c.RPCListeners \in Seq(AddressOf(W))
  BY DEF Parsed, Default
<1>2. r = Adjusted(c, hosts) /\ GeneralOK(c) /\ RPCUsersOK(c) /\ NoTLSOK(r)
  BY DEF LoadConfig
<1> HIDE DEF c
<1>3. "" \in W
  BY Zenon DEF Ports
<1>4. params.DefaultPort \in W /\ params.rpcPort \in W
  BY NetworkPorts, Zenon
<1>5. /\ r.Listeners = normalizeAddresses(IF c.Listeners = <<>> THEN <<<<"", params.DefaultPort>>>>
                                          ELSE c.Listeners, params.DefaultPort)
      /\ r.AddPeers = normalizeAddresses(c.AddPeers, params.DefaultPort)
      /\ r.ConnectPeers = normalizeAddresses(c.ConnectPeers, params.DefaultPort)
      /\ r.RPCListeners = normalizeAddresses(given, params.rpcPort)
      /\ r.DisableRPC = NoRPC(c)
      /\ r.DisableTLS = c.DisableTLS
      /\ c.Proxy # <<>> /\ c.Listeners = <<>> => r.DisableListen
  BY <1>1, <1>2, AdjustedFields
<1> HIDE DEF params
<1>6. ASSUME c.Listeners # <<>>
      PROVE  Listed(c.Listeners, params.DefaultPort, r.Listeners)
  <2>1. r.Listeners = normalizeAddresses(c.Listeners, params.DefaultPort)
    BY <1>5, <1>6
  <2>2. c.Listeners \in Seq(AddressOf(W)) /\ params.DefaultPort \in W
    BY <1>1, <1>4
  <2>3. Listed(c.Listeners, params.DefaultPort, normalizeAddresses(c.Listeners, params.DefaultPort))
    BY <2>2, AddressesNormalized
  <2> QED
    BY <2>1, <2>3
<1>7. c.Listeners = <<>> => r.Listeners = <<<<"", params.DefaultPort>>>>
  <2>1. normalizeAddresses(<<<<"", params.DefaultPort>>>>, params.DefaultPort) =
          <<<<"", params.DefaultPort>>>>
    BY <1>3, <1>4, OneAddress, Zenon
  <2> QED
    BY <1>5, <2>1
<1>8. /\ Listed(c.AddPeers, params.DefaultPort, r.AddPeers)
      /\ Listed(c.ConnectPeers, params.DefaultPort, r.ConnectPeers)
      /\ c.AddPeers = <<>> => r.AddPeers = <<>>
      /\ c.ConnectPeers = <<>> => r.ConnectPeers = <<>>
  <2>1. ASSUME NEW s \in Seq(AddressOf(W))
        PROVE  /\ Listed(s, params.DefaultPort, normalizeAddresses(s, params.DefaultPort))
               /\ s = <<>> => normalizeAddresses(s, params.DefaultPort) = <<>>
    BY <1>4, AddressesNormalized
  <2> QED
    BY <1>1, <1>5, <2>1, Zenon
<1>9. r.AddPeers = <<>> \/ r.ConnectPeers = <<>>
  BY <1>2, <1>8 DEF GeneralOK
<1>10. ASSUME c.RPCListeners # <<>>
      PROVE  Listed(c.RPCListeners, params.rpcPort, r.RPCListeners)
  <2>1. r.RPCListeners = normalizeAddresses(c.RPCListeners, params.rpcPort)
    BY <1>5, <1>10
  <2>2. c.RPCListeners \in Seq(AddressOf(W)) /\ params.rpcPort \in W
    BY <1>1, <1>4
  <2>3. Listed(c.RPCListeners, params.rpcPort, normalizeAddresses(c.RPCListeners, params.rpcPort))
    BY <2>2, AddressesNormalized
  <2> QED
    BY <2>1, <2>3
<1>11. ASSUME ~ NoRPC(c)
       PROVE  /\ r.RPCListeners # <<>> /\ NoDuplicates(r.RPCListeners)
              /\ c.RPCListeners = <<>> =>
                   \A k \in DOMAIN r.RPCListeners :
                     Len(r.RPCListeners[k]) = 2 /\ r.RPCListeners[k][2] = params.rpcPort
  <2>1. local \in Seq(AddressOf(W)) /\ local # <<>>
    <3>1. DOMAIN hosts # {}
      BY NotEmpty
    <3>2. Len(hosts) \in Nat /\ DOMAIN hosts = 1 .. Len(hosts) /\ DOMAIN hosts # {}
          /\ \A i \in DOMAIN hosts : hosts[i] \in W
      BY <3>1
    <3>3. \A h, p \in W : <<h, p>> \in Seq(W) /\ Len(<<h, p>>) = 2
      OBVIOUS
    <3>4. \A i \in DOMAIN hosts : <<hosts[i], params.rpcPort>> \in AddressOf(W)
      BY <1>4, <3>2, <3>3, Zenon DEF AddressOf
    <3>5. local \in Seq(AddressOf(W))
      BY <3>2, <3>4
    <3> QED
      BY <3>2, <3>5
  <2>2. given \in Seq(AddressOf(W)) /\ given # <<>>
    BY <1>1, <1>11, <2>1
  <2>3. \A i \in DOMAIN local : local[i][2] = params.rpcPort
    OBVIOUS
  <2>4. c.RPCListeners = <<>> => given = local
    BY <1>11
  <2> HIDE DEF given, local
  <2>5. r.RPCListeners = normalizeAddresses(given, params.rpcPort)
    BY <1>5
  <2>6. Listed(given, params.rpcPort, r.RPCListeners) /\ r.RPCListeners # <<>>
    BY <1>4, <2>5, <2>2, AddressesNormalized, Zenon
  <2>7. Ported(given, params.rpcPort, r.RPCListeners)
    BY <1>4, <2>5, <2>2, AddressesNormalized, Zenon
  <2>8. c.RPCListeners = <<>> =>
          \A k \in DOMAIN r.RPCListeners :
            Len(r.RPCListeners[k]) = 2 /\ r.RPCListeners[k][2] = params.rpcPort
    BY <2>3, <2>4, <2>7 DEF Ported
  <2> QED
    BY <2>6, <2>8, Zenon DEF Listed
<1>12. ~NoRPC(c) => \/ c.RPCUser # "" /\ c.RPCPass # ""
                    \/ c.RPCLimitUser # "" /\ c.RPCLimitPass # ""
  BY DEF NoRPC
<1>13. /\ c.RPCUser # "" => c.RPCUser # c.RPCLimitUser
       /\ c.RPCPass # "" => c.RPCPass # c.RPCLimitPass
  BY <1>2 DEF RPCUsersOK
<1>14. ~NoRPC(c) /\ c.DisableTLS =>
         \A k \in DOMAIN r.RPCListeners : r.RPCListeners[k][1] \in {"localhost", "127.0.0.1", "::1"}
  BY <1>2, <1>5, Zenon DEF NoTLSOK
<1> HIDE DEF given, local
<1>15. Consistent(c, r)
  BY <1>5, <1>6, <1>7, <1>8, <1>9, <1>10, <1>11, <1>12, <1>13, <1>14, Zenon DEF Consistent, params
<1> QED
  BY <1>15 DEF c

\* An option is given, or it has its default.
LEMMA GivenOptions ==
  ASSUME NEW o, NEW n
  PROVE  Option(n, o, NoArgs) = IF n \in DOMAIN o THEN o[n] ELSE Default[n]
BY DEF Option, FromFile, NoArgs

\* What the file says is read as if the command line said it.
LEMMA SameFromFile ==
  ASSUME NEW o
  PROVE  Parsed(NoArgs, o) = Parsed(o, NoArgs)
<1>1. DOMAIN NoArgs = {}
  BY DEF NoArgs
<1>2. Pre("RegressionTest", NoArgs) = FALSE /\ Pre("SimNet", NoArgs) = FALSE
      /\ Pre("SigNet", NoArgs) = FALSE
  BY <1>1 DEF Pre, Default
<1>3. ASSUME NEW n PROVE FromFile(n, NoArgs, o) <=> n \in DOMAIN o
  BY <1>2, Zenon DEF FromFile, ReadsFile
<1>4. ASSUME NEW n PROVE Option(n, NoArgs, o) = Option(n, o, NoArgs)
  BY <1>1, <1>3, GivenOptions, Zenon DEF Option
<1> QED
  BY <1>4, Zenon DEF Parsed

\* The options have the types that the theorems above ask for.
LEMMA TypedOptions ==
  ASSUME NEW o, Typed(o)
  PROVE  /\ \A n \in {"BlockMaxSize", "BlockMaxWeight", "BlockMinSize", "BlockMinWeight",
                      "BlockPrioritySize"} :
              n \in DOMAIN Parsed(o, NoArgs) /\ Parsed(o, NoArgs)[n] \in Nat
         /\ \A n \in {"NoOnion", "TorIsolation"} : Parsed(o, NoArgs)[n] \in BOOLEAN
         /\ \A n \in {"Proxy", "OnionProxy"} : Parsed(o, NoArgs)[n] \in Seq(STRING)
         /\ \A n \in {"Listeners", "AddPeers", "ConnectPeers", "RPCListeners"} :
              Option(n, o, NoArgs) \in Seq(HostPort)
<1> DEFINE c == Parsed(o, NoArgs)
           Numbers == {"BlockMaxSize", "BlockMaxWeight", "BlockMinSize", "BlockMinWeight",
                       "BlockPrioritySize"}
           Lists == {"Listeners", "AddPeers", "ConnectPeers", "RPCListeners"}
<1>1. /\ \A n \in Numbers : Default[n] \in Nat
      /\ \A n \in {"NoOnion", "TorIsolation"} : Default[n] = FALSE
      /\ \A n \in {"Proxy", "OnionProxy"} \cup Lists : Default[n] = <<>>
  BY DEF Default, defaultBlockMaxSize, defaultBlockMaxWeight
<1>2. Numbers \cup {"NoOnion", "TorIsolation", "Proxy", "OnionProxy"} \subseteq DOMAIN Default
  BY DEF Default
<1>3. \A n \in DOMAIN Default : n \in DOMAIN c /\ c[n] = Option(n, o, NoArgs)
  BY DEF Parsed
<1> HIDE DEF c
<1>4. \A n : Option(n, o, NoArgs) = IF n \in DOMAIN o THEN o[n] ELSE Default[n]
  BY GivenOptions
<1>5. \A n \in Numbers : n \in DOMAIN c /\ c[n] \in Nat
  BY <1>1, <1>2, <1>3, <1>4, Zenon DEF Typed
<1>6. \A n \in {"NoOnion", "TorIsolation"} : c[n] \in BOOLEAN
  BY <1>1, <1>2, <1>3, <1>4, Zenon DEF Typed
<1>7. <<>> \in Seq(STRING) /\ <<>> \in Seq(HostPort)
  OBVIOUS
<1>8. \A n \in {"Proxy", "OnionProxy"} : c[n] \in Seq(STRING)
  BY <1>1, <1>2, <1>3, <1>4, <1>7, Zenon DEF Typed
<1>9. \A n \in Lists : Option(n, o, NoArgs) \in Seq(HostPort)
  BY <1>1, <1>4, <1>7, Zenon DEF Typed
<1> QED
  BY <1>5, <1>6, <1>8, <1>9 DEF c

\* Wider words make wider addresses.
LEMMA WiderSeq == ASSUME NEW S, NEW T, S \subseteq T, NEW s \in Seq(S) PROVE s \in Seq(T)
OBVIOUS

LEMMA WiderAddress == ASSUME NEW S, NEW T, S \subseteq T PROVE AddressOf(S) \subseteq AddressOf(T)
BY WiderSeq, Zenon DEF AddressOf

LEMMA HostPorts == HostPort = AddressOf(STRING)
BY Zenon DEF HostPort, AddressOf

\* The fields that no part of loadConfig changes, and the directories.
LEMMA KeptFields ==
  ASSUME NEW c, NEW hosts, {"DataDir", "LogDir", "Proxy", "OnionProxy", "NoOnion", "TorIsolation"}
                             \subseteq DOMAIN c
  PROVE  LET r == Adjusted(c, hosts)
         IN  /\ \A f \in {"Proxy", "OnionProxy", "NoOnion", "TorIsolation"} : r[f] = c[f]
             /\ r.DataDir = Join(c.DataDir, netName(activeNetParams(c)))
             /\ r.LogDir = Join(c.LogDir, netName(activeNetParams(c)))
<1> DEFINE n == Network(c, c)
           l == Listening(n, c)
           q == RPCListening(l, c, hosts)
           b == BlockLimits(q, c)
           Fields == {"Proxy", "OnionProxy", "NoOnion", "TorIsolation"}
           All == Fields \cup {"DataDir", "LogDir"}
<1>1. /\ DOMAIN n = DOMAIN c
      /\ \A f \in Fields : n[f] = c[f]
      /\ n.DataDir = Join(c.DataDir, netName(activeNetParams(c)))
      /\ n.LogDir = Join(c.LogDir, netName(activeNetParams(c)))
  BY DEF Network
<1>2. /\ DOMAIN l = DOMAIN n
      /\ \A f \in All : l[f] = n[f]
  BY <1>1 DEF Listening
<1> HIDE DEF n
<1>3. /\ DOMAIN q = DOMAIN l
      /\ \A f \in All : q[f] = l[f]
  BY <1>1, <1>2 DEF RPCListening
<1> HIDE DEF l
<1>4. /\ DOMAIN b = DOMAIN q
      /\ \A f \in All : b[f] = q[f]
  BY <1>1, <1>2, <1>3 DEF BlockLimits
<1> HIDE DEF q
<1>5. \A f \in All : Normalized(b, c)[f] = b[f]
  BY <1>1, <1>2, <1>3, <1>4 DEF Normalized
<1>6. Adjusted(c, hosts) = Normalized(b, c)
  BY DEF Adjusted, b, q, l, n
<1> HIDE DEF b
<1> QED
  BY <1>1, <1>2, <1>3, <1>4, <1>5, <1>6

LEMMA TwoAppended ==
  ASSUME NEW S, NEW d \in Seq(S), NEW x \in S, NEW y \in S
  PROVE  Append(d, x) # d /\ (Append(d, x) = Append(d, y) => x = y)
OBVIOUS

LEMMA TwoJoined ==
  ASSUME NEW S, NEW d \in Seq(S), NEW x \in S, NEW y \in S, Join(d, x) = Join(d, y)
  PROVE  x = y
<1>1. /\ Append(d, x) # d /\ Append(d, y) # d
      /\ Append(d, x) = Append(d, y) => x = y
  BY TwoAppended, Zenon
<1> QED
  BY <1>1, Zenon DEF Join

\* The name of a network's directory.
LEMMA NetworkNames ==
  ASSUME NEW c, NetworkOK(c)
  PROVE  LET name == netName(activeNetParams(c))
         IN  \/ Chosen(c) = {} /\ name = ""
             \/ Chosen(c) = {"RegressionTest"} /\ name = ""
             \/ Chosen(c) = {"TestNet3"} /\ name = "testnet"
             \/ Chosen(c) = {"SimNet"} /\ name = "simnet"
             \/ Chosen(c) = {"SigNet"} /\ name = "signet"
<1> DEFINE All == {"TestNet3", "RegressionTest", "SimNet", "SigNet"}
<1>1. IsFiniteSet(All)
  <2>1. IsFiniteSet({})
    BY FS_EmptySet
  <2>2. IsFiniteSet({} \cup {"TestNet3"})
    BY <2>1, FS_AddElement
  <2>3. IsFiniteSet({} \cup {"TestNet3"} \cup {"RegressionTest"})
    BY <2>2, FS_AddElement
  <2>4. IsFiniteSet({} \cup {"TestNet3"} \cup {"RegressionTest"} \cup {"SimNet"})
    BY <2>3, FS_AddElement
  <2>5. IsFiniteSet({} \cup {"TestNet3"} \cup {"RegressionTest"} \cup {"SimNet"} \cup {"SigNet"})
    BY <2>4, FS_AddElement
  <2>6. All = {} \cup {"TestNet3"} \cup {"RegressionTest"} \cup {"SimNet"} \cup {"SigNet"}
    OBVIOUS
  <2> QED
    BY <2>5, <2>6
<1>2. Chosen(c) \subseteq All /\ Cardinality(Chosen(c)) <= 1
  BY DEF Chosen, NetworkOK
<1>3. IsFiniteSet(Chosen(c)) /\ Cardinality(Chosen(c)) \in Nat
  BY <1>1, <1>2, FS_Subset, FS_CardinalityType
<1>4. Chosen(c) = {} \/ \E x \in All : Chosen(c) = {x}
  <2>1. Cardinality(Chosen(c)) = 0 \/ Cardinality(Chosen(c)) = 1
    BY <1>2, <1>3
  <2> QED
    BY <1>2, <1>3, <2>1, FS_EmptySet, FS_Singleton
<1>5. \A x \in All : x \in Chosen(c) <=> c[x]
  BY DEF Chosen
<1> HIDE <1>1, <1>2, <1>3
<1>6. /\ netName(MainNetParams) = "" /\ netName(RegressionNetParams) = ""
      /\ netName(TestNet3Params) = "testnet" /\ netName(SimNetParams) = "simnet"
      /\ netName(SigNetParams) = "signet"
  BY DEF netName, MainNetParams, RegressionNetParams, TestNet3Params, SimNetParams, SigNetParams
<1>7. CASE Chosen(c) = {}
  <2>1. ~c.SigNet /\ ~c.SimNet /\ ~c.RegressionTest /\ ~c.TestNet3
    BY <1>5, <1>7
  <2> QED
    BY <1>6, <1>7, <2>1 DEF activeNetParams
<1>8. CASE Chosen(c) = {"SigNet"}
  <2>1. c.SigNet
    BY <1>5, <1>8
  <2>2. ~c.SimNet /\ ~c.RegressionTest /\ ~c.TestNet3
    BY <1>5, <1>8
  <2> QED
    BY <1>6, <1>8, <2>1, <2>2 DEF activeNetParams
<1>9. CASE Chosen(c) = {"SimNet"}
  <2>1. c.SimNet /\ ~c.SigNet /\ ~c.RegressionTest /\ ~c.TestNet3
    BY <1>5, <1>9
  <2> QED
    BY <1>6, <1>9, <2>1 DEF activeNetParams
<1>10. CASE Chosen(c) = {"RegressionTest"}
  <2>1. c.RegressionTest /\ ~c.SigNet /\ ~c.SimNet /\ ~c.TestNet3
    BY <1>5, <1>10
  <2> QED
    BY <1>6, <1>10, <2>1 DEF activeNetParams
<1>11. CASE Chosen(c) = {"TestNet3"}
  <2>1. c.TestNet3 /\ ~c.SigNet /\ ~c.SimNet /\ ~c.RegressionTest
    BY <1>5, <1>11
  <2> QED
    BY <1>6, <1>11, <2>1 DEF activeNetParams
<1> QED
  BY <1>4, <1>7, <1>8, <1>9, <1>10, <1>11, Zenon

\* All words that addresses and directories are made of.
Words == STRING \cup Ports \cup {"data", "logs", "testnet", "simnet", "signet"}

LEMMA OneWord == ASSUME NEW S, NEW x \in S PROVE <<x>> \in Seq(S)
OBVIOUS

\* The network and the name of its directory.
Named(network, name) ==
  \/ network = {} /\ name = ""
  \/ network = {"RegressionTest"} /\ name = ""
  \/ network = {"TestNet3"} /\ name = "testnet"
  \/ network = {"SimNet"} /\ name = "simnet"
  \/ network = {"SigNet"} /\ name = "signet"

\* A directory lies in the one that is given.
LEMMA DirectoryNamed ==
  ASSUME NEW o, Typed(o), NEW hosts, NEW r \in LoadConfig(o, NoArgs, hosts),
         NEW a \in Directories(Parsed(o, NoArgs), r)
  PROVE  \E name \in Words :
           a.base \in Seq(Words) /\ a.dir = Join(a.base, name) /\ Named(a.network, name)
<1> DEFINE c == Parsed(o, NoArgs)
           name == netName(activeNetParams(c))
<1>1. r = Adjusted(c, hosts) /\ NetworkOK(c)
  BY DEF LoadConfig
<1>2. /\ {"DataDir", "LogDir", "Proxy", "OnionProxy", "NoOnion", "TorIsolation"} \subseteq DOMAIN c
      /\ c.DataDir = Option("DataDir", o, NoArgs) /\ c.LogDir = Option("LogDir", o, NoArgs)
  BY DEF Parsed, Default
<1>3. c.DataDir \in Seq(Words) /\ c.LogDir \in Seq(Words)
  <2>1. Default["DataDir"] = <<"data">> /\ Default["LogDir"] = <<"logs">>
    BY DEF Default
  <2>2. <<"data">> \in Seq(Words) /\ <<"logs">> \in Seq(Words)
    BY OneWord, Zenon DEF Words
  <2>3. \A s \in Seq(STRING) : s \in Seq(Words)
    <3>1. STRING \subseteq Words
      BY Zenon DEF Words
    <3> QED
      BY <3>1, WiderSeq, Zenon
  <2> QED
    BY <1>2, <2>1, <2>2, <2>3, GivenOptions, Zenon DEF Typed
<1>4. Named(Chosen(c), name)
  BY <1>1, NetworkNames, Zenon DEF Named
<1>5. name \in Words
  BY <1>4, Zenon DEF Named, Words, Ports
<1>6. r.DataDir = Join(c.DataDir, name) /\ r.LogDir = Join(c.LogDir, name)
  BY <1>1, <1>2, KeptFields
<1> HIDE DEF c, name
<1>7. /\ a.network = Chosen(c)
      /\ \/ a.base = c.DataDir /\ a.dir = r.DataDir
         \/ a.base = c.LogDir /\ a.dir = r.LogDir
  BY DEF Directories, c
<1> QED
  BY <1>3, <1>4, <1>5, <1>6, <1>7, Zenon

LEMMA DirectoriesApart ==
  ASSUME NEW a, NEW b, NEW x \in Words, NEW y \in Words,
         a.base \in Seq(Words), a.dir = Join(a.base, x), b.dir = Join(b.base, y),
         Named(a.network, x), Named(b.network, y)
  PROVE  Apart(a, b)
<1> SUFFICES ASSUME a.base = b.base, a.dir = b.dir
             PROVE  a.network = b.network \/ a.network \cup b.network = {"RegressionTest"}
  BY DEF Apart
<1>1. x = y
  BY TwoJoined, Zenon
<1> QED
  BY <1>1 DEF Named

(***************************************************************************)
(* loadConfig is right about all options there are, and not only those     *)
(* that are tried: limits, addresses, listeners, credentials, directories  *)
(* and the precedence of file and command line.                            *)
(***************************************************************************)
THEOREM ConfigConsistentCorrect == Spec => []ConfigConsistent
<1>1. ASSUME NEW o \in Options, NEW r \in Loaded(o)
      PROVE  BlockLimitsOrdered(Parsed(o, NoArgs)) /\ Consistent(Parsed(o, NoArgs), r)
  <2> DEFINE c == Parsed(o, NoArgs)
  <2>1. Typed(o) /\ Localhost \in Seq(STRING) /\ Localhost # <<>>
    BY OptionsAssumption, Zenon
  <2>2. BlockLimitsOrdered(c)
    <3>1. \A n \in {"BlockMaxSize", "BlockMaxWeight", "BlockMinSize", "BlockMinWeight",
                    "BlockPrioritySize"} : n \in DOMAIN c /\ c[n] \in Nat
      BY <2>1, TypedOptions, Zenon
    <3> HIDE DEF c
    <3> QED
      BY <3>1, BlockLimitsCorrect
  <2>3. STRING \subseteq Words /\ Ports \subseteq Words
    BY Zenon DEF Words
  <2>4. Localhost \in Seq(Words)
    BY <2>1, <2>3, WiderSeq, Zenon
  <2>5. Seq(HostPort) \subseteq Seq(AddressOf(Words))
    <3>1. HostPort \subseteq AddressOf(Words)
      BY <2>3, HostPorts, WiderAddress, Zenon
    <3> QED
      BY <3>1, WiderSeq, Zenon
  <2>6. \A n \in {"Listeners", "AddPeers", "ConnectPeers", "RPCListeners"} :
          Option(n, o, NoArgs) \in Seq(AddressOf(Words))
    BY <2>1, <2>5, TypedOptions, Zenon
  <2>7. Consistent(c, r)
    BY <2>1, <2>3, <2>4, <2>6, ConsistentCorrect, Zenon DEF Loaded
  <2> QED
    BY <2>2, <2>7
<1>2. ASSUME NEW o \in Options, NEW p \in Options, NEW r \in Loaded(o), NEW s \in Loaded(p),
             NEW a \in Directories(Parsed(o, NoArgs), r), NEW b \in Directories(Parsed(p, NoArgs), s)
      PROVE  Apart(a, b)
  <2>1. Typed(o) /\ Typed(p)
    BY OptionsAssumption, Zenon
  <2>2. PICK x \in Words : a.base \in Seq(Words) /\ a.dir = Join(a.base, x) /\ Named(a.network, x)
    BY <2>1, DirectoryNamed, Zenon DEF Loaded
  <2>3. PICK y \in Words : b.base \in Seq(Words) /\ b.dir = Join(b.base, y) /\ Named(b.network, y)
    BY <2>1, DirectoryNamed, Zenon DEF Loaded
  <2> QED
    BY <2>2, <2>3, DirectoriesApart, Zenon
<1>3. ASSUME NEW o \in Options, "ShowVersion" \notin DOMAIN o
      PROVE  LoadConfig(NoArgs, o, Localhost) = Loaded(o)
  <2>1. Pre("ShowVersion", o) = Pre("ShowVersion", NoArgs)
    BY <1>3 DEF Pre, NoArgs
  <2> QED
    BY <2>1, SameFromFile, Zenon DEF LoadConfig, Loaded
<1> DEFINE Of(o) == UNION {Directories(Parsed(o, NoArgs), r) : r \in Loaded(o)}
           used == UNION {Of(o) : o \in Options}
<1>4. \A a, b \in used : Apart(a, b)
  <2> TAKE a, b \in used
  <2>1. PICK o \in Options : a \in Of(o)
    BY Zenon
  <2>2. PICK p \in Options : b \in Of(p)
    BY Zenon
  <2>3. PICK r \in Loaded(o) : a \in Directories(Parsed(o, NoArgs), r)
    BY <2>1, Zenon
  <2>4. PICK s \in Loaded(p) : b \in Directories(Parsed(p, NoArgs), s)
    BY <2>2, Zenon
  <2> QED
    BY <1>2, <2>3, <2>4, Zenon
<1>5. ConfigConsistent
  BY <1>1, <1>3, <1>4, Zenon DEF ConfigConsistent
<1> QED
  BY <1>5, PTL

(***************************************************************************)
(* acbcDial and acbcLookup with any options that loadConfig accepts: as    *)
(* RoutingCorrect says, the direct dialing without a proxy included.       *)
(***************************************************************************)
THEOREM TorRoutingCorrect == Spec => []TorRouting
<1>1. ASSUME NEW o \in Options, NEW r \in Loaded(o) PROVE Routed(r)
  <2> DEFINE c == Parsed(o, NoArgs)
  <2>1. Typed(o)
    BY OptionsAssumption, Zenon
  <2>2. r = Adjusted(c, Localhost)
    BY DEF Loaded, LoadConfig
  <2>3. {"DataDir", "LogDir", "Proxy", "OnionProxy", "NoOnion", "TorIsolation"} \subseteq DOMAIN c
    BY DEF Parsed, Default
  <2>4. /\ c.NoOnion \in BOOLEAN /\ c.TorIsolation \in BOOLEAN
        /\ c.Proxy \in Seq(STRING) /\ c.OnionProxy \in Seq(STRING)
    BY <2>1, TypedOptions, Zenon
  <2>5. /\ r.NoOnion = c.NoOnion /\ r.TorIsolation = c.TorIsolation
        /\ r.Proxy = c.Proxy /\ r.OnionProxy = c.OnionProxy
    BY <2>2, <2>3, KeptFields
  <2> HIDE DEF c
  <2>6. /\ r.NoOnion \in BOOLEAN /\ r.TorIsolation \in BOOLEAN
        /\ r.Proxy \in Seq(STRING) /\ r.OnionProxy \in Seq(STRING)
    BY <2>4, <2>5, Zenon
  <2> HIDE <2>2
  <2> QED
    BY <2>6, RoutingCorrect
<1>2. TorRouting
  BY <1>1, Zenon DEF TorRouting
<1> QED
  BY <1>2, PTL

-------------------------------------------------------------------------------
(* TorLookupIP.                                                            *)

\* A part of a sequence.
LEMMA Part ==
  ASSUME NEW S, NEW s \in Seq(S), NEW a \in 1 .. Len(s) + 1, NEW b \in a - 1 .. Len(s)
  PROVE  /\ SubSeq(s, a, b) \in Seq(S)
         /\ Len(SubSeq(s, a, b)) = b - a + 1
         /\ \A i \in 1 .. b - a + 1 : SubSeq(s, a, b)[i] = s[a + i - 1]
OBVIOUS

\* What Read leaves and returns.
Reads(n, in) ==
  /\ Read(n, in).n = IF Len(in[1]) < n THEN Len(in[1]) ELSE n
  /\ Read(n, in).buf = [i \in 1 .. n |-> IF i <= Len(in[1]) THEN in[1][i] ELSE 0]
  /\ Read(n, in).rest \in Seq(Seq(Byte))
  /\ Len(in[1]) <= n =>
       /\ Len(Read(n, in).rest) = Len(in) - 1
       /\ \A k \in 1 .. Len(in) - 1 : Read(n, in).rest[k] = in[k + 1]
  /\ Len(in[1]) > n =>
       /\ Len(Read(n, in).rest) = Len(in)
       /\ Read(n, in).rest[1] = SubSeq(in[1], n + 1, Len(in[1]))

LEMMA Reading ==
  ASSUME NEW in \in Seq(Seq(Byte)), in # <<>>, NEW n \in Nat
  PROVE  Reads(n, in)
<1> DEFINE first == in[1]
           got == IF Len(first) < n THEN Len(first) ELSE n
<1>1. first \in Seq(Byte) /\ Len(first) \in Nat /\ Len(in) \in Nat /\ Len(in) >= 1
  OBVIOUS
<1>2. /\ Read(n, in).n = got
      /\ Read(n, in).buf = [i \in 1 .. n |-> IF i <= got THEN first[i] ELSE 0]
      /\ Read(n, in).rest = IF got = Len(first) THEN Tail(in)
                            ELSE <<SubSeq(first, got + 1, Len(first))>> \o Tail(in)
  BY DEF Read
<1>3. Tail(in) \in Seq(Seq(Byte)) /\ Len(Tail(in)) = Len(in) - 1
      /\ \A k \in 1 .. Len(in) - 1 : Tail(in)[k] = in[k + 1]
  BY <1>1
<1> HIDE DEF first
<1>4. \A i \in 1 .. n : (i <= got) <=> (i <= Len(first))
  BY <1>1
<1>5. Read(n, in).buf = [i \in 1 .. n |-> IF i <= Len(first) THEN first[i] ELSE 0]
  BY <1>2, <1>4
<1>6. ASSUME Len(first) <= n
      PROVE  /\ Read(n, in).rest \in Seq(Seq(Byte))
             /\ Len(Read(n, in).rest) = Len(in) - 1
             /\ \A k \in 1 .. Len(in) - 1 : Read(n, in).rest[k] = in[k + 1]
  <2>1. got = Len(first)
    BY <1>1, <1>6
  <2>2. Read(n, in).rest = Tail(in)
    BY <1>2, <2>1
  <2> QED
    BY <1>3, <2>2
<1>7. ASSUME Len(first) > n
      PROVE  /\ Read(n, in).rest \in Seq(Seq(Byte))
             /\ Len(Read(n, in).rest) = Len(in)
             /\ Read(n, in).rest[1] = SubSeq(first, n + 1, Len(first))
  <2> DEFINE part == SubSeq(first, n + 1, Len(first))
  <2>1. got = n /\ got # Len(first)
    BY <1>1, <1>7
  <2>2. part \in Seq(Byte)
    BY <1>1, <1>7, Part
  <2>3. Read(n, in).rest = <<part>> \o Tail(in)
    BY <1>2, <2>1
  <2> HIDE DEF part
  <2>4. /\ <<part>> \o Tail(in) \in Seq(Seq(Byte))
        /\ Len(<<part>> \o Tail(in)) = Len(in)
        /\ (<<part>> \o Tail(in))[1] = part
    BY <1>1, <1>3, <2>2
  <2> QED
    BY <2>3, <2>4, Zenon DEF part
<1>8. Len(first) <= n \/ Len(first) > n
  BY <1>1
<1> QED
  BY <1>2, <1>5, <1>6, <1>7, <1>8, Zenon DEF Reads, first

\* The first two segments.
Begins(bytes, cuts, segs) ==
  /\ segs \in Seq(Seq(Byte))
  /\ Len(segs) >= 1
  /\ \E e \in cuts \cup {Len(bytes)} :
       /\ \A f \in cuts : e <= f
       /\ segs[1] = SubSeq(bytes, 1, e)
       /\ e = Len(bytes) => Len(segs) = 1
       /\ e # Len(bytes) =>
            /\ Len(segs) >= 2
            /\ \E g \in cuts \cup {Len(bytes)} :
                 /\ e < g
                 /\ \A f \in cuts : e < f => g <= f
                 /\ segs[2] = SubSeq(bytes, e + 1, g)

LEMMA FirstSegments ==
  ASSUME NEW bytes \in Seq(Byte), Len(bytes) >= 1, NEW cuts, cuts \subseteq 1 .. Len(bytes) - 1
  PROVE  Begins(bytes, cuts, Segments(bytes, cuts))
<1> DEFINE F == cuts \cup {Len(bytes)}
           n == Len(bytes)
           N == Cardinality(F)
           Rank(e) == Cardinality({f \in F : f <= e})
           Last(k) == CHOOSE e \in F : Rank(e) = k
           segs == Segments(bytes, cuts)
<1>0. n \in Nat /\ n >= 1 /\ n \in F
  OBVIOUS
<1>1. F \subseteq 1 .. n /\ F \subseteq Nat /\ \A f \in F : f \in Nat /\ 1 <= f /\ f <= n
  <2>1. \A f \in cuts : f \in Nat /\ 1 <= f /\ f <= n
    <3> TAKE f \in cuts
    <3>1. f \in 1 .. n - 1
      OBVIOUS
    <3> QED
      BY <1>0, <3>1
  <2>2. \A f \in F : f \in Nat /\ 1 <= f /\ f <= n
    BY <1>0, <2>1
  <2> HIDE DEF F, n
  <2> QED
    BY <1>0, <2>2
<1>2. IsFiniteSet(F)
  <2>1. IsFiniteSet(1 .. n)
    BY <1>0, FS_Interval
  <2> QED
    BY <1>1, <2>1, FS_Subset
<1>3. segs = [k \in 1 .. N |-> SubSeq(bytes, IF k = 1 THEN 1 ELSE Last(k - 1) + 1, Last(k))]
  BY DEF Segments
<1> HIDE DEF F, n, segs
<1>4. /\ N \in Nat /\ \A i \in F : Rank(i) \in 1 .. N
      /\ \A k \in 1 .. N : \E i \in F : Rank(i) = k
  BY <1>0, <1>1, <1>2, Ranks
<1>5. \A i, k \in F : i < k => Rank(i) < Rank(k)
  BY <1>0, <1>1, <1>2, RanksGrow
<1> HIDE DEF N, Rank
<1>6. \A k \in 1 .. N : Last(k) \in F /\ Rank(Last(k)) = k
  BY <1>4
<1> HIDE DEF Last
<1>7. \A k \in 1 .. N : \A f \in F : Rank(f) >= k => Last(k) <= f
  <2> TAKE k \in 1 .. N
  <2> TAKE f \in F
  <2> HAVE Rank(f) >= k
  <2>1. Last(k) \in F /\ Rank(Last(k)) = k
    BY <1>6
  <2>2. f \in Nat /\ Last(k) \in Nat
    BY <1>1, <2>1
  <2>4. Rank(f) \in 1 .. N
    BY <1>4
  <2>3. ~ (f < Last(k))
    BY <1>4, <1>5, <2>1, <2>2, <2>4
  <2> QED
    BY <2>2, <2>3
<1>8. \A i, k \in 1 .. N : i < k => Last(i) < Last(k)
  <2> TAKE i, k \in 1 .. N
  <2> HAVE i < k
  <2>1. Last(i) \in F /\ Last(k) \in F /\ Rank(Last(i)) = i /\ Rank(Last(k)) = k
    BY <1>6
  <2>2. Last(i) <= Last(k)
    BY <1>7, <2>1
  <2>3. Last(i) # Last(k)
    BY <2>1
  <2>4. Last(i) \in Nat /\ Last(k) \in Nat
    BY <1>1, <2>1
  <2> QED
    BY <2>2, <2>3, <2>4
<1>9. N >= 1
  BY <1>0, <1>1, <1>4
<1>10. segs \in Seq(Seq(Byte)) /\ Len(segs) = N
  <2>1. ASSUME NEW k \in 1 .. N
        PROVE  SubSeq(bytes, IF k = 1 THEN 1 ELSE Last(k - 1) + 1, Last(k)) \in Seq(Byte)
    <3>1. Last(k) \in 1 .. n
      BY <1>0, <1>1, <1>6
    <3>2. CASE k = 1
      BY <1>0, <1>1, <3>1, <3>2, Part DEF n
    <3>3. CASE k # 1
      <4>1. k - 1 \in 1 .. N /\ k - 1 < k
        BY <1>4, <3>3
      <4>2. Last(k - 1) \in 1 .. n /\ Last(k - 1) < Last(k)
        BY <1>0, <1>1, <1>6, <1>8, <4>1
      <4>3. SubSeq(bytes, Last(k - 1) + 1, Last(k)) \in Seq(Byte)
        BY <1>0, <1>1, <3>1, <4>2, Part DEF n
      <4> QED
        BY <3>3, <4>3
    <3> QED
      BY <3>2, <3>3
  <2> QED
    BY <1>3, <1>4, <2>1
<1>11. Last(1) \in F /\ (\A f \in F : Last(1) <= f) /\ segs[1] = SubSeq(bytes, 1, Last(1))
  <2>1. 1 \in 1 .. N
    BY <1>4, <1>9
  <2>2. \A f \in F : Rank(f) >= 1
    BY <1>4
  <2>3. segs[1] = SubSeq(bytes, 1, Last(1))
    BY <1>3, <2>1
  <2> QED
    BY <1>6, <1>7, <2>1, <2>2, <2>3
<1>12. ASSUME Last(1) = n PROVE N = 1
  <2>1. ASSUME N # 1 PROVE FALSE
    <3>1. 1 \in 1 .. N /\ 2 \in 1 .. N
      BY <1>4, <1>9, <2>1
    <3>2. Last(1) < Last(2)
      BY <1>8, <3>1
    <3>3. Last(2) \in F
      BY <1>6, <3>1
    <3>4. Last(2) \in Nat /\ Last(2) <= n
      BY <1>1, <3>3
    <3> QED
      BY <1>0, <1>12, <3>2, <3>4
  <2> QED
    BY <2>1
<1>13. ASSUME Last(1) # n
       PROVE  /\ N >= 2
              /\ Last(2) \in F /\ Last(1) < Last(2)
              /\ \A f \in F : Last(1) < f => Last(2) <= f
              /\ segs[2] = SubSeq(bytes, Last(1) + 1, Last(2))
  <2>1. 1 \in 1 .. N
    BY <1>4, <1>9
  <2>2. Last(1) \in F /\ Rank(Last(1)) = 1
    BY <1>6, <2>1
  <2>3. \A f \in F : Last(1) < f => Rank(f) >= 2
    BY <1>4, <1>5, <2>2
  <2>4. Last(1) < n
    <3>1. Last(1) \in Nat /\ Last(1) <= n
      BY <1>1, <2>2
    <3> QED
      BY <1>0, <1>13, <3>1
  <2>5. N >= 2
    BY <1>0, <1>1, <1>4, <2>3, <2>4
  <2>6. 2 \in 1 .. N
    BY <1>4, <2>5
  <2>7. segs[2] = SubSeq(bytes, Last(1) + 1, Last(2))
    <3>1. segs[2] = SubSeq(bytes, IF 2 = 1 THEN 1 ELSE Last(2 - 1) + 1, Last(2))
      BY <1>3, <2>6, Zenon
    <3>2. 2 - 1 = 1 /\ 2 # 1
      OBVIOUS
    <3> QED
      BY <3>1, <3>2
  <2> QED
    BY <1>6, <1>7, <1>8, <2>1, <2>3, <2>5, <2>6, <2>7
<1>14. segs \in Seq(Seq(Byte)) /\ Len(segs) >= 1
  BY <1>9, <1>10
<1>15. /\ Last(1) \in F
       /\ \A f \in cuts : Last(1) <= f
       /\ segs[1] = SubSeq(bytes, 1, Last(1))
       /\ Last(1) = n => Len(segs) = 1
       /\ Last(1) # n =>
            /\ Len(segs) >= 2
            /\ Last(2) \in F
            /\ Last(1) < Last(2)
            /\ \A f \in cuts : Last(1) < f => Last(2) <= f
            /\ segs[2] = SubSeq(bytes, Last(1) + 1, Last(2))
  BY <1>10, <1>11, <1>12, <1>13 DEF F
<1> QED
  BY <1>14, <1>15, Zenon DEF Begins, F, n, segs

\* Four bytes from the middle of a sequence.
LEMMA FourBytes ==
  ASSUME NEW S, NEW s \in Seq(S), NEW t \in Seq(S), NEW a \in Nat, a + 4 <= Len(s),
         Len(t) >= 4, \A i \in 1 .. 4 : t[i] = s[a + i]
  PROVE  [i \in 1 .. 4 |-> t[i]] = SubSeq(s, a + 1, a + 4)
<1>1. Len(s) \in Nat
  OBVIOUS
<1>2. a + 1 \in 1 .. Len(s) + 1 /\ a + 4 \in (a + 1) - 1 .. Len(s) /\ (a + 4) - (a + 1) + 1 = 4
  BY <1>1
<1> DEFINE u == SubSeq(s, a + 1, a + 4)
<1>3. u \in Seq(S) /\ Len(u) = 4 /\ \A i \in 1 .. 4 : u[i] = s[(a + 1) + i - 1]
  BY <1>2, Part
<1> HIDE DEF u
<1>4. \A i \in 1 .. 4 : u[i] = t[i]
  <2> TAKE i \in 1 .. 4
  <2>1. (a + 1) + i - 1 = a + i
    OBVIOUS
  <2> QED
    BY <1>3, <2>1
<1>5. DOMAIN u = 1 .. 4
  BY <1>3
<1>6. u = [i \in 1 .. 4 |-> t[i]]
  BY <1>3, <1>4, <1>5
<1> QED
  BY <1>6 DEF u

\* What is made of the segment in which the address is expected.
LEMMA AddressRead ==
  ASSUME NEW in \in Seq(Seq(Byte))
  PROVE  /\ in = <<>> => Address(in) = NoAddress
         /\ in # <<>> /\ Len(in[1]) < 4 => Address(in) = NoAddress
         /\ in # <<>> /\ Len(in[1]) >= 4 => Address(in) = [i \in 1 .. 4 |-> in[1][i]]
<1>1. in = <<>> => Address(in) = NoAddress
  BY DEF Address
<1>2. ASSUME in # <<>>
      PROVE  /\ Len(in[1]) < 4 => Address(in) = NoAddress
             /\ Len(in[1]) >= 4 => Address(in) = [i \in 1 .. 4 |-> in[1][i]]
  <2> DEFINE L == Len(in[1])
  <2>1. L \in Nat
    BY <1>2
  <2>2. /\ Read(4, in).n = IF L < 4 THEN L ELSE 4
        /\ Read(4, in).buf = [i \in 1 .. 4 |-> IF i <= L THEN in[1][i] ELSE 0]
    <3>1. Reads(4, in)
      BY <1>2, Reading
    <3> QED
      BY <3>1, Zenon DEF Reads
  <2> HIDE DEF L
  <2>3. L < 4 => Address(in) = NoAddress
    BY <1>2, <2>1, <2>2 DEF Address
  <2>4. ASSUME L >= 4 PROVE Address(in) = [i \in 1 .. 4 |-> in[1][i]]
    <3>1. \A i \in 1 .. 4 : i <= L
      BY <2>1, <2>4
    <3>2. Read(4, in).buf = [i \in 1 .. 4 |-> in[1][i]]
      BY <2>2, <3>1, Zenon
    <3>3. Read(4, in).n = 4
      BY <2>1, <2>2, <2>4
    <3> QED
      BY <1>2, <3>2, <3>3, Zenon DEF Address
  <2> QED
    BY <2>3, <2>4 DEF L
<1> QED
  BY <1>1, <1>2

\* What is made of the segment in which the header is expected.
LEMMA HeaderRead ==
  ASSUME NEW in \in Seq(Seq(Byte)), in # <<>>
  PROVE  /\ Len(in[1]) < 4 => Resolved(in) = NoAddress
         /\ Len(in[1]) >= 4 =>
              Resolved(in) = IF in[1][1] = 5 /\ in[1][2] = 0 /\ in[1][4] = 1
                               THEN Address(Read(4, in).rest) ELSE NoAddress
<1> DEFINE L == Len(in[1])
           buf == Read(4, in).buf
<1>1. L \in Nat
  OBVIOUS
<1>2. buf = [i \in 1 .. 4 |-> IF i <= L THEN in[1][i] ELSE 0]
  <2>1. Reads(4, in)
    BY Reading
  <2> QED
    BY <2>1, Zenon DEF Reads
<1> HIDE DEF L
<1>3. Resolved(in) = IF buf[1] # 5 \/ buf[2] # 0 \/ buf[4] # 1 THEN NoAddress
                     ELSE Address(Read(4, in).rest)
  BY DEF Resolved
<1> HIDE DEF buf
<1>4. \A i \in 1 .. 4 : buf[i] = IF i <= L THEN in[1][i] ELSE 0
  BY <1>2
<1>5. L < 4 => Resolved(in) = NoAddress
  <2>1. L < 4 => buf[4] = 0
    BY <1>1, <1>4
  <2> QED
    BY <1>3, <2>1
<1>6. L >= 4 => buf[1] = in[1][1] /\ buf[2] = in[1][2] /\ buf[4] = in[1][4]
  BY <1>1, <1>4
<1> QED
  BY <1>3, <1>5, <1>6 DEF L

\* The answer to the second question, however it is cut.
LEMMA SecondAnswer ==
  ASSUME NEW answer \in Seq(Byte), Len(answer) = 10, NEW n \in 1 .. 10,
         NEW cuts, cuts \subseteq 1 .. n - 1
  PROVE  Resolved(Segments(SubSeq(answer, 1, n), cuts)) =
           IF /\ answer[1] = 5 /\ answer[2] = 0 /\ answer[4] = 1
              /\ n >= 8 /\ cuts \cap {1, 2, 3, 5, 6, 7} = {}
             THEN SubSeq(answer, 5, 8) ELSE NoAddress
<1> DEFINE bytes == SubSeq(answer, 1, n)
           in == Segments(bytes, cuts)
           good == answer[1] = 5 /\ answer[2] = 0 /\ answer[4] = 1
           whole == n >= 8 /\ cuts \cap {1, 2, 3, 5, 6, 7} = {}
<1>1. bytes \in Seq(Byte) /\ Len(bytes) = n /\ \A i \in 1 .. n : bytes[i] = answer[i]
  <2>1. 1 \in 1 .. Len(answer) + 1 /\ n \in 1 - 1 .. Len(answer) /\ n - 1 + 1 = n
    OBVIOUS
  <2>2. bytes \in Seq(Byte) /\ Len(bytes) = n - 1 + 1
        /\ \A i \in 1 .. n - 1 + 1 : bytes[i] = answer[1 + i - 1]
    BY <2>1, Part
  <2> HIDE DEF bytes
  <2> QED
    BY <2>1, <2>2
<1> HIDE DEF bytes
<1>2. /\ in \in Seq(Seq(Byte)) /\ Len(in) >= 1
      /\ \E e \in cuts \cup {n} :
           /\ \A f \in cuts : e <= f
           /\ in[1] = SubSeq(bytes, 1, e)
           /\ e = n => Len(in) = 1
           /\ e # n =>
                /\ Len(in) >= 2
                /\ \E g \in cuts \cup {n} :
                     /\ e < g
                     /\ \A f \in cuts : e < f => g <= f
                     /\ in[2] = SubSeq(bytes, e + 1, g)
  <2>1. Len(bytes) >= 1 /\ cuts \subseteq 1 .. Len(bytes) - 1
    BY <1>1
  <2>2. Begins(bytes, cuts, in)
    BY <1>1, <2>1, FirstSegments
  <2>3. Len(bytes) = n
    BY <1>1
  <2> HIDE DEF in
  <2> QED
    BY <2>2, <2>3, Zenon DEF Begins
<1> HIDE DEF in
<1>3. PICK e \in cuts \cup {n} :
        /\ \A f \in cuts : e <= f
        /\ in[1] = SubSeq(bytes, 1, e)
        /\ e = n => Len(in) = 1
        /\ e # n =>
             /\ Len(in) >= 2
             /\ \E g \in cuts \cup {n} :
                  /\ e < g
                  /\ \A f \in cuts : e < f => g <= f
                  /\ in[2] = SubSeq(bytes, e + 1, g)
  BY <1>2
<1>4. \A f \in cuts \cup {n} : f \in Nat /\ 1 <= f /\ f <= n
  <2> SUFFICES ASSUME NEW f \in cuts PROVE f \in Nat /\ 1 <= f /\ f <= n
    OBVIOUS
  <2>1. f \in 1 .. n - 1
    OBVIOUS
  <2> QED
    BY <2>1
<1>5. e \in Nat /\ 1 <= e /\ e <= n
  BY <1>4
<1>6. in[1] \in Seq(Byte) /\ Len(in[1]) = e /\ \A i \in 1 .. e : in[1][i] = answer[i]
  <2>1. 1 \in 1 .. Len(bytes) + 1 /\ e \in 1 - 1 .. Len(bytes) /\ e - 1 + 1 = e
    BY <1>1, <1>5
  <2>2. in[1] \in Seq(Byte) /\ Len(in[1]) = e - 1 + 1
        /\ \A i \in 1 .. e - 1 + 1 : in[1][i] = bytes[1 + i - 1]
    BY <1>1, <1>3, <2>1, Part
  <2> QED
    BY <1>1, <1>5, <2>1, <2>2
<1>7. in # <<>> /\ Len(in) \in Nat
  BY <1>2
<1> DEFINE rest == Read(4, in).rest
<1>8. ASSUME e >= 4
      PROVE  Resolved(in) = IF good THEN Address(rest) ELSE NoAddress
  <2>1. in[1][1] = answer[1] /\ in[1][2] = answer[2] /\ in[1][4] = answer[4]
    BY <1>5, <1>6, <1>8
  <2>2. Resolved(in) = IF in[1][1] = 5 /\ in[1][2] = 0 /\ in[1][4] = 1
                         THEN Address(Read(4, in).rest) ELSE NoAddress
    BY <1>2, <1>6, <1>7, <1>8, HeaderRead
  <2> QED
    BY <2>1, <2>2
<1>9. /\ rest \in Seq(Seq(Byte))
      /\ e <= 4 => Len(rest) = Len(in) - 1 /\ \A k \in 1 .. Len(in) - 1 : rest[k] = in[k + 1]
      /\ e > 4 => Len(rest) = Len(in) /\ rest[1] = SubSeq(in[1], 4 + 1, e)
  <2>1. Reads(4, in)
    BY <1>2, <1>7, Reading
  <2>2. /\ rest \in Seq(Seq(Byte))
        /\ Len(in[1]) <= 4 =>
             Len(rest) = Len(in) - 1 /\ \A k \in 1 .. Len(in) - 1 : rest[k] = in[k + 1]
        /\ Len(in[1]) > 4 =>
             Len(rest) = Len(in) /\ rest[1] = SubSeq(in[1], 4 + 1, Len(in[1]))
    BY <2>1, Zenon DEF Reads
  <2> HIDE DEF rest
  <2> QED
    BY <1>6, <2>2
<1> HIDE DEF rest
<1>10. \A t \in Seq(Byte) :
         Len(t) >= 4 /\ n >= 8 /\ (\A i \in 1 .. 4 : t[i] = answer[4 + i]) =>
           [i \in 1 .. 4 |-> t[i]] = SubSeq(answer, 5, 8)
  <2> TAKE t \in Seq(Byte)
  <2> HAVE Len(t) >= 4 /\ n >= 8 /\ (\A i \in 1 .. 4 : t[i] = answer[4 + i])
  <2>1. [i \in 1 .. 4 |-> t[i]] = SubSeq(answer, 4 + 1, 4 + 4)
    BY FourBytes
  <2>2. 4 + 1 = 5 /\ 4 + 4 = 8
    OBVIOUS
  <2> QED
    BY <2>1, <2>2
<1>11. CASE e < 4
  <2>1. Resolved(in) = NoAddress
    BY <1>2, <1>6, <1>7, <1>11, HeaderRead
  <2>2. ~whole
    BY <1>3, <1>5, <1>11
  <2> QED
    BY <2>1, <2>2 DEF in, bytes
<1>12. CASE e = 4 /\ n = 4
  <2>1. rest = <<>>
    <3>1. e = n
      BY <1>12
    <3>2. Len(in) = 1
      BY <1>3, <3>1, Zenon
    <3>3. Len(rest) = 0
      BY <1>9, <1>12, <3>2
    <3> QED
      BY <1>9, <3>3
  <2>2. Address(rest) = NoAddress
    BY <1>9, <2>1, AddressRead
  <2>3. ~whole
    BY <1>12
  <2> QED
    BY <1>8, <1>12, <2>2, <2>3 DEF in, bytes
<1>13. CASE e = 4 /\ n # 4
  <2>1. Len(in) >= 2
    BY <1>3, <1>13
  <2>2. PICK g \in cuts \cup {n} :
          e < g /\ (\A f \in cuts : e < f => g <= f) /\ in[2] = SubSeq(bytes, e + 1, g)
    BY <1>3, <1>13
  <2>3. g \in Nat /\ g <= n /\ g > 4
    BY <1>4, <1>13, <2>2
  <2>4. rest[1] = in[2] /\ rest # <<>>
    <3>1. Len(rest) >= 1 /\ 1 \in 1 .. Len(in) - 1
      BY <1>7, <1>9, <1>13, <2>1
    <3> QED
      BY <1>9, <1>13, <3>1
  <2>5. in[2] \in Seq(Byte) /\ Len(in[2]) = g - 4 /\ \A i \in 1 .. g - 4 : in[2][i] = answer[4 + i]
    <3>1. 5 \in 1 .. Len(bytes) + 1 /\ g \in 5 - 1 .. Len(bytes) /\ g - 5 + 1 = g - 4
      BY <1>1, <2>3
    <3>2. in[2] = SubSeq(bytes, 5, g)
      BY <1>13, <2>2
    <3>3. in[2] \in Seq(Byte) /\ Len(in[2]) = g - 5 + 1
          /\ \A i \in 1 .. g - 5 + 1 : in[2][i] = bytes[5 + i - 1]
      BY <1>1, <3>1, <3>2, Part
    <3>4. \A i \in 1 .. g - 4 : 5 + i - 1 = 4 + i /\ 4 + i \in 1 .. n
      BY <2>3
    <3> QED
      BY <1>1, <3>1, <3>3, <3>4
  <2>6. CASE g < 8
    <3>1. Address(rest) = NoAddress
      BY <1>9, <2>3, <2>4, <2>5, <2>6, AddressRead
    <3>2. ~whole
      <4>1. CASE g = n
        BY <2>6, <4>1
      <4>2. CASE g \in cuts
        BY <2>3, <2>6, <4>2
      <4> QED
        BY <4>1, <4>2
    <3> QED
      BY <1>8, <1>13, <3>1, <3>2 DEF in, bytes
  <2>7. CASE g >= 8
    <3>1. Len(in[2]) >= 4 /\ n >= 8 /\ \A i \in 1 .. 4 : in[2][i] = answer[4 + i]
      BY <2>3, <2>5, <2>7
    <3>2. Address(rest) = [i \in 1 .. 4 |-> rest[1][i]]
      BY <1>9, <2>4, <3>1, AddressRead
    <3>3. Address(rest) = SubSeq(answer, 5, 8)
      BY <1>10, <2>4, <2>5, <3>1, <3>2
    <3>4. whole
      <4>1. \A f \in cuts : f >= 4 /\ (f > 4 => f >= 8)
        BY <1>3, <1>4, <1>13, <2>2, <2>3, <2>7
      <4> QED
        BY <3>1, <4>1
    <3> QED
      BY <1>8, <1>13, <3>3, <3>4 DEF in, bytes
  <2> QED
    BY <2>3, <2>6, <2>7
<1>14. CASE e > 4
  <2>1. /\ rest[1] \in Seq(Byte) /\ Len(rest[1]) = e - 4
        /\ \A i \in 1 .. e - 4 : rest[1][i] = answer[4 + i]
    <3>1. 5 \in 1 .. Len(in[1]) + 1 /\ e \in 5 - 1 .. Len(in[1]) /\ e - 5 + 1 = e - 4
      BY <1>5, <1>6, <1>14
    <3>2. rest[1] = SubSeq(in[1], 5, e)
      BY <1>9, <1>14
    <3>3. rest[1] \in Seq(Byte) /\ Len(rest[1]) = e - 5 + 1
          /\ \A i \in 1 .. e - 5 + 1 : rest[1][i] = in[1][5 + i - 1]
      BY <1>6, <3>1, <3>2, Part
    <3>4. \A i \in 1 .. e - 4 : 5 + i - 1 = 4 + i /\ 4 + i \in 1 .. e
      BY <1>5, <1>14
    <3> QED
      BY <1>6, <3>1, <3>3, <3>4
  <2>2. rest # <<>>
    BY <1>2, <1>7, <1>9, <1>14
  <2>3. CASE e < 8
    <3>1. Address(rest) = NoAddress
      BY <1>5, <1>9, <2>1, <2>2, <2>3, AddressRead
    <3>2. ~whole
      <4>1. CASE e = n
        BY <2>3, <4>1
      <4>2. CASE e \in cuts
        BY <1>5, <1>14, <2>3, <4>2
      <4> QED
        BY <4>1, <4>2
    <3> QED
      BY <1>8, <1>14, <3>1, <3>2 DEF in, bytes
  <2>4. CASE e >= 8
    <3>1. Len(rest[1]) >= 4 /\ n >= 8 /\ \A i \in 1 .. 4 : rest[1][i] = answer[4 + i]
      BY <1>5, <2>1, <2>4
    <3>2. Address(rest) = [i \in 1 .. 4 |-> rest[1][i]]
      BY <1>9, <2>2, <3>1, AddressRead
    <3>3. Address(rest) = SubSeq(answer, 5, 8)
      BY <1>10, <2>1, <3>1, <3>2
    <3>4. whole
      <4>1. \A f \in cuts : f >= 8
        BY <1>3, <1>4, <1>5, <2>4
      <4> QED
        BY <3>1, <4>1
    <3> QED
      BY <1>8, <1>14, <3>3, <3>4 DEF in, bytes
  <2> QED
    BY <1>5, <2>3, <2>4
<1> QED
  BY <1>5, <1>11, <1>12, <1>13, <1>14

\* Sequences are equal if they are equal element by element.
LEMMA SameSeq ==
  ASSUME NEW S, NEW s \in Seq(S), NEW t \in Seq(S), Len(s) = Len(t),
         \A i \in 1 .. Len(t) : s[i] = t[i]
  PROVE  s = t
OBVIOUS

\* Two sequences one behind the other.
LEMMA Joined ==
  ASSUME NEW S, NEW s \in Seq(S), NEW t \in Seq(S)
  PROVE  /\ s \o t \in Seq(S)
         /\ Len(s \o t) = Len(s) + Len(t)
         /\ \A i \in 1 .. Len(s) : (s \o t)[i] = s[i]
         /\ \A i \in 1 .. Len(t) : (s \o t)[Len(s) + i] = t[i]
OBVIOUS

\* The answer to the first question in one piece.
LEMMA MethodWhole ==
  ASSUME NEW method \in Seq(Byte), Len(method) = 2, NEW A \in Seq(Seq(Byte)), Len(A) >= 1
  PROVE  TorLookupIP(Segments(method, {}) \o A) =
           IF method = <<5, 0>> THEN Resolved(A) ELSE NoAddress
<1> DEFINE M == Segments(method, {})
           in == M \o A
<1>1. M \in Seq(Seq(Byte)) /\ Len(M) = 1 /\ M[1] = SubSeq(method, 1, 2)
  <2>1. Begins(method, {}, M)
    <3>1. Len(method) >= 1 /\ {} \subseteq 1 .. Len(method) - 1
      OBVIOUS
    <3> QED
      BY <3>1, FirstSegments, Zenon
  <2> HIDE DEF M
  <2>2. M \in Seq(Seq(Byte)) /\ \E e \in {} \cup {2} : M[1] = SubSeq(method, 1, e) /\ (e = 2 => Len(M) = 1)
    BY <2>1, Zenon DEF Begins
  <2> QED
    BY <2>2, Zenon
<1>2. M[1] \in Seq(Byte) /\ Len(M[1]) = 2 /\ \A i \in 1 .. 2 : M[1][i] = method[i]
  <2>1. 1 \in 1 .. Len(method) + 1 /\ 2 \in 1 - 1 .. Len(method) /\ 2 - 1 + 1 = 2
    OBVIOUS
  <2>2. M[1] \in Seq(Byte) /\ Len(M[1]) = 2 - 1 + 1
        /\ \A i \in 1 .. 2 - 1 + 1 : M[1][i] = method[1 + i - 1]
    <3>1. /\ SubSeq(method, 1, 2) \in Seq(Byte)
          /\ Len(SubSeq(method, 1, 2)) = 2 - 1 + 1
          /\ \A i \in 1 .. 2 - 1 + 1 : SubSeq(method, 1, 2)[i] = method[1 + i - 1]
      BY <2>1, Part
    <3> HIDE DEF M
    <3> QED
      BY <1>1, <3>1, Zenon
  <2> HIDE DEF M
  <2> QED
    BY <2>1, <2>2
<1> HIDE DEF M
<1>3. /\ in \in Seq(Seq(Byte)) /\ Len(in) = 1 + Len(A)
      /\ in[1] = M[1]
      /\ \A i \in 1 .. Len(A) : in[1 + i] = A[i]
  <2>1. /\ in \in Seq(Seq(Byte)) /\ Len(in) = Len(M) + Len(A)
        /\ \A i \in 1 .. Len(M) : in[i] = M[i]
        /\ \A i \in 1 .. Len(A) : in[Len(M) + i] = A[i]
    <3>1. M \in Seq(Seq(Byte))
      BY <1>1
    <3> QED
      BY <3>1, Joined
  <2>2. 1 \in 1 .. 1
    OBVIOUS
  <2> QED
    BY <1>1, <2>1, <2>2, Zenon
<1> HIDE DEF in
<1>4. in # <<>>
  BY <1>3
<1>5. Reads(2, in)
  BY <1>3, <1>4, Reading
<1>6. /\ Read(2, in).buf = [i \in 1 .. 2 |-> IF i <= Len(in[1]) THEN in[1][i] ELSE 0]
      /\ Read(2, in).rest \in Seq(Seq(Byte))
      /\ Len(Read(2, in).rest) = Len(in) - 1
      /\ \A k \in 1 .. Len(in) - 1 : Read(2, in).rest[k] = in[k + 1]
  <2>1. Len(in[1]) <= 2
    <3>1. Len(in[1]) = 2
      BY <1>2, <1>3, Zenon
    <3> QED
      BY <3>1
  <2> QED
    BY <1>5, <2>1, Zenon DEF Reads
<1>7. Read(2, in).rest = A
  <2> DEFINE rest == Read(2, in).rest
  <2>1. rest \in Seq(Seq(Byte)) /\ Len(rest) = Len(A)
    BY <1>3, <1>6
  <2>2. \A k \in 1 .. Len(A) : rest[k] = A[k]
    BY <1>3, <1>6
  <2> HIDE DEF rest
  <2>3. rest = A
    BY <2>1, <2>2, SameSeq
  <2> QED
    BY <2>3 DEF rest
<1>8. Read(2, in).buf = <<5, 0>> <=> method = <<5, 0>>
  <2> DEFINE buf == Read(2, in).buf
  <2>1. \A i \in 1 .. 2 : i <= Len(in[1])
    <3>1. Len(in[1]) = 2
      BY <1>2, <1>3, Zenon
    <3> QED
      BY <3>1
  <2>2. buf = [i \in 1 .. 2 |-> method[i]]
    <3>1. \A i \in 1 .. 2 : (IF i <= Len(in[1]) THEN in[1][i] ELSE 0) = method[i]
      BY <1>2, <1>3, <2>1, Zenon
    <3> QED
      BY <1>6, <3>1, Zenon
  <2>3. buf = <<method[1], method[2]>>
    BY <2>2
  <2>4. method = <<method[1], method[2]>>
    OBVIOUS
  <2> QED
    BY <2>3, <2>4
<1>9. TorLookupIP(in) = IF Read(2, in).buf # <<5, 0>> THEN NoAddress ELSE Resolved(Read(2, in).rest)
  BY <1>4, Zenon DEF TorLookupIP
<1> QED
  BY <1>7, <1>8, <1>9, Zenon DEF in, M

\* The answer to the first question in two pieces: the second is taken for a header.
LEMMA MethodCut ==
  ASSUME NEW method \in Seq(Byte), Len(method) = 2, NEW A \in Seq(Seq(Byte))
  PROVE  TorLookupIP(Segments(method, {1}) \o A) = NoAddress
<1> DEFINE M == Segments(method, {1})
           in == M \o A
<1>1. PICK e \in {1} \cup {2} :
        /\ M \in Seq(Seq(Byte))
        /\ \A f \in {1} : e <= f
        /\ M[1] = SubSeq(method, 1, e)
        /\ e # 2 => /\ Len(M) >= 2
                    /\ \E g \in {1} \cup {2} : e < g /\ M[2] = SubSeq(method, e + 1, g)
  <2>1. Begins(method, {1}, M)
    <3>1. Len(method) >= 1 /\ {1} \subseteq 1 .. Len(method) - 1
      OBVIOUS
    <3> QED
      BY <3>1, FirstSegments, Zenon
  <2> HIDE DEF M
  <2> QED
    BY <2>1, Zenon DEF Begins
<1> HIDE DEF M
<1>2. e = 1
  BY <1>1
<1>3. M \in Seq(Seq(Byte)) /\ Len(M) >= 2 /\ M[1] = SubSeq(method, 1, 1) /\ M[2] = SubSeq(method, 2, 2)
  BY <1>1, <1>2
<1>4. Len(M[1]) = 1 /\ Len(M[2]) = 1
  <2>1. 1 \in 1 .. Len(method) + 1 /\ 1 \in 1 - 1 .. Len(method) /\ 1 - 1 + 1 = 1
    OBVIOUS
  <2>2. 2 \in 1 .. Len(method) + 1 /\ 2 \in 2 - 1 .. Len(method) /\ 2 - 2 + 1 = 1
    OBVIOUS
  <2>3. Len(SubSeq(method, 1, 1)) = 1 - 1 + 1 /\ Len(SubSeq(method, 2, 2)) = 2 - 2 + 1
    BY <2>1, <2>2, Part
  <2> QED
    BY <1>3, <2>1, <2>2, <2>3
<1>5. in \in Seq(Seq(Byte)) /\ Len(in) \in Nat /\ Len(in) >= 2 /\ in[1] = M[1] /\ in[2] = M[2]
  <2>1. Len(M) \in Nat /\ Len(A) \in Nat /\ 1 \in 1 .. Len(M) /\ 2 \in 1 .. Len(M)
    BY <1>3
  <2> QED
    BY <1>3, <2>1, Joined
<1> HIDE DEF in
<1>6. in # <<>>
  BY <1>5
<1>7. Reads(2, in)
  BY <1>5, <1>6, Reading
<1> DEFINE rest == Read(2, in).rest
<1>8. rest \in Seq(Seq(Byte)) /\ Len(rest) = Len(in) - 1
      /\ \A k \in 1 .. Len(in) - 1 : rest[k] = in[k + 1]
  <2>1. Len(in[1]) <= 2
    <3>1. Len(in[1]) = 1
      BY <1>4, <1>5, Zenon
    <3> QED
      BY <3>1
  <2> QED
    BY <1>7, <2>1, Zenon DEF Reads
<1>9. rest # <<>> /\ rest[1] = in[2]
  <2>1. 1 \in 1 .. Len(in) - 1 /\ Len(rest) >= 1
    BY <1>5, <1>8
  <2>2. rest[1] = in[1 + 1]
    BY <1>8, <2>1, Zenon
  <2> HIDE DEF rest
  <2> QED
    BY <1>8, <2>1, <2>2
<1> HIDE DEF rest
<1>10. Resolved(rest) = NoAddress
  <2>1. Len(rest[1]) < 4
    <3>1. Len(rest[1]) = 1
      BY <1>4, <1>5, <1>9, Zenon
    <3> QED
      BY <3>1
  <2> QED
    BY <1>8, <1>9, <2>1, HeaderRead
<1>11. TorLookupIP(in) = IF Read(2, in).buf # <<5, 0>> THEN NoAddress ELSE Resolved(rest)
  BY <1>6, Zenon DEF TorLookupIP, rest
<1> QED
  BY <1>10, <1>11, Zenon DEF in, M

\* TorLookupIP is exact.
LEMMA TorIsExact == TorExact
<1> SUFFICES ASSUME NEW method \in Methods, NEW answer \in Answers, NEW n \in 1 .. 10,
                    NEW split \in BOOLEAN, NEW cuts \in SUBSET (1 .. n - 1)
             PROVE  Exact(method, answer, n, split, cuts)
  BY DEF TorExact
<1> DEFINE A == Segments(SubSeq(answer, 1, n), cuts)
<1>1. /\ method \in Seq(Byte) /\ Len(method) = 2
      /\ answer \in Seq(Byte) /\ Len(answer) = 10
  BY TorAssumption, Zenon
<1>2. A \in Seq(Seq(Byte)) /\ Len(A) >= 1
  <2>1. 1 \in 1 .. Len(answer) + 1 /\ n \in 1 - 1 .. Len(answer) /\ n - 1 + 1 = n
    BY <1>1
  <2>2. SubSeq(answer, 1, n) \in Seq(Byte) /\ Len(SubSeq(answer, 1, n)) = n
    BY <1>1, <2>1, Part
  <2>3. Begins(SubSeq(answer, 1, n), cuts, A)
    <3>1. Len(SubSeq(answer, 1, n)) >= 1 /\ cuts \subseteq 1 .. Len(SubSeq(answer, 1, n)) - 1
      BY <2>2
    <3> QED
      BY <2>2, <3>1, FirstSegments, Zenon
  <2> HIDE DEF A
  <2> QED
    BY <2>3, Zenon DEF Begins
<1>3. Resolved(A) =
        IF /\ answer[1] = 5 /\ answer[2] = 0 /\ answer[4] = 1
           /\ n >= 8 /\ cuts \cap {1, 2, 3, 5, 6, 7} = {}
          THEN SubSeq(answer, 5, 8) ELSE NoAddress
  BY <1>1, SecondAnswer
<1> HIDE DEF A
<1>4. CASE ~split
  <2>1. TorLookupIP(Segments(method, {}) \o A) = IF method = <<5, 0>> THEN Resolved(A) ELSE NoAddress
    BY <1>1, <1>2, MethodWhole
  <2> QED
    BY <1>3, <1>4, <2>1, Zenon DEF Exact, A
<1>5. CASE split
  <2>1. TorLookupIP(Segments(method, {1}) \o A) = NoAddress
    BY <1>1, <1>2, MethodCut
  <2> QED
    BY <1>5, <2>1, Zenon DEF Exact, A
<1> QED
  BY <1>4, <1>5

(***************************************************************************)
(* TorLookupIP, for every answer of a proxy and every way in which it      *)
(* arrives: the address that was sent, or an error.                        *)
(***************************************************************************)
THEOREM TorAnswerCorrect == Spec => []TorAnswer
<1>1. TorAnswer
  BY TorIsExact DEF TorAnswer
<1> QED
  BY <1>1, PTL

-------------------------------------------------------------------------------
(* The end of acbcMain.                                                    *)

Before == {"config", "configWrite", "configRead", "newServer", "certOpen", "certWrite",
           "keyOpen", "keyWrite", "certRemove", "load", "parse"}

\* Steps that are taken only if the RPC server is not disabled.
WithRPC == {"certOpen", "certWrite", "keyOpen", "keyWrite", "load", "parse", "listen", "stop",
            "waitManager", "waitServe"}

Idle == /\ \A a \in Each : listener[a] = "none" /\ serve[a] = "none"
        /\ manager = "none"

\* What CleanExit promises of the services.
Clean == /\ \A a \in Each : listener[a] # "open" /\ serve[a] # "serving"
         /\ manager \in {"none", "stopped"}

(***************************************************************************)
(* How far the start or the stop has come, as long as no Serve has failed: *)
(* a listener is closed only by Stop and only in its turn, so that         *)
(* rpcServer.Stop never takes its early return.                            *)
(***************************************************************************)
Progress ==
  /\ pc # "down" => result = "none"
  /\ pc \in WithRPC => ~disableRPC
  /\ pc \in Before \/ (pc # "down" /\ disableRPC) => Idle
  /\ pc = "listen" => manager = "none" /\ \A a \in Each : serve[a] = "none"
  /\ pc = "start" => manager = "none"
  /\ accept /\ pc \in {"listen", "start", "wait"} => \A a \in Each : listener[a] # "closed"
  /\ accept /\ pc = "stop" =>
       \A a \in Each : IF a < at THEN listener[a] # "open" ELSE listener[a] # "closed"
  /\ accept /\ pc \in {"waitManager", "waitServe", "closeQuit"} =>
       \A a \in Each : listener[a] # "open"
  /\ pc = "waitServe" => manager = "stopped"
  /\ accept /\ pc = "closeQuit" => Clean

ExitInv == TypeOK /\ Started /\ Progress /\ CleanExit

\* Every step keeps ExitInv.
LEMMA ExitStep == ExitInv /\ [Next]_vars => ExitInv'
<1> SUFFICES ASSUME ExitInv, [Next]_vars PROVE Progress' /\ CleanExit'
  BY TypeStep DEF ExitInv
<1> USE DEF ExitInv, Progress, CleanExit, Before, WithRPC, Idle, Clean, history, services, config
<1> StateOK /\ Len(Addrs) \in Nat /\ Each = 1 .. Len(Addrs)
  BY Addresses DEF TypeOK
<1>1. CASE main
  BY <1>1 DEF main, Volatile, NoServices
<1>2. CASE ShowVersion \/ ConfigCreate \/ ConfigWrite
  BY <1>2 DEF ShowVersion, ConfigCreate, ConfigWrite, Exit, End, Volatile, Goto
<1>19. CASE ConfigRead
  BY <1>19, ConfigReadStep DEF Parses
<1>3. CASE ConfigError \/ CheckPair \/ NewServerWithoutRPC
  BY <1>3 DEF ConfigError, CheckPair, NewServerWithoutRPC, Exit, End, Volatile, Goto
<1>4. CASE CertOpen \/ CertWrite
  BY <1>4 DEF CertOpen, CertWrite, Exit, End, Volatile, Goto
<1>5. CASE KeyOpen \/ KeyWrite \/ CertRemove
  BY <1>5 DEF KeyOpen, KeyWrite, CertRemove, End, Volatile, Goto
<1>6. CASE LoadKeyPair \/ ParseListeners
  BY <1>6 DEF LoadKeyPair, ParseListeners, Exit, End, Volatile, Goto
<1>7. CASE Listen
  BY <1>7 DEF Listen, signals, StateOK
<1>8. CASE ListenEnd
  BY <1>8 DEF ListenEnd, Exit, End, Volatile, Goto
<1>9. CASE StartServe
  BY <1>9 DEF StartServe, signals
<1>10. CASE StartEnd \/ Interrupted
  BY <1>10 DEF StartEnd, Interrupted, Goto
<1>11. CASE CloseListener
  <2>1. CASE listener[at] = "closed"
    BY <1>11, <2>1 DEF CloseListener, Goto, StateOK
  <2>2. CASE listener[at] # "closed"
    BY <1>11, <2>2 DEF CloseListener, signals, StateOK
  <2> QED
    BY <2>1, <2>2
<1>12. CASE ShutdownManager \/ WaitManager
  BY <1>12 DEF ShutdownManager, WaitManager, Goto, StateOK
<1>13. CASE WaitServe \/ CloseQuit
  BY <1>13 DEF WaitServe, CloseQuit, Exit, End, Volatile, Goto
<1>14. CASE Notify \/ SignalReceived
  BY <1>14 DEF Notify, SignalReceived
<1>15. CASE ManagerStopped
  BY <1>15 DEF ManagerStopped, signals
<1>16. CASE Signal \/ Kill
  BY <1>16 DEF Signal, Kill, Killed, End, Volatile
<1>17. CASE \E a \in Each : ServeReturn(a) \/ ServeFail(a)
  BY <1>17 DEF ServeReturn, ServeFail, signals, StateOK
<1>18. CASE UNCHANGED vars
  BY <1>18 DEF vars, signals
<1> QED
  BY <1>1, <1>2, <1>3, <1>4, <1>5, <1>6, <1>7, <1>8, <1>9, <1>10, <1>11, <1>12, <1>13, <1>14,
     <1>15, <1>16, <1>17, <1>18, <1>19
     DEF Next, AcbcMain

(***************************************************************************)
(* server.Stop and rpcServer.Stop: however many listeners there are, when  *)
(* acbcMain has returned and no Serve had failed before, all of them are   *)
(* closed, every Serve has returned and the manager has stopped.           *)
(***************************************************************************)
THEOREM CleanExitCorrect == Spec => []CleanExit
<1>1. Init => ExitInv
  BY TypeInit DEF Init, ExitInv, Progress, CleanExit, Started, Before, WithRPC
<1>2. ExitInv => CleanExit
  BY DEF ExitInv
<1> QED
  BY <1>1, ExitStep, <1>2, PTL DEF Spec
===============================================================================
