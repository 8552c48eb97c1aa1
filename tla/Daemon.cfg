SPECIFICATION FairSpec
CONSTANTS
  Addrs <- ThreeAddrs
  CommandLines <- Starts
  Localhost <- TwoHosts
  RandomUser <- Users
  RandomPass <- Passes
  Options <- AllOptions
  Methods <- SomeMethods
  Answers <- SomeAnswers
  MaxStarts = 3
INVARIANTS PairFiles CleanExit CredentialsFromFile ConfigConsistent TorRouting TorAnswer
PROPERTIES PairKept InterruptEnds
CHECK_DEADLOCK FALSE
