SPECIFICATION DataSpec
CONSTANTS
  d1 = d1
  d2 = d2
  Decoders = {d1, d2}
  Inputs <- Messages
  Base = 6
  HashSize = 1
  MaxMessagePayload = 60
  FreeListMaxItems = 2
  FreeListMaxScriptSize = 2
  MaxWitnessItemsPerInput = 2
  MaxWitnessItemSize = 4
  MaxBufs = 12
  m1 = m1
  m2 = m2
  Methods = {m1, m2}
  Types <- MCTypes
  Fields <- MCFields
  Flags = {0, 7, 8}
  Clients <- SomeClients
  Cookies = {"a", "b"}
  Interval = 2
  MaxNow = 6
  One = 32
  Lifetime = 3
  Width = 8
  Charges = {0, 1, 2}
  Persistent = {0, 4}
  Decay <- MCDecay
  Start = 4
  MaxTime = 9
  MaxGranted = 5
INVARIANTS NoAliasing BuffersReturned DecodeExact WireCanonical CommandRoundTrip NtfnDelivered CookieCurrent ScoreTracksIdeal
CHECK_DEADLOCK FALSE
